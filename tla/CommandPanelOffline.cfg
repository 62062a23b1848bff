CONSTANTS
  Ids = {1}
  Pages = {p1}
  Faults = {thruster_loss}
  undefined = undefined
  MaxBreaks = 1
  MaxChanges = 0
SPECIFICATION Spec
CHECK_DEADLOCK FALSE
PROPERTIES
  PendingEnds
