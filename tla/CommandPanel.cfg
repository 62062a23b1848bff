CONSTANTS
  Ids = {1, 2}
  Pages = {p1, p2}
  Faults = {thruster_loss, packet_loss}
  undefined = undefined
  MaxBreaks = 1
  MaxChanges = 1
SPECIFICATION Spec
CHECK_DEADLOCK FALSE
INVARIANTS
  TypeOK
  StatusShown
  ShownAsIssued
PROPERTIES
  PendingEndsOnline
