CONSTANTS
  Faults = {thruster_loss, packet_loss}
  MaxCommands = 3
  MaxBreaks = 2
  MaxRefused = 1
SPECIFICATION Spec
CHECK_DEADLOCK FALSE
INVARIANTS
  TypeOK
  RetainedUntilApplied
  SettledOnNewest
PROPERTIES
  EventuallyAcknowledged
  ImplementsService
