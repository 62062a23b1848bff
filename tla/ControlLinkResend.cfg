CONSTANTS
  Faults = {thruster_loss}
  MaxCommands = 2
  MaxBreaks = 1
  MaxRefused = 0
SPECIFICATION SafetySpec
CHECK_DEADLOCK FALSE
INVARIANTS
  FlagsFollowNewest
