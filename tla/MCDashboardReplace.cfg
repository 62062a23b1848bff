CONSTANTS
  Phases <- PhaseNames
  stride = 2
  SECOND = 1
  MAX_CLIENT_SAMPLES = 3
  historyCapacity = 4
  undefined = undefined
  descentRate <- Braking
  UpdaterRuns = {"at_render"}
  MaxFlights = 2
  MaxSteps = 3
  MaxUnread = 1
  MaxBreaks = 1
SPECIFICATION Spec
CHECK_DEADLOCK FALSE
INVARIANT OneFlightShown
