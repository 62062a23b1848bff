CONSTANTS
  Clients = {dashboard}
  historyCapacity = 3
  OneSecond = 4
  SeqModulus = 32
  undefined = undefined
  Orderings = {"any"}
  MaxDelay = 4
  MaxRuns = 1
  MaxSteps = 4
  MaxInFlight = 2
  MaxUnread = 2
  MaxRejected = 1
SPECIFICATION Spec
PROPERTIES
  LateIsReordered
