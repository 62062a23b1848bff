CONSTANTS
  Clients = {dashboard}
  historyCapacity = 3
  OneSecond = 2
  SeqModulus = 32
  undefined = undefined
  Orderings = {"fifo", "behind_first"}
  MaxDelay = 2
  MaxRuns = 2
  MaxSteps = 5
  MaxInFlight = 2
  MaxUnread = 2
  MaxRejected = 1
SPECIFICATION Spec
INVARIANTS
  TypeOK
  MetricsAddUp
  OneFlightInHistory
  HistoryInOrder
  ClientsConverge
PROPERTIES
  LateIsReordered
