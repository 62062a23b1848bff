CONSTANTS
  MaxOffers = 5
  Values <- Packets
  Capacity = 2
  NoValue = NoValue
SPECIFICATION UdpSpec
INVARIANTS
  UdpInv
  NoDataRace
  DrainedWhenStopped
  TrySendNeverWaits
PROPERTIES
  ImplementsFifo
  SendsInOrder
  UsableCapacity
  StopEventuallyReturns
  AcceptedIsSent
