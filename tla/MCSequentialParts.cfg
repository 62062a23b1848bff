CONSTANTS
  Samples = {s1, s2, s3, s4, s5}
  capacity = 4
  unused = unused
  SeqModulus = 8
  undefined = undefined
  MaxOrdinal = 11
  MaxArrivals = 6
  Magics = {"FDX1", "FDX0"}
  Versions = {1, 2}
  PhaseBytes = {5, 6}
  Sizes = {162, 163, 164}
  MaxFlights = 2
  LooksAway = FALSE
SPECIFICATION Spec
CHECK_DEADLOCK FALSE
INVARIANTS
  LatestIsNewest
  CountersAddUp
  LossIsBracketed
  RoundTrip
  OnlyIntactAccepted
  SameVerdict
  GearFollowsFlight
PROPERTIES
  ImplementsWindow
