CONSTANTS
  MaxFlights = 1
  LooksAway = TRUE
SPECIFICATION VehicleSpec
CHECK_DEADLOCK FALSE
INVARIANT LandedOnLegs
