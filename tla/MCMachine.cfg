SPECIFICATION Spec
CONSTANTS
  MaxParts = 1
  FlashSeconds = 2
  MaxDt = 1
  Readings <- MCReadings
INVARIANTS TypeOK WetMeansOwing DryInFlight
