SPECIFICATION SteadySpec
CONSTANTS
  MaxParts = 6
  FlashSeconds = 2
  MaxDt = 1
  Readings <- MCReadings
INVARIANTS NoPartLost OutfedComplete RoleAlwaysMatches WetPartsUnderFans
  ShippedInOrder WalkMatchesSets
PROPERTIES NoUnderFlashedDeparture PartsTravel
