SPECIFICATION LineSpec
CONSTANTS
  MaxParts = 2
  FlashSeconds = 1
  MaxDt = 1
  Readings = {}
  MaxHalts = 1
  MaxPauses = 0
INVARIANT NoBlowOnWet
