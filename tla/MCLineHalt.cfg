SPECIFICATION LineSpec
CONSTANTS
  MaxParts = 4
  FlashSeconds = 1
  MaxDt = 1
  Readings = {}
  MaxHalts = 1
  MaxPauses = 1
INVARIANTS MotionInterlock SprayEnclosed WaitsForWhatRuns
