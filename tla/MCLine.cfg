SPECIFICATION FairSpec
CONSTANTS
  MaxParts = 4
  FlashSeconds = 5
  MaxDt = 1
  Readings = {}
  MaxHalts = 0
  MaxPauses = 1
INVARIANTS LineTypeOK NoBlowOnWet BeliefIsTruth HeldPartsDry OnlyFinishedLeave
PROPERTY AllOutfed
