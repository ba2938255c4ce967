SPECIFICATION Spec
CONSTANTS
  MaxParts = 3
  FlashSeconds = 1
  IntakeModes = {TRUE, FALSE}
  MaxTroubles = 1
INVARIANTS LegacyTypeOK OnlyFinishedComplete CompletedInOrder
PROPERTIES FeedIsWatched FlashedBeforeReturn
