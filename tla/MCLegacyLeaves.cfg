SPECIFICATION FairSpec
CONSTANTS
  MaxParts = 2
  FlashSeconds = 1
  IntakeModes = {TRUE}
  MaxTroubles = 1
PROPERTY EntrantsLeave
