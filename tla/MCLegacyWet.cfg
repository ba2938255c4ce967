SPECIFICATION Spec
CONSTANTS
  MaxParts = 3
  FlashSeconds = 1
  IntakeModes = {TRUE, FALSE}
  MaxTroubles = 0
INVARIANT CoatTwoOnDryCoatOne
