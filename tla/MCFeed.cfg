SPECIFICATION FairSpec
CONSTANTS
  MaxCubes = 5
  Width = 3
  StagingEye = 5
  WorkZero = 11
  Gap = 1
  IdMax = 2
  MaxTroubles = 2
INVARIANTS FeedTypeOK FollowersWait LiveCoilIsWatched BooksMatchBelt EveryArrivalSeen
PROPERTIES EveryRequestFires VerbsEnd
