SPECIFICATION FairSpec
CONSTANTS
  MaxId = 3
  Kinds = {"halt", "trip", "restart"}
  MaxTroubles = 2
INVARIANTS ZoneTypeOK AckMeansStarted
PROPERTIES StopsOnEdge KeepsContract AckAnswered
