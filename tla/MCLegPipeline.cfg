SPECIFICATION Spec
CONSTANTS
  Zones <- MCZones
  AirportOffset <- MCAirportOffset
  Replies <- MCReplies
  Leg <- MCLeg
  Filters <- MCFilters
  Options <- MCOptions
INVARIANTS
  PriceCeilingComplete
  ListedAsFlown
  ClockBoundsHonoured
  EachFlightOnceWithItsQuotes
  DominanceRespected
  ScoreScale
  SortedStably
CHECK_DEADLOCK FALSE
