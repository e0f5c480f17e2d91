SPECIFICATION Spec
CONSTANTS
  c1 = c1
  c2 = c2
  Calls = {c1, c2}
  Queries <- MCQueries
  MaxSegments = 3
  Providers <- MCProviders
  Found <- MCFound
SYMMETRY CallSymmetry
INVARIANTS
  EachLegInItsPlace
  EstimateIsTheCheapestTrip
  SummaryAddsUp
  OnlyOrderedTripsSearched
CHECK_DEADLOCK FALSE
