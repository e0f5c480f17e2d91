CONSTANTS
  r1 = r1
  r2 = r2
  r3 = r3
  p1 = p1
  p2 = p2
  f1 = f1
  f2 = f2
  f3 = f3
  Requests <- TrioRequests
  Providers <- TrioProviders
  Flights <- MCFlights
  Symbols <- MCSymbols
  Bar = "|"
  Keys <- TrioKeys
  FlightRoute <- MCFlightRoute
  Offered <- TrioOffered
  Asked <- TrioAsked
  Impatient <- NoneImpatient
  TTL = 2
  ProviderTimeout = 1
  MaxTime = 3
SYMMETRY RequestSymmetry
SPECIFICATION Spec
INVARIANTS
  StalenessBounded
  RefreshBoundsAge
PROPERTIES
  ImplementsReadThrough
