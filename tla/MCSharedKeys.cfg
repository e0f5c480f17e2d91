CONSTANTS
  r1 = r1
  r2 = r2
  r3 = r3
  p1 = p1
  p2 = p2
  f1 = f1
  f2 = f2
  f3 = f3
  Requests <- PairRequests
  Providers <- PairProviders
  Flights <- MCFlights
  Symbols <- MCSymbols
  Bar = "|"
  Keys <- PairKeys
  FlightRoute <- MCFlightRoute
  Offered <- PairOffered
  Asked <- PairAsked
  Impatient <- PairImpatient
  TTL = 1
  ProviderTimeout = 1
  MaxTime = 1
SPECIFICATION Spec
INVARIANTS
  ServedOwnRoute
