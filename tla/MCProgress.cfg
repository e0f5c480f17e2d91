CONSTANTS
  r1 = r1
  r2 = r2
  p1 = p1
  f1 = f1
  Requests <- MCRequests
  Impatient <- MCImpatient
  Providers <- MCProviders
  Flights <- MCFlights
  Symbols <- MCSymbols
  Bar = "|"
  Keys <- MCKeys
  FlightRoute <- MCFlightRoute
  Offered <- MCOffered
  Asked <- MCAsked
  TTL = 1
  ProviderTimeout = 1
  HeaderTimeout = 1
  Grace = 3
  MaxTime = 1
SPECIFICATION FairSpec
INVARIANTS
  NothingCutShort
PROPERTIES
  ShutdownEnds
  EverySearchAnswers
  ExpiredIsPurged
CHECK_DEADLOCK FALSE
