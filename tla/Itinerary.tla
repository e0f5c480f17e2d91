------------------------------ MODULE Itinerary ------------------------------
(***************************************************************************)
(* The search handler (internal/handlers): a request is validated, its     *)
(* legs are searched concurrently, one goroutine each, and the response is *)
(* written once all of them are done.                                      *)
(*                                                                         *)
(* Aggregator.Search is modelled by what it does to the store (see          *)
(* Aggregator for how), expiry by the loss of an entry at any time.  The    *)
(* cache copies what it stores and what it hands out, so lists are values.  *)
(* Airports and dates are as left by trimming and upper-casing.             *)
(***************************************************************************)
EXTENDS Listings

CONSTANTS
  Calls,        \* the HTTP requests
  Queries,      \* what they may ask
  MaxSegments,  \* maxMultiCitySegments
  Providers,    \* the providers every search queries
  Found         \* leg -> the [flights, errors] a search of it may end with

ASSUME ItineraryAssumption ==
  /\ MaxSegments \in Nat \ {0, 1}
  /\ IsFiniteSet(Providers)

\* A search ends with flights and the names of the providers that failed.
ASSUME FoundAssumption ==
  \A l \in DOMAIN Found : \A found \in Found[l] :
    Listed(found.flights) /\ found.errors \in Seq(Providers)

VARIABLES
  query,     \* call -> its query
  pc,        \* call -> "idle", "searching" or "replied"
  leg,       \* (call, index) -> how far searchLeg is and what Search gave it
  cache,     \* [from, to, date] -> the entry stored, or Absent
  results,   \* call -> index -> legResult
  response   \* call -> what was written

vars == <<query, pc, leg, cache, results, response>>

Positions == 1..MaxSegments

Absent == [flights |-> <<>>, meta |-> <<>>]
Unfilled == [flights |-> <<>>, meta |-> <<>>]
NotAsked == [at |-> "none", flights |-> <<>>, meta |-> <<>>]
Nothing == [status |-> 0]
-----------------------------------------------------------------------------
\* Validation.  An airport is "" when it is missing or blank; a date is 0 when
\* it is missing or blank, Malformed when it does not parse, else a day.

Malformed == -1

FirstOf(values, blank) == IF values = <<>> THEN blank ELSE values[1]

IsMultiCitySearch(q) == Len(q.origin) > 1 \/ Len(q.destination) > 1 \/ Len(q.date) > 1

IsRoundTrip(q) == q.return_date # 0

Outbound(q) == [from |-> FirstOf(q.origin, ""), to |-> FirstOf(q.destination, ""),
                date |-> FirstOf(q.date, 0)]

\* The return leg flies the route in reverse.
Return(q) == [from |-> Outbound(q).to, to |-> Outbound(q).from, date |-> q.return_date]

Segments(q) ==
  [i \in DOMAIN q.origin |->
     [from |-> q.origin[i], to |-> q.destination[i], date |-> q.date[i]]]

Legs(q) ==
  IF IsMultiCitySearch(q) THEN Segments(q)
  ELSE IF IsRoundTrip(q) THEN <<Outbound(q), Return(q)>> ELSE <<Outbound(q)>>

WellFormed(l) == l.from # "" /\ l.to # "" /\ l.date \notin {0, Malformed}

AcceptsSingle(q) ==
  /\ WellFormed(Outbound(q))
  /\ IsRoundTrip(q) => q.return_date # Malformed /\ q.return_date >= Outbound(q).date

\* Wrong on purpose: every date is compared with the first one.
AcceptsAfterFirst(q) ==
  /\ ~IsRoundTrip(q)
  /\ Len(q.origin) = Len(q.destination) /\ Len(q.origin) = Len(q.date)
  /\ Len(q.origin) <= MaxSegments
  /\ \A i \in DOMAIN q.origin :
       WellFormed(Segments(q)[i]) /\ q.date[i] >= q.date[1]

AcceptsMultiCity(q) ==
  /\ ~IsRoundTrip(q)
  /\ Len(q.origin) = Len(q.destination) /\ Len(q.origin) = Len(q.date)
  /\ Len(q.origin) <= MaxSegments
  /\ \A i \in DOMAIN q.origin :
       WellFormed(Segments(q)[i]) /\ (i > 1 => q.date[i] >= q.date[i - 1])

\* A number is <<>> when its text does not parse; passengers not given are <<1>>.
AcceptsPassengers(q) == q.passengers # <<>> /\ q.passengers[1] > 0

NumericBounds ==
  {"min_price", "max_price", "max_stops", "min_duration_minutes", "max_duration_minutes"}

\* given holds the filters that are not blank.  Clocks are taken as written.
FiltersParse(q) == \A bound \in NumericBounds \cap DOMAIN q.given : q.given[bound] # <<>>

ParseFilterParams(q) ==
  [bound \in DOMAIN q.given |->
     IF bound \in NumericBounds THEN q.given[bound][1] ELSE q.given[bound]]

\* What strconv.ParseBool takes for true; what it cannot parse is false.
ParseBool(text) == text \in {"1", "t", "T", "true", "TRUE", "True"}

BypassesCache(q) == ParseBool(q.refresh) \/ ParseBool(q.no_cache)

StatusOf(q) ==
  IF q.method # "GET" THEN 405
  ELSE IF /\ IF IsMultiCitySearch(q) THEN AcceptsMultiCity(q) ELSE AcceptsSingle(q)
          /\ AcceptsPassengers(q)
          /\ FiltersParse(q)
       THEN 200 ELSE 400

\* Texts, days, and legs that a search can be made of.
ASSUME QueriesAssumption ==
  \A q \in Queries :
    /\ q.origin \in Seq(STRING) /\ q.destination \in Seq(STRING)
    /\ q.date \in Seq(Int) /\ q.return_date \in Int
    /\ StatusOf(q) = 200 => \A i \in DOMAIN Legs(q) : Legs(q)[i] \in DOMAIN Found
-----------------------------------------------------------------------------
Init ==
  /\ query \in [Calls -> Queries]
  /\ pc = [c \in Calls |-> "idle"]
  /\ leg = [l \in Calls \X Positions |-> NotAsked]
  /\ cache = [l \in DOMAIN Found |-> Absent]
  /\ results = [c \in Calls |-> [i \in Positions |-> Unfilled]]
  /\ response = [c \in Calls |-> Nothing]

\* ServeHTTP up to the searches: an error is written at once.
Receive(c) ==
  /\ pc[c] = "idle"
  /\ IF StatusOf(query[c]) = 200
     THEN /\ pc' = [pc EXCEPT ![c] = "searching"]
          /\ leg' = [l \in DOMAIN leg |->
                       IF l[1] = c /\ l[2] \in DOMAIN Legs(query[c])
                       THEN [leg[l] EXCEPT !.at = "asked"] ELSE leg[l]]
          /\ UNCHANGED response
     ELSE /\ pc' = [pc EXCEPT ![c] = "replied"]
          /\ response' = [response EXCEPT ![c] = [status |-> StatusOf(query[c])]]
          /\ UNCHANGED leg
  /\ UNCHANGED <<query, cache, results>>

\* The fields of these legs hold no separator, so the text that joins them is as
\* good as the fields (AggregatorProofs!PlainKey).
KeyOf(c, i) == Legs(query[c])[i]

LegAt(c, i, place) == leg[<<c, i>>].at = place

LookupHits(c, i) ==
  LET entry == cache[KeyOf(c, i)]
  IN  /\ LegAt(c, i, "asked")
      /\ ~BypassesCache(query[c])
      /\ entry # Absent
      /\ leg' = [leg EXCEPT ![<<c, i>>] =
                   [at |-> "found", flights |-> entry.flights,
                    meta |-> [entry.meta EXCEPT !.hit = TRUE]]]
      /\ UNCHANGED <<query, pc, cache, results, response>>

LookupMisses(c, i) ==
  /\ LegAt(c, i, "asked")
  /\ BypassesCache(query[c]) \/ cache[KeyOf(c, i)] = Absent
  /\ leg' = [leg EXCEPT ![<<c, i>>].at = "searching"]
  /\ UNCHANGED <<query, pc, cache, results, response>>

\* A search's result as Search gives it, from the cache or not.
Outcome(found, hit) ==
  [flights |-> found.flights,
   meta    |-> [total     |-> Len(found.flights),
                queried   |-> Cardinality(Providers),
                succeeded |-> Cardinality(Providers) - Len(found.errors),
                failed    |-> Len(found.errors),
                errors    |-> found.errors,
                hit       |-> hit]]

SearchReturns(c, i) ==
  /\ LegAt(c, i, "searching")
  /\ \E found \in Found[KeyOf(c, i)] :
       /\ cache' = [cache EXCEPT ![KeyOf(c, i)] = Outcome(found, FALSE)]
       /\ leg' = [leg EXCEPT ![<<c, i>>] =
                    [at |-> "found", flights |-> found.flights,
                     meta |-> Outcome(found, FALSE).meta]]
  /\ UNCHANGED <<query, pc, results, response>>

\* The list a leg displays.
Displayed(flights, q) == Sorted(Compute(Filtered(flights, ParseFilterParams(q))), q.sort)

\* The legResult made of what Search gave.
Slot(flights, meta, q) ==
  [flights |-> Displayed(flights, q),
   meta    |-> [meta EXCEPT !.total = Len(Displayed(flights, q))]]

\* Wrong on purpose: results are appended as they come.
EndAppending(c, i) ==
  LET next == CHOOSE n \in Positions :
                /\ results[c][n] = Unfilled
                /\ \A m \in Positions : m < n => results[c][m] # Unfilled
  IN  /\ LegAt(c, i, "found")
      /\ results' = [results EXCEPT ![c][next] =
                       Slot(leg[<<c, i>>].flights, leg[<<c, i>>].meta, query[c])]
      /\ leg' = [leg EXCEPT ![<<c, i>>].at = "done"]
      /\ UNCHANGED <<query, pc, cache, response>>

\* Filters, scores and sorts the leg's own list, fills its slot and ends.
EndLeg(c, i) ==
  /\ LegAt(c, i, "found")
  /\ results' = [results EXCEPT ![c][i] =
                   Slot(leg[<<c, i>>].flights, leg[<<c, i>>].meta, query[c])]
  /\ leg' = [leg EXCEPT ![<<c, i>>].at = "done"]
  /\ UNCHANGED <<query, pc, cache, response>>

\* The body of a response: the legs in order, and for a trip the estimate; the
\* metadata of a trip of several segments are combined.
Response(flights, metas, summary, estimate) ==
  [status |-> 200, legs |-> flights, metas |-> metas, summary |-> summary, estimate |-> estimate]

OneWayBody(flights, metas) == Response(flights, metas, metas[1], NoEstimate)

RoundTripBody(flights, metas) ==
  Response(flights, metas, metas[1], BuildRoundTripEstimate(flights[1], flights[2]))

MultiCityBody(flights, metas) ==
  Response(flights, metas, CombinedMetadata(metas), BuildMultiCityEstimate(flights))

Body(q, flights, metas) ==
  IF IsMultiCitySearch(q) THEN MultiCityBody(flights, metas)
  ELSE IF IsRoundTrip(q) THEN RoundTripBody(flights, metas) ELSE OneWayBody(flights, metas)

\* wg.Wait returns and the response is written.
Reply(c) ==
  LET legs == DOMAIN Legs(query[c])
  IN  /\ pc[c] = "searching"
      /\ \A i \in legs : LegAt(c, i, "done")
      /\ response' = [response EXCEPT ![c] =
                        Body(query[c], [i \in legs |-> results[c][i].flights],
                                       [i \in legs |-> results[c][i].meta])]
      /\ pc' = [pc EXCEPT ![c] = "replied"]
      /\ UNCHANGED <<query, leg, cache, results>>

\* The entry's TTL runs out.
Expire(l) ==
  /\ cache[l] # Absent
  /\ cache' = [cache EXCEPT ![l] = Absent]
  /\ UNCHANGED <<query, pc, leg, results, response>>

LegStep(c, i) ==
  \/ LookupHits(c, i) \/ LookupMisses(c, i) \/ SearchReturns(c, i) \/ EndLeg(c, i)

Next ==
  \/ \E c \in Calls : Receive(c) \/ Reply(c) \/ \E i \in Positions : LegStep(c, i)
  \/ \E l \in DOMAIN Found : Expire(l)

Spec == Init /\ [][Next]_vars
-----------------------------------------------------------------------------
Served(c) == pc[c] = "replied" /\ response[c].status = 200

\* Legs end in any order, but each is reported in its own place: flights of
\* its route and date, filtered, scored and sorted as asked, out of one search
\* of that leg, whose errors are reported with them (search.go:207-231).
EachLegInItsPlace ==
  \A c \in Calls : Served(c) =>
    /\ DOMAIN response[c].legs = DOMAIN Legs(query[c])
    /\ \A i \in DOMAIN response[c].legs :
         /\ \E found \in Found[Legs(query[c])[i]] :
              /\ response[c].legs[i] = Displayed(found.flights, query[c])
              /\ response[c].metas[i].errors = found.errors
         /\ response[c].metas[i].total = Len(response[c].legs[i])

\* One listed flight per leg, and what they cost together.
Trips(legs) ==
  {t \in [DOMAIN legs -> UNION {ToSet(legs[i]) : i \in DOMAIN legs}] :
     \A i \in DOMAIN legs : t[i] \in ToSet(legs[i])}

Cost(t) == SumOf([i \in DOMAIN t |-> t[i].price])

Names(estimate, t) ==
  /\ estimate.total = Cost(t)
  /\ \A i \in DOMAIN t : Id(t[i]) = estimate.ids[i] /\ t[i].currency = estimate.currency

InOneCurrency(legs) ==
  \A i, j \in DOMAIN legs : \A f \in ToSet(legs[i]), g \in ToSet(legs[j]) :
    f.currency = g.currency

EstimateOf(estimate, legs) ==
  IF estimate = NoEstimate
  THEN Trips(legs) # {} => ~InOneCurrency(legs)
  ELSE /\ \A t \in Trips(legs) : estimate.total <= Cost(t)
       /\ \E t \in Trips(legs) : Names(estimate, t)

\* The estimate of a trip is the least a traveller can pay for one listed
\* flight per leg and names flights that cost that much; it is given whenever
\* every leg has a flight and all are priced in one currency, and never adds
\* up two currencies (roundtrip.go:15-47, multicity.go:172-202).
EstimateIsTheCheapestTrip ==
  \A c \in Calls : (Served(c) /\ Len(response[c].legs) > 1) =>
    EstimateOf(response[c].estimate, response[c].legs)

\* The summary of a trip agrees with its legs: as many results as flights are
\* listed, one answer or one named error per provider and leg, and a cache hit
\* only if no leg was searched for (multicity.go:151-164, search.go:174).
SummaryAddsUp ==
  \A c \in Calls : Served(c) =>
    LET n == Len(response[c].legs)
        summary == response[c].summary
    IN  IsMultiCitySearch(query[c]) =>
          /\ summary.total = SumOf([i \in 1..n |-> Len(response[c].legs[i])])
          /\ summary.queried = n * Cardinality(Providers)
          /\ summary.succeeded + summary.failed = summary.queried
          /\ summary.failed = Len(summary.errors)
          /\ summary.hit <=> \A i \in 1..n : response[c].metas[i].hit

\* Only a journey that can be flown in order is searched: no leg before the
\* one ahead of it, a round trip ends where it began, at most MaxSegments
\* searches run for one request, and a rejected request runs none
\* (search.go:31-93, multicity.go:35-104).
OnlyOrderedTripsSearched ==
  \A c \in Calls :
    LET asked == {i \in Positions : leg[<<c, i>>].at # "none"}
        legs == Legs(query[c])
    IN  asked # {} =>
          /\ asked = DOMAIN legs
          /\ \A i \in asked \ {1} : legs[i - 1].date <= legs[i].date
          /\ IsRoundTrip(query[c]) =>
               legs[2].from = legs[1].to /\ legs[2].to = legs[1].from
          /\ pc[c] = "replied" => response[c].status = 200
-----------------------------------------------------------------------------
\* Why it holds.

CallsTypeOK ==
  /\ query \in [Calls -> Queries]
  /\ pc \in [Calls -> {"idle", "searching", "replied"}]
  /\ DOMAIN leg = Calls \X Positions
  /\ \A l \in DOMAIN leg :
       /\ leg[l].at \in {"none", "asked", "searching", "found", "done"}
       /\ leg[l] = [at |-> leg[l].at, flights |-> leg[l].flights, meta |-> leg[l].meta]
  /\ DOMAIN cache = DOMAIN Found
  /\ DOMAIN results = Calls
  /\ \A c \in Calls : DOMAIN results[c] = Positions
  /\ DOMAIN response = Calls

\* What Search may give for a leg: one search of it, stored or not.
Outcomes(l) == UNION {{Outcome(found, hit) : hit \in BOOLEAN} : found \in Found[l]}

StoreHoldsSearches == \A l \in DOMAIN Found : cache[l] # Absent => cache[l] \in Outcomes(l)

\* A call searches nothing, or all legs of a query it accepted.
AskedOf(c) == {i \in Positions : leg[<<c, i>>].at # "none"}

SearchesWhatItAccepted ==
  \A c \in Calls :
    /\ pc[c] = "idle" => AskedOf(c) = {}
    /\ pc[c] = "searching" => AskedOf(c) # {}
    /\ AskedOf(c) # {} => StatusOf(query[c]) = 200 /\ AskedOf(c) = DOMAIN Legs(query[c])
    /\ (AskedOf(c) # {} /\ pc[c] = "replied") => response[c].status = 200

\* Each goroutine holds an outcome of its own leg, and leaves it in its own slot.
LegsKeepToThemselves ==
  \A c \in Calls, i \in Positions :
    /\ LegAt(c, i, "found") =>
         [flights |-> leg[<<c, i>>].flights, meta |-> leg[<<c, i>>].meta] \in Outcomes(KeyOf(c, i))
    /\ LegAt(c, i, "done") =>
         \E outcome \in Outcomes(KeyOf(c, i)) :
           results[c][i] = Slot(outcome.flights, outcome.meta, query[c])

\* A response is made of the slots of an accepted query's legs.
MadeOfSlots(answer, q) ==
  LET legs == DOMAIN Legs(q)
  IN  /\ StatusOf(q) = 200
      /\ answer = Body(q, answer.legs, answer.metas)
      /\ answer.legs = [i \in legs |-> answer.legs[i]]
      /\ answer.metas = [i \in legs |-> answer.metas[i]]
      /\ \A i \in legs : \E outcome \in Outcomes(Legs(q)[i]) :
           LET slot == Slot(outcome.flights, outcome.meta, q)
           IN  answer.legs[i] = slot.flights /\ answer.metas[i] = slot.meta

AnswersAreSlots == \A c \in Calls : Served(c) => MadeOfSlots(response[c], query[c])

ItineraryInv ==
  /\ CallsTypeOK
  /\ StoreHoldsSearches
  /\ SearchesWhatItAccepted
  /\ LegsKeepToThemselves
  /\ AnswersAreSlots
==============================================================================
