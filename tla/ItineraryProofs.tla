---------------------------- MODULE ItineraryProofs ----------------------------
(***************************************************************************)
(* Proofs about the search handler: whatever the requests, the number of   *)
(* legs and what the searches end with, only journeys that can be flown in *)
(* order are searched, every leg is reported in its own place, an estimate *)
(* is the cheapest way to fly the legs listed, and the summary of a trip   *)
(* agrees with its legs.                                                   *)
(***************************************************************************)
EXTENDS Itinerary, ListingsProofs

-----------------------------------------------------------------------------
(* What validation promises.                                               *)

\* An accepted query has a leg, and no more of them than slots are made for.
LEMMA AcceptedLegs ==
  ASSUME NEW q \in Queries, StatusOf(q) = 200
  PROVE  DOMAIN Legs(q) # {} /\ DOMAIN Legs(q) \subseteq Positions
<1>1. Len(q.origin) \in Nat /\ Len(q.destination) \in Nat /\ Len(q.date) \in Nat
      /\ DOMAIN q.origin = 1..Len(q.origin)
  BY QueriesAssumption
<1>2. CASE IsMultiCitySearch(q)
  <2>1. AcceptsMultiCity(q)
    BY <1>2 DEF StatusOf
  <2>2. Len(q.origin) > 1 /\ Len(q.origin) <= MaxSegments
    BY <1>1, <1>2, <2>1 DEF AcceptsMultiCity, IsMultiCitySearch
  <2>3. DOMAIN Legs(q) = 1..Len(q.origin)
    BY <1>1, <1>2 DEF Legs, Segments
  <2> DEFINE n == Len(q.origin)
  <2>4. n \in Nat /\ n > 1 /\ n <= MaxSegments /\ MaxSegments \in Nat
    BY <1>1, <2>2, ItineraryAssumption
  <2> HIDE DEF n
  <2>5. 1..n # {} /\ 1..n \subseteq Positions
    BY <2>4 DEF Positions
  <2> QED
    BY <2>3, <2>5 DEF n
<1>3. CASE ~IsMultiCitySearch(q)
  <2>1. Legs(q) = <<Outbound(q)>> \/ Legs(q) = <<Outbound(q), Return(q)>>
    BY <1>3 DEF Legs
  <2> QED
    BY <2>1, ItineraryAssumption DEF Positions
<1> QED
  BY <1>2, <1>3

\* No leg of an accepted query is before the one ahead of it.
LEMMA AcceptedOrder ==
  ASSUME NEW q \in Queries, StatusOf(q) = 200, NEW i \in DOMAIN Legs(q), i # 1
  PROVE  Legs(q)[i - 1].date <= Legs(q)[i].date
<1>1. /\ q.date \in Seq(Int) /\ q.return_date \in Int
      /\ DOMAIN q.origin = 1..Len(q.origin) /\ Len(q.origin) \in Nat
  BY QueriesAssumption
<1>2. CASE IsMultiCitySearch(q)
  <2>1. AcceptsMultiCity(q)
    BY <1>2 DEF StatusOf
  <2>2. Legs(q) = Segments(q) /\ DOMAIN Segments(q) = DOMAIN q.origin
    BY <1>2 DEF Legs, Segments
  <2>3. i \in 1..Len(q.origin) /\ i - 1 \in 1..Len(q.origin)
    BY <1>1, <2>2
  <2>4. q.date[i] >= q.date[i - 1]
    BY <1>1, <2>1, <2>3 DEF AcceptsMultiCity
  <2>5. q.date[i] \in Int /\ q.date[i - 1] \in Int
    BY <1>1, <2>1, <2>3 DEF AcceptsMultiCity
  <2>6. Segments(q)[i].date = q.date[i] /\ Segments(q)[i - 1].date = q.date[i - 1]
    BY <1>1, <2>3 DEF Segments
  <2> QED
    BY <2>2, <2>4, <2>5, <2>6
<1>3. CASE ~IsMultiCitySearch(q)
  <2>1. AcceptsSingle(q)
    BY <1>3 DEF StatusOf
  <2>2. IsRoundTrip(q) /\ i = 2 /\ Legs(q) = <<Outbound(q), Return(q)>>
    BY <1>3 DEF Legs
  <2>3. Outbound(q).date \in Int
    BY <1>1 DEF Outbound, FirstOf
  <2>4. Legs(q)[i].date = q.return_date /\ Legs(q)[i - 1] = Outbound(q)
    BY <2>2 DEF Return
  <2> QED
    BY <1>1, <2>1, <2>2, <2>3, <2>4 DEF AcceptsSingle
<1> QED
  BY <1>2, <1>3

\* A round trip that is accepted ends where it began.
LEMMA AcceptedRoundTrip ==
  ASSUME NEW q \in Queries, StatusOf(q) = 200, IsRoundTrip(q)
  PROVE  Legs(q)[2].from = Legs(q)[1].to /\ Legs(q)[2].to = Legs(q)[1].from
<1>1. ~IsMultiCitySearch(q)
  BY DEF StatusOf, AcceptsMultiCity
<1>2. Legs(q) = <<Outbound(q), Return(q)>>
  BY <1>1 DEF Legs
<1> QED
  BY <1>2 DEF Return
-----------------------------------------------------------------------------
(* What a search may give.                                                 *)

\* Only the flag tells a cached outcome from the search's own.
LEMMA OutcomeCached ==
  ASSUME NEW found, NEW was, NEW is
  PROVE  [Outcome(found, was).meta EXCEPT !.hit = is] = Outcome(found, is).meta
<1> DEFINE n == Cardinality(Providers)
           k == Len(found.errors)
           m == n - k
           t == Len(found.flights)
           Meta(hit) == [total |-> t, queried |-> n, succeeded |-> m, failed |-> k,
                         errors |-> found.errors, hit |-> hit]
<1>1. \A hit : Outcome(found, hit).meta = Meta(hit)
  BY DEF Outcome
<1> HIDE DEF n, k, m, t
<1>2. [Meta(was) EXCEPT !.hit = is] = Meta(is)
  OBVIOUS
<1> QED
  BY <1>1, <1>2

\* Search may give any of them.
LEMMA OutcomeListed ==
  ASSUME NEW l, NEW found \in Found[l], NEW hit \in BOOLEAN
  PROVE  Outcome(found, hit) \in Outcomes(l)
BY DEF Outcomes

\* A cached outcome is still an outcome of the leg.
LEMMA HitIsOutcome ==
  ASSUME NEW l, NEW outcome \in Outcomes(l)
  PROVE  [flights |-> outcome.flights, meta |-> [outcome.meta EXCEPT !.hit = TRUE]] \in Outcomes(l)
<1>1. PICK found \in Found[l], hit \in BOOLEAN : outcome = Outcome(found, hit)
  BY DEF Outcomes
<1>2. [outcome.meta EXCEPT !.hit = TRUE] = Outcome(found, TRUE).meta
  BY <1>1, OutcomeCached
<1>3. outcome.flights = found.flights
  BY <1>1 DEF Outcome
<1>4. [flights |-> outcome.flights, meta |-> [outcome.meta EXCEPT !.hit = TRUE]]
        = Outcome(found, TRUE)
  BY <1>2, <1>3 DEF Outcome
<1> QED
  BY <1>4, OutcomeListed

\* A slot made of an outcome: what is displayed, the errors kept, the count set.
LEMMA SlotOfOutcome ==
  ASSUME NEW l, NEW outcome \in Outcomes(l), NEW q,
         NEW slot, slot = Slot(outcome.flights, outcome.meta, q)
  PROVE  /\ \E found \in Found[l] : /\ slot.flights = Displayed(found.flights, q)
                                    /\ slot.meta.errors = found.errors
         /\ slot.meta.total = Len(slot.flights)
<1>1. PICK found \in Found[l], hit \in BOOLEAN : outcome = Outcome(found, hit)
  BY DEF Outcomes
<1>2. slot.flights = Displayed(found.flights, q)
  BY <1>1 DEF Slot, Outcome
<1>3. slot.meta.errors = found.errors
  BY <1>1 DEF Slot, Outcome
<1>4. slot.meta.total = Len(slot.flights)
  BY <1>1 DEF Slot, Outcome
<1> QED
  BY <1>2, <1>3, <1>4

\* Every body reports the flights and metadata it is given.
LEMMA BodyReports ==
  ASSUME NEW q, NEW flights, NEW metas
  PROVE  /\ Body(q, flights, metas).status = 200
         /\ Body(q, flights, metas).legs = flights
         /\ Body(q, flights, metas).metas = metas
BY DEF Body, OneWayBody, RoundTripBody, MultiCityBody, Response
-----------------------------------------------------------------------------
(* The invariant, step by step.                                            *)

\* No call has begun, nothing is stored.
LEMMA InitInv == Init => ItineraryInv
<1> SUFFICES ASSUME Init PROVE ItineraryInv
  OBVIOUS
<1>1. CallsTypeOK
  BY DEF Init, CallsTypeOK, NotAsked
<1>2. \A c \in Calls, i \in Positions : leg[<<c, i>>].at = "none" /\ pc[c] = "idle"
  BY DEF Init, NotAsked
<1>3. StoreHoldsSearches
  BY DEF Init, StoreHoldsSearches
<1>4. SearchesWhatItAccepted
  BY <1>2 DEF Init, SearchesWhatItAccepted, AskedOf
<1>5. LegsKeepToThemselves
  BY <1>2 DEF LegsKeepToThemselves, LegAt
<1>6. AnswersAreSlots
  BY DEF Init, AnswersAreSlots, Served
<1> QED
  BY <1>1, <1>3, <1>4, <1>5, <1>6 DEF ItineraryInv

\* A leg that is searched is one of an accepted query.
LEMMA LegAsked ==
  ASSUME ItineraryInv, NEW c \in Calls, NEW i \in Positions, leg[<<c, i>>].at # "none"
  PROVE  /\ query[c] \in Queries /\ StatusOf(query[c]) = 200
         /\ i \in DOMAIN Legs(query[c])
         /\ KeyOf(c, i) \in DOMAIN Found
<1>1. query[c] \in Queries
  BY DEF ItineraryInv, CallsTypeOK
<1>2. i \in AskedOf(c)
  BY DEF AskedOf
<1>3. StatusOf(query[c]) = 200 /\ i \in DOMAIN Legs(query[c])
  BY <1>2 DEF ItineraryInv, SearchesWhatItAccepted
<1> QED
  BY <1>1, <1>3, QueriesAssumption DEF KeyOf

\* Only its place changes when a leg goes on with what it has.
LEMMA LegPlaced ==
  ASSUME ItineraryInv, NEW c \in Calls, NEW i \in Positions, NEW at
  PROVE  [leg EXCEPT ![<<c, i>>].at = at] =
           [leg EXCEPT ![<<c, i>>] = [at |-> at, flights |-> leg[<<c, i>>].flights,
                                      meta |-> leg[<<c, i>>].meta]]
<1> DEFINE l == <<c, i>>
           flights == leg[l].flights
           meta == leg[l].meta
<1>1. l \in DOMAIN leg /\ leg[l] = [at |-> leg[l].at, flights |-> flights, meta |-> meta]
  BY DEF ItineraryInv, CallsTypeOK
<1> HIDE DEF l, flights, meta
<1>2. [leg[l] EXCEPT !.at = at] = [at |-> at, flights |-> flights, meta |-> meta]
  BY <1>1
<1>3. [leg EXCEPT ![l].at = at] = [leg EXCEPT ![l] = [leg[l] EXCEPT !.at = at]]
  BY Zenon
<1>4. [leg EXCEPT ![l].at = at] = [leg EXCEPT ![l] = [at |-> at, flights |-> flights, meta |-> meta]]
  BY <1>2, <1>3
<1> QED
  BY <1>4 DEF l, flights, meta

\* What holds whichever way the goroutine of a leg goes on.
LEMMA LegMoves ==
  ASSUME ItineraryInv, NEW c \in Calls, NEW i \in Positions, leg[<<c, i>>].at # "none",
         NEW at \in {"asked", "searching", "found", "done"}, NEW flights, NEW meta,
         leg' = [leg EXCEPT ![<<c, i>>] = [at |-> at, flights |-> flights, meta |-> meta]],
         UNCHANGED <<query, pc, response>>
  PROVE  /\ DOMAIN leg' = Calls \X Positions
         /\ leg'[<<c, i>>] = [at |-> at, flights |-> flights, meta |-> meta]
         /\ \A l \in Calls \X Positions : l # <<c, i>> => leg'[l] = leg[l]
         /\ \A l \in DOMAIN leg' :
              /\ leg'[l].at \in {"none", "asked", "searching", "found", "done"}
              /\ leg'[l] = [at |-> leg'[l].at, flights |-> leg'[l].flights, meta |-> leg'[l].meta]
         /\ SearchesWhatItAccepted' /\ AnswersAreSlots'
<1>1. DOMAIN leg = Calls \X Positions /\ <<c, i>> \in DOMAIN leg
  BY DEF ItineraryInv, CallsTypeOK
<1>2. /\ DOMAIN leg' = Calls \X Positions
      /\ leg'[<<c, i>>] = [at |-> at, flights |-> flights, meta |-> meta]
      /\ \A l \in Calls \X Positions : l # <<c, i>> => leg'[l] = leg[l]
  BY <1>1
<1>3. ASSUME NEW l \in DOMAIN leg'
      PROVE  /\ leg'[l].at \in {"none", "asked", "searching", "found", "done"}
             /\ leg'[l] = [at |-> leg'[l].at, flights |-> leg'[l].flights, meta |-> leg'[l].meta]
  <2>1. CASE l = <<c, i>>
    BY <1>2, <2>1
  <2>2. CASE l # <<c, i>>
    BY <1>1, <1>2, <2>2 DEF ItineraryInv, CallsTypeOK
  <2> QED
    BY <2>1, <2>2
<1>4. \A d \in Calls : AskedOf(d)' = AskedOf(d)
  <2> SUFFICES ASSUME NEW d \in Calls, NEW j \in Positions
               PROVE  leg'[<<d, j>>].at # "none" <=> leg[<<d, j>>].at # "none"
    BY DEF AskedOf
  <2>1. CASE <<d, j>> = <<c, i>>
    BY <1>2, <2>1
  <2>2. CASE <<d, j>> # <<c, i>>
    BY <1>2, <2>2
  <2> QED
    BY <2>1, <2>2
<1>5. SearchesWhatItAccepted'
  BY <1>4 DEF ItineraryInv, SearchesWhatItAccepted
<1>6. AnswersAreSlots'
  BY DEF ItineraryInv, AnswersAreSlots, Served
<1> QED
  BY <1>2, <1>3, <1>5, <1>6

\* A hit gives the leg an outcome that was stored for it.
LEMMA LookupHitsInv ==
  ASSUME ItineraryInv, NEW c \in Calls, NEW i \in Positions, LookupHits(c, i)
  PROVE  ItineraryInv'
<1> DEFINE entry == cache[KeyOf(c, i)]
           meta == [entry.meta EXCEPT !.hit = TRUE]
<1>1. /\ leg[<<c, i>>].at # "none"
      /\ leg' = [leg EXCEPT ![<<c, i>>] =
                   [at |-> "found", flights |-> entry.flights, meta |-> meta]]
      /\ entry # Absent
      /\ UNCHANGED <<query, pc, cache, results, response>>
  BY DEF LookupHits, LegAt
<1>2. KeyOf(c, i) \in DOMAIN Found
  BY <1>1, LegAsked
<1>3. entry \in Outcomes(KeyOf(c, i))
  BY <1>1, <1>2 DEF ItineraryInv, StoreHoldsSearches
<1>4. [flights |-> entry.flights, meta |-> meta] \in Outcomes(KeyOf(c, i))
  BY <1>3, HitIsOutcome
<1> HIDE DEF meta
<1>5. /\ DOMAIN leg' = Calls \X Positions
      /\ leg'[<<c, i>>] = [at |-> "found", flights |-> entry.flights, meta |-> meta]
      /\ \A l \in Calls \X Positions : l # <<c, i>> => leg'[l] = leg[l]
      /\ \A l \in DOMAIN leg' :
           /\ leg'[l].at \in {"none", "asked", "searching", "found", "done"}
           /\ leg'[l] = [at |-> leg'[l].at, flights |-> leg'[l].flights, meta |-> leg'[l].meta]
      /\ SearchesWhatItAccepted' /\ AnswersAreSlots'
  BY <1>1, LegMoves
<1>6. CallsTypeOK'
  BY <1>1, <1>5 DEF ItineraryInv, CallsTypeOK
<1>7. StoreHoldsSearches'
  BY <1>1 DEF ItineraryInv, StoreHoldsSearches
<1>8. LegsKeepToThemselves'
  <2> SUFFICES ASSUME NEW d \in Calls, NEW j \in Positions
               PROVE  /\ leg'[<<d, j>>].at = "found" =>
                           [flights |-> leg'[<<d, j>>].flights, meta |-> leg'[<<d, j>>].meta]
                             \in Outcomes(KeyOf(d, j))
                      /\ leg'[<<d, j>>].at = "done" =>
                           \E outcome \in Outcomes(KeyOf(d, j)) :
                             results[d][j] = Slot(outcome.flights, outcome.meta, query[d])
    BY <1>1 DEF LegsKeepToThemselves, LegAt, KeyOf
  <2>1. CASE <<d, j>> = <<c, i>>
    BY <1>4, <1>5, <2>1
  <2>2. CASE <<d, j>> # <<c, i>>
    BY <1>5, <2>2 DEF ItineraryInv, LegsKeepToThemselves, LegAt
  <2> QED
    BY <2>1, <2>2
<1> QED
  BY <1>5, <1>6, <1>7, <1>8 DEF ItineraryInv

\* A miss holds nothing yet.
LEMMA LookupMissesInv ==
  ASSUME ItineraryInv, NEW c \in Calls, NEW i \in Positions, LookupMisses(c, i)
  PROVE  ItineraryInv'
<1> DEFINE flights == leg[<<c, i>>].flights
           meta == leg[<<c, i>>].meta
<1>1. /\ leg[<<c, i>>].at # "none"
      /\ UNCHANGED <<query, pc, cache, results, response>>
  BY DEF LookupMisses, LegAt
<1>2. leg' = [leg EXCEPT ![<<c, i>>].at = "searching"]
  BY DEF LookupMisses
<1>3. leg' = [leg EXCEPT ![<<c, i>>] =
                [at |-> "searching", flights |-> flights, meta |-> meta]]
  BY <1>2, LegPlaced
<1> HIDE DEF flights, meta
<1>4. /\ DOMAIN leg' = Calls \X Positions
      /\ leg'[<<c, i>>] = [at |-> "searching", flights |-> flights, meta |-> meta]
      /\ \A l \in Calls \X Positions : l # <<c, i>> => leg'[l] = leg[l]
      /\ \A l \in DOMAIN leg' :
           /\ leg'[l].at \in {"none", "asked", "searching", "found", "done"}
           /\ leg'[l] = [at |-> leg'[l].at, flights |-> leg'[l].flights, meta |-> leg'[l].meta]
      /\ SearchesWhatItAccepted' /\ AnswersAreSlots'
  BY <1>1, <1>3, LegMoves
<1>5. CallsTypeOK'
  BY <1>1, <1>4 DEF ItineraryInv, CallsTypeOK
<1>6. StoreHoldsSearches'
  BY <1>1 DEF ItineraryInv, StoreHoldsSearches
<1>7. LegsKeepToThemselves'
  <2> SUFFICES ASSUME NEW d \in Calls, NEW j \in Positions
               PROVE  /\ leg'[<<d, j>>].at = "found" =>
                           [flights |-> leg'[<<d, j>>].flights, meta |-> leg'[<<d, j>>].meta]
                             \in Outcomes(KeyOf(d, j))
                      /\ leg'[<<d, j>>].at = "done" =>
                           \E outcome \in Outcomes(KeyOf(d, j)) :
                             results[d][j] = Slot(outcome.flights, outcome.meta, query[d])
    BY <1>1 DEF LegsKeepToThemselves, LegAt, KeyOf
  <2>1. CASE <<d, j>> = <<c, i>>
    BY <1>4, <2>1
  <2>2. CASE <<d, j>> # <<c, i>>
    BY <1>4, <2>2 DEF ItineraryInv, LegsKeepToThemselves, LegAt
  <2> QED
    BY <2>1, <2>2
<1> QED
  BY <1>4, <1>5, <1>6, <1>7 DEF ItineraryInv

\* What a search of the leg gives is the leg's and the store's.
LEMMA SearchReturnsInv ==
  ASSUME ItineraryInv, NEW c \in Calls, NEW i \in Positions, SearchReturns(c, i)
  PROVE  ItineraryInv'
<1>1. PICK found \in Found[KeyOf(c, i)] :
        /\ cache' = [cache EXCEPT ![KeyOf(c, i)] = Outcome(found, FALSE)]
        /\ leg' = [leg EXCEPT ![<<c, i>>] =
                     [at |-> "found", flights |-> found.flights,
                      meta |-> Outcome(found, FALSE).meta]]
  BY DEF SearchReturns
<1> DEFINE flights == found.flights
           meta == Outcome(found, FALSE).meta
<1>2. /\ leg[<<c, i>>].at # "none"
      /\ UNCHANGED <<query, pc, results, response>>
  BY DEF SearchReturns, LegAt
<1>3. Outcome(found, FALSE) \in Outcomes(KeyOf(c, i))
  BY OutcomeListed
<1>4. Outcome(found, FALSE) = [flights |-> flights, meta |-> meta]
  BY DEF Outcome
<1> HIDE DEF flights, meta
<1>5. leg' = [leg EXCEPT ![<<c, i>>] = [at |-> "found", flights |-> flights, meta |-> meta]]
  BY <1>1 DEF flights, meta
<1>6. /\ DOMAIN leg' = Calls \X Positions
      /\ leg'[<<c, i>>] = [at |-> "found", flights |-> flights, meta |-> meta]
      /\ \A l \in Calls \X Positions : l # <<c, i>> => leg'[l] = leg[l]
      /\ \A l \in DOMAIN leg' :
           /\ leg'[l].at \in {"none", "asked", "searching", "found", "done"}
           /\ leg'[l] = [at |-> leg'[l].at, flights |-> leg'[l].flights, meta |-> leg'[l].meta]
      /\ SearchesWhatItAccepted' /\ AnswersAreSlots'
  BY <1>2, <1>5, LegMoves
<1>7. CallsTypeOK'
  BY <1>1, <1>2, <1>6 DEF ItineraryInv, CallsTypeOK
<1>8. StoreHoldsSearches'
  <2> SUFFICES ASSUME NEW l \in DOMAIN Found, cache'[l] # Absent
               PROVE  cache'[l] \in Outcomes(l)
    BY DEF StoreHoldsSearches
  <2>1. DOMAIN cache = DOMAIN Found
    BY DEF ItineraryInv, CallsTypeOK
  <2>2. CASE l = KeyOf(c, i)
    BY <1>1, <1>3, <2>1, <2>2
  <2>3. CASE l # KeyOf(c, i)
    BY <1>1, <2>1, <2>3 DEF ItineraryInv, StoreHoldsSearches
  <2> QED
    BY <2>2, <2>3
<1>9. LegsKeepToThemselves'
  <2> SUFFICES ASSUME NEW d \in Calls, NEW j \in Positions
               PROVE  /\ leg'[<<d, j>>].at = "found" =>
                           [flights |-> leg'[<<d, j>>].flights, meta |-> leg'[<<d, j>>].meta]
                             \in Outcomes(KeyOf(d, j))
                      /\ leg'[<<d, j>>].at = "done" =>
                           \E outcome \in Outcomes(KeyOf(d, j)) :
                             results[d][j] = Slot(outcome.flights, outcome.meta, query[d])
    BY <1>2 DEF LegsKeepToThemselves, LegAt, KeyOf
  <2>1. CASE <<d, j>> = <<c, i>>
    <3>1. leg'[<<d, j>>].at = "found" /\ leg'[<<d, j>>].flights = flights
          /\ leg'[<<d, j>>].meta = meta
      BY <1>6, <2>1
    <3>2. KeyOf(d, j) = KeyOf(c, i)
      BY <2>1
    <3> QED
      BY <1>3, <1>4, <3>1, <3>2
  <2>2. CASE <<d, j>> # <<c, i>>
    BY <1>6, <2>2 DEF ItineraryInv, LegsKeepToThemselves, LegAt
  <2> QED
    BY <2>1, <2>2
<1> QED
  BY <1>6, <1>7, <1>8, <1>9 DEF ItineraryInv

\* A leg that ends fills its own slot, and no other's.
LEMMA EndLegInv ==
  ASSUME ItineraryInv, NEW c \in Calls, NEW i \in Positions, EndLeg(c, i)
  PROVE  ItineraryInv'
<1> DEFINE flights == leg[<<c, i>>].flights
           meta == leg[<<c, i>>].meta
           slot == Slot(flights, meta, query[c])
<1>1. /\ leg[<<c, i>>].at = "found"
      /\ results' = [results EXCEPT ![c][i] = slot]
      /\ UNCHANGED <<query, pc, cache, response>>
  BY DEF EndLeg, LegAt
<1>2. leg' = [leg EXCEPT ![<<c, i>>].at = "done"]
  BY DEF EndLeg
<1>3. leg' = [leg EXCEPT ![<<c, i>>] = [at |-> "done", flights |-> flights, meta |-> meta]]
  BY <1>2, LegPlaced
<1>4. [flights |-> flights, meta |-> meta] \in Outcomes(KeyOf(c, i))
  BY <1>1 DEF ItineraryInv, LegsKeepToThemselves, LegAt
<1> HIDE DEF flights, meta
<1>5. /\ DOMAIN leg' = Calls \X Positions
      /\ leg'[<<c, i>>] = [at |-> "done", flights |-> flights, meta |-> meta]
      /\ \A l \in Calls \X Positions : l # <<c, i>> => leg'[l] = leg[l]
      /\ \A l \in DOMAIN leg' :
           /\ leg'[l].at \in {"none", "asked", "searching", "found", "done"}
           /\ leg'[l] = [at |-> leg'[l].at, flights |-> leg'[l].flights, meta |-> leg'[l].meta]
      /\ SearchesWhatItAccepted' /\ AnswersAreSlots'
  BY <1>1, <1>3, LegMoves
<1>6. \E outcome \in Outcomes(KeyOf(c, i)) : slot = Slot(outcome.flights, outcome.meta, query[c])
  BY <1>4
<1> HIDE DEF slot
<1>7. /\ DOMAIN results' = Calls
      /\ \A d \in Calls : DOMAIN results'[d] = Positions
      /\ results'[c][i] = slot
      /\ \A d \in Calls, j \in Positions : <<d, j>> # <<c, i>> => results'[d][j] = results[d][j]
  BY <1>1 DEF ItineraryInv, CallsTypeOK
<1>8. CallsTypeOK'
  BY <1>1, <1>5, <1>7 DEF ItineraryInv, CallsTypeOK
<1>9. StoreHoldsSearches'
  BY <1>1 DEF ItineraryInv, StoreHoldsSearches
<1>10. LegsKeepToThemselves'
  <2> SUFFICES ASSUME NEW d \in Calls, NEW j \in Positions
               PROVE  /\ leg'[<<d, j>>].at = "found" =>
                           [flights |-> leg'[<<d, j>>].flights, meta |-> leg'[<<d, j>>].meta]
                             \in Outcomes(KeyOf(d, j))
                      /\ leg'[<<d, j>>].at = "done" =>
                           \E outcome \in Outcomes(KeyOf(d, j)) :
                             results'[d][j] = Slot(outcome.flights, outcome.meta, query[d])
    BY <1>1 DEF LegsKeepToThemselves, LegAt, KeyOf
  <2>1. CASE <<d, j>> = <<c, i>>
    BY <1>5, <1>6, <1>7, <2>1
  <2>2. CASE <<d, j>> # <<c, i>>
    BY <1>5, <1>7, <2>2 DEF ItineraryInv, LegsKeepToThemselves, LegAt
  <2> QED
    BY <2>1, <2>2
<1> QED
  BY <1>5, <1>8, <1>9, <1>10 DEF ItineraryInv

\* A call begins all the searches of a query it accepts, or none.
LEMMA ReceiveInv ==
  ASSUME ItineraryInv, NEW c \in Calls, Receive(c)
  PROVE  ItineraryInv'
<1>1. /\ pc[c] = "idle" /\ query[c] \in Queries /\ c \in DOMAIN pc /\ c \in DOMAIN response
      /\ UNCHANGED <<query, cache, results>>
      /\ pc \in [Calls -> {"idle", "searching", "replied"}]
      /\ DOMAIN leg = Calls \X Positions
  BY DEF Receive, ItineraryInv, CallsTypeOK
<1>2. \A j \in Positions : leg[<<c, j>>].at = "none"
  <2>1. AskedOf(c) = {}
    BY <1>1 DEF ItineraryInv, SearchesWhatItAccepted
  <2> QED
    BY <2>1 DEF AskedOf
<1>3. StoreHoldsSearches'
  BY <1>1 DEF ItineraryInv, StoreHoldsSearches
<1>4. CASE StatusOf(query[c]) = 200
  <2> DEFINE legs == DOMAIN Legs(query[c])
  <2>1. /\ pc' = [pc EXCEPT ![c] = "searching"]
        /\ leg' = [l \in DOMAIN leg |->
                     IF l[1] = c /\ l[2] \in legs THEN [leg[l] EXCEPT !.at = "asked"] ELSE leg[l]]
        /\ response' = response
    BY <1>4 DEF Receive
  <2>2. legs # {} /\ legs \subseteq Positions
    BY <1>1, <1>4, AcceptedLegs
  <2> HIDE DEF legs
  <2>3. /\ DOMAIN leg' = Calls \X Positions
        /\ \A j \in Positions : j \in legs =>
             leg'[<<c, j>>] = [at |-> "asked", flights |-> leg[<<c, j>>].flights,
                               meta |-> leg[<<c, j>>].meta]
        /\ \A d \in Calls, j \in Positions :
             (d # c \/ j \notin legs) => leg'[<<d, j>>] = leg[<<d, j>>]
    <3>1. DOMAIN leg' = Calls \X Positions
      BY <1>1, <2>1
    <3>2. ASSUME NEW j \in Positions, j \in legs
          PROVE  leg'[<<c, j>>] = [at |-> "asked", flights |-> leg[<<c, j>>].flights,
                                   meta |-> leg[<<c, j>>].meta]
      <4>1. leg'[<<c, j>>] = [leg[<<c, j>>] EXCEPT !.at = "asked"]
        BY <1>1, <2>1, <3>2
      <4>2. <<c, j>> \in DOMAIN leg
        BY <1>1
      <4>3. leg[<<c, j>>] = [at |-> leg[<<c, j>>].at, flights |-> leg[<<c, j>>].flights,
                             meta |-> leg[<<c, j>>].meta]
        BY <4>2 DEF ItineraryInv, CallsTypeOK
      <4> QED
        BY <4>1, <4>3
    <3>3. ASSUME NEW d \in Calls, NEW j \in Positions, d # c \/ j \notin legs
          PROVE  leg'[<<d, j>>] = leg[<<d, j>>]
      BY <1>1, <2>1, <3>3
    <3> QED
      BY <3>1, <3>2, <3>3
  <2>4. ASSUME NEW j \in Positions, j \in legs PROVE leg'[<<c, j>>].at = "asked"
    <3>1. leg'[<<c, j>>] = [at |-> "asked", flights |-> leg[<<c, j>>].flights,
                            meta |-> leg[<<c, j>>].meta]
      BY <2>3, <2>4
    <3> QED
      BY <3>1
  <2>5. CallsTypeOK'
    <3>1. ASSUME NEW l \in Calls \X Positions
          PROVE  /\ leg'[l].at \in {"none", "asked", "searching", "found", "done"}
                 /\ leg'[l] = [at |-> leg'[l].at, flights |-> leg'[l].flights, meta |-> leg'[l].meta]
      <4>1. PICK d \in Calls, j \in Positions : l = <<d, j>>
        BY <3>1
      <4>2. CASE d = c /\ j \in legs
        <5>1. leg'[l] = [at |-> "asked", flights |-> leg[<<c, j>>].flights,
                         meta |-> leg[<<c, j>>].meta]
          BY <2>3, <4>1, <4>2
        <5> QED
          BY <5>1
      <4>3. CASE d # c \/ j \notin legs
        BY <1>1, <2>3, <4>1, <4>3 DEF ItineraryInv, CallsTypeOK
      <4> QED
        BY <4>2, <4>3
    <3>2. pc' \in [Calls -> {"idle", "searching", "replied"}]
      BY <1>1, <2>1
    <3> QED
      BY <1>1, <2>1, <2>3, <3>1, <3>2 DEF ItineraryInv, CallsTypeOK
  <2>6. SearchesWhatItAccepted'
    <3> SUFFICES ASSUME NEW d \in Calls
                 PROVE  /\ pc'[d] = "idle" => AskedOf(d)' = {}
                        /\ pc'[d] = "searching" => AskedOf(d)' # {}
                        /\ AskedOf(d)' # {} => /\ StatusOf(query[d]) = 200
                                              /\ AskedOf(d)' = DOMAIN Legs(query[d])
                        /\ (AskedOf(d)' # {} /\ pc'[d] = "replied") => response[d].status = 200
      BY <1>1, <2>1 DEF SearchesWhatItAccepted
    <3>1. CASE d = c
      <4>1. AskedOf(c)' = legs
        <5>1. \A j \in Positions : j \in legs => leg'[<<c, j>>].at = "asked"
          BY <2>4
        <5>2. \A j \in Positions : j \notin legs => leg'[<<c, j>>].at = "none"
          BY <1>2, <2>3
        <5> QED
          BY <2>2, <5>1, <5>2 DEF AskedOf
      <4>2. pc'[c] = "searching"
        BY <1>1, <2>1
      <4> QED
        BY <1>4, <2>2, <3>1, <4>1, <4>2 DEF legs
    <3>2. CASE d # c
      <4>1. AskedOf(d)' = AskedOf(d)
        BY <2>3, <3>2 DEF AskedOf
      <4>2. pc'[d] = pc[d]
        BY <1>1, <2>1, <3>2
      <4> QED
        BY <4>1, <4>2 DEF ItineraryInv, SearchesWhatItAccepted
    <3> QED
      BY <3>1, <3>2
  <2>7. LegsKeepToThemselves'
    <3> SUFFICES ASSUME NEW d \in Calls, NEW j \in Positions
                 PROVE  /\ leg'[<<d, j>>].at = "found" =>
                             [flights |-> leg'[<<d, j>>].flights, meta |-> leg'[<<d, j>>].meta]
                               \in Outcomes(KeyOf(d, j))
                        /\ leg'[<<d, j>>].at = "done" =>
                             \E outcome \in Outcomes(KeyOf(d, j)) :
                               results[d][j] = Slot(outcome.flights, outcome.meta, query[d])
      BY <1>1 DEF LegsKeepToThemselves, LegAt, KeyOf
    <3>1. CASE d = c /\ j \in legs
      <4>1. leg'[<<d, j>>].at = "asked"
        BY <2>4, <3>1
      <4> QED
        BY <4>1
    <3>2. CASE d # c \/ j \notin legs
      BY <2>3, <3>2 DEF ItineraryInv, LegsKeepToThemselves, LegAt
    <3> QED
      BY <3>1, <3>2
  <2>8. AnswersAreSlots'
    <3>1. \A d \in Calls : Served(d)' => Served(d)
      BY <1>1, <2>1 DEF Served
    <3> QED
      BY <1>1, <2>1, <3>1 DEF ItineraryInv, AnswersAreSlots
  <2> QED
    BY <1>3, <2>5, <2>6, <2>7, <2>8 DEF ItineraryInv
<1>5. CASE StatusOf(query[c]) # 200
  <2>1. /\ pc' = [pc EXCEPT ![c] = "replied"]
        /\ response' = [response EXCEPT ![c] = [status |-> StatusOf(query[c])]]
        /\ leg' = leg
    BY <1>5 DEF Receive
  <2>2. /\ pc' \in [Calls -> {"idle", "searching", "replied"}]
        /\ \A d \in Calls : d # c => pc'[d] = pc[d] /\ response'[d] = response[d]
        /\ response'[c].status # 200 /\ pc'[c] = "replied"
        /\ DOMAIN response' = DOMAIN response
    BY <1>1, <1>5, <2>1
  <2>3. CallsTypeOK'
    BY <1>1, <2>1, <2>2 DEF ItineraryInv, CallsTypeOK
  <2>4. SearchesWhatItAccepted'
    <3>1. \A d \in Calls : AskedOf(d)' = AskedOf(d)
      BY <2>1 DEF AskedOf
    <3>2. AskedOf(c) = {}
      BY <1>2 DEF AskedOf
    <3> QED
      BY <1>1, <2>2, <3>1, <3>2 DEF ItineraryInv, SearchesWhatItAccepted
  <2>5. LegsKeepToThemselves'
    BY <1>1, <2>1 DEF ItineraryInv, LegsKeepToThemselves, LegAt, KeyOf
  <2>6. AnswersAreSlots'
    BY <1>1, <2>2 DEF ItineraryInv, AnswersAreSlots, Served
  <2> QED
    BY <1>3, <2>3, <2>4, <2>5, <2>6 DEF ItineraryInv
<1> QED
  BY <1>4, <1>5

\* The response is made of the slots, each in its place.
LEMMA ReplyInv ==
  ASSUME ItineraryInv, NEW c \in Calls, Reply(c)
  PROVE  ItineraryInv'
<1> DEFINE legs == DOMAIN Legs(query[c])
           flights == [i \in legs |-> results[c][i].flights]
           metas == [i \in legs |-> results[c][i].meta]
<1>1. /\ pc[c] = "searching" /\ \A i \in legs : LegAt(c, i, "done")
      /\ response' = [response EXCEPT ![c] = Body(query[c], flights, metas)]
      /\ pc' = [pc EXCEPT ![c] = "replied"]
      /\ UNCHANGED <<query, leg, cache, results>>
  BY DEF Reply
<1>2. /\ pc \in [Calls -> {"idle", "searching", "replied"}] /\ DOMAIN response = Calls
      /\ query[c] \in Queries
  BY DEF ItineraryInv, CallsTypeOK
<1>3. legs \subseteq Positions
  <2>1. StatusOf(query[c]) = 200
    BY <1>1 DEF ItineraryInv, SearchesWhatItAccepted
  <2> QED
    BY <1>2, <2>1, AcceptedLegs
<1> DEFINE body == Body(query[c], flights, metas)
<1>4. body.status = 200 /\ body.legs = flights /\ body.metas = metas
  BY BodyReports
<1> HIDE DEF body
<1>5. /\ pc' \in [Calls -> {"idle", "searching", "replied"}] /\ DOMAIN response' = Calls
      /\ pc'[c] = "replied" /\ response'[c] = body
      /\ \A d \in Calls : d # c => pc'[d] = pc[d] /\ response'[d] = response[d]
  BY <1>1, <1>2 DEF body
<1>6. CallsTypeOK'
  BY <1>1, <1>5 DEF ItineraryInv, CallsTypeOK
<1>7. StoreHoldsSearches'
  BY <1>1 DEF ItineraryInv, StoreHoldsSearches
<1>8. SearchesWhatItAccepted'
  <2>1. \A d \in Calls : AskedOf(d)' = AskedOf(d)
    BY <1>1 DEF AskedOf
  <2> QED
    BY <1>1, <1>4, <1>5, <2>1 DEF ItineraryInv, SearchesWhatItAccepted
<1>9. LegsKeepToThemselves'
  BY <1>1 DEF ItineraryInv, LegsKeepToThemselves, LegAt, KeyOf
<1>10. AnswersAreSlots'
  <2> SUFFICES ASSUME NEW d \in Calls, Served(d)'
               PROVE  MadeOfSlots(response'[d], query[d])
    BY <1>1 DEF AnswersAreSlots
  <2>1. CASE d = c
    <3>1. StatusOf(query[c]) = 200
      BY <1>1 DEF ItineraryInv, SearchesWhatItAccepted
    <3>2. ASSUME NEW i \in legs
          PROVE  \E outcome \in Outcomes(Legs(query[c])[i]) :
                   LET slot == Slot(outcome.flights, outcome.meta, query[c])
                   IN  flights[i] = slot.flights /\ metas[i] = slot.meta
      <4>1. flights[i] = results[c][i].flights /\ metas[i] = results[c][i].meta
        OBVIOUS
      <4>2. PICK outcome \in Outcomes(KeyOf(c, i)) :
              results[c][i] = Slot(outcome.flights, outcome.meta, query[c])
        BY <1>1, <1>3 DEF ItineraryInv, LegsKeepToThemselves
      <4> QED
        BY <4>1, <4>2 DEF KeyOf
    <3>3. /\ flights = [i \in legs |-> flights[i]] /\ metas = [i \in legs |-> metas[i]]
      OBVIOUS
    <3> HIDE DEF flights, metas
    <3>4. body = Body(query[c], body.legs, body.metas)
      BY <1>4 DEF body
    <3>5. MadeOfSlots(body, query[c])
      BY <1>4, <3>1, <3>2, <3>3, <3>4 DEF MadeOfSlots
    <3> QED
      BY <1>5, <2>1, <3>5
  <2>2. CASE d # c
    BY <1>5, <2>2 DEF ItineraryInv, AnswersAreSlots, Served
  <2> QED
    BY <2>1, <2>2
<1> QED
  BY <1>6, <1>7, <1>8, <1>9, <1>10 DEF ItineraryInv

\* An entry that is lost is asked for again; nothing given out changes.
LEMMA ExpireInv ==
  ASSUME ItineraryInv, NEW l \in DOMAIN Found, Expire(l)
  PROVE  ItineraryInv'
<1>1. /\ cache' = [cache EXCEPT ![l] = Absent]
      /\ UNCHANGED <<query, pc, leg, results, response>>
  BY DEF Expire
<1>2. CallsTypeOK'
  BY <1>1 DEF ItineraryInv, CallsTypeOK
<1>3. StoreHoldsSearches'
  BY <1>1 DEF ItineraryInv, CallsTypeOK, StoreHoldsSearches
<1>4. SearchesWhatItAccepted'
  <2>1. \A d \in Calls : AskedOf(d)' = AskedOf(d)
    BY <1>1 DEF AskedOf
  <2> QED
    BY <1>1, <2>1 DEF ItineraryInv, SearchesWhatItAccepted
<1>5. LegsKeepToThemselves'
  BY <1>1 DEF ItineraryInv, LegsKeepToThemselves, LegAt, KeyOf
<1>6. AnswersAreSlots'
  BY <1>1 DEF ItineraryInv, AnswersAreSlots, Served
<1> QED
  BY <1>2, <1>3, <1>4, <1>5, <1>6 DEF ItineraryInv

\* The invariant is kept by every step.
LEMMA StepInv == ItineraryInv /\ [Next]_vars => ItineraryInv'
<1> SUFFICES ASSUME ItineraryInv, [Next]_vars PROVE ItineraryInv'
  OBVIOUS
<1>1. ASSUME NEW c \in Calls, Receive(c) PROVE ItineraryInv'
  BY <1>1, ReceiveInv
<1>2. ASSUME NEW c \in Calls, Reply(c) PROVE ItineraryInv'
  BY <1>2, ReplyInv
<1>3. ASSUME NEW c \in Calls, NEW i \in Positions, LegStep(c, i) PROVE ItineraryInv'
  BY <1>3, LookupHitsInv, LookupMissesInv, SearchReturnsInv, EndLegInv DEF LegStep
<1>4. ASSUME NEW l \in DOMAIN Found, Expire(l) PROVE ItineraryInv'
  BY <1>4, ExpireInv
<1>5. CASE UNCHANGED vars
  <2>1. UNCHANGED <<query, pc, leg, cache, results, response>>
    BY <1>5 DEF vars
  <2>2. \A c \in Calls : AskedOf(c)' = AskedOf(c)
    BY <2>1 DEF AskedOf
  <2>3. SearchesWhatItAccepted'
    BY <2>1, <2>2 DEF ItineraryInv, SearchesWhatItAccepted
  <2>4. CallsTypeOK' /\ StoreHoldsSearches'
    BY <2>1 DEF ItineraryInv, CallsTypeOK, StoreHoldsSearches
  <2>5. LegsKeepToThemselves' /\ AnswersAreSlots'
    BY <2>1 DEF ItineraryInv, LegsKeepToThemselves, LegAt, KeyOf, AnswersAreSlots, Served
  <2> QED
    BY <2>3, <2>4, <2>5 DEF ItineraryInv
<1> QED
  BY <1>1, <1>2, <1>3, <1>4, <1>5 DEF Next

\* Every goroutine holds an outcome of its own leg, every slot what such an
\* outcome displays, in every state of every instance.
THEOREM Invariant == Spec => []ItineraryInv
<1>1. Init => ItineraryInv
  BY InitInv
<1>2. ItineraryInv /\ [Next]_vars => ItineraryInv'
  BY StepInv
<1> QED
  BY <1>1, <1>2, PTL DEF Spec

\* Whatever order the legs of a request end in, and whatever is cached or lost
\* meanwhile, each is reported in its own place (searchLegs).
COROLLARY LegsInPlace == Spec => []EachLegInItsPlace
<1>1. ItineraryInv => EachLegInItsPlace
  <2> SUFFICES ASSUME ItineraryInv, NEW c \in Calls, Served(c)
               PROVE  /\ DOMAIN response[c].legs = DOMAIN Legs(query[c])
                      /\ \A i \in DOMAIN response[c].legs :
                           /\ \E found \in Found[Legs(query[c])[i]] :
                                /\ response[c].legs[i] = Displayed(found.flights, query[c])
                                /\ response[c].metas[i].errors = found.errors
                           /\ response[c].metas[i].total = Len(response[c].legs[i])
    BY DEF EachLegInItsPlace
  <2> DEFINE q == query[c]
             answer == response[c]
  <2>1. MadeOfSlots(answer, q)
    BY DEF ItineraryInv, AnswersAreSlots
  <2> HIDE DEF q, answer
  <2>2. DOMAIN answer.legs = DOMAIN Legs(q)
    BY <2>1 DEF MadeOfSlots
  <2>3. ASSUME NEW i \in DOMAIN Legs(q)
        PROVE  /\ \E found \in Found[Legs(q)[i]] :
                    /\ answer.legs[i] = Displayed(found.flights, q)
                    /\ answer.metas[i].errors = found.errors
               /\ answer.metas[i].total = Len(answer.legs[i])
    <3>1. PICK outcome \in Outcomes(Legs(q)[i]) :
            LET slot == Slot(outcome.flights, outcome.meta, q)
            IN  answer.legs[i] = slot.flights /\ answer.metas[i] = slot.meta
      BY <2>1 DEF MadeOfSlots
    <3> QED
      BY <3>1, SlotOfOutcome
  <2> QED
    BY <2>2, <2>3 DEF q, answer
<1> QED
  BY <1>1, Invariant, PTL

\* Validation lets through nothing that cannot be flown in order, and a
\* request that was let through is answered with its legs (ServeHTTP,
\* serveMultiCity).
THEOREM OrderedTrips == Spec => []OnlyOrderedTripsSearched
<1>1. ItineraryInv => OnlyOrderedTripsSearched
  <2> SUFFICES ASSUME ItineraryInv, NEW c \in Calls, AskedOf(c) # {}
               PROVE  /\ AskedOf(c) = DOMAIN Legs(query[c])
                      /\ \A i \in AskedOf(c) \ {1} :
                           Legs(query[c])[i - 1].date <= Legs(query[c])[i].date
                      /\ IsRoundTrip(query[c]) =>
                           /\ Legs(query[c])[2].from = Legs(query[c])[1].to
                           /\ Legs(query[c])[2].to = Legs(query[c])[1].from
                      /\ pc[c] = "replied" => response[c].status = 200
    BY DEF OnlyOrderedTripsSearched, AskedOf
  <2>1. query[c] \in Queries
    BY DEF ItineraryInv, CallsTypeOK
  <2>2. StatusOf(query[c]) = 200 /\ AskedOf(c) = DOMAIN Legs(query[c])
    BY DEF ItineraryInv, SearchesWhatItAccepted
  <2>3. pc[c] = "replied" => response[c].status = 200
    BY DEF ItineraryInv, SearchesWhatItAccepted
  <2>4. \A i \in AskedOf(c) \ {1} : Legs(query[c])[i - 1].date <= Legs(query[c])[i].date
    BY <2>1, <2>2, AcceptedOrder
  <2>5. IsRoundTrip(query[c]) =>
          Legs(query[c])[2].from = Legs(query[c])[1].to /\ Legs(query[c])[2].to = Legs(query[c])[1].from
    BY <2>1, <2>2, AcceptedRoundTrip
  <2> QED
    BY <2>2, <2>3, <2>4, <2>5
<1> QED
  BY <1>1, Invariant, PTL
-----------------------------------------------------------------------------
(* What a response tells of its legs.                                      *)

\* An accepted query has n legs: one, two of a round trip, or its segments.
LEMMA AcceptedCount ==
  ASSUME NEW q \in Queries, StatusOf(q) = 200
  PROVE  \E n \in Nat :
           /\ n > 0 /\ DOMAIN Legs(q) = 1..n
           /\ ~IsMultiCitySearch(q) => n = IF IsRoundTrip(q) THEN 2 ELSE 1
<1>1. CASE IsMultiCitySearch(q)
  <2>1. Len(q.origin) \in Nat /\ DOMAIN q.origin = 1..Len(q.origin)
    BY QueriesAssumption
  <2>2. DOMAIN Legs(q) = 1..Len(q.origin)
    BY <1>1, <2>1 DEF Legs, Segments
  <2>3. DOMAIN Legs(q) # {}
    BY AcceptedLegs
  <2>4. Len(q.origin) > 0
    BY <2>1, <2>2, <2>3
  <2> QED
    BY <1>1, <2>1, <2>2, <2>4
<1>2. CASE ~IsMultiCitySearch(q) /\ IsRoundTrip(q)
  <2>1. Legs(q) = <<Outbound(q), Return(q)>>
    BY <1>2 DEF Legs
  <2>2. DOMAIN Legs(q) = 1..2
    BY <2>1
  <2> QED
    BY <1>2, <2>2
<1>3. CASE ~IsMultiCitySearch(q) /\ ~IsRoundTrip(q)
  <2>1. Legs(q) = <<Outbound(q)>>
    BY <1>3 DEF Legs
  <2>2. DOMAIN Legs(q) = 1..1
    BY <2>1
  <2> QED
    BY <1>3, <2>2
<1> QED
  BY <1>1, <1>2, <1>3

\* What a leg displays is a list, with the metadata of a search of the leg.
SaysOfItself(flights, meta) ==
  /\ Listed(flights)
  /\ meta.total = Len(flights)
  /\ meta.queried = Cardinality(Providers)
  /\ meta.succeeded = Cardinality(Providers) - Len(meta.errors)
  /\ meta.failed = Len(meta.errors)
  /\ meta.errors \in Seq(Providers)

\* Filters, scores and order make a list of a list.
LEMMA ListedDisplayed ==
  ASSUME NEW flights, Listed(flights), NEW q
  PROVE  Listed(Displayed(flights, q))
BY ListedFiltered, ListedComputed, ListedSorted DEF Displayed

\* So a slot says of itself.
LEMMA SlotSays ==
  ASSUME NEW l \in DOMAIN Found, NEW outcome \in Outcomes(l), NEW q,
         NEW slot, slot = Slot(outcome.flights, outcome.meta, q)
  PROVE  SaysOfItself(slot.flights, slot.meta)
<1>1. PICK found \in Found[l], hit \in BOOLEAN : outcome = Outcome(found, hit)
  BY DEF Outcomes
<1>2. Listed(found.flights) /\ found.errors \in Seq(Providers)
  BY FoundAssumption
<1> DEFINE shown == Displayed(found.flights, q)
           of == Cardinality(Providers)
           failed == Len(found.errors)
           left == of - failed
           count == Len(shown)
<1>3. Listed(shown)
  BY <1>2, ListedDisplayed
<1>4. slot.flights = shown
  BY <1>1 DEF Slot, Outcome
<1>5. slot.meta = [[total |-> Len(found.flights), queried |-> of, succeeded |-> left,
                    failed |-> failed, errors |-> found.errors, hit |-> hit]
                     EXCEPT !.total = count]
  BY <1>1 DEF Slot, Outcome
<1>6. count = Len(slot.flights)
  BY <1>4
<1>7. left = of - Len(found.errors) /\ failed = Len(found.errors)
  OBVIOUS
<1>8. of = Cardinality(Providers)
  OBVIOUS
<1> HIDE DEF shown, of, failed, left, count
<1>9. /\ slot.meta.total = count /\ slot.meta.queried = of /\ slot.meta.succeeded = left
      /\ slot.meta.failed = failed /\ slot.meta.errors = found.errors
  BY <1>5
<1> QED
  BY <1>2, <1>3, <1>4, <1>6, <1>7, <1>8, <1>9 DEF SaysOfItself

\* So says every leg of a response.
LEMMA AnswerSays ==
  ASSUME ItineraryInv, NEW c \in Calls, Served(c)
  PROVE  \E n \in Nat :
           /\ n > 0
           /\ ~IsMultiCitySearch(query[c]) => n = IF IsRoundTrip(query[c]) THEN 2 ELSE 1
           /\ response[c] = Body(query[c], response[c].legs, response[c].metas)
           /\ response[c].legs = [i \in 1..n |-> response[c].legs[i]]
           /\ response[c].metas = [i \in 1..n |-> response[c].metas[i]]
           /\ \A i \in 1..n : SaysOfItself(response[c].legs[i], response[c].metas[i])
<1> DEFINE q == query[c]
           answer == response[c]
<1>1. MadeOfSlots(answer, q)
  BY DEF ItineraryInv, AnswersAreSlots
<1>2. q \in Queries
  BY DEF ItineraryInv, CallsTypeOK
<1> HIDE DEF q, answer
<1>3. StatusOf(q) = 200
  BY <1>1 DEF MadeOfSlots
<1>4. PICK n \in Nat :
        /\ n > 0 /\ DOMAIN Legs(q) = 1..n
        /\ ~IsMultiCitySearch(q) => n = IF IsRoundTrip(q) THEN 2 ELSE 1
  BY <1>2, <1>3, AcceptedCount
<1>5. ASSUME NEW i \in 1..n PROVE SaysOfItself(answer.legs[i], answer.metas[i])
  <2>1. Legs(q)[i] \in DOMAIN Found
    BY <1>2, <1>3, <1>4, QueriesAssumption
  <2>2. \E outcome \in Outcomes(Legs(q)[i]) :
          LET slot == Slot(outcome.flights, outcome.meta, q)
          IN  answer.legs[i] = slot.flights /\ answer.metas[i] = slot.meta
    <3>1. i \in DOMAIN Legs(q)
      BY <1>4
    <3> QED
      BY <1>1, <3>1, Zenon DEF MadeOfSlots
  <2> QED
    BY <2>1, <2>2, SlotSays
<1>6. /\ answer = Body(q, answer.legs, answer.metas)
      /\ answer.legs = [i \in 1..n |-> answer.legs[i]]
      /\ answer.metas = [i \in 1..n |-> answer.metas[i]]
  BY <1>1, <1>4 DEF MadeOfSlots
<1> QED
  BY <1>4, <1>5, <1>6 DEF q, answer

\* What a response to several legs tells of them.
LEMMA AnswerHolds ==
  ASSUME NEW q, NEW flights, NEW metas
  PROVE  /\ IsMultiCitySearch(q) =>
              /\ Body(q, flights, metas).summary = CombinedMetadata(metas)
              /\ Body(q, flights, metas).estimate = BuildMultiCityEstimate(flights)
         /\ ~IsMultiCitySearch(q) /\ IsRoundTrip(q) =>
              Body(q, flights, metas).estimate
                = BuildMultiCityEstimate(<<flights[1], flights[2]>>)
BY DEF Body, OneWayBody, RoundTripBody, MultiCityBody, Response, BuildRoundTripEstimate

\* A trip has an estimate only when it can be paid in one currency, and the
\* cheapest flight of each leg makes the cheapest trip.
LEMMA EstimateIs ==
  ASSUME NEW n \in Nat, n > 0, NEW legs, legs = [i \in 1..n |-> legs[i]],
         \A i \in 1..n : Listed(legs[i])
  PROVE  EstimateOf(BuildMultiCityEstimate(legs), legs)
<1> DEFINE cheapest == [i \in 1..n |-> CheapestFlight(legs[i])]
           prices == [i \in 1..n |-> cheapest[i].price]
           estimate == [ids |-> [i \in 1..n |-> Id(cheapest[i])], total |-> SumOf(prices),
                        currency |-> cheapest[1].currency]
           empty == \E i \in 1..n : legs[i] = <<>>
           mixed == \E i \in 1..n : cheapest[i].currency # cheapest[1].currency
           Listing == UNION {ToSet(legs[i]) : i \in 1..n}
<1>1. DOMAIN legs = 1..n /\ 1 \in 1..n /\ legs # <<>>
  OBVIOUS
<1>2. BuildMultiCityEstimate(legs) = IF empty \/ mixed THEN NoEstimate ELSE estimate
  BY <1>1 DEF BuildMultiCityEstimate
<1>3. \A i \in 1..n : legs[i] # <<>> =>
        /\ cheapest[i] \in ToSet(legs[i])
        /\ \A f \in ToSet(legs[i]) : cheapest[i].price <= f.price
  BY CheapestIs
<1>4. \A i \in 1..n : \A f \in ToSet(legs[i]) : f.price \in Int
  BY DEF Listed, Flights, IsFlight
<1>5. CASE empty
  <2>1. PICK i \in 1..n : legs[i] = <<>>
    BY <1>5
  <2>2. ToSet(legs[i]) = {}
    BY <2>1 DEF ToSet
  <2>3. Trips(legs) = {}
    BY <1>1, <2>2 DEF Trips
  <2> QED
    BY <1>2, <1>5, <2>3 DEF EstimateOf
<1>6. CASE ~empty /\ mixed
  <2>1. PICK i \in 1..n : cheapest[i].currency # cheapest[1].currency
    BY <1>6
  <2>2. cheapest[i] \in ToSet(legs[i]) /\ cheapest[1] \in ToSet(legs[1])
    BY <1>1, <1>3, <1>6
  <2> HIDE DEF cheapest
  <2>3. ~InOneCurrency(legs)
    BY <1>1, <2>1, <2>2 DEF InOneCurrency
  <2> QED
    BY <1>2, <1>6, <2>3 DEF EstimateOf
<1>7. CASE ~empty /\ ~mixed
  <2>1. \A i \in 1..n : legs[i] # <<>> /\ cheapest[i].currency = cheapest[1].currency
    BY <1>7
  <2>2. BuildMultiCityEstimate(legs) = estimate
    BY <1>2, <1>7
  <2>3. estimate # NoEstimate
    <3>1. 1 \in DOMAIN estimate.ids /\ 1 \notin DOMAIN NoEstimate.ids
      BY <1>1 DEF NoEstimate
    <3> QED
      BY <3>1
  <2>4. /\ \A i \in 1..n : prices[i] = cheapest[i].price
        /\ estimate.total = SumOf(prices) /\ estimate.currency = cheapest[1].currency
        /\ \A i \in 1..n : estimate.ids[i] = Id(cheapest[i])
    OBVIOUS
  <2>5. DOMAIN cheapest = 1..n /\ Cost(cheapest) = SumOf(prices)
    BY DEF Cost
  <2>6. cheapest \in [1..n -> Listing]
    BY <1>3, <2>1
  <2>7. prices \in Seq(Int) /\ Len(prices) = n
    <3>1. \A i \in 1..n : cheapest[i].price \in Int
      BY <1>3, <1>4, <2>1
    <3> HIDE DEF cheapest
    <3> QED
      BY <3>1
  <2> HIDE DEF cheapest, estimate, prices
  <2>8. cheapest \in Trips(legs)
    BY <1>1, <1>3, <2>1, <2>6 DEF Trips
  <2>9. Names(estimate, cheapest)
    BY <2>1, <2>4, <2>5 DEF Names
  <2>10. ASSUME NEW t \in Trips(legs) PROVE estimate.total <= Cost(t)
    <3>1. DOMAIN t = 1..n /\ \A i \in 1..n : t[i] \in ToSet(legs[i])
      BY <1>1 DEF Trips
    <3> DEFINE costs == [i \in 1..n |-> t[i].price]
    <3>2. \A i \in 1..n : t[i].price \in Int /\ prices[i] <= t[i].price
      BY <1>3, <1>4, <2>1, <2>4, <3>1
    <3>3. costs \in Seq(Int) /\ Len(costs) = n /\ \A i \in 1..n : prices[i] <= costs[i]
      BY <3>2
    <3>4. Cost(t) = SumOf(costs)
      BY <3>1 DEF Cost
    <3> HIDE DEF costs
    <3>5. SumOf(prices) <= SumOf(costs)
      BY <2>7, <3>3, SumsCompare
    <3> QED
      BY <2>4, <3>4, <3>5
  <2> QED
    BY <2>2, <2>3, <2>8, <2>9, <2>10 DEF EstimateOf
<1> QED
  BY <1>5, <1>6, <1>7

\* A trip's estimate is the cheapest way to fly the legs as listed
\* (buildRoundTripEstimate, buildMultiCityEstimate).
THEOREM Cheapest == Spec => []EstimateIsTheCheapestTrip
<1>1. ItineraryInv => EstimateIsTheCheapestTrip
  <2> SUFFICES ASSUME ItineraryInv, NEW c \in Calls, Served(c), Len(response[c].legs) > 1
               PROVE  EstimateOf(response[c].estimate, response[c].legs)
    BY DEF EstimateIsTheCheapestTrip
  <2> DEFINE q == query[c]
             answer == response[c]
             legs == answer.legs
             metas == answer.metas
  <2>1. PICK n \in Nat :
          /\ n > 0
          /\ ~IsMultiCitySearch(q) => n = IF IsRoundTrip(q) THEN 2 ELSE 1
          /\ answer = Body(q, legs, metas)
          /\ legs = [i \in 1..n |-> legs[i]]
          /\ \A i \in 1..n : SaysOfItself(legs[i], metas[i])
    BY AnswerSays
  <2>2. Len(legs) > 1
    OBVIOUS
  <2> HIDE DEF q, answer, legs, metas
  <2>3. Len(legs) = n /\ n > 1
    BY <2>1, <2>2
  <2>4. EstimateOf(BuildMultiCityEstimate(legs), legs)
    BY <2>1, EstimateIs DEF SaysOfItself
  <2>5. answer.estimate = BuildMultiCityEstimate(legs)
    <3>1. CASE IsMultiCitySearch(q)
      <4>1. Body(q, legs, metas).estimate = BuildMultiCityEstimate(legs)
        BY <3>1, AnswerHolds
      <4> QED
        BY <2>1, <4>1
    <3>2. CASE ~IsMultiCitySearch(q)
      <4>1. IsRoundTrip(q) /\ n = 2
        BY <2>1, <2>3, <3>2
      <4>2. legs = <<legs[1], legs[2]>>
        <5>1. legs = [i \in 1..2 |-> legs[i]]
          BY <2>1, <4>1
        <5> QED
          BY ONLY <5>1
      <4>3. Body(q, legs, metas).estimate = BuildMultiCityEstimate(<<legs[1], legs[2]>>)
        BY <3>2, <4>1, AnswerHolds
      <4> QED
        BY <2>1, <4>2, <4>3
    <3> QED
      BY <3>1, <3>2
  <2> QED
    BY <2>4, <2>5 DEF answer, legs
<1> QED
  BY <1>1, Invariant, PTL

\* The metadata of a trip are the sums of its legs' (combinedMetadata).
LEMMA SummaryIs ==
  ASSUME NEW n \in Nat, NEW metas, metas = [i \in 1..n |-> metas[i]], NEW flights,
         \A i \in 1..n : SaysOfItself(flights[i], metas[i])
  PROVE  LET summary == CombinedMetadata(metas)
         IN  /\ summary.total = SumOf([i \in 1..n |-> Len(flights[i])])
             /\ summary.queried = n * Cardinality(Providers)
             /\ summary.succeeded + summary.failed = summary.queried
             /\ summary.failed = Len(summary.errors)
             /\ summary.hit <=> \A i \in 1..n : metas[i].hit
<1> DEFINE k == Cardinality(Providers)
           summary == CombinedMetadata(metas)
           Of(field) == [i \in 1..n |-> metas[i][field]]
           errors == [i \in 1..n |-> metas[i].errors]
<1>1. DOMAIN metas = 1..n
  OBVIOUS
<1>2. /\ summary.total = SumOf(Of("total")) /\ summary.queried = SumOf(Of("queried"))
      /\ summary.succeeded = SumOf(Of("succeeded")) /\ summary.failed = SumOf(Of("failed"))
      /\ summary.errors = FlattenSeq(errors)
      /\ summary.hit <=> \A i \in 1..n : metas[i].hit
  BY <1>1 DEF CombinedMetadata
<1>3. k \in Int
  BY ItineraryAssumption, FS_CardinalityType
<1>4. \A i \in 1..n :
        /\ metas[i].total = Len(flights[i]) /\ metas[i].queried = k
        /\ metas[i].errors \in Seq(Providers)
        /\ metas[i].failed = Len(metas[i].errors) /\ metas[i].failed \in Int
        /\ metas[i].succeeded = k - Len(metas[i].errors) /\ metas[i].succeeded \in Int
  BY <1>3 DEF SaysOfItself
<1> HIDE DEF summary, k
<1>5. summary.total = SumOf([i \in 1..n |-> Len(flights[i])])
  <2>1. Of("total") = [i \in 1..n |-> Len(flights[i])]
    BY <1>4
  <2> QED
    BY <1>2, <2>1
<1>6. /\ Of("queried") \in Seq(Int) /\ Len(Of("queried")) = n
      /\ Of("succeeded") \in Seq(Int) /\ Len(Of("succeeded")) = n
      /\ Of("failed") \in Seq(Int) /\ Len(Of("failed")) = n
  <2>1. ASSUME NEW field, \A i \in 1..n : metas[i][field] \in Int
        PROVE  Of(field) \in Seq(Int) /\ Len(Of(field)) = n
    BY <2>1
  <2>2. \A i \in 1..n : /\ metas[i]["queried"] \in Int /\ metas[i]["succeeded"] \in Int
                       /\ metas[i]["failed"] \in Int
    BY <1>3, <1>4
  <2> HIDE DEF Of
  <2> QED
    BY <2>1, <2>2
<1>7. \A i \in 1..n : /\ Of("queried")[i] = k
                     /\ Of("queried")[i] = Of("succeeded")[i] + Of("failed")[i]
  BY <1>3, <1>4
<1>8. summary.failed = Len(summary.errors)
  <2>1. errors \in Seq(Seq(Providers)) /\ Len(errors) = n
    BY <1>4
  <2>2. Len(FlattenSeq(errors)) = SumOf([i \in 1..Len(errors) |-> Len(errors[i])])
    <3> HIDE DEF errors
    <3> QED
      BY <2>1, FlattenLength
  <2>3. [i \in 1..Len(errors) |-> Len(errors[i])] = Of("failed")
    <3>1. \A i \in 1..n : Len(errors[i]) = metas[i].failed
      BY <1>4
    <3> HIDE DEF errors
    <3> QED
      BY <2>1, <3>1
  <2> QED
    BY <1>2, <2>2, <2>3
<1> HIDE DEF Of
<1>9. summary.queried = n * k
  <2> DEFINE ns == Of("queried")
  <2>1. ns \in Seq(Int) /\ Len(ns) = n /\ (\A i \in 1..n : ns[i] = k) /\ summary.queried = SumOf(ns)
    BY <1>2, <1>6, <1>7
  <2> HIDE DEF ns
  <2>2. SumOf(ns) = Len(ns) * k
    BY <1>3, <2>1, SumOfTheSame
  <2> QED
    BY <2>1, <2>2
<1>10. summary.succeeded + summary.failed = summary.queried
  BY <1>2, <1>6, <1>7, SumsAdd
<1> QED
  BY <1>2, <1>5, <1>8, <1>9, <1>10 DEF summary, k

\* However many legs a trip has and whatever each search ended with, its
\* summary agrees with them (combinedMetadata).
THEOREM Summary == Spec => []SummaryAddsUp
<1>1. ItineraryInv => SummaryAddsUp
  <2> SUFFICES ASSUME ItineraryInv, NEW c \in Calls, Served(c), IsMultiCitySearch(query[c])
               PROVE  LET n == Len(response[c].legs)
                          summary == response[c].summary
                      IN  /\ summary.total = SumOf([i \in 1..n |-> Len(response[c].legs[i])])
                          /\ summary.queried = n * Cardinality(Providers)
                          /\ summary.succeeded + summary.failed = summary.queried
                          /\ summary.failed = Len(summary.errors)
                          /\ summary.hit <=> \A i \in 1..n : response[c].metas[i].hit
    BY Zenon DEF SummaryAddsUp
  <2> DEFINE q == query[c]
             answer == response[c]
             legs == answer.legs
             metas == answer.metas
  <2>1. PICK n \in Nat :
          /\ n > 0
          /\ answer = Body(q, legs, metas)
          /\ legs = [i \in 1..n |-> legs[i]]
          /\ metas = [i \in 1..n |-> metas[i]]
          /\ \A i \in 1..n : SaysOfItself(legs[i], metas[i])
    BY AnswerSays
  <2>2. IsMultiCitySearch(q)
    OBVIOUS
  <2> HIDE DEF q, answer, legs, metas
  <2>3. Len(legs) = n
    BY <2>1
  <2>4. answer.summary = CombinedMetadata(metas)
    <3>1. Body(q, legs, metas).summary = CombinedMetadata(metas)
      BY <2>2, AnswerHolds
    <3> QED
      BY <2>1, <3>1
  <2> DEFINE summary == CombinedMetadata(metas)
  <2>5. /\ summary.total = SumOf([i \in 1..n |-> Len(legs[i])])
        /\ summary.queried = n * Cardinality(Providers)
        /\ summary.succeeded + summary.failed = summary.queried
        /\ summary.failed = Len(summary.errors)
        /\ summary.hit <=> \A i \in 1..n : metas[i].hit
    BY <2>1, SummaryIs, Zenon
  <2> HIDE DEF summary
  <2>6. /\ answer.summary.total = SumOf([i \in 1..Len(legs) |-> Len(legs[i])])
        /\ answer.summary.queried = Len(legs) * Cardinality(Providers)
        /\ answer.summary.succeeded + answer.summary.failed = answer.summary.queried
        /\ answer.summary.failed = Len(answer.summary.errors)
        /\ answer.summary.hit <=> \A i \in 1..Len(legs) : metas[i].hit
    BY <2>3, <2>4, <2>5, Zenon DEF summary
  <2> QED
    BY <2>6, Zenon DEF answer, legs, metas
<1> QED
  BY <1>1, Invariant, PTL
=============================================================================
