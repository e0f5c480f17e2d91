------------------------------ MODULE LegPipeline ------------------------------
(***************************************************************************)
(* What happens to the flights of one leg: the adapters normalise what the *)
(* airlines replied, Aggregator.Search collects the providers' slots,      *)
(* filters them by route and date and merges them; searchLeg then filters, *)
(* scores and sorts.  Each step is one action, so that what the displayed  *)
(* list owes to what the airlines sent can be stated over the whole path.  *)
(***************************************************************************)
EXTENDS Adapters

CONSTANTS
  Replies,      \* what the four airlines may reply
  Leg,          \* the [from, to, date] searched
  Filters,      \* the filters a request may give
  Options,      \* the sort_by values a request may give
  AirportOffset \* how far the clocks of an airport are ahead of UTC, in minutes:
                \* the world the replies are about, not known to the program

VARIABLES
  stage,    \* "replied", "answered", "merged", "filtered", "scored" or "sorted"
  replies,  \* what the airlines replied
  results,  \* the providers' slots
  listing,  \* the list as it is now
  before,   \* the list as it was when the last step began
  filter,
  option

vars == <<stage, replies, results, listing, before, filter, option>>

NoFilter == [bound \in {} |-> 0]

\* The types the JSON is decoded into: numbers where numbers belong.  Any of
\* them may be negative, and any list empty.
Decoded(list, Typed(_)) ==
  list \in Seq(ToSet(list)) /\ \A x \in ToSet(list) : Typed(x)

Clocks == [clock : Int]
ClocksWithOffset == [clock : Int, offset : Int]
IsTime(text) == text \in Seq(ClocksWithOffset)

IsAirAsiaOffer(o) ==
  /\ IsTime(o.depart_time) /\ IsTime(o.arrive_time)
  /\ o.stops \in Seq(ToSet(o.stops)) /\ o.price_idr \in Int

IsBatikAirOffer(o) ==
  /\ IsTime(o.departureDateTime) /\ IsTime(o.arrivalDateTime)
  /\ o.numberOfStops \in Int /\ o.totalPrice \in Int

IsGarudaOffer(o) ==
  /\ IsTime(o.departure.time) /\ IsTime(o.arrival.time)
  /\ Decoded(o.segments, LAMBDA segment : IsTime(segment.arrival.time))
  /\ o.stops \in Int /\ o.amount \in Int

IsLionAirOffer(o) ==
  /\ o.departure \in Seq(Clocks) /\ o.arrival \in Seq(Clocks)
  /\ o.stop_count \in Int /\ o.layovers \in Seq(ToSet(o.layovers))
  /\ o.total \in Int

ASSUME RepliesAssumption ==
  \A r \in Replies :
    /\ Decoded(r.airasia.offers, IsAirAsiaOffer)
    /\ Decoded(r.batik.offers, IsBatikAirOffer)
    /\ Decoded(r.garuda.offers, IsGarudaOffer)
    /\ Decoded(r.lion.offers, IsLionAirOffer)

ClockBounds == {"depart_after", "depart_before", "arrive_after", "arrive_before"}

\* A filter as it is parsed: a price is a number, a bound on the clock any text.
ASSUME FiltersAssumption ==
  \A f \in Filters :
    /\ "max_price" \in DOMAIN f => f.max_price \in Int
    /\ \A bound \in ClockBounds \cap DOMAIN f : f[bound] \in Seq(Nat)

Init ==
  /\ stage = "replied"
  /\ replies \in Replies
  /\ results = <<>>
  /\ listing = <<>>
  /\ before = <<>>
  /\ filter = NoFilter
  /\ option = "best_value"

\* Each provider's goroutine fills its slot.
Normalise ==
  /\ stage = "replied"
  /\ results' = ProviderResults(replies)
  /\ stage' = "answered"
  /\ UNCHANGED <<replies, listing, before, filter, option>>

Merge ==
  /\ stage = "answered"
  /\ listing' = MergeDuplicates(FilterByCriteria(Collect(results), Leg))
  /\ stage' = "merged"
  /\ UNCHANGED <<replies, results, before, filter, option>>

Filter ==
  /\ stage = "merged"
  /\ \E f \in Filters : filter' = f /\ listing' = Filtered(listing, f)
  /\ before' = listing
  /\ stage' = "filtered"
  /\ UNCHANGED <<replies, results, option>>

Score ==
  /\ stage = "filtered"
  /\ listing' = Compute(listing)
  /\ before' = listing
  /\ stage' = "scored"
  /\ UNCHANGED <<replies, results, filter, option>>

Sort ==
  /\ stage = "scored"
  /\ \E o \in Options : option' = o /\ listing' = Sorted(listing, o)
  /\ before' = listing
  /\ stage' = "sorted"
  /\ UNCHANGED <<replies, results, filter>>

Next == Normalise \/ Merge \/ Filter \/ Score \/ Sort

Spec == Init /\ [][Next]_vars
-----------------------------------------------------------------------------
\* What the airlines sold, read from their replies without the adapters.  A
\* journey is clear when the offer does not contradict itself and its clocks are
\* those of the airports.

Shown(text) == IF text = <<>> THEN 0 ELSE text[1].clock
ShownAt(text, airport) == text # <<>> /\ text[1].offset = AirportOffset[airport]
ZoneOf(zone, airport) == zone \in DOMAIN Zones /\ Zones[zone] = AirportOffset[airport]

Journey(clear, provider, number, from, to, departs, arrives, via, price) ==
  [clear |-> clear, provider |-> provider, number |-> number, from |-> from, to |-> to,
   departs |-> departs, arrives |-> arrives,
   minutes |-> (arrives - AirportOffset[to]) - (departs - AirportOffset[from]),
   via |-> via, price |-> price]

AirAsiaJourney(o) ==
  Journey(/\ ShownAt(o.depart_time, o.from_airport) /\ ShownAt(o.arrive_time, o.to_airport)
          /\ o.direct_flight <=> o.stops = <<>>,
          "AirAsia", o.flight_code, o.from_airport, o.to_airport,
          Shown(o.depart_time), Shown(o.arrive_time), o.stops, o.price_idr)

BatikAirJourney(o) ==
  Journey(/\ ShownAt(o.departureDateTime, o.origin)
          /\ ShownAt(o.arrivalDateTime, o.destination)
          /\ o.numberOfStops = Len(o.connections),
          "Batik Air", o.flightNumber, o.origin, o.destination,
          Shown(o.departureDateTime), Shown(o.arrivalDateTime), o.connections, o.totalPrice)

\* The chain is the truth, the top level may be stale; without a chain the top
\* level must be of a direct flight, for the stops are named nowhere else.
GarudaJourney(o) ==
  LET chain == IF o.segments = <<>> THEN <<[departure |-> o.departure, arrival |-> o.arrival]>>
               ELSE o.segments
      end == Last(chain).arrival
      start == chain[1].departure
  IN  Journey(/\ ShownAt(start.time, start.airport) /\ ShownAt(end.time, end.airport)
              /\ start = o.departure
              /\ Len(chain) = 1 => o.arrival = end /\ o.stops = 0,
              "Garuda Indonesia", o.flight_id, start.airport, end.airport,
              Shown(start.time), Shown(end.time),
              [i \in 1..(Len(chain) - 1) |-> chain[i].arrival.airport], o.amount)

LionAirJourney(o) ==
  Journey(/\ o.departure # <<>> /\ o.arrival # <<>>
          /\ ZoneOf(o.departure_timezone, o.from) /\ ZoneOf(o.arrival_timezone, o.to)
          /\ o.is_direct <=> o.layovers = <<>>
          /\ o.stop_count \in {0, Len(o.layovers)},
          "Lion Air", o.id, o.from, o.to,
          Shown(o.departure), Shown(o.arrival), o.layovers, o.total)

OffersOf(reply, answered) == IF answered THEN ToSet(reply.offers) ELSE {}

Journeys ==
  {AirAsiaJourney(o) : o \in OffersOf(replies.airasia, replies.airasia.fetched)}
  \cup {BatikAirJourney(o) : o \in OffersOf(replies.batik,
                                 replies.batik.fetched /\ replies.batik.code \in {0, 200})}
  \cup {GarudaJourney(o) : o \in OffersOf(replies.garuda, replies.garuda.fetched)}
  \cup {LionAirJourney(o) : o \in OffersOf(replies.lion,
                                replies.lion.fetched /\ replies.lion.success)}

\* The journeys of the leg that a traveller could take.
Sold ==
  {j \in Journeys :
     /\ j.clear /\ j.number # NoNumber /\ j.minutes > 0 /\ j.price > 0
     /\ j.from = Leg.from /\ j.to = Leg.to /\ j.departs \div Day = Leg.date}

ClockAt(t) == t.instant + t.offset

\* The listed flight takes off as the journey does.
Departs(f, j) ==
  f.number = j.number /\ f.from = j.from /\ f.to = j.to /\ ClockAt(f.dep) = j.departs

\* It is shown exactly as it is flown and sold.
Shows(f, j) ==
  /\ Departs(f, j)
  /\ f.provider = j.provider /\ f.price = j.price
  /\ ClockAt(f.arr) = j.arrives /\ Duration(f) = j.minutes
  /\ f.stops = Len(j.via) /\ f.via = j.via

\* A traveller who only sets a price ceiling is shown every journey that any
\* airline sold within it, at a price no airline undercuts: no offer is lost
\* to a bad one beside it, to a provider that failed, or, as filtering comes
\* after the merge, to its own dearer quotes
\* (garuda.go:107-119, aggregator.go:56-60, merge.go:32-35, search.go:165-170).
PriceCeilingComplete ==
  (stage = "sorted" /\ DOMAIN filter \subseteq {"max_price"}) =>
    \A j \in Sold : AtMost(filter, "max_price", j.price) =>
      \E i \in DOMAIN listing :
        Departs(listing[i], j) /\ listing[i].price <= j.price

\* Whatever is listed is sold, and shown as it is flown: the two airports and
\* their clocks, the time between them, the stops and the price, in four
\* formats and across time zones, unless the airline contradicts itself
\* (README.md:257-280, common.go:42, garuda.go:92-107, lionair.go:105-126).
ListedAsFlown ==
  stage = "sorted" =>
    \A i \in DOMAIN listing : \E j \in Journeys :
      /\ j.provider = listing[i].provider /\ j.number = listing[i].number
      /\ j.clear => j \in Sold /\ Shows(listing[i], j)

\* A bound written HH:MM, and what it means.
IsHHMM(text) ==
  /\ Len(text) = 5 /\ text[3] = Colon
  /\ \A i \in {1, 2, 4, 5} : text[i] < Colon
  /\ text[4] < 6

MinutesOf(text) == 600 * text[1] + 60 * text[2] + 10 * text[4] + text[5]

\* README.md:59: the bounds are local to the flight's own time zone.
Within(j) ==
  /\ "depart_after" \in DOMAIN filter => MinutesOf(filter.depart_after) <= j.departs % Day
  /\ "depart_before" \in DOMAIN filter => j.departs % Day <= MinutesOf(filter.depart_before)
  /\ "arrive_after" \in DOMAIN filter => MinutesOf(filter.arrive_after) <= j.arrives % Day
  /\ "arrive_before" \in DOMAIN filter => j.arrives % Day <= MinutesOf(filter.arrive_before)

\* Comparing clocks as texts is comparing them as times, if the bounds are
\* written HH:MM: no listed journey is outside them, and bounds on departure
\* alone hide none inside (quotes of one flight share its departure, not
\* always its arrival) (filter.go:40-51, 65-67).
ClockBoundsHonoured ==
  (/\ stage = "sorted"
   /\ DOMAIN filter \subseteq ClockBounds
   /\ \A bound \in DOMAIN filter : IsHHMM(filter[bound])) =>
    /\ \A i \in DOMAIN listing : \A j \in Sold : Shows(listing[i], j) => Within(j)
    /\ DOMAIN filter \subseteq {"depart_after", "depart_before"} =>
         \A j \in Sold : Within(j) => \E i \in DOMAIN listing : Departs(listing[i], j)

\* The flights of the leg some provider offered.
Offers ==
  {f \in UNION {ToSet(results[i].flights) : i \in {n \in DOMAIN results : results[n].ok}} :
     MatchesCriteria(f, Leg)}

\* The same physical flight: number, route and the moment it departs.
SameFlight(f, g) ==
  f.number = g.number /\ f.from = g.from /\ f.to = g.to /\ f.dep.instant = g.dep.instant

\* Each entry is some provider's offer.  If all that quote its flight write the
\* departure alike, the flight is listed once, quotes of several providers are
\* compared (README.md:130-132), and a comparison names every quote there is,
\* cheapest first and the entry itself at the top, whatever the filter and the
\* order (merge.go:9-50).
EachFlightOnceWithItsQuotes ==
  stage = "sorted" =>
    \A i \in DOMAIN listing :
      LET f == listing[i]
          all == Collect(results)
          quotes == {n \in DOMAIN all : SameFlight(f, all[n])}
      IN  /\ \E o \in Offers : o = [f EXCEPT !.comparison = <<>>, !.score = 0]
          /\ (\A n \in quotes : all[n].dep = f.dep) =>
               /\ \A j \in DOMAIN listing : SameFlight(f, listing[j]) => i = j
               /\ (\E m, n \in quotes : all[m].provider # all[n].provider) =>
                    f.comparison # <<>>
               /\ f.comparison # <<>> =>
                    /\ Cardinality(quotes) > 1 /\ Len(f.comparison) = Cardinality(quotes)
                    /\ ToSet(f.comparison) = {QuoteOf(all[n]) : n \in quotes}
                    /\ f.comparison[1] = QuoteOf(f)
                    /\ \A n \in 2..Len(f.comparison) :
                         f.comparison[n - 1].price <= f.comparison[n].price

\* No better in anything.
Dominates(f, g) ==
  f.price <= g.price /\ Duration(f) <= Duration(g) /\ f.stops <= g.stops

\* A flight never scores less than one it beats or equals in price, duration
\* and stops (ranking.go:41-55).
DominanceRespected ==
  stage = "sorted" =>
    \A i, j \in DOMAIN listing :
      Dominates(listing[i], listing[j]) => listing[i].score >= listing[j].score

\* Scores are in hundredths of a percent.
FullScore == 10000
Scores == 0..FullScore

Best(fs, i) == \A j \in DOMAIN fs : Dominates(fs[i], fs[j])
Worst(fs, i) ==
  \A j \in DOMAIN fs :
    /\ fs[j].price < fs[i].price \/ i = j
    /\ Duration(fs[j]) < Duration(fs[i]) \/ i = j
    /\ fs[j].stops < fs[i].stops \/ i = j

\* Scores are percentages of the filtered list, not of the whole market: all
\* 100 go to a non-stop flight that nothing listed undercuts or outruns, and
\* none to one that is worse than every other in all three measures
\* (ranking.go:20-55, search.go:170-171).
ScoreScale ==
  stage = "sorted" =>
    \A i \in DOMAIN listing :
      /\ listing[i].score \in Scores
      /\ (Best(listing, i) /\ listing[i].stops = 0) => listing[i].score = FullScore
      /\ (Worst(listing, i) /\ Len(listing) > 1) => listing[i].score = 0

\* The order asked for, an unknown one meaning best value: the same flights,
\* no later one before an earlier one in that order, and equals as the merge
\* left them (sort.go:9-36).
SortedStably ==
  stage = "sorted" =>
    /\ Len(listing) = Len(before)
    /\ ToSet(listing) = ToSet(before)
    /\ \A i, j \in DOMAIN listing : i < j =>
         /\ ~SortsBefore(option, listing[j], listing[i])
         /\ ~SortsBefore(option, listing[i], listing[j]) =>
              \E m, n \in DOMAIN before :
                m < n /\ before[m] = listing[i] /\ before[n] = listing[j]
==============================================================================
