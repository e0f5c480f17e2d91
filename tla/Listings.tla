------------------------------- MODULE Listings -------------------------------
(***************************************************************************)
(* The pure functions a leg's flights go through, from what the providers  *)
(* returned to what is displayed: criteria filter and merge                *)
(* (internal/aggregator), filters (internal/filter), best-value scores     *)
(* (internal/ranking), order (internal/sortutil), and the summaries made   *)
(* from the displayed legs (internal/handlers).                            *)
(*                                                                         *)
(* A flight is a record                                                    *)
(*   number, provider, from, to                                            *)
(*   airline    : [name, code]                                             *)
(*   dep, arr   : [instant, offset], minutes; the local clock is their sum *)
(*   stops, price, currency                                                *)
(*   via        : the airports of stop_airports                            *)
(*   comparison : the quotes of price_comparison, in order                 *)
(*   score      : best_value_score, in hundredths                          *)
(* Prices are whole amounts and scores exact fractions, where the code     *)
(* has float64.                                                            *)
(***************************************************************************)
EXTENDS Integers, Sequences, SequencesExt

Day == 1440

LocalDate(t) == (t.instant + t.offset) \div Day

\* Always derived from the two instants.
Duration(f) == f.arr.instant - f.dep.instant

\* A flight, whichever adapter built it, merged and scored or not.
IsFlight(f) ==
  /\ f = [field \in DOMAIN f |-> f[field]]
  /\ {"number", "provider", "airline", "from", "to", "dep", "arr", "stops", "via", "price",
      "currency", "comparison", "score"} \subseteq DOMAIN f
  /\ f.dep.instant \in Int /\ f.dep.offset \in Int
  /\ f.arr.instant \in Int /\ f.arr.offset \in Int
  /\ f.stops \in Int /\ f.price \in Int /\ f.score \in Int

Flights(S) == \A f \in S : IsFlight(f)

\* A list of flights.
Listed(fs) == fs \in Seq(ToSet(fs)) /\ Flights(ToSet(fs))

\* The order sort.SliceStable gives when less is a strict weak order: an
\* element comes after those less than it and the earlier ones equal to it.
StableSort(s, less(_, _)) ==
  LET Ahead(i) == {j \in DOMAIN s : less(s[j], s[i]) \/ (~less(s[i], s[j]) /\ j < i)}
  IN  [n \in DOMAIN s |-> s[CHOOSE i \in DOMAIN s : Cardinality(Ahead(i)) = n - 1]]

\* What a loop that appends some of the elements makes: those at the indices in
\* kept, in their order.
Nth(kept, n) == CHOOSE i \in kept : Cardinality({j \in kept : j < i}) = n - 1
Kept(s, kept) == [n \in 1..Cardinality(kept) |-> s[Nth(kept, n)]]
-----------------------------------------------------------------------------
\* Aggregator.Search after wg.Wait.

\* A slot of results[] is [ok, flights]; a failed one adds no flights.
Collect(results) ==
  FlattenSeq([i \in DOMAIN results |-> IF results[i].ok THEN results[i].flights ELSE <<>>])

MatchesCriteria(f, leg) ==
  f.from = leg.from /\ f.to = leg.to /\ LocalDate(f.dep) = leg.date

FilterByCriteria(fs, leg) == Kept(fs, {i \in DOMAIN fs : MatchesCriteria(fs[i], leg)})

\* Wrong on purpose: the key leaves the departure out.
DedupeKeyOfNumber(f) == <<f.number, f.from, f.to>>

\* The key holds the departure as text, so the instant and its offset.
DedupeKey(f) == <<f.number, f.from, f.to, f.dep>>

QuoteOf(f) == [provider |-> f.provider, price |-> f.price, currency |-> f.currency]

\* The flights with the key of the i-th, in their order.
Quotes(fs, i) == Kept(fs, {j \in DOMAIN fs : DedupeKey(fs[j]) = DedupeKey(fs[i])})

\* The first of a group stands for it, with the quotes of all attached when
\* there are several.
Entry(group) ==
  IF Len(group) = 1 THEN group[1]
  ELSE [group[1] EXCEPT !.comparison = [n \in DOMAIN group |-> QuoteOf(group[n])]]

\* Where the keys first appear.
Firsts(fs) == {i \in DOMAIN fs : \A j \in 1..(i - 1) : DedupeKey(fs[j]) # DedupeKey(fs[i])}

\* Wrong on purpose: the first quote of a flight is the one displayed.
MergeKeepingFirst(fs) ==
  [n \in 1..Cardinality(Firsts(fs)) |-> Entry(Quotes(fs, Nth(Firsts(fs), n)))]

\* One entry per key, in the order the keys first appear: the cheapest quote,
\* with every quote attached when there are several.
MergeDuplicates(fs) ==
  [n \in 1..Cardinality(Firsts(fs)) |->
     Entry(StableSort(Quotes(fs, Nth(Firsts(fs), n)), LAMBDA f, g : f.price < g.price))]
-----------------------------------------------------------------------------
\* filter.Apply.  A filter is a record of the bounds that were given.

\* Times of day are texts: a sequence of digits, and Colon, which sorts after
\* them.
Colon == 10

HHMM(minutes) ==
  LET h == minutes \div 60
      m == minutes % 60
  IN  <<h \div 10, h % 10, Colon, m \div 10, m % 10>>

\* Wrong on purpose: every flight's clock is Greenwich's.
TimeOfDayUTC(t) == HHMM(t.instant % Day)

\* The clock on the wall where the time was written.
TimeOfDay(t) == HHMM((t.instant + t.offset) % Day)

\* Texts are compared place by place.
TextLess(s, t) ==
  \/ IsStrictPrefix(s, t)
  \/ \E i \in DOMAIN s \cap DOMAIN t : s[i] < t[i] /\ \A j \in 1..(i - 1) : s[j] = t[j]

AtLeast(filter, bound, v) == bound \in DOMAIN filter => v >= filter[bound]
AtMost(filter, bound, v) == bound \in DOMAIN filter => v <= filter[bound]
NotBefore(filter, bound, t) == bound \in DOMAIN filter => ~TextLess(TimeOfDay(t), filter[bound])
NotAfter(filter, bound, t) == bound \in DOMAIN filter => ~TextLess(filter[bound], TimeOfDay(t))

\* By code or by name.
MatchesAirline(f, airlines) == f.airline.code \in airlines \/ f.airline.name \in airlines

Matches(f, filter) ==
  /\ AtLeast(filter, "min_price", f.price)
  /\ AtMost(filter, "max_price", f.price)
  /\ AtMost(filter, "max_stops", f.stops)
  /\ AtLeast(filter, "min_duration_minutes", Duration(f))
  /\ AtMost(filter, "max_duration_minutes", Duration(f))
  /\ "airlines" \in DOMAIN filter => MatchesAirline(f, filter.airlines)
  /\ NotBefore(filter, "depart_after", f.dep)
  /\ NotAfter(filter, "depart_before", f.dep)
  /\ NotBefore(filter, "arrive_after", f.arr)
  /\ NotAfter(filter, "arrive_before", f.arr)

Filtered(fs, filter) == Kept(fs, {i \in DOMAIN fs : Matches(fs[i], filter)})
-----------------------------------------------------------------------------
\* ranking.Compute.

\* DefaultWeights, in tenths.
Weights == [price |-> 5, duration |-> 3, stops |-> 2]

\* Where x lies between hi (0) and lo (1), as a fraction.
Share(lo, hi, x) == IF hi > lo THEN [num |-> hi - x, den |-> hi - lo] ELSE [num |-> 1, den |-> 1]

Least(fs, v(_)) == v(fs[CHOOSE i \in DOMAIN fs : \A j \in DOMAIN fs : v(fs[i]) <= v(fs[j])])
Greatest(fs, v(_)) == v(fs[CHOOSE i \in DOMAIN fs : \A j \in DOMAIN fs : v(fs[i]) >= v(fs[j])])

Price(f) == f.price
Stops(f) == f.stops

\* The weighted sum of the three shares, rounded to hundredths of a percent.
Weighted(p, d, s) ==
  LET num == Weights.price * p.num * d.den * s.den
             + Weights.duration * d.num * p.den * s.den
             + Weights.stops * s.num * p.den * d.den
      den == 10 * p.den * d.den * s.den
  IN  (20000 * num + den) \div (2 * den)

\* Wrong on purpose: the longest trip gets the best duration score.
ComputeLongest(fs) ==
  [i \in DOMAIN fs |->
     [fs[i] EXCEPT !.score =
        Weighted(Share(Least(fs, Price), Greatest(fs, Price), fs[i].price),
                 Share(0, Greatest(fs, Duration) - Least(fs, Duration),
                          Greatest(fs, Duration) - Duration(fs[i])),
                 Share(0, Greatest(fs, Stops), fs[i].stops))]]

\* Wrong on purpose: prices are measured from zero.
ComputeFromZero(fs) ==
  [i \in DOMAIN fs |->
     [fs[i] EXCEPT !.score =
        Weighted(Share(0, Greatest(fs, Price), fs[i].price),
                 Share(Least(fs, Duration), Greatest(fs, Duration), Duration(fs[i])),
                 Share(0, Greatest(fs, Stops), fs[i].stops))]]

\* Price and duration are normalised between the least and the greatest of
\* the list, stops between none and the greatest.
Compute(fs) ==
  [i \in DOMAIN fs |->
     [fs[i] EXCEPT !.score =
        Weighted(Share(Least(fs, Price), Greatest(fs, Price), fs[i].price),
                 Share(Least(fs, Duration), Greatest(fs, Duration), Duration(fs[i])),
                 Share(0, Greatest(fs, Stops), fs[i].stops))]]
-----------------------------------------------------------------------------
\* sortutil.Apply.

SortsBefore(option, f, g) ==
  CASE option = "price_asc"      -> f.price < g.price
    [] option = "price_desc"     -> f.price > g.price
    [] option = "duration_asc"   -> Duration(f) < Duration(g)
    [] option = "duration_desc"  -> Duration(f) > Duration(g)
    [] option = "departure_time" -> f.dep.instant < g.dep.instant
    [] option = "arrival_time"   -> f.arr.instant < g.arr.instant
    [] OTHER                     -> f.score > g.score

SortOptions == {"price_asc", "price_desc", "duration_asc", "duration_desc",
                "departure_time", "arrival_time", "best_value"}

\* Wrong on purpose: descending orders are got by reversing ascending ones.
SortedByReversing(fs, option) ==
  IF option \in {"price_desc", "duration_desc"}
  THEN Reverse(StableSort(fs, LAMBDA f, g : SortsBefore(option, g, f)))
  ELSE StableSort(fs, LAMBDA f, g : SortsBefore(option, f, g))

Sorted(fs, option) == StableSort(fs, LAMBDA f, g : SortsBefore(option, f, g))
-----------------------------------------------------------------------------
\* Summaries of several legs.

Id(f) == <<f.number, f.provider>>

\* Wrong on purpose: takes for granted that the list is sorted by price.
CheapestIsFirst(fs) == fs[1]

\* The first of the flights with the lowest amount.
CheapestFlight(fs) ==
  LET lowest == {i \in DOMAIN fs : \A j \in DOMAIN fs : fs[i].price <= fs[j].price}
  IN  fs[CHOOSE i \in lowest : \A j \in lowest : i <= j]

NoEstimate == [ids |-> <<>>, total |-> 0, currency |-> "none"]

SumOf(ns) == FoldLeft(LAMBDA sum, n : sum + n, 0, ns)

\* The cheapest flight of every leg and what they cost together; none if a leg
\* is empty or the cheapest flights are not all in one currency.
BuildMultiCityEstimate(legs) ==
  LET cheapest == [i \in DOMAIN legs |-> CheapestFlight(legs[i])]
  IN  IF \/ legs = <<>>
         \/ \E i \in DOMAIN legs : legs[i] = <<>>
         \/ \E i \in DOMAIN legs : cheapest[i].currency # cheapest[1].currency
      THEN NoEstimate
      ELSE [ids      |-> [i \in DOMAIN legs |-> Id(cheapest[i])],
            total    |-> SumOf([i \in DOMAIN legs |-> cheapest[i].price]),
            currency |-> cheapest[1].currency]

BuildRoundTripEstimate(outbound, return) == BuildMultiCityEstimate(<<outbound, return>>)

\* Wrong on purpose: one cached leg makes the whole trip a cache hit.
CombinedAnyHit(metas) ==
  LET Sum(field) == SumOf([i \in DOMAIN metas |-> metas[i][field]])
  IN  [total |-> Sum("total"), queried |-> Sum("queried"), succeeded |-> Sum("succeeded"),
       failed |-> Sum("failed"),
       errors |-> FlattenSeq([i \in DOMAIN metas |-> metas[i].errors]),
       hit |-> \E i \in DOMAIN metas : metas[i].hit]

CombinedMetadata(metas) ==
  LET Sum(field) == SumOf([i \in DOMAIN metas |-> metas[i][field]])
  IN  [total |-> Sum("total"), queried |-> Sum("queried"), succeeded |-> Sum("succeeded"),
       failed |-> Sum("failed"),
       errors |-> FlattenSeq([i \in DOMAIN metas |-> metas[i].errors]),
       hit |-> \A i \in DOMAIN metas : metas[i].hit]
==============================================================================
