--------------------------- MODULE LegPipelineProofs ---------------------------
(***************************************************************************)
(* Whatever the airlines reply, every journey sold within a price ceiling  *)
(* is listed, and what is listed is sold as it is shown and within the     *)
(* bounds on the clock; each entry of a flight whose departure is written   *)
(* alike by all is the only one and has its quotes;                        *)
(* the list is in the order asked for, and its scores respect dominance,   *)
(* and are percentages when no airline counts fewer than no stops.         *)
(***************************************************************************)
EXTENDS LegPipeline, ListingsProofs

-----------------------------------------------------------------------------
\* No airline counts fewer than no stops.  The adapters copy the counts they
\* are given without looking at them, and a negative one would lift its flight
\* above 100, so this is a hypothesis of Scale and of nothing else.
NaturalStops ==
  \A r \in Replies :
    /\ \A o \in ToSet(r.batik.offers) : o.numberOfStops >= 0
    /\ \A o \in ToSet(r.garuda.offers) : o.stops >= 0
    /\ \A o \in ToSet(r.lion.offers) : o.stop_count >= 0

\* The counts there can be, so that one proof serves with the hypothesis and
\* without it.
StopCounts == IF NaturalStops THEN Nat ELSE Int

\* Either way they are numbers.
LEMMA StopCountsAreNumbers == StopCounts \subseteq Int /\ Nat \subseteq StopCounts
BY DEF StopCounts

-----------------------------------------------------------------------------
\* The adapters.

\* Flights as the adapters build them: nothing compared and nothing scored yet.
Plain(f) == f.comparison = <<>> /\ f.score = 0 /\ f.stops \in StopCounts

Offered(fs) == Listed(fs) /\ \A f \in ToSet(fs) : Plain(f)

\* A failed provider offers none.
LEMMA OfferedNone == Offered(<<>>)
<1>1. ToSet(<<>>) = {}
  BY DEF ToSet
<1> QED
  BY <1>1, ListedNone DEF Offered

\* What several offer is offered.
LEMMA OfferedFlat ==
  ASSUME NEW n \in Nat, NEW seqs, seqs = [i \in 1..n |-> seqs[i]],
         \A i \in 1..n : Offered(seqs[i])
  PROVE  Offered(FlattenSeq(seqs))
<1> DEFINE S == UNION {ToSet(seqs[i]) : i \in 1..n}
<1>1. \A f \in S : Plain(f)
  BY DEF Offered
<1>2. \A i \in 1..n : Listed(seqs[i])
  BY DEF Offered
<1>3. Listed(FlattenSeq(seqs))
  BY <1>2, ListedFlat
<1>4. FlattenSeq(seqs) \in Seq(S)
  BY <1>2, FlattenedFrom
<1> HIDE DEF S
<1>5. ToSet(FlattenSeq(seqs)) \subseteq S
  BY <1>4 DEF ToSet
<1> QED
  BY <1>1, <1>3, <1>5 DEF Offered

\* What time.Parse gives: an instant, and the offset it is displayed in.
Moments == [instant : Int, offset : Int]

\* An adapter that accepts a time has an instant and an offset.
LEMMA Parsed ==
  /\ \A text : IsTime(text) => ParseWithOffset(text) \in Seq(Moments)
  /\ \A zone : \A text \in Seq(Clocks) : ParseWithZoneName(text, zone) \in Seq(Moments)
<1>1. ASSUME NEW text, IsTime(text) PROVE ParseWithOffset(text) \in Seq(Moments)
  <2>1. DOMAIN text = 1..Len(text) /\ Len(text) \in Nat
    BY <1>1 DEF IsTime
  <2>2. \A i \in DOMAIN text : text[i] \in ClocksWithOffset
    BY <1>1 DEF IsTime
  <2> QED
    BY <2>1, <2>2 DEF ClocksWithOffset, ParseWithOffset, Moment, Moments
<1>2. ASSUME NEW zone, NEW text \in Seq(Clocks)
      PROVE  ParseWithZoneName(text, zone) \in Seq(Moments)
  <2>1. CASE zone \in DOMAIN Zones
    <3>1. Zones[zone] \in Int
      BY <2>1, ZonesAssumption
    <3>2. DOMAIN text = 1..Len(text) /\ Len(text) \in Nat
      OBVIOUS
    <3>3. \A i \in DOMAIN text : text[i] \in Clocks
      OBVIOUS
    <3> QED
      BY <2>1, <3>1, <3>2, <3>3 DEF Clocks, ParseWithZoneName, Moment, Moments
  <2>2. CASE zone \notin DOMAIN Zones
    BY <2>2 DEF ParseWithZoneName
  <2> QED
    BY <2>1, <2>2
<1> QED
  BY <1>1, <1>2

\* Read where it was written, it shows the clock it was written with.
LEMMA ParsedShows ==
  /\ \A text, airport : IsTime(text) /\ ShownAt(text, airport) =>
       LET t == ParseWithOffset(text)
       IN  /\ t # <<>> /\ ClockAt(t[1]) = Shown(text)
           /\ t[1].instant = Shown(text) - AirportOffset[airport]
           /\ Shown(text) \in Int /\ AirportOffset[airport] \in Int
  /\ \A text \in Seq(Clocks) : \A zone, airport : text # <<>> /\ ZoneOf(zone, airport) =>
       LET t == ParseWithZoneName(text, zone)
       IN  /\ t # <<>> /\ ClockAt(t[1]) = Shown(text)
           /\ t[1].instant = Shown(text) - AirportOffset[airport]
           /\ Shown(text) \in Int /\ AirportOffset[airport] \in Int
<1>1. ASSUME NEW text, NEW airport, IsTime(text), ShownAt(text, airport)
      PROVE  LET t == ParseWithOffset(text)
             IN  /\ t # <<>> /\ ClockAt(t[1]) = Shown(text)
                 /\ t[1].instant = Shown(text) - AirportOffset[airport]
                 /\ Shown(text) \in Int /\ AirportOffset[airport] \in Int
  <2>1. 1 \in DOMAIN text /\ text # <<>> /\ text[1].clock \in Int /\ text[1].offset \in Int
    <3>1. text \in Seq(ClocksWithOffset) /\ text # <<>>
      BY <1>1 DEF IsTime, ShownAt
    <3>2. 1 \in DOMAIN text /\ text[1] \in ClocksWithOffset
      BY <3>1
    <3> QED
      BY <3>1, <3>2 DEF ClocksWithOffset
  <2>2. /\ 1 \in DOMAIN ParseWithOffset(text)
        /\ ParseWithOffset(text)[1] = Moment(text[1].clock, text[1].offset)
    BY <2>1 DEF ParseWithOffset
  <2> QED
    BY <1>1, <2>1, <2>2 DEF ShownAt, Shown, Moment, ClockAt
<1>2. ASSUME NEW text \in Seq(Clocks), NEW zone, NEW airport, text # <<>>, ZoneOf(zone, airport)
      PROVE  LET t == ParseWithZoneName(text, zone)
             IN  /\ t # <<>> /\ ClockAt(t[1]) = Shown(text)
                 /\ t[1].instant = Shown(text) - AirportOffset[airport]
                 /\ Shown(text) \in Int /\ AirportOffset[airport] \in Int
  <2>1. 1 \in DOMAIN text /\ text[1].clock \in Int
    <3>1. 1 \in DOMAIN text /\ text[1] \in Clocks
      BY <1>2
    <3> QED
      BY <3>1 DEF Clocks
  <2>2. zone \in DOMAIN Zones /\ Zones[zone] = AirportOffset[airport] /\ Zones[zone] \in Int
    BY <1>2, ZonesAssumption DEF ZoneOf
  <2>3. /\ 1 \in DOMAIN ParseWithZoneName(text, zone)
        /\ ParseWithZoneName(text, zone)[1] = Moment(text[1].clock, Zones[zone])
    BY <2>1, <2>2 DEF ParseWithZoneName
  <2> QED
    BY <1>2, <2>1, <2>2, <2>3 DEF Shown, Moment, ClockAt
<1> QED
  BY <1>1, <1>2

\* A journey an adapter does not skip.
Sellable(j) == j.number # NoNumber /\ j.minutes > 0 /\ j.price > 0

\* The flights are of the journeys: each is of one, shown as it is if it is
\* clear, and no clear one that can be sold is left out.
Renders(fs, journeys) ==
  /\ \A f \in ToSet(fs) : \E j \in journeys :
       /\ j.provider = f.provider /\ j.number = f.number
       /\ j.clear => Sellable(j) /\ Shows(f, j)
  /\ \A j \in journeys : j.clear /\ Sellable(j) => \E f \in ToSet(fs) : Shows(f, j)

\* What becomes of the offers of those journeys.
Carries(fs, journeys) == Offered(fs) /\ Renders(fs, journeys)

\* Lists end to end are of all the journeys they are of.
LEMMA CarriedFlat ==
  ASSUME NEW n \in Nat, NEW seqs, NEW js, seqs = [i \in 1..n |-> seqs[i]],
         \A i \in 1..n : Carries(seqs[i], js[i]),
         NEW journeys, \A j : j \in journeys <=> \E i \in 1..n : j \in js[i]
  PROVE  Carries(FlattenSeq(seqs), journeys)
<1> DEFINE S == UNION {ToSet(seqs[i]) : i \in 1..n}
           all == FlattenSeq(seqs)
<1>1. \A i \in 1..n : Offered(seqs[i]) /\ Listed(seqs[i]) /\ Renders(seqs[i], js[i])
  BY DEF Carries, Offered
<1>2. Offered(all)
  BY <1>1, OfferedFlat
<1>3. all \in Seq(S)
  BY <1>1, FlattenedFrom
<1>4. \A i \in 1..n : \A f \in ToSet(seqs[i]) : f \in ToSet(all)
  <2>1. \A i \in 1..n : seqs[i] \in Seq(S)
    <3> SUFFICES ASSUME NEW i \in 1..n PROVE seqs[i] \in Seq(S)
      OBVIOUS
    <3>1. ToSet(seqs[i]) \subseteq S /\ seqs[i] \in Seq(ToSet(seqs[i]))
      BY <1>1 DEF Listed
    <3> HIDE DEF S
    <3> QED
      BY <3>1
  <2> HIDE DEF S
  <2>2. seqs \in Seq(Seq(S)) /\ Len(seqs) = n
    BY <2>1
  <2> QED
    BY <2>2, FlattenHolds
<1>5. \A f \in ToSet(all) : \E i \in 1..n : f \in ToSet(seqs[i])
  <2>1. ToSet(all) \subseteq S
    <3> HIDE DEF S, all
    <3> QED
      BY <1>3 DEF ToSet
  <2> QED
    BY <2>1
<1> HIDE DEF all
<1>6. Renders(all, journeys)
  BY <1>1, <1>4, <1>5 DEF Renders
<1> QED
  BY <1>2, <1>6 DEF Carries, all

\* What an adapter builds is nothing, or the one flight of the journey.
LEMMA BuiltCarries ==
  ASSUME NEW dep \in Seq(Moments), NEW arr \in Seq(Moments), NEW f,
         f.stops \in StopCounts, f.price \in Int,
         NEW j, j.provider = f.provider, j.number = f.number, j.price = f.price,
         j.clear => /\ dep # <<>> /\ arr # <<>>
                    /\ ClockAt(dep[1]) = j.departs /\ ClockAt(arr[1]) = j.arrives
                    /\ j.minutes = arr[1].instant - dep[1].instant
                    /\ f.from = j.from /\ f.to = j.to
                    /\ f.stops = Len(j.via) /\ f.via = j.via
  PROVE  Carries(Built(dep, arr, f), {j})
<1> DEFINE flight ==
             [number |-> f.number, provider |-> f.provider, airline |-> f.airline,
              from |-> f.from, to |-> f.to, dep |-> dep[1], arr |-> arr[1],
              stops |-> f.stops, via |-> f.via, price |-> f.price, currency |-> f.currency,
              comparison |-> <<>>, score |-> 0]
           some == dep # <<>> /\ arr # <<>> /\ Valid(flight)
<1>1. Built(dep, arr, f) = IF some THEN <<flight>> ELSE <<>>
  BY DEF Built, BuildFlight
<1>2. ASSUME dep # <<>>, arr # <<>>
      PROVE  /\ IsFlight(flight) /\ Plain(flight)
             /\ flight.number = f.number /\ flight.provider = f.provider
             /\ flight.from = f.from /\ flight.to = f.to
             /\ flight.dep = dep[1] /\ flight.arr = arr[1]
             /\ flight.stops = f.stops /\ flight.via = f.via /\ flight.price = f.price
             /\ flight.dep.instant \in Int /\ flight.arr.instant \in Int
  <2>1. f.stops \in Int
    BY StopCountsAreNumbers
  <2>2. dep[1] \in Moments /\ arr[1] \in Moments
    BY <1>2
  <2> QED
    BY <2>1, <2>2 DEF IsFlight, Moments, Plain
<1> HIDE DEF flight
<1>3. ASSUME j.clear
      PROVE  dep # <<>> /\ arr # <<>> /\ Shows(flight, j) /\ (Valid(flight) <=> Sellable(j))
  <2>1. dep # <<>> /\ arr # <<>>
    BY <1>3
  <2>2. Duration(flight) = j.minutes
    BY <1>2, <1>3, <2>1 DEF Duration
  <2>3. Shows(flight, j)
    BY <1>2, <1>3, <2>1, <2>2 DEF Shows, Departs
  <2>4. flight.arr.instant > flight.dep.instant <=> j.minutes > 0
    BY <1>2, <2>1, <2>2 DEF Duration
  <2>5. Valid(flight) <=> Sellable(j)
    BY <1>2, <2>1, <2>4 DEF Valid, Sellable
  <2> QED
    BY <2>1, <2>3, <2>5
<1>4. CASE some
  <2>1. Flights({flight}) /\ <<flight>> \in Seq({flight}) /\ ToSet(<<flight>>) = {flight}
    BY <1>2, <1>4 DEF Flights, ToSet
  <2>2. Offered(<<flight>>)
    BY <1>2, <1>4, <2>1, ListedFrom DEF Offered
  <2>3. flight.number = j.number /\ flight.provider = j.provider
    BY <1>2, <1>4
  <2>4. Renders(<<flight>>, {j})
    BY <1>3, <1>4, <2>1, <2>3 DEF Renders
  <2> QED
    BY <1>1, <1>4, <2>2, <2>4 DEF Carries
<1>5. CASE ~some
  <2>1. ToSet(<<>>) = {}
    BY DEF ToSet
  <2>2. Renders(<<>>, {j})
    BY <1>3, <1>5, <2>1 DEF Renders
  <2> QED
    BY <1>1, <1>5, <2>2, OfferedNone DEF Carries
<1> QED
  BY <1>4, <1>5

\* Each adapter's offers become flights of the journeys they are for.
LEMMA AirAsiaCarries ==
  ASSUME NEW r \in Replies, NEW o \in ToSet(r.airasia.offers)
  PROVE  Carries(AirAsiaFlight(o), {AirAsiaJourney(o)})
<1> DEFINE dep == ParseWithOffset(o.depart_time)
           arr == ParseWithOffset(o.arrive_time)
           stops == IF o.direct_flight THEN 0 ELSE IF o.stops = <<>> THEN 1 ELSE Len(o.stops)
           via == IF o.direct_flight THEN <<>> ELSE o.stops
           f == [number |-> o.flight_code, provider |-> "AirAsia",
                 airline |-> [name |-> o.airline, code |-> ExtractAirlineCode(o.flight_code)],
                 from |-> o.from_airport, to |-> o.to_airport, stops |-> stops, via |-> via,
                 price |-> o.price_idr, currency |-> "IDR"]
           j == AirAsiaJourney(o)
<1>1. IsAirAsiaOffer(o)
  BY RepliesAssumption DEF Decoded
<1>2. dep \in Seq(Moments) /\ arr \in Seq(Moments)
  BY <1>1, Parsed DEF IsAirAsiaOffer
<1>3. Len(o.stops) \in Nat /\ o.price_idr \in Int
  BY <1>1 DEF IsAirAsiaOffer
<1>4. stops \in StopCounts
  BY <1>3, StopCountsAreNumbers
<1>5. /\ j.provider = "AirAsia" /\ j.number = o.flight_code /\ j.price = o.price_idr
      /\ j.from = o.from_airport /\ j.to = o.to_airport /\ j.via = o.stops
      /\ j.departs = Shown(o.depart_time) /\ j.arrives = Shown(o.arrive_time)
      /\ j.minutes = (Shown(o.arrive_time) - AirportOffset[o.to_airport])
                     - (Shown(o.depart_time) - AirportOffset[o.from_airport])
      /\ j.clear => /\ ShownAt(o.depart_time, o.from_airport)
                    /\ ShownAt(o.arrive_time, o.to_airport)
                    /\ o.direct_flight <=> o.stops = <<>>
  BY DEF AirAsiaJourney, Journey
<1> HIDE DEF j
<1>6. ASSUME j.clear
      PROVE  /\ dep # <<>> /\ arr # <<>>
             /\ ClockAt(dep[1]) = j.departs /\ ClockAt(arr[1]) = j.arrives
             /\ j.minutes = arr[1].instant - dep[1].instant
             /\ stops = Len(j.via) /\ via = j.via
  <2>1. /\ dep # <<>> /\ arr # <<>>
        /\ ClockAt(dep[1]) = j.departs /\ ClockAt(arr[1]) = j.arrives
        /\ j.minutes = arr[1].instant - dep[1].instant
    BY <1>1, <1>5, <1>6, ParsedShows DEF IsAirAsiaOffer
  <2>2. stops = Len(j.via) /\ via = j.via
    BY <1>5, <1>6
  <2> QED
    BY <2>1, <2>2
<1>7. AirAsiaFlight(o) = Built(dep, arr, f)
  BY DEF AirAsiaFlight
<1>8. /\ f.number = o.flight_code /\ f.provider = "AirAsia" /\ f.from = o.from_airport
      /\ f.to = o.to_airport /\ f.stops = stops /\ f.via = via /\ f.price = o.price_idr
  OBVIOUS
<1> HIDE DEF f, dep, arr, stops, via
<1>9. Carries(Built(dep, arr, f), {j})
  BY <1>2, <1>3, <1>4, <1>5, <1>6, <1>8, BuiltCarries
<1> QED
  BY <1>7, <1>9 DEF j

\* Batik Air's offers: stops are numberOfStops.
LEMMA BatikAirCarries ==
  ASSUME NEW r \in Replies, NEW o \in ToSet(r.batik.offers)
  PROVE  Carries(BatikAirFlight(o), {BatikAirJourney(o)})
<1> DEFINE dep == ParseWithOffset(o.departureDateTime)
           arr == ParseWithOffset(o.arrivalDateTime)
           f == [number |-> o.flightNumber, provider |-> "Batik Air",
                 airline |-> [name |-> o.airlineName, code |-> o.airlineIATA],
                 from |-> o.origin, to |-> o.destination,
                 stops |-> o.numberOfStops, via |-> o.connections,
                 price |-> o.totalPrice, currency |-> o.currencyCode]
           j == BatikAirJourney(o)
<1>1. IsBatikAirOffer(o)
  BY RepliesAssumption DEF Decoded
<1>2. dep \in Seq(Moments) /\ arr \in Seq(Moments)
  BY <1>1, Parsed DEF IsBatikAirOffer
<1>3. o.numberOfStops \in StopCounts /\ o.totalPrice \in Int
  BY <1>1 DEF IsBatikAirOffer, StopCounts, NaturalStops
<1>4. /\ j.provider = "Batik Air" /\ j.number = o.flightNumber /\ j.price = o.totalPrice
      /\ j.from = o.origin /\ j.to = o.destination /\ j.via = o.connections
      /\ j.departs = Shown(o.departureDateTime) /\ j.arrives = Shown(o.arrivalDateTime)
      /\ j.minutes = (Shown(o.arrivalDateTime) - AirportOffset[o.destination])
                     - (Shown(o.departureDateTime) - AirportOffset[o.origin])
      /\ j.clear => /\ ShownAt(o.departureDateTime, o.origin)
                    /\ ShownAt(o.arrivalDateTime, o.destination)
                    /\ o.numberOfStops = Len(o.connections)
  BY DEF BatikAirJourney, Journey
<1> HIDE DEF j
<1>5. ASSUME j.clear
      PROVE  /\ dep # <<>> /\ arr # <<>>
             /\ ClockAt(dep[1]) = j.departs /\ ClockAt(arr[1]) = j.arrives
             /\ j.minutes = arr[1].instant - dep[1].instant
             /\ o.numberOfStops = Len(j.via)
  BY <1>1, <1>4, <1>5, ParsedShows DEF IsBatikAirOffer
<1>6. BatikAirFlight(o) = Built(dep, arr, f)
  BY DEF BatikAirFlight
<1>7. /\ f.number = o.flightNumber /\ f.provider = "Batik Air" /\ f.from = o.origin
      /\ f.to = o.destination /\ f.stops = o.numberOfStops /\ f.via = o.connections
      /\ f.price = o.totalPrice
  OBVIOUS
<1> HIDE DEF f, dep, arr
<1>8. Carries(Built(dep, arr, f), {j})
  BY <1>2, <1>3, <1>4, <1>5, <1>7, BuiltCarries
<1> QED
  BY <1>6, <1>8 DEF j

\* Garuda's: stops are stated, or counted from the segments.
LEMMA GarudaCarries ==
  ASSUME NEW r \in Replies, NEW o \in ToSet(r.garuda.offers)
  PROVE  Carries(GarudaFlight(o), {GarudaJourney(o)})
<1> DEFINE chained == Len(o.segments) > 1
           inner == Len(o.segments) - 1
           arrival == IF chained THEN Last(o.segments).arrival ELSE o.arrival
           stops == IF chained THEN inner ELSE o.stops
           via == IF chained THEN [i \in 1..inner |-> o.segments[i].arrival.airport] ELSE <<>>
           dep == ParseWithOffset(o.departure.time)
           arr == ParseWithOffset(arrival.time)
           f == [number |-> o.flight_id, provider |-> "Garuda Indonesia",
                 airline |-> [name |-> o.airline, code |-> o.airline_code],
                 from |-> o.departure.airport, to |-> arrival.airport,
                 stops |-> stops, via |-> via, price |-> o.amount, currency |-> o.currency]
           chain == IF o.segments = <<>>
                    THEN <<[departure |-> o.departure, arrival |-> o.arrival]>>
                    ELSE o.segments
           end == Last(chain).arrival
           start == chain[1].departure
           j == GarudaJourney(o)
<1>1. IsGarudaOffer(o)
  BY RepliesAssumption DEF Decoded
<1>2. o.segments \in Seq(ToSet(o.segments)) /\ Len(o.segments) \in Nat
  BY <1>1 DEF IsGarudaOffer, Decoded
<1>3. IsTime(arrival.time)
  <2>1. \A segment \in ToSet(o.segments) : IsTime(segment.arrival.time)
    BY <1>1 DEF IsGarudaOffer, Decoded
  <2>2. chained => Last(o.segments) \in ToSet(o.segments)
    BY <1>2 DEF Last
  <2> QED
    BY <1>1, <2>1, <2>2 DEF IsGarudaOffer
<1>4. dep \in Seq(Moments) /\ arr \in Seq(Moments)
  BY <1>1, <1>3, Parsed DEF IsGarudaOffer
<1>5. stops \in StopCounts /\ o.amount \in Int
  <2>1. o.stops \in StopCounts /\ o.amount \in Int
    BY <1>1 DEF IsGarudaOffer, StopCounts, NaturalStops
  <2>2. chained => inner \in Nat
    BY <1>2
  <2> QED
    BY <2>1, <2>2, StopCountsAreNumbers
<1>6. /\ j.provider = "Garuda Indonesia" /\ j.number = o.flight_id /\ j.price = o.amount
      /\ j.from = start.airport /\ j.to = end.airport
      /\ j.via = [i \in 1..(Len(chain) - 1) |-> chain[i].arrival.airport]
      /\ j.departs = Shown(start.time) /\ j.arrives = Shown(end.time)
      /\ j.minutes = (Shown(end.time) - AirportOffset[end.airport])
                     - (Shown(start.time) - AirportOffset[start.airport])
      /\ j.clear => /\ ShownAt(start.time, start.airport) /\ ShownAt(end.time, end.airport)
                    /\ start = o.departure
                    /\ Len(chain) = 1 => o.arrival = end /\ o.stops = 0
  BY DEF GarudaJourney, Journey
<1>7. ASSUME j.clear
      PROVE  start = o.departure /\ end = arrival /\ stops = Len(j.via) /\ via = j.via
  <2>1. CASE chained
    <3>1. chain = o.segments
      BY <2>1
    <3>2. j.via = [i \in 1..inner |-> o.segments[i].arrival.airport] /\ inner \in Nat
      <4>1. inner \in Nat
        BY <1>2, <2>1
      <4> HIDE DEF chain
      <4> QED
        BY <1>6, <3>1, <4>1
    <3>3. via = j.via /\ stops = inner /\ Len(j.via) = inner
      BY <2>1, <3>2
    <3>4. end = arrival
      BY <2>1, <3>1
    <3> QED
      BY <1>6, <1>7, <3>3, <3>4
  <2>2. CASE ~chained
    <3>1. Len(chain) = 1
      <4>1. CASE o.segments = <<>>
        BY <4>1
      <4>2. CASE o.segments # <<>>
        <5>1. Len(o.segments) # 0
          BY <1>2, <4>2
        <5>2. chain = o.segments
          BY <4>2
        <5> HIDE DEF chain
        <5>3. Len(o.segments) \in Nat /\ ~(Len(o.segments) > 1)
          BY <1>2, <2>2
        <5>4. \A n \in Nat : n # 0 /\ ~(n > 1) => n = 1
          OBVIOUS
        <5> QED
          BY <5>1, <5>2, <5>3, <5>4, Zenon
      <4> QED
        BY <4>1, <4>2
    <3>2. via = <<>> /\ stops = o.stops /\ arrival = o.arrival
      BY <2>2
    <3>3. j.via = <<>>
      <4> HIDE DEF chain
      <4>1. Len(chain) - 1 = 0
        BY <3>1
      <4>2. DOMAIN j.via = 1..(Len(chain) - 1) /\ j.via = [i \in DOMAIN j.via |-> j.via[i]]
        BY <1>6
      <4>3. j.via = [i \in 1..0 |-> j.via[i]]
        BY <4>1, <4>2
      <4> QED
        BY <4>3
    <3>4. o.arrival = end /\ o.stops = 0 /\ start = o.departure
      BY <1>6, <1>7, <3>1
    <3> QED
      BY <3>2, <3>3, <3>4
  <2> QED
    BY <2>1, <2>2
<1> HIDE DEF j, start, end, chain, stops, via, arrival
<1>8. ASSUME j.clear
      PROVE  /\ dep # <<>> /\ arr # <<>>
             /\ ClockAt(dep[1]) = j.departs /\ ClockAt(arr[1]) = j.arrives
             /\ j.minutes = arr[1].instant - dep[1].instant
  <2>1. /\ IsTime(o.departure.time) /\ ShownAt(o.departure.time, o.departure.airport)
        /\ IsTime(arrival.time) /\ ShownAt(arrival.time, arrival.airport)
    BY <1>1, <1>3, <1>6, <1>7, <1>8 DEF IsGarudaOffer
  <2>2. /\ j.departs = Shown(o.departure.time) /\ j.arrives = Shown(arrival.time)
        /\ j.minutes = (Shown(arrival.time) - AirportOffset[arrival.airport])
                       - (Shown(o.departure.time) - AirportOffset[o.departure.airport])
    BY <1>6, <1>7, <1>8
  <2> QED
    BY <2>1, <2>2, ParsedShows
<1>9. GarudaFlight(o) = Built(dep, arr, f)
  BY DEF GarudaFlight, stops, via, arrival
<1>10. /\ f.number = o.flight_id /\ f.provider = "Garuda Indonesia"
       /\ f.from = o.departure.airport /\ f.to = arrival.airport
       /\ f.stops = stops /\ f.via = via /\ f.price = o.amount
  OBVIOUS
<1> HIDE DEF f, dep, arr
<1>11. Carries(Built(dep, arr, f), {j})
  BY <1>4, <1>5, <1>6, <1>7, <1>8, <1>10, BuiltCarries
<1> QED
  BY <1>9, <1>11 DEF j

\* Lion Air's: stops are counted unless the flight is direct.
LEMMA LionAirCarries ==
  ASSUME NEW r \in Replies, NEW o \in ToSet(r.lion.offers)
  PROVE  Carries(LionAirFlight(o), {LionAirJourney(o)})
<1> DEFINE dep == ParseWithZoneName(o.departure, o.departure_timezone)
           arr == ParseWithZoneName(o.arrival, o.arrival_timezone)
           stops == IF o.is_direct THEN 0
                    ELSE IF o.stop_count = 0 THEN Len(o.layovers) ELSE o.stop_count
           via == IF o.is_direct THEN <<>> ELSE o.layovers
           f == [number |-> o.id, provider |-> "Lion Air",
                 airline |-> [name |-> o.name, code |-> o.iata], from |-> o.from, to |-> o.to,
                 stops |-> stops, via |-> via, price |-> o.total, currency |-> o.currency]
           j == LionAirJourney(o)
<1>1. IsLionAirOffer(o)
  BY RepliesAssumption DEF Decoded
<1>2. dep \in Seq(Moments) /\ arr \in Seq(Moments)
  BY <1>1, Parsed DEF IsLionAirOffer
<1>3. Len(o.layovers) \in Nat /\ o.total \in Int
  BY <1>1 DEF IsLionAirOffer
<1>4. stops \in StopCounts
  <2>1. o.stop_count \in StopCounts
    BY <1>1 DEF IsLionAirOffer, StopCounts, NaturalStops
  <2> QED
    BY <1>3, <2>1, StopCountsAreNumbers
<1>5. /\ j.provider = "Lion Air" /\ j.number = o.id /\ j.price = o.total
      /\ j.from = o.from /\ j.to = o.to /\ j.via = o.layovers
      /\ j.departs = Shown(o.departure) /\ j.arrives = Shown(o.arrival)
      /\ j.minutes = (Shown(o.arrival) - AirportOffset[o.to])
                     - (Shown(o.departure) - AirportOffset[o.from])
      /\ j.clear => /\ o.departure # <<>> /\ o.arrival # <<>>
                    /\ ZoneOf(o.departure_timezone, o.from) /\ ZoneOf(o.arrival_timezone, o.to)
                    /\ o.is_direct <=> o.layovers = <<>>
                    /\ o.stop_count \in {0, Len(o.layovers)}
  BY DEF LionAirJourney, Journey
<1> HIDE DEF j
<1>6. ASSUME j.clear
      PROVE  /\ dep # <<>> /\ arr # <<>>
             /\ ClockAt(dep[1]) = j.departs /\ ClockAt(arr[1]) = j.arrives
             /\ j.minutes = arr[1].instant - dep[1].instant
             /\ stops = Len(j.via) /\ via = j.via
  <2>1. /\ dep # <<>> /\ arr # <<>>
        /\ ClockAt(dep[1]) = j.departs /\ ClockAt(arr[1]) = j.arrives
        /\ j.minutes = arr[1].instant - dep[1].instant
    <3>1. /\ o.departure \in Seq(Clocks) /\ o.departure # <<>>
          /\ o.arrival \in Seq(Clocks) /\ o.arrival # <<>>
          /\ ZoneOf(o.departure_timezone, o.from) /\ ZoneOf(o.arrival_timezone, o.to)
      BY <1>1, <1>5, <1>6 DEF IsLionAirOffer
    <3>2. /\ dep # <<>> /\ ClockAt(dep[1]) = Shown(o.departure)
          /\ dep[1].instant = Shown(o.departure) - AirportOffset[o.from]
      BY <3>1, ParsedShows
    <3>3. /\ arr # <<>> /\ ClockAt(arr[1]) = Shown(o.arrival)
          /\ arr[1].instant = Shown(o.arrival) - AirportOffset[o.to]
      BY <3>1, ParsedShows
    <3> HIDE DEF dep, arr
    <3> QED
      BY <1>5, <3>2, <3>3
  <2>2. CASE o.is_direct
    <3>1. o.layovers = <<>> /\ j.via = o.layovers
      BY <1>5, <1>6, <2>2
    <3>2. stops = 0 /\ via = <<>>
      BY <2>2
    <3> HIDE DEF stops, via, dep, arr
    <3> QED
      BY <2>1, <3>1, <3>2
  <2>3. CASE ~o.is_direct
    BY <1>3, <1>5, <1>6, <2>1, <2>3
  <2> QED
    BY <2>2, <2>3
<1>7. LionAirFlight(o) = Built(dep, arr, f)
  BY DEF LionAirFlight
<1>8. /\ f.number = o.id /\ f.provider = "Lion Air" /\ f.from = o.from /\ f.to = o.to
      /\ f.stops = stops /\ f.via = via /\ f.price = o.total
  OBVIOUS
<1> HIDE DEF f, dep, arr, stops, via
<1>9. Carries(Built(dep, arr, f), {j})
  BY <1>2, <1>3, <1>4, <1>5, <1>6, <1>8, BuiltCarries
<1> QED
  BY <1>7, <1>9 DEF j

\* The slots of the providers, each with a list of flights if it is not an error.
Slots(slots) ==
  /\ Len(slots) \in Nat /\ DOMAIN slots = 1..Len(slots)
  /\ \A i \in DOMAIN slots : slots[i].ok => Offered(slots[i].flights)

\* The slots in provider order make one list.
LEMMA CollectedOffered ==
  ASSUME NEW slots, Slots(slots)
  PROVE  Offered(Collect(slots))
<1> DEFINE seqs == [i \in DOMAIN slots |-> IF slots[i].ok THEN slots[i].flights ELSE <<>>]
<1>1. \A i \in 1..Len(slots) : Offered(seqs[i])
  BY OfferedNone DEF Slots
<1>2. Len(slots) \in Nat /\ seqs = [i \in 1..Len(slots) |-> seqs[i]]
  BY DEF Slots
<1>3. Collect(slots) = FlattenSeq(seqs)
  BY DEF Collect
<1> HIDE DEF seqs
<1> QED
  BY <1>1, <1>2, <1>3, OfferedFlat

\* So normalising every reply fills the slots with lists, and what is collected
\* from them is of all the journeys that were offered.
LEMMA ResultsCarry ==
  ASSUME replies \in Replies
  PROVE  Slots(ProviderResults(replies)) /\ Renders(Collect(ProviderResults(replies)), Journeys)
<1> DEFINE slots == ProviderResults(replies)
           seqs == [i \in 1..4 |-> IF slots[i].ok THEN slots[i].flights ELSE <<>>]
           js == <<{AirAsiaJourney(o) : o \in OffersOf(replies.airasia, replies.airasia.fetched)},
                   {BatikAirJourney(o) : o \in OffersOf(replies.batik,
                      replies.batik.fetched /\ replies.batik.code \in {0, 200})},
                   {GarudaJourney(o) : o \in OffersOf(replies.garuda, replies.garuda.fetched)},
                   {LionAirJourney(o) : o \in OffersOf(replies.lion,
                      replies.lion.fetched /\ replies.lion.success)}>>
<1>1. /\ replies.airasia.offers \in Seq(ToSet(replies.airasia.offers))
      /\ replies.batik.offers \in Seq(ToSet(replies.batik.offers))
      /\ replies.garuda.offers \in Seq(ToSet(replies.garuda.offers))
      /\ replies.lion.offers \in Seq(ToSet(replies.lion.offers))
  BY RepliesAssumption DEF Decoded
<1>2. /\ Len(slots) = 4 /\ DOMAIN slots = 1..4
      /\ slots[1] = AirAsiaSearch(replies.airasia) /\ slots[2] = BatikAirSearch(replies.batik)
      /\ slots[3] = GarudaSearch(replies.garuda) /\ slots[4] = LionAirSearch(replies.lion)
  BY DEF ProviderResults
<1> HIDE DEF slots
<1>3. Carries(<<>>, {})
  <2>1. ToSet(<<>>) = {}
    BY DEF ToSet
  <2> QED
    BY <2>1, OfferedNone DEF Carries, Renders
<1>4. Carries(seqs[1], js[1])
  <2> DEFINE reply == replies.airasia
             offers == reply.offers
             answered == reply.fetched
             flights == [i \in 1..Len(offers) |-> AirAsiaFlight(offers[i])]
             each == [i \in 1..Len(offers) |-> {AirAsiaJourney(offers[i])}]
  <2>1. Len(offers) \in Nat /\ DOMAIN offers = 1..Len(offers)
    BY <1>1
  <2>2. \A i \in 1..Len(offers) : Carries(flights[i], each[i])
    <3>1. \A i \in 1..Len(offers) : offers[i] \in ToSet(offers)
      BY <2>1 DEF ToSet
    <3> QED
      BY <3>1, AirAsiaCarries
  <2>3. slots[1].ok <=> answered
    BY <1>2 DEF AirAsiaSearch, Slot
  <2>4. answered => slots[1].flights = FlattenSeq(flights)
    BY <1>2, <2>1 DEF AirAsiaSearch, Slot
  <2>5. CASE answered
    <3>1. \A j : j \in js[1] <=> \E i \in 1..Len(offers) : j \in each[i]
      <4>1. \A o : o \in ToSet(offers) <=> \E i \in 1..Len(offers) : o = offers[i]
        BY <2>1 DEF ToSet
      <4>2. \A j : j \in js[1] <=> \E o \in ToSet(offers) : j = AirAsiaJourney(o)
        BY <2>5 DEF OffersOf
      <4>3. \A i \in 1..Len(offers) : each[i] = {AirAsiaJourney(offers[i])}
        OBVIOUS
      <4> HIDE DEF js, each, offers
      <4> QED
        BY <4>1, <4>2, <4>3
    <3>2. seqs[1] = FlattenSeq(flights)
      BY <2>3, <2>4, <2>5
    <3>3. flights = [i \in 1..Len(offers) |-> flights[i]]
      OBVIOUS
    <3> HIDE DEF flights, each, js, seqs, offers
    <3> QED
      BY <2>1, <2>2, <3>1, <3>2, <3>3, CarriedFlat
  <2>6. CASE ~answered
    <3>1. js[1] = {} /\ seqs[1] = <<>>
      BY <2>3, <2>6 DEF OffersOf
    <3> HIDE DEF js, seqs
    <3> QED
      BY <1>3, <3>1
  <2> QED
    BY <2>5, <2>6
<1>5. Carries(seqs[2], js[2])
  <2> DEFINE reply == replies.batik
             offers == reply.offers
             answered == reply.fetched /\ reply.code \in {0, 200}
             flights == [i \in 1..Len(offers) |-> BatikAirFlight(offers[i])]
             each == [i \in 1..Len(offers) |-> {BatikAirJourney(offers[i])}]
  <2>1. Len(offers) \in Nat /\ DOMAIN offers = 1..Len(offers)
    BY <1>1
  <2>2. \A i \in 1..Len(offers) : Carries(flights[i], each[i])
    <3>1. \A i \in 1..Len(offers) : offers[i] \in ToSet(offers)
      BY <2>1 DEF ToSet
    <3> QED
      BY <3>1, BatikAirCarries
  <2>3. slots[2].ok <=> answered
    <3>1. \A ok \in BOOLEAN : \A fs : [ok |-> ok, flights |-> fs].ok <=> ok
      OBVIOUS
    <3>2. slots[2] = [ok |-> answered, flights |-> slots[2].flights]
      BY <1>2 DEF BatikAirSearch, Slot
    <3>3. answered \in BOOLEAN
      OBVIOUS
    <3> HIDE DEF answered
    <3> QED
      BY <3>1, <3>2, <3>3, Zenon
  <2>4. answered => slots[2].flights = FlattenSeq(flights)
    BY <1>2, <2>1 DEF BatikAirSearch, Slot
  <2>5. CASE answered
    <3>1. \A j : j \in js[2] <=> \E i \in 1..Len(offers) : j \in each[i]
      <4>1. \A o : o \in ToSet(offers) <=> \E i \in 1..Len(offers) : o = offers[i]
        BY <2>1 DEF ToSet
      <4>2. \A j : j \in js[2] <=> \E o \in ToSet(offers) : j = BatikAirJourney(o)
        BY <2>5 DEF OffersOf
      <4>3. \A i \in 1..Len(offers) : each[i] = {BatikAirJourney(offers[i])}
        OBVIOUS
      <4> HIDE DEF js, each, offers
      <4> QED
        BY <4>1, <4>2, <4>3
    <3>2. seqs[2] = FlattenSeq(flights)
      BY <2>3, <2>4, <2>5
    <3>3. flights = [i \in 1..Len(offers) |-> flights[i]]
      OBVIOUS
    <3> HIDE DEF flights, each, js, seqs, offers
    <3> QED
      BY <2>1, <2>2, <3>1, <3>2, <3>3, CarriedFlat
  <2>6. CASE ~answered
    <3>1. js[2] = {} /\ seqs[2] = <<>>
      BY <2>3, <2>6 DEF OffersOf
    <3> HIDE DEF js, seqs
    <3> QED
      BY <1>3, <3>1
  <2> QED
    BY <2>5, <2>6
<1>6. Carries(seqs[3], js[3])
  <2> DEFINE reply == replies.garuda
             offers == reply.offers
             answered == reply.fetched
             flights == [i \in 1..Len(offers) |-> GarudaFlight(offers[i])]
             each == [i \in 1..Len(offers) |-> {GarudaJourney(offers[i])}]
  <2>1. Len(offers) \in Nat /\ DOMAIN offers = 1..Len(offers)
    BY <1>1
  <2>2. \A i \in 1..Len(offers) : Carries(flights[i], each[i])
    <3>1. \A i \in 1..Len(offers) : offers[i] \in ToSet(offers)
      BY <2>1 DEF ToSet
    <3> QED
      BY <3>1, GarudaCarries
  <2>3. slots[3].ok <=> answered
    BY <1>2 DEF GarudaSearch, Slot
  <2>4. answered => slots[3].flights = FlattenSeq(flights)
    BY <1>2, <2>1 DEF GarudaSearch, Slot
  <2>5. CASE answered
    <3>1. \A j : j \in js[3] <=> \E i \in 1..Len(offers) : j \in each[i]
      <4>1. \A o : o \in ToSet(offers) <=> \E i \in 1..Len(offers) : o = offers[i]
        BY <2>1 DEF ToSet
      <4>2. \A j : j \in js[3] <=> \E o \in ToSet(offers) : j = GarudaJourney(o)
        BY <2>5 DEF OffersOf
      <4>3. \A i \in 1..Len(offers) : each[i] = {GarudaJourney(offers[i])}
        OBVIOUS
      <4> HIDE DEF js, each, offers
      <4> QED
        BY <4>1, <4>2, <4>3
    <3>2. seqs[3] = FlattenSeq(flights)
      BY <2>3, <2>4, <2>5
    <3>3. flights = [i \in 1..Len(offers) |-> flights[i]]
      OBVIOUS
    <3> HIDE DEF flights, each, js, seqs, offers
    <3> QED
      BY <2>1, <2>2, <3>1, <3>2, <3>3, CarriedFlat
  <2>6. CASE ~answered
    <3>1. js[3] = {} /\ seqs[3] = <<>>
      BY <2>3, <2>6 DEF OffersOf
    <3> HIDE DEF js, seqs
    <3> QED
      BY <1>3, <3>1
  <2> QED
    BY <2>5, <2>6
<1>7. Carries(seqs[4], js[4])
  <2> DEFINE reply == replies.lion
             offers == reply.offers
             answered == reply.fetched /\ reply.success
             flights == [i \in 1..Len(offers) |-> LionAirFlight(offers[i])]
             each == [i \in 1..Len(offers) |-> {LionAirJourney(offers[i])}]
  <2>1. Len(offers) \in Nat /\ DOMAIN offers = 1..Len(offers)
    BY <1>1
  <2>2. \A i \in 1..Len(offers) : Carries(flights[i], each[i])
    <3>1. \A i \in 1..Len(offers) : offers[i] \in ToSet(offers)
      BY <2>1 DEF ToSet
    <3> QED
      BY <3>1, LionAirCarries
  <2>3. slots[4].ok <=> answered
    <3>1. \A ok \in BOOLEAN : \A fs : [ok |-> ok, flights |-> fs].ok <=> ok
      OBVIOUS
    <3>2. slots[4] = [ok |-> answered, flights |-> slots[4].flights]
      BY <1>2 DEF LionAirSearch, Slot
    <3>3. answered \in BOOLEAN
      OBVIOUS
    <3> HIDE DEF answered
    <3> QED
      BY <3>1, <3>2, <3>3, Zenon
  <2>4. answered => slots[4].flights = FlattenSeq(flights)
    BY <1>2, <2>1 DEF LionAirSearch, Slot
  <2>5. CASE answered
    <3>1. \A j : j \in js[4] <=> \E i \in 1..Len(offers) : j \in each[i]
      <4>1. \A o : o \in ToSet(offers) <=> \E i \in 1..Len(offers) : o = offers[i]
        BY <2>1 DEF ToSet
      <4>2. \A j : j \in js[4] <=> \E o \in ToSet(offers) : j = LionAirJourney(o)
        BY <2>5 DEF OffersOf
      <4>3. \A i \in 1..Len(offers) : each[i] = {LionAirJourney(offers[i])}
        OBVIOUS
      <4> HIDE DEF js, each, offers
      <4> QED
        BY <4>1, <4>2, <4>3
    <3>2. seqs[4] = FlattenSeq(flights)
      BY <2>3, <2>4, <2>5
    <3>3. flights = [i \in 1..Len(offers) |-> flights[i]]
      OBVIOUS
    <3> HIDE DEF flights, each, js, seqs, offers
    <3> QED
      BY <2>1, <2>2, <3>1, <3>2, <3>3, CarriedFlat
  <2>6. CASE ~answered
    <3>1. js[4] = {} /\ seqs[4] = <<>>
      BY <2>3, <2>6 DEF OffersOf
    <3> HIDE DEF js, seqs
    <3> QED
      BY <1>3, <3>1
  <2> QED
    BY <2>5, <2>6
<1>8. \A i \in 1..4 : Carries(seqs[i], js[i])
  <2> HIDE DEF seqs, js
  <2> QED
    BY <1>4, <1>5, <1>6, <1>7
<1>9. \A i \in 1..4 : slots[i].ok => Offered(slots[i].flights)
  <2>1. \A i \in 1..4 : slots[i].ok => slots[i].flights = seqs[i]
    OBVIOUS
  <2> HIDE DEF seqs, js
  <2> QED
    BY <1>8, <2>1 DEF Carries
<1>10. \A j : j \in Journeys <=> \E i \in 1..4 : j \in js[i]
  <2>1. Journeys = js[1] \cup js[2] \cup js[3] \cup js[4]
    BY DEF Journeys
  <2> HIDE DEF js
  <2> QED
    BY <2>1
<1>11. Collect(slots) = FlattenSeq(seqs) /\ seqs = [i \in 1..4 |-> seqs[i]]
  BY <1>2 DEF Collect
<1> HIDE DEF seqs, js
<1>12. Carries(FlattenSeq(seqs), Journeys)
  BY <1>8, <1>10, <1>11, CarriedFlat
<1>13. Slots(slots)
  BY <1>2, <1>9 DEF Slots
<1> QED
  BY <1>11, <1>12, <1>13 DEF Carries, slots

-----------------------------------------------------------------------------
\* Dominance and the scale.

\* Within their scales, the shares make between none and all of the whole;
\* three full shares make all of it and three empty ones none.
LEMMA WeightedScale ==
  ASSUME NEW p, NEW d, NEW s, IsShare(p), IsShare(d), IsShare(s),
         p.num \in 0..p.den, d.num \in 0..d.den, s.num \in 0..s.den
  PROVE  /\ Weighted(p, d, s) \in Scores
         /\ (p.num = p.den /\ d.num = d.den /\ s.num = s.den) => Weighted(p, d, s) = FullScore
         /\ (p.num = 0 /\ d.num = 0 /\ s.num = 0) => Weighted(p, d, s) = 0
<1> DEFINE zero(q) == [num |-> 0, den |-> q.den]
           full(q) == [num |-> q.den, den |-> q.den]
<1>1. IsShare(zero(p)) /\ IsShare(zero(d)) /\ IsShare(zero(s))
  BY DEF IsShare
<1>2. IsShare(full(p)) /\ IsShare(full(d)) /\ IsShare(full(s))
  BY DEF IsShare
<1>3. ASSUME NEW q, NEW e, NEW t, IsShare(q), IsShare(e), IsShare(t),
             q.num = 0, e.num = 0, t.num = 0
      PROVE  Weighted(q, e, t) = 0
  <2>1. Parts(q, e, t) = 0
    <3>1. e.den * t.den \in Int /\ q.den * t.den \in Int /\ q.den * e.den \in Int
      BY <1>3 DEF IsShare
    <3> QED
      BY <1>3, <3>1 DEF Parts
  <2>2. /\ Whole(q, e, t) \in Int /\ Whole(q, e, t) > 0
        /\ Weighted(q, e, t) = (20000 * Parts(q, e, t) + Whole(q, e, t)) \div (2 * Whole(q, e, t))
    BY <1>3, WeightedIs
  <2> DEFINE whole == Whole(q, e, t)
  <2>3. Weighted(q, e, t) = whole \div (2 * whole)
    BY <2>1, <2>2
  <2> HIDE DEF whole
  <2>4. whole \in Int /\ whole > 0
    BY <2>2 DEF whole
  <2>5. whole \div (2 * whole) = 0
    BY ONLY <2>4, DivIs
  <2> QED
    BY <2>3, <2>5
<1>4. ASSUME NEW q, NEW e, NEW t, IsShare(q), IsShare(e), IsShare(t),
             q.num = q.den, e.num = e.den, t.num = t.den
      PROVE  Weighted(q, e, t) = FullScore
  <2>1. Parts(q, e, t) = Whole(q, e, t)
    <3>1. /\ e.den * t.den \in Int /\ q.den * t.den \in Int /\ q.den * e.den \in Int
          /\ q.den * (e.den * t.den) \in Int
      BY <1>4 DEF IsShare
    <3>2. /\ e.den * (q.den * t.den) = q.den * (e.den * t.den)
          /\ t.den * (q.den * e.den) = q.den * (e.den * t.den)
      BY <1>4 DEF IsShare
    <3> QED
      BY <1>4, <3>1, <3>2 DEF Parts, Whole
  <2>2. /\ Whole(q, e, t) \in Int /\ Whole(q, e, t) > 0
        /\ Weighted(q, e, t) = (20000 * Parts(q, e, t) + Whole(q, e, t)) \div (2 * Whole(q, e, t))
    BY <1>4, WeightedIs
  <2> DEFINE whole == Whole(q, e, t)
  <2>3. Weighted(q, e, t) = (20000 * whole + whole) \div (2 * whole)
    BY <2>1, <2>2
  <2> HIDE DEF whole
  <2>4. whole \in Int /\ whole > 0
    BY <2>2 DEF whole
  <2>5. (20000 * whole + whole) \div (2 * whole) = FullScore
    BY ONLY <2>4, DivIs DEF FullScore
  <2> QED
    BY <2>3, <2>5
<1>5. Weighted(zero(p), zero(d), zero(s)) = 0
  BY <1>1, <1>3
<1>6. Weighted(full(p), full(d), full(s)) = FullScore
  BY <1>2, <1>4
<1>7. Weighted(p, d, s) >= Weighted(zero(p), zero(d), zero(s))
  <2> HIDE DEF zero
  <2>1. /\ zero(p).den = p.den /\ zero(d).den = d.den /\ zero(s).den = s.den
        /\ p.num >= zero(p).num /\ d.num >= zero(d).num /\ s.num >= zero(s).num
    BY DEF zero, IsShare
  <2> QED
    BY <1>1, <2>1, WeightedKeepsOrder
<1>8. Weighted(full(p), full(d), full(s)) >= Weighted(p, d, s)
  <2> HIDE DEF full
  <2>1. /\ full(p).den = p.den /\ full(d).den = d.den /\ full(s).den = s.den
        /\ full(p).num >= p.num /\ full(d).num >= d.num /\ full(s).num >= s.num
    BY DEF full, IsShare
  <2> QED
    BY <1>2, <2>1, WeightedKeepsOrder
<1>9. Weighted(p, d, s) \in Int
  <2>1. /\ Parts(p, d, s) \in Int /\ Whole(p, d, s) \in Int /\ Whole(p, d, s) > 0
        /\ Weighted(p, d, s) =
             (20000 * Parts(p, d, s) + Whole(p, d, s)) \div (2 * Whole(p, d, s))
    BY WeightedIs
  <2> QED
    BY <2>1, DivKeepsOrder
<1> HIDE DEF zero, full
<1>10. Weighted(p, d, s) \in Scores
  <2> DEFINE w == Weighted(p, d, s)
  <2>1. w >= 0
    BY <1>5, <1>7
  <2>2. FullScore >= w
    BY <1>6, <1>8
  <2> HIDE DEF w
  <2>3. w \in Int
    BY <1>9 DEF w
  <2>4. w \in Scores
    <3>1. w \in 0..FullScore
      BY ONLY <2>1, <2>2, <2>3, SMTT(30) DEF Scores, FullScore
    <3> QED
      BY <3>1 DEF Scores
  <2> QED
    BY <2>4 DEF w
<1> QED
  BY <1>3, <1>4, <1>10

\* A flight dominated by another scores no more than it.
LEMMA ScoreRespects ==
  ASSUME NEW fs, Listed(fs), NEW i \in 1..Len(fs), NEW j \in 1..Len(fs),
         Dominates(fs[i], fs[j])
  PROVE  ScoreOf(fs, fs[i]) >= ScoreOf(fs, fs[j])
<1>1. /\ Bottom(fs).price \in Int /\ Top(fs).price \in Int
      /\ Bottom(fs).duration \in Int /\ Top(fs).duration \in Int /\ Top(fs).stops \in Int
      /\ fs[i].price \in Int /\ Duration(fs[i]) \in Int /\ fs[i].stops \in Int
      /\ fs[j].price \in Int /\ Duration(fs[j]) \in Int /\ fs[j].stops \in Int
  BY SharesAre
<1>2. /\ IsShare(PriceShare(fs, fs[i])) /\ IsShare(PriceShare(fs, fs[j]))
      /\ IsShare(DurationShare(fs, fs[i])) /\ IsShare(DurationShare(fs, fs[j]))
      /\ IsShare(StopsShare(fs, fs[i])) /\ IsShare(StopsShare(fs, fs[j]))
  BY SharesAre
<1>3. /\ fs[i].price <= fs[j].price /\ Duration(fs[i]) <= Duration(fs[j])
      /\ fs[i].stops <= fs[j].stops
  BY DEF Dominates
<1>4. /\ PriceShare(fs, fs[i]).den = PriceShare(fs, fs[j]).den
      /\ PriceShare(fs, fs[i]).num >= PriceShare(fs, fs[j]).num
  BY ONLY <1>1, <1>3, Shares, SMTT(30) DEF PriceShare
<1>5. /\ DurationShare(fs, fs[i]).den = DurationShare(fs, fs[j]).den
      /\ DurationShare(fs, fs[i]).num >= DurationShare(fs, fs[j]).num
  BY ONLY <1>1, <1>3, Shares, SMTT(30) DEF DurationShare
<1>6. /\ StopsShare(fs, fs[i]).den = StopsShare(fs, fs[j]).den
      /\ StopsShare(fs, fs[i]).num >= StopsShare(fs, fs[j]).num
  BY ONLY <1>1, <1>3, Shares, SMTT(30) DEF StopsShare
<1> QED
  BY <1>2, <1>4, <1>5, <1>6, WeightedKeepsOrder DEF ScoreOf

\* DominanceRespected and ScoreScale, of any list.
Dominant(fs) ==
  \A i, j \in DOMAIN fs : Dominates(fs[i], fs[j]) => fs[i].score >= fs[j].score

InScale(fs, i) ==
  /\ fs[i].score \in Scores
  /\ (Best(fs, i) /\ fs[i].stops = 0) => fs[i].score = FullScore
  /\ (Worst(fs, i) /\ Len(fs) > 1) => fs[i].score = 0

Scaled(fs) == \A i \in DOMAIN fs : InScale(fs, i)

\* Scoring respects dominance.
LEMMA ComputedIsDominant ==
  ASSUME NEW fs, Listed(fs)
  PROVE  Dominant(Compute(fs))
<1> SUFFICES ASSUME NEW i \in 1..Len(fs), NEW j \in 1..Len(fs),
                    Dominates(Compute(fs)[i], Compute(fs)[j])
             PROVE  Compute(fs)[i].score >= Compute(fs)[j].score
  BY ListedComputed DEF Dominant
<1>1. Dominates(fs[i], fs[j])
  BY ListedComputed DEF Dominates
<1>2. ScoreOf(fs, fs[i]) >= ScoreOf(fs, fs[j])
  BY <1>1, ScoreRespects
<1> QED
  BY <1>2, ListedComputed

\* The best of a list scores everything when it has no stops, and the worst
\* of several nothing.
LEMMA ComputedIsScaled ==
  ASSUME NEW fs, Listed(fs), \A k \in 1..Len(fs) : fs[k].stops \in Nat
  PROVE  Scaled(Compute(fs))
<1> DEFINE scored == Compute(fs)
<1>1. DOMAIN scored = 1..Len(fs)
  BY ListedComputed
<1> SUFFICES ASSUME NEW i \in 1..Len(fs) PROVE InScale(Compute(fs), i)
  BY <1>1 DEF Scaled
<1> HIDE DEF scored
<1> DEFINE p == PriceShare(fs, fs[i])
           d == DurationShare(fs, fs[i])
           s == StopsShare(fs, fs[i])
           same(k) == /\ scored[k].price = fs[k].price /\ scored[k].stops = fs[k].stops
                      /\ Duration(scored[k]) = Duration(fs[k])
<1>2. /\ scored[i].score = ScoreOf(fs, fs[i]) /\ Len(scored) = Len(fs)
      /\ DOMAIN scored = 1..Len(fs)
      /\ \A k \in 1..Len(fs) : same(k)
  BY ListedComputed DEF scored
<1>3. Len(fs) \in Nat /\ Len(fs) > 0
  BY ListedPlaces
<1>4. \A k \in 1..Len(fs) :
        fs[k].price \in Int /\ Duration(fs[k]) \in Int /\ fs[k].stops \in Nat
  <2> SUFFICES ASSUME NEW k \in 1..Len(fs)
               PROVE  fs[k].price \in Int /\ Duration(fs[k]) \in Int /\ fs[k].stops \in Nat
    OBVIOUS
  <2>1. IsFlight(fs[k])
    BY ListedPlaces
  <2> QED
    BY <2>1 DEF IsFlight, Duration
<1> DEFINE lowPrice == Bottom(fs).price
           highPrice == Top(fs).price
           lowDuration == Bottom(fs).duration
           highDuration == Top(fs).duration
           highStops == Top(fs).stops
<1> HIDE DEF lowPrice, highPrice, lowDuration, highDuration, highStops
<1>5. /\ \A k \in 1..Len(fs) :
           /\ lowPrice <= fs[k].price /\ fs[k].price <= highPrice
           /\ lowDuration <= Duration(fs[k]) /\ Duration(fs[k]) <= highDuration
           /\ fs[k].stops <= highStops
      /\ \E k \in 1..Len(fs) : lowPrice = fs[k].price
      /\ \E k \in 1..Len(fs) : highPrice = fs[k].price
      /\ \E k \in 1..Len(fs) : lowDuration = Duration(fs[k])
      /\ \E k \in 1..Len(fs) : highDuration = Duration(fs[k])
      /\ \E k \in 1..Len(fs) : highStops = fs[k].stops
  BY <1>3, Scales DEF lowPrice, highPrice, lowDuration, highDuration, highStops
<1>6. /\ lowPrice \in Int /\ highPrice \in Int /\ lowDuration \in Int /\ highDuration \in Int
      /\ highStops \in Nat
  BY <1>4, <1>5
<1>7. /\ p = Share(lowPrice, highPrice, fs[i].price)
      /\ d = Share(lowDuration, highDuration, Duration(fs[i]))
      /\ s = Share(0, highStops, fs[i].stops)
  BY DEF PriceShare, DurationShare, StopsShare, lowPrice, highPrice, lowDuration, highDuration,
         highStops
<1> HIDE DEF p, d, s, same
<1>8. IsShare(p) /\ IsShare(d) /\ IsShare(s)
  BY SharesAre DEF p, d, s
<1>9. p.num \in 0..p.den /\ d.num \in 0..d.den /\ s.num \in 0..s.den
  <2>1. p.num >= 0 /\ p.num <= p.den
    BY <1>4, <1>5, <1>6, <1>7, Shares
  <2>2. d.num >= 0 /\ d.num <= d.den
    BY <1>4, <1>5, <1>6, <1>7, Shares
  <2>3. s.num >= 0 /\ s.num <= s.den
    <3>1. /\ fs[i].stops \in Int /\ highStops \in Int /\ 0 \in Int
          /\ 0 <= fs[i].stops /\ fs[i].stops <= highStops /\ fs[i].stops <= fs[i].stops
      <4>1. fs[i].stops \in Nat /\ highStops \in Nat
        BY <1>4, <1>6
      <4>2. fs[i].stops <= highStops
        BY <1>5
      <4> QED
        BY <4>1, <4>2
    <3>2. /\ Share(0, highStops, fs[i].stops).num >= 0
          /\ Share(0, highStops, fs[i].stops).num <= Share(0, highStops, fs[i].stops).den
      BY ONLY <3>1, Shares
    <3> QED
      BY ONLY <1>7, <3>2
  <2> QED
    BY <1>8, <2>1, <2>2, <2>3 DEF IsShare
<1>10. scored[i].score = Weighted(p, d, s)
  BY <1>2 DEF ScoreOf, p, d, s
<1>11. /\ Weighted(p, d, s) \in Scores
       /\ (p.num = p.den /\ d.num = d.den /\ s.num = s.den) => Weighted(p, d, s) = FullScore
       /\ (p.num = 0 /\ d.num = 0 /\ s.num = 0) => Weighted(p, d, s) = 0
  BY <1>8, <1>9, WeightedScale
<1>12. ASSUME Best(scored, i), scored[i].stops = 0 PROVE scored[i].score = FullScore
  <2>1. \A k \in 1..Len(fs) : fs[i].price <= fs[k].price /\ Duration(fs[i]) <= Duration(fs[k])
    BY <1>2, <1>12 DEF Best, Dominates, same
  <2>2. fs[i].price = lowPrice /\ Duration(fs[i]) = lowDuration
    <3>1. PICK k \in 1..Len(fs) : lowPrice = fs[k].price
      BY <1>5
    <3>2. PICK l \in 1..Len(fs) : lowDuration = Duration(fs[l])
      BY <1>5
    <3>3. fs[i].price <= lowPrice /\ Duration(fs[i]) <= lowDuration
      BY <2>1, <3>1, <3>2
    <3>4. lowPrice <= fs[i].price /\ lowDuration <= Duration(fs[i])
      BY <1>5
    <3> QED
      BY <1>4, <1>6, <3>3, <3>4
  <2>3. fs[i].stops = 0
    BY <1>2, <1>12 DEF same
  <2>4. p.num = p.den /\ d.num = d.den
    <3>1. p = Share(lowPrice, highPrice, lowPrice)
      BY <1>7, <2>2
    <3>2. d = Share(lowDuration, highDuration, lowDuration)
      BY <1>7, <2>2
    <3>3. /\ lowPrice \in Int /\ highPrice \in Int /\ lowPrice <= lowPrice
          /\ lowDuration \in Int /\ highDuration \in Int /\ lowDuration <= lowDuration
      BY <1>6
    <3> HIDE DEF lowPrice, highPrice, lowDuration, highDuration
    <3>4. /\ Share(lowPrice, highPrice, lowPrice).num = Share(lowPrice, highPrice, lowPrice).den
          /\ Share(lowDuration, highDuration, lowDuration).num
               = Share(lowDuration, highDuration, lowDuration).den
      BY ONLY <3>3, Shares, SMTT(30)
    <3> QED
      BY ONLY <3>1, <3>2, <3>4
  <2>5. s.num = s.den
    <3>1. highStops \in Int /\ 0 \in Int /\ 0 <= 0
      BY <1>6
    <3>2. s = Share(0, highStops, 0)
      BY <1>7, <2>3
    <3>3. Share(0, highStops, 0).num = Share(0, highStops, 0).den
      BY ONLY <3>1, Shares
    <3> QED
      BY ONLY <3>2, <3>3
  <2> QED
    BY <1>10, <1>11, <2>4, <2>5
<1>13. ASSUME Worst(scored, i), Len(scored) > 1 PROVE scored[i].score = 0
  <2>1. \A k \in 1..Len(fs) : k # i =>
          /\ fs[k].price < fs[i].price /\ Duration(fs[k]) < Duration(fs[i])
          /\ fs[k].stops < fs[i].stops
    BY <1>2, <1>13 DEF Worst, same
  <2>2. PICK k \in 1..Len(fs) : k # i
    <3>1. 1 \in 1..Len(fs) /\ 2 \in 1..Len(fs)
      BY <1>2, <1>3, <1>13
    <3> QED
      BY <3>1
  <2>3. /\ fs[i].price = highPrice /\ Duration(fs[i]) = highDuration
        /\ fs[i].stops = highStops
    <3>1. PICK l \in 1..Len(fs) : highPrice = fs[l].price
      BY <1>5
    <3>2. PICK m \in 1..Len(fs) : highDuration = Duration(fs[m])
      BY <1>5
    <3>3. PICK n \in 1..Len(fs) : highStops = fs[n].stops
      BY <1>5
    <3>4. /\ fs[i].price <= highPrice /\ Duration(fs[i]) <= highDuration
          /\ fs[i].stops <= highStops
      BY <1>5
    <3>5. l = i /\ m = i /\ n = i
      <4>1. /\ fs[l].price \in Int /\ fs[i].price \in Int
            /\ Duration(fs[m]) \in Int /\ Duration(fs[i]) \in Int
            /\ fs[n].stops \in Nat /\ fs[i].stops \in Nat
        BY <1>4, SMTT(30)
      <4>2. /\ ~(fs[l].price < fs[i].price) /\ ~(Duration(fs[m]) < Duration(fs[i]))
            /\ ~(fs[n].stops < fs[i].stops)
        BY ONLY <3>1, <3>2, <3>3, <3>4, <4>1, SMTT(30)
      <4> QED
        BY <2>1, <4>2, Zenon
    <3> QED
      BY <3>1, <3>2, <3>3, <3>5
  <2>4. lowPrice < highPrice /\ lowDuration < highDuration /\ 0 < highStops
    <3>1. /\ fs[k].price < highPrice /\ Duration(fs[k]) < highDuration
          /\ fs[k].stops < highStops
      BY <2>1, <2>2, <2>3
    <3>2. lowPrice <= fs[k].price /\ lowDuration <= Duration(fs[k])
      BY <1>5
    <3>3. fs[k].price \in Int /\ Duration(fs[k]) \in Int /\ fs[k].stops \in Nat
      BY <1>4
    <3> QED
      BY <1>6, <3>1, <3>2, <3>3
  <2>5. p.num = 0 /\ d.num = 0 /\ s.num = 0
    <3>1. p = Share(lowPrice, highPrice, highPrice)
      BY <1>7, <2>3
    <3>2. d = Share(lowDuration, highDuration, highDuration)
      BY <1>7, <2>3
    <3>3. s = Share(0, highStops, highStops)
      BY <1>7, <2>3
    <3>4. /\ lowPrice \in Int /\ highPrice \in Int /\ highPrice <= highPrice
          /\ lowDuration \in Int /\ highDuration \in Int /\ highDuration <= highDuration
          /\ 0 \in Int /\ highStops \in Int /\ highStops <= highStops
      BY <1>6
    <3> HIDE DEF lowPrice, highPrice, lowDuration, highDuration, highStops
    <3>5. /\ Share(lowPrice, highPrice, highPrice).num = 0
          /\ Share(lowDuration, highDuration, highDuration).num = 0
          /\ Share(0, highStops, highStops).num = 0
      BY ONLY <2>4, <3>4, Shares, SMTT(30)
    <3> QED
      BY ONLY <3>1, <3>2, <3>3, <3>5
  <2> QED
    BY <1>10, <1>11, <2>5
<1>14. InScale(scored, i)
  BY <1>10, <1>11, <1>12, <1>13 DEF InScale
<1> QED
  BY <1>14 DEF scored

\* Sorting moves flights, and changes none.
LEMMA SortedPlaces ==
  ASSUME NEW fs, Listed(fs), NEW o, NEW at, SortedFrom(fs, o, at)
  PROVE  /\ Len(Sorted(fs, o)) = Len(fs) /\ DOMAIN Sorted(fs, o) = 1..Len(fs)
         /\ \A n \in 1..Len(fs) : at[n] \in 1..Len(fs) /\ Sorted(fs, o)[n] = fs[at[n]]
         /\ \A i \in 1..Len(fs) : \E n \in 1..Len(fs) : at[n] = i
         /\ \A m, n \in 1..Len(fs) : at[m] = at[n] => m = n
<1>1. Len(fs) \in Nat
  BY ListedPlaces
<1>2. /\ at \in [1..Len(fs) -> 1..Len(fs)]
      /\ \A i \in 1..Len(fs) : \E n \in 1..Len(fs) : at[n] = i
      /\ Sorted(fs, o) = [n \in 1..Len(fs) |-> fs[at[n]]]
  BY DEF SortedFrom
<1>3. PICK key \in [1..Len(fs) -> Int] :
        \A i, j \in 1..Len(fs) : SortsBefore(o, fs[i], fs[j]) <=> key[i] < key[j]
  BY OrdersHaveKeys
<1>4. ASSUME NEW m \in 1..Len(fs), NEW n \in 1..Len(fs), m < n PROVE at[m] # at[n]
  <2>1. \/ SortsBefore(o, fs[at[m]], fs[at[n]])
        \/ at[m] < at[n]
    BY <1>4 DEF SortedFrom
  <2>2. at[m] \in 1..Len(fs) /\ at[n] \in 1..Len(fs)
    BY <1>2
  <2> QED
    BY <1>3, <2>1, <2>2
<1>5. ASSUME NEW m \in 1..Len(fs), NEW n \in 1..Len(fs), at[m] = at[n] PROVE m = n
  BY <1>4, <1>5
<1>6. \A n \in 1..Len(fs) : at[n] \in 1..Len(fs) /\ Sorted(fs, o)[n] = fs[at[n]]
  BY ONLY <1>2
<1>7. Len(Sorted(fs, o)) = Len(fs) /\ DOMAIN Sorted(fs, o) = 1..Len(fs)
  BY ONLY <1>1, <1>2
<1> QED
  BY <1>2, <1>5, <1>6, <1>7, Zenon

\* So it does not matter to dominance.
LEMMA SortedKeepsDominant ==
  ASSUME NEW fs, Listed(fs), Dominant(fs), NEW o
  PROVE  Dominant(Sorted(fs, o))
<1>1. PICK at : SortedFrom(fs, o, at)
  BY SortingIsStable
<1>2. DOMAIN fs = 1..Len(fs)
  BY ListedPlaces
<1> DEFINE sorted == Sorted(fs, o)
<1>3. /\ DOMAIN sorted = 1..Len(fs)
      /\ \A n \in 1..Len(fs) : at[n] \in 1..Len(fs) /\ sorted[n] = fs[at[n]]
  BY <1>1, SortedPlaces
<1> HIDE DEF sorted
<1>4. Dominant(sorted)
  BY <1>2, <1>3 DEF Dominant
<1> QED
  BY <1>4 DEF sorted

\* Nor to the scale: the best and the worst are still so.
LEMMA SortedKeepsScaled ==
  ASSUME NEW fs, Listed(fs), Scaled(fs), NEW o
  PROVE  Scaled(Sorted(fs, o))
<1>1. PICK at : SortedFrom(fs, o, at)
  BY SortingIsStable
<1>2. DOMAIN fs = 1..Len(fs)
  BY ListedPlaces
<1> DEFINE sorted == Sorted(fs, o)
<1>3. /\ Len(sorted) = Len(fs) /\ DOMAIN sorted = 1..Len(fs)
      /\ \A n \in 1..Len(fs) : at[n] \in 1..Len(fs) /\ sorted[n] = fs[at[n]]
      /\ \A i \in 1..Len(fs) : \E n \in 1..Len(fs) : at[n] = i
      /\ \A m, n \in 1..Len(fs) : at[m] = at[n] => m = n
  BY <1>1, SortedPlaces
<1> HIDE DEF sorted
<1>4. ASSUME NEW n \in 1..Len(fs), Best(sorted, n) PROVE Best(fs, at[n])
  <2> SUFFICES ASSUME NEW j \in 1..Len(fs) PROVE Dominates(fs[at[n]], fs[j])
    BY <1>2, Zenon DEF Best
  <2>1. PICK m \in 1..Len(fs) : at[m] = j
    BY <1>3
  <2>2. Dominates(sorted[n], sorted[m])
    BY <1>3, <1>4 DEF Best
  <2> QED
    BY <1>3, <2>1, <2>2
<1>5. ASSUME NEW n \in 1..Len(fs), Worst(sorted, n) PROVE Worst(fs, at[n])
  <2> SUFFICES ASSUME NEW j \in 1..Len(fs)
               PROVE  /\ fs[j].price < fs[at[n]].price \/ at[n] = j
                      /\ Duration(fs[j]) < Duration(fs[at[n]]) \/ at[n] = j
                      /\ fs[j].stops < fs[at[n]].stops \/ at[n] = j
    BY <1>2 DEF Worst
  <2>1. PICK m \in 1..Len(fs) : at[m] = j
    BY <1>3
  <2> QED
    BY <1>3, <1>5, <2>1 DEF Worst
<1>6. ASSUME NEW n \in 1..Len(fs) PROVE InScale(sorted, n)
  <2>1. at[n] \in DOMAIN fs /\ sorted[n] = fs[at[n]]
    BY <1>2, <1>3
  <2>2. InScale(fs, at[n])
    BY <2>1 DEF Scaled
  <2>3. Best(sorted, n) => Best(fs, at[n])
    BY <1>4
  <2>4. Worst(sorted, n) => Worst(fs, at[n])
    BY <1>5
  <2>5. Len(sorted) = Len(fs)
    BY <1>3
  <2> QED
    BY ONLY <2>1, <2>2, <2>3, <2>4, <2>5 DEF InScale
<1>7. Scaled(sorted)
  BY <1>3, <1>6 DEF Scaled
<1> QED
  BY <1>7 DEF sorted

-----------------------------------------------------------------------------
\* Entries and what they stand for.

\* What merging takes for the same flight: the departure written alike as well.
SameText(f, g) ==
  f.number = g.number /\ f.from = g.from /\ f.to = g.to /\ f.dep = g.dep

\* The flights of fs that merging takes for f's.
SamePlaces(f, fs) == {n \in DOMAIN fs : SameText(f, fs[n])}

\* f stands for those flights of fs, the cheapest of them with all their quotes.
StandsFor(f, fs) ==
  LET quotes == SamePlaces(f, fs)
  IN  /\ \A n \in quotes : f.price <= fs[n].price
      /\ \E n \in quotes : fs[n] = [f EXCEPT !.comparison = <<>>, !.score = 0]
      /\ Len(f.comparison) = IF Cardinality(quotes) = 1 THEN 0 ELSE Cardinality(quotes)
      /\ f.comparison # <<>> =>
           /\ Cardinality(quotes) # 1
           /\ ToSet(f.comparison) = {QuoteOf(fs[n]) : n \in quotes}
           /\ f.comparison[1] = QuoteOf(f)
           /\ \A n \in 2..Len(f.comparison) :
                f.comparison[n - 1].price <= f.comparison[n].price

\* The key is what makes two flights the same.
LEMMA KeyOfFlight ==
  ASSUME NEW f, NEW g
  PROVE  SameText(f, g) <=> DedupeKey(f) = DedupeKey(g)
BY DEF SameText, DedupeKey

\* What an entry is besides its score and quotes is what a flight is.
LEMMA EntryFields ==
  ASSUME NEW f, IsFlight(f), NEW c, NEW score
  PROVE  LET g == [f EXCEPT !.comparison = c, !.score = score]
         IN  /\ g.number = f.number /\ g.from = f.from /\ g.to = f.to
             /\ g.dep = f.dep /\ g.arr = f.arr
             /\ g.provider = f.provider /\ g.price = f.price /\ g.currency = f.currency
             /\ g.comparison = c /\ g.score = score
BY DEF IsFlight

\* A group of quotes becomes an entry that stands for the flights it was made of.
LEMMA EntryStandsFor ==
  ASSUME NEW fs, Offered(fs), NEW i \in DOMAIN fs
  PROVE  LET f == Entry(CheapestFirst(Quotes(fs, i)))
         IN  SameText(f, fs[i]) /\ StandsFor(f, fs)
<1> DEFINE same == {j \in DOMAIN fs : DedupeKey(fs[j]) = DedupeKey(fs[i])}
           quotes == Quotes(fs, i)
           group == CheapestFirst(quotes)
           f == Entry(group)
           c == Cardinality(same)
<1>1. Listed(fs) /\ \A n \in DOMAIN fs : IsFlight(fs[n]) /\ Plain(fs[n])
  BY ListedPlaces DEF Offered, ToSet
<1>2. same \in SUBSET DOMAIN fs /\ i \in same /\ quotes = Kept(fs, same)
  BY DEF Quotes
<1>3. /\ c \in Nat /\ \A n \in 1..c : Nth(same, n) \in same
      /\ \A j \in same : \E n \in 1..c : Nth(same, n) = j
  <2> HIDE DEF same
  <2> QED
    BY <1>1, <1>2, KeptInOrder DEF Listed
<1>4. Len(quotes) = c /\ c > 0 /\ quotes = [n \in 1..c |-> fs[Nth(same, n)]]
  <2> HIDE DEF same
  <2> QED
    BY <1>2, <1>3 DEF Kept
<1>5. Listed(quotes)
  <2> HIDE DEF same
  <2> QED
    BY <1>1, <1>2, ListedKept
<1> HIDE DEF quotes
<1>6. PICK at \in [1..c -> 1..c] :
        /\ \A j \in 1..c : \E n \in 1..c : at[n] = j
        /\ \A m, n \in 1..c : m < n => quotes[at[m]].price <= quotes[at[n]].price
        /\ group = [n \in 1..c |-> quotes[at[n]]]
  <2>1. \E at \in [1..Len(quotes) -> 1..Len(quotes)] :
           /\ \A j \in 1..Len(quotes) : \E n \in 1..Len(quotes) : at[n] = j
           /\ \A m, n \in 1..Len(quotes) : m < n => quotes[at[m]].price <= quotes[at[n]].price
           /\ group = [n \in 1..Len(quotes) |-> quotes[at[n]]]
    BY ONLY <1>5, QuotesAreSorted
  <2> HIDE DEF c
  <2> QED
    BY ONLY <1>4, <2>1, Zenon
<1> HIDE DEF group
<1>7. \A n \in 1..c : group[n] = fs[Nth(same, at[n])] /\ Nth(same, at[n]) \in same
  <2> HIDE DEF same, c
  <2>1. ASSUME NEW n \in 1..c PROVE group[n] = fs[Nth(same, at[n])] /\ Nth(same, at[n]) \in same
    <3>1. at[n] \in 1..c
      OBVIOUS
    <3>2. group[n] = quotes[at[n]]
      BY <1>6
    <3>3. quotes[at[n]] = fs[Nth(same, at[n])]
      BY <1>4, <3>1
    <3> QED
      BY <1>3, <3>1, <3>2, <3>3
  <2> QED
    BY <2>1
<1>8. \A j \in same : \E n \in 1..c : group[n] = fs[j]
  <2> HIDE DEF same, c
  <2> SUFFICES ASSUME NEW j \in same PROVE \E n \in 1..c : group[n] = fs[j]
    OBVIOUS
  <2>1. PICK m \in 1..c : Nth(same, m) = j
    BY <1>3
  <2>2. PICK n \in 1..c : at[n] = m
    BY <1>6
  <2> QED
    BY <1>7, <2>1, <2>2
<1>9. \A m, n \in 1..c : m < n => group[m].price <= group[n].price
  <2> HIDE DEF same, c
  <2> QED
    BY <1>6
<1>10. Len(group) = c /\ DOMAIN group = 1..c
  <2> HIDE DEF c
  <2> QED
    BY <1>3, <1>6
<1>11. PICK k \in same : group[1] = fs[k]
  <2> HIDE DEF same, c
  <2> QED
    BY <1>3, <1>4, <1>7
<1>12. IsFlight(group[1]) /\ Plain(group[1])
  BY <1>1, <1>11
<1>13. \E comparison : f = [group[1] EXCEPT !.comparison = comparison, !.score = 0]
  <2>1. CASE c = 1
    <3>1. f = [group[1] EXCEPT !.comparison = <<>>, !.score = 0]
      <4> HIDE DEF c
      <4> QED
        BY <1>10, <1>12, <2>1 DEF Entry, Plain, IsFlight
    <3> QED
      BY <3>1
  <2>2. CASE c # 1
    <3> DEFINE comparison == [n \in DOMAIN group |-> QuoteOf(group[n])]
    <3>1. f = [group[1] EXCEPT !.comparison = comparison]
      <4> HIDE DEF c
      <4> QED
        BY <1>10, <2>2 DEF Entry
    <3> HIDE DEF comparison
    <3>2. f = [group[1] EXCEPT !.comparison = comparison, !.score = 0]
      BY <1>12, <3>1 DEF Plain, IsFlight
    <3> QED
      BY <3>2
  <2> QED
    BY <2>1, <2>2
<1>14. f.comparison = IF c = 1 THEN <<>> ELSE [n \in 1..c |-> QuoteOf(group[n])]
  <2> HIDE DEF c
  <2> QED
    BY <1>10, <1>12 DEF Entry, Plain, IsFlight
<1> HIDE DEF f
<1>15. /\ f.number = group[1].number /\ f.from = group[1].from /\ f.to = group[1].to
       /\ f.dep = group[1].dep /\ f.price = group[1].price
       /\ QuoteOf(f) = QuoteOf(group[1])
       /\ [f EXCEPT !.comparison = <<>>, !.score = 0] = group[1]
  <2>1. PICK comparison : f = [group[1] EXCEPT !.comparison = comparison, !.score = 0]
    BY <1>13
  <2>2. [f EXCEPT !.comparison = <<>>, !.score = 0] = group[1]
    BY <1>12, <2>1 DEF Plain, IsFlight
  <2> QED
    BY <1>12, <2>1, <2>2, EntryFields DEF QuoteOf
<1>16. DedupeKey(f) = DedupeKey(fs[i])
  <2>1. DedupeKey(f) = DedupeKey(group[1])
    BY <1>15 DEF DedupeKey
  <2> QED
    BY <1>11, <2>1
<1>17. SamePlaces(f, fs) = same
  BY <1>16, KeyOfFlight DEF SamePlaces
<1>18. SameText(f, fs[i])
  BY <1>16, KeyOfFlight
<1> HIDE DEF same
<1>19. \E n \in same : fs[n] = [f EXCEPT !.comparison = <<>>, !.score = 0]
  BY <1>11, <1>15
<1>20. Len(f.comparison) = IF c = 1 THEN 0 ELSE c
  <2> HIDE DEF c
  <2> QED
    BY <1>3, <1>14
<1>21. ASSUME f.comparison # <<>>
       PROVE  /\ c # 1
              /\ ToSet(f.comparison) = {QuoteOf(fs[n]) : n \in same}
              /\ f.comparison[1] = QuoteOf(f)
              /\ \A n \in 2..Len(f.comparison) :
                   f.comparison[n - 1].price <= f.comparison[n].price
  <2> HIDE DEF c
  <2>1. c # 1 /\ f.comparison = [n \in 1..c |-> QuoteOf(group[n])] /\ Len(f.comparison) = c
    BY <1>14, <1>20, <1>21
  <2>2. ToSet(f.comparison) = {QuoteOf(fs[n]) : n \in same}
    <3>1. ToSet(f.comparison) = {QuoteOf(group[n]) : n \in 1..c}
      BY <2>1 DEF ToSet
    <3> QED
      BY <1>7, <1>8, <3>1
  <2>3. f.comparison[1] = QuoteOf(f)
    BY <1>3, <1>4, <1>15, <2>1
  <2>4. ASSUME NEW n \in 2..Len(f.comparison)
        PROVE  f.comparison[n - 1].price <= f.comparison[n].price
    <3>1. n - 1 \in 1..c /\ n \in 1..c /\ n - 1 < n
      BY <1>3, <2>1
    <3>2. group[n - 1].price <= group[n].price
      BY <1>9, <3>1
    <3> QED
      BY <2>1, <3>1, <3>2 DEF QuoteOf
  <2> QED
    BY <2>1, <2>2, <2>3, <2>4
<1>22. ASSUME NEW j \in same PROVE f.price <= fs[j].price
  <2> HIDE DEF c
  <2>1. PICK n \in 1..c : group[n] = fs[j]
    BY <1>8
  <2>2. fs[j].price \in Int
    BY <1>1, <1>2 DEF IsFlight
  <2>3. n = 1 \/ (1 \in 1..c /\ 1 < n)
    BY <1>3, <2>1
  <2>4. group[1].price <= group[n].price
    BY <1>9, <2>1, <2>2, <2>3
  <2> QED
    BY <1>15, <2>1, <2>4
<1>23. StandsFor(f, fs)
  BY <1>17, <1>19, <1>20, <1>21, <1>22 DEF StandsFor
<1> QED
  BY <1>18, <1>23 DEF f, group, quotes

\* A list of entries for the flights of all: none twice, each standing for its own.
EntriesFor(fs, all) ==
  /\ \A i, j \in DOMAIN fs : SameText(fs[i], fs[j]) => i = j
  /\ \A i \in DOMAIN fs : StandsFor(fs[i], all)

\* Merging makes one.
LEMMA MergedStandsFor ==
  ASSUME NEW fs, Offered(fs)
  PROVE  EntriesFor(MergeDuplicates(fs), fs)
<1> DEFINE firsts == Firsts(fs)
           c == Cardinality(firsts)
           merged == MergeDuplicates(fs)
           Made(i) == Entry(CheapestFirst(Quotes(fs, i)))
<1>1. Listed(fs) /\ firsts \in SUBSET DOMAIN fs
  BY DEF Offered, Firsts
<1>2. /\ c \in Nat /\ \A n \in 1..c : Nth(firsts, n) \in firsts
      /\ \A m, n \in 1..c : m < n => Nth(firsts, m) < Nth(firsts, n)
  <2> HIDE DEF firsts
  <2> QED
    BY <1>1, KeptInOrder DEF Listed
<1>3. merged = [n \in 1..c |-> Made(Nth(firsts, n))]
  BY DEF MergeDuplicates, CheapestFirst
<1>4. \A i \in DOMAIN fs : SameText(Made(i), fs[i]) /\ StandsFor(Made(i), fs)
  <2> SUFFICES ASSUME NEW i \in DOMAIN fs
               PROVE  SameText(Made(i), fs[i]) /\ StandsFor(Made(i), fs)
    OBVIOUS
  <2> QED
    BY EntryStandsFor
<1>5. ASSUME NEW i \in firsts, NEW j \in firsts, SameText(Made(i), Made(j)) PROVE i = j
  <2>1. SameText(Made(i), fs[i]) /\ SameText(Made(j), fs[j])
    BY <1>1, <1>4
  <2> HIDE DEF Made
  <2>2. DedupeKey(fs[i]) = DedupeKey(fs[j])
    BY <1>5, <2>1, KeyOfFlight
  <2>3. i \in DOMAIN fs /\ j \in DOMAIN fs /\ i \in Nat /\ j \in Nat /\ i >= 1 /\ j >= 1
    BY <1>1, ListedPlaces
  <2>4. ~(i < j) /\ ~(j < i)
    BY <2>2, <2>3 DEF Firsts
  <2> QED
    BY <2>3, <2>4
<1>6. DOMAIN merged = 1..c /\ \A n \in 1..c : merged[n] = Made(Nth(firsts, n))
  <2> HIDE DEF Made, c
  <2> QED
    BY <1>3
<1> HIDE DEF merged, Made
<1>7. ASSUME NEW m \in 1..c, NEW n \in 1..c, SameText(merged[m], merged[n]) PROVE m = n
  <2> HIDE DEF firsts
  <2>1. Nth(firsts, m) = Nth(firsts, n)
    BY <1>2, <1>5, <1>6, <1>7
  <2>2. Nth(firsts, m) \in DOMAIN fs
    BY <1>1, <1>2
  <2>3. Nth(firsts, m) \in Nat
    BY <1>1, <2>2, ListedPlaces
  <2>4. ~(m < n) /\ ~(n < m)
    BY <1>2, <2>1, <2>3
  <2> HIDE DEF c
  <2> QED
    BY <1>2, <2>4
<1>8. \A n \in 1..c : StandsFor(merged[n], fs)
  <2> HIDE DEF firsts, c
  <2> QED
    BY <1>1, <1>2, <1>4, <1>6
<1> QED
  BY <1>6, <1>7, <1>8 DEF EntriesFor, merged

\* And none of them is left out.
LEMMA MergedCovers ==
  ASSUME NEW fs, Offered(fs), NEW i \in DOMAIN fs
  PROVE  \E n \in DOMAIN MergeDuplicates(fs) : SameText(MergeDuplicates(fs)[n], fs[i])
<1> DEFINE firsts == Firsts(fs)
           c == Cardinality(firsts)
           same == {j \in DOMAIN fs : DedupeKey(fs[j]) = DedupeKey(fs[i])}
           Made(j) == Entry(CheapestFirst(Quotes(fs, j)))
<1>1. Listed(fs) /\ firsts \in SUBSET DOMAIN fs /\ DOMAIN fs = 1..Len(fs) /\ Len(fs) \in Nat
  BY ListedPlaces DEF Offered, Firsts
<1>2. same \in SUBSET Nat /\ i \in same
  BY <1>1
<1>3. PICK k \in same : \A j \in same : k <= j
  <2> HIDE DEF same
  <2> QED
    BY <1>2, LeastNatural
<1>4. k \in firsts /\ k \in DOMAIN fs
  <2>1. \A j \in 1..(k - 1) : j \in DOMAIN fs /\ ~(k <= j)
    BY <1>1
  <2> QED
    BY <1>3, <2>1 DEF Firsts
<1>5. PICK n \in 1..c : Nth(firsts, n) = k
  <2> HIDE DEF firsts
  <2> QED
    BY <1>1, <1>4, KeptInOrder DEF Listed
<1>6. n \in DOMAIN MergeDuplicates(fs) /\ MergeDuplicates(fs)[n] = Made(k)
  BY <1>5 DEF MergeDuplicates, CheapestFirst
<1>7. SameText(Made(k), fs[k])
  BY <1>4, EntryStandsFor
<1> HIDE DEF Made
<1>8. SameText(Made(k), fs[i])
  BY <1>3, <1>7, KeyOfFlight
<1> QED
  BY <1>6, <1>8

\* gs has flights of fs, each at most once, with any scores.
MovedFrom(gs, fs, at) ==
  /\ \A n \in DOMAIN gs :
       at[n] \in DOMAIN fs /\ \E score : gs[n] = [fs[at[n]] EXCEPT !.score = score]
  /\ \A m, n \in DOMAIN gs : at[m] = at[n] => m = n

\* Moving entries and scoring them leaves them what they stand for.
LEMMA EntriesMoved ==
  ASSUME NEW fs, Listed(fs), NEW all, EntriesFor(fs, all), NEW gs, NEW at, MovedFrom(gs, fs, at)
  PROVE  EntriesFor(gs, all)
<1> USE DEF MovedFrom
<1>1. ASSUME NEW f, IsFlight(f), StandsFor(f, all), NEW score
      PROVE  StandsFor([f EXCEPT !.score = score], all)
  <2> DEFINE g == [f EXCEPT !.score = score]
  <2>1. /\ g.number = f.number /\ g.from = f.from /\ g.to = f.to /\ g.dep = f.dep
        /\ g.provider = f.provider /\ g.price = f.price /\ g.currency = f.currency
        /\ g.comparison = f.comparison
    BY <1>1 DEF IsFlight
  <2>2. [g EXCEPT !.comparison = <<>>, !.score = 0] = [f EXCEPT !.comparison = <<>>, !.score = 0]
    BY <1>1 DEF IsFlight
  <2> HIDE DEF g
  <2>3. SamePlaces(g, all) = SamePlaces(f, all) /\ QuoteOf(g) = QuoteOf(f)
    BY <2>1 DEF SamePlaces, SameText, QuoteOf
  <2>4. StandsFor(g, all)
    BY <1>1, <2>1, <2>2, <2>3 DEF StandsFor
  <2> QED
    BY <2>4 DEF g
<1>2. \A n \in DOMAIN gs : IsFlight(fs[at[n]]) /\ StandsFor(fs[at[n]], all)
  BY ListedPlaces DEF EntriesFor
<1>3. ASSUME NEW n \in DOMAIN gs
      PROVE  /\ StandsFor(gs[n], all)
             /\ gs[n].number = fs[at[n]].number /\ gs[n].from = fs[at[n]].from
             /\ gs[n].to = fs[at[n]].to /\ gs[n].dep = fs[at[n]].dep
  <2>1. PICK score : gs[n] = [fs[at[n]] EXCEPT !.score = score]
    OBVIOUS
  <2>2. IsFlight(fs[at[n]]) /\ StandsFor(fs[at[n]], all)
    BY <1>2
  <2>3. StandsFor(gs[n], all)
    BY <1>1, <2>1, <2>2
  <2>4. /\ gs[n].number = fs[at[n]].number /\ gs[n].from = fs[at[n]].from
        /\ gs[n].to = fs[at[n]].to /\ gs[n].dep = fs[at[n]].dep
    BY <2>1, <2>2 DEF IsFlight
  <2> QED
    BY <2>3, <2>4
<1>4. ASSUME NEW m \in DOMAIN gs, NEW n \in DOMAIN gs, SameText(gs[m], gs[n]) PROVE m = n
  <2>1. SameText(fs[at[m]], fs[at[n]])
    BY <1>3, <1>4 DEF SameText
  <2>2. at[m] \in DOMAIN fs /\ at[n] \in DOMAIN fs
    OBVIOUS
  <2>3. at[m] = at[n]
    BY <2>1, <2>2 DEF EntriesFor
  <2> QED
    BY <2>3
<1> QED
  BY <1>3, <1>4 DEF EntriesFor

\* An entry has the stops of a flight it stands for.
LEMMA EntryStops ==
  ASSUME NEW all, Offered(all), NEW f, IsFlight(f), StandsFor(f, all)
  PROVE  f.stops \in StopCounts
<1>1. PICK n \in DOMAIN all : all[n] = [f EXCEPT !.comparison = <<>>, !.score = 0]
  BY DEF StandsFor, SamePlaces
<1>2. all[n].stops \in StopCounts
  BY DEF Offered, ToSet, Plain
<1>3. [f EXCEPT !.comparison = <<>>, !.score = 0].stops = f.stops
  BY DEF IsFlight
<1> QED
  BY <1>1, <1>2, <1>3

\* A flight scored as it is is itself.
LEMMA SameScore ==
  ASSUME NEW f, IsFlight(f)
  PROVE  f = [f EXCEPT !.score = f.score]
BY DEF IsFlight

\* Filtering drops entries,
LEMMA FilteredEntries ==
  ASSUME NEW fs, Listed(fs), NEW all, EntriesFor(fs, all), NEW f
  PROVE  EntriesFor(Filtered(fs, f), all)
<1> DEFINE kept == {i \in DOMAIN fs : Matches(fs[i], f)}
           c == Cardinality(kept)
           at == [n \in 1..c |-> Nth(kept, n)]
           gs == Filtered(fs, f)
<1>1. kept \in SUBSET DOMAIN fs
  OBVIOUS
<1>2. gs = [n \in 1..c |-> fs[Nth(kept, n)]]
  BY DEF Filtered, Kept
<1> HIDE DEF kept
<1>3. /\ c \in Nat /\ \A n \in 1..c : Nth(kept, n) \in kept
      /\ \A m, n \in 1..c : m < n => Nth(kept, m) < Nth(kept, n)
  BY <1>1, KeptInOrder DEF Listed
<1> HIDE DEF c, gs
<1>4. DOMAIN gs = 1..c /\ \A n \in 1..c : at[n] \in DOMAIN fs /\ gs[n] = fs[at[n]]
  BY <1>1, <1>2, <1>3
<1>5. \A n \in DOMAIN gs :
        at[n] \in DOMAIN fs /\ \E score : gs[n] = [fs[at[n]] EXCEPT !.score = score]
  <2> SUFFICES ASSUME NEW n \in DOMAIN gs
               PROVE  \E score : gs[n] = [fs[at[n]] EXCEPT !.score = score]
    BY <1>4
  <2>1. gs[n] = fs[at[n]] /\ IsFlight(fs[at[n]])
    BY <1>4, ListedPlaces
  <2> QED
    BY <2>1, SameScore
<1>6. \A m, n \in DOMAIN gs : at[m] = at[n] => m = n
  <2> SUFFICES ASSUME NEW m \in 1..c, NEW n \in 1..c, at[m] = at[n] PROVE m = n
    BY <1>4
  <2>1. Nth(kept, m) = Nth(kept, n) /\ Nth(kept, m) \in DOMAIN fs
    BY <1>1, <1>3
  <2>2. Nth(kept, m) \in Nat
    BY <2>1, ListedPlaces
  <2> QED
    BY <1>3, <2>1, <2>2
<1> HIDE DEF at
<1>7. MovedFrom(gs, fs, at)
  BY <1>5, <1>6 DEF MovedFrom
<1>8. EntriesFor(gs, all)
  BY <1>7, EntriesMoved
<1> QED
  BY <1>8 DEF gs

\* scoring scores them,
LEMMA ComputedEntries ==
  ASSUME NEW fs, Listed(fs), NEW all, EntriesFor(fs, all)
  PROVE  EntriesFor(Compute(fs), all)
<1> DEFINE at == [n \in DOMAIN fs |-> n]
           gs == Compute(fs)
<1>1. gs = [i \in DOMAIN fs |-> [fs[i] EXCEPT !.score = ScoreOf(fs, fs[i])]]
  BY Computed
<1> HIDE DEF gs
<1>2. \A n \in DOMAIN gs :
        at[n] \in DOMAIN fs /\ \E score : gs[n] = [fs[at[n]] EXCEPT !.score = score]
  BY <1>1
<1>3. \A m, n \in DOMAIN gs : at[m] = at[n] => m = n
  BY <1>1
<1> HIDE DEF at
<1>4. MovedFrom(gs, fs, at)
  BY <1>2, <1>3 DEF MovedFrom
<1>5. EntriesFor(gs, all)
  BY <1>4, EntriesMoved
<1> QED
  BY <1>5 DEF gs

\* and sorting moves them.
LEMMA SortedEntries ==
  ASSUME NEW fs, Listed(fs), NEW all, EntriesFor(fs, all), NEW o
  PROVE  EntriesFor(Sorted(fs, o), all)
<1> DEFINE gs == Sorted(fs, o)
<1>1. PICK at : SortedFrom(fs, o, at)
  BY SortingIsStable
<1>2. /\ DOMAIN gs = 1..Len(fs)
      /\ \A n \in 1..Len(fs) : at[n] \in 1..Len(fs) /\ gs[n] = fs[at[n]]
      /\ \A m, n \in 1..Len(fs) : at[m] = at[n] => m = n
  BY <1>1, SortedPlaces
<1> HIDE DEF gs
<1>3. \A n \in DOMAIN gs :
        at[n] \in DOMAIN fs /\ \E score : gs[n] = [fs[at[n]] EXCEPT !.score = score]
  <2> SUFFICES ASSUME NEW n \in DOMAIN gs
               PROVE  at[n] \in DOMAIN fs
                      /\ \E score : gs[n] = [fs[at[n]] EXCEPT !.score = score]
    OBVIOUS
  <2>1. at[n] \in DOMAIN fs /\ gs[n] = fs[at[n]] /\ IsFlight(fs[at[n]])
    BY <1>2, ListedPlaces
  <2> QED
    BY <2>1, SameScore
<1>4. \A m, n \in DOMAIN gs : at[m] = at[n] => m = n
  BY <1>2
<1>5. MovedFrom(gs, fs, at)
  BY <1>3, <1>4 DEF MovedFrom
<1>6. EntriesFor(gs, all)
  BY <1>5, EntriesMoved
<1> QED
  BY <1>6 DEF gs

\* The criteria keep all flights that are the same as one they keep, so an entry
\* for the flights of the leg is one for all that were offered.
LEMMA StandsForAll ==
  ASSUME NEW all, Listed(all), NEW leg, NEW f, StandsFor(f, FilterByCriteria(all, leg))
  PROVE  /\ StandsFor(f, all)
         /\ \E o \in ToSet(all) :
              MatchesCriteria(o, leg) /\ o = [f EXCEPT !.comparison = <<>>, !.score = 0]
<1> DEFINE kept == {i \in DOMAIN all : MatchesCriteria(all[i], leg)}
           c == Cardinality(kept)
           fs == FilterByCriteria(all, leg)
           S == SamePlaces(f, fs)
           T == SamePlaces(f, all)
           nth == [n \in S |-> Nth(kept, n)]
<1>1. kept \in SUBSET DOMAIN all /\ \A i \in kept : MatchesCriteria(all[i], leg)
  OBVIOUS
<1>2. fs = [n \in 1..c |-> all[Nth(kept, n)]]
  BY DEF FilterByCriteria, Kept
<1>3. \A i \in DOMAIN all : MatchesCriteria(all[i], leg) => i \in kept
  OBVIOUS
<1> HIDE DEF kept
<1>4. /\ c \in Nat /\ \A n \in 1..c : Nth(kept, n) \in kept
      /\ \A i \in kept : \E n \in 1..c : Nth(kept, n) = i
      /\ \A m, n \in 1..c : m < n => Nth(kept, m) < Nth(kept, n)
  BY <1>1, KeptInOrder DEF Listed
<1> HIDE DEF c
<1>5. DOMAIN fs = 1..c /\ \A n \in 1..c : fs[n] = all[Nth(kept, n)]
  BY <1>2
<1> HIDE DEF fs
<1>6. PICK k \in S : fs[k] = [f EXCEPT !.comparison = <<>>, !.score = 0]
  BY DEF StandsFor, fs
<1>7. k \in 1..c /\ SameText(f, fs[k])
  BY <1>5 DEF SamePlaces
<1>8. MatchesCriteria(fs[k], leg) /\ fs[k] \in ToSet(all)
  BY <1>1, <1>4, <1>5, <1>7 DEF ToSet
<1>9. ASSUME NEW g, SameText(f, g) PROVE MatchesCriteria(g, leg)
  BY <1>7, <1>8, <1>9 DEF SameText, MatchesCriteria
<1>10. ASSUME NEW n \in S PROVE n \in 1..c /\ nth[n] \in T /\ fs[n] = all[nth[n]]
  <2>1. n \in 1..c /\ SameText(f, fs[n])
    BY <1>5 DEF SamePlaces
  <2>2. nth[n] = Nth(kept, n) /\ Nth(kept, n) \in DOMAIN all /\ fs[n] = all[Nth(kept, n)]
    BY <1>1, <1>4, <1>5, <2>1
  <2> QED
    BY <2>1, <2>2 DEF SamePlaces
<1>11. ASSUME NEW m \in S, NEW n \in S, nth[m] = nth[n] PROVE m = n
  <2>1. m \in 1..c /\ n \in 1..c /\ Nth(kept, m) = Nth(kept, n)
    BY <1>10, <1>11
  <2>2. Nth(kept, m) \in Nat
    BY <1>1, <1>4, <2>1, ListedPlaces
  <2> QED
    BY <1>4, <2>1, <2>2
<1>12. ASSUME NEW j \in T PROVE \E n \in S : nth[n] = j
  <2>1. j \in DOMAIN all /\ SameText(f, all[j])
    BY DEF SamePlaces
  <2>2. PICK n \in 1..c : Nth(kept, n) = j
    BY <1>3, <1>4, <1>9, <2>1
  <2>3. n \in S
    BY <1>5, <2>1, <2>2 DEF SamePlaces
  <2> QED
    BY <2>2, <2>3
<1>13. Cardinality(T) = Cardinality(S)
  <2>1. IsFiniteSet(S)
    <3>1. S \subseteq 1..c
      BY <1>10
    <3> QED
      BY <1>4, <3>1, Places, FS_Subset
  <2>2. nth \in [S -> T]
    BY <1>10
  <2>3. nth \in Bijection(S, T)
    <3> HIDE DEF nth, S, T
    <3>1. nth \in Injection(S, T)
      BY <1>11, <2>2 DEF Injection, IsInjective
    <3>2. nth \in Surjection(S, T)
      BY <1>12, <2>2 DEF Surjection
    <3> QED
      BY <3>1, <3>2 DEF Bijection
  <2>4. ExistsBijection(S, T)
    BY <2>3 DEF ExistsBijection
  <2> QED
    BY <2>1, <2>4, FS_Bijection
<1>14. {QuoteOf(all[n]) : n \in T} = {QuoteOf(fs[n]) : n \in S}
  <2> HIDE DEF S, T, nth
  <2> QED
    BY <1>10, <1>12
<1>15. nth[k] \in T /\ all[nth[k]] = [f EXCEPT !.comparison = <<>>, !.score = 0]
  BY <1>6, <1>10
<1>16. \A n \in S : f.price <= fs[n].price
  BY DEF StandsFor, fs
<1>17. \A j \in T : f.price <= all[j].price
  <2> HIDE DEF S, T, nth
  <2> QED
    BY <1>10, <1>12, <1>16
<1> HIDE DEF nth
<1>18. StandsFor(f, all)
  BY <1>13, <1>14, <1>15, <1>17 DEF StandsFor, fs
<1> QED
  BY <1>6, <1>8, <1>18

\* What the criteria keep of the offers are offers.
LEMMA OfferedOfTheLeg ==
  ASSUME NEW fs, Offered(fs), NEW leg
  PROVE  Offered(FilterByCriteria(fs, leg))
<1> DEFINE kept == {i \in DOMAIN fs : MatchesCriteria(fs[i], leg)}
<1>1. kept \in SUBSET DOMAIN fs /\ FilterByCriteria(fs, leg) = Kept(fs, kept)
  BY DEF FilterByCriteria
<1> HIDE DEF kept
<1>2. Kept(fs, kept) \in Seq(ToSet(fs))
  BY <1>1, KeptInOrder DEF Offered, Listed
<1>3. ToSet(Kept(fs, kept)) \subseteq ToSet(fs)
  BY <1>2 DEF ToSet
<1>4. Listed(FilterByCriteria(fs, leg))
  BY ListedFiltered DEF Offered
<1> QED
  BY <1>1, <1>3, <1>4 DEF Offered

\* What is collected was offered by a provider that answered.
LEMMA CollectedFrom ==
  ASSUME NEW slots, Slots(slots), NEW f \in ToSet(Collect(slots))
  PROVE  \E i \in DOMAIN slots : slots[i].ok /\ f \in ToSet(slots[i].flights)
<1> DEFINE seqs == [i \in DOMAIN slots |-> IF slots[i].ok THEN slots[i].flights ELSE <<>>]
<1>1. \A i \in 1..Len(slots) : Listed(seqs[i])
  BY ListedNone DEF Slots, Offered
<1>2. Len(slots) \in Nat /\ seqs = [i \in 1..Len(slots) |-> seqs[i]]
  BY DEF Slots
<1>3. Collect(slots) = FlattenSeq(seqs)
  BY DEF Collect
<1>4. \A i \in 1..Len(slots) : \A g \in ToSet(seqs[i]) :
        i \in DOMAIN slots /\ slots[i].ok /\ g \in ToSet(slots[i].flights)
  BY DEF Slots, ToSet
<1> HIDE DEF seqs
<1>5. Collect(slots) \in Seq(UNION {ToSet(seqs[i]) : i \in 1..Len(slots)})
  BY <1>1, <1>2, <1>3, FlattenedFrom
<1>6. PICK i \in 1..Len(slots) : f \in ToSet(seqs[i])
  BY <1>5 DEF ToSet
<1> QED
  BY <1>4, <1>6

-----------------------------------------------------------------------------
\* What the filter leaves.

\* gs has the flights of fs that match, all of them and no others, with any scores.
FilterKept(gs, fs, bounds) ==
  /\ \A n \in DOMAIN gs : Matches(gs[n], bounds)
  /\ \A m \in DOMAIN fs : Matches(fs[m], bounds) =>
       \E n \in DOMAIN gs : \E score : gs[n] = [fs[m] EXCEPT !.score = score]

\* No filter looks at the score.
LEMMA ScoreIsNotFiltered ==
  ASSUME NEW f, IsFlight(f), NEW score, NEW bounds
  PROVE  /\ Matches([f EXCEPT !.score = score], bounds) <=> Matches(f, bounds)
         /\ \A s : [[f EXCEPT !.score = s] EXCEPT !.score = score] = [f EXCEPT !.score = score]
<1> DEFINE g == [f EXCEPT !.score = score]
<1>1. /\ g.price = f.price /\ g.stops = f.stops /\ g.airline = f.airline
      /\ g.dep = f.dep /\ g.arr = f.arr
  BY DEF IsFlight
<1>2. \A s : [[f EXCEPT !.score = s] EXCEPT !.score = score] = [f EXCEPT !.score = score]
  BY DEF IsFlight
<1> HIDE DEF g
<1>3. Matches(g, bounds) <=> Matches(f, bounds)
  BY <1>1 DEF Matches, Duration, MatchesAirline
<1> QED
  BY <1>2, <1>3 DEF g

\* filter.Apply leaves just what matches,
LEMMA FilteredKeeps ==
  ASSUME NEW fs, Listed(fs), NEW bounds
  PROVE  FilterKept(Filtered(fs, bounds), fs, bounds)
<1> DEFINE kept == {i \in DOMAIN fs : Matches(fs[i], bounds)}
           c == Cardinality(kept)
           gs == Filtered(fs, bounds)
<1>1. kept \in SUBSET DOMAIN fs
  OBVIOUS
<1>2. gs = [n \in 1..c |-> fs[Nth(kept, n)]]
  BY DEF Filtered, Kept
<1>3. \A i \in DOMAIN fs : i \in kept <=> Matches(fs[i], bounds)
  OBVIOUS
<1> HIDE DEF kept
<1>4. /\ c \in Nat /\ \A n \in 1..c : Nth(kept, n) \in kept
      /\ \A i \in kept : \E n \in 1..c : Nth(kept, n) = i
  BY <1>1, KeptInOrder DEF Listed
<1> HIDE DEF c, gs
<1>5. DOMAIN gs = 1..c /\ \A n \in 1..c : gs[n] = fs[Nth(kept, n)]
  BY <1>2
<1>6. \A n \in DOMAIN gs : Matches(gs[n], bounds)
  BY <1>1, <1>3, <1>4, <1>5
<1>7. ASSUME NEW m \in DOMAIN fs, Matches(fs[m], bounds)
      PROVE  \E n \in DOMAIN gs : \E score : gs[n] = [fs[m] EXCEPT !.score = score]
  <2>1. PICK n \in 1..c : Nth(kept, n) = m
    BY <1>3, <1>4, <1>7
  <2>2. n \in DOMAIN gs /\ gs[n] = fs[m] /\ IsFlight(fs[m])
    BY <1>5, <2>1, ListedPlaces
  <2> QED
    BY <2>2, SameScore
<1>8. FilterKept(gs, fs, bounds)
  BY <1>6, <1>7 DEF FilterKept
<1> QED
  BY <1>8 DEF gs

\* and it stays, scored
LEMMA ComputedKeeps ==
  ASSUME NEW fs, Listed(fs), NEW bounds, NEW gs, Listed(gs), FilterKept(gs, fs, bounds)
  PROVE  FilterKept(Compute(gs), fs, bounds)
<1> DEFINE hs == Compute(gs)
<1>1. DOMAIN hs = DOMAIN gs /\ \A n \in DOMAIN gs : \E score : hs[n] = [gs[n] EXCEPT !.score = score]
  BY Computed
<1> HIDE DEF hs
<1>2. \A n \in DOMAIN gs : IsFlight(gs[n])
  BY ListedPlaces
<1>3. \A m \in DOMAIN fs : IsFlight(fs[m])
  BY ListedPlaces
<1>4. ASSUME NEW n \in DOMAIN hs PROVE Matches(hs[n], bounds)
  <2>1. PICK score : hs[n] = [gs[n] EXCEPT !.score = score]
    BY <1>1
  <2>2. IsFlight(gs[n]) /\ Matches(gs[n], bounds)
    BY <1>1, <1>2 DEF FilterKept
  <2>3. Matches([gs[n] EXCEPT !.score = score], bounds)
    BY <2>2, ScoreIsNotFiltered
  <2> QED
    BY <2>1, <2>3
<1>5. ASSUME NEW m \in DOMAIN fs, Matches(fs[m], bounds)
      PROVE  \E n \in DOMAIN hs : \E score : hs[n] = [fs[m] EXCEPT !.score = score]
  <2>1. PICK n \in DOMAIN gs : \E score : gs[n] = [fs[m] EXCEPT !.score = score]
    BY <1>5 DEF FilterKept
  <2>2. PICK s : gs[n] = [fs[m] EXCEPT !.score = s]
    BY <2>1
  <2>3. PICK score : hs[n] = [gs[n] EXCEPT !.score = score]
    BY <1>1
  <2>4. hs[n] = [fs[m] EXCEPT !.score = score]
    BY <1>3, <2>2, <2>3, ScoreIsNotFiltered
  <2> QED
    BY <1>1, <2>4
<1>6. FilterKept(hs, fs, bounds)
  BY <1>4, <1>5 DEF FilterKept
<1> QED
  BY <1>6 DEF hs

\* and sorted.
LEMMA SortedKeeps ==
  ASSUME NEW fs, NEW bounds, NEW gs, Listed(gs), FilterKept(gs, fs, bounds), NEW o
  PROVE  FilterKept(Sorted(gs, o), fs, bounds)
<1> DEFINE hs == Sorted(gs, o)
<1>1. PICK at : SortedFrom(gs, o, at)
  BY SortingIsStable
<1>2. /\ DOMAIN hs = 1..Len(gs) /\ DOMAIN gs = 1..Len(gs)
      /\ \A n \in 1..Len(gs) : at[n] \in 1..Len(gs) /\ hs[n] = gs[at[n]]
      /\ \A i \in 1..Len(gs) : \E n \in 1..Len(gs) : at[n] = i
  BY <1>1, SortedPlaces, ListedPlaces
<1> HIDE DEF hs
<1>3. FilterKept(hs, fs, bounds)
  <2>1. \A n \in DOMAIN hs : Matches(hs[n], bounds)
    BY <1>2 DEF FilterKept
  <2>2. ASSUME NEW i \in DOMAIN gs PROVE \E n \in DOMAIN hs : hs[n] = gs[i]
    <3>1. PICK n \in 1..Len(gs) : at[n] = i
      BY <1>2
    <3> QED
      BY <1>2, <3>1
  <2>3. \A m \in DOMAIN fs : Matches(fs[m], bounds) =>
          \E n \in DOMAIN hs : \E score : hs[n] = [fs[m] EXCEPT !.score = score]
    BY <2>2 DEF FilterKept
  <2> QED
    BY <2>1, <2>3 DEF FilterKept
<1> QED
  BY <1>3 DEF hs

\* The digits of a time of day.
LEMMA Digits ==
  ASSUME NEW t \in 0..(Day - 1)
  PROVE  /\ HHMM(t) \in Seq(Nat) /\ IsHHMM(HHMM(t)) /\ MinutesOf(HHMM(t)) = t
<1> DEFINE h == t \div 60
           m == t % 60
<1>1. t \in Nat /\ t < 1440
  BY DEF Day
<1>2. h \in 0..23 /\ m \in 0..59 /\ t = 60 * h + m
  BY <1>1
<1>3. HHMM(t) = <<h \div 10, h % 10, Colon, m \div 10, m % 10>>
  BY DEF HHMM
<1> HIDE DEF h, m
<1>4. \A n \in 0..59 : n \div 10 \in 0..5 /\ n % 10 \in 0..9 /\ n = 10 * (n \div 10) + (n % 10)
  OBVIOUS
<1> DEFINE a == h \div 10
           b == h % 10
           c == m \div 10
           d == m % 10
<1> HIDE DEF a, b, c, d
<1>5. a \in 0..5 /\ b \in 0..9 /\ h = 10 * a + b
  BY <1>2, <1>4 DEF a, b
<1>6. c \in 0..5 /\ d \in 0..9 /\ m = 10 * c + d
  BY <1>2, <1>4 DEF c, d
<1>7. HHMM(t) = <<a, b, 10, c, d>>
  BY <1>3 DEF a, b, c, d, Colon
<1>8. 600 * a + 60 * b + 10 * c + d = t
  BY <1>2, <1>5, <1>6
<1> DEFINE text == <<a, b, 10, c, d>>
<1>9. /\ text \in Seq(Nat) /\ Len(text) = 5
      /\ text[1] = a /\ text[2] = b /\ text[3] = 10 /\ text[4] = c /\ text[5] = d
  <2>1. a \in Nat /\ b \in Nat /\ 10 \in Nat /\ c \in Nat /\ d \in Nat
    BY <1>5, <1>6
  <2>2. /\ Len(text) = 5
        /\ text[1] = a /\ text[2] = b /\ text[3] = 10 /\ text[4] = c /\ text[5] = d
    BY ONLY <2>1
  <2>3. text \in Seq(Nat)
    BY ONLY <2>1
  <2> QED
    BY <2>2, <2>3
<1> HIDE DEF text
<1>10. IsHHMM(text)
  <2>1. a < 10 /\ b < 10 /\ c < 10 /\ d < 10 /\ c < 6
    BY <1>5, <1>6
  <2>2. text[1] < 10 /\ text[2] < 10 /\ text[4] < 10 /\ text[5] < 10 /\ text[4] < 6
    BY ONLY <1>9, <2>1, Zenon
  <2> QED
    BY ONLY <1>9, <2>2, Zenon DEF IsHHMM, Colon
<1>11. MinutesOf(text) = t
  BY <1>8, <1>9 DEF MinutesOf
<1> QED
  BY <1>7, <1>9, <1>10, <1>11 DEF text

\* Texts of one shape compare by their first difference.
LEMMA TextsCompare ==
  ASSUME NEW s \in Seq(Nat), NEW t \in Seq(Nat), IsHHMM(s), IsHHMM(t)
  PROVE  TextLess(s, t) <=> \/ s[1] < t[1]
                            \/ s[1] = t[1] /\ s[2] < t[2]
                            \/ s[1] = t[1] /\ s[2] = t[2] /\ s[4] < t[4]
                            \/ s[1] = t[1] /\ s[2] = t[2] /\ s[4] = t[4] /\ s[5] < t[5]
<1>1. Len(s) = 5 /\ Len(t) = 5 /\ DOMAIN s = 1..5 /\ DOMAIN t = 1..5 /\ s[3] = t[3] /\ s[3] \in Nat
  BY DEF IsHHMM, Colon
<1>2. ~IsStrictPrefix(s, t)
  <2>1. SubSeq(s, 1, 5) = s /\ SubSeq(t, 1, 5) = t
    BY <1>1
  <2> QED
    BY <1>1, <2>1 DEF IsStrictPrefix, IsPrefix
<1>3. TextLess(s, t) <=> \E i \in 1..5 : s[i] < t[i] /\ \A j \in 1..(i - 1) : s[j] = t[j]
  BY <1>1, <1>2 DEF TextLess
<1>4. ASSUME NEW i \in 1..5, s[i] < t[i], \A j \in 1..(i - 1) : s[j] = t[j]
      PROVE  \/ s[1] < t[1]
             \/ s[1] = t[1] /\ s[2] < t[2]
             \/ s[1] = t[1] /\ s[2] = t[2] /\ s[4] < t[4]
             \/ s[1] = t[1] /\ s[2] = t[2] /\ s[4] = t[4] /\ s[5] < t[5]
  <2>1. CASE i = 1
    BY <1>4, <2>1
  <2>2. CASE i = 2
    <3>1. 1 \in 1..(i - 1)
      BY <2>2
    <3> QED
      BY <1>4, <2>2, <3>1
  <2>3. i # 3
    BY <1>1, <1>4
  <2>4. CASE i = 4
    <3>1. 1 \in 1..(i - 1) /\ 2 \in 1..(i - 1)
      BY <2>4
    <3> QED
      BY <1>4, <2>4, <3>1
  <2>5. CASE i = 5
    <3>1. 1 \in 1..(i - 1) /\ 2 \in 1..(i - 1) /\ 4 \in 1..(i - 1)
      BY <2>5
    <3> QED
      BY <1>4, <2>5, <3>1
  <2> QED
    BY <2>1, <2>2, <2>3, <2>4, <2>5
<1>5. s[1] < t[1] => \E i \in 1..5 : s[i] < t[i] /\ \A j \in 1..(i - 1) : s[j] = t[j]
  OBVIOUS
<1>6. s[1] = t[1] /\ s[2] < t[2] =>
        \E i \in 1..5 : s[i] < t[i] /\ \A j \in 1..(i - 1) : s[j] = t[j]
  OBVIOUS
<1>7. s[1] = t[1] /\ s[2] = t[2] /\ s[4] < t[4] =>
        \E i \in 1..5 : s[i] < t[i] /\ \A j \in 1..(i - 1) : s[j] = t[j]
  <2> SUFFICES ASSUME s[1] = t[1], s[2] = t[2], s[4] < t[4]
               PROVE  s[4] < t[4] /\ \A j \in 1..3 : s[j] = t[j]
    OBVIOUS
  <2> QED
    BY <1>1
<1>8. s[1] = t[1] /\ s[2] = t[2] /\ s[4] = t[4] /\ s[5] < t[5] =>
        \E i \in 1..5 : s[i] < t[i] /\ \A j \in 1..(i - 1) : s[j] = t[j]
  <2> SUFFICES ASSUME s[1] = t[1], s[2] = t[2], s[4] = t[4], s[5] < t[5]
               PROVE  s[5] < t[5] /\ \A j \in 1..4 : s[j] = t[j]
    OBVIOUS
  <2> QED
    BY <1>1
<1> QED
  BY <1>3, <1>4, <1>5, <1>6, <1>7, <1>8

\* They make a number.
LEMMA MinutesAreANumber ==
  ASSUME NEW text \in Seq(Nat), IsHHMM(text)
  PROVE  MinutesOf(text) \in Nat
<1>1. \A i \in 1..Len(text) : text[i] \in Nat
  OBVIOUS
<1>2. Len(text) = 5 /\ 1 \in 1..5 /\ 2 \in 1..5 /\ 4 \in 1..5 /\ 5 \in 1..5
  BY DEF IsHHMM
<1>3. text[1] \in Nat /\ text[2] \in Nat /\ text[4] \in Nat /\ text[5] \in Nat
  BY <1>1, <1>2
<1> DEFINE a == text[1]
           b == text[2]
           c == text[4]
           d == text[5]
<1>4. MinutesOf(text) = 600 * a + 60 * b + 10 * c + d
  BY DEF MinutesOf
<1>5. a \in Nat /\ b \in Nat /\ c \in Nat /\ d \in Nat
  BY <1>3
<1> HIDE DEF a, b, c, d
<1> QED
  BY <1>4, <1>5

\* So times written HH:MM compare as texts as they do as times.
LEMMA ClockOrder ==
  ASSUME NEW s \in Seq(Nat), NEW t \in Seq(Nat), IsHHMM(s), IsHHMM(t)
  PROVE  TextLess(s, t) <=> MinutesOf(s) < MinutesOf(t)
<1>1. /\ s[1] \in 0..9 /\ s[2] \in 0..9 /\ s[4] \in 0..5 /\ s[5] \in 0..9
      /\ t[1] \in 0..9 /\ t[2] \in 0..9 /\ t[4] \in 0..5 /\ t[5] \in 0..9
  <2>1. \A text \in Seq(Nat) : IsHHMM(text) =>
          /\ text[1] \in 0..9 /\ text[2] \in 0..9 /\ text[4] \in 0..5 /\ text[5] \in 0..9
    <3> SUFFICES ASSUME NEW text \in Seq(Nat), IsHHMM(text)
                 PROVE  /\ text[1] \in 0..9 /\ text[2] \in 0..9
                        /\ text[4] \in 0..5 /\ text[5] \in 0..9
      OBVIOUS
    <3>1. \A i \in 1..Len(text) : text[i] \in Nat
      OBVIOUS
    <3>2. text[1] < 10 /\ text[2] < 10 /\ text[4] < 6 /\ text[5] < 10
      BY DEF IsHHMM, Colon
    <3>3. Len(text) = 5 /\ 1 \in 1..5 /\ 2 \in 1..5 /\ 4 \in 1..5 /\ 5 \in 1..5
      BY DEF IsHHMM
    <3>4. \A n \in Nat : (n < 10 => n \in 0..9) /\ (n < 6 => n \in 0..5)
      OBVIOUS
    <3> QED
      BY <3>1, <3>2, <3>3, <3>4
  <2> QED
    BY <2>1
<1> DEFINE a == s[1]
           b == s[2]
           c == s[4]
           d == s[5]
           p == t[1]
           q == t[2]
           u == t[4]
           v == t[5]
<1>2. /\ MinutesOf(s) = 600 * a + 60 * b + 10 * c + d
      /\ MinutesOf(t) = 600 * p + 60 * q + 10 * u + v
  BY DEF MinutesOf
<1>3. TextLess(s, t) <=> \/ a < p
                         \/ a = p /\ b < q
                         \/ a = p /\ b = q /\ c < u
                         \/ a = p /\ b = q /\ c = u /\ d < v
  BY TextsCompare
<1>4. /\ a \in 0..9 /\ b \in 0..9 /\ c \in 0..5 /\ d \in 0..9
      /\ p \in 0..9 /\ q \in 0..9 /\ u \in 0..5 /\ v \in 0..9
  BY <1>1
<1> HIDE DEF a, b, c, d, p, q, u, v
<1>5. (\/ a < p
       \/ a = p /\ b < q
       \/ a = p /\ b = q /\ c < u
       \/ a = p /\ b = q /\ c = u /\ d < v)
      <=> 600 * a + 60 * b + 10 * c + d < 600 * p + 60 * q + 10 * u + v
  BY <1>4
<1> QED
  BY <1>2, <1>3, <1>5

-----------------------------------------------------------------------------
\* The pipeline.

\* The offers of the leg, in the order of the providers.
LegOffers == FilterByCriteria(Collect(results), Leg)

\* What holds between the steps of Aggregator.Search and of searchLeg: the slots
\* hold offers and the list, once merged, entries for them; once scored it
\* respects dominance and, with natural stop counts, the scale.  Sort leaves the
\* list its input sorts to.
PipelineInv ==
  /\ replies \in Replies
  /\ Slots(results)
  /\ Listed(listing) /\ Listed(before)
  /\ stage \in {"merged", "filtered", "scored", "sorted"} => EntriesFor(listing, LegOffers)
  /\ stage \in {"scored", "sorted"} => Dominant(listing) /\ (NaturalStops => Scaled(listing))
  /\ stage = "sorted" => listing = Sorted(before, option)
  /\ stage # "replied" => results = ProviderResults(replies)
  /\ stage = "merged" => listing = MergeDuplicates(LegOffers)
  /\ stage \in {"filtered", "scored", "sorted"} =>
       filter \in Filters /\ FilterKept(listing, MergeDuplicates(LegOffers), filter)

\* No reply has come and the list is empty.
LEMMA Initially == Init => PipelineInv
<1> SUFFICES ASSUME Init PROVE PipelineInv
  OBVIOUS
<1>1. Slots(<<>>)
  BY DEF Slots
<1> QED
  BY <1>1, ListedNone DEF Init, PipelineInv

\* Every step of the search keeps it.
LEMMA NextKeepsInv == PipelineInv /\ [Next]_vars => PipelineInv'
<1> SUFFICES ASSUME PipelineInv, [Next]_vars PROVE PipelineInv'
  OBVIOUS
<1>1. CASE Normalise
  <2>1. Slots(results')
    BY <1>1, ResultsCarry DEF Normalise, PipelineInv
  <2> QED
    BY <1>1, <2>1 DEF Normalise, PipelineInv
<1>2. CASE Merge
  <2>1. Offered(LegOffers)
    BY CollectedOffered, OfferedOfTheLeg DEF PipelineInv, LegOffers
  <2>2. listing' = MergeDuplicates(LegOffers) /\ LegOffers' = LegOffers
    BY <1>2 DEF Merge, LegOffers
  <2>3. Listed(listing') /\ EntriesFor(listing', LegOffers')
    BY <2>1, <2>2, ListedMerged, MergedStandsFor DEF Offered
  <2>4. /\ stage = "answered" /\ stage' = "merged" /\ replies' = replies
        /\ results' = results /\ before' = before
    BY <1>2 DEF Merge
  <2> QED
    BY <2>2, <2>3, <2>4 DEF PipelineInv
<1>3. CASE Filter
  <2>1. stage = "merged" /\ results' = results /\ LegOffers' = LegOffers
    BY <1>3 DEF Filter, LegOffers
  <2>2. PICK f \in Filters : filter' = f /\ listing' = Filtered(listing, f)
    BY <1>3 DEF Filter
  <2>3. Listed(listing') /\ EntriesFor(listing', LegOffers')
    BY <2>1, <2>2, ListedFiltered, FilteredEntries DEF PipelineInv
  <2>4. filter' \in Filters /\ FilterKept(listing', MergeDuplicates(LegOffers'), filter')
    BY <2>1, <2>2, FilteredKeeps DEF PipelineInv
  <2>5. stage' = "filtered" /\ replies' = replies /\ before' = listing
    BY <1>3 DEF Filter
  <2> QED
    BY <2>1, <2>3, <2>4, <2>5 DEF PipelineInv
<1>4. CASE Score
  <2>1. stage = "filtered" /\ listing' = Compute(listing) /\ LegOffers' = LegOffers
    BY <1>4 DEF Score, LegOffers
  <2>2. Listed(listing') /\ Dominant(listing')
    BY <2>1, ListedComputed, ComputedIsDominant DEF PipelineInv
  <2>4. NaturalStops => Scaled(listing')
    <3>1. Offered(LegOffers)
      BY CollectedOffered, OfferedOfTheLeg DEF PipelineInv, LegOffers
    <3>2. \A i \in DOMAIN listing : IsFlight(listing[i]) /\ StandsFor(listing[i], LegOffers)
      BY <2>1, ListedPlaces DEF PipelineInv, EntriesFor
    <3>3. \A i \in DOMAIN listing : listing[i].stops \in StopCounts
      BY <3>1, <3>2, EntryStops
    <3>4. DOMAIN listing = 1..Len(listing)
      BY ListedPlaces DEF PipelineInv
    <3> QED
      BY <2>1, <3>3, <3>4, ComputedIsScaled DEF PipelineInv, StopCounts
  <2>3. EntriesFor(listing', LegOffers')
    BY <2>1, ComputedEntries DEF PipelineInv
  <2>5. /\ filter' = filter /\ filter \in Filters
        /\ FilterKept(listing', MergeDuplicates(LegOffers'), filter')
    <3>1. Listed(MergeDuplicates(LegOffers))
      BY CollectedOffered, OfferedOfTheLeg, ListedMerged DEF PipelineInv, LegOffers, Offered
    <3>2. filter' = filter
      BY <1>4 DEF Score
    <3> QED
      BY <2>1, <3>1, <3>2, ComputedKeeps DEF PipelineInv
  <2>6. stage' = "scored" /\ replies' = replies /\ results' = results /\ before' = listing
    BY <1>4 DEF Score
  <2> QED
    BY <2>1, <2>2, <2>3, <2>4, <2>5, <2>6 DEF PipelineInv
<1>5. CASE Sort
  <2>1. stage = "scored" /\ LegOffers' = LegOffers
    BY <1>5 DEF Sort, LegOffers
  <2>2. PICK o \in Options : option' = o /\ listing' = Sorted(listing, o)
    BY <1>5 DEF Sort
  <2>3. Listed(listing') /\ Dominant(listing') /\ (NaturalStops => Scaled(listing'))
    BY <2>1, <2>2, ListedSorted, SortedKeepsDominant, SortedKeepsScaled DEF PipelineInv
  <2>4. EntriesFor(listing', LegOffers')
    BY <2>1, <2>2, SortedEntries DEF PipelineInv
  <2>5. before' = listing /\ replies' = replies /\ results' = results /\ stage' = "sorted"
    BY <1>5 DEF Sort
  <2>6. filter' = filter /\ FilterKept(listing', MergeDuplicates(LegOffers'), filter')
    <3>1. filter' = filter
      BY <1>5 DEF Sort
    <3> QED
      BY <2>1, <2>2, <3>1, SortedKeeps DEF PipelineInv
  <2> QED
    BY <2>1, <2>2, <2>3, <2>4, <2>5, <2>6 DEF PipelineInv
<1>6. CASE UNCHANGED vars
  BY <1>6 DEF vars, PipelineInv, LegOffers
<1> QED
  BY <1>1, <1>2, <1>3, <1>4, <1>5, <1>6 DEF Next

\* Every reachable state satisfies it, whatever the airlines reply and whatever
\* the request filters and sorts by.
THEOREM Invariant == Spec => []PipelineInv
BY Initially, NextKeepsInv, PTL DEF Spec

\* What Sort left behind is sorted stably.
LEMMA InvSorts == PipelineInv => SortedStably
<1> SUFFICES ASSUME PipelineInv, stage = "sorted"
             PROVE  /\ Len(listing) = Len(before)
                    /\ ToSet(listing) = ToSet(before)
                    /\ \A i, j \in DOMAIN listing : i < j =>
                         /\ ~SortsBefore(option, listing[j], listing[i])
                         /\ ~SortsBefore(option, listing[i], listing[j]) =>
                              \E m, n \in DOMAIN before :
                                m < n /\ before[m] = listing[i] /\ before[n] = listing[j]
  BY DEF SortedStably
<1>1. Listed(before) /\ listing = Sorted(before, option)
  BY DEF PipelineInv
<1>2. PICK at : SortedFrom(before, option, at)
  BY <1>1, SortingIsStable
<1>3. DOMAIN before = 1..Len(before)
  BY <1>1, ListedPlaces
<1>4. /\ Len(listing) = Len(before) /\ DOMAIN listing = 1..Len(before)
      /\ \A n \in 1..Len(before) : at[n] \in 1..Len(before) /\ listing[n] = before[at[n]]
      /\ \A i \in 1..Len(before) : \E n \in 1..Len(before) : at[n] = i
  BY ONLY <1>1, <1>2, SortedPlaces, SMTT(30)
<1>5. ToSet(listing) = ToSet(before)
  <2>1. ASSUME NEW f \in ToSet(listing) PROVE f \in ToSet(before)
    <3>1. PICK n \in 1..Len(before) : f = listing[n]
      BY <1>4 DEF ToSet
    <3> QED
      BY <1>3, <1>4, <3>1 DEF ToSet
  <2>2. ASSUME NEW f \in ToSet(before) PROVE f \in ToSet(listing)
    <3>1. PICK i \in 1..Len(before) : f = before[i]
      BY <1>3 DEF ToSet
    <3>2. PICK n \in 1..Len(before) : at[n] = i
      BY <1>4
    <3> QED
      BY <1>4, <3>1, <3>2 DEF ToSet
  <2> QED
    BY <2>1, <2>2
<1>6. PICK key \in [1..Len(before) -> Int] :
        \A i, j \in 1..Len(before) : SortsBefore(option, before[i], before[j]) <=> key[i] < key[j]
  BY <1>1, OrdersHaveKeys
<1>7. ASSUME NEW i \in DOMAIN listing, NEW j \in DOMAIN listing, i < j
      PROVE  /\ ~SortsBefore(option, listing[j], listing[i])
             /\ ~SortsBefore(option, listing[i], listing[j]) =>
                  \E m, n \in DOMAIN before :
                    m < n /\ before[m] = listing[i] /\ before[n] = listing[j]
  <2>1. /\ at[i] \in DOMAIN before /\ at[j] \in DOMAIN before
        /\ listing[i] = before[at[i]] /\ listing[j] = before[at[j]]
    BY <1>3, <1>4
  <2>2. \/ SortsBefore(option, before[at[i]], before[at[j]])
        \/ ~SortsBefore(option, before[at[j]], before[at[i]]) /\ at[i] < at[j]
    BY <1>2, <1>4, <1>7 DEF SortedFrom
  <2>3. ~SortsBefore(option, before[at[j]], before[at[i]])
    BY <1>3, <1>6, <2>1, <2>2
  <2> QED
    BY <2>1, <2>2, <2>3
<1> QED
  BY <1>4, <1>5, <1>7

\* The entries stand for the offers.
LEMMA QuotesStand ==
  ASSUME PipelineInv, stage = "sorted", NEW i \in DOMAIN listing
  PROVE  /\ \A j \in DOMAIN listing : SameText(listing[i], listing[j]) => i = j
         /\ StandsFor(listing[i], Collect(results))
         /\ \E o \in Offers : o = [listing[i] EXCEPT !.comparison = <<>>, !.score = 0]
         /\ IsFlight(listing[i])
<1> DEFINE all == Collect(results)
<1>1. EntriesFor(listing, LegOffers) /\ Slots(results) /\ IsFlight(listing[i])
  BY ListedPlaces DEF PipelineInv
<1>2. Listed(all)
  BY <1>1, CollectedOffered DEF Offered
<1>3. StandsFor(listing[i], FilterByCriteria(all, Leg))
  BY <1>1 DEF EntriesFor, LegOffers
<1> HIDE DEF all
<1>4. ASSUME NEW f, StandsFor(f, FilterByCriteria(all, Leg))
      PROVE  /\ StandsFor(f, all)
             /\ \E o \in Offers : o = [f EXCEPT !.comparison = <<>>, !.score = 0]
  <2>1. StandsFor(f, all)
    BY <1>2, <1>4, StandsForAll
  <2>2. PICK o \in ToSet(all) :
          MatchesCriteria(o, Leg) /\ o = [f EXCEPT !.comparison = <<>>, !.score = 0]
    BY <1>2, <1>4, StandsForAll
  <2>3. o \in Offers
    BY <1>1, <2>2, CollectedFrom DEF Offers, all
  <2> QED
    BY <2>1, <2>2, <2>3
<1> QED
  BY <1>1, <1>3, <1>4 DEF EntriesFor, all

\* Where all that quote a flight write its departure alike, merging takes for the
\* same what is the same.
LEMMA InvQuotes == PipelineInv => EachFlightOnceWithItsQuotes
<1> SUFFICES ASSUME PipelineInv, stage = "sorted", NEW i \in DOMAIN listing
             PROVE  LET f == listing[i]
                        all == Collect(results)
                        quotes == {n \in DOMAIN all : SameFlight(f, all[n])}
                    IN  /\ \E o \in Offers : o = [f EXCEPT !.comparison = <<>>, !.score = 0]
                        /\ (\A n \in quotes : all[n].dep = f.dep) =>
                             /\ \A j \in DOMAIN listing : SameFlight(f, listing[j]) => i = j
                             /\ (\E m, n \in quotes : all[m].provider # all[n].provider) =>
                                  f.comparison # <<>>
                             /\ f.comparison # <<>> =>
                                  /\ Cardinality(quotes) > 1
                                  /\ Len(f.comparison) = Cardinality(quotes)
                                  /\ ToSet(f.comparison) = {QuoteOf(all[n]) : n \in quotes}
                                  /\ f.comparison[1] = QuoteOf(f)
                                  /\ \A n \in 2..Len(f.comparison) :
                                       f.comparison[n - 1].price <= f.comparison[n].price
  BY DEF EachFlightOnceWithItsQuotes
<1> DEFINE f == listing[i]
           all == Collect(results)
           quotes == {n \in DOMAIN all : SameFlight(f, all[n])}
<1>1. StandsFor(f, all) /\ \E o \in Offers : o = [f EXCEPT !.comparison = <<>>, !.score = 0]
  BY QuotesStand
<1>2. Listed(all)
  BY CollectedOffered DEF PipelineInv, Offered
<1> HIDE DEF all
<1>3. ASSUME \A n \in quotes : all[n].dep = f.dep
      PROVE  /\ \A j \in DOMAIN listing : SameFlight(f, listing[j]) => i = j
             /\ (\E m, n \in quotes : all[m].provider # all[n].provider) =>
                  f.comparison # <<>>
             /\ f.comparison # <<>> =>
                  /\ Cardinality(quotes) > 1
                  /\ Len(f.comparison) = Cardinality(quotes)
                  /\ ToSet(f.comparison) = {QuoteOf(all[n]) : n \in quotes}
                  /\ f.comparison[1] = QuoteOf(f)
                  /\ \A n \in 2..Len(f.comparison) :
                       f.comparison[n - 1].price <= f.comparison[n].price
  <2>1. quotes = SamePlaces(f, all)
    BY <1>3 DEF SamePlaces, SameText, SameFlight
  <2>2. ASSUME NEW j \in DOMAIN listing, SameFlight(f, listing[j]) PROVE i = j
    <3>1. PICK n \in SamePlaces(listing[j], all) :
            all[n] = [listing[j] EXCEPT !.comparison = <<>>, !.score = 0]
      BY QuotesStand DEF StandsFor, all
    <3>2. IsFlight(listing[j])
      BY QuotesStand
    <3>3. /\ all[n].number = listing[j].number /\ all[n].from = listing[j].from
          /\ all[n].to = listing[j].to /\ all[n].dep = listing[j].dep
      BY <3>1 DEF SamePlaces, SameText
    <3>4. n \in quotes
      BY <2>2, <3>1, <3>3 DEF SamePlaces, SameFlight
    <3>5. SameText(f, listing[j])
      BY <1>3, <2>2, <3>3, <3>4 DEF SameFlight, SameText
    <3> QED
      BY <3>5, QuotesStand
  <2>3. IsFiniteSet(quotes) /\ Cardinality(quotes) \in Nat
    <3>1. DOMAIN all = 1..Len(all) /\ Len(all) \in Nat
      BY <1>2 DEF Listed
    <3>2. IsFiniteSet(DOMAIN all)
      BY <3>1, FS_Interval
    <3> QED
      BY <3>2, FS_Subset, FS_CardinalityType
  <2>4. ASSUME NEW m \in quotes, NEW n \in quotes, all[m].provider # all[n].provider
        PROVE  f.comparison # <<>>
    <3>1. Cardinality(quotes) # 1
      <4> SUFFICES ASSUME Cardinality(quotes) = 1 PROVE FALSE
        OBVIOUS
      <4> HIDE DEF quotes
      <4>1. PICK x : quotes = {x}
        BY <2>3, FS_Singleton
      <4> QED
        BY <2>4, <4>1
    <3>2. Cardinality(quotes) # 0
      <4> HIDE DEF quotes
      <4> QED
        BY <2>3, <2>4, FS_EmptySet
    <3>3. Len(f.comparison) = Cardinality(quotes)
      BY <1>1, <2>1, <3>1 DEF StandsFor
    <3> HIDE DEF quotes, f
    <3> QED
      BY <3>2, <3>3
  <2>5. ASSUME f.comparison # <<>>
        PROVE  /\ Cardinality(quotes) > 1
               /\ Len(f.comparison) = Cardinality(quotes)
    <3>1. Cardinality(quotes) # 1 /\ Len(f.comparison) = Cardinality(quotes)
      BY <1>1, <2>1, <2>5 DEF StandsFor
    <3>2. quotes # {}
      BY <1>1, <2>1 DEF StandsFor
    <3>3. Cardinality(quotes) # 0
      <4> HIDE DEF quotes
      <4> QED
        BY <2>3, <3>2, FS_EmptySet
    <3> QED
      BY <2>3, <3>1, <3>3
  <2> QED
    BY <1>1, <2>1, <2>2, <2>4, <2>5 DEF StandsFor
<1> QED
  BY <1>1, <1>3 DEF all

\* What it says of scored lists is DominanceRespected.
LEMMA InvDominates == PipelineInv => DominanceRespected
BY DEF PipelineInv, Dominant, DominanceRespected

\* And ScoreScale.
LEMMA InvScales == PipelineInv /\ NaturalStops => ScoreScale
BY DEF PipelineInv, Scaled, InScale, ScoreScale

\* Once the providers have answered, each flight of the leg is of a journey.
LEMMA OffersRender ==
  ASSUME PipelineInv, stage # "replied"
  PROVE  /\ Offered(LegOffers) /\ ToSet(LegOffers) \subseteq ToSet(Collect(results))
         /\ Renders(Collect(results), Journeys)
         /\ \A f \in ToSet(Collect(results)) :
              f \in ToSet(LegOffers) <=> MatchesCriteria(f, Leg)
<1> DEFINE all == Collect(results)
           kept == {i \in DOMAIN all : MatchesCriteria(all[i], Leg)}
           c == Cardinality(kept)
<1>1. Slots(results) /\ Renders(all, Journeys)
  BY ResultsCarry DEF PipelineInv
<1>2. Offered(all) /\ Offered(LegOffers)
  BY <1>1, CollectedOffered, OfferedOfTheLeg DEF LegOffers
<1>3. /\ kept \in SUBSET DOMAIN all /\ LegOffers = [n \in 1..c |-> all[Nth(kept, n)]]
      /\ \A i \in DOMAIN all : i \in kept <=> MatchesCriteria(all[i], Leg)
  BY DEF LegOffers, FilterByCriteria, Kept
<1> HIDE DEF kept, all
<1>4. /\ \A n \in 1..c : Nth(kept, n) \in kept
      /\ \A i \in kept : \E n \in 1..c : Nth(kept, n) = i
  BY <1>2, <1>3, KeptInOrder DEF Offered, Listed
<1> HIDE DEF c
<1>5. \A n \in DOMAIN LegOffers : \E i \in kept : LegOffers[n] = all[i]
  BY <1>3, <1>4
<1>6. \A i \in kept : \E n \in DOMAIN LegOffers : LegOffers[n] = all[i]
  <2> SUFFICES ASSUME NEW i \in kept PROVE \E n \in DOMAIN LegOffers : LegOffers[n] = all[i]
    OBVIOUS
  <2>1. PICK n \in 1..c : Nth(kept, n) = i
    BY <1>4
  <2> QED
    BY <1>3, <2>1
<1>7. \A f \in ToSet(LegOffers) : f \in ToSet(all) /\ MatchesCriteria(f, Leg)
  BY <1>3, <1>5 DEF ToSet
<1>8. \A f \in ToSet(all) : MatchesCriteria(f, Leg) => f \in ToSet(LegOffers)
  BY <1>3, <1>6 DEF ToSet
<1> QED
  BY <1>1, <1>2, <1>7, <1>8 DEF all

\* A flight that takes off as a journey does is of the leg if the journey is.
LEMMA OfTheLeg ==
  ASSUME NEW f, NEW j, Departs(f, j)
  PROVE  MatchesCriteria(f, Leg) <=>
           j.from = Leg.from /\ j.to = Leg.to /\ j.departs \div Day = Leg.date
BY DEF Departs, MatchesCriteria, LocalDate, ClockAt

\* An entry shows and takes off as what it stands for does.
LEMMA EntryShows ==
  ASSUME NEW f, IsFlight(f), NEW j
  PROVE  LET o == [f EXCEPT !.comparison = <<>>, !.score = 0]
         IN  /\ o.provider = f.provider /\ o.number = f.number
             /\ Departs(o, j) <=> Departs(f, j)
             /\ Shows(o, j) <=> Shows(f, j)
<1> DEFINE o == [f EXCEPT !.comparison = <<>>, !.score = 0]
<1>1. /\ o.number = f.number /\ o.from = f.from /\ o.to = f.to
      /\ o.dep = f.dep /\ o.arr = f.arr /\ o.stops = f.stops /\ o.via = f.via
      /\ o.provider = f.provider /\ o.price = f.price
  BY DEF IsFlight
<1> HIDE DEF o
<1>2. Departs(o, j) <=> Departs(f, j)
  BY <1>1 DEF Departs
<1>3. Shows(o, j) <=> Shows(f, j)
  BY <1>1, <1>2 DEF Shows, Duration
<1> QED
  BY <1>1, <1>2, <1>3 DEF o

\* Every journey sold has its entry in the merged list, at no higher price.
LEMMA SoldIsMerged ==
  ASSUME PipelineInv, stage # "replied", NEW j \in Sold
  PROVE  \E m \in DOMAIN MergeDuplicates(LegOffers) :
           LET f == MergeDuplicates(LegOffers)[m]
           IN  IsFlight(f) /\ Departs(f, j) /\ f.price <= j.price /\ j.price \in Int
<1> DEFINE merged == MergeDuplicates(LegOffers)
<1>1. j \in Journeys /\ j.clear /\ Sellable(j)
  BY DEF Sold, Sellable
<1>2. PICK f \in ToSet(Collect(results)) : Shows(f, j)
  BY <1>1, OffersRender DEF Renders
<1>3. f \in ToSet(LegOffers)
  BY <1>2, OffersRender, OfTheLeg DEF Sold, Shows
<1>4. PICK i \in DOMAIN LegOffers : LegOffers[i] = f
  BY <1>3 DEF ToSet
<1>5. Offered(LegOffers) /\ Listed(LegOffers) /\ IsFlight(f)
  BY <1>4, OffersRender, ListedPlaces DEF Offered
<1>6. PICK m \in DOMAIN merged : SameText(merged[m], f)
  BY <1>4, <1>5, MergedCovers
<1>7. IsFlight(merged[m]) /\ StandsFor(merged[m], LegOffers)
  BY <1>5, ListedMerged, ListedPlaces, MergedStandsFor DEF EntriesFor
<1> HIDE DEF merged
<1>8. merged[m].price <= f.price
  BY <1>4, <1>6, <1>7 DEF StandsFor, SamePlaces
<1>9. f.price = j.price /\ j.price \in Int /\ Departs(merged[m], j)
  BY <1>2, <1>5, <1>6 DEF Shows, Departs, SameText, IsFlight
<1> QED
  BY <1>7, <1>8, <1>9 DEF merged

\* An entry that matches stays listed until the end.
LEMMA MatchIsListed ==
  ASSUME PipelineInv, stage = "sorted", NEW m \in DOMAIN MergeDuplicates(LegOffers),
         Matches(MergeDuplicates(LegOffers)[m], filter), IsFlight(MergeDuplicates(LegOffers)[m])
  PROVE  \E i \in DOMAIN listing :
           /\ listing[i].price = MergeDuplicates(LegOffers)[m].price
           /\ \A j : Departs(listing[i], j) <=> Departs(MergeDuplicates(LegOffers)[m], j)
<1> DEFINE f == MergeDuplicates(LegOffers)[m]
<1>1. PICK i \in DOMAIN listing : \E score : listing[i] = [f EXCEPT !.score = score]
  BY DEF PipelineInv, FilterKept
<1>2. PICK score : listing[i] = [f EXCEPT !.score = score]
  BY <1>1
<1> HIDE DEF f
<1>3. /\ listing[i].number = f.number /\ listing[i].from = f.from /\ listing[i].to = f.to
      /\ listing[i].dep = f.dep /\ listing[i].price = f.price
  BY <1>2 DEF IsFlight, f
<1> QED
  BY <1>3 DEF Departs, f

\* Within the ceiling nothing sold is missing.
LEMMA InvCeiling == PipelineInv => PriceCeilingComplete
<1> SUFFICES ASSUME PipelineInv, stage = "sorted", DOMAIN filter \subseteq {"max_price"},
                    NEW j \in Sold, AtMost(filter, "max_price", j.price)
             PROVE  \E i \in DOMAIN listing :
                      Departs(listing[i], j) /\ listing[i].price <= j.price
  BY DEF PriceCeilingComplete
<1> DEFINE merged == MergeDuplicates(LegOffers)
<1>1. PICK m \in DOMAIN merged :
        IsFlight(merged[m]) /\ Departs(merged[m], j) /\ merged[m].price <= j.price /\ j.price \in Int
  BY SoldIsMerged
<1> HIDE DEF merged
<1>2. "max_price" \in DOMAIN filter => filter.max_price \in Int
  BY FiltersAssumption DEF PipelineInv
<1>3. merged[m].price \in Int
  BY <1>1 DEF IsFlight
<1>4. Matches(merged[m], filter)
  BY <1>1, <1>2, <1>3 DEF Matches, AtLeast, AtMost, NotBefore, NotAfter
<1>5. PICK i \in DOMAIN listing : /\ listing[i].price = merged[m].price
                                  /\ \A k : Departs(listing[i], k) <=> Departs(merged[m], k)
  BY <1>1, <1>4, MatchIsListed DEF merged
<1> QED
  BY <1>1, <1>5

\* What is listed is sold.
LEMMA InvFlown == PipelineInv => ListedAsFlown
<1> SUFFICES ASSUME PipelineInv, stage = "sorted", NEW i \in DOMAIN listing
             PROVE  \E j \in Journeys :
                      /\ j.provider = listing[i].provider /\ j.number = listing[i].number
                      /\ j.clear => j \in Sold /\ Shows(listing[i], j)
  BY DEF ListedAsFlown
<1>1. IsFlight(listing[i]) /\ StandsFor(listing[i], LegOffers)
  BY ListedPlaces DEF PipelineInv, EntriesFor
<1>2. PICK o \in ToSet(LegOffers) : o = [listing[i] EXCEPT !.comparison = <<>>, !.score = 0]
  BY <1>1 DEF StandsFor, SamePlaces, ToSet
<1>3. o \in ToSet(Collect(results)) /\ MatchesCriteria(o, Leg)
  BY OffersRender
<1>4. PICK j \in Journeys : /\ j.provider = o.provider /\ j.number = o.number
                            /\ j.clear => Sellable(j) /\ Shows(o, j)
  BY <1>3, OffersRender DEF Renders
<1>5. /\ o.provider = listing[i].provider /\ o.number = listing[i].number
      /\ Shows(o, j) <=> Shows(listing[i], j)
  BY <1>1, <1>2, EntryShows
<1>6. j.clear => j \in Sold
  BY <1>3, <1>4, OfTheLeg DEF Sold, Sellable, Shows
<1> QED
  BY <1>4, <1>5, <1>6

\* Where only bounds on the clock are set, they alone decide.
LEMMA ClocksDecide ==
  ASSUME PipelineInv, stage = "sorted", DOMAIN filter \subseteq ClockBounds,
         \A bound \in DOMAIN filter : IsHHMM(filter[bound]),
         NEW f, IsFlight(f)
  PROVE  LET dep == ClockAt(f.dep) % Day
             arr == ClockAt(f.arr) % Day
         IN  Matches(f, filter) <=>
               /\ "depart_after" \in DOMAIN filter => MinutesOf(filter.depart_after) <= dep
               /\ "depart_before" \in DOMAIN filter => dep <= MinutesOf(filter.depart_before)
               /\ "arrive_after" \in DOMAIN filter => MinutesOf(filter.arrive_after) <= arr
               /\ "arrive_before" \in DOMAIN filter => arr <= MinutesOf(filter.arrive_before)
<1> DEFINE dep == ClockAt(f.dep) % Day
           arr == ClockAt(f.arr) % Day
<1>1. dep \in 0..(Day - 1) /\ arr \in 0..(Day - 1)
  <2>1. ClockAt(f.dep) \in Int /\ ClockAt(f.arr) \in Int
    BY DEF IsFlight, ClockAt
  <2>2. \A n \in Int : n % 1440 \in 0..(1440 - 1)
    OBVIOUS
  <2>3. \A n \in Int : n % Day \in 0..(Day - 1)
    BY <2>2 DEF Day
  <2> QED
    BY <2>1, <2>3, Zenon
<1>2. TimeOfDay(f.dep) = HHMM(dep) /\ TimeOfDay(f.arr) = HHMM(arr)
  BY DEF TimeOfDay, ClockAt
<1>3. Matches(f, filter) <=>
        /\ NotBefore(filter, "depart_after", f.dep) /\ NotAfter(filter, "depart_before", f.dep)
        /\ NotBefore(filter, "arrive_after", f.arr) /\ NotAfter(filter, "arrive_before", f.arr)
  BY DEF Matches, AtLeast, AtMost, ClockBounds
<1> HIDE DEF dep, arr
<1>4. ASSUME NEW bound \in DOMAIN filter, NEW t \in 0..(Day - 1)
      PROVE  /\ ~TextLess(HHMM(t), filter[bound]) <=> MinutesOf(filter[bound]) <= t
             /\ ~TextLess(filter[bound], HHMM(t)) <=> t <= MinutesOf(filter[bound])
  <2>1. filter[bound] \in Seq(Nat) /\ IsHHMM(filter[bound])
    BY FiltersAssumption DEF PipelineInv
  <2>2. HHMM(t) \in Seq(Nat) /\ IsHHMM(HHMM(t)) /\ MinutesOf(HHMM(t)) = t
    BY Digits
  <2>3. MinutesOf(filter[bound]) \in Int
    BY <2>1, MinutesAreANumber
  <2>4. /\ TextLess(HHMM(t), filter[bound]) <=> t < MinutesOf(filter[bound])
        /\ TextLess(filter[bound], HHMM(t)) <=> MinutesOf(filter[bound]) < t
    BY <2>1, <2>2, ClockOrder
  <2> QED
    BY <2>3, <2>4
<1>5. \A t \in 0..(Day - 1) :
        /\ "depart_after" \in DOMAIN filter =>
             (~TextLess(HHMM(t), filter["depart_after"]) <=> MinutesOf(filter.depart_after) <= t)
        /\ "depart_before" \in DOMAIN filter =>
             (~TextLess(filter["depart_before"], HHMM(t)) <=> t <= MinutesOf(filter.depart_before))
        /\ "arrive_after" \in DOMAIN filter =>
             (~TextLess(HHMM(t), filter["arrive_after"]) <=> MinutesOf(filter.arrive_after) <= t)
        /\ "arrive_before" \in DOMAIN filter =>
             (~TextLess(filter["arrive_before"], HHMM(t)) <=> t <= MinutesOf(filter.arrive_before))
  BY <1>4
<1>6. Matches(f, filter) <=>
        /\ "depart_after" \in DOMAIN filter => MinutesOf(filter.depart_after) <= dep
        /\ "depart_before" \in DOMAIN filter => dep <= MinutesOf(filter.depart_before)
        /\ "arrive_after" \in DOMAIN filter => MinutesOf(filter.arrive_after) <= arr
        /\ "arrive_before" \in DOMAIN filter => arr <= MinutesOf(filter.arrive_before)
  BY <1>1, <1>2, <1>3, <1>5 DEF NotBefore, NotAfter
<1> QED
  BY <1>6 DEF dep, arr

\* What is listed is within them, and what takes off within them is listed.
LEMMA InvClocks == PipelineInv => ClockBoundsHonoured
<1> SUFFICES ASSUME PipelineInv, stage = "sorted", DOMAIN filter \subseteq ClockBounds,
                    \A bound \in DOMAIN filter : IsHHMM(filter[bound])
             PROVE  /\ \A i \in DOMAIN listing : \A j \in Sold :
                         Shows(listing[i], j) => Within(j)
                    /\ DOMAIN filter \subseteq {"depart_after", "depart_before"} =>
                         \A j \in Sold : Within(j) =>
                           \E i \in DOMAIN listing : Departs(listing[i], j)
  BY DEF ClockBoundsHonoured
<1>1. ASSUME NEW i \in DOMAIN listing, NEW j \in Sold, Shows(listing[i], j)
      PROVE  Within(j)
  <2>1. IsFlight(listing[i]) /\ Matches(listing[i], filter)
    BY ListedPlaces DEF PipelineInv, FilterKept
  <2>2. ClockAt(listing[i].dep) = j.departs /\ ClockAt(listing[i].arr) = j.arrives
    BY <1>1 DEF Shows, Departs
  <2> QED
    BY <2>1, <2>2, ClocksDecide DEF Within
<1>2. ASSUME DOMAIN filter \subseteq {"depart_after", "depart_before"}, NEW j \in Sold, Within(j)
      PROVE  \E i \in DOMAIN listing : Departs(listing[i], j)
  <2> DEFINE merged == MergeDuplicates(LegOffers)
  <2>1. PICK m \in DOMAIN merged : IsFlight(merged[m]) /\ Departs(merged[m], j)
    BY SoldIsMerged
  <2> HIDE DEF merged
  <2>2. ClockAt(merged[m].dep) = j.departs
    BY <2>1 DEF Departs
  <2>3. "arrive_after" \notin DOMAIN filter /\ "arrive_before" \notin DOMAIN filter
    BY <1>2
  <2>4. Matches(merged[m], filter)
    BY <1>2, <2>1, <2>2, <2>3, ClocksDecide DEF Within
  <2>5. PICK i \in DOMAIN listing : \A k : Departs(listing[i], k) <=> Departs(merged[m], k)
    BY <2>1, <2>4, MatchIsListed DEF merged
  <2> QED
    BY <2>1, <2>5
<1> QED
  BY <1>1, <1>2

\* Each entry is an offer of some provider; where all quotes of a flight write
\* its departure alike it is the only entry of the flight, has a comparison if
\* they are of several providers, and a comparison holds all of them, cheapest
\* first: mergeDuplicates makes it so, and what comes after only drops, scores
\* and moves entries.
THEOREM Merging == Spec => []EachFlightOnceWithItsQuotes
BY Invariant, InvQuotes, PTL

\* sorting.Sort loses and repeats no flight, puts none before one that goes
\* before it, and leaves equals in the order the merge gave them.
THEOREM Sorting == Spec => []SortedStably
BY Invariant, InvSorts, PTL

\* ranking.Compute never scores a flight below one that is no cheaper, no
\* faster and has no fewer stops, and sorting keeps it so.
THEOREM Dominance == Spec => []DominanceRespected
BY Invariant, InvDominates, PTL

\* ranking.Compute's scores run from 0 to 100: a direct flight that nothing
\* beats has 100, and a flight that everything beats in everything has 0.
THEOREM Scale ==
  ASSUME NaturalStops
  PROVE  Spec => []ScoreScale
<1>1. PipelineInv => ScoreScale
  BY InvScales
<1> QED
  BY <1>1, Invariant, PTL

\* Under a price ceiling every journey that any airline sold within it is listed,
\* at a price no airline undercuts: neither an offer that cannot be read, nor a
\* provider that failed, nor a dearer quote of the same flight hides it.
THEOREM Ceiling == Spec => []PriceCeilingComplete
BY Invariant, InvCeiling, PTL

\* What is listed is a journey its airline sells, and unless the airline
\* contradicts itself, shown with the airports, clocks, duration, stops and price
\* it has there.
THEOREM Flown == Spec => []ListedAsFlown
BY Invariant, InvFlown, PTL

\* Bounds written HH:MM are compared as texts and mean times of day: nothing is
\* listed outside them, and nothing that takes off within them is missing.
THEOREM Clock == Spec => []ClockBoundsHonoured
BY Invariant, InvClocks, PTL
================================================================================
