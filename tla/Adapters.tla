------------------------------- MODULE Adapters -------------------------------
(***************************************************************************)
(* The adapters of the four airlines (internal/providers): what each makes *)
(* of the JSON it was sent.  An offer that cannot be read or is not valid  *)
(* is skipped; a reply that reports an error fails its provider.           *)
(*                                                                         *)
(* Offers keep the names of their JSON fields.  A time is a sequence: of   *)
(* nothing when no layout fits the text, else of the one clock it shows    *)
(* (minutes) and, for three of the airlines, the offset printed with it.   *)
(* A flight number is <<letters, rest>>.                                   *)
(***************************************************************************)
EXTENDS Listings

CONSTANT Zones  \* what LoadLocation knows: zone name -> minutes ahead of UTC

\* time.LoadLocation("") is UTC.
ASSUME ZonesAssumption ==
  Zones \in [DOMAIN Zones -> Int] /\ "" \in DOMAIN Zones /\ Zones[""] = 0

Moment(clock, offset) == [instant |-> clock - offset, offset |-> offset]

\* With or without a colon in the offset.
ParseWithOffset(text) == [i \in DOMAIN text |-> Moment(text[i].clock, text[i].offset)]

ParseWithZoneName(text, zone) ==
  IF zone \in DOMAIN Zones THEN [i \in DOMAIN text |-> Moment(text[i].clock, Zones[zone])]
  ELSE <<>>
-----------------------------------------------------------------------------
\* buildFlight.

NoNumber == <<"", "">>

\* RequireNonEmpty, ValidateSchedule and ValidatePrice.
Valid(f) == f.number # NoNumber /\ f.arr.instant > f.dep.instant /\ f.price > 0

\* The flight, or nothing when it is not valid.
BuildFlight(dep, arr, f) ==
  LET flight ==
        [number |-> f.number, provider |-> f.provider, airline |-> f.airline,
         from |-> f.from, to |-> f.to, dep |-> dep, arr |-> arr,
         stops |-> f.stops, via |-> f.via, price |-> f.price, currency |-> f.currency,
         comparison |-> <<>>, score |-> 0]
  IN  IF Valid(flight) THEN <<flight>> ELSE <<>>

\* How each adapter's loop ends: both times must have been read.
Built(dep, arr, f) ==
  IF dep = <<>> \/ arr = <<>> THEN <<>> ELSE BuildFlight(dep[1], arr[1], f)

ExtractAirlineCode(number) == number[1]

\* What a provider leaves in its slot of results[]: its flights, or an error.
Slot(ok, Flight(_), offers) ==
  [ok |-> ok,
   flights |-> IF ok THEN FlattenSeq([i \in DOMAIN offers |-> Flight(offers[i])]) ELSE <<>>]
-----------------------------------------------------------------------------
\* AirAsia: a flight that is not direct but names no stop has one.
AirAsiaFlight(o) ==
  Built(ParseWithOffset(o.depart_time), ParseWithOffset(o.arrive_time),
    [number   |-> o.flight_code,
     provider |-> "AirAsia",
     airline  |-> [name |-> o.airline, code |-> ExtractAirlineCode(o.flight_code)],
     from     |-> o.from_airport,
     to       |-> o.to_airport,
     stops    |-> IF o.direct_flight THEN 0 ELSE IF o.stops = <<>> THEN 1 ELSE Len(o.stops),
     via      |-> IF o.direct_flight THEN <<>> ELSE o.stops,
     price    |-> o.price_idr,
     currency |-> "IDR"])

\* The status it reports is not looked at.
AirAsiaSearch(reply) == Slot(reply.fetched, AirAsiaFlight, reply.offers)
-----------------------------------------------------------------------------
\* Batik Air: the number of stops and the connections are taken as they come.
BatikAirFlight(o) ==
  Built(ParseWithOffset(o.departureDateTime), ParseWithOffset(o.arrivalDateTime),
    [number   |-> o.flightNumber,
     provider |-> "Batik Air",
     airline  |-> [name |-> o.airlineName, code |-> o.airlineIATA],
     from     |-> o.origin,
     to       |-> o.destination,
     stops    |-> o.numberOfStops,
     via      |-> o.connections,
     price    |-> o.totalPrice,
     currency |-> o.currencyCode])

BatikAirSearch(reply) ==
  Slot(reply.fetched /\ reply.code \in {0, 200}, BatikAirFlight, reply.offers)
-----------------------------------------------------------------------------
\* Wrong on purpose: the top level is believed although a chain is given.
GarudaTopLevel(o) ==
  Built(ParseWithOffset(o.departure.time), ParseWithOffset(o.arrival.time),
    [number |-> o.flight_id, provider |-> "Garuda Indonesia",
     airline |-> [name |-> o.airline, code |-> o.airline_code],
     from |-> o.departure.airport, to |-> o.arrival.airport,
     stops |-> o.stops, via |-> <<>>, price |-> o.amount, currency |-> o.currency])

\* Garuda: where a chain of several segments ends, and its stops, win over the
\* top level.  The departure is the top level's.
GarudaFlight(o) ==
  LET chained == Len(o.segments) > 1
      arrival == IF chained THEN Last(o.segments).arrival ELSE o.arrival
      inner == Len(o.segments) - 1
  IN  Built(ParseWithOffset(o.departure.time), ParseWithOffset(arrival.time),
        [number   |-> o.flight_id,
         provider |-> "Garuda Indonesia",
         airline  |-> [name |-> o.airline, code |-> o.airline_code],
         from     |-> o.departure.airport,
         to       |-> arrival.airport,
         stops    |-> IF chained THEN inner ELSE o.stops,
         via      |-> IF chained THEN [i \in 1..inner |-> o.segments[i].arrival.airport]
                      ELSE <<>>,
         price    |-> o.amount,
         currency |-> o.currency])

GarudaSearch(reply) == Slot(reply.fetched, GarudaFlight, reply.offers)
-----------------------------------------------------------------------------
\* Wrong on purpose: the zone of the departure is taken for both ends.
LionAirOneZone(o) ==
  Built(ParseWithZoneName(o.departure, o.departure_timezone),
        ParseWithZoneName(o.arrival, o.departure_timezone),
    [number |-> o.id, provider |-> "Lion Air", airline |-> [name |-> o.name, code |-> o.iata],
     from |-> o.from, to |-> o.to,
     stops |-> IF o.is_direct THEN 0
               ELSE IF o.stop_count = 0 THEN Len(o.layovers) ELSE o.stop_count,
     via |-> IF o.is_direct THEN <<>> ELSE o.layovers,
     price |-> o.total, currency |-> o.currency])

\* Lion Air: local clocks with the name of a zone for each end.
LionAirFlight(o) ==
  Built(ParseWithZoneName(o.departure, o.departure_timezone),
        ParseWithZoneName(o.arrival, o.arrival_timezone),
    [number   |-> o.id,
     provider |-> "Lion Air",
     airline  |-> [name |-> o.name, code |-> o.iata],
     from     |-> o.from,
     to       |-> o.to,
     stops    |-> IF o.is_direct THEN 0
                  ELSE IF o.stop_count = 0 THEN Len(o.layovers) ELSE o.stop_count,
     via      |-> IF o.is_direct THEN <<>> ELSE o.layovers,
     price    |-> o.total,
     currency |-> o.currency])

LionAirSearch(reply) == Slot(reply.fetched /\ reply.success, LionAirFlight, reply.offers)
-----------------------------------------------------------------------------
\* The slots of results[], in the order the providers are wired.
ProviderResults(replies) ==
  <<AirAsiaSearch(replies.airasia), BatikAirSearch(replies.batik),
    GarudaSearch(replies.garuda), LionAirSearch(replies.lion)>>
==============================================================================
