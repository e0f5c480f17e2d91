----------------------------- MODULE MCLegPipeline -----------------------------
(* From Jakarta (UTC+7) to Denpasar (UTC+8), in two settings.                  *)
(*                                                                             *)
(* Market: AirAsia and Lion Air each fail or offer up to two of seven fares.   *)
(* The fares hold a flight quoted by both and twice by one, a connection that  *)
(* is cheaper and slower, a second flight number at the same time, one across  *)
(* midnight and one of the next day.                                           *)
(*                                                                             *)
(* Quirks: all four airlines, each failing, refusing, or sending offers that   *)
(* are odd in one way next to one that is not.                                 *)
EXTENDS LegPipeline

\* Clocks are those of the day after day 0, so that instants are positive.
MCLeg == [from |-> "CGK", to |-> "DPS", date |-> 1]
MCAirportOffset == "CGK" :> 420 @@ "SUB" :> 420 @@ "DPS" :> 480
MCZones == "" :> 0 @@ "Asia/Jakarta" :> 420 @@ "Asia/Makassar" :> 480

Clock(h, m) == Day + 60 * h + m
Jakarta(clock) == <<[clock |-> clock, offset |-> 420]>>
Denpasar(clock) == <<[clock |-> clock, offset |-> 480]>>

\* An offer as each airline would write it.
AirAsia(number, dep, arr, via, price) ==
  [flight_code |-> number, airline |-> "AirAsia", from_airport |-> "CGK", to_airport |-> "DPS",
   depart_time |-> Jakarta(dep), arrive_time |-> Denpasar(arr),
   direct_flight |-> via = <<>>, stops |-> via, price_idr |-> price]

Batik(number, dep, arr, via, price) ==
  [flightNumber |-> number, airlineName |-> "Batik Air", airlineIATA |-> "ID",
   origin |-> "CGK", destination |-> "DPS",
   departureDateTime |-> Jakarta(dep), arrivalDateTime |-> Denpasar(arr),
   numberOfStops |-> Len(via), connections |-> via, totalPrice |-> price,
   currencyCode |-> "IDR"]

Garuda(number, dep, arr, price) ==
  [flight_id |-> number, airline |-> "Garuda Indonesia", airline_code |-> "GA",
   departure |-> [airport |-> "CGK", time |-> Jakarta(dep)],
   arrival |-> [airport |-> "DPS", time |-> Denpasar(arr)],
   stops |-> 0, segments |-> <<>>, amount |-> price, currency |-> "IDR"]

Lion(number, dep, arr, via, price) ==
  [id |-> number, name |-> "Lion Air", iata |-> "JT", from |-> "CGK", to |-> "DPS",
   departure |-> <<[clock |-> dep]>>, departure_timezone |-> "Asia/Jakarta",
   arrival |-> <<[clock |-> arr]>>, arrival_timezone |-> "Asia/Makassar",
   is_direct |-> via = <<>>, stop_count |-> Len(via), layovers |-> via,
   total |-> price, currency |-> "IDR"]

Sent(offers) == [fetched |-> TRUE, code |-> 200, success |-> TRUE, offers |-> offers]
Refused(offers) == [fetched |-> TRUE, code |-> 500, success |-> FALSE, offers |-> offers]
Failed == [fetched |-> FALSE, code |-> 0, success |-> FALSE, offers |-> <<>>]
-----------------------------------------------------------------------------
Fares(Offer(_, _, _, _, _)) ==
  {Offer(<<"GA", "1">>, Clock(8, 40), Clock(11, 30), <<>>, 6),
   Offer(<<"GA", "1">>, Clock(8, 40), Clock(11, 30), <<>>, 4),
   Offer(<<"GA", "1">>, Clock(8, 40), Clock(11, 35), <<"SUB">>, 4),
   Offer(<<"QZ", "2">>, Clock(8, 40), Clock(13, 40), <<"SUB">>, 3),
   Offer(<<"QZ", "2">>, Clock(23, 0), Clock(26, 0), <<"SUB", "SUB">>, 6),
   Offer(<<"JT", "3">>, Clock(23, 40), Clock(26, 30), <<"SUB">>, 5),
   Offer(<<"JT", "3">>, Clock(25, 0), Clock(27, 50), <<>>, 2)}

AnyTwo(Offer(_, _, _, _, _)) == {Failed} \cup {Sent(fs) : fs \in BoundedSeq(Fares(Offer), 2)}

Market ==
  [airasia : AnyTwo(AirAsia), batik : {Sent(<<>>)}, garuda : {Failed}, lion : AnyTwo(Lion)]
-----------------------------------------------------------------------------
GoodQZ == AirAsia(<<"QZ", "5">>, Clock(6, 0), Clock(8, 45), <<>>, 4)
GoodID == Batik(<<"ID", "5">>, Clock(7, 15), Clock(10, 0), <<"SUB">>, 3)
GoodGA == Garuda(<<"GA", "5">>, Clock(12, 30), Clock(15, 20), 6)
GoodJT == Lion(<<"JT", "5">>, Clock(9, 0), Clock(11, 45), <<>>, 2)

\* Stale at the top: the chain goes on to Denpasar.
Chained ==
  [Garuda(<<"GA", "6">>, Clock(14, 0), Clock(15, 30), 5) EXCEPT
     !.arrival = [airport |-> "SUB", time |-> Jakarta(Clock(15, 30))],
     !.segments =
       <<[departure |-> [airport |-> "CGK", time |-> Jakarta(Clock(14, 0))],
          arrival |-> [airport |-> "SUB", time |-> Jakarta(Clock(15, 30))]],
         [departure |-> [airport |-> "SUB", time |-> Jakarta(Clock(17, 15))],
          arrival |-> [airport |-> "DPS", time |-> Denpasar(Clock(18, 45))]]>>]

\* Only the stop count is stale.
Understated == [Chained EXCEPT !.flight_id = <<"GA", "8">>,
                               !.arrival = [airport |-> "DPS", time |-> Denpasar(Clock(18, 45))]]

\* A chain of one segment that does not end where the top level says.
Single ==
  [Garuda(<<"GA", "7">>, Clock(10, 0), Clock(12, 50), 4) EXCEPT
     !.segments =
       <<[departure |-> [airport |-> "CGK", time |-> Jakarta(Clock(10, 0))],
          arrival |-> [airport |-> "SUB", time |-> Jakarta(Clock(11, 30))]]>>]

QuirksOfAirAsia ==
  {Failed, Sent(<<GoodQZ>>),
   Sent(<<[GoodQZ EXCEPT !.flight_code = <<"QZ", "8">>, !.depart_time = <<>>], GoodQZ>>),
   Sent(<<[GoodQZ EXCEPT !.flight_code = NoNumber], GoodQZ,
          \* connecting, with no stop named
          [GoodQZ EXCEPT !.flight_code = <<"QZ", "6">>, !.direct_flight = FALSE]>>),
   \* Batik Air's flight, sold by AirAsia
   Sent(<<AirAsia(<<"ID", "5">>, Clock(7, 15), Clock(10, 0), <<"SUB">>, 2)>>),
   \* the same moment, written with another zone's clock
   Sent(<<[AirAsia(<<"ID", "5">>, Clock(7, 15), Clock(10, 0), <<"SUB">>, 2) EXCEPT
             !.depart_time = Denpasar(Clock(8, 15))]>>)}

QuirksOfBatik ==
  {Refused(<<GoodID>>), [Sent(<<GoodID>>) EXCEPT !.code = 0],
   \* the later clock is the earlier instant
   Sent(<<[GoodID EXCEPT !.arrivalDateTime = Denpasar(Clock(8, 0))], GoodID>>),
   Sent(<<GoodID, [GoodID EXCEPT !.flightNumber = <<"ID", "6">>, !.numberOfStops = 0]>>)}

QuirksOfGaruda ==
  {Failed, Sent(<<[GoodGA EXCEPT !.amount = 0], Chained, Understated>>),
   Sent(<<[Chained EXCEPT !.segments[2].arrival.time = <<>>], GoodGA>>),
   Sent(<<Single, [GoodGA EXCEPT !.arrival.time = Denpasar(Clock(12, 40))], GoodGA>>)}

QuirksOfLion ==
  {Refused(<<GoodJT>>), Sent(<<GoodJT>>),
   Sent(<<[GoodJT EXCEPT !.id = <<"JT", "8">>, !.arrival_timezone = "Asia/Nowhere"], GoodJT>>),
   \* no zone at all: read as UTC
   Sent(<<[GoodJT EXCEPT !.id = <<"JT", "6">>, !.departure_timezone = ""], GoodJT>>),
   Sent(<<[GoodJT EXCEPT !.id = <<"JT", "7">>, !.is_direct = FALSE, !.stop_count = 2,
                         !.layovers = <<"SUB">>],
          [GoodJT EXCEPT !.is_direct = FALSE, !.layovers = <<"SUB">>]>>)}

Quirks == [airasia : QuirksOfAirAsia, batik : QuirksOfBatik,
           garuda : QuirksOfGaruda, lion : QuirksOfLion]

MCReplies == Market \cup Quirks
-----------------------------------------------------------------------------
\* The last one lacks its leading zero.
MCFilters ==
  {NoFilter, [max_price |-> 4],
   [max_stops |-> 1, max_duration_minutes |-> 115, depart_after |-> HHMM(520)],
   [min_price |-> 4, airlines |-> {"GA", "AirAsia"}, arrive_before |-> HHMM(1439)],
   [depart_after |-> HHMM(420), depart_before |-> HHMM(1419)],
   [arrive_after |-> HHMM(600), arrive_before |-> HHMM(15 * 60 + 20)],
   [depart_after |-> <<9, Colon, 0, 0>>]}
MCOptions == SortOptions \cup {"cheapest"}
==============================================================================
