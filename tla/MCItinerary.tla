------------------------------ MODULE MCItinerary ------------------------------
(* Two requests, each one of the queries below.  Legs AB are shared between    *)
(* a one-way refresh, a round trip and a trip that flies AB twice, and may be  *)
(* empty; BA may be priced in another currency.                                *)
EXTENDS Itinerary

CONSTANTS c1, c2

Flight(number, from, to, date, hour, stops, price, currency) ==
  [number |-> number, provider |-> "p", airline |-> [name |-> "P", code |-> number],
   from |-> from, to |-> to,
   dep |-> [instant |-> date * Day + hour * 60, offset |-> 0],
   arr |-> [instant |-> date * Day + hour * 60 + 100 + 50 * stops, offset |-> 0],
   stops |-> stops, via |-> <<>>, price |-> price, currency |-> currency,
   comparison |-> <<>>, score |-> 0]

AB == [from |-> "A", to |-> "B", date |-> 1]
BA == [from |-> "B", to |-> "A", date |-> 2]

Abroad == Flight("f1", "A", "B", 1, 7, 1, 2, "IDR")
Direct == Flight("f2", "A", "B", 1, 9, 0, 5, "IDR")

MCFound ==
  AB :> {[flights |-> <<Direct, Abroad>>, errors |-> <<"q">>],
         [flights |-> <<>>, errors |-> <<"p", "q">>]}
  @@ BA :> {[flights |-> <<Flight("g1", "B", "A", 2, 8, 0, 3, "IDR")>>, errors |-> <<>>],
            [flights |-> <<Flight("g2", "B", "A", 2, 8, 0, 1, "USD")>>, errors |-> <<>>]}

Ask(origin, destination, date, return_date) ==
  [method |-> "GET", origin |-> origin, destination |-> destination, date |-> date,
   return_date |-> return_date, passengers |-> <<1>>, given |-> [x \in {} |-> 0],
   sort |-> "best_value", refresh |-> "", no_cache |-> ""]

OneWay == [Ask(<<"A">>, <<"B">>, <<1>>, 0) EXCEPT
             !.no_cache = "1", !.given = [max_price |-> <<4>>, airlines |-> {"P"}],
             !.sort = "price_asc"]
RoundTrip == [Ask(<<"A">>, <<"B">>, <<1>>, 2) EXCEPT
                !.sort = "duration_asc", !.refresh = "yes"]
Twice == [Ask(<<"A", "A">>, <<"B", "B">>, <<1, 1>>, 0) EXCEPT !.sort = "price_desc"]
ThereAndBack == Ask(<<"A", "B">>, <<"B", "A">>, <<1, 2>>, 0)
Rejected == {
  [OneWay EXCEPT !.method = "POST"],
  [OneWay EXCEPT !.origin = <<>>],
  [OneWay EXCEPT !.passengers = <<0>>],
  [OneWay EXCEPT !.given = [max_price |-> <<>>]],
  [RoundTrip EXCEPT !.return_date = Malformed],
  Ask(<<"B">>, <<"A">>, <<2>>, 1),
  [ThereAndBack EXCEPT !.return_date = 3],
  [ThereAndBack EXCEPT !.date = <<1>>],
  [ThereAndBack EXCEPT !.date = <<1, 0>>],
  Ask(<<"A", "B", "A">>, <<"B", "A", "B">>, <<1, 2, 1>>, 0),
  Ask(<<"A", "A", "A", "A">>, <<"B", "B", "B", "B">>, <<1, 1, 1, 1>>, 0)}

CallSymmetry == Permutations(Calls)
MCProviders == {"p", "q"}

MCQueries == {OneWay, RoundTrip, Twice, ThereAndBack} \cup Rejected
==============================================================================
