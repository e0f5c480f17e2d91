----------------------------- MODULE MCAggregator -----------------------------
(***************************************************************************)
(* From Jakarta to Denpasar on two days.  f1 and f2 fly on the first, f3   *)
(* on the second; f2 is offered by both providers and p1 returns           *)
(* everything it has whatever is asked, as the fixtures do.  Two settings: *)
(* two overlapping searches of two providers each (Pair), and three of one *)
(* provider each (Trio), for what takes a slow search, a refresh and a     *)
(* later reader.  Two callers of Pair put a separator into a field, and    *)
(* their keys are the same although their routes are not.                  *)
(***************************************************************************)
EXTENDS Aggregator, TLC

CONSTANTS r1, r2, r3, p1, p2, f1, f2, f3

PairRequests == {r1, r2}
TrioRequests == {r1, r2, r3}
PairProviders == {p1, p2}
TrioProviders == {p1}
MCFlights == {f1, f2, f3}
MCSymbols == {"|", "CGK", "DPS", "2025-12-15", "2025-12-16", "economy", "1"}
DayOne == "2025-12-15"
DayTwo == "2025-12-16"
MCFlightRoute ==
  f1 :> <<<<"CGK">>, <<"DPS">>, DayOne>> @@ f2 :> <<<<"CGK">>, <<"DPS">>, DayOne>>
    @@ f3 :> <<<<"CGK">>, <<"DPS">>, DayTwo>>
PairOffered == p1 :> {{f1, f2, f3}} @@ p2 :> {{f2}}
TrioOffered == p1 :> {{f1, f3}}

Ask(destination, date, class, bypass) ==
  [origin |-> <<"CGK">>, destination |-> destination, date |-> date, class |-> class,
   passengers |-> "1", bypass |-> bypass]
AskOn(date, bypass) == Ask(<<"DPS">>, date, <<"economy">>, bypass)
Joined == {Ask(<<"DPS">>, DayOne, <<DayTwo, "|", "economy">>, FALSE),
           Ask(<<"DPS", "|", DayOne>>, DayTwo, <<"economy">>, FALSE)}
PairAsked == {AskOn(DayOne, FALSE), AskOn(DayOne, TRUE), AskOn(DayTwo, FALSE)} \cup Joined
TrioAsked == {AskOn(DayOne, FALSE), AskOn(DayOne, TRUE)}
PairKeys == {CacheKey(p) : p \in PairAsked}
TrioKeys == {CacheKey(p) : p \in TrioAsked}
PairImpatient == {r1}
NoneImpatient == {}

\* Requests differ in nothing but their name.
RequestSymmetry == Permutations(TrioRequests)
===============================================================================
