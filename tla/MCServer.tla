------------------------------- MODULE MCServer -------------------------------
(* Two requests for one route, of which one client may leave, and one provider. *)
EXTENDS Server, TLC

CONSTANTS r1, r2, p1, f1

MCRequests == {r1, r2}
MCImpatient == {r1}
MCProviders == {p1}
MCFlights == {f1}
MCSymbols == {"|", "CGK", "DPS", "2025-12-15", "economy", "1"}
MCAsked ==
  {[origin |-> <<"CGK">>, destination |-> <<"DPS">>, date |-> "2025-12-15",
    class |-> <<"economy">>, passengers |-> "1", bypass |-> FALSE]}
MCKeys == {CacheKey(p) : p \in MCAsked}
MCFlightRoute == f1 :> <<<<"CGK">>, <<"DPS">>, "2025-12-15">>
MCOffered == p1 :> {{f1}}
===============================================================================
