------------------------------- MODULE MCFetch -------------------------------
(***************************************************************************)
(* Two calls of one provider, whose limiter holds one token and earns one  *)
(* in two ticks.  The configurations: three attempts whose delay is capped *)
(* after the first and overflows its three bits after the second; none     *)
(* asked for, which means the default three; and a negative number, which  *)
(* means one.                                                              *)
(***************************************************************************)
EXTENDS Fetch

CONSTANTS c1, c2

MCCalls == {c1, c2}
MCImpatient == {c1}
MCDefault == [max |-> 3, base |-> 1, cap |-> 0]
MCConfigs ==
  {[max |-> 3, base |-> 2, cap |-> 1], [max |-> 0, base |-> 0, cap |-> 0],
   [max |-> -1, base |-> 1, cap |-> 1]}
===============================================================================
