----------------------------- MODULE ProviderCall -----------------------------
(***************************************************************************)
(* What the goroutines of Aggregator.Search rely on when they call         *)
(* Provider.Search (aggregator.go:44-50): one result per call, an error of *)
(* the context only when that context is done, nothing before the call and *)
(* nothing after its result, and no time spent beyond the deadline that    *)
(* was set when it began.  No attempts, no limiter, no backoff.            *)
(***************************************************************************)
EXTENDS Integers

CONSTANTS Calls, Timeout

VARIABLES
  now,        \* the time
  slot,       \* call -> "idle", "pending", or what it returned
  deadline,   \* call -> when its context's timeout runs out
  cancelled   \* call -> whether its caller's context is cancelled

vars == <<now, slot, deadline, cancelled>>

Init ==
  /\ now = 0
  /\ slot = [c \in Calls |-> "idle"]
  /\ deadline = [c \in Calls |-> 0]
  /\ cancelled = [c \in Calls |-> FALSE]

\* The call gets its deadline once, for all it may do.
Start(c) ==
  /\ slot[c] = "idle"
  /\ slot' = [slot EXCEPT ![c] = "pending"]
  /\ deadline' = [deadline EXCEPT ![c] = now + Timeout]
  /\ UNCHANGED <<now, cancelled>>

Resolves(c, result) ==
  /\ slot[c] = "pending"
  /\ slot' = [slot EXCEPT ![c] = result]
  /\ UNCHANGED <<now, deadline, cancelled>>

Answers(c) == Resolves(c, "ok")

Fails(c) == Resolves(c, "fault")

TimesOut(c) == now >= deadline[c] /\ Resolves(c, "deadline")

IsCancelled(c) == cancelled[c] /\ Resolves(c, "canceled")

Disconnect(c) ==
  /\ slot[c] = "pending"
  /\ ~cancelled[c]
  /\ cancelled' = [cancelled EXCEPT ![c] = TRUE]
  /\ UNCHANGED <<now, slot, deadline>>

TimePasses ==
  /\ \A c \in Calls : slot[c] = "pending" => now < deadline[c]
  /\ now' = now + 1
  /\ UNCHANGED <<slot, deadline, cancelled>>

Next ==
  \/ \E c \in Calls :
       \/ Start(c) \/ Answers(c) \/ Fails(c) \/ TimesOut(c) \/ IsCancelled(c)
       \/ Disconnect(c)
  \/ TimePasses

Spec == Init /\ [][Next]_vars
===============================================================================
