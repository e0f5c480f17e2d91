----------------------------- MODULE ReadThrough -----------------------------
(***************************************************************************)
(* What the search service promises its callers, with no providers, no     *)
(* goroutines and no janitor: a store that forgets an answer by itself     *)
(* once it is older than TTL.  A caller that does not ask for a refresh    *)
(* gets the stored answer whenever there is one; any other caller gets a   *)
(* new answer, which is stored in the same step that returns it.           *)
(***************************************************************************)
EXTENDS Integers, Functions

CONSTANTS Requests, Keys, TTL,
  NoAnswer   \* what answer holds before there is one

VARIABLES
  now,      \* the time
  store,    \* key -> [answer, expiresAt], nothing of it expired
  params,   \* request -> [key, bypass]
  pc,       \* request -> "idle", "searching" or "done"
  answer    \* request -> the answer returned

vars == <<now, store, params, pc, answer>>

Fresh(s, t) == Restrict(s, {k \in DOMAIN s : t <= s[k].expiresAt})

Init ==
  /\ now = 0
  /\ store = << >>
  /\ params \in [Requests -> [key : Keys, bypass : BOOLEAN]]
  /\ pc = [r \in Requests |-> "idle"]
  /\ answer = [r \in Requests |-> NoAnswer]

\* A stored answer is returned at once.
AskHit(r) ==
  LET k == params[r].key
  IN  /\ pc[r] = "idle"
      /\ ~params[r].bypass
      /\ k \in DOMAIN store
      /\ pc' = [pc EXCEPT ![r] = "done"]
      /\ answer' = [answer EXCEPT ![r] = store[k].answer]
      /\ UNCHANGED <<now, store, params>>

\* Only a refresh, or a key with nothing stored, starts a search.
AskMiss(r) ==
  /\ pc[r] = "idle"
  /\ params[r].bypass \/ params[r].key \notin DOMAIN store
  /\ pc' = [pc EXCEPT ![r] = "searching"]
  /\ UNCHANGED <<now, store, params, answer>>

\* The search answers v and the store has v from then on.
Publish(r, v) ==
  /\ pc[r] = "searching"
  /\ pc' = [pc EXCEPT ![r] = "done"]
  /\ answer' = [answer EXCEPT ![r] = v]
  /\ store' = [k \in DOMAIN store \cup {params[r].key} |->
                 IF k = params[r].key THEN [answer |-> v, expiresAt |-> now + TTL]
                                      ELSE store[k]]
  /\ UNCHANGED <<now, params>>

\* Time passes and what has become too old is forgotten.
Tick ==
  /\ now' = now + 1
  /\ store' = Fresh(store, now')
  /\ UNCHANGED <<params, pc, answer>>

Next ==
  \/ \E r \in Requests : AskHit(r) \/ AskMiss(r) \/ Publish(r, answer'[r])
  \/ Tick

Spec == Init /\ [][Next]_vars
==============================================================================
