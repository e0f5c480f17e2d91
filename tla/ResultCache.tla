----------------------------- MODULE ResultCache -----------------------------
(***************************************************************************)
(* The in-process result cache (internal/cache/cache.go) and its janitor.  *)
(* The map is a function whose domain is the set of keys present, as in    *)
(* Go.  Get and Set read the clock while they hold the lock, so each is    *)
(* one step; Purge reads it before it asks for the lock, so it is two.     *)
(* This module has operations and no Next: Aggregator composes them.       *)
(***************************************************************************)
EXTENDS Integers, Functions

CONSTANTS
  Keys,   \* the values cache.Key can return
  TTL     \* CACHE_TTL_SECONDS, in ticks

ASSUME TTLAssumption == TTL \in Nat

VARIABLES
  clock,     \* time.Now()
  items,     \* Cache.items: key -> [answer, expiresAt]
  sweepNow   \* the instant a purge under way has read, or Idle

cacheVars == <<clock, items, sweepNow>>

Idle == -1

\* time.Now().After(e.expiresAt): the last instant itself is not after it.
Expired(e, t) == t > e.expiresAt

\* Wrong on purpose: Get leaves expiry to the janitor.
LiveUntilPurged(k) == k \in DOMAIN items

\* What Get finds: the entry is there and has not expired.
Live(k) == k \in DOMAIN items /\ ~Expired(items[k], clock)

\* The part of the map that a Get can still return.
LiveItems == Restrict(items, {k \in DOMAIN items : Live(k)})

CacheInit ==
  /\ clock = 0
  /\ items = << >>
  /\ sweepNow = Idle

\* Set always stores, whatever the entry it replaces.
Set(k, answer) ==
  /\ items' = [j \in DOMAIN items \cup {k} |->
                 IF j = k THEN [answer |-> answer, expiresAt |-> clock + TTL]
                          ELSE items[j]]
  /\ UNCHANGED <<clock, sweepNow>>

\* The first line of Purge: the clock is read, the lock not yet taken.
PurgeStarts ==
  /\ sweepNow = Idle
  /\ sweepNow' = clock
  /\ UNCHANGED <<clock, items>>

\* Wrong on purpose: an entry is removed at its last instant already.
PurgeAtLastInstant ==
  /\ sweepNow # Idle
  /\ items' = Restrict(items, {k \in DOMAIN items : sweepNow < items[k].expiresAt})
  /\ sweepNow' = Idle
  /\ UNCHANGED clock

\* Wrong on purpose: the TTL, in expiresAt already, is allowed for once more.
PurgeOneTTLLate ==
  /\ sweepNow # Idle
  /\ items' = Restrict(items, {k \in DOMAIN items : ~Expired(items[k], sweepNow - TTL)})
  /\ sweepNow' = Idle
  /\ UNCHANGED clock

\* The rest of Purge, under the lock, with the instant read before it.
PurgeSweeps ==
  /\ sweepNow # Idle
  /\ items' = Restrict(items, {k \in DOMAIN items : ~Expired(items[k], sweepNow)})
  /\ sweepNow' = Idle
  /\ UNCHANGED clock
==============================================================================
