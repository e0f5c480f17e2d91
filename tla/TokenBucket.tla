----------------------------- MODULE TokenBucket -----------------------------
(***************************************************************************)
(* The token bucket of internal/ratelimit/limiter.go: its fields and what  *)
(* one locked call of reserve does to them.  RateLimiter and Fetch compose *)
(* it with the goroutines that call Wait.                                  *)
(*                                                                         *)
(* The code counts tokens in a float64; here a token is Unit units and the *)
(* bucket earns Rate units in a tick (a nanosecond of the code), so that   *)
(* all amounts are exact.  A limiter with a rate of zero or less, or none, *)
(* lets everybody through and has no state to model.                       *)
(***************************************************************************)
EXTENDS Integers

CONSTANTS
  Unit,    \* units in a token
  Rate,    \* units earned in a tick
  Burst    \* PROVIDER_RATE_LIMIT_BURST

ASSUME BucketAssumption ==
  /\ Unit \in Nat \ {0}
  /\ Rate \in Nat \ {0}
  /\ Burst \in Int

\* A token is earned in a whole number of ticks, so Delay is not truncated.
ExactRate == \E n \in 1..Unit : Unit = Rate * n

VARIABLES
  clock,
  tokens,   \* Limiter.tokens, in units
  last      \* Limiter.last

bucketVars == <<tokens, last>>

\* New: a burst below one is one.
Capacity == Unit * (IF Burst < 1 THEN 1 ELSE Burst)

BucketInit ==
  /\ clock = 0
  /\ tokens = Capacity
  /\ last = 0

\* Wrong on purpose: what the bucket earns while idle is not capped.
RefilledNoCap == tokens + Rate * (clock - last)

\* The tokens there are at this moment: what was there and what was earned
\* since, up to the capacity.
Refilled ==
  LET earned == tokens + Rate * (clock - last)
  IN  IF earned > Capacity THEN Capacity ELSE earned

\* What reserve returns: nothing to wait for, or the time until the missing
\* part of a token will have been earned, truncated to a whole tick.
Delay == IF Refilled >= Unit THEN 0 ELSE (Unit - Refilled) \div Rate

\* Wrong on purpose: a caller that gets no token takes what there is of one.
ReserveTakingChange ==
  /\ tokens' = IF Refilled >= Unit THEN Refilled - Unit ELSE 0
  /\ last' = clock

\* What reserve does: it refills the bucket and takes a token if there is one.
Reserve ==
  /\ tokens' = IF Refilled >= Unit THEN Refilled - Unit ELSE Refilled
  /\ last' = clock
-----------------------------------------------------------------------------
\* The bucket is never in debt nor above capacity.
BucketTypeOK ==
  /\ clock \in Nat
  /\ tokens \in Nat /\ tokens <= Capacity
  /\ last \in Nat /\ last <= clock

\* It holds what is earned in some whole number of ticks.
WholeTicks == \E m \in 0..tokens : tokens = Rate * m
==============================================================================
