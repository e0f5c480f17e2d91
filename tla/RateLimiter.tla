----------------------------- MODULE RateLimiter -----------------------------
(***************************************************************************)
(* Goroutines that call Limiter.Wait on one limiter, again and again.      *)
(* reserve is one step, under the mutex; a caller that got no token sleeps *)
(* on a timer and tries again, in no order, and may be overtaken.  Its     *)
(* context may be done at any moment while it sleeps; reserve does not     *)
(* look at the context.                                                    *)
(***************************************************************************)
EXTENDS TokenBucket, Sequences

CONSTANTS
  Callers,
  MaxTime   \* bound: no call of Wait begins from then on

ASSUME LimiterAssumption == MaxTime \in Nat

VARIABLES
  pc,     \* caller -> "out", "reserve" (about to) or "timer"
  seen,   \* caller -> how many had been admitted when it went to sleep
  wake,   \* caller -> when its timer fires
  log     \* the times at which Wait returned nil, in order

vars == <<clock, tokens, last, pc, seen, wake, log>>

Init ==
  /\ BucketInit
  /\ pc = [c \in Callers |-> "out"]
  /\ seen = [c \in Callers |-> 0]
  /\ wake = [c \in Callers |-> 0]
  /\ log = << >>

Wait(c) ==
  /\ pc[c] = "out"
  /\ clock < MaxTime
  /\ pc' = [pc EXCEPT ![c] = "reserve"]
  /\ UNCHANGED <<clock, tokens, last, seen, wake, log>>

\* reserve returned zero or less: Wait returns nil.
Admit(c) ==
  /\ pc[c] = "reserve"
  /\ Delay <= 0
  /\ Reserve
  /\ pc' = [pc EXCEPT ![c] = "out"]
  /\ log' = Append(log, clock)
  /\ UNCHANGED <<clock, seen, wake>>

\* Wrong on purpose: the caller sleeps for a whole token, whatever is there.
SleepWholeToken(c) ==
  /\ pc[c] = "reserve"
  /\ Delay > 0
  /\ Reserve
  /\ pc' = [pc EXCEPT ![c] = "timer"]
  /\ seen' = [seen EXCEPT ![c] = Len(log)]
  /\ wake' = [wake EXCEPT ![c] = clock + Unit \div Rate]
  /\ UNCHANGED <<clock, log>>

\* reserve returned a delay: Wait starts a timer of that length.
Sleep(c) ==
  /\ pc[c] = "reserve"
  /\ Delay > 0
  /\ Reserve
  /\ pc' = [pc EXCEPT ![c] = "timer"]
  /\ seen' = [seen EXCEPT ![c] = Len(log)]
  /\ wake' = [wake EXCEPT ![c] = clock + Delay]
  /\ UNCHANGED <<clock, log>>

\* Wrong on purpose: the caller takes the fired timer for a token and does not
\* claim it.
FireAndPass(c) ==
  /\ pc[c] = "timer"
  /\ clock >= wake[c]
  /\ pc' = [pc EXCEPT ![c] = "out"]
  /\ log' = Append(log, clock)
  /\ UNCHANGED <<clock, tokens, last, seen, wake>>

\* Wrong on purpose: a timer that is late is missed.
FireOnTheDot(c) ==
  /\ pc[c] = "timer"
  /\ clock = wake[c]
  /\ pc' = [pc EXCEPT ![c] = "reserve"]
  /\ UNCHANGED <<clock, tokens, last, seen, wake, log>>

\* The timer fires, possibly late: back to reserve.
Fire(c) ==
  /\ pc[c] = "timer"
  /\ clock >= wake[c]
  /\ pc' = [pc EXCEPT ![c] = "reserve"]
  /\ UNCHANGED <<clock, tokens, last, seen, wake, log>>

\* The context is done first: Wait returns its error.
GiveUp(c) ==
  /\ pc[c] = "timer"
  /\ pc' = [pc EXCEPT ![c] = "out"]
  /\ UNCHANGED <<clock, tokens, last, seen, wake, log>>

\* The clock stops when no call is under way and none may begin.
Tick ==
  /\ clock < MaxTime \/ \E c \in Callers : pc[c] = "timer" /\ clock < wake[c]
  /\ clock' = clock + 1
  /\ UNCHANGED <<tokens, last, pc, seen, wake, log>>

Next ==
  \/ \E c \in Callers : Wait(c) \/ Admit(c) \/ Sleep(c) \/ Fire(c) \/ GiveUp(c)
  \/ Tick

Spec == Init /\ [][Next]_vars

\* The clock runs, timers fire and goroutines run on; nobody has to call or to
\* give up.
Fairness ==
  /\ WF_vars(Tick)
  /\ \A c \in Callers : WF_vars(Admit(c)) /\ WF_vars(Sleep(c)) /\ WF_vars(Fire(c))

FairSpec == Spec /\ Fairness
-----------------------------------------------------------------------------
\* Every variable has its type; the bucket is never in debt nor above capacity.
TypeOK ==
  /\ BucketTypeOK
  /\ pc \in [Callers -> {"out", "reserve", "timer"}]
  /\ seen \in [Callers -> Nat]
  /\ wake \in [Callers -> Nat]
  /\ log \in Seq(Nat)

\* What the three guarantees below rest on.  The tokens there are and those
\* given out since an admission come from the burst and from what was earned.
Accounts ==
  ExactRate =>
    /\ WholeTicks
    /\ \A i \in 1..Len(log) :
         /\ log[i] <= last
         /\ Unit * (Len(log) - i + 1) + tokens <= Capacity + Rate * (last - log[i])

\* A timer is set for the moment a whole token will have been earned, given
\* what was there; others can only put that moment off.
TimersNotLate ==
  \A c \in Callers :
    (pc[c] = "timer" /\ wake[c] > last) => tokens + Rate * (wake[c] - last) <= Unit

TimersNotEarly ==
  \A c \in Callers :
    /\ seen[c] <= Len(log)
    /\ (ExactRate /\ pc[c] = "timer" /\ seen[c] = Len(log)) =>
         tokens + Rate * (wake[c] - last) >= Unit

\* README.md:353-358: the admissions in any window, the burst at its beginning
\* included, are at most the burst and what the rate allows in it.
RateConformance ==
  ExactRate =>
    \A i \in 1..Len(log) : \A j \in i..Len(log) :
      Unit * (j - i + 1) <= Capacity + Rate * (log[j] - log[i])

\* Nobody sleeps while a token is there for it: before its timer fires, the
\* bucket does not hold a whole token (limiter.go:67-68).
WorkConserving ==
  \A c \in Callers : (pc[c] = "timer" /\ clock < wake[c]) => Refilled < Unit

\* The comment at limiter.go:41-43: when the timer fires, a token is available
\* unless another goroutine was admitted while this one slept.
SleepIsEnough ==
  ExactRate =>
    \A c \in Callers :
      (pc[c] = "timer" /\ clock >= wake[c]) =>
        Refilled >= Unit \/ Len(log) > seen[c]

\* While callers sleep, somebody is admitted, or they have all given up.
SomeoneProgresses ==
  \A n \in 0..(Burst + MaxTime) :
    (Len(log) = n /\ \E c \in Callers : pc[c] # "out") ~>
      (Len(log) > n \/ \A c \in Callers : pc[c] = "out")
==============================================================================
