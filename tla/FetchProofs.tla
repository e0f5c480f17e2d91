------------------------------ MODULE FetchProofs ------------------------------
(***************************************************************************)
(* What the calls of a provider guarantee for any number of calls, any     *)
(* retry configuration, any timeouts, and any rate and burst of the        *)
(* limiter they share.                                                     *)
(***************************************************************************)
EXTENDS Fetch, TokenBucketProofs, FiniteSetTheorems

USE BucketAssumption, FetchAssumption
-----------------------------------------------------------------------------
\* The provers know no arithmetic of powers; 1..n has 2 ^ n subsets.
LEMMA PowerType ==
  ASSUME NEW n \in Nat
  PROVE  2 ^ n \in Nat \ {0}
<1>1. IsFiniteSet(1..n) /\ Cardinality(1..n) = n
  BY FS_Interval
<1>2. IsFiniteSet(SUBSET (1..n)) /\ Cardinality(SUBSET (1..n)) = 2 ^ n
  BY <1>1, FS_SUBSET
<1>3. Cardinality(SUBSET (1..n)) \in Nat
  BY <1>2, FS_CardinalityType
<1>4. SUBSET (1..n) # {}
  OBVIOUS
<1> QED
  BY <1>2, <1>3, <1>4, FS_EmptySet

\* What is left of more is no less.
LEMMA QuotientGrows ==
  ASSUME NEW a \in Int, NEW b \in Int, a <= b, NEW m \in Nat \ {0}
  PROVE  a \div m \in Int /\ b \div m \in Int /\ a \div m <= b \div m
OBVIOUS

LEMMA Remainder ==
  ASSUME NEW n \in Int, NEW m \in Nat \ {0}
  PROVE  /\ n % m \in 0..(m - 1)
         /\ 0 <= n /\ n < m => n % m = n
OBVIOUS

\* An int64 holds what fits and wraps the rest.
LEMMA WrapType ==
  ASSUME NEW n \in Int
  PROVE  /\ Wrap(n) \in Int
         /\ -(2 ^ (Width - 1)) <= n /\ n < 2 ^ (Width - 1) => Wrap(n) = n
<1> DEFINE half == 2 ^ (Width - 1)
<1>1. half \in Nat \ {0}
  BY PowerType
<1>0. Wrap(n) = ((n + half) % (2 * half)) - half
  BY Zenon DEF Wrap
<1> HIDE DEF half
<1>2. n + half \in Int /\ 2 * half \in Nat \ {0}
  BY <1>1
<1>3. /\ (n + half) % (2 * half) \in Int
      /\ -half <= n /\ n < half => (n + half) % (2 * half) = n + half
  <2> DEFINE x == n + half
             m == 2 * half
  <2>1. x \in Int /\ m \in Nat \ {0}
    BY <1>2
  <2>2. -half <= n /\ n < half => 0 <= x /\ x < m
    BY <1>1
  <2> HIDE DEF x, m
  <2>3. x % m \in Int /\ (0 <= x /\ x < m => x % m = x)
    BY <2>1, Remainder
  <2>4. x % m \in Int /\ (-half <= n /\ n < half => x % m = x)
    BY <2>2, <2>3
  <2> QED
    BY <2>4 DEF x, m
<1>4. /\ Wrap(n) \in Int
      /\ -half <= n /\ n < half => Wrap(n) = n
  BY <1>0, <1>1, <1>3
<1> QED
  BY <1>4 DEF half

LEMMA ConfigType ==
  ASSUME given \in Configs
  PROVE  /\ Config \in [max : Int, base : Int, cap : Int]
         /\ Configured = Config
         /\ MaxAttempts \in Nat \ {0}
BY DEF Config, Configured, MaxAttempts

\* More time gets no less jitter.
LEMMA JitterGrows ==
  ASSUME NEW a \in Int, NEW b \in Int, a <= b
  PROVE  WithJitter(a) \in Nat /\ WithJitter(b) \in Nat /\ WithJitter(a) <= WithJitter(b)
<1>1. \A n \in Int : n > 0 => n \div JitterParts \in Nat
  BY QuotientGrows
<1>2. a \div JitterParts <= b \div JitterParts
  BY QuotientGrows
<1> QED
  BY <1>1, <1>2 DEF WithJitter

\* What is promised is a length of time.
LEMMA PromiseType ==
  ASSUME given \in Configs, NEW n \in Nat \ {0}
  PROVE  Doubled(n) \in Int /\ Promised(n) \in Int /\ Configured.cap \in Int
<1>1. Configured.base \in Int /\ Configured.cap \in Int /\ 2 ^ (n - 1) \in Nat
  BY ConfigType, PowerType
<1> QED
  BY <1>1 DEF Doubled, Promised

\* A backoff is a length of time, no longer than the cap and its jitter, and
\* unless the shift overflows what the README promises and its jitter at most.
LEMMA BackoffFacts ==
  ASSUME given \in Configs, NEW n \in Nat \ {0}, NEW d \in BackoffDelay(n)
  PROVE  /\ d \in Nat
         /\ Fits(n) => Promised(n) <= d /\ d <= WithJitter(Promised(n))
         /\ Configured.cap > 0 => d <= WithJitter(Configured.cap)
<1> DEFINE cap == Configured.cap
           shifted == Wrap(Doubled(n))
           delay == IF cap > 0 /\ shifted > cap THEN cap ELSE shifted
<1>1. Config = Configured
  BY ConfigType
<1>2. d \in IF delay <= 0 THEN {0} ELSE delay..(delay + delay \div JitterParts)
  BY <1>1 DEF BackoffDelay, Doubled
<1>3. Doubled(n) \in Int /\ Promised(n) \in Int /\ cap \in Int
  BY PromiseType
<1>4. /\ shifted \in Int
      /\ Fits(n) => shifted = Doubled(n)
  BY <1>3, WrapType DEF Fits
<1>5. Fits(n) => delay = Promised(n)
  BY <1>4 DEF Promised
<1> HIDE DEF shifted, cap
<1>6. delay \in Int /\ (cap > 0 => delay <= cap)
  BY <1>3, <1>4
<1> HIDE DEF delay
<1>7. d \in Nat /\ delay <= d /\ d <= WithJitter(delay)
  <2>1. CASE delay <= 0
    BY <1>2, <1>6, <2>1 DEF WithJitter
  <2>2. CASE delay > 0
    <3>1. delay + delay \div JitterParts \in Int
      BY <1>6, QuotientGrows
    <3>2. d \in delay..(delay + delay \div JitterParts)
      BY <1>2, <1>6, <2>2
    <3> QED
      BY <1>6, <2>2, <3>1, <3>2 DEF WithJitter
  <2> QED
    BY <1>6, <2>1, <2>2
<1>8. ASSUME cap > 0 PROVE d <= WithJitter(cap)
  BY <1>3, <1>6, <1>7, <1>8, JitterGrows
<1> QED
  BY <1>5, <1>7, <1>8 DEF cap

\* Only transient failures are retried.
LEMMA RetriedAreTransient ==
  \A k \in Kinds : Retryable(k) <=> k \in Transient
BY DEF Kinds, Status, Retryable, IsRetryableHTTPError, IsRetryable, Transient
-----------------------------------------------------------------------------
\* The invariant but for the limiter's account, which only Admit and Throttle
\* touch.
TimersRight == TimersKeepPromise /\ BackoffBounded

CallsInv == TypeOK /\ BackingOff /\ OnlyTransientRetried /\ TimersRight

LEMMA BucketTyped ==
  ASSUME TypeOK
  PROVE  BucketTypeOK
BY DEF TypeOK

\* A step that starts no backoff leaves those under way as they are.
LEMMA TimersStay ==
  ASSUME TypeOK, TimersRight, given' = given, clock' \in Nat, clock <= clock',
         \A d \in Calls :
           /\ sentAt'[d] \in Int /\ sentAt'[d] <= clock'
           /\ pc'[d] = "backoff" =>
                pc[d] = "backoff" /\ UNCHANGED <<attempt[d], wake[d], sentAt[d]>>
  PROVE  TimersRight'
<1>1. \A n : (Fits(n)' <=> Fits(n)) /\ Promised(n)' = Promised(n)
  BY DEF Fits, Promised, Doubled, Configured
<1>2. Configured' = Configured
  BY DEF Configured
<1> SUFFICES ASSUME NEW d \in Calls, pc'[d] = "backoff"
             PROVE  /\ Fits(attempt[d])' => wake'[d] >= sentAt'[d] + Promised(attempt[d])'
                    /\ Fits(attempt[d])' =>
                         wake'[d] <= clock' + WithJitter(Promised(attempt[d])')
                    /\ Configured'.cap > 0 => wake'[d] <= clock' + WithJitter(Configured'.cap)
  BY DEF TimersRight, TimersKeepPromise, BackoffBounded, WithJitter
<1>3. /\ pc[d] = "backoff" /\ attempt'[d] = attempt[d] /\ wake'[d] = wake[d]
      /\ sentAt'[d] = sentAt[d]
  OBVIOUS
<1>4. /\ attempt[d] \in Nat \ {0} /\ wake[d] \in Nat /\ sentAt[d] \in Nat /\ clock \in Nat
      /\ given \in Configs
  BY ConfigType DEF TypeOK, BucketTypeOK
<1>5. /\ Promised(attempt[d]) \in Int /\ Configured.cap \in Int
      /\ Promised(attempt[d])' = Promised(attempt[d])
      /\ Fits(attempt[d])' <=> Fits(attempt[d])
  <2>1. Promised(attempt[d]) \in Int /\ Configured.cap \in Int
    BY <1>4, PromiseType
  <2>2. /\ Promised(attempt[d])' = Promised(attempt[d])
        /\ Fits(attempt[d])' <=> Fits(attempt[d])
    BY <1>2, <1>3 DEF Promised, Fits, Doubled
  <2> QED
    BY <2>1, <2>2
<1>6. WithJitter(Promised(attempt[d])) \in Nat /\ WithJitter(Configured.cap) \in Nat
  BY <1>5, JitterGrows
<1>7. /\ Fits(attempt[d]) => /\ wake[d] >= sentAt[d] + Promised(attempt[d])
                            /\ wake[d] <= clock + WithJitter(Promised(attempt[d]))
      /\ Configured.cap > 0 => wake[d] <= clock + WithJitter(Configured.cap)
  BY <1>3 DEF TimersRight, TimersKeepPromise, BackoffBounded
<1> QED
  BY <1>2, <1>3, <1>4, <1>5, <1>6, <1>7

LEMMA CallsInit ==
  ASSUME Init
  PROVE  CallsInv
<1>1. TypeOK
  BY CapacityType, ConfigType DEF Init, BucketInit, TypeOK, BucketTypeOK
<1>2. BackingOff /\ OnlyTransientRetried /\ TimersRight
  BY DEF Init, BucketInit, BackingOff, OnlyTransientRetried, TimersRight, TimersKeepPromise,
         BackoffBounded, Transient
<1> QED
  BY <1>1, <1>2 DEF CallsInv

\* A step that moves one call to a state in which it is not backing off and has
\* not returned, and gives nobody a new error or attempt.
LEMMA CallMoves ==
  ASSUME CallsInv, TypeOK', NEW c \in Calls, NEW s \in {"limiter", "throttled", "inflight"},
         pc[c] # "done", pc' = [pc EXCEPT ![c] = s],
         clock' = clock, UNCHANGED <<given, attempt, err, cancelled>>,
         \A d \in Calls : d # c =>
           deadline'[d] = deadline[d] /\ sentAt'[d] = sentAt[d] /\ wake'[d] = wake[d],
         sentAt'[c] <= clock
  PROVE  CallsInv'
<1> USE DEF CallsInv, TypeOK
<1>1. MaxAttempts' = MaxAttempts /\ Config' = Config
  BY DEF MaxAttempts, Config
<1>2. BackingOff'
  BY <1>1 DEF BackingOff
<1>3. OnlyTransientRetried'
  BY <1>1 DEF OnlyTransientRetried, CtxDone, Transient
<1>4. TimersRight'
  <2>1. \A d \in Calls : sentAt'[d] \in Int /\ sentAt'[d] <= clock'
    BY DEF TimersRight, TimersKeepPromise
  <2>2. \A d \in Calls : pc'[d] = "backoff" =>
          pc[d] = "backoff" /\ UNCHANGED <<attempt[d], wake[d], sentAt[d]>>
    OBVIOUS
  <2>3. clock' \in Nat /\ clock <= clock'
    BY DEF BucketTypeOK
  <2> QED
    BY <2>1, <2>2, <2>3, TimersStay
<1> QED
  BY <1>2, <1>3, <1>4

\* A call that begins, is let through, throttled, or back at the limiter.
LEMMA LimiterSteps ==
  ASSUME CallsInv, NEW c \in Calls,
         Begin(c) \/ Admit(c) \/ Throttle(c) \/ ThrottleEnds(c)
  PROVE  CallsInv'
<1>0. TypeOK /\ BucketTypeOK
  BY BucketTyped DEF CallsInv
<1>1. CASE Begin(c)
  <2>1. TypeOK'
    BY <1>0, <1>1 DEF Begin, TypeOK, BucketTypeOK, MaxAttempts, Config, Capacity
  <2>2. sentAt'[c] <= clock
    BY <1>1 DEF Begin, CallsInv, TimersRight, TimersKeepPromise
  <2> QED
    BY <1>0, <1>1, <2>1, <2>2, CallMoves DEF Begin, TypeOK
<1>2. CASE Admit(c)
  <2>1. TypeOK'
    <3>1. tokens' \in Nat /\ tokens' <= Capacity /\ last' = clock
      BY <1>0, <1>2, ReserveFacts DEF Admit
    <3> QED
      BY <1>0, <1>2, <3>1 DEF Admit, TypeOK, BucketTypeOK, MaxAttempts, Config, Capacity
  <2>2. sentAt'[c] <= clock
    BY <1>0, <1>2 DEF Admit, TypeOK, BucketTypeOK
  <2> QED
    BY <1>0, <1>2, <2>1, <2>2, CallMoves DEF Admit, TypeOK
<1>3. CASE Throttle(c)
  <2>1. TypeOK'
    <3>1. tokens' \in Nat /\ tokens' <= Capacity /\ last' = clock /\ Delay \in Nat
      BY <1>0, <1>3, ReserveFacts DEF Throttle
    <3>2. wake' \in [Calls -> Nat]
      BY <1>0, <1>3, <3>1 DEF Throttle, TypeOK, BucketTypeOK
    <3> QED
      BY <1>0, <1>3, <3>1, <3>2 DEF Throttle, TypeOK, BucketTypeOK, MaxAttempts, Config, Capacity
  <2>2. sentAt'[c] <= clock
    BY <1>3 DEF Throttle, CallsInv, TimersRight, TimersKeepPromise
  <2> QED
    BY <1>0, <1>3, <2>1, <2>2, CallMoves DEF Throttle, TypeOK
<1>4. CASE ThrottleEnds(c)
  <2>1. TypeOK'
    BY <1>0, <1>4 DEF ThrottleEnds, TypeOK, BucketTypeOK, MaxAttempts, Config, Capacity
  <2>2. sentAt'[c] <= clock
    BY <1>4 DEF ThrottleEnds, CallsInv, TimersRight, TimersKeepPromise
  <2> QED
    BY <1>0, <1>4, <2>1, <2>2, CallMoves DEF ThrottleEnds, TypeOK
<1> QED
  BY <1>1, <1>2, <1>3, <1>4

\* A call that returns: a transient failure only from its last attempt, its
\* context's error only when the context is done.
LEMMA ReturnStep ==
  ASSUME CallsInv, NEW c \in Calls, NEW e \in Kinds \cup {"none"}, Return(c, e),
         e \in Transient => attempt[c] = MaxAttempts,
         e = "context" => CtxDone(c),
         filled' \in [Calls -> Nat]
  PROVE  CallsInv'
<1> USE DEF CallsInv
<1>1. /\ pc' = [pc EXCEPT ![c] = "done"] /\ err' = [err EXCEPT ![c] = e]
      /\ UNCHANGED <<clock, tokens, last, given, badURL, attempt, deadline, cancelled,
                     sentAt, wake, sends>>
      /\ MaxAttempts' = MaxAttempts /\ Config' = Config
  BY DEF Return, MaxAttempts, Config
<1>2. TypeOK'
  BY <1>1 DEF TypeOK, BucketTypeOK, Capacity
<1>3. BackingOff'
  BY <1>1 DEF BackingOff, TypeOK, Transient
<1>4. OnlyTransientRetried'
  <2> SUFFICES ASSUME NEW d \in Calls
               PROVE  /\ (attempt'[d] > 1 /\ pc'[d] # "done") => err'[d] \in Transient
                      /\ (pc'[d] = "done" /\ err'[d] \in Transient) => attempt'[d] = MaxAttempts'
                      /\ (pc'[d] = "done" /\ err'[d] = "context") => CtxDone(d)'
    BY DEF OnlyTransientRetried, Transient
  <2>1. CtxDone(d)' <=> CtxDone(d)
    BY <1>1 DEF CtxDone
  <2>2. CASE d = c
    BY <1>1, <2>1, <2>2 DEF TypeOK
  <2>3. CASE d # c
    BY <1>1, <2>1, <2>3 DEF TypeOK, OnlyTransientRetried
  <2> QED
    BY <2>2, <2>3
<1>5. TimersRight'
  <2>1. \A d \in Calls : sentAt[d] \in Nat /\ sentAt[d] <= clock
    BY DEF TypeOK, TimersRight, TimersKeepPromise
  <2>2. clock' \in Nat /\ clock \in Nat /\ clock <= clock'
    BY <1>1 DEF TypeOK, BucketTypeOK
  <2>3. \A d \in Calls :
          /\ sentAt'[d] \in Int /\ sentAt'[d] <= clock'
          /\ pc'[d] = "backoff" =>
               pc[d] = "backoff" /\ UNCHANGED <<attempt[d], wake[d], sentAt[d]>>
    BY <1>1, <2>1, <2>2 DEF TypeOK
  <2> QED
    BY <1>1, <2>2, <2>3, TimersStay
<1> QED
  BY <1>2, <1>3, <1>4, <1>5

\* A call that backs off sets its timer for at least the promised delay.
LEMMA FailStep ==
  ASSUME CallsInv, NEW c \in Calls, NEW k \in Kinds, Fail(c, k),
         k = "context" => CtxDone(c),
         filled' \in [Calls -> Nat]
  PROVE  CallsInv'
<1>1. CASE ~Retryable(k) \/ attempt[c] = MaxAttempts
  <2>1. Return(c, k)
    BY <1>1 DEF Fail
  <2>2. k \in Transient => attempt[c] = MaxAttempts
    BY <1>1, RetriedAreTransient
  <2> QED
    BY <2>1, <2>2, ReturnStep
<1>2. CASE Retryable(k) /\ attempt[c] # MaxAttempts
  <2> USE DEF CallsInv
  <2>1. PICK delay \in BackoffDelay(attempt[c]) :
          /\ pc[c] = "inflight" /\ pc' = [pc EXCEPT ![c] = "backoff"]
          /\ err' = [err EXCEPT ![c] = k]
          /\ wake' = [wake EXCEPT ![c] = clock + delay]
          /\ UNCHANGED <<clock, tokens, last, given, badURL, attempt, deadline,
                         cancelled, sentAt, sends>>
    BY <1>2 DEF Fail
  <2>2. /\ MaxAttempts' = MaxAttempts /\ Config' = Config
        /\ attempt[c] \in Nat \ {0} /\ attempt[c] < MaxAttempts
    <3>1. MaxAttempts \in Nat \ {0}
      BY ConfigType DEF TypeOK
    <3> QED
      BY <1>2, <2>1, <3>1 DEF MaxAttempts, Config, TypeOK
  <2>3. /\ delay \in Nat
        /\ Fits(attempt[c]) => /\ Promised(attempt[c]) <= delay
                               /\ delay <= WithJitter(Promised(attempt[c]))
        /\ Configured.cap > 0 => delay <= WithJitter(Configured.cap)
    BY <2>2, BackoffFacts DEF TypeOK
  <2>4. TypeOK'
    <3>1. wake' \in [Calls -> Nat]
      BY <2>1, <2>3 DEF TypeOK, BucketTypeOK
    <3> QED
      BY <2>1, <2>2, <3>1 DEF TypeOK, BucketTypeOK, Capacity
  <2>5. BackingOff'
    BY <1>2, <2>1, <2>2, RetriedAreTransient DEF BackingOff, TypeOK, Transient
  <2>6. OnlyTransientRetried'
    BY <1>2, <2>1, <2>2, RetriedAreTransient
    DEF OnlyTransientRetried, TypeOK, CtxDone, Transient
  <2>7. TimersRight'
    <3> DEFINE n == attempt[c]
    <3>1. /\ Promised(n) \in Int /\ Configured.cap \in Int
          /\ WithJitter(Promised(n)) \in Nat /\ WithJitter(Configured.cap) \in Nat
      <4>1. Promised(n) \in Int /\ Configured.cap \in Int
        BY <2>2, PromiseType DEF TypeOK
      <4> HIDE DEF n
      <4> QED
        BY <4>1, JitterGrows
    <3>2. \A d \in Calls : sentAt[d] \in Nat /\ sentAt[d] <= clock
      BY DEF TypeOK, TimersRight, TimersKeepPromise
    <3>3. clock \in Nat /\ wake'[c] = clock + delay
      BY <2>1 DEF TypeOK, BucketTypeOK
    <3>4. /\ Fits(n) => wake'[c] >= sentAt[c] + Promised(n)
          /\ Fits(n) => wake'[c] <= clock + WithJitter(Promised(n))
          /\ Configured.cap > 0 => wake'[c] <= clock + WithJitter(Configured.cap)
      <4> HIDE DEF n
      <4> QED
        BY <2>3, <3>1, <3>2, <3>3 DEF n
    <3>5. Configured' = Configured
      BY <2>1 DEF Configured
    <3>6. ASSUME NEW d \in Calls, pc'[d] = "backoff"
          PROVE  /\ Fits(attempt[d]) => wake'[d] >= sentAt[d] + Promised(attempt[d])
                 /\ Fits(attempt[d]) => wake'[d] <= clock + WithJitter(Promised(attempt[d]))
                 /\ Configured.cap > 0 => wake'[d] <= clock + WithJitter(Configured.cap)
      <4>1. CASE d = c
        BY <3>4, <4>1
      <4>2. CASE d # c
        <5>1. pc[d] = "backoff" /\ wake'[d] = wake[d]
          BY <2>1, <3>6, <4>2 DEF TypeOK
        <5>2. /\ Fits(attempt[d]) => /\ wake[d] >= sentAt[d] + Promised(attempt[d])
                                    /\ wake[d] <= clock + WithJitter(Promised(attempt[d]))
              /\ Configured.cap > 0 => wake[d] <= clock + WithJitter(Configured.cap)
          BY <5>1 DEF TimersRight, TimersKeepPromise, BackoffBounded
        <5> QED
          BY <5>1, <5>2
      <4> QED
        BY <4>1, <4>2
    <3>7. ASSUME NEW d \in Calls, pc'[d] = "backoff"
          PROVE  /\ Fits(attempt[d])' => wake'[d] >= sentAt'[d] + Promised(attempt[d])'
                 /\ Fits(attempt[d])' =>
                      wake'[d] <= clock' + WithJitter(Promised(attempt[d])')
                 /\ Configured'.cap > 0 => wake'[d] <= clock' + WithJitter(Configured'.cap)
      <4>1. /\ Promised(attempt[d])' = Promised(attempt[d])
            /\ Fits(attempt[d])' <=> Fits(attempt[d])
        BY <2>1, <3>5 DEF Promised, Fits, Doubled
      <4>2. Configured' = Configured /\ clock' = clock /\ sentAt'[d] = sentAt[d]
        BY <2>1, <3>5
      <4>3. /\ Fits(attempt[d]) => wake'[d] >= sentAt[d] + Promised(attempt[d])
            /\ Fits(attempt[d]) => wake'[d] <= clock + WithJitter(Promised(attempt[d]))
            /\ Configured.cap > 0 => wake'[d] <= clock + WithJitter(Configured.cap)
        BY <3>6, <3>7
      <4> QED
        BY ONLY <4>1, <4>2, <4>3
    <3> QED
      BY <2>1, <3>2, <3>7 DEF TimersRight, TimersKeepPromise, BackoffBounded, WithJitter
  <2> QED
    BY <2>4, <2>5, <2>6, <2>7
<1> QED
  BY <1>1, <1>2

\* Every way an attempt can end.
LEMMA AttemptEnds ==
  ASSUME CallsInv, NEW c \in Calls,
         \/ Interrupted(c) \/ Succeed(c) \/ FailConfig(c) \/ FailRemote(c)
         \/ FailDecode(c) \/ FailContext(c) \/ FailHung(c)
  PROVE  CallsInv'
<1>0. /\ filled \in [Calls -> Nat] /\ attempt[c] \in Nat
      /\ "none" \notin Transient /\ "context" \notin Transient
  <2>1. MaxAttempts \in Nat
    BY ConfigType DEF CallsInv, TypeOK
  <2> QED
    BY <2>1 DEF CallsInv, TypeOK, Transient
<1>1. CASE Interrupted(c)
  BY <1>0, <1>1, ReturnStep DEF Interrupted, Kinds
<1>2. CASE Succeed(c)
  <2>1. filled' \in [Calls -> Nat]
    BY <1>0, <1>2 DEF Succeed
  <2> QED
    BY <1>0, <1>2, <2>1, ReturnStep DEF Succeed
<1>3. CASE FailDecode(c)
  <2>1. filled' \in [Calls -> Nat]
    BY <1>0, <1>3 DEF FailDecode
  <2> QED
    BY <1>3, <2>1, FailStep DEF FailDecode, Kinds
<1>4. CASE FailConfig(c) \/ FailHung(c) \/ FailContext(c)
  BY <1>0, <1>4, FailStep DEF FailConfig, FailHung, FailContext, Kinds
<1>5. CASE FailRemote(c)
  BY <1>0, <1>5, FailStep DEF FailRemote, Kinds, Status
<1> QED
  BY <1>1, <1>2, <1>3, <1>4, <1>5

\* The next attempt begins, with the transient error of the one before.
LEMMA RetryStep ==
  ASSUME CallsInv, NEW c \in Calls, BackoffEnds(c)
  PROVE  CallsInv'
<1> USE DEF CallsInv
<1>1. /\ pc[c] = "backoff" /\ pc' = [pc EXCEPT ![c] = "limiter"]
      /\ attempt' = [attempt EXCEPT ![c] = @ + 1]
      /\ UNCHANGED <<clock, tokens, last, given, badURL, deadline, cancelled, sentAt,
                     wake, err, filled, sends>>
      /\ MaxAttempts' = MaxAttempts /\ Config' = Config
  BY DEF BackoffEnds, MaxAttempts, Config
<1>2. /\ attempt[c] \in Nat /\ attempt[c] < MaxAttempts /\ MaxAttempts \in Nat
      /\ err[c] \in Transient
  BY <1>1, ConfigType DEF BackingOff, TypeOK
<1>3. attempt' \in [Calls -> 1..MaxAttempts']
  BY <1>1, <1>2 DEF TypeOK
<1>4. TypeOK'
  BY <1>1, <1>3 DEF TypeOK, BucketTypeOK, Capacity
<1>5. BackingOff' /\ OnlyTransientRetried'
  BY <1>1, <1>2 DEF BackingOff, OnlyTransientRetried, TypeOK, CtxDone, Transient
<1>6. TimersRight'
  <2>1. \A d \in Calls : sentAt[d] \in Nat /\ sentAt[d] <= clock
    BY DEF TypeOK, TimersRight, TimersKeepPromise
  <2>2. clock' \in Nat /\ clock \in Nat /\ clock <= clock'
    BY <1>1 DEF TypeOK, BucketTypeOK
  <2>3. \A d \in Calls :
          /\ sentAt'[d] \in Int /\ sentAt'[d] <= clock'
          /\ pc'[d] = "backoff" =>
               pc[d] = "backoff" /\ UNCHANGED <<attempt[d], wake[d], sentAt[d]>>
    BY <1>1, <2>1, <2>2 DEF TypeOK
  <2> QED
    BY <1>1, <2>2, <2>3, TimersStay
<1> QED
  BY <1>4, <1>5, <1>6

\* Clients leave and time passes.
LEMMA EnvironmentSteps ==
  ASSUME CallsInv, (\E c \in Calls : Cancel(c)) \/ Tick \/ UNCHANGED vars
  PROVE  CallsInv'
<1> USE DEF CallsInv
<1>1. /\ UNCHANGED <<tokens, last, given, badURL, pc, attempt, deadline, sentAt,
                     wake, err, filled, sends>>
      /\ clock' \in {clock, clock + 1}
      /\ cancelled' \in [Calls -> BOOLEAN]
      /\ \A c \in Calls : cancelled[c] => cancelled'[c]
      /\ MaxAttempts' = MaxAttempts /\ Config' = Config
  BY DEF Cancel, Tick, vars, callVars, TypeOK, MaxAttempts, Config
<1>2. clock' \in Nat /\ clock <= clock'
  BY <1>1 DEF TypeOK, BucketTypeOK
<1>3. TypeOK'
  BY <1>1, <1>2 DEF TypeOK, BucketTypeOK, Capacity
<1>4. BackingOff'
  BY <1>1 DEF BackingOff, Transient
<1>5. OnlyTransientRetried'
  <2>1. \A c \in Calls : CtxDone(c) => CtxDone(c)'
    BY <1>1, <1>2 DEF CtxDone, TypeOK, BucketTypeOK
  <2> QED
    BY <1>1, <2>1 DEF OnlyTransientRetried, Transient
<1>6. TimersRight'
  <2>1. \A d \in Calls : sentAt[d] \in Nat /\ sentAt[d] <= clock
    BY DEF TypeOK, TimersRight, TimersKeepPromise
  <2>2. clock' \in Nat /\ clock \in Nat /\ clock <= clock'
    BY <1>1, <1>2 DEF TypeOK, BucketTypeOK
  <2>3. \A d \in Calls :
          /\ sentAt'[d] \in Int /\ sentAt'[d] <= clock'
          /\ pc'[d] = "backoff" =>
               pc[d] = "backoff" /\ UNCHANGED <<attempt[d], wake[d], sentAt[d]>>
    BY <1>1, <2>1, <2>2 DEF TypeOK
  <2> QED
    BY <1>1, <2>2, <2>3, TimersStay
<1> QED
  BY <1>3, <1>4, <1>5, <1>6

LEMMA CallsStep ==
  ASSUME CallsInv, [Next]_vars
  PROVE  CallsInv'
BY LimiterSteps, AttemptEnds, RetryStep, EnvironmentSteps DEF Next

\* Every variable keeps its type, and no call makes more attempts than allowed.
THEOREM TypeCorrect == Spec => []TypeOK
BY CallsInit, CallsStep, PTL DEF Spec, CallsInv

\* A call retries only transient failures, gives one up only when it has no
\* attempt left, and blames its context only when that is done.
THEOREM TransientRetries == Spec => []OnlyTransientRetried
BY CallsInit, CallsStep, PTL DEF Spec, CallsInv

\* Unless the shift overflows, no attempt begins before the promised backoff.
THEOREM PromisedBackoff == Spec => BackoffRespected
<1>1. ASSUME CallsInv, [Next]_vars, NEW c \in Calls, attempt'[c] > attempt[c],
             Fits(attempt[c])
      PROVE  clock >= sentAt[c] + Promised(attempt[c])
  <2>1. BackoffEnds(c)
    <3>1. \A d \in Calls : attempt[d] \in Int
      BY <1>1, ConfigType DEF CallsInv, TypeOK
    <3>2. attempt' # attempt
      BY <1>1, <3>1
    <3>3. PICK d \in Calls : BackoffEnds(d)
      BY <1>1, <3>2
      DEF Next, vars, callVars, Begin, Admit, Throttle, ThrottleEnds, Interrupted, Succeed,
          FailConfig, FailRemote, FailDecode, FailContext, FailHung, Fail, Return, Cancel, Tick
    <3>4. attempt \in [Calls -> 1..MaxAttempts] /\ attempt' = [attempt EXCEPT ![d] = @ + 1]
      BY <1>1, <3>3 DEF BackoffEnds, CallsInv, TypeOK
    <3>5. d = c
      BY <1>1, <3>1, <3>4
    <3> QED
      BY <3>3, <3>5
  <2>2. clock >= wake[c] /\ wake[c] >= sentAt[c] + Promised(attempt[c])
    BY <1>1, <2>1 DEF BackoffEnds, CallsInv, TimersRight, TimersKeepPromise
  <2>3. clock \in Nat /\ wake[c] \in Nat /\ sentAt[c] \in Nat
    BY <1>1 DEF CallsInv, TypeOK, BucketTypeOK
  <2>4. Promised(attempt[c]) \in Int
    <3>1. attempt[c] \in Nat \ {0}
      BY <1>1, ConfigType DEF CallsInv, TypeOK
    <3> QED
      BY <1>1, <3>1, PromiseType DEF CallsInv, TypeOK
  <2> QED
    BY <2>2, <2>3, <2>4
<1>2. CallsInv /\ [Next]_vars =>
        [\A c \in Calls :
           (attempt'[c] > attempt[c] /\ Fits(attempt[c])) =>
             clock >= sentAt[c] + Promised(attempt[c])]_vars
  BY <1>1
<1> QED
  BY <1>2, CallsInit, CallsStep, PTL DEF Spec, BackoffRespected

\* No backoff outlasts the promised one and its jitter, nor the cap and its own.
THEOREM BoundedBackoff == Spec => []BackoffBounded
BY CallsInit, CallsStep, PTL DEF Spec, CallsInv, TimersRight
-----------------------------------------------------------------------------
\* The account of what was sent.
LEMMA PaidInit ==
  ASSUME Init
  PROVE  Paid
<1>1. Sent = {}
  BY DEF Init, Sent
<1>2. IsFiniteSet(Sent) /\ Cardinality(Sent) = 0
  BY <1>1, FS_EmptySet
<1>3. ExactRate => WholeTicks
  BY FullBucketWhole DEF Init
<1>4. Unit * 0 + tokens <= Capacity + Rate * last
  BY CapacityType DEF Init, BucketInit
<1> QED
  BY <1>2, <1>3, <1>4 DEF Paid

\* An attempt let through is new, and paid for with a token.
LEMMA PaidAdmit ==
  ASSUME TypeOK, Paid, NEW c \in Calls, Admit(c)
  PROVE  Paid'
<1> DEFINE new == <<c, sends[c] + 1>>
<1>1. Sent' = Sent \cup {new} /\ new \notin Sent
  <2>1. /\ sends' = [sends EXCEPT ![c] = sends[c] + 1]
        /\ sends \in [Calls -> Nat]
    BY DEF Admit, TypeOK
  <2>2. \A d \in Calls : \A n : n \in 1..sends'[d] <=> n \in 1..sends[d] \/ <<d, n>> = new
    BY <2>1
  <2>3. \A x : x \in Sent <=> \E d \in Calls : \E n \in 1..sends[d] : x = <<d, n>>
    BY DEF Sent
  <2>4. \A x : x \in Sent' <=> \E d \in Calls : \E n \in 1..sends'[d] : x = <<d, n>>
    BY DEF Sent
  <2>5. new \in Sent' /\ new \notin Sent
    <3>1. sends[c] + 1 \in 1..sends'[c] /\ sends[c] + 1 \notin 1..sends[c]
      BY <2>1
    <3> QED
      BY <2>3, <2>4, <3>1
  <2>6. \A x : x \in Sent' <=> x \in Sent \/ x = new
    BY <2>2, <2>3, <2>4, <2>5
  <2> QED
    BY <2>5, <2>6
<1>2. /\ IsFiniteSet(Sent') /\ Cardinality(Sent') = Cardinality(Sent) + 1
      /\ Cardinality(Sent) \in Nat
  BY <1>1, FS_AddElement, FS_CardinalityType DEF Paid
<1>3. ASSUME ExactRate
      PROVE  /\ WholeTicks'
             /\ Unit * (Cardinality(Sent) + 1) + tokens' <= Capacity + Rate * last'
  <2>1. Reserve /\ Delay <= 0 /\ BucketTypeOK
    BY BucketTyped DEF Admit
  <2>2. WholeTicks /\ Unit * Cardinality(Sent) + tokens <= Capacity + Rate * last
    BY <1>3 DEF Paid
  <2>3. Refilled >= Unit
    BY <1>3, <2>1, <2>2, AdmittedWithToken
  <2> QED
    BY <1>2, <1>3, <2>1, <2>2, <2>3, ReserveWhole, TokenPaid
<1> QED
  BY <1>2, <1>3 DEF Paid, ExactRate, Capacity

\* A throttled call adds what was earned to the bucket, and that is all.
LEMMA PaidThrottle ==
  ASSUME TypeOK, Paid, NEW c \in Calls, Throttle(c)
  PROVE  Paid'
<1>1. Sent' = Sent /\ Cardinality(Sent) \in Nat /\ IsFiniteSet(Sent)
  BY FS_CardinalityType DEF Throttle, Sent, Paid
<1>2. ASSUME ExactRate
      PROVE  /\ WholeTicks'
             /\ Unit * Cardinality(Sent) + tokens' <= Capacity + Rate * last'
  <2>1. Reserve /\ Delay > 0 /\ BucketTypeOK
    BY BucketTyped DEF Throttle
  <2>2. WholeTicks /\ Unit * Cardinality(Sent) + tokens <= Capacity + Rate * last
    BY <1>2 DEF Paid
  <2> QED
    BY <1>1, <1>2, <2>1, <2>2, ReserveWhole, RefillPaid
<1> QED
  BY <1>1, <1>2 DEF Paid, ExactRate, Capacity

LEMMA PaidStep ==
  ASSUME TypeOK, Paid, [Next]_vars
  PROVE  Paid'
<1>1. CASE UNCHANGED <<tokens, last, sends>>
  BY <1>1 DEF Paid, Sent, WholeTicks, ExactRate, Capacity
<1>2. ASSUME NEW c \in Calls, Admit(c) PROVE Paid'
  BY <1>2, PaidAdmit
<1>3. ASSUME NEW c \in Calls, Throttle(c) PROVE Paid'
  BY <1>3, PaidThrottle
<1>4. ASSUME NEW c \in Calls,
             \/ Begin(c) \/ ThrottleEnds(c) \/ Interrupted(c)
             \/ Succeed(c) \/ FailConfig(c) \/ FailRemote(c) \/ FailDecode(c)
             \/ FailContext(c) \/ FailHung(c) \/ BackoffEnds(c) \/ Cancel(c)
      PROVE  UNCHANGED <<tokens, last, sends>>
  BY <1>4 DEF Begin, ThrottleEnds, Interrupted, Succeed, FailConfig, FailRemote,
              FailDecode, FailContext, FailHung, Fail, Return, BackoffEnds, Cancel
<1>5. CASE Tick \/ UNCHANGED vars
  BY <1>1, <1>5 DEF Tick, vars, callVars
<1> QED
  BY <1>1, <1>2, <1>3, <1>4, <1>5 DEF Next

\* FetchInv holds from the initial state on.
THEOREM Invariant == Spec => []FetchInv
<1>1. TypeOK /\ Paid /\ [Next]_vars => Paid'
  BY PaidStep
<1> QED
  BY <1>1, CallsInit, CallsStep, PaidInit, PTL DEF Spec, FetchInv, CallsInv, TimersRight

\* All attempts of all calls together stay within the burst and the rate.
COROLLARY AttemptsPaid == Spec => []SendsArePaid
<1>1. FetchInv => SendsArePaid
  <2> SUFFICES ASSUME FetchInv, ExactRate
               PROVE  Unit * Cardinality(Sent) <= Capacity + Rate * clock
    BY DEF SendsArePaid
  <2>1. /\ Cardinality(Sent) \in Nat
        /\ Unit * Cardinality(Sent) + tokens <= Capacity + Rate * last
    BY FS_CardinalityType DEF FetchInv, Paid
  <2>2. /\ tokens \in Nat /\ clock \in Nat /\ last \in Nat /\ clock - last \in Nat
        /\ Capacity \in Nat
    BY CapacityType DEF FetchInv, TypeOK, BucketTypeOK
  <2>3. Rate * clock = Rate * (clock - last) + Rate * last
    BY <2>2, EarnedSum
  <2>4. /\ Rate * (clock - last) \in Nat /\ Rate * last \in Nat
        /\ Unit * Cardinality(Sent) \in Int
    BY <2>1, <2>2, EarnedType
  <2> QED
    BY <2>1, <2>2, <2>3, <2>4
<1> QED
  BY <1>1, Invariant, PTL
-----------------------------------------------------------------------------
\* What the goroutines that made the calls see of them.
Seen == [c \in Calls |-> OutcomeOf(c)]

\* The goroutine waits for a call exactly while it has not returned.
LEMMA PendingSeen ==
  ASSUME TypeOK, NEW c \in Calls
  PROVE  Seen[c] = "pending" <=> pc[c] \notin {"idle", "done"}
<1>1. CASE pc[c] = "idle"
  BY <1>1 DEF Seen, OutcomeOf
<1>2. CASE pc[c] = "done"
  BY <1>2 DEF Seen, OutcomeOf
<1>3. CASE pc[c] \notin {"idle", "done"}
  BY <1>3 DEF Seen, OutcomeOf
<1> QED
  BY <1>1, <1>2, <1>3

\* Steps between the beginning of a call and its end are not seen.
LEMMA UnseenStep ==
  ASSUME TypeOK, TypeOK', NEW c \in Calls,
         pc[c] \notin {"idle", "done"}, pc'[c] \notin {"idle", "done"},
         \A d \in Calls : d # c => pc'[d] = pc[d] /\ err'[d] = err[d],
         UNCHANGED <<clock, deadline, cancelled>>
  PROVE  UNCHANGED Provider!vars
<1>1. ASSUME NEW d \in Calls PROVE OutcomeOf(d)' = OutcomeOf(d)
  <2>1. CASE d = c
    BY <2>1 DEF OutcomeOf
  <2>2. CASE d # c
    BY <2>2 DEF OutcomeOf
  <2> QED
    BY <2>1, <2>2
<1> QED
  BY <1>1 DEF Provider!vars

\* A call that returns gives its goroutine one result, and blames the context
\* only when it is done.
LEMMA ReturnSeen ==
  ASSUME TypeOK, TypeOK', NEW c \in Calls, NEW e \in Kinds \cup {"none"}, Return(c, e),
         pc[c] \notin {"idle", "done"},
         e = "context" => CtxDone(c)
  PROVE  Provider!Next
<1>1. /\ pc' = [pc EXCEPT ![c] = "done"] /\ err' = [err EXCEPT ![c] = e]
      /\ UNCHANGED <<clock, deadline, cancelled>>
      /\ pc'[c] = "done" /\ err'[c] = e
  BY DEF Return, TypeOK
<1>2. ASSUME NEW d \in Calls, d # c PROVE OutcomeOf(d)' = OutcomeOf(d)
  BY <1>1, <1>2 DEF OutcomeOf, TypeOK
<1>3. Seen[c] = "pending"
  BY PendingSeen
<1>4. Seen' = [Seen EXCEPT ![c] = OutcomeOf(c)']
  BY <1>2 DEF Seen
<1>5. ASSUME NEW result, OutcomeOf(c)' = result PROVE Provider!Resolves(c, result)
  BY <1>1, <1>3, <1>4, <1>5 DEF Provider!Resolves, Seen
<1>6. CASE e = "none"
  <2>1. OutcomeOf(c)' = "ok"
    BY <1>1, <1>6 DEF OutcomeOf
  <2> QED
    BY <1>5, <2>1 DEF Provider!Next, Provider!Answers
<1>7. CASE e = "context" /\ cancelled[c]
  <2>1. OutcomeOf(c)' = "canceled"
    BY <1>1, <1>7 DEF OutcomeOf
  <2> QED
    BY <1>5, <1>7, <2>1 DEF Provider!Next, Provider!IsCancelled
<1>8. CASE e = "context" /\ ~cancelled[c]
  <2>1. OutcomeOf(c)' = "deadline"
    BY <1>1, <1>8 DEF OutcomeOf
  <2>2. clock >= deadline[c]
    BY <1>8 DEF CtxDone
  <2> QED
    BY <1>5, <2>1, <2>2 DEF Provider!Next, Provider!TimesOut
<1>9. CASE e \notin {"none", "context"}
  <2>1. OutcomeOf(c)' = "fault"
    BY <1>1, <1>9 DEF OutcomeOf
  <2> QED
    BY <1>5, <2>1 DEF Provider!Next, Provider!Fails
<1> QED
  BY <1>6, <1>7, <1>8, <1>9

\* A failed attempt that is retried is not seen, the last one is the result.
LEMMA FailSeen ==
  ASSUME TypeOK, TypeOK', NEW c \in Calls, NEW k \in Kinds, Fail(c, k),
         k = "context" => CtxDone(c)
  PROVE  [Provider!Next]_Provider!vars
<1>1. CASE Return(c, k)
  BY <1>1, ReturnSeen DEF Fail
<1>2. CASE ~Return(c, k)
  <2>1. /\ pc[c] = "inflight" /\ pc' = [pc EXCEPT ![c] = "backoff"]
        /\ err' = [err EXCEPT ![c] = k]
        /\ UNCHANGED <<clock, deadline, cancelled>>
    BY <1>2 DEF Fail
  <2>2. /\ pc'[c] = "backoff"
        /\ \A d \in Calls : d # c => pc'[d] = pc[d] /\ err'[d] = err[d]
    BY <2>1 DEF TypeOK
  <2> QED
    BY <2>1, <2>2, UnseenStep
<1> QED
  BY <1>1, <1>2

LEMMA AttemptSeen ==
  ASSUME TypeOK, TypeOK', NEW c \in Calls,
         \/ Interrupted(c) \/ Succeed(c) \/ FailConfig(c) \/ FailRemote(c)
         \/ FailDecode(c) \/ FailContext(c) \/ FailHung(c)
  PROVE  [Provider!Next]_Provider!vars
<1>1. CASE Interrupted(c)
  BY <1>1, ReturnSeen DEF Interrupted, Kinds
<1>2. CASE Succeed(c)
  BY <1>2, ReturnSeen DEF Succeed
<1>3. CASE FailRemote(c)
  BY <1>3, FailSeen DEF FailRemote, Kinds, Status
<1>4. CASE FailConfig(c) \/ FailDecode(c) \/ FailHung(c) \/ FailContext(c)
  BY <1>4, FailSeen DEF FailConfig, FailDecode, FailHung, FailContext, Kinds
<1> QED
  BY <1>1, <1>2, <1>3, <1>4

\* The limiter, a sleep and the next attempt take place inside the call.
LEMMA InsideSeen ==
  ASSUME TypeOK, TypeOK', NEW c \in Calls,
         Admit(c) \/ Throttle(c) \/ ThrottleEnds(c) \/ BackoffEnds(c)
  PROVE  UNCHANGED Provider!vars
<1>1. /\ pc[c] \in {"limiter", "throttled", "backoff"}
      /\ \E s \in {"limiter", "throttled", "inflight"} : pc' = [pc EXCEPT ![c] = s]
      /\ UNCHANGED <<clock, deadline, cancelled, err>>
  BY DEF Admit, Throttle, ThrottleEnds, BackoffEnds
<1>2. /\ pc[c] \notin {"idle", "done"} /\ pc'[c] \notin {"idle", "done"}
      /\ \A d \in Calls : d # c => pc'[d] = pc[d] /\ err'[d] = err[d]
  BY <1>1 DEF TypeOK
<1> QED
  BY <1>1, <1>2, UnseenStep

\* A call's one deadline is set when it begins.
LEMMA BeginSeen ==
  ASSUME TypeOK, TypeOK', NEW c \in Calls, Begin(c)
  PROVE  Provider!Start(c)
<1>1. /\ pc[c] = "idle" /\ pc' = [pc EXCEPT ![c] = "limiter"]
      /\ pc'[c] = "limiter"
      /\ deadline' = [deadline EXCEPT ![c] = clock + CallTimeout]
      /\ UNCHANGED <<clock, cancelled, err>>
  BY DEF Begin, TypeOK
<1>2. ASSUME NEW d \in Calls, d # c PROVE OutcomeOf(d)' = OutcomeOf(d)
  BY <1>1, <1>2 DEF OutcomeOf, TypeOK
<1>3. OutcomeOf(c) = "idle" /\ OutcomeOf(c)' = "pending"
  BY <1>1 DEF OutcomeOf
<1>4. Seen[c] = "idle" /\ Seen' = [Seen EXCEPT ![c] = "pending"]
  BY <1>2, <1>3 DEF Seen
<1> QED
  BY <1>1, <1>4 DEF Provider!Start, Seen

\* A client leaves only a call that is under way, so no result changes.
LEMMA CancelSeen ==
  ASSUME TypeOK, TypeOK', NEW c \in Calls, Cancel(c)
  PROVE  Provider!Disconnect(c)
<1>1. /\ pc[c] \notin {"idle", "done"} /\ ~cancelled[c]
      /\ cancelled' = [cancelled EXCEPT ![c] = TRUE]
      /\ UNCHANGED <<clock, deadline, pc, err>>
  BY DEF Cancel
<1>2. ASSUME NEW d \in Calls PROVE OutcomeOf(d)' = OutcomeOf(d)
  <2>1. CASE d = c
    BY <1>1, <2>1 DEF OutcomeOf
  <2>2. CASE d # c
    BY <1>1, <2>2 DEF OutcomeOf, TypeOK
  <2> QED
    BY <2>1, <2>2
<1>3. Seen[c] = "pending" /\ Seen' = Seen
  BY <1>1, <1>2, PendingSeen DEF Seen
<1> QED
  BY <1>1, <1>3 DEF Provider!Disconnect, Seen

LEMMA TickSeen ==
  ASSUME TypeOK, Tick
  PROVE  Provider!TimePasses
<1>1. /\ clock' = clock + 1 /\ UNCHANGED <<pc, err, deadline, cancelled>>
      /\ \A c \in Calls : pc[c] \notin {"idle", "done"} => clock < deadline[c]
  BY DEF Tick, callVars
<1>2. Seen' = Seen
  BY <1>1 DEF Seen, OutcomeOf
<1>3. \A c \in Calls : Seen[c] = "pending" => clock < deadline[c]
  BY <1>1, PendingSeen
<1> QED
  BY <1>1, <1>2, <1>3 DEF Provider!TimePasses, Seen

\* The limiter, the attempts and the backoffs of fetchJSON together are the
\* provider that the goroutines of Aggregator.Search call.
THEOREM ProviderRefinement == Spec => ImplementsProviderCall
<1>1. Init => Provider!Init
  <2> SUFFICES ASSUME Init PROVE Provider!Init
    OBVIOUS
  <2>1. \A c \in Calls : OutcomeOf(c) = "idle"
    BY DEF Init, OutcomeOf
  <2> QED
    BY <2>1 DEF Init, BucketInit, Provider!Init
<1>2. ASSUME TypeOK, TypeOK', [Next]_vars PROVE [Provider!Next]_Provider!vars
  <2>1. ASSUME NEW c \in Calls, Begin(c) \/ Cancel(c) PROVE Provider!Next
    BY <1>2, <2>1, BeginSeen, CancelSeen DEF Provider!Next
  <2>2. ASSUME NEW c \in Calls,
               Admit(c) \/ Throttle(c) \/ ThrottleEnds(c) \/ BackoffEnds(c)
        PROVE  UNCHANGED Provider!vars
    BY <1>2, <2>2, InsideSeen
  <2>3. ASSUME NEW c \in Calls,
               \/ Interrupted(c) \/ Succeed(c) \/ FailConfig(c) \/ FailRemote(c)
               \/ FailDecode(c) \/ FailContext(c) \/ FailHung(c)
        PROVE  [Provider!Next]_Provider!vars
    BY <1>2, <2>3, AttemptSeen
  <2>4. CASE Tick
    BY <1>2, <2>4, TickSeen DEF Provider!Next
  <2>5. CASE UNCHANGED vars
    BY <2>5 DEF vars, Provider!vars, OutcomeOf
  <2> QED
    BY <1>2, <2>1, <2>2, <2>3, <2>4, <2>5 DEF Next
<1> QED
  BY <1>1, <1>2, TypeCorrect, PTL DEF Spec, ImplementsProviderCall, Provider!Spec
===============================================================================
