-------------------------------- MODULE Fetch --------------------------------
(***************************************************************************)
(* Calls of one provider's resilientClient.fetchJSON                       *)
(* (internal/providers/http.go), with the retry loop of                    *)
(* internal/retry/retry.go inlined, sharing that provider's token bucket.  *)
(*                                                                         *)
(* Of a response only its class and whether its body sets some optional    *)
(* field are kept.  A call decodes every attempt into the same variable.   *)
(***************************************************************************)
EXTENDS TokenBucket, FiniteSets

CONSTANTS
  Calls,
  Impatient,      \* bound: the calls whose client may disconnect
  Configs,        \* retry configurations: [max, base, cap]
  DefaultConfig,  \* retry.DefaultConfig()
  JitterParts,    \* a backoff of d ticks gets 0 to d \div JitterParts more
  Width,          \* bits of a time.Duration
  HTTPTimeout,    \* http.Client.Timeout, in ticks
  CallTimeout,    \* the context's deadline, in ticks from the call's start
  MaxTime         \* bound: no call begins later

ASSUME FetchAssumption ==
  /\ Impatient \subseteq Calls
  /\ Configs \cup {DefaultConfig} \subseteq [max : Int, base : Int, cap : Int]
  /\ JitterParts \in Nat \ {0} /\ Width \in Nat \ {0}
  /\ HTTPTimeout \in Nat /\ CallTimeout \in Nat /\ MaxTime \in Nat

VARIABLES
  given,      \* the retry configuration the client was built with
  badURL,     \* whether the provider's endpoint cannot be parsed
  pc,         \* call -> "idle", "limiter", "throttled", "inflight", "backoff", "done"
  attempt,    \* call -> number of the attempt under way
  deadline,   \* call -> its context's deadline
  cancelled,  \* call -> whether its client has gone
  sentAt,     \* call -> when its last attempt was let through
  wake,       \* call -> when the timer it sleeps on fires
  err,        \* call -> lastErr, "none" before any and on success
  filled,     \* call -> the attempt that last set the optional field of out, or 0
  sends       \* call -> attempts let through by the limiter

callVars == <<given, badURL, pc, attempt, deadline, cancelled, sentAt, wake,
              err, filled, sends>>
vars == <<clock, tokens, last, given, badURL, pc, attempt, deadline, cancelled,
          sentAt, wake, err, filled, sends>>

\* How an attempt can fail.
Status == {"client_error", "too_many_requests", "server_error"}
Kinds == Status \cup {"config", "network", "bad_json", "hung", "context"}
-----------------------------------------------------------------------------
\* Pure parts.

\* Wrong on purpose: only the number of attempts gets its default.
ConfigKeepingDelays ==
  IF given.max = 0 THEN [given EXCEPT !.max = DefaultConfig.max] ELSE given

\* newResilientClient: a zero MaxAttempts replaces the whole configuration.
Config == IF given.max = 0 THEN DefaultConfig ELSE given

\* Do: at least one attempt.
MaxAttempts == IF Config.max < 1 THEN 1 ELSE Config.max

\* Wrong on purpose: every status but 429 is taken for transient.
RetryingClientErrors(k) == k \notin {"config", "too_many_requests"}

\* isRetryableHTTPError.
IsRetryableHTTPError(k) == k \notin {"config", "client_error"}

\* IsRetryable: an http.Client timeout answers errors.Is(DeadlineExceeded).
IsRetryable(k) == k \notin {"context", "hung"}

Retryable(k) == IsRetryableHTTPError(k) /\ IsRetryable(k)

\* An int64 shift keeps the low bits and reads the highest as the sign.
Wrap(n) == LET half == 2 ^ (Width - 1) IN ((n + half) % (2 * half)) - half

\* Wrong on purpose: the delay doubles from the second retry on.
LateBackoff(n) ==
  LET shifted == Wrap(Config.base * 2 ^ (IF n > 1 THEN n - 2 ELSE 0))
      delay == IF Config.cap > 0 /\ shifted > Config.cap THEN Config.cap ELSE shifted
  IN  IF delay <= 0 THEN {0} ELSE delay..(delay + delay \div JitterParts)

\* Wrong on purpose: the cap is applied before the shift.
BackoffCappedFirst(n) ==
  LET base == IF Config.cap > 0 /\ Config.base > Config.cap THEN Config.cap ELSE Config.base
      delay == Wrap(base * 2 ^ (n - 1))
  IN  IF delay <= 0 THEN {0} ELSE delay..(delay + delay \div JitterParts)

\* The delays backoffDelay may return after attempt n.
BackoffDelay(n) ==
  LET shifted == Wrap(Config.base * 2 ^ (n - 1))
      delay == IF Config.cap > 0 /\ shifted > Config.cap THEN Config.cap ELSE shifted
  IN  IF delay <= 0 THEN {0} ELSE delay..(delay + delay \div JitterParts)

CtxDone(c) == cancelled[c] \/ clock >= deadline[c]
-----------------------------------------------------------------------------
Init ==
  /\ BucketInit
  /\ given \in Configs
  /\ badURL \in BOOLEAN
  /\ pc = [c \in Calls |-> "idle"]
  /\ attempt = [c \in Calls |-> 1]
  /\ deadline = [c \in Calls |-> 0]
  /\ cancelled = [c \in Calls |-> FALSE]
  /\ sentAt = [c \in Calls |-> 0]
  /\ wake = [c \in Calls |-> 0]
  /\ err = [c \in Calls |-> "none"]
  /\ filled = [c \in Calls |-> 0]
  /\ sends = [c \in Calls |-> 0]

Begin(c) ==
  /\ pc[c] = "idle"
  /\ clock <= MaxTime
  /\ pc' = [pc EXCEPT ![c] = "limiter"]
  /\ deadline' = [deadline EXCEPT ![c] = clock + CallTimeout]
  /\ UNCHANGED <<clock, tokens, last, given, badURL, attempt, cancelled, sentAt,
                 wake, err, filled, sends>>

\* The limiter's Wait returns nil: the request goes out.
Admit(c) ==
  /\ pc[c] = "limiter"
  /\ Delay <= 0
  /\ Reserve
  /\ pc' = [pc EXCEPT ![c] = "inflight"]
  /\ sentAt' = [sentAt EXCEPT ![c] = clock]
  /\ sends' = [sends EXCEPT ![c] = @ + 1]
  /\ UNCHANGED <<clock, given, badURL, attempt, deadline, cancelled, wake, err, filled>>

Throttle(c) ==
  /\ pc[c] = "limiter"
  /\ Delay > 0
  /\ Reserve
  /\ pc' = [pc EXCEPT ![c] = "throttled"]
  /\ wake' = [wake EXCEPT ![c] = clock + Delay]
  /\ UNCHANGED <<clock, given, badURL, attempt, deadline, cancelled, sentAt, err,
                 filled, sends>>

\* The limiter's timer fires: another reserve.
ThrottleEnds(c) ==
  /\ pc[c] = "throttled"
  /\ clock >= wake[c]
  /\ pc' = [pc EXCEPT ![c] = "limiter"]
  /\ UNCHANGED <<clock, tokens, last, given, badURL, attempt, deadline, cancelled,
                 sentAt, wake, err, filled, sends>>

\* The call returns e.
Return(c, e) ==
  /\ pc' = [pc EXCEPT ![c] = "done"]
  /\ err' = [err EXCEPT ![c] = e]
  /\ UNCHANGED <<clock, tokens, last, given, badURL, attempt, deadline, cancelled,
                 sentAt, wake, sends>>

\* ctx.Done wins the select of the limiter or of the backoff: the context's
\* error is returned, and retried by nobody.
Interrupted(c) ==
  /\ pc[c] \in {"throttled", "backoff"}
  /\ CtxDone(c)
  /\ Return(c, "context")
  /\ UNCHANGED filled

\* The attempt succeeds, with a body that sets the optional field or does not.
\* A context that is done does not rule it out: the response may be in already.
Succeed(c) ==
  /\ pc[c] = "inflight"
  /\ ~badURL
  /\ \E set \in BOOLEAN :
       filled' = [filled EXCEPT ![c] = IF set THEN attempt[c] ELSE @]
  /\ Return(c, "none")

\* Wrong on purpose: one attempt too many.
FailOnceMore(c, k) ==
  /\ pc[c] = "inflight"
  /\ IF ~Retryable(k) \/ attempt[c] = MaxAttempts + 1
     THEN Return(c, k)
     ELSE /\ pc' = [pc EXCEPT ![c] = "backoff"]
          /\ err' = [err EXCEPT ![c] = k]
          /\ \E delay \in BackoffDelay(attempt[c]) :
               wake' = [wake EXCEPT ![c] = clock + delay]
          /\ UNCHANGED <<clock, tokens, last, given, badURL, attempt, deadline,
                         cancelled, sentAt, sends>>

\* The attempt fails: the call returns the error, or backs off.
Fail(c, k) ==
  /\ pc[c] = "inflight"
  /\ IF ~Retryable(k) \/ attempt[c] = MaxAttempts
     THEN Return(c, k)
     ELSE /\ pc' = [pc EXCEPT ![c] = "backoff"]
          /\ err' = [err EXCEPT ![c] = k]
          /\ \E delay \in BackoffDelay(attempt[c]) :
               wake' = [wake EXCEPT ![c] = clock + delay]
          /\ UNCHANGED <<clock, tokens, last, given, badURL, attempt, deadline,
                         cancelled, sentAt, sends>>

\* url.Parse fails, before anything is sent.
FailConfig(c) == badURL /\ Fail(c, "config") /\ UNCHANGED filled

\* The provider answers with a status, or the connection fails.
FailRemote(c) ==
  /\ ~badURL
  /\ \E k \in Status \cup {"network"} : Fail(c, k)
  /\ UNCHANGED filled

\* A syntax error in the body is found before anything is decoded; an element
\* of the wrong type only after the rest has been decoded.
FailDecode(c) ==
  /\ ~badURL
  /\ Fail(c, "bad_json")
  /\ \E set \in BOOLEAN :
       filled' = [filled EXCEPT ![c] = IF set THEN attempt[c] ELSE @]

\* Wrong on purpose: the request is not made with the context, so that only
\* the client's own timeout ends it.
FailWithoutContext(c) ==
  /\ ~badURL
  /\ CtxDone(c) /\ HTTPTimeout > 0 /\ clock >= sentAt[c] + HTTPTimeout
  /\ Fail(c, "context")
  /\ UNCHANGED filled

\* The context ends the request.
FailContext(c) ==
  /\ ~badURL
  /\ CtxDone(c)
  /\ Fail(c, "context")
  /\ UNCHANGED filled

\* http.Client.Timeout ends the request; zero means none.
FailHung(c) ==
  /\ ~badURL
  /\ HTTPTimeout > 0
  /\ clock >= sentAt[c] + HTTPTimeout
  /\ Fail(c, "hung")
  /\ UNCHANGED filled

\* Wrong on purpose: a retry goes out without asking the limiter again.
BackoffEndsUnlimited(c) ==
  /\ pc[c] = "backoff"
  /\ clock >= wake[c]
  /\ pc' = [pc EXCEPT ![c] = "inflight"]
  /\ attempt' = [attempt EXCEPT ![c] = @ + 1]
  /\ sentAt' = [sentAt EXCEPT ![c] = clock]
  /\ sends' = [sends EXCEPT ![c] = @ + 1]
  /\ UNCHANGED <<clock, tokens, last, given, badURL, deadline, cancelled, wake, err, filled>>

\* Wrong on purpose: the timeout is one for each attempt, not for the call.
BackoffEndsRenewed(c) ==
  /\ pc[c] = "backoff"
  /\ clock >= wake[c]
  /\ pc' = [pc EXCEPT ![c] = "limiter"]
  /\ attempt' = [attempt EXCEPT ![c] = @ + 1]
  /\ deadline' = [deadline EXCEPT ![c] = clock + CallTimeout]
  /\ UNCHANGED <<clock, tokens, last, given, badURL, cancelled, sentAt, wake, err, filled,
                 sends>>

\* The backoff timer fires: the next attempt begins at the limiter.
BackoffEnds(c) ==
  /\ pc[c] = "backoff"
  /\ clock >= wake[c]
  /\ pc' = [pc EXCEPT ![c] = "limiter"]
  /\ attempt' = [attempt EXCEPT ![c] = @ + 1]
  /\ UNCHANGED <<clock, tokens, last, given, badURL, deadline, cancelled, sentAt,
                 wake, err, filled, sends>>

Cancel(c) ==
  /\ c \in Impatient
  /\ pc[c] \notin {"idle", "done"}
  /\ ~cancelled[c]
  /\ cancelled' = [cancelled EXCEPT ![c] = TRUE]
  /\ UNCHANGED <<clock, tokens, last, given, badURL, pc, attempt, deadline, sentAt,
                 wake, err, filled, sends>>

\* Local steps take no time at a call's deadline: the clock waits there until
\* the call has returned.
Tick ==
  /\ clock <= MaxTime \/ \E c \in Calls : pc[c] \notin {"idle", "done"}
  /\ \A c \in Calls : pc[c] \notin {"idle", "done"} => clock < deadline[c]
  /\ clock' = clock + 1
  /\ UNCHANGED <<tokens, last>>
  /\ UNCHANGED callVars

Next ==
  \/ \E c \in Calls :
       \/ Begin(c) \/ Admit(c) \/ Throttle(c) \/ ThrottleEnds(c) \/ Interrupted(c)
       \/ Succeed(c) \/ FailConfig(c) \/ FailRemote(c) \/ FailDecode(c)
       \/ FailContext(c) \/ FailHung(c) \/ BackoffEnds(c) \/ Cancel(c)
  \/ Tick

Spec == Init /\ [][Next]_vars

\* Goroutines run, timers fire, a context that is done is noticed, an endpoint
\* that cannot be parsed fails.  The provider need never answer.
Fairness ==
  /\ WF_vars(Tick)
  /\ \A c \in Calls :
       /\ WF_vars(Admit(c)) /\ WF_vars(Throttle(c)) /\ WF_vars(ThrottleEnds(c))
       /\ WF_vars(Interrupted(c)) /\ WF_vars(BackoffEnds(c))
       /\ WF_vars(FailContext(c)) /\ WF_vars(FailConfig(c))

FairSpec == Spec /\ Fairness
-----------------------------------------------------------------------------
\* Every variable has its type, and no call makes more attempts than allowed.
TypeOK ==
  /\ BucketTypeOK
  /\ given \in Configs /\ badURL \in BOOLEAN
  /\ pc \in [Calls -> {"idle", "limiter", "throttled", "inflight", "backoff", "done"}]
  /\ attempt \in [Calls -> 1..MaxAttempts]
  /\ cancelled \in [Calls -> BOOLEAN]
  /\ \A f \in {deadline, sentAt, wake, filled, sends} : f \in [Calls -> Nat]
  /\ err \in [Calls -> Kinds \cup {"none"}]

\* README.md:364-368: network errors, decoding hiccups, 5xx and 429.
Transient == {"network", "bad_json", "server_error", "too_many_requests"}

\* A call makes another attempt only after a transient failure, returns such a
\* failure only when it has no attempt left, and says that its context ended
\* only when it did (http.go:47-72, retry.go:33-73).
OnlyTransientRetried ==
  \A c \in Calls :
    /\ (attempt[c] > 1 /\ pc[c] # "done") => err[c] \in Transient
    /\ (pc[c] = "done" /\ err[c] \in Transient) => attempt[c] = MaxAttempts
    /\ (pc[c] = "done" /\ err[c] = "context") => CtxDone(c)

\* The attempts let through so far, numbered per call.
Sent == UNION {{c} \X (1..sends[c]) : c \in Calls}

\* Every attempt, first or retry, is paid for at the limiter: what all the
\* calls together send stays within the burst and the rate (http.go:64).
SendsArePaid ==
  ExactRate => Unit * Cardinality(Sent) <= Capacity + Rate * clock

\* The configuration that was asked for: the default, whole, if none was.
Configured == IF given.max = 0 THEN DefaultConfig ELSE given

\* README.md:361-363: base before the first retry, doubling, capped.
Doubled(n) == Configured.base * 2 ^ (n - 1)
Promised(n) ==
  IF Configured.cap > 0 /\ Doubled(n) > Configured.cap THEN Configured.cap ELSE Doubled(n)

\* The shift does not overflow.
Fits(n) == -(2 ^ (Width - 1)) <= Doubled(n) /\ Doubled(n) < 2 ^ (Width - 1)

\* As long as the shift does not overflow, no attempt begins before the
\* promised backoff since the one before it was sent has passed, whether the
\* configuration was given or is the default one
\* (http.go:26-28, retry.go:63-71, 83-93).
BackoffRespected ==
  [][\A c \in Calls :
       (attempt'[c] > attempt[c] /\ Fits(attempt[c])) =>
         clock >= sentAt[c] + Promised(attempt[c])]_vars

\* d and the most jitter there can be on it.
WithJitter(d) == IF d > 0 THEN d + d \div JitterParts ELSE 0

\* No backoff is longer than the promised one and its jitter, and where there is
\* a cap, none is longer than the cap and its jitter, not even after so many
\* attempts that the shift overflows (retry.go:83-93).
BackoffBounded ==
  \A c \in Calls : pc[c] = "backoff" =>
    /\ Fits(attempt[c]) => wake[c] <= clock + WithJitter(Promised(attempt[c]))
    /\ Configured.cap > 0 => wake[c] <= clock + WithJitter(Configured.cap)

\* What keeps these right, part by part.  A call backs off from a transient
\* failure with an attempt left.
BackingOff ==
  \A c \in Calls :
    pc[c] = "backoff" => err[c] \in Transient /\ attempt[c] < MaxAttempts

\* Its timer is set no earlier than promised, counted from its last attempt.
TimersKeepPromise ==
  \A c \in Calls :
    /\ sentAt[c] <= clock
    /\ (pc[c] = "backoff" /\ Fits(attempt[c])) =>
         wake[c] >= sentAt[c] + Promised(attempt[c])

\* What was sent and what is left come from the burst and from what was earned.
Paid ==
  /\ IsFiniteSet(Sent)
  /\ ExactRate =>
       /\ WholeTicks
       /\ Unit * Cardinality(Sent) + tokens <= Capacity + Rate * last

FetchInv ==
  /\ TypeOK
  /\ BackingOff
  /\ OnlyTransientRetried
  /\ TimersKeepPromise
  /\ BackoffBounded
  /\ Paid

\* What a call looks like to the goroutine that made it.  When the context was
\* both cancelled and past its deadline, either error may stand for it.
OutcomeOf(c) ==
  CASE pc[c] = "idle" -> "idle"
    [] pc[c] \notin {"idle", "done"} -> "pending"
    [] pc[c] = "done" /\ err[c] = "none" -> "ok"
    [] pc[c] = "done" /\ err[c] = "context" -> IF cancelled[c] THEN "canceled" ELSE "deadline"
    [] pc[c] = "done" /\ err[c] \notin {"none", "context"} -> "fault"

Provider == INSTANCE ProviderCall WITH
  now <- clock,
  slot <- [c \in Calls |-> OutcomeOf(c)],
  Timeout <- CallTimeout

\* Limiter, attempts and backoffs together keep the contract that Aggregator's
\* goroutines rely on: one result, an error of the context only when it is
\* done, and one deadline for all attempts (aggregator.go:44-50 with
\* http.go:47-95 and retry.go:33-78).
ImplementsProviderCall == Provider!Spec

\* Every call returns, by its deadline since the clock waits there, whatever
\* the provider does and however many calls share the limiter (aggregator.go:46
\* with limiter.go:44, http.go:86, retry.go:67).
CallReturns ==
  \A c \in Calls : pc[c] = "limiter" ~> pc[c] = "done"
-----------------------------------------------------------------------------
\* README.md:374-377: a timeout per attempt "lets a hung request fail fast
\* enough to leave room for the next retry".  A call would return that failure
\* only when it has no attempt left.
HungAttemptRetried ==
  \A c \in Calls : (pc[c] = "done" /\ err[c] = "hung") => attempt[c] = MaxAttempts

\* README.md:282-286: optional fields that are missing get zero values.  What a
\* successful call decoded would come from the response that succeeded alone.
ResultFromOneResponse ==
  \A c \in Calls : (pc[c] = "done" /\ err[c] = "none") => filled[c] \in {0, attempt[c]}
==============================================================================
