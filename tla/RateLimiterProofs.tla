-------------------------- MODULE RateLimiterProofs --------------------------
(***************************************************************************)
(* What the token bucket guarantees for any number of callers, any rate    *)
(* and burst, over any length of time.                                     *)
(***************************************************************************)
EXTENDS RateLimiter, TokenBucketProofs

USE BucketAssumption, LimiterAssumption
-----------------------------------------------------------------------------
LEMMA BucketTyped ==
  ASSUME TypeOK
  PROVE  BucketTypeOK
BY DEF TypeOK

LEMMA AccountsWhole ==
  ASSUME Accounts, ExactRate
  PROVE  WholeTicks
BY DEF Accounts

LEMMA TypeStep ==
  ASSUME TypeOK, [Next]_vars
  PROVE  TypeOK'
<1> USE DEF TypeOK, BucketTypeOK
<1>1. ASSUME NEW c \in Callers, Wait(c) PROVE TypeOK'
  BY <1>1 DEF Wait
<1>2. ASSUME NEW c \in Callers, Admit(c) PROVE TypeOK'
  BY <1>2, BucketTyped, ReserveFacts DEF Admit
<1>3. ASSUME NEW c \in Callers, Sleep(c) PROVE TypeOK'
  <2>1. Delay \in Nat /\ tokens' \in Nat /\ tokens' <= Capacity /\ last' = clock
    BY <1>3, BucketTyped, ReserveFacts DEF Sleep
  <2> QED
    BY <1>3, <2>1 DEF Sleep
<1>4. ASSUME NEW c \in Callers, Fire(c) PROVE TypeOK'
  BY <1>4 DEF Fire
<1>5. ASSUME NEW c \in Callers, GiveUp(c) PROVE TypeOK'
  BY <1>5 DEF GiveUp
<1>6. CASE Tick
  BY <1>6 DEF Tick
<1>7. CASE UNCHANGED vars
  BY <1>7 DEF vars
<1> QED
  BY <1>1, <1>2, <1>3, <1>4, <1>5, <1>6, <1>7 DEF Next

LEMMA TypeInit ==
  ASSUME Init
  PROVE  TypeOK
BY CapacityType DEF Init, BucketInit, TypeOK, BucketTypeOK

\* The bucket is never in debt and never holds more than the burst.
THEOREM TypeCorrect == Spec => []TypeOK
BY TypeInit, TypeStep, PTL DEF Spec
-----------------------------------------------------------------------------
\* Timers: nobody sleeps beyond the moment a token is there.
THEOREM NoTokenIdles == Spec => []WorkConserving
<1>1. Init => TimersNotLate
  BY DEF Init, TimersNotLate
<1>2. TypeOK /\ TypeOK' /\ TimersNotLate /\ [Next]_vars => TimersNotLate'
  <2> SUFFICES ASSUME TypeOK, TypeOK', TimersNotLate, [Next]_vars,
                      NEW c \in Callers, pc'[c] = "timer", wake'[c] > last'
               PROVE  tokens' + Rate * (wake'[c] - last') <= Unit
    BY DEF TimersNotLate
  <2>1. ASSUME UNCHANGED <<tokens, last, wake>>, pc[c] = "timer"
        PROVE  tokens' + Rate * (wake'[c] - last') <= Unit
    BY <2>1 DEF TimersNotLate
  <2>2. ASSUME Reserve, pc[c] = "timer", wake'[c] = wake[c]
        PROVE  tokens' + Rate * (wake'[c] - last') <= Unit
    <3>1. last' = clock /\ tokens' <= tokens + Rate * (clock - last)
      BY <2>2, BucketTyped, RefilledFacts DEF Reserve, TypeOK, BucketTypeOK
    <3>2. wake[c] > clock /\ wake[c] > last
      BY <2>2, <3>1 DEF TypeOK, BucketTypeOK
    <3>3. tokens + Rate * (wake[c] - last) <= Unit
      BY <2>2, <3>2 DEF TimersNotLate
    <3>4. Rate * (wake[c] - last) = Rate * (wake[c] - clock) + Rate * (clock - last)
      BY EarnedAdds DEF TypeOK, BucketTypeOK
    <3>5. /\ Rate * (wake[c] - last) \in Int /\ Rate * (wake[c] - clock) \in Int
          /\ Rate * (clock - last) \in Int /\ tokens \in Int /\ tokens' \in Int
      BY DEF TypeOK, BucketTypeOK
    <3> QED
      BY <2>2, <3>1, <3>3, <3>4, <3>5
  <2>3. ASSUME NEW d \in Callers, Wait(d) \/ Fire(d) \/ GiveUp(d)
        PROVE  tokens' + Rate * (wake'[c] - last') <= Unit
    BY <2>1, <2>3 DEF Wait, Fire, GiveUp, TypeOK, BucketTypeOK
  <2>4. ASSUME NEW d \in Callers, Admit(d)
        PROVE  tokens' + Rate * (wake'[c] - last') <= Unit
    <3>1. d # c /\ pc[c] = "timer"
      BY <2>4 DEF Admit, TypeOK, BucketTypeOK
    <3> QED
      BY <2>2, <2>4, <3>1 DEF Admit
  <2>5. ASSUME NEW d \in Callers, Sleep(d)
        PROVE  tokens' + Rate * (wake'[c] - last') <= Unit
    <3>1. CASE c = d
      <4>1. wake'[c] - last' = Delay /\ tokens' + Rate * Delay <= Unit
        BY <2>5, <3>1, BucketTyped, ReserveFacts DEF Sleep, TypeOK, BucketTypeOK
      <4> QED
        BY <4>1
    <3>2. CASE c # d
      BY <2>2, <2>5, <3>2 DEF Sleep, TypeOK, BucketTypeOK
    <3> QED
      BY <3>1, <3>2
  <2>6. CASE Tick \/ UNCHANGED vars
    BY <2>1, <2>6 DEF Tick, vars
  <2> QED
    BY <2>3, <2>4, <2>5, <2>6 DEF Next
<1>3. TypeOK /\ TimersNotLate => WorkConserving
  <2> SUFFICES ASSUME TypeOK, TimersNotLate,
                      NEW c \in Callers, pc[c] = "timer", clock < wake[c]
               PROVE  Refilled < Unit
    BY DEF WorkConserving
  <2>1. tokens + Rate * (wake[c] - last) <= Unit
    BY DEF TimersNotLate, TypeOK, BucketTypeOK
  <2>2. Rate * (clock - last) + Rate <= Rate * (wake[c] - last)
    <3>1. clock \in Int /\ wake[c] \in Int /\ last \in Int
      BY DEF TypeOK, BucketTypeOK
    <3> QED
      BY <3>1, EarnedGrows
  <2>3. Refilled <= tokens + Rate * (clock - last) /\ Refilled \in Nat
    BY BucketTyped, RefilledFacts
  <2>4. /\ Rate * (wake[c] - last) \in Int /\ Rate * (clock - last) \in Int
        /\ tokens \in Int
    BY DEF TypeOK, BucketTypeOK
  <2> QED
    BY <2>1, <2>2, <2>3, <2>4
<1> QED
  BY <1>1, <1>2, <1>3, TypeCorrect, PTL DEF Spec
-----------------------------------------------------------------------------

\* One admission in the log: what has been given out since, and what is left,
\* is covered by the burst and by what was earned since.
Covered(i) ==
  /\ log[i] <= last
  /\ Unit * (Len(log) - i + 1) + tokens <= Capacity + Rate * (last - log[i])

\* A reserve that gives no token out keeps every admission covered.
LEMMA CoveredByRefill ==
  ASSUME TypeOK, NEW i \in 1..Len(log), Covered(i),
         log' = log, last' = clock, tokens' \in Nat,
         tokens' <= tokens + Rate * (clock - last)
  PROVE  Covered(i)'
<1>1. /\ log[i] \in Nat /\ Len(log) \in Nat /\ i \in Nat
      /\ clock \in Nat /\ last \in Nat /\ last <= clock /\ tokens \in Nat
  BY DEF TypeOK, BucketTypeOK
<1>2. Rate * (clock - log[i]) = Rate * (clock - last) + Rate * (last - log[i])
  BY <1>1, EarnedAdds
<1>3. /\ Rate * (clock - log[i]) \in Int /\ Rate * (clock - last) \in Int
      /\ Rate * (last - log[i]) \in Int
  BY <1>1
<1>4. Unit * (Len(log) - i + 1) \in Int /\ Capacity \in Int
  BY <1>1, CapacityType
<1>5. Unit * (Len(log) - i + 1) + tokens <= Capacity + Rate * (last - log[i])
  BY DEF Covered
<1>6. Unit * (Len(log) - i + 1) + tokens' <= Capacity + Rate * (clock - log[i])
  <2> DEFINE out == Unit * (Len(log) - i + 1)
             now == Rate * (clock - log[i])
             since == Rate * (clock - last)
             before == Rate * (last - log[i])
  <2>1. now \in Int /\ since \in Int /\ before \in Int /\ out \in Int
    BY <1>3, <1>4
  <2>2. now = since + before /\ out + tokens <= Capacity + before
    BY <1>2, <1>5
  <2>3. tokens' <= tokens + since
    OBVIOUS
  <2> HIDE DEF out, now, since, before
  <2>4. out + tokens' <= Capacity + (since + before)
    <3>1. tokens \in Int /\ tokens' \in Int /\ Capacity \in Int
      BY <1>1, <1>4
    <3> QED
      BY <2>1, <2>2, <2>3, <3>1, SumsAdd
  <2>5. out + tokens' <= Capacity + now
    BY <2>2, <2>4
  <2> QED
    BY <2>5 DEF out, now
<1> QED
  BY <1>1, <1>6 DEF Covered

\* An admission that takes a token keeps the earlier ones covered, and is
\* covered itself.
LEMMA CoveredByToken ==
  ASSUME TypeOK, NEW i \in 1..Len(log'),
         i \in 1..Len(log) => Covered(i),
         log' = Append(log, clock), last' = clock, Reserve, Refilled >= Unit
  PROVE  Covered(i)'
<1>1. /\ Len(log) \in Nat /\ Len(log') = Len(log) + 1 /\ i \in Nat
      /\ clock \in Nat /\ last \in Nat /\ last <= clock /\ tokens \in Nat
  BY DEF TypeOK, BucketTypeOK
<1>2. /\ Refilled \in Nat /\ Refilled <= Capacity /\ Capacity \in Nat
      /\ Refilled <= tokens + Rate * (clock - last)
      /\ tokens' = Refilled - Unit
  BY BucketTyped, RefilledFacts, CapacityType DEF Reserve
<1>3. CASE i = Len(log) + 1
  <2>1. log'[i] = clock
    BY <1>3 DEF TypeOK, BucketTypeOK
  <2>2. Unit * (Len(log') - i + 1) = Unit /\ Rate * (last' - log'[i]) = 0
    BY <1>1, <1>3, <2>1
  <2> QED
    BY <1>1, <1>2, <2>1, <2>2 DEF Covered
<1>4. CASE i \in 1..Len(log)
  <2>1. log'[i] = log[i] /\ log[i] \in Nat
    BY <1>4 DEF TypeOK, BucketTypeOK
  <2>2. log[i] <= last /\ Unit * (Len(log) - i + 1) + tokens <= Capacity + Rate * (last - log[i])
    BY <1>4 DEF Covered
  <2>3. Rate * (clock - log[i]) = Rate * (clock - last) + Rate * (last - log[i])
    BY <1>1, <2>1, EarnedAdds
  <2>4. Unit * (Len(log') - i + 1) = Unit * (Len(log) - i + 1) + Unit
    BY <1>1
  <2>5. /\ Rate * (clock - log[i]) \in Int /\ Rate * (clock - last) \in Int
        /\ Rate * (last - log[i]) \in Int /\ Unit * (Len(log) - i + 1) \in Int
    BY <1>1, <2>1
  <2>6. Unit * (Len(log') - i + 1) + tokens' <= Capacity + Rate * (clock - log[i])
    BY <1>1, <1>2, <2>2, <2>3, <2>4, <2>5
  <2>7. log[i] <= clock
    BY <1>1, <2>1, <2>2
  <2> QED
    BY <2>1, <2>6, <2>7 DEF Covered
<1> QED
  BY <1>1, <1>3, <1>4

LEMMA AccountsStep ==
  ASSUME TypeOK, TypeOK', Accounts, [Next]_vars
  PROVE  Accounts'
<1> SUFFICES ASSUME ExactRate
             PROVE  /\ WholeTicks'
                    /\ \A i \in 1..Len(log') : Covered(i)'
  BY DEF Accounts, Covered, ExactRate
<1>1. \A i \in 1..Len(log) : Covered(i)
  BY DEF Accounts, Covered
<1>2. WholeTicks
  BY DEF Accounts
<1>3. CASE UNCHANGED <<tokens, last, log>>
  BY <1>1, <1>2, <1>3 DEF Covered, WholeTicks
<1>4. ASSUME NEW c \in Callers, Admit(c)
      PROVE  /\ WholeTicks'
             /\ \A i \in 1..Len(log') : Covered(i)'
  <2>1. Reserve /\ Delay <= 0 /\ log' = Append(log, clock) /\ last' = clock
    BY <1>4 DEF Admit, Reserve
  <2>2. Refilled >= Unit
    BY <2>1, BucketTyped, AccountsWhole, AdmittedWithToken
  <2>3. \A i \in 1..Len(log') : Covered(i)'
    BY <1>1, <2>1, <2>2, CoveredByToken
  <2>4. WholeTicks'
    BY <2>1, BucketTyped, AccountsWhole, ReserveWhole
  <2> QED
    BY <2>3, <2>4
<1>5. ASSUME NEW c \in Callers, Sleep(c)
      PROVE  /\ WholeTicks'
             /\ \A i \in 1..Len(log') : Covered(i)'
  <2>1. Reserve /\ Delay > 0 /\ log' = log
    BY <1>5 DEF Sleep
  <2>2. tokens' \in Nat /\ last' = clock /\ tokens' = tokens + Rate * (clock - last)
    BY <2>1, BucketTyped, ReserveFacts
  <2>3. tokens' <= tokens + Rate * (clock - last)
    BY <2>2
  <2>4. \A i \in 1..Len(log') : Covered(i)'
    BY <1>1, <2>1, <2>2, <2>3, CoveredByRefill
  <2>5. WholeTicks'
    BY <2>1, BucketTyped, AccountsWhole, ReserveWhole
  <2> QED
    BY <2>4, <2>5
<1>6. ASSUME NEW c \in Callers, Wait(c) \/ Fire(c) \/ GiveUp(c)
      PROVE  UNCHANGED <<tokens, last, log>>
  BY <1>6 DEF Wait, Fire, GiveUp
<1>7. CASE Tick \/ UNCHANGED vars
  BY <1>3, <1>7 DEF Tick, vars
<1> QED
  BY <1>3, <1>4, <1>5, <1>6, <1>7 DEF Next

LEMMA AccountsInit ==
  ASSUME Init
  PROVE  Accounts
BY FullBucketWhole DEF Init, Accounts

\* No window of time sees more admissions than the burst and the rate allow.
THEOREM Conformance == Spec => []RateConformance
<1>1. TypeOK /\ TypeOK' /\ Accounts /\ Accounts' /\ RateConformance /\ [Next]_vars
        => RateConformance'
  <2> SUFFICES ASSUME TypeOK, TypeOK', Accounts, Accounts', RateConformance, [Next]_vars,
                      ExactRate,
                      NEW i \in 1..Len(log'), NEW j \in i..Len(log')
               PROVE  Unit * (j - i + 1) <= Capacity + Rate * (log'[j] - log'[i])
    BY DEF RateConformance, ExactRate, Capacity
  <2>1. log' = log \/ (log' = Append(log, clock) /\ last' = clock)
    BY DEF Next, vars, Wait, Admit, Sleep, Fire, GiveUp, Tick, Reserve
  <2>2. CASE j \in 1..Len(log) /\ i \in 1..Len(log)
    <3>1. \A n \in 1..Len(log) : log'[n] = log[n]
      <4>1. log \in Seq(Nat) /\ clock \in Nat
        BY DEF TypeOK, BucketTypeOK
      <4> QED
        BY <2>1, <4>1
    <3> QED
      BY <2>2, <3>1 DEF RateConformance
  <2>3. CASE log' = Append(log, clock) /\ last' = clock /\ j = Len(log')
    <3>1. log'[j] = last'
      BY <2>3 DEF TypeOK, BucketTypeOK
    <3>2. Unit * (Len(log') - i + 1) + tokens' <= Capacity + Rate * (last' - log'[i])
      BY DEF Accounts, ExactRate, Capacity
    <3>3. /\ tokens' \in Nat /\ Capacity \in Nat
          /\ Unit * (Len(log') - i + 1) \in Int /\ Rate * (last' - log'[i]) \in Int
      BY CapacityType DEF TypeOK, BucketTypeOK
    <3> QED
      BY <2>3, <3>1, <3>2, <3>3
  <2>4. \/ i \in 1..Len(log) /\ j \in 1..Len(log)
        \/ log' = Append(log, clock) /\ j = Len(log')
    BY <2>1 DEF TypeOK, BucketTypeOK
  <2> QED
    BY <2>1, <2>2, <2>3, <2>4
<1>2. Init => RateConformance
  BY DEF Init, RateConformance
<1>3. TypeOK /\ TypeOK' /\ Accounts /\ [Next]_vars => Accounts'
  BY AccountsStep
<1>4. Init => Accounts
  BY AccountsInit
<1> QED
  BY <1>1, <1>2, <1>3, <1>4, TypeCorrect, PTL DEF Spec
-----------------------------------------------------------------------------
LEMMA TimersNotEarlyStep ==
  ASSUME TypeOK, TypeOK', Accounts, TimersNotEarly, [Next]_vars
  PROVE  TimersNotEarly'
<1>1. \A c \in Callers : seen'[c] <= Len(log')
  <2>1. \A c \in Callers : seen[c] <= Len(log) /\ seen[c] \in Nat
    BY DEF TimersNotEarly, TypeOK, BucketTypeOK
  <2>2. (log' = log \/ log' = Append(log, clock)) /\ Len(log) \in Nat
    BY DEF Next, vars, Wait, Admit, Sleep, Fire, GiveUp, Tick, TypeOK, BucketTypeOK
  <2>3. Len(log') >= Len(log) /\ Len(log') \in Nat
    BY <2>2 DEF TypeOK, BucketTypeOK
  <2>4. \A c \in Callers : seen'[c] = seen[c] \/ seen'[c] = Len(log)
    BY DEF Next, vars, Wait, Admit, Sleep, Fire, GiveUp, Tick, TypeOK, BucketTypeOK
  <2> QED
    BY <2>1, <2>2, <2>3, <2>4
<1> SUFFICES ASSUME ExactRate, NEW c \in Callers, pc'[c] = "timer", seen'[c] = Len(log')
             PROVE  tokens' + Rate * (wake'[c] - last') >= Unit
  BY <1>1 DEF TimersNotEarly, ExactRate
<1>2. ASSUME pc[c] = "timer", seen[c] = Len(log), UNCHANGED <<tokens, last, wake>>
      PROVE  tokens' + Rate * (wake'[c] - last') >= Unit
  BY <1>2 DEF TimersNotEarly
<1>3. ASSUME NEW d \in Callers, Wait(d) \/ Fire(d) \/ GiveUp(d)
      PROVE  tokens' + Rate * (wake'[c] - last') >= Unit
  BY <1>2, <1>3 DEF Wait, Fire, GiveUp, TypeOK, BucketTypeOK
<1>4. CASE Tick \/ UNCHANGED vars
  BY <1>2, <1>4 DEF Tick, vars
<1>5. ASSUME NEW d \in Callers, Admit(d) PROVE FALSE
  <2>1. seen'[c] = seen[c] /\ Len(log') = Len(log) + 1 /\ Len(log) \in Nat
    BY <1>5 DEF Admit, TypeOK, BucketTypeOK
  <2>2. seen[c] <= Len(log) /\ seen[c] \in Nat
    BY DEF TimersNotEarly, TypeOK, BucketTypeOK
  <2>3. seen'[c] = Len(log')
    OBVIOUS
  <2> QED
    BY <2>1, <2>2, <2>3
<1>6. ASSUME NEW d \in Callers, Sleep(d)
      PROVE  tokens' + Rate * (wake'[c] - last') >= Unit
  <2>1. Reserve /\ Delay > 0 /\ log' = log
    BY <1>6 DEF Sleep
  <2>2. /\ Refilled < Unit /\ last' = clock /\ tokens' \in Nat /\ Delay \in Nat
        /\ tokens' = tokens + Rate * (clock - last)
    BY <2>1, BucketTyped, ReserveFacts
  <2>3. tokens' = Refilled
    <3>1. Refilled \in Nat /\ Refilled < Unit
      BY <2>2, BucketTyped, RefilledFacts
    <3> QED
      BY <2>1, <3>1 DEF Reserve
  <2>4. CASE c = d
    <3>1. Rate * Delay = Unit - Refilled
      BY <2>2, BucketTyped, AccountsWhole, ExactDelay
    <3>2. wake'[c] - last' = Delay
      BY <1>6, <2>2, <2>4 DEF Sleep, TypeOK, BucketTypeOK
    <3> QED
      BY <2>2, <2>3, <3>1, <3>2
  <2>5. CASE c # d
    <3>1. pc[c] = "timer" /\ seen[c] = Len(log) /\ wake'[c] = wake[c]
      BY <1>6, <2>1, <2>5 DEF Sleep, TypeOK, BucketTypeOK
    <3>2. tokens + Rate * (wake[c] - last) >= Unit
      BY <3>1 DEF TimersNotEarly
    <3>3. Rate * (wake[c] - last) = Rate * (wake[c] - clock) + Rate * (clock - last)
      <4>1. wake[c] \in Int /\ clock \in Int /\ last \in Int
        BY DEF TypeOK, BucketTypeOK
      <4> QED
        BY <4>1, EarnedAdds
    <3>4. /\ Rate * (wake[c] - clock) \in Int /\ Rate * (clock - last) \in Int
          /\ tokens \in Int
      BY DEF TypeOK, BucketTypeOK
    <3> QED
      BY <2>2, <3>1, <3>2, <3>3, <3>4
  <2> QED
    BY <2>4, <2>5
<1> QED
  BY <1>3, <1>4, <1>5, <1>6 DEF Next

\* When a timer fires there is a token, unless somebody else was admitted.
THEOREM TokenAtWake == Spec => []SleepIsEnough
<1>1. Init => TimersNotEarly
  BY DEF Init, TimersNotEarly
<1>2. TypeOK /\ TypeOK' /\ Accounts /\ TimersNotEarly /\ [Next]_vars => TimersNotEarly'
  BY TimersNotEarlyStep
<1>3. TypeOK /\ TimersNotEarly => SleepIsEnough
  <2> SUFFICES ASSUME TypeOK, TimersNotEarly, ExactRate,
                      NEW c \in Callers, pc[c] = "timer", clock >= wake[c],
                      ~(Len(log) > seen[c])
               PROVE  Refilled >= Unit
    BY DEF SleepIsEnough
  <2>1. seen[c] = Len(log)
    BY DEF TimersNotEarly, TypeOK, BucketTypeOK
  <2>2. tokens + Rate * (wake[c] - last) >= Unit
    BY <2>1 DEF TimersNotEarly
  <2>3. Rate * (clock - last) = Rate * (clock - wake[c]) + Rate * (wake[c] - last)
    BY EarnedAdds DEF TypeOK, BucketTypeOK
  <2>4. /\ Rate * (clock - wake[c]) \in Nat /\ Rate * (wake[c] - last) \in Int
        /\ Rate * (clock - last) \in Int /\ tokens \in Int
    BY EarnedType DEF TypeOK, BucketTypeOK
  <2>5. /\ Refilled \in Nat /\ Capacity \in Nat /\ Capacity >= Unit
        /\ Refilled < Capacity => Refilled = tokens + Rate * (clock - last)
    BY BucketTyped, RefilledFacts, CapacityType
  <2>6. CASE Refilled < Capacity
    BY <2>2, <2>3, <2>4, <2>5, <2>6
  <2>7. CASE ~(Refilled < Capacity)
    BY <2>5, <2>7
  <2> QED
    BY <2>6, <2>7
<1>4. TypeOK /\ TypeOK' /\ Accounts /\ [Next]_vars => Accounts'
  BY AccountsStep
<1>5. Init => Accounts
  BY AccountsInit
<1> QED
  BY <1>1, <1>2, <1>3, <1>4, <1>5, TypeCorrect, PTL DEF Spec
===============================================================================
