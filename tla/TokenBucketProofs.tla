--------------------------- MODULE TokenBucketProofs ---------------------------
(***************************************************************************)
(* The token bucket, for any rate and any burst: what a call of reserve    *)
(* keeps and what it returns.  RateLimiterProofs and FetchProofs rest on   *)
(* these facts.                                                            *)
(***************************************************************************)
EXTENDS TokenBucket, TLAPS

USE BucketAssumption
-----------------------------------------------------------------------------
\* Arithmetic the provers need spelled out.
LEMMA EarnedAdds ==
  ASSUME NEW a \in Int, NEW b \in Int, NEW c \in Int
  PROVE  Rate * (a - c) = Rate * (a - b) + Rate * (b - c)
OBVIOUS

LEMMA EarnedSum ==
  ASSUME NEW a \in Int, NEW b \in Int
  PROVE  /\ Rate * (a + b) = Rate * a + Rate * b
         /\ Rate * (a - b) = Rate * a - Rate * b
         /\ Rate * a \in Int
OBVIOUS

LEMMA SumsAdd ==
  ASSUME NEW out \in Int, NEW t \in Int, NEW u \in Int, NEW cap \in Int,
         NEW since \in Int, NEW before \in Int,
         out + t <= cap + before, u <= t + since
  PROVE  out + u <= cap + (since + before)
OBVIOUS

LEMMA EarnedPositive ==
  ASSUME NEW a \in Int, Rate * a >= 0
  PROVE  a \in Nat /\ a <= Rate * a
OBVIOUS

LEMMA EarnedType ==
  ASSUME NEW a \in Nat
  PROVE  Rate * a \in Nat
OBVIOUS

LEMMA EarnedGrows ==
  ASSUME NEW a \in Int, NEW b \in Int, NEW c \in Int, a < b
  PROVE  Rate * (a - c) + Rate <= Rate * (b - c)
<1>1. Rate * (b - a) >= Rate
  OBVIOUS
<1>2. Rate * (b - c) = Rate * (a - c) + Rate * (b - a)
  OBVIOUS
<1> QED
  BY <1>1, <1>2

\* The truncated quotient, and the exact one.
LEMMA Truncated ==
  ASSUME NEW a \in Nat
  PROVE  /\ a \div Rate \in Nat
         /\ Rate * (a \div Rate) <= a
         /\ a < Rate * (a \div Rate) + Rate
OBVIOUS

LEMMA Exact ==
  ASSUME NEW m \in Nat
  PROVE  (Rate * m) \div Rate = m
OBVIOUS

LEMMA CapacityType == Capacity \in Nat /\ Capacity >= Unit
<1>1. ASSUME NEW n \in Nat \ {0} PROVE Unit * n \in Nat /\ Unit * n >= Unit
  OBVIOUS
<1>2. (IF Burst < 1 THEN 1 ELSE Burst) \in Nat \ {0}
  OBVIOUS
<1> QED
  BY <1>1, <1>2 DEF Capacity

LEMMA RefilledFacts ==
  ASSUME BucketTypeOK
  PROVE  /\ Refilled \in Nat
         /\ Refilled <= Capacity
         /\ Refilled <= tokens + Rate * (clock - last)
         /\ Refilled < Capacity => Refilled = tokens + Rate * (clock - last)
<1>1. clock - last \in Nat
  BY DEF BucketTypeOK
<1>2. Rate * (clock - last) \in Nat
  BY <1>1, EarnedType
<1>3. tokens \in Nat /\ tokens <= Capacity
  BY DEF BucketTypeOK
<1> QED
  BY <1>2, <1>3, CapacityType DEF Refilled

\* What one call of reserve does to a well-typed bucket.
LEMMA ReserveFacts ==
  ASSUME BucketTypeOK, Reserve
  PROVE  /\ tokens' \in Nat /\ tokens' <= Capacity
         /\ last' = clock
         /\ Delay \in Nat
         /\ Delay > 0 => Refilled < Unit /\ tokens' = tokens + Rate * (clock - last)
         /\ Delay > 0 => tokens' + Rate * Delay <= Unit
<1>1. /\ Refilled \in Nat /\ Refilled <= Capacity
      /\ Refilled < Capacity => Refilled = tokens + Rate * (clock - last)
  BY RefilledFacts
<1>2. Capacity \in Nat /\ Capacity >= Unit
  BY CapacityType
<1>3. tokens' \in Nat /\ tokens' <= Capacity /\ last' = clock
  BY <1>1, <1>2 DEF Reserve
<1>4. CASE Refilled >= Unit
  BY <1>3, <1>4 DEF Delay
<1>5. CASE Refilled < Unit
  <2>1. /\ Delay \in Nat
        /\ Rate * Delay <= Unit - Refilled
    <3>1. Unit - Refilled \in Nat
      BY <1>1, <1>5
    <3>2. Delay = (Unit - Refilled) \div Rate
      BY <1>1, <1>5 DEF Delay
    <3> QED
      BY <3>1, <3>2, Truncated
  <2>2. tokens' = Refilled /\ Refilled = tokens + Rate * (clock - last)
    BY <1>1, <1>2, <1>5 DEF Reserve
  <2> QED
    BY <1>1, <1>3, <1>5, <2>1, <2>2
<1> QED
  BY <1>1, <1>4, <1>5

\* Admissions.  With ExactRate the bucket always holds a whole number of
\* ticks' earnings, so the delay for a token that is short is exact.
LEMMA ExactDelay ==
  ASSUME BucketTypeOK, WholeTicks, ExactRate, Refilled < Unit
  PROVE  Delay > 0 /\ Rate * Delay = Unit - Refilled
<1>1. /\ Refilled \in Nat /\ Capacity \in Nat
      /\ Refilled < Capacity => Refilled = tokens + Rate * (clock - last)
      /\ Capacity >= Unit
  BY RefilledFacts, CapacityType
<1>2. Refilled < Unit
  OBVIOUS
<1>3. PICK m \in Nat : tokens = Rate * m
  <2>1. \E m \in 0..tokens : tokens = Rate * m
    BY DEF WholeTicks
  <2>2. 0..tokens \subseteq Nat
    BY DEF BucketTypeOK
  <2> QED
    BY <2>1, <2>2
<1>4. PICK n \in Nat : Unit = Rate * n
  BY DEF ExactRate
<1>5. Refilled = Rate * m + Rate * (clock - last)
  BY <1>1, <1>2, <1>3
<1>6. Unit - Refilled = Rate * (n - m - (clock - last))
  <2>1. clock - last \in Int /\ n - m \in Int
    BY DEF BucketTypeOK
  <2>2. Rate * (n - m - (clock - last)) = Rate * (n - m) - Rate * (clock - last)
    BY <2>1, EarnedSum
  <2>3. Rate * (n - m) = Rate * n - Rate * m
    BY EarnedSum
  <2>4. Rate * n \in Int /\ Rate * m \in Int /\ Rate * (clock - last) \in Int
    BY <2>1, EarnedSum
  <2> QED
    BY <1>4, <1>5, <2>2, <2>3, <2>4
<1> DEFINE short == n - m - (clock - last)
<1>7. short \in Int /\ Rate * short > 0
  BY <1>1, <1>2, <1>6 DEF BucketTypeOK
<1>8. short \in Nat /\ short > 0
  <2> HIDE DEF short
  <2> QED
    BY <1>7
<1>9. Delay = (Rate * short) \div Rate
  BY <1>1, <1>2, <1>6 DEF Delay
<1>10. Delay = short
  BY <1>8, <1>9, Exact
<1> QED
  BY <1>6, <1>8, <1>10

\* So a caller is admitted only with a token.
LEMMA AdmittedWithToken ==
  ASSUME BucketTypeOK, WholeTicks, ExactRate, Delay <= 0
  PROVE  Refilled >= Unit
<1>1. Refilled \in Nat
  BY RefilledFacts
<1> QED
  BY <1>1, ExactDelay DEF Delay

\* A reserve leaves a whole number of ticks' earnings.
LEMMA ReserveWhole ==
  ASSUME BucketTypeOK, WholeTicks, ExactRate, Reserve
  PROVE  WholeTicks'
<1>0. tokens' \in Nat
  BY ReserveFacts
<1>1. PICK m \in Nat : tokens = Rate * m
  <2>1. \E m \in 0..tokens : tokens = Rate * m
    BY DEF WholeTicks
  <2>2. 0..tokens \subseteq Nat
    BY DEF BucketTypeOK
  <2> QED
    BY <2>1, <2>2
<1>2. PICK n \in Nat : Unit = Rate * n
  BY DEF ExactRate
<1>3. PICK b \in Nat : Capacity = Unit * b
  BY DEF Capacity
<1>4. Capacity = Rate * (n * b)
  BY <1>2, <1>3
<1>5. \E j \in Int : Refilled = Rate * j
  <2>1. Refilled = Capacity \/ Refilled = tokens + Rate * (clock - last)
    BY DEF Refilled
  <2>2. tokens + Rate * (clock - last) = Rate * (m + (clock - last))
    BY <1>1 DEF BucketTypeOK
  <2>3. n * b \in Int /\ m + (clock - last) \in Int
    BY DEF BucketTypeOK
  <2> QED
    BY <1>4, <2>1, <2>2, <2>3
<1>6. PICK j \in Int : Refilled = Rate * j
  BY <1>5
<1>7. Refilled - Unit = Rate * (j - n)
  BY <1>2, <1>6, EarnedSum
<1>8. \E i \in Int : tokens' = Rate * i
  <2>1. j - n \in Int
    OBVIOUS
  <2>2. tokens' = Refilled \/ tokens' = Refilled - Unit
    BY DEF Reserve
  <2> QED
    BY <1>6, <1>7, <2>1, <2>2
<1>9. PICK i \in Int : tokens' = Rate * i
  BY <1>8
<1>10. i \in Nat /\ i <= tokens'
  BY <1>0, <1>9, EarnedPositive
<1> QED
  BY <1>0, <1>9, <1>10 DEF WholeTicks

\* And a full bucket holds such an amount.
LEMMA FullBucketWhole ==
  ASSUME BucketInit, ExactRate
  PROVE  WholeTicks
<1>1. PICK n \in Nat : Unit = Rate * n
  BY DEF ExactRate
<1>2. PICK b \in Nat : Capacity = Unit * b
  BY DEF Capacity
<1>3. Capacity = Rate * (n * b) /\ n * b \in Nat
  BY <1>1, <1>2
<1>4. n * b <= Capacity
  BY <1>3, EarnedPositive, CapacityType
<1> QED
  BY <1>3, <1>4, CapacityType DEF BucketInit, WholeTicks

\* If n tokens given out and what is left come from the burst and from what was
\* earned, that is still so when one more is given out, and when none is.
LEMMA TokenPaid ==
  ASSUME BucketTypeOK, Reserve, Refilled >= Unit, NEW n \in Nat,
         Unit * n + tokens <= Capacity + Rate * last
  PROVE  Unit * (n + 1) + tokens' <= Capacity + Rate * last'
<1>1. /\ Refilled \in Nat /\ Refilled <= tokens + Rate * (clock - last)
      /\ tokens' = Refilled - Unit /\ last' = clock
  BY RefilledFacts DEF Reserve
<1>2. /\ clock \in Nat /\ last \in Nat /\ tokens \in Nat /\ Capacity \in Nat
  BY CapacityType DEF BucketTypeOK
<1>3. Rate * clock = Rate * (clock - last) + Rate * last
  BY <1>2, EarnedSum
<1>4. /\ Rate * clock \in Int /\ Rate * (clock - last) \in Int /\ Rate * last \in Int
      /\ Unit * n \in Int /\ Unit * (n + 1) = Unit * n + Unit
  BY <1>2
<1> QED
  BY <1>1, <1>2, <1>3, <1>4

LEMMA RefillPaid ==
  ASSUME BucketTypeOK, Reserve, Delay > 0, NEW n \in Nat,
         Unit * n + tokens <= Capacity + Rate * last
  PROVE  Unit * n + tokens' <= Capacity + Rate * last'
<1>1. tokens' = tokens + Rate * (clock - last) /\ last' = clock
  BY ReserveFacts
<1>2. /\ clock \in Nat /\ last \in Nat /\ tokens \in Nat /\ Capacity \in Nat
  BY CapacityType DEF BucketTypeOK
<1>3. Rate * clock = Rate * (clock - last) + Rate * last
  BY <1>2, EarnedSum
<1>4. /\ Rate * clock \in Int /\ Rate * (clock - last) \in Int /\ Rate * last \in Int
      /\ Unit * n \in Int
  BY <1>2
<1> QED
  BY <1>1, <1>2, <1>3, <1>4
===============================================================================
