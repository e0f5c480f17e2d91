--------------------------- MODULE AggregatorProofs ---------------------------
(***************************************************************************)
(* What Aggregator guarantees for any number of requests, providers, keys  *)
(* and flights, and any timeout and TTL: what it serves, where every       *)
(* answer comes from, and that it implements the store of ReadThrough.     *)
(***************************************************************************)
EXTENDS Aggregator, TLAPS, FiniteSetTheorems, SequenceTheorems

USE TTLAssumption, AggregatorAssumption, KeysAssumption

\* A step, whatever the time: only the bound on the clock is left out of Next.
Moves == (\E r \in Requests : RequestStep(r)) \/ Janitor \/ TimePasses

LEMMA NextMoves == Next => Moves
BY DEF Next, Moves, Tick
-----------------------------------------------------------------------------
\* A quote in the answer to p comes from the slot of a provider that answered,
\* carries that answer's time, and is on p's route.
LEMMA QuoteOrigin ==
  ASSUME NEW o \in [Providers -> Outcomes], NEW p \in Asked,
         NEW q \in UNION AnswerOf(o, p).flights
  PROVE  /\ q \in Quotes
         /\ q.provider \in Providers
         /\ o[q.provider].status = "ok"
         /\ q.at = o[q.provider].at
         /\ FlightRoute[q.flight] = Route(p)
<1>1. q \in FilterByCriteria(Collect(o), p)
  BY DEF AnswerOf, MergeDuplicates
<1>2. q \in Collect(o) /\ FlightRoute[q.flight] = Route(p)
  BY <1>1 DEF FilterByCriteria, MatchesCriteria
<1>3. PICK x \in Providers :
        /\ o[x].status = "ok"
        /\ q \in {[flight |-> f, provider |-> x, at |-> o[x].at] : f \in o[x].flights}
  BY <1>2 DEF Collect
<1>4. PICK f \in o[x].flights : q = [flight |-> f, provider |-> x, at |-> o[x].at]
  BY <1>3
<1>5. o[x].flights \subseteq Flights /\ o[x].at \in Nat
  BY DEF Outcomes
<1> QED
  BY <1>2, <1>3, <1>4, <1>5 DEF Quotes

\* The answer a search puts together has the type of an answer.
LEMMA AnswerType ==
  ASSUME NEW o \in [Providers -> Outcomes], NEW p \in Asked
  PROVE  AnswerOf(o, p) \in Answers
<1>1. \A g \in AnswerOf(o, p).flights : g \subseteq Quotes
  BY QuoteOrigin
<1>2. Errors(o) \subseteq [provider : Providers, kind : Faults]
  BY DEF Errors
<1> QED
  BY <1>1, <1>2 DEF AnswerOf, Answers

LEMMA KeyType ==
  ASSUME NEW p \in Asked
  PROVE  CacheKey(p) \in Keys
OBVIOUS
-----------------------------------------------------------------------------
\* What two texts are when they are joined.
LEMMA Join ==
  ASSUME NEW s \in Texts, NEW t \in Texts
  PROVE  /\ s \o t \in Texts /\ Len(s) \in Nat /\ Len(t) \in Nat
         /\ Len(s \o t) = Len(s) + Len(t)
         /\ \A i \in 1..Len(s) : (s \o t)[i] = s[i]
         /\ \A i \in 1..Len(t) : (s \o t)[Len(s) + i] = t[i]
<1>1. Len(s) \in Nat /\ Len(t) \in Nat
  BY DEF Texts
<1>2. /\ s \o t \in Seq(Symbols) /\ Len(s \o t) = Len(s) + Len(t)
      /\ \A i \in 1..Len(s) + Len(t) :
           (s \o t)[i] = IF i <= Len(s) THEN s[i] ELSE t[i - Len(s)]
  BY ConcatProperties DEF Texts
<1>3. \A i \in 1..Len(s) : (s \o t)[i] = s[i]
  BY <1>1, <1>2
<1>4. \A i \in 1..Len(t) : (s \o t)[Len(s) + i] = t[i]
  BY <1>1, <1>2
<1> QED
  BY <1>1, <1>2, <1>3, <1>4 DEF Texts

\* k holds the fields of p, of these lengths, joined by separators.
Shape(k, p, l, m, n) ==
  /\ k \in Texts /\ Len(k) = l + m + n + 6
  /\ \A i \in 1..l : k[i] = p.origin[i]
  /\ k[l + 1] = Bar
  /\ \A i \in 1..m : k[l + 1 + i] = p.destination[i]
  /\ k[l + m + 2] = Bar /\ k[l + m + 3] = p.date /\ k[l + m + 4] = Bar
  /\ \A i \in 1..n : k[l + m + 4 + i] = p.class[i]
  /\ k[l + m + n + 5] = Bar /\ k[l + m + n + 6] = p.passengers

\* Where each field of a search stands in its key.
LEMMA KeyShape ==
  ASSUME NEW p \in Params, NEW k, k = CacheKey(p),
         NEW l \in Nat, Len(p.origin) = l, NEW m \in Nat, Len(p.destination) = m,
         NEW n \in Nat, Len(p.class) = n
  PROVE  Shape(k, p, l, m, n)
<1>1. PICK a : a = p.origin
  OBVIOUS
<1>2. PICK b : b = p.destination
  OBVIOUS
<1>3. PICK c : c = p.class
  OBVIOUS
<1>4. PICK x : x = <<Bar>>
  OBVIOUS
<1>5. PICK y : y = <<Bar, p.date, Bar>>
  OBVIOUS
<1>6. PICK z : z = <<Bar, p.passengers>>
  OBVIOUS
<1>7. /\ a \in Texts /\ b \in Texts /\ c \in Texts
      /\ Len(a) = l /\ Len(b) = m /\ Len(c) = n
      /\ x \in Texts /\ Len(x) = 1 /\ y \in Texts /\ Len(y) = 3
      /\ z \in Texts /\ Len(z) = 2
      /\ k = a \o x \o b \o y \o c \o z
  <2>1. p.origin \in Texts /\ p.destination \in Texts /\ p.class \in Texts
    BY DEF Params
  <2>2. Bar \in Symbols /\ p.date \in Symbols /\ p.passengers \in Symbols
    BY DEF Params
  <2>3. /\ x \in Texts /\ Len(x) = 1 /\ y \in Texts /\ Len(y) = 3
        /\ z \in Texts /\ Len(z) = 2
    BY <1>4, <1>5, <1>6, <2>2 DEF Texts
  <2>4. k = a \o x \o b \o y \o c \o z
    BY <1>1, <1>2, <1>3, <1>4, <1>5, <1>6 DEF CacheKey
  <2> QED
    BY <1>1, <1>2, <1>3, <2>1, <2>3, <2>4
<1>8. /\ x[1] = Bar /\ y[1] = Bar /\ y[2] = p.date /\ y[3] = Bar
      /\ z[1] = Bar /\ z[2] = p.passengers
  BY <1>4, <1>5, <1>6
<1>9. PICK k1 : k1 = a \o x
  OBVIOUS
<1>10. PICK k2 : k2 = k1 \o b
  OBVIOUS
<1>11. PICK k3 : k3 = k2 \o y
  OBVIOUS
<1>12. PICK k4 : k4 = k3 \o c
  OBVIOUS
<1>13. k = k4 \o z
  BY <1>7, <1>9, <1>10, <1>11, <1>12
<1>14. /\ k1 \in Texts /\ Len(k1) = l + 1
       /\ \A i \in 1..l : k1[i] = a[i]
       /\ k1[l + 1] = x[1]
  <2>1. a \in Texts /\ x \in Texts
    BY <1>7
  <2>2. /\ k1 \in Texts /\ Len(k1) = Len(a) + Len(x)
        /\ \A i \in 1..Len(a) : k1[i] = a[i]
        /\ \A i \in 1..Len(x) : k1[Len(a) + i] = x[i]
    BY ONLY <1>9, <2>1, Join
  <2>3. Len(a) = l /\ Len(x) = 1
    BY <1>7
  <2>4. 1 \in 1..Len(x)
    BY <2>3
  <2>5. k1[Len(a) + 1] = x[1]
    BY ONLY <2>2, <2>4
  <2> QED
    BY ONLY <2>2, <2>3, <2>5
<1>15. /\ k2 \in Texts /\ Len(k2) = l + 1 + m
       /\ \A i \in 1..(l + 1) : k2[i] = k1[i]
       /\ \A i \in 1..m : k2[l + 1 + i] = b[i]
  <2>1. k1 \in Texts /\ b \in Texts
    BY <1>7, <1>14
  <2>2. /\ k2 \in Texts /\ Len(k2) = Len(k1) + Len(b)
        /\ \A i \in 1..Len(k1) : k2[i] = k1[i]
        /\ \A i \in 1..Len(b) : k2[Len(k1) + i] = b[i]
    BY ONLY <1>10, <2>1, Join
  <2>3. Len(k1) = l + 1 /\ Len(b) = m
    BY <1>7, <1>14
  <2> QED
    BY ONLY <2>2, <2>3
<1>16. /\ k3 \in Texts /\ Len(k3) = l + 1 + m + 3
       /\ \A i \in 1..(l + 1 + m) : k3[i] = k2[i]
       /\ \A i \in 1..3 : k3[l + 1 + m + i] = y[i]
  <2>1. k2 \in Texts /\ y \in Texts
    BY <1>7, <1>15
  <2>2. /\ k3 \in Texts /\ Len(k3) = Len(k2) + Len(y)
        /\ \A i \in 1..Len(k2) : k3[i] = k2[i]
        /\ \A i \in 1..Len(y) : k3[Len(k2) + i] = y[i]
    BY ONLY <1>11, <2>1, Join
  <2>3. Len(k2) = l + 1 + m /\ Len(y) = 3
    BY <1>7, <1>15
  <2> QED
    BY ONLY <2>2, <2>3
<1>17. /\ k4 \in Texts /\ Len(k4) = l + 1 + m + 3 + n
       /\ \A i \in 1..(l + 1 + m + 3) : k4[i] = k3[i]
       /\ \A i \in 1..n : k4[l + 1 + m + 3 + i] = c[i]
  <2>1. k3 \in Texts /\ c \in Texts
    BY <1>7, <1>16
  <2>2. /\ k4 \in Texts /\ Len(k4) = Len(k3) + Len(c)
        /\ \A i \in 1..Len(k3) : k4[i] = k3[i]
        /\ \A i \in 1..Len(c) : k4[Len(k3) + i] = c[i]
    BY ONLY <1>12, <2>1, Join
  <2>3. Len(k3) = l + 1 + m + 3 /\ Len(c) = n
    BY <1>7, <1>16
  <2> QED
    BY ONLY <2>2, <2>3
<1>18. /\ k \in Texts /\ Len(k) = l + 1 + m + 3 + n + 2
       /\ \A i \in 1..(l + 1 + m + 3 + n) : k[i] = k4[i]
       /\ \A i \in 1..2 : k[l + 1 + m + 3 + n + i] = z[i]
  <2>1. k4 \in Texts /\ z \in Texts
    BY <1>7, <1>17
  <2>2. /\ k \in Texts /\ Len(k) = Len(k4) + Len(z)
        /\ \A i \in 1..Len(k4) : k[i] = k4[i]
        /\ \A i \in 1..Len(z) : k[Len(k4) + i] = z[i]
    BY ONLY <1>13, <2>1, Join
  <2>3. Len(k4) = l + 1 + m + 3 + n /\ Len(z) = 2
    BY <1>7, <1>17
  <2> QED
    BY ONLY <2>2, <2>3
<1>19. \A i \in 1..(l + 1 + m + 3) : k[i] = k3[i]
  BY ONLY <1>17, <1>18, l \in Nat, m \in Nat, n \in Nat
<1>20. \A i \in 1..(l + 1 + m) : k[i] = k2[i]
  BY ONLY <1>16, <1>19, l \in Nat, m \in Nat
<1>21. \A i \in 1..(l + 1) : k[i] = k1[i]
  BY ONLY <1>15, <1>20, l \in Nat, m \in Nat
<1>22. /\ \A i \in 1..l : k[i] = a[i]
       /\ k[l + 1] = x[1]
  <2>1. l + 1 \in 1..(l + 1)
    OBVIOUS
  <2>2. k[l + 1] = k1[l + 1]
    BY ONLY <1>21, <2>1
  <2>3. \A i \in 1..l : k[i] = a[i]
    BY ONLY <1>14, <1>21, l \in Nat
  <2>4. k1[l + 1] = x[1]
    BY ONLY <1>14
  <2> QED
    BY ONLY <2>2, <2>3, <2>4
<1>23. \A i \in 1..m : k[l + 1 + i] = b[i]
  BY ONLY <1>15, <1>20, l \in Nat, m \in Nat
<1>24. k[l + m + 2] = y[1] /\ k[l + m + 3] = y[2] /\ k[l + m + 4] = y[3]
  <2>1. ASSUME NEW i \in 1..3 PROVE k[l + m + 1 + i] = y[i]
    <3>1. l + 1 + m + i \in 1..(l + 1 + m + 3) /\ l + 1 + m + i = l + m + 1 + i
      OBVIOUS
    <3> QED
      BY ONLY <1>16, <1>19, <2>1, <3>1
  <2>2. l + m + 1 + 1 = l + m + 2 /\ l + m + 1 + 2 = l + m + 3 /\ l + m + 1 + 3 = l + m + 4
    OBVIOUS
  <2> QED
    BY ONLY <2>1, <2>2
<1>25. \A i \in 1..n : k[l + m + 4 + i] = c[i]
  <2> TAKE i \in 1..n
  <2>1. /\ l + 1 + m + 3 + i \in 1..(l + 1 + m + 3 + n)
        /\ l + 1 + m + 3 + i = l + m + 4 + i
    OBVIOUS
  <2> QED
    BY ONLY <1>17, <1>18, <2>1, i \in 1..n
<1>26. k[l + m + n + 5] = z[1] /\ k[l + m + n + 6] = z[2]
  <2>1. /\ l + 1 + m + 3 + n + 1 = l + m + n + 5
        /\ l + 1 + m + 3 + n + 2 = l + m + n + 6
    OBVIOUS
  <2> QED
    BY ONLY <1>18, <2>1
<1>27. Len(k) = l + m + n + 6
  BY <1>18
<1> QED
  BY ONLY <1>1, <1>2, <1>3, <1>8, <1>18, <1>22, <1>23, <1>24, <1>25, <1>26, <1>27 DEF Shape

\* A key without other separators than those that join its fields is the key of
\* searches of one route only.
LEMMA PlainKey ==
  ASSUME NEW p \in Params, NEW r \in Params, Plain(r), CacheKey(p) = CacheKey(r)
  PROVE  Route(p) = Route(r)
<1>1. PICK k : k = CacheKey(p) /\ k = CacheKey(r)
  OBVIOUS
<1>2. /\ p.origin \in Texts /\ p.destination \in Texts /\ p.class \in Texts
      /\ r.origin \in Texts /\ r.destination \in Texts /\ r.class \in Texts
      /\ r.date # Bar /\ r.passengers # Bar
  BY DEF Params
<1>3. PICK l \in Nat, m \in Nat, n \in Nat :
        Len(p.origin) = l /\ Len(p.destination) = m /\ Len(p.class) = n
  BY <1>2 DEF Texts
<1>4. PICK u \in Nat, v \in Nat, w \in Nat :
        Len(r.origin) = u /\ Len(r.destination) = v /\ Len(r.class) = w
  BY <1>2 DEF Texts
<1>5. /\ Len(k) = l + m + n + 6
      /\ \A i \in 1..l : k[i] = p.origin[i]
      /\ \A i \in 1..m : k[l + 1 + i] = p.destination[i]
      /\ k[l + m + 3] = p.date
      /\ k[l + 1] = Bar /\ k[l + m + 2] = Bar /\ k[l + m + 4] = Bar /\ k[l + m + n + 5] = Bar
  <2>1. Shape(k, p, l, m, n)
    BY ONLY <1>1, <1>3, p \in Params, KeyShape
  <2> QED
    BY ONLY <2>1 DEF Shape
<1>6. /\ Len(k) = u + v + w + 6
      /\ \A i \in 1..u : k[i] = r.origin[i]
      /\ \A i \in 1..v : k[u + 1 + i] = r.destination[i]
      /\ k[u + v + 3] = r.date /\ k[u + v + w + 6] = r.passengers
      /\ \A i \in 1..w : k[u + v + 4 + i] = r.class[i]
  <2>1. Shape(k, r, u, v, w)
    BY ONLY <1>1, <1>4, r \in Params, KeyShape
  <2> QED
    BY ONLY <2>1 DEF Shape
<1>7. /\ \A i \in 1..u : r.origin[i] # Bar
      /\ \A i \in 1..v : r.destination[i] # Bar
      /\ \A i \in 1..w : r.class[i] # Bar
  BY <1>2, <1>4 DEF Plain, Range, Texts
<1>8. ASSUME NEW i \in 1..(u + v + w + 6), k[i] = Bar
      PROVE  i \in {u + 1, u + v + 2, u + v + 4, u + v + w + 5}
  <2>1. ~(i \in 1..u)
    BY <1>6, <1>7, <1>8
  <2>2. \A e \in 1..v : u + 1 + e # i
    BY <1>6, <1>7, <1>8
  <2>3. i # u + v + 3 /\ i # u + v + w + 6
    BY <1>2, <1>6, <1>8
  <2>4. \A e \in 1..w : u + v + 4 + e # i
    BY <1>6, <1>7, <1>8
  <2>5. /\ i - (u + 1) \in 1..v => u + 1 + (i - (u + 1)) = i
        /\ i - (u + v + 4) \in 1..w => u + v + 4 + (i - (u + v + 4)) = i
    OBVIOUS
  <2>6. ~(i - (u + 1) \in 1..v) /\ ~(i - (u + v + 4) \in 1..w)
    BY ONLY <2>2, <2>4, <2>5
  <2> QED
    BY <2>1, <2>3, <2>6
<1>9. /\ l + m + n = u + v + w
      /\ \A i \in {l + 1, l + m + 2, l + m + 4, l + m + n + 5} :
           i \in {u + 1, u + v + 2, u + v + 4, u + v + w + 5}
  BY <1>5, <1>6, <1>8
<1>10. l = u /\ m = v
  BY ONLY <1>9, l \in Nat, m \in Nat, n \in Nat, u \in Nat, v \in Nat, w \in Nat
<1>11. p.origin = r.origin
  <2>1. \A i \in 1..l : p.origin[i] = r.origin[i]
    BY <1>5, <1>6, <1>10
  <2> QED
    BY <1>2, <1>3, <1>4, <1>10, <2>1, SeqEqual DEF Texts
<1>12. p.destination = r.destination
  <2>1. \A i \in 1..m : p.destination[i] = r.destination[i]
    BY <1>5, <1>6, <1>10
  <2> QED
    BY <1>2, <1>3, <1>4, <1>10, <2>1, SeqEqual DEF Texts
<1> QED
  BY <1>5, <1>6, <1>10, <1>11, <1>12 DEF Route
-----------------------------------------------------------------------------
\* The types are inductive on their own.
LEMMA TypeCorrectInit ==
  ASSUME Init
  PROVE  TypeOK
<1>1. NoAnswer \in Answers /\ Pending \in Outcomes
  BY DEF NoAnswer, Answers, Pending, Outcomes
<1> QED
  BY <1>1 DEF Init, CacheInit, TypeOK, Idle

LEMMA TypeCorrectStep ==
  ASSUME TypeOK, [Moves]_vars
  PROVE  TypeOK'
<1> USE DEF TypeOK
<1>1. ASSUME NEW r \in Requests, SearchHit(r) PROVE TypeOK'
  <2>1. items[CacheKey(params[r])].answer \in Answers
    BY <1>1 DEF SearchHit, Live
  <2> QED
    BY <1>1, <2>1 DEF SearchHit
<1>2. ASSUME NEW r \in Requests, SearchMiss(r) PROVE TypeOK'
  BY <1>2 DEF SearchMiss
<1>3. ASSUME NEW r \in Requests, Disconnect(r) PROVE TypeOK'
  BY <1>3 DEF Disconnect
<1>4. ASSUME NEW r \in Requests, Finish(r) PROVE TypeOK'
  <2>1. AnswerOf(outcome[r], params[r]) \in Answers
    BY AnswerType
  <2>2. CacheKey(params[r]) \in Keys
    BY KeyType
  <2>3. /\ DOMAIN items' \subseteq Keys
        /\ \A k \in DOMAIN items' : items'[k] \in [answer : Answers, expiresAt : Nat]
    BY <1>4, <2>1, <2>2 DEF Finish, Set
  <2> QED
    BY <1>4, <2>1, <2>3 DEF Finish, Set
<1>5. ASSUME NEW r \in Requests, NEW p \in Providers, NEW o \in Outcomes,
             Resolves(r, p, o)
      PROVE  TypeOK'
  BY <1>5 DEF Resolves
<1>6. ASSUME NEW r \in Requests, NEW p \in Providers,
             \/ ProviderAnswers(r, p) \/ ProviderFails(r, p)
             \/ ProviderTimesOut(r, p) \/ ProviderCancelled(r, p)
      PROVE  TypeOK'
  <2>1. \A fs \in Offered[p] : [status |-> "ok", flights |-> fs, at |-> clock] \in Outcomes
    BY DEF Outcomes
  <2>2. \A kind \in Faults : Failed(kind) \in Outcomes
    BY DEF Failed, Outcomes
  <2> QED
    BY <1>5, <1>6, <2>1, <2>2
    DEF ProviderAnswers, ProviderFails, ProviderTimesOut, ProviderCancelled, Faults
<1>7. CASE Janitor
  <2>1. CASE PurgeStarts
    BY <1>7, <2>1 DEF Janitor, PurgeStarts, reqVars
  <2>2. CASE PurgeSweeps
    BY <1>7, <2>2 DEF Janitor, PurgeSweeps, Restrict, reqVars
  <2> QED
    BY <1>7, <2>1, <2>2 DEF Janitor
<1>8. CASE TimePasses
  BY <1>8 DEF TimePasses, reqVars
<1>9. CASE UNCHANGED vars
  BY <1>9 DEF vars
<1> QED
  BY <1>1, <1>2, <1>3, <1>4, <1>6, <1>7, <1>8, <1>9 DEF Moves, RequestStep

\* Every variable keeps its type.
THEOREM TypeCorrect == Spec => []TypeOK
BY TypeCorrectInit, TypeCorrectStep, NextMoves, PTL DEF Spec
-----------------------------------------------------------------------------
\* A finished search's quotes were all made since it began, so at most a
\* timeout ago.
LEMMA FinishedQuotes ==
  ASSUME FreshnessInv, NEW r \in Requests, pc[r] = "searching",
         NEW q \in UNION AnswerOf(outcome[r], params[r]).flights
  PROVE  /\ q.at \in Nat
         /\ FlightRoute[q.flight] = Route(params[r])
         /\ start[r] <= q.at
         /\ clock <= q.at + ProviderTimeout
<1> USE DEF FreshnessInv, TypeOK
<1>1. /\ q \in Quotes
      /\ q.provider \in Providers
      /\ outcome[r][q.provider].status = "ok"
      /\ q.at = outcome[r][q.provider].at
      /\ FlightRoute[q.flight] = Route(params[r])
  BY QuoteOrigin
<1>2. start[r] <= q.at
  BY <1>1 DEF SlotsInTime
<1>3. clock <= start[r] + ProviderTimeout
  BY DEF OnTime
<1> QED
  BY <1>1, <1>2, <1>3 DEF Quotes

\* A request answered from the cache.
LEMMA HitStep ==
  ASSUME FreshnessInv, TypeOK', NEW r \in Requests, SearchHit(r)
  PROVE  FreshnessInv'
<1> DEFINE k == CacheKey(params[r])
<1> USE DEF FreshnessInv, TypeOK
<1>1. /\ pc[r] = "idle" /\ k \in DOMAIN items /\ clock <= items[k].expiresAt
      /\ pc' = [pc EXCEPT ![r] = "done"]
      /\ start' = [start EXCEPT ![r] = clock]
      /\ answer' = [answer EXCEPT ![r] = items[k].answer]
      /\ hit' = [hit EXCEPT ![r] = TRUE]
      /\ doneAt' = [doneAt EXCEPT ![r] = clock]
      /\ UNCHANGED <<clock, items, params, outcome>>
  BY DEF SearchHit, Live, Expired
<1>2. \A q \in UNION items[k].answer.flights :
        /\ q.at \in Nat
        /\ Plain(params[r]) => FlightRoute[q.flight] = Route(params[r])
        /\ q.at + ProviderTimeout + TTL >= clock
  <2> TAKE q \in UNION items[k].answer.flights
  <2>1. items[k].answer \in Answers
    BY <1>1
  <2>2. q.at \in Nat
    BY <2>1 DEF Answers, Quotes
  <2>3. PICK p \in Asked : CacheKey(p) = k /\ FlightRoute[q.flight] = Route(p)
    BY <1>1 DEF StoredOnRoute
  <2>4. items[k].expiresAt \in Nat
    BY <1>1
  <2>5. q.at + ProviderTimeout + TTL >= items[k].expiresAt
    BY <1>1 DEF StoredInTime
  <2>6. Plain(params[r]) => Route(p) = Route(params[r])
    <3>1. p \in Params /\ params[r] \in Params
      OBVIOUS
    <3> QED
      BY <2>3, <3>1, PlainKey
  <2> HIDE DEF k
  <2> QED
    BY <1>1, <2>2, <2>3, <2>4, <2>5, <2>6
<1>3. OnTime' /\ SlotsInTime' /\ DoneInTime'
  BY <1>1 DEF OnTime, SlotsInTime, DoneInTime
<1>4. StoredInTime' /\ StoredOnRoute' /\ StoredSinceRefresh'
  BY <1>1 DEF StoredInTime, StoredOnRoute, StoredSinceRefresh
<1>5. ServedMatchRoute'
  BY <1>1, <1>2 DEF ServedMatchRoute, Quoted
<1>6. StalenessBounded'
  BY <1>1, <1>2 DEF StalenessBounded, Quoted
<1>7. RefreshBoundsAge'
  <2> SUFFICES ASSUME NEW a \in Requests, NEW b \in Requests,
                      pc'[a] = "done", ~hit'[a], pc'[b] = "done",
                      start'[b] > doneAt'[a], SameSearch(a, b)',
                      NEW q \in Quoted(b)'
               PROVE  q.at + ProviderTimeout >= doneAt'[a]
    BY DEF RefreshBoundsAge
  <2>1. a # r /\ pc[a] = "done" /\ ~hit[a] /\ doneAt'[a] = doneAt[a]
    BY <1>1
  <2>2. CASE b = r
    <3>1. q \in UNION items[k].answer.flights
      BY <1>1, <2>2 DEF Quoted
    <3>2. k = CacheKey(params[a])
      BY <1>1, <2>2 DEF SameSearch
    <3> QED
      BY <1>1, <2>1, <3>1, <3>2 DEF StoredSinceRefresh
  <2>3. CASE b # r
    <3>1. pc[b] = "done" /\ start[b] > doneAt[a] /\ SameSearch(a, b) /\ q \in Quoted(b)
      BY <1>1, <2>1, <2>3 DEF SameSearch, Quoted
    <3> QED
      BY <2>1, <3>1 DEF RefreshBoundsAge
  <2> QED
    BY <2>2, <2>3
<1> QED
  BY <1>3, <1>4, <1>5, <1>6, <1>7

\* A request that goes to the providers.
LEMMA MissStep ==
  ASSUME FreshnessInv, TypeOK', NEW r \in Requests, SearchMiss(r)
  PROVE  FreshnessInv'
<1> USE DEF FreshnessInv, TypeOK
<1>1. /\ pc[r] = "idle"
      /\ pc' = [pc EXCEPT ![r] = "searching"]
      /\ start' = [start EXCEPT ![r] = clock]
      /\ UNCHANGED <<clock, items, params, outcome, answer, hit, doneAt>>
  BY DEF SearchMiss
<1>2. OnTime' /\ SlotsInTime' /\ DoneInTime'
  BY <1>1 DEF OnTime, SlotsInTime, DoneInTime
<1>3. StoredInTime' /\ StoredOnRoute' /\ StoredSinceRefresh'
  BY <1>1 DEF StoredInTime, StoredOnRoute, StoredSinceRefresh
<1>4. ServedMatchRoute' /\ StalenessBounded' /\ RefreshBoundsAge'
  BY <1>1 DEF ServedMatchRoute, StalenessBounded, RefreshBoundsAge, Quoted, SameSearch
<1> QED
  BY <1>2, <1>3, <1>4

\* A search that ends, stores its answer and returns it.
LEMMA FinishStep ==
  ASSUME FreshnessInv, TypeOK', NEW r \in Requests, Finish(r)
  PROVE  FreshnessInv'
<1> DEFINE k == CacheKey(params[r])
           ans == AnswerOf(outcome[r], params[r])
<1> HIDE DEF ans
<1> USE DEF FreshnessInv, TypeOK
<1>1. /\ pc[r] = "searching"
      /\ pc' = [pc EXCEPT ![r] = "done"]
      /\ answer' = [answer EXCEPT ![r] = ans]
      /\ doneAt' = [doneAt EXCEPT ![r] = clock]
      /\ items' = [j \in DOMAIN items \cup {k} |->
                     IF j = k THEN [answer |-> ans, expiresAt |-> clock + TTL]
                              ELSE items[j]]
      /\ UNCHANGED <<clock, params, start, outcome, hit>>
  BY DEF Finish, Set, ans
<1>2. \A q \in UNION ans.flights :
        /\ q.at \in Nat
        /\ FlightRoute[q.flight] = Route(params[r])
        /\ start[r] <= q.at
        /\ clock <= q.at + ProviderTimeout
  BY <1>1, FinishedQuotes DEF ans
<1>3. OnTime' /\ SlotsInTime' /\ DoneInTime'
  BY <1>1 DEF OnTime, SlotsInTime, DoneInTime
<1>4. StoredInTime'
  <2> SUFFICES ASSUME NEW j \in DOMAIN items', NEW q \in UNION items'[j].answer.flights
               PROVE  q.at + ProviderTimeout + TTL >= items'[j].expiresAt
    BY DEF StoredInTime
  <2>1. CASE j = k
    <3>1. items'[j] = [answer |-> ans, expiresAt |-> clock + TTL]
      BY <1>1, <2>1
    <3>2. q.at \in Nat /\ clock <= q.at + ProviderTimeout /\ clock \in Nat
      BY <1>2, <2>1, <3>1
    <3> QED
      BY <3>1, <3>2
  <2>2. CASE j # k
    BY <1>1, <2>2 DEF StoredInTime
  <2> QED
    BY <2>1, <2>2
<1>5. StoredSinceRefresh'
  <2> SUFFICES ASSUME NEW a \in Requests, NEW j \in DOMAIN items',
                      pc'[a] = "done", ~hit'[a], j = CacheKey(params'[a]),
                      NEW q \in UNION items'[j].answer.flights
               PROVE  q.at + ProviderTimeout >= doneAt'[a]
    BY DEF StoredSinceRefresh
  <2>1. doneAt'[a] <= clock /\ doneAt'[a] \in Nat
    BY <1>1 DEF DoneInTime
  <2>2. CASE j = k
    <3>1. q \in UNION ans.flights
      BY <1>1, <2>2
    <3>2. q.at \in Nat /\ clock <= q.at + ProviderTimeout
      BY <1>2, <3>1
    <3> QED
      BY <2>1, <3>2
  <2>3. CASE j # k
    <3>1. a # r
      BY <1>1, <2>3
    <3>2. /\ pc[a] = "done" /\ ~hit[a] /\ j \in DOMAIN items /\ j = CacheKey(params[a])
          /\ doneAt'[a] = doneAt[a]
          /\ q \in UNION items[j].answer.flights
      BY <1>1, <2>3, <3>1
    <3> QED
      BY <3>2 DEF StoredSinceRefresh
  <2> QED
    BY <2>2, <2>3
<1>6. ServedMatchRoute'
  BY <1>1, <1>2 DEF ServedMatchRoute, Quoted
<1>7. StalenessBounded'
  <2> SUFFICES ASSUME NEW a \in Requests, pc'[a] = "done", NEW q \in Quoted(a)'
               PROVE  q.at + ProviderTimeout + TTL >= doneAt'[a]
    BY DEF StalenessBounded
  <2>1. CASE a = r
    <3>1. q \in UNION ans.flights /\ doneAt'[a] = clock
      BY <1>1, <2>1 DEF Quoted
    <3> QED
      BY <1>2, <3>1
  <2>2. CASE a # r
    BY <1>1, <2>2 DEF StalenessBounded, Quoted
  <2> QED
    BY <2>1, <2>2
<1>8. RefreshBoundsAge'
  <2> SUFFICES ASSUME NEW a \in Requests, NEW b \in Requests,
                      pc'[a] = "done", ~hit'[a], pc'[b] = "done",
                      start'[b] > doneAt'[a], SameSearch(a, b)',
                      NEW q \in Quoted(b)'
               PROVE  q.at + ProviderTimeout >= doneAt'[a]
    BY DEF RefreshBoundsAge
  <2>1. a # r
    BY <1>1 DEF OnTime
  <2>2. pc[a] = "done" /\ ~hit[a] /\ doneAt'[a] = doneAt[a]
    BY <1>1, <2>1
  <2>3. CASE b = r
    <3>1. q \in UNION ans.flights
      BY <1>1, <2>3 DEF Quoted
    <3>2. start[r] <= q.at /\ q.at \in Nat
      BY <1>2, <3>1
    <3> QED
      BY <1>1, <2>2, <2>3, <3>2
  <2>4. CASE b # r
    <3>1. pc[b] = "done" /\ start[b] > doneAt[a] /\ SameSearch(a, b) /\ q \in Quoted(b)
      BY <1>1, <2>2, <2>4 DEF SameSearch, Quoted
    <3> QED
      BY <2>2, <3>1 DEF RefreshBoundsAge
  <2> QED
    BY <2>3, <2>4
<1>9. StoredOnRoute'
  <2> SUFFICES ASSUME NEW j \in DOMAIN items', NEW q \in UNION items'[j].answer.flights
               PROVE  \E p \in Asked : CacheKey(p) = j /\ FlightRoute[q.flight] = Route(p)
    BY DEF StoredOnRoute
  <2>1. CASE j = k
    BY <1>1, <1>2, <2>1
  <2>2. CASE j # k
    BY <1>1, <2>2 DEF StoredOnRoute
  <2> QED
    BY <2>1, <2>2
<1> QED
  BY <1>3, <1>4, <1>5, <1>6, <1>7, <1>8, <1>9

\* A step that touches nothing FreshnessInv speaks of but the slots, the clock
\* and the set of stored keys: a provider's answer, the janitor, time.
LEMMA QuietStep ==
  ASSUME FreshnessInv, TypeOK',
         UNCHANGED <<params, pc, start, answer, hit, doneAt>>,
         clock <= clock',
         \A r \in Requests : pc[r] = "searching" => clock' <= start[r] + ProviderTimeout,
         \A r \in Requests, p \in Providers :
           outcome'[r][p] # outcome[r][p] =>
             \/ pc[r] = "searching" /\ outcome'[r][p].at = clock
             \/ outcome'[r][p].status # "ok",
         DOMAIN items' \subseteq DOMAIN items,
         \A k \in DOMAIN items' : items'[k] = items[k]
  PROVE  FreshnessInv'
<1> USE DEF FreshnessInv, TypeOK
<1>1. OnTime'
  BY DEF OnTime
<1>2. SlotsInTime'
  BY DEF SlotsInTime, OnTime
<1>3. StoredInTime' /\ StoredSinceRefresh'
  BY DEF StoredInTime, StoredSinceRefresh
<1>4. DoneInTime'
  BY DEF DoneInTime
<1>5. ServedMatchRoute' /\ StalenessBounded' /\ RefreshBoundsAge'
  BY DEF ServedMatchRoute, StalenessBounded, RefreshBoundsAge, Quoted, SameSearch
<1>6. StoredOnRoute'
  <2>1. ASSUME NEW k \in DOMAIN items', NEW q \in UNION items'[k].answer.flights
        PROVE  \E p \in Asked : CacheKey(p) = k /\ FlightRoute[q.flight] = Route(p)
    <3>1. k \in DOMAIN items /\ items'[k] = items[k]
      BY <2>1
    <3>2. q \in UNION items[k].answer.flights
      BY ONLY <2>1, <3>1
    <3>3. StoredOnRoute
      OBVIOUS
    <3> QED
      BY ONLY <3>1, <3>2, <3>3 DEF StoredOnRoute
  <2> QED
    BY <2>1 DEF StoredOnRoute
<1> QED
  BY <1>1, <1>2, <1>3, <1>4, <1>5, <1>6

LEMMA FreshnessInit ==
  ASSUME Init
  PROVE  FreshnessInv
<1>1. TypeOK
  BY TypeCorrectInit
<1>2. OnTime /\ SlotsInTime /\ DoneInTime
  BY DEF Init, CacheInit, OnTime, SlotsInTime, DoneInTime, Pending
<1>3. StoredInTime /\ StoredOnRoute /\ StoredSinceRefresh
  BY DEF Init, CacheInit, StoredInTime, StoredOnRoute, StoredSinceRefresh
<1>4. ServedMatchRoute /\ StalenessBounded /\ RefreshBoundsAge
  BY DEF Init, ServedMatchRoute, StalenessBounded, RefreshBoundsAge, Quoted, NoAnswer
<1> QED
  BY <1>1, <1>2, <1>3, <1>4 DEF FreshnessInv

\* FreshnessInv is preserved by every step.
LEMMA FreshnessStep ==
  ASSUME FreshnessInv, [Moves]_vars
  PROVE  FreshnessInv'
<1>0. TypeOK /\ TypeOK'
  BY TypeCorrectStep DEF FreshnessInv
<1>1. /\ clock \in Nat
      /\ \A r \in Requests : pc[r] = "searching" => clock <= start[r] + ProviderTimeout
  BY DEF FreshnessInv, TypeOK, OnTime
<1>2. ASSUME NEW r \in Requests, SearchHit(r) PROVE FreshnessInv'
  BY <1>0, <1>2, HitStep
<1>3. ASSUME NEW r \in Requests, SearchMiss(r) PROVE FreshnessInv'
  BY <1>0, <1>3, MissStep
<1>4. ASSUME NEW r \in Requests, Finish(r) PROVE FreshnessInv'
  BY <1>0, <1>4, FinishStep
<1>5. ASSUME NEW r \in Requests, Disconnect(r) PROVE FreshnessInv'
  BY <1>0, <1>1, <1>5, QuietStep DEF Disconnect
<1>6. ASSUME NEW r \in Requests, NEW p \in Providers, NEW o,
             o.status = "ok" => o.at = clock, Resolves(r, p, o)
      PROVE  FreshnessInv'
  <2>1. \A s \in Requests, x \in Providers :
          outcome'[s][x] # outcome[s][x] =>
            \/ pc[s] = "searching" /\ outcome'[s][x].at = clock
            \/ outcome'[s][x].status # "ok"
    BY <1>0, <1>6 DEF Resolves, TypeOK
  <2> QED
    BY <1>0, <1>1, <1>6, <2>1, QuietStep DEF Resolves
<1>7. ASSUME NEW r \in Requests, NEW p \in Providers,
             \/ ProviderAnswers(r, p) \/ ProviderFails(r, p)
             \/ ProviderTimesOut(r, p) \/ ProviderCancelled(r, p)
      PROVE  FreshnessInv'
  BY <1>6, <1>7
  DEF ProviderAnswers, ProviderFails, ProviderTimesOut, ProviderCancelled, Failed
<1>8. CASE Janitor
  <2>1. /\ DOMAIN items' \subseteq DOMAIN items
        /\ \A k \in DOMAIN items' : items'[k] = items[k]
        /\ clock' = clock /\ UNCHANGED reqVars
    BY <1>8 DEF Janitor, PurgeStarts, PurgeSweeps, Restrict
  <2> QED
    BY <1>0, <1>1, <2>1, QuietStep DEF reqVars
<1>9. CASE TimePasses
  <2>1. \A r \in Requests : pc[r] = "searching" => clock' <= start[r] + ProviderTimeout
    BY <1>0, <1>9 DEF TimePasses, TypeOK
  <2> QED
    BY <1>0, <1>1, <1>9, <2>1, QuietStep DEF TimePasses, reqVars
<1>10. CASE UNCHANGED vars
  BY <1>0, <1>1, <1>10, QuietStep DEF vars
<1> QED
  BY <1>2, <1>3, <1>4, <1>5, <1>7, <1>8, <1>9, <1>10 DEF Moves, RequestStep

\* FreshnessInv holds from the initial state on.
THEOREM Freshness == Spec => []FreshnessInv
BY FreshnessInit, FreshnessStep, NextMoves, PTL DEF Spec

\* A caller whose own fields hold no separator only sees flights of the route and
\* date asked for, whatever is cached and whatever fields others ask with.
COROLLARY RoutesServed == Spec => []ServedMatchRoute
BY Freshness, PTL DEF FreshnessInv

\* No price shown is older than the TTL and one provider timeout.
COROLLARY Staleness == Spec => []StalenessBounded
BY Freshness, PTL DEF FreshnessInv

\* A refresh bounds the age of what later requests for the same key are shown.
COROLLARY RefreshAge == Spec => []RefreshBoundsAge
BY Freshness, PTL DEF FreshnessInv
-----------------------------------------------------------------------------
\* The answer put together from the slots o of a search for p accounts for
\* each of them.
LEMMA AnswerAccounts ==
  ASSUME NEW o \in [Providers -> Outcomes], NEW p \in Asked,
         \A x \in Providers : o[x].status # "pending"
  PROVE  AllAccounted(o, p, AnswerOf(o, p))
<1> DEFINE quotes == FilterByCriteria(Collect(o), p)
           group(f) == {q \in quotes : q.flight = f}
           ans == AnswerOf(o, p)
<1>1. ans.flights = {group(f) : f \in {q.flight : q \in quotes}}
  BY DEF AnswerOf, MergeDuplicates
<1>2. ASSUME NEW x \in Providers, o[x].status = "ok",
             NEW f \in o[x].flights, FlightRoute[f] = Route(p)
      PROVE  [flight |-> f, provider |-> x, at |-> o[x].at] \in UNION ans.flights
  <2> DEFINE q == [flight |-> f, provider |-> x, at |-> o[x].at]
  <2>1. q \in Collect(o)
    BY <1>2 DEF Collect
  <2>2. q \in quotes
    BY <1>2, <2>1 DEF FilterByCriteria, MatchesCriteria
  <2>3. q.flight = f
    OBVIOUS
  <2> HIDE DEF q, quotes
  <2>4. q \in group(f)
    BY <2>2, <2>3
  <2>5. f \in {y.flight : y \in quotes}
    BY <2>2, <2>3
  <2> HIDE DEF group, ans
  <2>6. group(f) \in ans.flights
    BY <1>1, <2>5
  <2>7. q \in UNION ans.flights
    BY <2>4, <2>6
  <2> QED
    BY <2>7 DEF q
<1>3. ASSUME NEW x \in Providers, o[x].status # "ok"
      PROVE  [provider |-> x, kind |-> o[x].status] \in ans.errors
  <2>1. o[x].status \in Faults
    BY <1>3 DEF Outcomes
  <2> QED
    BY <2>1 DEF AnswerOf, Errors
<1>4. ASSUME NEW f \in Flights
      PROVE  Cardinality({g \in ans.flights : \E q \in g : q.flight = f}) <= 1
  <2>1. {g \in ans.flights : \E q \in g : q.flight = f} \subseteq {group(f)}
    BY <1>1
  <2>2. IsFiniteSet({group(f)}) /\ Cardinality({group(f)}) = 1
    BY FS_Singleton
  <2> HIDE DEF group, ans
  <2> QED
    BY <2>1, <2>2, FS_Subset
<1>5. \A g \in ans.flights : \A q1, q2 \in g : q1.flight = q2.flight
  BY <1>1
<1> QED
  BY <1>2, <1>3, <1>4, <1>5 DEF AllAccounted

\* A step that changes nothing a search that has returned, an answer or an
\* entry is known by.
LEMMA ProvenanceKept ==
  ASSUME ProvenanceInv, TypeOK',
         UNCHANGED <<params, answer, hit, doneAt>>,
         \A r \in Requests : pc'[r] = "done" <=> pc[r] = "done",
         \A r \in Requests : pc[r] = "done" => outcome'[r] = outcome[r],
         clock <= clock', SweepInPast',
         DOMAIN items' \subseteq DOMAIN items,
         \A k \in DOMAIN items' : items'[k] = items[k]
  PROVE  ProvenanceInv'
<1> USE DEF ProvenanceInv
<1>1. \A r \in Requests : (pc[r] = "done" /\ Accounted(r)) => Accounted(r)'
  BY DEF Accounted
<1>2. StoredBySearch'
  BY DEF StoredBySearch
<1>3. SearchesAccounted'
  BY <1>1 DEF SearchesAccounted, TypeOK
<1>4. AnswersComeFromASearch'
  <2> SUFFICES ASSUME NEW s \in Requests, pc'[s] = "done"
               PROVE  \E r \in Requests :
                        /\ pc'[r] = "done" /\ ~hit'[r] /\ SameSearch(r, s)'
                        /\ doneAt'[r] <= doneAt'[s] /\ doneAt'[s] <= doneAt'[r] + TTL
                        /\ answer'[s] = answer'[r]
                        /\ Accounted(r)'
    BY DEF AnswersComeFromASearch
  <2>1. PICK r \in Requests :
          /\ pc[r] = "done" /\ ~hit[r] /\ SameSearch(r, s)
          /\ doneAt[r] <= doneAt[s] /\ doneAt[s] <= doneAt[r] + TTL
          /\ answer[s] = answer[r]
          /\ Accounted(r)
    BY DEF AnswersComeFromASearch
  <2> QED
    BY <1>1, <2>1 DEF SameSearch
<1> QED
  BY <1>2, <1>3, <1>4

-----------------------------------------------------------------------------
LEMMA ProvenanceInit ==
  ASSUME Init
  PROVE  ProvenanceInv
<1>1. TypeOK
  BY TypeCorrectInit
<1>2. StoredBySearch /\ SearchesAccounted /\ AnswersComeFromASearch
  BY DEF Init, CacheInit, StoredBySearch, SearchesAccounted, AnswersComeFromASearch
<1>3. SweepInPast
  BY DEF Init, CacheInit, SweepInPast, Idle
<1> QED
  BY <1>1, <1>2, <1>3 DEF ProvenanceInv

\* A request answered from the cache gets what the search that stored the
\* entry returned.
LEMMA ProvenanceHit ==
  ASSUME ProvenanceInv, TypeOK', NEW r \in Requests, SearchHit(r)
  PROVE  ProvenanceInv'
<1> DEFINE k == CacheKey(params[r])
<1> USE DEF ProvenanceInv, TypeOK
<1>1. /\ pc[r] = "idle" /\ k \in DOMAIN items /\ clock <= items[k].expiresAt
      /\ pc' = [pc EXCEPT ![r] = "done"]
      /\ answer' = [answer EXCEPT ![r] = items[k].answer]
      /\ hit' = [hit EXCEPT ![r] = TRUE]
      /\ doneAt' = [doneAt EXCEPT ![r] = clock]
      /\ UNCHANGED <<clock, items, sweepNow, params, outcome>>
  BY DEF SearchHit, Live, Expired
<1>2. \A a \in Requests :
        pc[a] = "done" => a # r /\ pc'[a] = "done" /\ hit'[a] = hit[a]
                          /\ answer'[a] = answer[a] /\ doneAt'[a] = doneAt[a]
  BY <1>1
<1>3. \A a \in Requests : (a # r /\ Accounted(a)) => Accounted(a)'
  BY <1>1 DEF Accounted
<1>4. StoredBySearch'
  BY <1>1, <1>2 DEF StoredBySearch
<1>5. SearchesAccounted'
  BY <1>1, <1>2, <1>3 DEF SearchesAccounted
<1>6. SweepInPast'
  BY <1>1 DEF SweepInPast
<1>7. AnswersComeFromASearch'
  <2> SUFFICES ASSUME NEW s \in Requests, pc'[s] = "done"
               PROVE  \E a \in Requests :
                        /\ pc'[a] = "done" /\ ~hit'[a] /\ SameSearch(a, s)'
                        /\ doneAt'[a] <= doneAt'[s] /\ doneAt'[s] <= doneAt'[a] + TTL
                        /\ answer'[s] = answer'[a]
                        /\ Accounted(a)'
    BY DEF AnswersComeFromASearch
  <2>1. CASE s = r
    <3>1. PICK a \in Requests :
            /\ pc[a] = "done" /\ ~hit[a] /\ CacheKey(params[a]) = k
            /\ items[k] = [answer |-> answer[a], expiresAt |-> doneAt[a] + TTL]
      BY <1>1 DEF StoredBySearch
    <3>2. doneAt[a] <= clock /\ clock <= doneAt[a] + TTL /\ Accounted(a)
      BY <1>1, <3>1 DEF SearchesAccounted
    <3>3. doneAt'[s] = clock /\ answer'[s] = answer[a]
      BY <1>1, <2>1, <3>1
    <3>4. /\ pc'[a] = "done" /\ ~hit'[a]
          /\ answer'[a] = answer[a] /\ doneAt'[a] = doneAt[a] /\ Accounted(a)'
      BY <1>2, <1>3, <3>1, <3>2
    <3>5. SameSearch(a, s)'
      BY <1>1, <2>1, <3>1 DEF SameSearch
    <3> QED
      BY <3>2, <3>3, <3>4, <3>5
  <2>2. CASE s # r
    <3>1. pc[s] = "done"
      BY <1>1, <2>2
    <3>2. PICK a \in Requests :
            /\ pc[a] = "done" /\ ~hit[a] /\ SameSearch(a, s)
            /\ doneAt[a] <= doneAt[s] /\ doneAt[s] <= doneAt[a] + TTL
            /\ answer[s] = answer[a]
            /\ Accounted(a)
      BY <3>1 DEF AnswersComeFromASearch
    <3> QED
      BY <1>1, <1>2, <1>3, <3>1, <3>2 DEF SameSearch
  <2> QED
    BY <2>1, <2>2
<1> QED
  BY <1>4, <1>5, <1>6, <1>7

\* A search that ends becomes the origin of what it stores and of its answer.
LEMMA ProvenanceFinish ==
  ASSUME ProvenanceInv, TypeOK', NEW r \in Requests, Finish(r)
  PROVE  ProvenanceInv'
<1> DEFINE k == CacheKey(params[r])
           ans == AnswerOf(outcome[r], params[r])
<1> USE DEF ProvenanceInv, TypeOK
<1>1. /\ pc[r] = "searching"
      /\ \A p \in Providers : outcome[r][p].status # "pending"
      /\ pc' = [pc EXCEPT ![r] = "done"]
      /\ answer' = [answer EXCEPT ![r] = ans]
      /\ doneAt' = [doneAt EXCEPT ![r] = clock]
      /\ items' = [j \in DOMAIN items \cup {k} |->
                     IF j = k THEN [answer |-> ans, expiresAt |-> clock + TTL]
                              ELSE items[j]]
      /\ UNCHANGED <<clock, sweepNow, params, outcome, hit>>
  BY DEF Finish, Set
<1> HIDE DEF ans
<1>2. ~hit[r] /\ pc'[r] = "done" /\ answer'[r] = ans /\ doneAt'[r] = clock
  BY <1>1 DEF SearchesAccounted
<1>3. Accounted(r)'
  BY <1>1, <1>2, AnswerAccounts DEF Accounted, ans
<1>4. \A a \in Requests : (a # r /\ Accounted(a)) => Accounted(a)'
  BY <1>1 DEF Accounted
<1>5. \A a \in Requests :
        pc[a] = "done" => a # r /\ pc'[a] = "done" /\ hit'[a] = hit[a]
                          /\ answer'[a] = answer[a] /\ doneAt'[a] = doneAt[a]
  BY <1>1
<1>6. StoredBySearch'
  <2> SUFFICES ASSUME NEW j \in DOMAIN items'
               PROVE  \E a \in Requests :
                        /\ pc'[a] = "done" /\ ~hit'[a] /\ CacheKey(params'[a]) = j
                        /\ items'[j] = [answer |-> answer'[a], expiresAt |-> doneAt'[a] + TTL]
    BY DEF StoredBySearch, CacheKey
  <2>1. CASE j = k
    BY <1>1, <1>2, <2>1
  <2>2. CASE j # k
    <3>1. j \in DOMAIN items /\ items'[j] = items[j]
      BY <1>1, <2>2
    <3> QED
      BY <1>1, <1>5, <3>1 DEF StoredBySearch
  <2> QED
    BY <2>1, <2>2
<1>7. SearchesAccounted'
  BY <1>1, <1>2, <1>3, <1>4, <1>5 DEF SearchesAccounted
<1>8. SweepInPast'
  BY <1>1 DEF SweepInPast
<1>9. AnswersComeFromASearch'
  <2> SUFFICES ASSUME NEW s \in Requests, pc'[s] = "done"
               PROVE  \E a \in Requests :
                        /\ pc'[a] = "done" /\ ~hit'[a] /\ SameSearch(a, s)'
                        /\ doneAt'[a] <= doneAt'[s] /\ doneAt'[s] <= doneAt'[a] + TTL
                        /\ answer'[s] = answer'[a]
                        /\ Accounted(a)'
    BY DEF AnswersComeFromASearch
  <2>1. CASE s = r
    <3>1. SameSearch(r, s)' /\ ~hit'[r]
      BY <1>1, <1>2, <2>1 DEF SameSearch
    <3>2. doneAt'[r] <= doneAt'[s] /\ doneAt'[s] <= doneAt'[r] + TTL
      BY <1>2, <2>1
    <3> QED
      BY <1>2, <1>3, <2>1, <3>1, <3>2
  <2>2. CASE s # r
    <3>1. pc[s] = "done"
      BY <1>1, <2>2
    <3>2. PICK a \in Requests :
            /\ pc[a] = "done" /\ ~hit[a] /\ SameSearch(a, s)
            /\ doneAt[a] <= doneAt[s] /\ doneAt[s] <= doneAt[a] + TTL
            /\ answer[s] = answer[a]
            /\ Accounted(a)
      BY <3>1 DEF AnswersComeFromASearch
    <3> QED
      BY <1>1, <1>4, <1>5, <3>1, <3>2 DEF SameSearch
  <2> QED
    BY <2>1, <2>2
<1> QED
  BY <1>6, <1>7, <1>8, <1>9

\* ProvenanceInv is preserved by every step.
LEMMA ProvenanceStep ==
  ASSUME ProvenanceInv, [Moves]_vars
  PROVE  ProvenanceInv'
<1>0. TypeOK /\ TypeOK' /\ clock \in Nat /\ SweepInPast
  BY TypeCorrectStep DEF ProvenanceInv, TypeOK
<1>1. ASSUME NEW r \in Requests, SearchHit(r) PROVE ProvenanceInv'
  BY <1>0, <1>1, ProvenanceHit
<1>2. ASSUME NEW r \in Requests, Finish(r) PROVE ProvenanceInv'
  BY <1>0, <1>2, ProvenanceFinish
<1>3. ASSUME NEW r \in Requests, SearchMiss(r) PROVE ProvenanceInv'
  BY <1>0, <1>3, ProvenanceKept DEF SearchMiss, TypeOK, SweepInPast
<1>4. ASSUME NEW r \in Requests, Disconnect(r) PROVE ProvenanceInv'
  BY <1>0, <1>4, ProvenanceKept DEF Disconnect, SweepInPast
<1>5. ASSUME NEW r \in Requests, NEW p \in Providers, NEW o, Resolves(r, p, o)
      PROVE  ProvenanceInv'
  <2>1. \A a \in Requests : pc[a] = "done" => outcome'[a] = outcome[a]
    BY <1>0, <1>5 DEF Resolves, TypeOK
  <2> QED
    BY <1>0, <1>5, <2>1, ProvenanceKept DEF Resolves, SweepInPast
<1>6. ASSUME NEW r \in Requests, NEW p \in Providers,
             \/ ProviderAnswers(r, p) \/ ProviderFails(r, p)
             \/ ProviderTimesOut(r, p) \/ ProviderCancelled(r, p)
      PROVE  ProvenanceInv'
  BY <1>5, <1>6
  DEF ProviderAnswers, ProviderFails, ProviderTimesOut, ProviderCancelled
<1>7. CASE Janitor
  <2>1. /\ DOMAIN items' \subseteq DOMAIN items
        /\ \A k \in DOMAIN items' : items'[k] = items[k]
        /\ clock' = clock /\ sweepNow' \in {Idle, clock} /\ UNCHANGED reqVars
    BY <1>7 DEF Janitor, PurgeStarts, PurgeSweeps, Restrict
  <2>2. SweepInPast'
    BY <1>0, <2>1 DEF SweepInPast, Idle
  <2> QED
    BY <1>0, <2>1, <2>2, ProvenanceKept DEF reqVars
<1>8. CASE TimePasses
  <2>1. SweepInPast'
    BY <1>0, <1>8 DEF TimePasses, SweepInPast, TypeOK, Idle
  <2> QED
    BY <1>0, <1>8, <2>1, ProvenanceKept DEF TimePasses, reqVars
<1>9. CASE UNCHANGED vars
  BY <1>0, <1>9, ProvenanceKept DEF vars, SweepInPast
<1> QED
  BY <1>1, <1>2, <1>3, <1>4, <1>6, <1>7, <1>8, <1>9 DEF Moves, RequestStep

\* ProvenanceInv holds from the initial state on.
THEOREM Provenance == Spec => []ProvenanceInv
BY ProvenanceInit, ProvenanceStep, NextMoves, PTL DEF Spec

\* Every response is, whole and unchanged, the result of one search of the
\* same key that returned at most a TTL earlier and accounts for its providers.
COROLLARY Origin == Spec => []AnswersComeFromASearch
BY Provenance, PTL DEF ProvenanceInv
-----------------------------------------------------------------------------
\* The store that ReadThrough sees: an entry is in it until it expires.
LEMMA StoreOf ==
  /\ LiveItems = [k \in {j \in DOMAIN items : Live(j)} |-> items[k]]
  /\ DOMAIN LiveItems = {j \in DOMAIN items : Live(j)}
  /\ \A k \in DOMAIN LiveItems : LiveItems[k] = items[k]
BY DEF LiveItems, Restrict

LEMMA RefinementInit ==
  ASSUME Init
  PROVE  Abstract!Init
<1>1. LiveItems = << >>
  BY DEF Init, CacheInit, LiveItems, Restrict
<1>2. [r \in Requests |-> [key |-> CacheKey(params[r]), bypass |-> params[r].bypass]]
        \in [Requests -> [key : Keys, bypass : BOOLEAN]]
  <2>1. \A r \in Requests : params[r] \in Asked /\ params[r].bypass \in BOOLEAN
    BY DEF Init, Params
  <2>2. \A r \in Requests : CacheKey(params[r]) \in Keys
    BY <2>1, KeyType
  <2> QED
    BY <2>1, <2>2
<1> QED
  BY <1>1, <1>2 DEF Abstract!Init, Init, CacheInit

LEMMA RefinementHit ==
  ASSUME TypeOK, NEW r \in Requests, SearchHit(r)
  PROVE  Abstract!AskHit(r)
<1>1. CacheKey(params[r]) \in DOMAIN LiveItems
  BY StoreOf DEF SearchHit, Live
<1>2. UNCHANGED <<clock, LiveItems, params>>
  BY DEF SearchHit, LiveItems, Live
<1> QED
  BY <1>1, <1>2, StoreOf DEF SearchHit, Abstract!AskHit

LEMMA RefinementMiss ==
  ASSUME TypeOK, NEW r \in Requests, SearchMiss(r)
  PROVE  Abstract!AskMiss(r)
<1>1. params[r].bypass \/ CacheKey(params[r]) \notin DOMAIN LiveItems
  BY StoreOf DEF SearchMiss
<1>2. UNCHANGED <<clock, LiveItems, params, answer>>
  BY DEF SearchMiss, LiveItems, Live
<1> QED
  BY <1>1, <1>2 DEF SearchMiss, Abstract!AskMiss

\* A search that ends stores, in the same step, exactly what it returns.
LEMMA RefinementFinish ==
  ASSUME TypeOK, NEW r \in Requests, Finish(r)
  PROVE  Abstract!Publish(r, answer'[r])
<1> DEFINE k == CacheKey(params[r])
           ans == AnswerOf(outcome[r], params[r])
           e == [answer |-> ans, expiresAt |-> clock + TTL]
<1>1. /\ pc[r] = "searching"
      /\ pc' = [pc EXCEPT ![r] = "done"]
      /\ answer' = [answer EXCEPT ![r] = ans]
      /\ items' = [j \in DOMAIN items \cup {k} |-> IF j = k THEN e ELSE items[j]]
      /\ UNCHANGED <<clock, params>>
  BY DEF Finish, Set
<1>2. answer'[r] = ans
  BY <1>1 DEF TypeOK
<1>3. clock \in Nat /\ e.expiresAt = clock + TTL
  BY DEF TypeOK
<1> HIDE DEF ans, e, k
<1>4. \A j : Live(j)' <=> j = k \/ Live(j)
  BY <1>1, <1>3 DEF Live, Expired
<1>5. LiveItems' = [j \in DOMAIN LiveItems \cup {k} |-> IF j = k THEN e ELSE LiveItems[j]]
  BY <1>1, <1>4, StoreOf DEF LiveItems, Restrict
<1> QED
  BY <1>1, <1>2, <1>5 DEF Abstract!Publish, e, k

\* When time passes, what expires is forgotten by the store.
LEMMA RefinementTime ==
  ASSUME TypeOK, TimePasses
  PROVE  Abstract!Tick
<1>1. clock' = clock + 1 /\ clock \in Nat /\ UNCHANGED <<items, params, pc, answer>>
  BY DEF TimePasses, TypeOK, reqVars
<1>2. \A k \in DOMAIN items : items[k].expiresAt \in Nat
  BY DEF TypeOK
<1>3. \A k : Live(k)' <=> Live(k) /\ clock' <= items[k].expiresAt
  BY <1>1, <1>2 DEF Live, Expired
<1>4. LiveItems' = Restrict(LiveItems, {k \in DOMAIN LiveItems : clock' <= LiveItems[k].expiresAt})
  BY <1>1, <1>3, StoreOf DEF LiveItems, Restrict
<1> QED
  BY <1>1, <1>4 DEF Abstract!Tick, Abstract!Fresh, Abstract!Restrict, Restrict

\* The janitor removes only what no request could be served any more: the
\* clock it read is not ahead of the one a request reads.
LEMMA RefinementJanitor ==
  ASSUME TypeOK, SweepInPast, Janitor
  PROVE  UNCHANGED Abstract!vars
<1>1. UNCHANGED <<clock, params, pc, answer>> /\ clock \in Nat
  BY DEF Janitor, PurgeStarts, PurgeSweeps, reqVars, TypeOK
<1>2. CASE PurgeStarts
  BY <1>1, <1>2 DEF PurgeStarts, LiveItems, Live, Abstract!vars
<1>3. CASE PurgeSweeps
  <2>1. \A k \in DOMAIN items : items[k].expiresAt \in Nat
    BY DEF TypeOK
  <2>2. sweepNow \in Nat /\ sweepNow <= clock
    BY <1>3 DEF TypeOK, SweepInPast, PurgeSweeps
  <2>3. /\ DOMAIN items' = {k \in DOMAIN items : ~Expired(items[k], sweepNow)}
        /\ \A k \in DOMAIN items' : items'[k] = items[k]
    BY <1>3 DEF PurgeSweeps, Restrict
  <2>4. \A k : Live(k)' <=> Live(k)
    BY <1>1, <2>1, <2>2, <2>3 DEF Live, Expired
  <2>5. LiveItems' = LiveItems
    BY <2>3, <2>4 DEF LiveItems, Restrict, Live
  <2> QED
    BY <1>1, <2>5 DEF Abstract!vars
<1> QED
  BY <1>2, <1>3 DEF Janitor

\* Every step of Aggregator is a step of the store or leaves it as it is.
LEMMA RefinementStep ==
  ASSUME TypeOK, SweepInPast, [Moves]_vars
  PROVE  [Abstract!Next]_Abstract!vars
<1>1. ASSUME NEW r \in Requests, SearchHit(r) PROVE Abstract!Next
  BY <1>1, RefinementHit DEF Abstract!Next
<1>2. ASSUME NEW r \in Requests, SearchMiss(r) PROVE Abstract!Next
  BY <1>2, RefinementMiss DEF Abstract!Next
<1>3. ASSUME NEW r \in Requests, Finish(r) PROVE Abstract!Next
  BY <1>3, RefinementFinish DEF Abstract!Next
<1>4. ASSUME NEW r \in Requests, Disconnect(r) PROVE UNCHANGED Abstract!vars
  BY <1>4 DEF Disconnect, Abstract!vars, LiveItems, Live
<1>5. ASSUME NEW r \in Requests, NEW p \in Providers,
             \/ ProviderAnswers(r, p) \/ ProviderFails(r, p)
             \/ ProviderTimesOut(r, p) \/ ProviderCancelled(r, p)
      PROVE  UNCHANGED Abstract!vars
  BY <1>5 DEF ProviderAnswers, ProviderFails, ProviderTimesOut, ProviderCancelled,
              Resolves, Abstract!vars, LiveItems, Live
<1>6. CASE Janitor
  BY <1>6, RefinementJanitor
<1>7. CASE TimePasses
  BY <1>7, RefinementTime DEF Abstract!Next
<1>8. CASE UNCHANGED vars
  BY <1>8 DEF vars, Abstract!vars, LiveItems, Live
<1> QED
  BY <1>1, <1>2, <1>3, <1>4, <1>5, <1>6, <1>7, <1>8 DEF Moves, RequestStep

\* Aggregator implements the store of ReadThrough.
THEOREM Refinement == Spec => ImplementsReadThrough
<1>1. ASSUME ProvenanceInv, [Next]_vars PROVE [Abstract!Next]_Abstract!vars
  BY <1>1, NextMoves, RefinementStep DEF ProvenanceInv
<1> QED
  BY <1>1, RefinementInit, Provenance, PTL DEF Spec, ImplementsReadThrough, Abstract!Spec
==============================================================================
