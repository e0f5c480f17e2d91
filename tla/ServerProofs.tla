----------------------------- MODULE ServerProofs -----------------------------
(***************************************************************************)
(* The server process keeps all that is proved of Aggregator, and its      *)
(* shutdown cuts nothing short, for any number of requests and providers   *)
(* and any timeouts.                                                       *)
(***************************************************************************)
EXTENDS Server, AggregatorProofs

USE ServerAssumption
-----------------------------------------------------------------------------
\* To the searches, the cache and the janitor, a step of the server is one of
\* their own steps or none.
LEMMA ServerMoves ==
  ASSUME [ServerNext]_allVars
  PROVE  [Moves]_vars
<1>1. ASSUME NEW r \in Requests,
             \/ Begin(r) \/ Works(Disconnect(r)) \/ Works(Finish(r))
             \/ \E p \in Providers :
                  \/ Works(ProviderAnswers(r, p)) \/ Works(ProviderFails(r, p))
                  \/ Works(ProviderTimesOut(r, p)) \/ Works(ProviderCancelled(r, p))
      PROVE  RequestStep(r)
  BY <1>1 DEF RequestStep, Begin, Works
<1>2. ASSUME NEW r \in Requests, Accept(r) \/ CloseUnread(r) \/ Written(r)
      PROVE  UNCHANGED vars
  BY <1>2 DEF Accept, CloseUnread, Written
<1>3. ASSUME ServeFails \/ Signal \/ Drained \/ GraceOver
      PROVE  UNCHANGED vars
  BY <1>3 DEF ServeFails, Signal, Drained, GraceOver
<1>4. Works(Janitor) => Janitor
  BY DEF Works
<1>5. ServerTick => TimePasses
  BY DEF ServerTick, Works
<1> QED
  BY <1>1, <1>2, <1>3, <1>4, <1>5 DEF ServerNext, Moves, allVars

\* All that is served over the server's connections is as fresh, on the route
\* asked for and from a search that accounts for its providers.
THEOREM ServedAsProved == FairSpec => [](FreshnessInv /\ ProvenanceInv)
<1>1. ServerInit => FreshnessInv /\ ProvenanceInv
  BY FreshnessInit, ProvenanceInit DEF ServerInit
<1>2. FreshnessInv /\ ProvenanceInv /\ [ServerNext]_allVars => FreshnessInv' /\ ProvenanceInv'
  BY ServerMoves, FreshnessStep, ProvenanceStep
<1> QED
  BY <1>1, <1>2, PTL DEF FairSpec

\* The whole process implements the store of ReadThrough.
THEOREM ServerRefinement == FairSpec => ImplementsReadThrough
<1>1. ServerInit => Abstract!Init
  BY RefinementInit DEF ServerInit
<1>2. ProvenanceInv /\ [ServerNext]_allVars => [Abstract!Next]_Abstract!vars
  BY ServerMoves, RefinementStep DEF ProvenanceInv
<1> QED
  BY <1>1, <1>2, ServedAsProved, PTL DEF FairSpec, ImplementsReadThrough, Abstract!Spec
-----------------------------------------------------------------------------
LEMMA ShutdownInit ==
  ASSUME ServerInit
  PROVE  ShutdownInv
<1>1. ServerTypeOK
  BY TypeCorrectInit DEF ServerInit, ServerTypeOK
<1>2. OnTime
  BY FreshnessInit DEF ServerInit, FreshnessInv
<1>3. SearchesOnConnections /\ HeadersInTime /\ DrainsInTime /\ NothingCutShort
  BY DEF ServerInit, Init, SearchesOnConnections, HeadersInTime, DrainsInTime, NothingCutShort
<1> QED
  BY <1>1, <1>2, <1>3 DEF ShutdownInv

\* A connection is accepted; it can be used up to its header timeout.
LEMMA AcceptKeeps ==
  ASSUME ShutdownInv, TypeOK', OnTime', NEW r \in Requests, Accept(r)
  PROVE  ShutdownInv'
<1> USE DEF ShutdownInv, ServerTypeOK
<1>1. /\ conn[r] = "none" /\ conn' = [conn EXCEPT ![r] = "new"]
      /\ acceptedAt' = [acceptedAt EXCEPT ![r] = clock]
      /\ phase = "serving" /\ UNCHANGED <<clock, pc, start, phase, stopAt>>
      /\ clock \in Nat
  BY DEF Accept, vars, TypeOK
<1>2. ServerTypeOK'
  BY <1>1
<1>3. SearchesOnConnections' /\ DrainsInTime' /\ NothingCutShort'
  BY <1>1 DEF SearchesOnConnections, DrainsInTime, NothingCutShort
<1>4. HeadersInTime'
  BY <1>1 DEF HeadersInTime, HeaderDue
<1> QED
  BY <1>2, <1>3, <1>4

\* A search begins at most a header timeout after its connection was accepted.
LEMMA BeginKeeps ==
  ASSUME ShutdownInv, TypeOK', OnTime', NEW r \in Requests, Begin(r)
  PROVE  ShutdownInv'
<1> USE DEF ShutdownInv, ServerTypeOK
<1>1. /\ conn[r] = "new" /\ conn' = [conn EXCEPT ![r] = "active"]
      /\ acceptedAt' = [acceptedAt EXCEPT ![r] = 0]
      /\ Up /\ UNCHANGED <<clock, phase, stopAt>>
      /\ \E s \in {"searching", "done"} : pc' = [pc EXCEPT ![r] = s]
      /\ start' = [start EXCEPT ![r] = clock]
      /\ clock \in Nat /\ start \in [Requests -> Nat] /\ pc \in [Requests -> {"idle", "searching", "done"}]
  BY DEF Begin, SearchHit, SearchMiss, TypeOK
<1>2. ServerTypeOK'
  BY <1>1
<1>3. SearchesOnConnections' /\ HeadersInTime' /\ NothingCutShort'
  BY <1>1 DEF SearchesOnConnections, HeadersInTime, HeaderDue, NothingCutShort, Up
<1>4. DrainsInTime'
  <2>1. phase = "draining" => clock + Grace <= stopAt + HeaderTimeout
    BY <1>1 DEF HeadersInTime, HeaderDue, DrainsInTime
  <2> QED
    BY <1>1, <2>1 DEF DrainsInTime
<1> QED
  BY <1>2, <1>3, <1>4

\* Steps of the connections and of the searches that only end something.
LEMMA EndingKeeps ==
  ASSUME ShutdownInv, TypeOK', OnTime', Up,
         UNCHANGED <<clock, start, phase, stopAt>>,
         conn' \in [Requests -> {"none", "new", "active", "closed"}],
         acceptedAt' \in [Requests -> Nat],
         \A r \in Requests :
           /\ conn'[r] = conn[r] \/ conn'[r] = "closed"
           /\ conn'[r] = "new" => acceptedAt'[r] = acceptedAt[r]
           /\ conn'[r] = "closed" => pc'[r] # "searching"
           /\ pc'[r] = pc[r] \/ (pc[r] = "searching" /\ pc'[r] = "done")
  PROVE  ShutdownInv'
<1> USE DEF ShutdownInv, ServerTypeOK
<1>1. ServerTypeOK'
  OBVIOUS
<1>2. SearchesOnConnections'
  BY DEF SearchesOnConnections
<1>3. HeadersInTime' /\ NothingCutShort'
  BY DEF HeadersInTime, HeaderDue, NothingCutShort, Up
<1>4. DrainsInTime'
  BY DEF DrainsInTime
<1> QED
  BY <1>1, <1>2, <1>3, <1>4

LEMMA SignalKeeps ==
  ASSUME ShutdownInv, Signal
  PROVE  ShutdownInv'
<1> USE DEF ShutdownInv, ServerTypeOK
<1>1. /\ phase' = "draining" /\ stopAt' = clock + Grace
      /\ UNCHANGED <<vars, conn, acceptedAt>> /\ clock \in Nat
      /\ UNCHANGED <<clock, pc, start>>
  BY DEF Signal, TypeOK, vars
<1>2. TypeOK' /\ OnTime'
  BY <1>1 DEF vars, TypeOK, OnTime
<1>3. ServerTypeOK'
  BY <1>1, <1>2
<1>4. SearchesOnConnections' /\ HeadersInTime' /\ NothingCutShort'
  BY <1>1 DEF SearchesOnConnections, HeadersInTime, HeaderDue, NothingCutShort
<1>5. DrainsInTime'
  BY <1>1 DEF DrainsInTime, HeadersInTime, OnTime, TypeOK
<1> QED
  BY <1>2, <1>3, <1>4, <1>5

\* The process ends.  When the grace is over, no header is still awaited and no
\* search still runs: both had their time.
LEMMA EndKeeps ==
  ASSUME ShutdownInv, ServeFails \/ Drained \/ GraceOver
  PROVE  ShutdownInv'
<1> USE DEF ShutdownInv, ServerTypeOK
<1>1. /\ phase' \in {"exited", "failed"} /\ UNCHANGED <<vars, stopAt, conn, acceptedAt>>
      /\ UNCHANGED <<clock, pc, start>>
  BY DEF ServeFails, Drained, GraceOver, vars
<1>2. TypeOK' /\ OnTime'
  BY <1>1 DEF vars, TypeOK, OnTime
<1>3. ServerTypeOK'
  BY <1>1, <1>2
<1>4. SearchesOnConnections' /\ HeadersInTime' /\ DrainsInTime'
  BY <1>1 DEF SearchesOnConnections, HeadersInTime, HeaderDue, DrainsInTime
<1>5. NothingCutShort'
  <2> SUFFICES ASSUME GraceSuffices, phase' = "exited", NEW r \in Requests
               PROVE  \/ conn[r] \in {"none", "closed"} /\ pc[r] # "searching"
                      \/ conn[r] = "active" /\ pc[r] = "done"
    BY <1>1 DEF NothingCutShort, GraceSuffices
  <2>1. CASE Drained
    BY <2>1 DEF Drained, SearchesOnConnections
  <2>2. CASE GraceOver
    <3>1. /\ phase = "draining" /\ clock >= stopAt
          /\ clock \in Nat /\ start[r] \in Nat /\ pc[r] \in {"idle", "searching", "done"}
          /\ conn[r] \in {"none", "new", "active", "closed"}
      BY <2>2 DEF GraceOver, TypeOK
    <3>2. HeaderTimeout + ProviderTimeout < Grace
      BY DEF GraceSuffices
    <3>3. conn[r] # "new"
      <4> SUFFICES ASSUME conn[r] = "new" PROVE FALSE
        OBVIOUS
      <4>1. acceptedAt[r] + Grace <= stopAt /\ clock <= acceptedAt[r] + HeaderTimeout
        BY <3>1 DEF HeadersInTime, HeaderDue, DrainsInTime
      <4>2. acceptedAt[r] \in Nat /\ stopAt \in Nat
        OBVIOUS
      <4> QED
        BY ONLY <3>1, <3>2, <4>1, <4>2, ServerAssumption, AggregatorAssumption
    <3>4. pc[r] # "searching"
      <4> SUFFICES ASSUME pc[r] = "searching" PROVE FALSE
        OBVIOUS
      <4>1. /\ start[r] + Grace <= stopAt + HeaderTimeout
            /\ clock <= start[r] + ProviderTimeout
        BY <3>1 DEF OnTime, DrainsInTime
      <4> QED
        BY ONLY <3>1, <3>2, <4>1, stopAt \in Nat, ServerAssumption, AggregatorAssumption
    <3> QED
      BY <3>1, <3>3, <3>4 DEF SearchesOnConnections
  <2>3. CASE ServeFails
    BY <2>3 DEF ServeFails
  <2> QED
    BY <2>1, <2>2, <2>3
<1> QED
  BY <1>2, <1>3, <1>4, <1>5

LEMMA TickKeeps ==
  ASSUME ShutdownInv, TypeOK', OnTime', ServerTick
  PROVE  ShutdownInv'
<1> USE DEF ShutdownInv, ServerTypeOK
<1>1. /\ clock' = clock + 1 /\ clock \in Nat /\ Up
      /\ UNCHANGED <<pc, start, phase, stopAt, conn, acceptedAt>>
      /\ \A r \in Requests : conn[r] = "new" => clock < HeaderDue(r)
      /\ phase = "draining" => clock < stopAt
  BY DEF ServerTick, Works, TimePasses, reqVars, procVars, TypeOK
<1>2. ServerTypeOK'
  BY <1>1
<1>3. SearchesOnConnections' /\ NothingCutShort'
  BY <1>1 DEF SearchesOnConnections, NothingCutShort, Up
<1>4. HeadersInTime' /\ DrainsInTime'
  BY <1>1 DEF HeadersInTime, HeaderDue, DrainsInTime
<1> QED
  BY <1>2, <1>3, <1>4

LEMMA ShutdownStep ==
  ASSUME ShutdownInv, TypeOK', OnTime', [ServerNext]_allVars
  PROVE  ShutdownInv'
<1>0. /\ conn \in [Requests -> {"none", "new", "active", "closed"}]
      /\ acceptedAt \in [Requests -> Nat]
      /\ pc \in [Requests -> {"idle", "searching", "done"}]
      /\ SearchesOnConnections
  BY DEF ShutdownInv, ServerTypeOK, TypeOK
<1>1. ASSUME NEW r \in Requests, CloseUnread(r) \/ Written(r) PROVE ShutdownInv'
  <2>1. /\ Up /\ UNCHANGED <<clock, start, pc, phase, stopAt>>
        /\ conn' = [conn EXCEPT ![r] = "closed"]
        /\ acceptedAt' \in [Requests -> Nat]
        /\ \A s \in Requests : s # r => acceptedAt'[s] = acceptedAt[s]
        /\ pc[r] # "searching"
    BY <1>0, <1>1 DEF CloseUnread, Written, vars, SearchesOnConnections
  <2> QED
    BY <1>0, <2>1, EndingKeeps DEF SearchesOnConnections
<1>2. ASSUME NEW r \in Requests, Works(Finish(r)) PROVE ShutdownInv'
  <2>1. /\ Up /\ UNCHANGED <<clock, start, phase, stopAt, conn, acceptedAt>>
        /\ pc[r] = "searching" /\ pc' = [pc EXCEPT ![r] = "done"]
    BY <1>2 DEF Works, Finish, Set, procVars
  <2> QED
    BY <1>0, <2>1, EndingKeeps DEF SearchesOnConnections
<1>3. ASSUME Up, UNCHANGED <<clock, start, pc, phase, stopAt, conn, acceptedAt>>
      PROVE  ShutdownInv'
  BY <1>0, <1>3, EndingKeeps DEF SearchesOnConnections
<1>4. ASSUME NEW r \in Requests,
             \/ Works(Disconnect(r))
             \/ \E p \in Providers :
                  \/ Works(ProviderAnswers(r, p)) \/ Works(ProviderFails(r, p))
                  \/ Works(ProviderTimesOut(r, p)) \/ Works(ProviderCancelled(r, p))
      PROVE  ShutdownInv'
  BY <1>3, <1>4 DEF Works, procVars, Disconnect, ProviderAnswers, ProviderFails,
                    ProviderTimesOut, ProviderCancelled, Resolves
<1>5. CASE Works(Janitor)
  BY <1>3, <1>5 DEF Works, procVars, Janitor, PurgeStarts, PurgeSweeps, reqVars
<1>6. CASE UNCHANGED allVars
  BY <1>6 DEF allVars, vars, procVars, ShutdownInv, ServerTypeOK, SearchesOnConnections,
              HeadersInTime, HeaderDue, DrainsInTime, NothingCutShort
<1> QED
  BY <1>1, <1>2, <1>4, <1>5, <1>6, AcceptKeeps, BeginKeeps, SignalKeeps, EndKeeps, TickKeeps
  DEF ServerNext

\* The server's connections, searches and shutdown keep their time.
THEOREM Shutdown == FairSpec => []ShutdownInv
<1>1. FreshnessInv' => TypeOK' /\ OnTime'
  BY DEF FreshnessInv
<1>2. ShutdownInv /\ FreshnessInv' /\ [ServerNext]_allVars => ShutdownInv'
  BY <1>1, ShutdownStep
<1> QED
  BY <1>2, ShutdownInit, ServedAsProved, PTL DEF FairSpec

\* A shutdown whose grace exceeds the header and the provider timeout together
\* cuts short no request and no search.
COROLLARY GracefulShutdown == FairSpec => []NothingCutShort
BY Shutdown, PTL DEF ShutdownInv
===============================================================================
