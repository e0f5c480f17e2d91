-------------------------------- MODULE Server --------------------------------
(***************************************************************************)
(* The life of the server process (cmd/server/main.go) around the          *)
(* searches, the cache and the janitor of Aggregator: connections are      *)
(* accepted, a request is read from each within ReadHeaderTimeout, its     *)
(* search runs and its response is written; a signal begins a graceful     *)
(* shutdown, which ends the process when every connection is finished or   *)
(* its time is over.                                                       *)
(*                                                                         *)
(* Each request of Aggregator comes over a connection of its own.  A       *)
(* connection kept alive between two requests is idle: Shutdown closes it  *)
(* at once, so the next request on it counts as a new connection.          *)
(***************************************************************************)
EXTENDS Aggregator

CONSTANTS
  HeaderTimeout,  \* ReadHeaderTimeout
  Grace           \* the timeout of the context given to Shutdown

ASSUME ServerAssumption == HeaderTimeout \in Nat /\ Grace \in Nat

VARIABLES
  phase,       \* "serving", "draining", "exited" or "failed"
  stopAt,      \* when Shutdown gives up
  conn,        \* request -> "none", "new", "active" or "closed"
  acceptedAt   \* request -> when its connection was accepted, while it is new

procVars == <<phase, stopAt, conn, acceptedAt>>
allVars == <<vars, procVars>>

ServerInit ==
  /\ Init
  /\ phase = "serving"
  /\ stopAt = 0
  /\ conn = [r \in Requests |-> "none"]
  /\ acceptedAt = [r \in Requests |-> 0]

Up == phase \in {"serving", "draining"}

\* Shutdown closes the listener first.
Accept(r) ==
  /\ phase = "serving"
  /\ conn[r] = "none"
  /\ conn' = [conn EXCEPT ![r] = "new"]
  /\ acceptedAt' = [acceptedAt EXCEPT ![r] = clock]
  /\ UNCHANGED <<vars, phase, stopAt>>

\* The header has been read and the handler calls Search, also while the
\* server drains.
Begin(r) ==
  /\ Up
  /\ conn[r] = "new"
  /\ SearchHit(r) \/ SearchMiss(r)
  /\ conn' = [conn EXCEPT ![r] = "active"]
  /\ acceptedAt' = [acceptedAt EXCEPT ![r] = 0]
  /\ UNCHANGED <<phase, stopAt>>

\* Wrong on purpose: the server has no ReadHeaderTimeout of its own, a
\* connection may stay silent until the shutdown gives up.
HeaderDueAtStop(r) == acceptedAt[r] + HeaderTimeout + Grace

HeaderDue(r) == acceptedAt[r] + HeaderTimeout

\* The client is silent for too long, or leaves.
CloseUnread(r) ==
  /\ Up
  /\ conn[r] = "new"
  /\ conn' = [conn EXCEPT ![r] = "closed"]
  /\ acceptedAt' = [acceptedAt EXCEPT ![r] = 0]
  /\ UNCHANGED <<vars, phase, stopAt>>

\* The response is written to the end, which takes as long as the client
\* takes to read it: there is no WriteTimeout.
Written(r) ==
  /\ Up
  /\ conn[r] = "active"
  /\ pc[r] = "done"
  /\ conn' = [conn EXCEPT ![r] = "closed"]
  /\ UNCHANGED <<vars, phase, stopAt, acceptedAt>>

\* ListenAndServe fails, to bind or later: log.Fatalf ends the process.
ServeFails ==
  /\ phase = "serving"
  /\ phase' = "failed"
  /\ UNCHANGED <<vars, stopAt, conn, acceptedAt>>

\* SIGINT or SIGTERM; nothing receives a second one.
Signal ==
  /\ phase = "serving"
  /\ phase' = "draining"
  /\ stopAt' = clock + Grace
  /\ UNCHANGED <<vars, conn, acceptedAt>>

\* Wrong on purpose: only requests being answered are waited for.
DrainedOfActive ==
  /\ phase = "draining"
  /\ \A r \in Requests : conn[r] # "active"
  /\ phase' = "exited"
  /\ UNCHANGED <<vars, stopAt, conn, acceptedAt>>

\* Shutdown finds no connection that is new or active; main returns.
Drained ==
  /\ phase = "draining"
  /\ \A r \in Requests : conn[r] \in {"none", "closed"}
  /\ phase' = "exited"
  /\ UNCHANGED <<vars, stopAt, conn, acceptedAt>>

\* Wrong on purpose: the shutdown waits for every client.
GraceForClients ==
  /\ phase = "draining"
  /\ clock >= stopAt
  /\ \A r \in Requests : conn[r] # "active"
  /\ phase' = "exited"
  /\ UNCHANGED <<vars, stopAt, conn, acceptedAt>>

\* Shutdown's context is done; main returns whatever is under way.
GraceOver ==
  /\ phase = "draining"
  /\ clock >= stopAt
  /\ phase' = "exited"
  /\ UNCHANGED <<vars, stopAt, conn, acceptedAt>>

\* A goroutine of Aggregator or the cache, while the process is up.
Works(A) == Up /\ A /\ UNCHANGED procVars

\* No time passes beyond a deadline the server acts on.
ServerTick ==
  /\ \/ clock < MaxTime \/ phase = "draining"
     \/ \E r \in Requests : pc[r] = "searching" \/ conn[r] = "new"
  /\ \A r \in Requests : conn[r] = "new" => clock < HeaderDue(r)
  /\ phase = "draining" => clock < stopAt
  /\ Works(TimePasses)

ServerNext ==
  \/ \E r \in Requests :
       \/ Accept(r) \/ Begin(r) \/ CloseUnread(r) \/ Written(r)
       \/ Works(Disconnect(r)) \/ Works(Finish(r))
       \/ \E p \in Providers :
            \/ Works(ProviderAnswers(r, p)) \/ Works(ProviderFails(r, p))
            \/ Works(ProviderTimesOut(r, p)) \/ Works(ProviderCancelled(r, p))
  \/ ServeFails \/ Signal \/ Drained \/ GraceOver
  \/ Works(Janitor)
  \/ ServerTick

\* The clock runs, the goroutines honour their deadline, wg.Wait returns once
\* they all have, the janitor's ticker keeps firing, net/http closes a silent
\* connection at its deadline and Shutdown notices what it waits for.  Nobody
\* has to connect, ask, answer, read, leave or signal.
Fairness ==
  /\ WF_allVars(ServerTick)
  /\ \A r \in Requests :
       /\ WF_allVars(Works(Finish(r)))
       /\ WF_allVars(clock >= HeaderDue(r) /\ CloseUnread(r))
       /\ \A p \in Providers : WF_allVars(Works(ProviderTimesOut(r, p)))
  /\ WF_allVars(Works(PurgeStarts /\ UNCHANGED reqVars))
  /\ WF_allVars(Works(PurgeSweeps /\ UNCHANGED reqVars))
  /\ WF_allVars(Drained)
  /\ WF_allVars(GraceOver)

FairSpec == ServerInit /\ [][ServerNext]_allVars /\ Fairness
-----------------------------------------------------------------------------
\* The grace covers the slowest request that was accepted before the signal.
\* With the defaults (main.go:58, 73, config.go:33) the two sides are equal.
GraceSuffices == HeaderTimeout + ProviderTimeout < Grace

Down == phase \in {"exited", "failed"}

\* A shutdown whose grace suffices cuts nothing short: when the process ends,
\* every client whose connection was accepted has been heard out or was silent
\* for too long, and every search that began is done, even one that began
\* after the signal; only a client slow to read can lose its response
\* (main.go:55-59, 68-77).
NothingCutShort ==
  (GraceSuffices /\ phase = "exited") =>
    \A r \in Requests :
      \/ conn[r] \in {"none", "closed"} /\ pc[r] # "searching"
      \/ conn[r] = "active" /\ pc[r] = "done"

\* What keeps that right, part by part.
ServerTypeOK ==
  /\ TypeOK
  /\ phase \in {"serving", "draining", "exited", "failed"}
  /\ stopAt \in Nat
  /\ conn \in [Requests -> {"none", "new", "active", "closed"}]
  /\ acceptedAt \in [Requests -> Nat]

\* A search runs on a connection that is active, and only there.
SearchesOnConnections ==
  \A r \in Requests :
    /\ conn[r] \in {"none", "new"} => pc[r] = "idle"
    /\ conn[r] = "active" => pc[r] # "idle"
    /\ conn[r] = "closed" => pc[r] # "searching"

\* No connection is new for longer than its header may take.
HeadersInTime ==
  \A r \in Requests :
    conn[r] = "new" => acceptedAt[r] <= clock /\ clock <= HeaderDue(r)

\* Nothing that a shutdown waits for came later than the signal, a search at
\* most by the time its header took.
DrainsInTime ==
  phase = "draining" =>
    /\ clock <= stopAt
    /\ \A r \in Requests :
         /\ conn[r] = "new" => acceptedAt[r] + Grace <= stopAt
         /\ pc[r] = "searching" => start[r] + Grace <= stopAt + HeaderTimeout

ShutdownInv ==
  /\ ServerTypeOK
  /\ OnTime
  /\ SearchesOnConnections
  /\ HeadersInTime
  /\ DrainsInTime
  /\ NothingCutShort

\* A signal ends the process, however slow the clients and providers
\* (main.go:73-77).
ShutdownEnds == phase = "draining" ~> phase = "exited"

\* Every search that has begun returns, however slow, failing or abandoned by
\* its client, and also while the server shuts down, unless the grace is too
\* short or the listener fails (aggregator.go:40-52, main.go:61-77).
EverySearchAnswers ==
  \A r \in Requests :
    pc[r] = "searching" ~>
      (pc[r] = "done" \/ phase = "failed" \/ (Down /\ ~GraceSuffices))

\* An expired entry does not stay in the memory of a running process: the
\* janitor removes it, unless a search replaces it first (cache.go:55-80).
ExpiredIsPurged ==
  \A k \in Keys :
    (k \in DOMAIN items /\ ~Live(k)) ~> (k \notin DOMAIN items \/ Live(k) \/ Down)
==============================================================================
