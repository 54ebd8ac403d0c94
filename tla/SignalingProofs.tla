-------------------------- MODULE SignalingProofs ---------------------------
(***************************************************************************)
(* Proofs about the signaling client and about login, the two parts that   *)
(* meet in the status callbacks and the messages of one websocket.         *)
(***************************************************************************)
EXTENDS WsClient, SignalLogin, TLAPS

-----------------------------------------------------------------------------
(***************************************************************************)
(* Proofs about WsClient, for any number of workers and any queue limits.  *)
(*                                                                         *)
(* OneConnector is not inductive: that a second worker never gets past its *)
(* wait rests on is_reconnecting_ being up, on behalf of reconnect_thread_,*)
(* as long as a worker runs (Owned), and that a worker never overlaps the  *)
(* application's own Connect rests on no reconnect being forced before it  *)
(* returns (AppFirst).  DrainedBeforeConnect and NoRevival need what each  *)
(* place of StopThreads, Connect and Shutdown has already settled (Quiet,  *)
(* Down, Stages) and that nothing runs before the first Connect has made   *)
(* its endpoint (FirstConnect).                                            *)
(***************************************************************************)

\* Every worker that runs is the one is_reconnecting_ stands for.
Owned == \A w \in Workers : pc[w] # "none" => rc.busy /\ w = rc.thread

\* While the application is in Connect, a worker is at most waiting, unforced.
AppFirst ==
    pc["app"] \in Building =>
        /\ ~rc.now
        /\ \A w \in Workers : pc[w] \in {"none", "publish", "wait"}

IInv == TypeOK /\ Owned /\ AppFirst

\* The threads that are not workers have names of their own.
LEMMA Names ==
    /\ "app" \notin Workers /\ "io" \notin Workers
    /\ "ping" \notin Workers /\ "callback" \notin Workers
BY WorkersAssumption

(***************************************************************************)
(* Updates of the records keep their types.                                *)
(***************************************************************************)
LEMMA EndpointTypes ==
    /\ NoEndpoint \in EndpointStates
    /\ [NoEndpoint EXCEPT !.up = TRUE] \in EndpointStates
    /\ \A e \in EndpointStates :
         /\ [e EXCEPT !.stop = TRUE] \in EndpointStates
         /\ \A n \in NetStates : [e EXCEPT !.net = n] \in EndpointStates
BY DEF NoEndpoint, EndpointStates, NetStates

LEMMA QueueTypes ==
    ASSUME NEW r \in QueueStates
    PROVE  /\ r.jobs < StatusSlots => [r EXCEPT !.jobs = @ + 1] \in QueueStates
           /\ r.jobs > 0 => [r EXCEPT !.jobs = @ - 1, !.exec = "current"] \in QueueStates
           /\ [r EXCEPT !.jobs = 0, !.exec = IF @ = "no" THEN @ ELSE "old"] \in QueueStates
           /\ [r EXCEPT !.exec = "no"] \in QueueStates
           /\ [r EXCEPT !.stopping = TRUE, !.jobs = 0] \in QueueStates
           /\ [r EXCEPT !.detached = TRUE] \in QueueStates
<1>. DEFINE Counts == 0..StatusSlots
<1>1. r.jobs \in Counts /\ 0 \in Counts
  BY SlotsAssumption DEF QueueStates
<1>2. r.jobs < StatusSlots => r.jobs + 1 \in Counts
  BY <1>1, SlotsAssumption
<1>3. r.jobs > 0 => r.jobs - 1 \in Counts
  BY <1>1, SlotsAssumption
<1>4. QueueStates = [jobs : Counts, exec : {"no", "current", "old"},
                     stopping : BOOLEAN, detached : BOOLEAN]
  BY DEF QueueStates
<1>. HIDE DEF Counts
<1>5. r.jobs < StatusSlots => [r EXCEPT !.jobs = @ + 1] \in QueueStates
  BY <1>2, <1>4
<1>6. r.jobs > 0 => [r EXCEPT !.jobs = @ - 1, !.exec = "current"] \in QueueStates
  BY <1>3, <1>4
<1>7. /\ [r EXCEPT !.jobs = 0, !.exec = IF @ = "no" THEN @ ELSE "old"] \in QueueStates
      /\ [r EXCEPT !.exec = "no"] \in QueueStates
      /\ [r EXCEPT !.stopping = TRUE, !.jobs = 0] \in QueueStates
      /\ [r EXCEPT !.detached = TRUE] \in QueueStates
  BY <1>1, <1>4
<1>. QED BY <1>5, <1>6, <1>7

\* SetStatus keeps the queue within its limit.
LEMMA SetStatusOk ==
    ASSUME q \in QueueStates, NEW s \in Statuses, SetStatus(s)
    PROVE  status' \in Statuses /\ q' \in QueueStates
BY QueueTypes DEF SetStatus, Accepts

\* The invariant holds initially.
LEMMA InitIInv == Init => IInv
<1>. SUFFICES ASSUME Init PROVE IInv
  OBVIOUS
<1>1. rc \in ReconnectStates
  BY DEF Init, ReconnectStates
<1>2. ep \in EndpointStates
  BY EndpointTypes DEF Init
<1>3. q \in QueueStates
  BY SlotsAssumption DEF Init, QueueStates
<1>4. ~rc.now
  BY DEF Init
<1>. QED
  BY <1>1, <1>2, <1>3, <1>4, Names
  DEF Init, IInv, TypeOK, Owned, AppFirst, Threads, Connectors, Closers, Building, Places, Statuses

\* ScheduleReconnect starts a worker only when none runs.
LEMMA ScheduleOk ==
    ASSUME TypeOK, Owned, AppFirst,
           NEW force \in BOOLEAN, force => pc["app"] \notin Building,
           NEW p \in [Threads -> Places],
           \A t \in Connectors : p[t] = pc[t],
           ScheduleReconnect(force, p)
    PROVE  /\ pc' \in [Threads -> Places]
           /\ rc' \in ReconnectStates
           /\ stale' \subseteq Workers
           /\ Owned' /\ AppFirst'
<1>1. CASE shutdown
  BY <1>1, Names DEF ScheduleReconnect, TypeOK, Owned, AppFirst, Threads, Connectors
<1>2. CASE ~shutdown /\ rc.busy
  <2>. DEFINE b == rc.now \/ (force /\ rc.waiting)
  <2>1. rc' = [rc EXCEPT !.now = b] /\ pc' = p /\ stale' = stale
    BY <1>2 DEF ScheduleReconnect
  <2>2. b \in BOOLEAN /\ (~rc.now /\ ~force => ~b)
    OBVIOUS
  <2>. HIDE DEF b
  <2>3. rc' \in ReconnectStates /\ rc'.busy = rc.busy /\ rc'.thread = rc.thread /\ rc'.now = b
    BY <2>1, <2>2 DEF ReconnectStates, TypeOK
  <2>. QED BY <2>1, <2>2, <2>3, Names DEF TypeOK, Owned, AppFirst, Threads, Connectors
<1>3. CASE ~shutdown /\ ~rc.busy
  <2>1. \A v \in Workers : pc[v] = "none"
    BY <1>3 DEF Owned
  <2>2. PICK w \in Workers :
            /\ pc' = [p EXCEPT ![w] = "publish"]
            /\ rc' = [busy |-> TRUE, waiting |-> TRUE, now |-> force, thread |-> w]
            /\ stale' = stale \ {w}
    <3>1. \E v \in Workers : pc[v] = "none"
      BY <2>1, WorkersAssumption
    <3>. QED BY <3>1, <1>3 DEF ScheduleReconnect
  <2>3. rc' \in ReconnectStates /\ rc'.busy /\ rc'.thread = w /\ rc'.now = force
    BY <2>2 DEF ReconnectStates
  <2>. QED BY <2>1, <2>2, <2>3, Names DEF TypeOK, Owned, AppFirst, Threads, Connectors, Places
<1>. QED BY <1>1, <1>2, <1>3

\* The steps of StopThreads and Connect keep the invariant.
LEMMA ConnectorOk ==
    ASSUME IInv, NEW t \in Connectors, StopThreads(t) \/ Connect(t)
    PROVE  IInv'
<1>. USE Names
     DEF IInv, TypeOK, Owned, AppFirst, Threads, Connectors, Move, Building, Places
<1>1. CASE StopPing(t)
  BY <1>1 DEF StopPing
<1>2. CASE JoinPing(t)
  BY <1>2 DEF JoinPing
<1>3. CASE CleanupPendingThreads(t)
  BY <1>3 DEF CleanupPendingThreads
<1>4. CASE JoinPending(t)
  BY <1>4, EndpointTypes DEF JoinPending
<1>5. CASE JoinIo(t)
  BY <1>5 DEF JoinIo
<1>6. CASE InvalidateCallbacks(t)
  BY <1>6, QueueTypes DEF InvalidateCallbacks
<1>7. CASE Sleep(t)
  BY <1>7 DEF Sleep
<1>8. CASE Recheck(t)
  BY <1>8 DEF Recheck
<1>9. CASE ResetTransport(t)
  BY <1>9, EndpointTypes DEF ResetTransport, Return
<1>10. CASE ConnectEnter(t)
  <2>1. CASE shutdown
    <3>1. pc' = [pc EXCEPT ![t] = "idle"] \/ pc' = [pc EXCEPT ![t] = "finish"]
      BY <1>10, <2>1 DEF ConnectEnter, Return
    <3>. QED BY <1>10, <2>1, <3>1 DEF ConnectEnter
  <2>2. CASE ~shutdown
    <3>1. /\ pc' = [pc EXCEPT ![t] = "stop"] /\ pc[t] = "connect"
          /\ caller' = [caller EXCEPT ![t] = "Connect"]
      BY <1>10, <2>2 DEF ConnectEnter
    <3>2. caller' \in [Connectors -> {"ReConnect", "Connect", "Refused"}]
      BY <3>1
    <3>. QED BY <1>10, <3>1, <3>2 DEF ConnectEnter
  <2>. QED BY <2>1, <2>2
<1>11. CASE ConnectStart(t)
  <2>1. status' \in Statuses /\ q' \in QueueStates /\ ep' \in EndpointStates
    BY <1>11, SetStatusOk, EndpointTypes DEF ConnectStart, Statuses
  <2>2. /\ pc' \in [Threads -> Places]
        /\ pc'[t] = "dial" /\ \A s \in Connectors \ {t} : pc'[s] = pc[s]
    BY <1>11 DEF ConnectStart
  <2>. QED BY <1>11, <2>1, <2>2 DEF ConnectStart
<1>12. CASE ConnectDial(t)
  <2>1. [ep EXCEPT !.net = "connecting"] \in EndpointStates
    BY EndpointTypes DEF NetStates
  <2>2. ep' \in EndpointStates
    BY <1>12, <2>1 DEF ConnectDial
  <2>3. caller' \in [Connectors -> {"ReConnect", "Connect", "Refused"}]
    <3>1. caller' = caller \/ caller' = [caller EXCEPT ![t] = "Refused"]
      BY <1>12 DEF ConnectDial
    <3>. QED BY <3>1
  <2>4. pc' = [pc EXCEPT ![t] = "dialed"] \/ pc' = [pc EXCEPT ![t] = "stop"]
    BY <1>12 DEF ConnectDial
  <2>. QED BY <1>12, <2>2, <2>3, <2>4 DEF ConnectDial
<1>13. CASE ConnectDone(t)
  BY <1>13, SetStatusOk DEF Statuses, ConnectDone, Return
<1>. QED
  BY <1>1, <1>2, <1>3, <1>4, <1>5, <1>6, <1>7, <1>8, <1>9, <1>10, <1>11, <1>12, <1>13
  DEF StopThreads, Connect

\* The steps of a reconnect worker keep the invariant.
LEMMA WorkerOk ==
    ASSUME IInv, NEW w \in Workers, WorkerStep(w)
    PROVE  IInv'
<1>. USE Names DEF IInv, TypeOK, Owned, AppFirst, Threads, Connectors, Move, Building, Places
<1>1. CASE Publish(w)
  <2>1. status' \in Statuses /\ q' \in QueueStates
    BY <1>1, SetStatusOk DEF Publish, Statuses
  <2>. QED BY <1>1, <2>1 DEF Publish
<1>2. CASE Wake(w)
  <2>. DEFINE b == ~(shutdown \/ w \in stale)
  <2>1. rc' = [rc EXCEPT !.waiting = FALSE, !.now = FALSE, !.busy = b]
    BY <1>2 DEF Wake
  <2>2. b \in BOOLEAN
    OBVIOUS
  <2>3. pc' = [pc EXCEPT ![w] = IF b THEN "reconnect" ELSE "none"]
    BY <1>2 DEF Wake
  <2>4. pc["app"] \in Building => ~b
    BY <1>2 DEF Wake, WaitOver, Initialising
  <2>. HIDE DEF b
  <2>5. rc' \in ReconnectStates /\ rc'.busy = b /\ rc'.thread = rc.thread /\ ~rc'.now
    BY <2>1, <2>2 DEF ReconnectStates
  <2>. QED BY <1>2, <2>2, <2>3, <2>4, <2>5 DEF Wake
<1>3. CASE ReConnect(w)
  <2>1. status' \in Statuses /\ q' \in QueueStates
    BY <1>3, SetStatusOk DEF ReConnect, Statuses
  <2>2. [ep EXCEPT !.net = "closing"] \in EndpointStates
    BY EndpointTypes DEF NetStates
  <2>3. ep' \in EndpointStates
    BY <1>3, <2>2 DEF ReConnect
  <2>. QED BY <1>3, <2>1, <2>3 DEF ReConnect
<1>4. CASE StopThreads(w) \/ Connect(w)
  BY <1>4, ConnectorOk
<1>5. CASE Finish(w)
  <2>1. rc' \in ReconnectStates /\ rc'.thread = rc.thread /\ rc'.now = rc.now
    BY <1>5 DEF Finish, ReconnectStates
  <2>. QED BY <1>5, <2>1 DEF Finish
<1>. QED BY <1>1, <1>2, <1>3, <1>4, <1>5 DEF WorkerStep

\* A thread that is no connector calls ScheduleReconnect and moves on.
LEMMA CallerOk ==
    ASSUME IInv, NEW t \in {"io", "ping", "callback"}, NEW where \in Places,
           NEW force \in BOOLEAN, force => pc["app"] \notin Building,
           ScheduleReconnect(force, Move(t, where)),
           UNCHANGED <<caller, shutdown, holder, status, running, ep, q>>
    PROVE  IInv'
<1>. DEFINE p == Move(t, where)
<1>1. p \in [Threads -> Places] /\ \A s \in Connectors : p[s] = pc[s]
  BY Names DEF IInv, TypeOK, Move, Threads, Connectors
<1>2. ScheduleReconnect(force, p)
  OBVIOUS
<1>. HIDE DEF p
<1>. QED BY <1>1, <1>2, ScheduleOk DEF IInv, TypeOK

\* The steps of the I/O thread and of the heartbeat keep the invariant.
LEMMA IoOk ==
    ASSUME IInv,
           OnOpen \/ OnFail \/ OnClose \/ OnMessage \/ OnPong \/ IoStep \/ PingStep
    PROVE  IInv'
<1>. USE Names DEF IInv, TypeOK, Owned, AppFirst, Threads, Connectors, Move, Building, Places
<1>0. /\ \A n \in NetStates : [ep EXCEPT !.net = n] \in EndpointStates
      /\ "open" \in NetStates /\ "failed" \in NetStates /\ "closed" \in NetStates
  BY EndpointTypes DEF NetStates
<1>1. CASE OnOpen
  <2>1. status' \in Statuses /\ q' \in QueueStates /\ ep' \in EndpointStates
    BY <1>0, <1>1, SetStatusOk DEF OnOpen, Statuses
  <2>. QED BY <1>1, <2>1 DEF OnOpen
<1>2. CASE RestartPing
  <2>1. /\ \/ pc' = [pc EXCEPT !["io"] = "loop"]
           \/ pc' = [pc EXCEPT !["io"] = "spawn"]
           \/ pc' = [pc EXCEPT !["io"] = "rejoin"]
        /\ running' \in BOOLEAN
    BY <1>2 DEF RestartPing
  <2>. QED BY <1>2, <2>1 DEF RestartPing
<1>3. CASE SpawnPing
  BY <1>3 DEF SpawnPing
<1>4. CASE OnFail
  <2>1. status' \in Statuses /\ q' \in QueueStates /\ ep' \in EndpointStates
    BY <1>0, <1>4, SetStatusOk DEF OnFail, Statuses
  <2>. QED BY <1>4, <2>1 DEF OnFail
<1>5. CASE OnClose
  <2>1. ep' \in EndpointStates
    BY <1>0, <1>5 DEF OnClose
  <2>. QED BY <1>5, <2>1 DEF OnClose
<1>6. CASE OnMessage
  <2>1. q' \in QueueStates
    <3>1. q.jobs \in Nat
      BY SlotsAssumption DEF QueueStates
    <3>2. Accepts(MessageSlots) => q.jobs < StatusSlots
      BY <3>1, SlotsAssumption DEF Accepts
    <3>3. Accepts(MessageSlots) => [q EXCEPT !.jobs = @ + 1] \in QueueStates
      BY <3>2, QueueTypes
    <3>. QED BY <1>6, <3>3 DEF OnMessage
  <2>. QED BY <1>6, <2>1 DEF OnMessage
<1>7. CASE OnPong
  BY <1>7 DEF OnPong
<1>8. CASE IoSchedule
  BY <1>8, CallerOk DEF IoSchedule
<1>9. CASE IoExit
  BY <1>9 DEF IoExit
<1>10. CASE PingSend
  BY <1>10 DEF PingSend
<1>11. CASE PingGivesUp
  BY <1>11 DEF PingGivesUp
<1>12. CASE PingEnd
  BY <1>12 DEF PingEnd
<1>13. CASE PingSchedule
  BY <1>13, CallerOk DEF PingSchedule
<1>. QED
  BY <1>1, <1>2, <1>3, <1>4, <1>5, <1>6, <1>7, <1>8, <1>9, <1>10, <1>11, <1>12, <1>13
  DEF IoStep, PingStep

\* A wake-up moves a sleeping connector within its wait.
LEMMA NotifiedOk ==
    ASSUME NEW p \in [Threads -> Places]
    PROVE  /\ Notified(p) \in [Threads -> Places]
           /\ \A s \in Threads :
                /\ p[s] # "asleep" => Notified(p)[s] = p[s]
                /\ p[s] = "asleep" => Notified(p)[s] = "recheck"
BY DEF Notified, Places, Building

\* The steps of the callback thread keep the invariant.
LEMMA CallbackOk ==
    ASSUME IInv, CallbackStep
    PROVE  IInv'
<1>. USE Names DEF IInv, TypeOK, Owned, AppFirst, Threads, Connectors, Move, Building, Places
<1>1. CASE CallbackTake
  BY <1>1, QueueTypes DEF CallbackTake
<1>2. CASE CallbackRun
  BY <1>2 DEF CallbackRun
<1>3. CASE JobReturns
  BY <1>3 DEF JobReturns
<1>4. ASSUME NEW f \in BOOLEAN, JobReconnects(f) PROVE IInv'
  BY <1>4, CallerOk DEF JobReconnects, Initialising
<1>5. CASE JobCloses
  BY <1>5 DEF JobCloses
<1>6. CASE CallbackDone
  <2>. DEFINE p == Move("callback", IF q.stopping THEN "none" ELSE "idle")
  <2>1. p \in [Threads -> Places] /\ \A s \in Connectors : p[s] = pc[s]
    OBVIOUS
  <2>2. pc' = Notified(p) /\ q' \in QueueStates
    BY <1>6, QueueTypes DEF CallbackDone
  <2>. HIDE DEF p
  <2>3. /\ pc' \in [Threads -> Places]
        /\ \A s \in Connectors : pc'[s] = pc[s] \/ (pc[s] = "asleep" /\ pc'[s] = "recheck")
    BY <2>1, <2>2, NotifiedOk
  <2>. QED BY <1>6, <2>2, <2>3 DEF CallbackDone
<1>7. CASE CallbackExit
  BY <1>7 DEF CallbackExit
<1>. QED BY <1>1, <1>2, <1>3, <1>4, <1>5, <1>6, <1>7 DEF CallbackStep

\* The steps of Shutdown keep the invariant.
LEMMA ShutdownOk ==
    ASSUME IInv, NEW t \in Closers, Shutdown(t)
    PROVE  IInv'
<1>. USE Names DEF IInv, TypeOK, Owned, AppFirst, Threads, Connectors, Closers, Move, Building, Places
<1>1. CASE ShutdownLock(t)
  BY <1>1 DEF ShutdownLock, Ended
<1>2. CASE Terminate(t)
  <2>. DEFINE p == Move(t, "joinWorkers")
  <2>1. /\ p \in [Threads -> Places] /\ p[t] = "joinWorkers"
        /\ \A s \in Connectors \ {t} : p[s] = pc[s]
    OBVIOUS
  <2>2. pc' = Notified(p)
    BY <1>2 DEF Terminate
  <2>. HIDE DEF p
  <2>3. /\ pc' \in [Threads -> Places] /\ pc'[t] = "joinWorkers"
        /\ \A s \in Connectors \ {t} :
              pc'[s] = pc[s] \/ (pc[s] = "asleep" /\ pc'[s] = "recheck")
    BY <2>1, <2>2, NotifiedOk
  <2>. QED BY ZenonT(40), <1>2, <2>2, <2>3 DEF Terminate
<1>3. CASE JoinWorkers(t)
  BY <1>3 DEF JoinWorkers
<1>4. CASE JoinHeartbeat(t)
  BY <1>4, EndpointTypes DEF JoinHeartbeat
<1>5. CASE StopQueue(t)
  <2>. DEFINE p == Move(t, "joinCallbacks")
  <2>1. /\ p \in [Threads -> Places] /\ p[t] = "joinCallbacks"
        /\ \A s \in Connectors \ {t} : p[s] = pc[s]
    OBVIOUS
  <2>2. pc' = Notified(p) /\ q' \in QueueStates
    BY <1>5, QueueTypes DEF StopQueue
  <2>. HIDE DEF p
  <2>3. /\ pc' \in [Threads -> Places] /\ pc'[t] = "joinCallbacks"
        /\ \A s \in Connectors \ {t} :
              pc'[s] = pc[s] \/ (pc[s] = "asleep" /\ pc'[s] = "recheck")
    BY <2>1, <2>2, NotifiedOk
  <2>. QED BY ZenonT(40), <1>5, <2>2, <2>3 DEF StopQueue
<1>6. CASE JoinCallbacks(t)
  <2>1. [q EXCEPT !.detached = TRUE] \in QueueStates /\ NoEndpoint \in EndpointStates
    BY EndpointTypes, QueueTypes
  <2>2. q' \in QueueStates /\ ep' \in EndpointStates
    BY <1>6, <2>1 DEF JoinCallbacks
  <2>3. pc' = [pc EXCEPT ![t] = "closed"] \/ pc' = [pc EXCEPT ![t] = "done"]
    BY <1>6 DEF JoinCallbacks, Ended
  <2>. QED BY <1>6, <2>2, <2>3 DEF JoinCallbacks
<1>. QED BY <1>1, <1>2, <1>3, <1>4, <1>5, <1>6 DEF Shutdown

\* Every step keeps the invariant.
LEMMA NextIInv == IInv /\ [Next]_vars => IInv'
<1>. SUFFICES ASSUME IInv, [Next]_vars PROVE IInv'
  OBVIOUS
<1>1. ASSUME NEW w \in Workers, WorkerStep(w) PROVE IInv'
  BY <1>1, WorkerOk
<1>2. CASE AppStep
  BY <1>2, ConnectorOk DEF AppStep, Connectors
<1>3. CASE ForceReconnect
  <2>1. pc["app"] \notin Building
    BY <1>3 DEF ForceReconnect, Building
  <2>2. pc \in [Threads -> Places]
    BY DEF IInv, TypeOK
  <2>. QED BY <1>3, <2>1, <2>2, ScheduleOk DEF ForceReconnect, IInv, TypeOK
<1>4. CASE Close
  BY <1>4, Names
  DEF Close, Move, IInv, TypeOK, Owned, AppFirst, Threads, Connectors, Building, Places
<1>5. CASE OnOpen \/ OnFail \/ OnClose \/ OnMessage \/ OnPong \/ IoStep \/ PingStep
  BY <1>5, IoOk
<1>6. CASE CallbackStep
  BY <1>6, CallbackOk
<1>7. ASSUME NEW t \in Closers, Shutdown(t) PROVE IInv'
  BY <1>7, ShutdownOk
<1>8. CASE UNCHANGED vars
  BY <1>8 DEF vars, IInv, TypeOK, Owned, AppFirst
<1>. QED BY <1>1, <1>2, <1>3, <1>4, <1>5, <1>6, <1>7, <1>8 DEF Next, Over

\* So it always holds.
LEMMA Invariance == Spec => []IInv
BY InitIInv, NextIInv, PTL DEF Spec

\* The type invariant; in particular the callback queue of StartCallbacks and
\* QueueCallback never outgrows its limit.
THEOREM TypeCorrect == Spec => []TypeOK
<1>1. IInv => TypeOK
  BY DEF IInv
<1>. QED BY Invariance, <1>1, PTL

\* Never do two threads tear down and rebuild the endpoint at a time, however
\* failures, pong timeouts, clicks and shutdowns interleave with ReConnect.
THEOREM OneConnectorAtATime == Spec => []OneConnector
<1>1. IInv => OneConnector
  <2>. SUFFICES ASSUME IInv, NEW s \in Connectors, NEW t \in Connectors,
                       pc[s] \in Building, pc[t] \in Building
                PROVE  s = t
    BY DEF OneConnector
  <2>. QED BY Names DEF IInv, Owned, AppFirst, Connectors, Building
<1>. QED BY Invariance, <1>1, PTL
-----------------------------------------------------------------------------
(***************************************************************************)
(* What a rebuilt endpoint and a finished Shutdown leave behind.           *)
(***************************************************************************)

\* Inside the critical section of shutdown_mtx_; inside StopThreads.
Locked == {"terminate", "joinWorkers", "joinHeartbeat", "joinEndpoint", "joinCallbacks"}
Tearing == {"stop", "joinPing", "cleanup", "joinPending", "joinIo", "invalidate", "drain",
            "asleep", "recheck", "reset"}

\* In Connect, before the endpoint is made.
Fresh(t) == pc[t] \in {"connect", "start"} \/ (pc[t] \in Tearing /\ caller[t] = "Connect")

LockHeld == \A t \in Closers : pc[t] \in Locked <=> holder = t
Executing == q.exec = "no" <=> pc["callback"] \in {"none", "idle"}

\* A worker before or in its backoff wait has reconnect_waiting_ set.
Waits == \A w \in Workers : pc[w] \in {"publish", "wait"} => rc.waiting

\* The application only connects, and nothing else runs before its Connect has
\* made its endpoint.
FirstConnect ==
    /\ caller["app"] # "ReConnect"
    /\ Fresh("app") => /\ ~shutdown /\ q.jobs = 0
                       /\ \A t \in Threads \ {"app"} : pc[t] = "none"

\* From the stop of the endpoint on, the old one is not taken for a live one.
Down ==
    \A t \in Connectors :
        pc[t] \in {"joinIo", "invalidate", "drain", "asleep", "recheck", "reset"} =>
            ~ep.up \/ ep.stop

\* A worker that rebuilds has joined the I/O thread, emptied the queue and, but
\* for a shutdown, waited for the callback; its Connect finds nothing to wait for.
Quiet ==
    \A w \in Workers :
        /\ pc[w] \in {"invalidate", "drain", "asleep", "recheck", "reset", "connect"} =>
              pc["io"] = "none"
        /\ pc[w] \in {"drain", "asleep", "recheck", "reset", "connect"} => q.jobs = 0
        /\ pc[w] \in {"reset", "connect"} => shutdown \/ q.exec = "no"
        /\ pc[w] # "connect" /\ Fresh(w) => q.jobs = 0 /\ q.exec = "no" /\ pc["io"] = "none"

\* What Shutdown has joined stays away.
Stages ==
    \A t \in Closers :
        /\ pc[t] \in Locked \ {"terminate"} => shutdown
        /\ pc[t] \in {"joinHeartbeat", "joinEndpoint", "joinCallbacks"} =>
              \A w \in Workers : pc[w] = "none"
        /\ pc[t] = "joinCallbacks" => pc["io"] = "none"

KInv ==
    /\ LockHeld /\ Executing /\ Waits /\ FirstConnect /\ Down /\ Quiet /\ Stages
    /\ NoRevival /\ DrainedBeforeConnect

\* It holds initially.
LEMMA InitKInv == Init => KInv
<1>. SUFFICES ASSUME Init PROVE KInv
  OBVIOUS
<1>1. /\ \A t \in Threads : pc[t] = IF t = "app" THEN "connect" ELSE "none"
      /\ ~shutdown /\ holder = "nobody" /\ q.exec = "no" /\ q.jobs = 0 /\ ~ep.up
      /\ caller["app"] = "Connect"
  BY DEF Init, NoEndpoint, Connectors
<1>. QED
  BY <1>1, Names
  DEF KInv, LockHeld, Executing, Waits, FirstConnect, Down, Quiet, Stages, NoRevival,
      DrainedBeforeConnect, Locked, Tearing, Fresh, Threads, Connectors, Closers

\* The steps of StopThreads and Connect keep it.
LEMMA ConnectorKInv ==
    ASSUME IInv, KInv, NEW t \in Connectors, StopThreads(t) \/ Connect(t)
    PROVE  KInv'
<1>. USE Names
     DEF IInv, TypeOK, Owned, AppFirst, Threads, Connectors, Closers, Move, Building, Places,
         KInv, LockHeld, Executing, Waits, FirstConnect, Down, Quiet, Stages, NoRevival,
         DrainedBeforeConnect, Locked, Tearing, Fresh, EndpointStates, QueueStates
<1>1. CASE StopPing(t)
  BY <1>1 DEF StopPing
<1>2. CASE JoinPing(t)
  BY <1>2 DEF JoinPing
<1>3. CASE CleanupPendingThreads(t)
  BY <1>3 DEF CleanupPendingThreads
<1>4. CASE JoinPending(t)
  BY <1>4 DEF JoinPending
<1>5. CASE JoinIo(t)
  BY <1>5 DEF JoinIo
<1>6. CASE InvalidateCallbacks(t)
  BY <1>6 DEF InvalidateCallbacks, Drained
<1>7. CASE Sleep(t)
  BY <1>7 DEF Sleep
<1>8. CASE Recheck(t)
  BY <1>8 DEF Recheck, Drained
<1>9. CASE ResetTransport(t)
  <2>1. \/ pc' = [pc EXCEPT ![t] = "connect"] /\ caller[t] = "ReConnect"
        \/ pc' = [pc EXCEPT ![t] = "start"] /\ caller[t] = "Connect"
        \/ pc' = [pc EXCEPT ![t] = "idle"] /\ t = "app"
        \/ pc' = [pc EXCEPT ![t] = "finish"] /\ t # "app"
    BY <1>9 DEF ResetTransport, Return
  <2>2. ~ep'.up
    BY <1>9 DEF ResetTransport, NoEndpoint
  <2>. QED BY <1>9, <2>1, <2>2 DEF ResetTransport
<1>10. CASE ConnectEnter(t)
  BY <1>10 DEF ConnectEnter, Return
<1>11. CASE ConnectStart(t)
  BY <1>11 DEF ConnectStart, SetStatus, NoEndpoint
<1>12. CASE ConnectDial(t)
  BY <1>12 DEF ConnectDial
<1>13. CASE ConnectDone(t)
  BY <1>13 DEF ConnectDone, Return, SetStatus, Accepts
<1>. QED
  BY <1>1, <1>2, <1>3, <1>4, <1>5, <1>6, <1>7, <1>8, <1>9, <1>10, <1>11, <1>12, <1>13
  DEF StopThreads, Connect
\* ScheduleReconnect: a worker is started only before shutdown.
LEMMA ScheduleKInv ==
    ASSUME IInv, KInv, NEW force \in BOOLEAN, NEW p \in [Threads -> Places],
           \A t \in Connectors : p[t] = pc[t],
           p["io"] = pc["io"] \/ pc["io"] = "schedule",
           p["callback"] = pc["callback"] \/ (pc["callback"] = "job" /\ p["callback"] = "done"),
           ScheduleReconnect(force, p), ~Fresh("app"),
           UNCHANGED <<caller, shutdown, holder, status, running, ep, q>>
    PROVE  KInv'
<1>. USE Names
     DEF IInv, TypeOK, Owned, AppFirst, Threads, Connectors, Closers, Building, Places,
         KInv, LockHeld, Executing, Waits, FirstConnect, Down, Quiet, Stages, NoRevival,
         DrainedBeforeConnect, Locked, Tearing, Fresh, EndpointStates, QueueStates
<1>1. CASE shutdown
  BY <1>1 DEF ScheduleReconnect
<1>2. CASE ~shutdown /\ rc.busy
  <2>1. pc' = p /\ rc'.waiting = rc.waiting
    BY <1>2 DEF ScheduleReconnect, ReconnectStates
  <2>. QED BY <2>1
<1>3. CASE ~shutdown /\ ~rc.busy
  <2>1. \A v \in Workers : pc[v] = "none"
    BY <1>3
  <2>2. PICK w \in Workers :
            /\ pc' = [p EXCEPT ![w] = "publish"]
            /\ rc' = [busy |-> TRUE, waiting |-> TRUE, now |-> force, thread |-> w]
    <3>1. \E v \in Workers : pc[v] = "none"
      BY <2>1, WorkersAssumption
    <3>. QED BY ZenonT(40), <3>1, <1>3 DEF ScheduleReconnect
  <2>. QED BY <1>3, <2>1, <2>2
<1>. QED BY <1>1, <1>2, <1>3

\* The same for a thread that is no connector and moves on.
LEMMA CallerKInv ==
    ASSUME IInv, KInv, NEW t \in {"io", "ping", "callback"}, NEW force \in BOOLEAN,
           pc[t] = IF t = "callback" THEN "job" ELSE "schedule",
           NEW where \in Places, t = "callback" => where = "done",
           ScheduleReconnect(force, Move(t, where)),
           UNCHANGED <<caller, shutdown, holder, status, running, ep, q>>
    PROVE  KInv'
<1>. DEFINE p == Move(t, where)
<1>1. /\ p \in [Threads -> Places] /\ \A s \in Connectors : p[s] = pc[s]
      /\ p["io"] = pc["io"] \/ pc["io"] = "schedule"
      /\ p["callback"] = pc["callback"] \/ (pc["callback"] = "job" /\ p["callback"] = "done")
  BY Names DEF IInv, TypeOK, Move, Threads, Connectors
<1>2. ScheduleReconnect(force, p)
  OBVIOUS
<1>3. ~Fresh("app")
  BY DEF KInv, FirstConnect, Threads
<1>. HIDE DEF p
<1>. QED BY <1>1, <1>2, <1>3, ScheduleKInv

\* The steps of a reconnect worker keep it.
LEMMA WorkerKInv ==
    ASSUME IInv, KInv, NEW w \in Workers, WorkerStep(w)
    PROVE  KInv'
<1>. USE Names
     DEF IInv, TypeOK, Owned, AppFirst, Threads, Connectors, Closers, Move, Building, Places,
         KInv, LockHeld, Executing, Waits, FirstConnect, Down, Quiet, Stages, NoRevival,
         DrainedBeforeConnect, Locked, Tearing, Fresh, EndpointStates, QueueStates
<1>1. CASE Publish(w)
  BY <1>1 DEF Publish, SetStatus, Accepts
<1>2. CASE Wake(w)
  BY <1>2 DEF Wake
<1>3. CASE ReConnect(w)
  BY <1>3 DEF ReConnect, SetStatus, Accepts
<1>4. CASE StopThreads(w) \/ Connect(w)
  BY <1>4, ConnectorKInv
<1>5. CASE Finish(w)
  BY <1>5 DEF Finish, ReconnectStates
<1>. QED BY <1>1, <1>2, <1>3, <1>4, <1>5 DEF WorkerStep

\* The steps of the I/O thread and of the heartbeat keep it.
LEMMA IoKInv ==
    ASSUME IInv, KInv,
           OnOpen \/ OnFail \/ OnClose \/ OnMessage \/ OnPong \/ IoStep \/ PingStep
    PROVE  KInv'
<1>. USE Names
     DEF IInv, TypeOK, Owned, AppFirst, Threads, Connectors, Closers, Move, Building, Places,
         KInv, LockHeld, Executing, Waits, FirstConnect, Down, Quiet, Stages, NoRevival,
         DrainedBeforeConnect, Locked, Tearing, Fresh, EndpointStates, QueueStates
<1>1. CASE OnOpen
  BY <1>1 DEF OnOpen, Handling, SetStatus, Accepts
<1>2. CASE RestartPing
  BY <1>2 DEF RestartPing
<1>3. CASE SpawnPing
  BY <1>3 DEF SpawnPing
<1>4. CASE OnFail
  BY <1>4 DEF OnFail, Handling, SetStatus, Accepts
<1>5. CASE OnClose
  BY <1>5 DEF OnClose, Handling
<1>6. CASE OnMessage
  BY <1>6 DEF OnMessage, Handling
<1>7. CASE OnPong
  BY <1>7 DEF OnPong, Handling
<1>8. CASE IoSchedule
  BY <1>8, CallerKInv DEF IoSchedule
<1>9. CASE IoExit
  BY <1>9 DEF IoExit
<1>10. CASE PingSend
  BY <1>10 DEF PingSend
<1>11. CASE PingGivesUp
  BY <1>11 DEF PingGivesUp
<1>12. CASE PingEnd
  BY <1>12 DEF PingEnd
<1>13. CASE PingSchedule
  BY <1>13, CallerKInv DEF PingSchedule
<1>. QED
  BY <1>1, <1>2, <1>3, <1>4, <1>5, <1>6, <1>7, <1>8, <1>9, <1>10, <1>11, <1>12, <1>13
  DEF IoStep, PingStep

\* The steps of the callback thread keep it.
LEMMA CallbackKInv ==
    ASSUME IInv, KInv, CallbackStep
    PROVE  KInv'
<1>. USE Names
     DEF IInv, TypeOK, Owned, AppFirst, Threads, Connectors, Closers, Move, Building, Places,
         KInv, LockHeld, Executing, Waits, FirstConnect, Down, Quiet, Stages, NoRevival,
         DrainedBeforeConnect, Locked, Tearing, Fresh, EndpointStates, QueueStates
<1>1. CASE CallbackTake
  BY <1>1 DEF CallbackTake
<1>2. CASE CallbackRun
  BY <1>2 DEF CallbackRun
<1>3. CASE JobReturns
  BY <1>3 DEF JobReturns
<1>4. ASSUME NEW f \in BOOLEAN, JobReconnects(f) PROVE KInv'
  BY <1>4, CallerKInv DEF JobReconnects
<1>5. CASE JobCloses
  BY <1>5 DEF JobCloses
<1>6. CASE CallbackDone
  BY <1>6 DEF CallbackDone, Notified
<1>7. CASE CallbackExit
  BY <1>7 DEF CallbackExit
<1>. QED BY <1>1, <1>2, <1>3, <1>4, <1>5, <1>6, <1>7 DEF CallbackStep

\* The steps of Shutdown keep it.
LEMMA ShutdownKInv ==
    ASSUME IInv, KInv, NEW t \in Closers, Shutdown(t)
    PROVE  KInv'
<1>. USE Names
     DEF IInv, TypeOK, Owned, AppFirst, Threads, Connectors, Closers, Move, Building, Places,
         KInv, LockHeld, Executing, Waits, FirstConnect, Down, Quiet, Stages, NoRevival,
         DrainedBeforeConnect, Locked, Tearing, Fresh, EndpointStates, QueueStates
<1>1. CASE ShutdownLock(t)
  BY <1>1 DEF ShutdownLock, Ended
<1>2. CASE Terminate(t)
  BY <1>2 DEF Terminate, Notified
<1>3. CASE JoinWorkers(t)
  BY <1>3 DEF JoinWorkers
<1>4. CASE JoinHeartbeat(t)
  BY <1>4 DEF JoinHeartbeat
<1>5. CASE StopQueue(t)
  BY <1>5 DEF StopQueue, Notified
<1>6. CASE JoinCallbacks(t)
  BY <1>6 DEF JoinCallbacks, Ended, NoEndpoint
<1>. QED BY <1>1, <1>2, <1>3, <1>4, <1>5, <1>6 DEF Shutdown
\* Every step keeps it.
LEMMA NextKInv == IInv /\ KInv /\ [Next]_vars => KInv'
<1>. SUFFICES ASSUME IInv, KInv, [Next]_vars PROVE KInv'
  OBVIOUS
<1>1. ASSUME NEW w \in Workers, WorkerStep(w) PROVE KInv'
  BY <1>1, WorkerKInv
<1>2. CASE AppStep
  BY <1>2, ConnectorKInv DEF AppStep, Connectors
<1>3. CASE ForceReconnect
  <2>1. ~Fresh("app")
    BY <1>3 DEF ForceReconnect, Fresh, Tearing
  <2>2. pc \in [Threads -> Places]
    BY DEF IInv, TypeOK
  <2>. QED BY <1>3, <2>1, <2>2, ScheduleKInv DEF ForceReconnect
<1>4. CASE Close
  BY <1>4, Names
  DEF Close, Move, IInv, TypeOK, Threads, Connectors, Closers, Building, Places,
      KInv, LockHeld, Executing, Waits, FirstConnect, Down, Quiet, Stages, NoRevival,
      DrainedBeforeConnect, Locked, Tearing, Fresh
<1>5. CASE OnOpen \/ OnFail \/ OnClose \/ OnMessage \/ OnPong \/ IoStep \/ PingStep
  BY <1>5, IoKInv
<1>6. CASE CallbackStep
  BY <1>6, CallbackKInv
<1>7. ASSUME NEW t \in Closers, Shutdown(t) PROVE KInv'
  BY <1>7, ShutdownKInv
<1>8. CASE UNCHANGED vars
  BY <1>8
  DEF vars, KInv, LockHeld, Executing, Waits, FirstConnect, Down, Quiet, Stages, NoRevival,
      DrainedBeforeConnect, Fresh
<1>. QED BY <1>1, <1>2, <1>3, <1>4, <1>5, <1>6, <1>7, <1>8 DEF Next, Over

\* So it always holds.
LEMMA FurtherInvariance == Spec => []KInv
BY InitKInv, NextKInv, Invariance, PTL DEF Spec

\* A callback queued for an earlier connection is over before the endpoint of
\* the next one exists: InvalidateCallbacks either waits for it, or a shutdown
\* cuts the wait short and Connect then refuses.
THEOREM CallbacksDrainedBeforeConnect == Spec => []DrainedBeforeConnect
<1>1. KInv => DrainedBeforeConnect
  BY DEF KInv
<1>. QED BY FurtherInvariance, <1>1, PTL

\* Once a Shutdown is done, no I/O thread, endpoint or reconnect worker is left,
\* and none appears later, whichever thread shuts down while others rebuild.
THEOREM ShutdownIsTerminal == Spec => []NoRevival
<1>1. KInv => NoRevival
  BY DEF KInv
<1>. QED BY FurtherInvariance, <1>1, PTL

\* The forced wake-up of a worker that has not begun or not ended its backoff
\* wait is taken, and kept until the wait ends.
THEOREM ClicksAreNotLost == Spec => ClickNotLost
<1>1. IInv /\ KInv /\ [Next]_vars =>
        [Delayed(pc) => rc.waiting /\ (rc.now /\ Delayed(pc') => rc'.now)]_vars
  <2>. SUFFICES ASSUME IInv, KInv, Next, Delayed(pc)
                PROVE  rc.waiting /\ (rc.now /\ Delayed(pc') => rc'.now)
    OBVIOUS
  <2>1. rc.waiting
    BY DEF KInv, Waits, Delayed
  <2>. SUFFICES ASSUME rc.now, Delayed(pc') PROVE rc'.now
    BY <2>1
  <2>2. rc \in ReconnectStates /\ rc.busy
    BY DEF IInv, TypeOK, Owned, Delayed
  <2>3. ASSUME NEW force, NEW p, ScheduleReconnect(force, p) PROVE rc'.now
    BY <2>2, <2>3 DEF ScheduleReconnect, ReconnectStates
  <2>4. ASSUME NEW w \in Workers, WorkerStep(w) PROVE rc'.now
    <3>1. CASE Wake(w)
      BY <3>1, Names DEF Wake, Move, IInv, TypeOK, Owned, Delayed, Threads
    <3>2. CASE Finish(w)
      BY <3>2, <2>2 DEF Finish, ReconnectStates
    <3>3. CASE Publish(w) \/ ReConnect(w) \/ StopThreads(w) \/ Connect(w)
      BY <3>3
      DEF Publish, ReConnect, StopThreads, StopPing, JoinPing, CleanupPendingThreads,
          JoinPending, JoinIo, InvalidateCallbacks, Sleep, Recheck, ResetTransport, Connect,
          ConnectEnter, ConnectStart, ConnectDial, ConnectDone
    <3>. QED BY <2>4, <3>1, <3>2, <3>3 DEF WorkerStep
  <2>5. CASE ForceReconnect \/ IoSchedule \/ PingSchedule \/ \E f \in BOOLEAN : JobReconnects(f)
    BY <2>3, <2>5 DEF ForceReconnect, IoSchedule, PingSchedule, JobReconnects
  <2>6. CASE AppStep \/ Close
    BY <2>6
    DEF AppStep, Close, StopThreads, StopPing, JoinPing, CleanupPendingThreads, JoinPending,
        JoinIo, InvalidateCallbacks, Sleep, Recheck, ResetTransport, Connect, ConnectEnter,
        ConnectStart, ConnectDial, ConnectDone
  <2>7. CASE OnOpen \/ OnFail \/ OnClose \/ OnMessage \/ OnPong \/ RestartPing \/ SpawnPing
             \/ IoExit \/ PingSend \/ PingGivesUp \/ PingEnd
    BY <2>7
    DEF OnOpen, OnFail, OnClose, OnMessage, OnPong, RestartPing, SpawnPing, IoExit, PingSend,
        PingGivesUp, PingEnd
  <2>8. CASE CallbackTake \/ CallbackRun \/ JobReturns \/ JobCloses \/ CallbackDone
             \/ CallbackExit \/ Over
    BY <2>8
    DEF CallbackTake, CallbackRun, JobReturns, JobCloses, CallbackDone, CallbackExit, Over, vars
  <2>9. ASSUME NEW t \in Closers, Shutdown(t) PROVE rc'.now
    BY <2>9
    DEF Shutdown, ShutdownLock, Terminate, JoinWorkers, JoinHeartbeat, StopQueue, JoinCallbacks
  <2>. QED
    BY <2>4, <2>5, <2>6, <2>7, <2>8, <2>9 DEF Next, IoStep, PingStep, CallbackStep
<1>. QED BY <1>1, Invariance, FurtherInvariance, PTL DEF Spec, ClickNotLost
-----------------------------------------------------------------------------
(***************************************************************************)
(* The end of the callback thread, for an application that does not close  *)
(* from a callback.  (One that does detaches the thread it runs on, and    *)
(* its own callback is then still being executed.)                         *)
(***************************************************************************)

\* The application has joined the callback thread when its Close returns, and
\* the thread is not started again.
Joined ==
    /\ pc["callback"] \notin Locked \cup {"lock"}
    /\ ~q.detached
    /\ pc["app"] = "closed" => shutdown /\ pc["callback"] = "none"

\* As long as nothing starts the callback thread, shuts down or moves the
\* application on, it stays that way.
LEMMA KeepsJoined ==
    ASSUME Joined, shutdown' = shutdown, q'.detached = q.detached,
           pc'["app"] = pc["app"] \/ pc'["app"] # "closed",
           \/ pc'["callback"] = pc["callback"]
           \/ /\ pc["callback"] # "none"
              /\ pc'["callback"] \in {"none", "idle", "taken", "job", "done"}
    PROVE  Joined'
BY DEF Joined, Locked

\* Every step of such an application keeps it.
LEMMA NextJoined ==
    ASSUME ~CallbackCloses, IInv, KInv, Joined, [Next]_vars
    PROVE  Joined'
<1>. USE Names, KeepsJoined DEF IInv, TypeOK, Threads, Connectors, Move
<1>1. ASSUME NEW force, NEW p \in [Threads -> Places], ScheduleReconnect(force, p)
      PROVE  /\ pc'["app"] = p["app"] /\ pc'["callback"] = p["callback"]
  <2>1. shutdown \/ rc.busy => pc' = p
    BY <1>1 DEF ScheduleReconnect
  <2>2. ~shutdown /\ ~rc.busy => \E w \in Workers : pc' = [p EXCEPT ![w] = "publish"]
    <3>1. ~rc.busy => \E v \in Workers : pc[v] = "none"
      BY WorkersAssumption DEF Owned
    <3>. QED BY <1>1, <3>1 DEF ScheduleReconnect
  <2>. QED BY <2>1, <2>2
<1>2. ASSUME NEW t \in Connectors, StopThreads(t) \/ Connect(t) PROVE Joined'
  <2>1. CASE ConnectStart(t)
    <3>1. ~(shutdown /\ holder = "nobody")
      BY <2>1 DEF KInv, NoRevival, FirstConnect, Fresh, ConnectStart
    <3>2. pc["app"] # "closed"
      BY <3>1 DEF Joined, KInv, LockHeld, Closers, Locked
    <3>3. q'.detached = q.detached
      BY <2>1 DEF ConnectStart, SetStatus, QueueStates
    <3>. QED BY <2>1, <3>2, <3>3 DEF ConnectStart, Joined, Locked
  <2>2. CASE ConnectDone(t)
    BY <2>2 DEF ConnectDone, SetStatus, QueueStates, Return
  <2>3. CASE InvalidateCallbacks(t)
    BY <2>3 DEF InvalidateCallbacks, QueueStates
  <2>4. CASE ResetTransport(t)
    BY <2>4 DEF ResetTransport, Return
  <2>5. CASE StopPing(t) \/ JoinPing(t) \/ CleanupPendingThreads(t) \/ JoinPending(t)
             \/ JoinIo(t) \/ Sleep(t) \/ Recheck(t)
    BY <2>5 DEF StopPing, JoinPing, CleanupPendingThreads, JoinPending, JoinIo, Sleep, Recheck
  <2>6. CASE ConnectEnter(t) \/ ConnectDial(t)
    BY <2>6 DEF ConnectEnter, ConnectDial, Return
  <2>. QED BY <1>2, <2>1, <2>2, <2>3, <2>4, <2>5, <2>6 DEF StopThreads, Connect
<1>3. ASSUME NEW w \in Workers, WorkerStep(w) PROVE Joined'
  <2>1. CASE Publish(w) \/ Wake(w) \/ ReConnect(w) \/ Finish(w)
    BY <2>1 DEF Publish, Wake, ReConnect, Finish, SetStatus, QueueStates
  <2>. QED BY <1>2, <1>3, <2>1 DEF WorkerStep
<1>4. CASE ForceReconnect \/ IoSchedule \/ PingSchedule \/ \E f \in BOOLEAN : JobReconnects(f)
  <2>1. PICK p \in [Threads -> Places], force \in BOOLEAN :
          /\ ScheduleReconnect(force, p)
          /\ p["app"] = pc["app"]
          /\ p["callback"] = pc["callback"] \/ (pc["callback"] = "job" /\ p["callback"] = "done")
    <3>. DEFINE io == Move("io", "loop")
                ping == Move("ping", "none")
                job == Move("callback", "done")
    <3>1. /\ io \in [Threads -> Places] /\ ping \in [Threads -> Places]
          /\ job \in [Threads -> Places]
          /\ \A t \in {"app", "callback"} : io[t] = pc[t] /\ ping[t] = pc[t]
          /\ job["app"] = pc["app"] /\ job["callback"] = "done"
      BY DEF Places
    <3>2. \/ ScheduleReconnect(TRUE, pc)
          \/ ScheduleReconnect(FALSE, io) \/ ScheduleReconnect(FALSE, ping)
          \/ pc["callback"] = "job" /\ \E f \in BOOLEAN : ScheduleReconnect(f, job)
      BY <1>4 DEF ForceReconnect, IoSchedule, PingSchedule, JobReconnects
    <3>. HIDE DEF io, ping, job
    <3>. QED BY <3>1, <3>2
  <2>2. shutdown' = shutdown /\ q' = q
    BY <1>4 DEF ForceReconnect, IoSchedule, PingSchedule, JobReconnects
  <2>. QED BY <1>1, <2>1, <2>2
<1>5. CASE AppStep \/ Close
  BY <1>2, <1>5 DEF AppStep, Close
<1>6. CASE OnOpen \/ OnFail \/ OnClose \/ OnMessage \/ OnPong
  BY <1>6 DEF OnOpen, OnFail, OnClose, OnMessage, OnPong, SetStatus, QueueStates
<1>7. CASE RestartPing \/ SpawnPing \/ IoExit \/ PingSend \/ PingGivesUp \/ PingEnd
  BY <1>7 DEF RestartPing, SpawnPing, IoExit, PingSend, PingGivesUp, PingEnd
<1>8. CASE CallbackTake \/ CallbackRun \/ JobReturns \/ JobCloses \/ CallbackExit
  BY <1>8 DEF CallbackTake, CallbackRun, JobReturns, JobCloses, CallbackExit, QueueStates
<1>9. CASE CallbackDone
  BY <1>9 DEF CallbackDone, Notified, QueueStates
<1>10. ASSUME NEW t \in Closers, Shutdown(t) PROVE Joined'
  <2>1. t = "app"
    BY <1>10
    DEF Closers, Joined, Locked, Shutdown, ShutdownLock, Terminate, JoinWorkers, JoinHeartbeat,
        StopQueue, JoinCallbacks
  <2>2. CASE ShutdownLock(t)
    BY <2>1, <2>2 DEF ShutdownLock, NothingToStop, Ended, Joined
  <2>3. CASE Terminate(t)
    BY <2>1, <2>3 DEF Terminate, Notified, Joined, Locked, KInv, FirstConnect
  <2>4. CASE JoinWorkers(t) \/ JoinHeartbeat(t)
    BY <2>1, <2>4 DEF JoinWorkers, JoinHeartbeat
  <2>5. CASE StopQueue(t)
    BY <2>1, <2>5 DEF StopQueue, Notified, QueueStates, Joined, Locked
  <2>6. CASE JoinCallbacks(t)
    BY <2>1, <2>6 DEF JoinCallbacks, Ended, Joined, KInv, Stages, Closers, Locked
  <2>. QED BY <1>10, <2>2, <2>3, <2>4, <2>5, <2>6 DEF Shutdown
<1>11. CASE UNCHANGED vars
  BY <1>11 DEF vars
<1>. QED
  BY <1>3, <1>4, <1>5, <1>6, <1>7, <1>8, <1>9, <1>10, <1>11
  DEF Next, IoStep, PingStep, CallbackStep, Over

\* An executing callback finishes before the application's Close returns, unless
\* a callback itself has called Close.
THEOREM CallbacksFinishBeforeClose == ~CallbackCloses => (Spec => []CallbacksFinished)
<1>. SUFFICES ASSUME ~CallbackCloses PROVE Spec => []CallbacksFinished
  OBVIOUS
<1>1. Init => Joined
  BY Names DEF Init, Joined, Locked, Threads
<1>2. IInv /\ KInv /\ Joined /\ [Next]_vars => Joined'
  BY NextJoined
<1>3. KInv /\ Joined => CallbacksFinished
  BY DEF KInv, Executing, Joined, CallbacksFinished
<1>. QED BY <1>1, <1>2, <1>3, Invariance, FurtherInvariance, PTL DEF Spec

-----------------------------------------------------------------------------
(***************************************************************************)
(* Proofs about SignalLogin, for any sessions, lifetimes and bounds.       *)
(*                                                                         *)
(* That a token is only sent within its life rests on what the client      *)
(* keeps and what is on its way to it: every token was issued, and the     *)
(* expiry kept with it is no later than the one it was issued with         *)
(* (TokensIssued).  That the ICE servers of a connection belong to the     *)
(* current signaling connection rests on the queue: a cache left by an     *)
(* earlier login is cleared by the "opened" that comes before any message  *)
(* of the new connection (CacheCurrent).                                   *)
(***************************************************************************)

Signals == {"closed", "connecting", "reconnecting", "tls", "connected", "failed"}
Configs == [until : Nat, link : Nat]
Clients == [adapter : BOOLEAN, open : BOOLEAN, token : Nat, until : Nat, trying : BOOLEAN,
            modern : BOOLEAN, legacy : Configs, built : Configs]
Jobs == [kind : {"opening", "opened", "reconnecting", "tls", "rejected", "revoked"}]
        \cup [kind : {"accepted"}, token : Nat, until : Nat, modern : BOOLEAN, turn : Nat,
              again : BOOLEAN]
        \cup [kind : {"turn"}, until : Nat]
        \cup [kind : {"peer"}, ice : {"modern", "turn", "none"}, until : Nat]
Requests == [kind : {"login"}, token : Nat]
            \cup [kind : {"join"}, session : Sessions \cup {NoSession}]
            \cup [kind : {"leave", "other"}]

\* The types of the state.
LoginTypes ==
    /\ signal \in Signals
    /\ pending \in Sessions \cup {NoSession}
    /\ leaving \in BOOLEAN
    /\ client \in Clients
    /\ link \in [state : {"down", "dialing", "open"}, no : Nat]
    /\ jobs \in Seq(Jobs)
    /\ wire \in Seq(Requests)
    /\ server \in [token : Nat, issued : Seq(Nat)]
    /\ moment \in Nat

\* The token was issued, to expire no earlier than until.
Issued(token, until) == token \in 1..Len(server.issued) /\ until <= server.issued[token]

TokensIssued ==
    /\ client.adapter => client.token = NoToken
    /\ client.token # NoToken => Issued(client.token, client.until)
    /\ \A i \in 1..Len(jobs) :
          jobs[i].kind = "accepted" /\ jobs[i].token # NoToken =>
              Issued(jobs[i].token, jobs[i].until)

\* An "opened" is queued before place i.
OpenedBefore(i) == \E j \in 1..(i - 1) : jobs[j].kind = "opened"

CacheCurrent ==
    \/ client.legacy = NoConfig
    \/ client.legacy.link = link.no
    \/ /\ \A i \in 1..Len(jobs) : jobs[i].kind = "peer" => OpenedBefore(i)
       /\ link.state = "open" => OpenedBefore(Len(jobs) + 1)

LInv == LoginTypes /\ TokensIssued /\ CacheCurrent /\ PendingJoinKept

(***************************************************************************)
(* Sequences, records and the helpers of the module.                       *)
(***************************************************************************)

\* The empty queue.
LEMMA Empty == \A S : <<>> \in Seq(S)
OBVIOUS

\* What a queue is without its first element.
LEMMA Taken ==
    ASSUME NEW S, NEW s \in Seq(S), s # <<>>
    PROVE  /\ Head(s) = s[1] /\ Head(s) \in S /\ Len(s) \in Nat /\ Len(s) >= 1
           /\ Tail(s) \in Seq(S) /\ Len(Tail(s)) = Len(s) - 1
           /\ \A i \in 1..Len(Tail(s)) : Tail(s)[i] = s[i + 1]
OBVIOUS

\* What a queue is with one more element.
LEMMA Added ==
    ASSUME NEW S, NEW s \in Seq(S), NEW e \in S
    PROVE  /\ Append(s, e) \in Seq(S) /\ Len(s) \in Nat /\ Len(Append(s, e)) = Len(s) + 1
           /\ \A i \in 1..Len(s) : Append(s, e)[i] = s[i]
           /\ Append(s, e)[Len(s) + 1] = e
OBVIOUS

\* ReconnectLogin keeps the client's type and forgets the token or keeps it.
LEMMA CredentialSteps ==
    ASSUME LoginTypes, NEW c \in Clients
    PROVE  /\ Forget(c) \in Clients /\ Forget(c).token = NoToken
           /\ Request(c) \in Clients
           /\ Request(c).token # NoToken =>
                 Request(c).token = c.token /\ Request(c).until = c.until /\ moment < c.until
           /\ \A f \in {Forget(c), Request(c)} :
                 f.adapter = c.adapter /\ f.legacy = c.legacy /\ f.built = c.built
<1>1. Forget(c) \in Clients /\ Forget(c).token = NoToken
  BY DEF Clients, Forget, NoToken
<1>2. Forget(c).adapter = c.adapter /\ Forget(c).legacy = c.legacy /\ Forget(c).built = c.built
  BY DEF Clients, Forget
<1>3. ASSUME NEW k \in Clients, NEW b \in BOOLEAN
      PROVE  /\ [k EXCEPT !.trying = b] \in Clients
             /\ [k EXCEPT !.trying = b].token = k.token
             /\ [k EXCEPT !.trying = b].until = k.until
             /\ [k EXCEPT !.trying = b].adapter = k.adapter
             /\ [k EXCEPT !.trying = b].legacy = k.legacy
             /\ [k EXCEPT !.trying = b].built = k.built
  BY DEF Clients
<1>4. CASE moment >= c.until
  <2>1. \E b \in BOOLEAN : Request(c) = [Forget(c) EXCEPT !.trying = b]
    BY <1>4 DEF Request
  <2>. QED BY <1>1, <1>2, <1>3, <2>1
<1>5. CASE ~(moment >= c.until)
  <2>1. \E b \in BOOLEAN : Request(c) = [c EXCEPT !.trying = b]
    BY <1>5 DEF Request
  <2>2. moment < c.until
    BY <1>5 DEF LoginTypes, Clients
  <2>. QED BY <1>1, <1>2, <1>3, <2>1, <2>2
<1>. QED BY <1>4, <1>5

\* A new token comes with its own expiry; an old one is not extended.
LEMMA AcceptedSteps ==
    ASSUME LoginTypes, NEW c \in Clients, NEW reply \in Jobs, reply.kind = "accepted"
    PROVE  /\ Accepted(c, reply) \in Clients
           /\ Accepted(c, reply).token # NoToken =>
                 \/ /\ Accepted(c, reply).token = reply.token
                    /\ Accepted(c, reply).until = reply.until
                 \/ /\ Accepted(c, reply).token = c.token
                    /\ Accepted(c, reply).until <= c.until
           /\ Accepted(c, reply).adapter = c.adapter
           /\ Accepted(c, reply).legacy = c.legacy
           /\ Accepted(c, reply).built = c.built
<1>1. reply \in [kind : {"accepted"}, token : Nat, until : Nat, modern : BOOLEAN, turn : Nat,
                 again : BOOLEAN]
  BY DEF Jobs
<1>2. CASE Accepted(c, reply) = Forget(c)
  BY <1>2, CredentialSteps
<1>3. CASE Accepted(c, reply) = [c EXCEPT !.trying = FALSE, !.token = reply.token,
                                          !.until = reply.until]
  BY <1>1, <1>3 DEF Clients
<1>4. CASE Accepted(c, reply) = [c EXCEPT !.trying = FALSE,
                                          !.until = IF reply.until < @ THEN reply.until ELSE @]
  <2>. DEFINE u == IF reply.until < c.until THEN reply.until ELSE c.until
  <2>1. u \in Nat /\ u <= c.until
    BY <1>1 DEF Clients
  <2>2. Accepted(c, reply) = [c EXCEPT !.trying = FALSE, !.until = u]
    BY <1>4
  <2>. HIDE DEF u
  <2>. QED BY <2>1, <2>2 DEF Clients
<1>. QED BY <1>2, <1>3, <1>4 DEF Accepted

\* The cache of legacy TURN credentials is left alone, or filled now.
LEMMA TurnSteps ==
    ASSUME LoginTypes, NEW c \in Clients, NEW until \in Nat
    PROVE  /\ Named(until) \in Configs
           /\ Named(until) # NoConfig => Named(until).link = link.no /\ Named(until).until > moment
           /\ ApplyTurnCredentials(c, until) \in Clients
           /\ \/ ApplyTurnCredentials(c, until).legacy = c.legacy
              \/ ApplyTurnCredentials(c, until).legacy.link = link.no
           /\ ApplyTurnCredentials(c, until).adapter = c.adapter
           /\ ApplyTurnCredentials(c, until).token = c.token
           /\ ApplyTurnCredentials(c, until).until = c.until
           /\ ApplyTurnCredentials(c, until).built = c.built
<1>1. /\ Named(until) \in Configs
      /\ Named(until) # NoConfig => Named(until).link = link.no /\ Named(until).until > moment
  BY DEF LoginTypes, Named, NoConfig, Configs
<1>. QED BY <1>1 DEF ApplyTurnCredentials, Clients
-----------------------------------------------------------------------------
(***************************************************************************)
(* What a callback and what a new job do to the invariant.                 *)
(***************************************************************************)

\* A callback that takes the head of the queue keeps the tokens issued and the
\* cache current when its change of the client does.
LEMMA CallbackKeeps ==
    ASSUME LInv, jobs # <<>>, jobs' = Tail(jobs), UNCHANGED <<link, server, moment>>,
           client' \in Clients, client'.adapter = client.adapter,
           client'.token # NoToken =>
               \/ client'.token = client.token /\ client'.until <= client.until
               \/ /\ ~client.adapter /\ Head(jobs).kind = "accepted"
                  /\ client'.token = Head(jobs).token /\ client'.until = Head(jobs).until,
           \/ client'.legacy = NoConfig \/ client'.legacy.link = link.no
           \/ client'.legacy = client.legacy /\ Head(jobs).kind # "opened"
    PROVE  jobs' \in Seq(Jobs) /\ TokensIssued' /\ CacheCurrent'
<1>1. /\ Head(jobs) = jobs[1] /\ Len(jobs) \in Nat /\ Len(jobs) >= 1
      /\ jobs' \in Seq(Jobs) /\ Len(jobs') = Len(jobs) - 1
      /\ \A i \in 1..Len(jobs') : jobs'[i] = jobs[i + 1]
  BY Taken DEF LInv, LoginTypes
<1>2. TokensIssued'
  <2>1. client'.token # NoToken => Issued(client'.token, client'.until)
    <3>1. CASE client'.token = client.token /\ client'.until <= client.until
      <4>1. client'.until \in Nat /\ client.until \in Nat /\ server.issued \in Seq(Nat)
        BY DEF LInv, LoginTypes, Clients
      <4>. QED BY <3>1, <4>1 DEF LInv, TokensIssued, Issued
    <3>2. CASE /\ Head(jobs).kind = "accepted"
               /\ client'.token = Head(jobs).token /\ client'.until = Head(jobs).until
      BY <1>1, <3>2 DEF LInv, TokensIssued
    <3>. QED BY <3>1, <3>2
  <2>2. client'.adapter => client'.token = NoToken
    BY DEF LInv, TokensIssued
  <2>3. \A i \in 1..Len(jobs') : jobs'[i].kind = "accepted" /\ jobs'[i].token # NoToken =>
            Issued(jobs'[i].token, jobs'[i].until)
    BY <1>1 DEF LInv, TokensIssued
  <2>. QED BY <2>1, <2>2, <2>3 DEF TokensIssued, Issued
<1>3. CacheCurrent'
  <2>. SUFFICES ASSUME client'.legacy = client.legacy, Head(jobs).kind # "opened",
                       client.legacy # NoConfig, client.legacy.link # link.no
                PROVE  CacheCurrent'
    BY DEF CacheCurrent
  <2>1. /\ \A i \in 1..Len(jobs) : jobs[i].kind = "peer" => OpenedBefore(i)
        /\ link.state = "open" => OpenedBefore(Len(jobs) + 1)
    BY DEF LInv, CacheCurrent
  <2>2. ASSUME NEW i \in 1..(Len(jobs') + 1), OpenedBefore(i + 1)
        PROVE  OpenedBefore(i)'
    <3>1. PICK j \in 1..i : jobs[j].kind = "opened"
      BY <2>2 DEF OpenedBefore
    <3>2. j # 1
      BY <1>1, <3>1
    <3>3. j - 1 \in 1..(i - 1) /\ j - 1 \in 1..Len(jobs') /\ jobs'[j - 1] = jobs[j]
      BY <1>1, <3>1, <3>2
    <3>. QED BY <3>1, <3>3 DEF OpenedBefore
  <2>3. ASSUME NEW i \in 1..Len(jobs'), jobs'[i].kind = "peer" PROVE OpenedBefore(i)'
    BY <1>1, <2>1, <2>2, <2>3
  <2>4. ASSUME link.state = "open" PROVE OpenedBefore(Len(jobs) + 1)'
    <3>1. PICK n \in Nat : n = Len(jobs') + 1
      <4>1. Len(jobs') + 1 \in Nat
        BY <1>1
      <4>. QED BY <4>1
    <3>2. n \in 1..(Len(jobs') + 1) /\ OpenedBefore(n + 1)
      BY <1>1, <2>1, <2>4, <3>1 DEF OpenedBefore
    <3>3. OpenedBefore(n)'
      BY <2>2, <3>2
    <3>. QED BY <3>1, <3>3 DEF OpenedBefore
  <2>. QED BY <2>3, <2>4 DEF CacheCurrent
<1>. QED BY <1>1, <1>2, <1>3

\* A job that is queued keeps them when its token is issued, and when a message
\* only comes from an open connection.
LEMMA PostKeeps ==
    ASSUME LInv, NEW job \in Jobs, Post(job), UNCHANGED client,
           link'.no = link.no,
           link'.state = "open" => link.state = "open" \/ job.kind = "opened",
           job.kind = "peer" => link.state = "open",
           server'.issued \in Seq(Nat), Len(server.issued) <= Len(server'.issued),
           \A t \in 1..Len(server.issued) : server'.issued[t] = server.issued[t],
           job.kind = "accepted" /\ job.token # NoToken => Issued(job.token, job.until)'
    PROVE  jobs' \in Seq(Jobs) /\ TokensIssued' /\ CacheCurrent'
<1>1. /\ jobs' \in Seq(Jobs) /\ Len(jobs) \in Nat /\ Len(jobs') = Len(jobs) + 1
      /\ \A i \in 1..Len(jobs) : jobs'[i] = jobs[i]
      /\ jobs'[Len(jobs) + 1] = job
  BY Added DEF Post, LInv, LoginTypes
<1>2. TokensIssued'
  <2>0. Len(server.issued) \in Nat /\ Len(server'.issued) \in Nat
    BY DEF LInv, LoginTypes
  <2>1. ASSUME NEW t, NEW u, Issued(t, u)
        PROVE  Issued(t, u)'
    <3>1. t \in 1..Len(server.issued) /\ u <= server.issued[t]
      BY <2>1 DEF Issued
    <3>2. t \in 1..Len(server'.issued) /\ server'.issued[t] = server.issued[t]
      BY <2>0, <3>1
    <3>. QED BY <3>1, <3>2 DEF Issued
  <2>2. ASSUME NEW i \in 1..Len(jobs'), jobs'[i].kind = "accepted", jobs'[i].token # NoToken
        PROVE  Issued(jobs[i].token, jobs[i].until)'
    <3>1. CASE i \in 1..Len(jobs)
      <4>1. jobs'[i] = jobs[i] /\ Issued(jobs[i].token, jobs[i].until)
        BY <1>1, <2>2, <3>1 DEF LInv, TokensIssued
      <4>2. PICK t, u : t = jobs[i].token /\ u = jobs[i].until
        OBVIOUS
      <4>3. Issued(t, u)'
        BY <2>1, <4>1, <4>2
      <4>. QED BY <4>1, <4>2, <4>3 DEF Issued
    <3>2. CASE i = Len(jobs) + 1
      BY <1>1, <2>2, <3>2 DEF Issued
    <3>. QED BY <1>1, <3>1, <3>2
  <2>3. client.token # NoToken => Issued(client.token, client.until)'
    BY SMTT(30) DEF Issued, LInv, LoginTypes, TokensIssued
  <2>. QED BY <2>2, <2>3 DEF LInv, TokensIssued, Issued
<1>3. CacheCurrent'
  <2>. SUFFICES ASSUME client.legacy # NoConfig, client.legacy.link # link.no
                PROVE  CacheCurrent'
    BY DEF CacheCurrent
  <2>1. /\ \A i \in 1..Len(jobs) : jobs[i].kind = "peer" => OpenedBefore(i)
        /\ link.state = "open" => OpenedBefore(Len(jobs) + 1)
    BY DEF LInv, CacheCurrent
  <2>2. \A i \in 1..(Len(jobs) + 1) : OpenedBefore(i) => OpenedBefore(i)'
    BY <1>1 DEF OpenedBefore
  <2>3. ASSUME NEW i \in 1..Len(jobs'), jobs'[i].kind = "peer" PROVE OpenedBefore(i)'
    <3>1. CASE i \in 1..Len(jobs)
      BY <1>1, <2>1, <2>2, <2>3, <3>1
    <3>2. CASE i = Len(jobs) + 1
      BY <1>1, <2>1, <2>2, <2>3, <3>2
    <3>. QED BY <1>1, <3>1, <3>2
  <2>4. ASSUME link'.state = "open" PROVE OpenedBefore(Len(jobs) + 1)'
    <3>1. CASE link.state = "open"
      <4>1. PICK j \in 1..Len(jobs) : jobs[j].kind = "opened"
        BY <1>1, <2>1, <3>1 DEF OpenedBefore
      <4>. QED BY <1>1, <4>1 DEF OpenedBefore
    <3>2. CASE job.kind = "opened"
      BY <1>1, <3>2 DEF OpenedBefore
    <3>. QED BY <2>4, <3>1, <3>2
  <2>. QED BY <2>3, <2>4 DEF CacheCurrent
<1>. QED BY <1>1, <1>2, <1>3
-----------------------------------------------------------------------------
(***************************************************************************)
(* The invariant, action by action.                                        *)
(***************************************************************************)

\* What Login leaves in the client, and what it sends.
LEMMA LoginSteps ==
    ASSUME LInv, NEW c \in Clients, NEW answer, Login(c, answer)
    PROVE  /\ client' \in Clients /\ client'.adapter = c.adapter
           /\ client'.legacy = NoConfig /\ client'.built = c.built
           /\ client'.token # NoToken => client'.token = c.token /\ client'.until = c.until
           /\ wire' \in Seq(Requests)
           /\ (signal' = signal /\ pending' = pending)
                 \/ (signal' = "failed" /\ pending' = NoSession)
           /\ wire' # wire =>
                 \E t \in Nat :
                    /\ wire' = Append(wire, [kind |-> "login", token |-> t])
                    /\ t # NoToken =>
                          t = c.token /\ (~c.adapter => moment < c.until)
<1>. DEFINE k == IF c.adapter THEN c ELSE Request(c)
            l == [k EXCEPT !.modern = FALSE, !.legacy = NoConfig]
<1>1. /\ k \in Clients /\ k.adapter = c.adapter /\ k.built = c.built
      /\ k.token # NoToken => k.token = c.token /\ k.until = c.until
      /\ k.token # NoToken /\ ~c.adapter => moment < c.until
  BY CredentialSteps DEF LInv
<1>2. /\ l \in Clients /\ l.adapter = k.adapter /\ l.built = k.built
      /\ l.token = k.token /\ l.until = k.until /\ l.legacy = NoConfig
  <2>. HIDE DEF k
  <2>1. NoConfig \in Configs
    BY DEF NoConfig, Configs
  <2>. QED BY <1>1, <2>1 DEF Clients
<1>3. /\ client' = IF answer = "fail" THEN Forget(l) ELSE l
      /\ IF answer = "go on" THEN Sent([kind |-> "login", token |-> l.token])
         ELSE IF answer = "sent" THEN Sent([kind |-> "login", token |-> NoToken])
         ELSE wire' = wire
      /\ IF answer = "fail" THEN Failed ELSE UNCHANGED <<signal, pending>>
  BY DEF Login
<1>. HIDE DEF k, l
<1>4. /\ client' \in Clients /\ client'.adapter = c.adapter
      /\ client'.legacy = NoConfig /\ client'.built = c.built
      /\ client'.token # NoToken => client'.token = c.token /\ client'.until = c.until
  BY <1>1, <1>2, <1>3, CredentialSteps DEF LInv
<1>5. \/ wire' = wire
      \/ \E t \in {l.token, NoToken} : wire' = Append(wire, [kind |-> "login", token |-> t])
  BY <1>3 DEF Sent
<1>6. \A t \in {l.token, NoToken} : t \in Nat /\ [kind |-> "login", token |-> t] \in Requests
  BY <1>2 DEF Clients, Requests, NoToken
<1>7. wire' \in Seq(Requests)
  <2>1. \A m \in Requests : Append(wire, m) \in Seq(Requests)
    BY Added DEF LInv, LoginTypes
  <2>. QED BY <1>5, <1>6, <2>1 DEF LInv, LoginTypes
<1>8. wire' # wire =>
        \E t \in Nat : /\ wire' = Append(wire, [kind |-> "login", token |-> t])
                       /\ t # NoToken => t = c.token /\ (~c.adapter => moment < c.until)
  <2>1. ASSUME NEW t \in {l.token, NoToken}
        PROVE  t \in Nat /\ (t # NoToken => t = c.token /\ (~c.adapter => moment < c.until))
    BY <1>1, <1>2, <1>6
  <2>. QED BY <1>5, <2>1
<1>9. (signal' = signal /\ pending' = pending) \/ (signal' = "failed" /\ pending' = NoSession)
  BY <1>3 DEF Failed
<1>. QED BY <1>4, <1>7, <1>8, <1>9
\* Sending keeps the requests on their way well formed.
LEMMA SentSteps ==
    ASSUME LoginTypes, NEW m \in Requests, Sent(m)
    PROVE  wire' \in Seq(Requests) /\ (wire' = wire \/ wire' = Append(wire, m))
BY Added DEF Sent, LoginTypes

\* It holds initially.
LEMMA InitLInv == SlInit => LInv
<1>. SUFFICES ASSUME SlInit PROVE LInv
  OBVIOUS
<1>1. NoConfig \in Configs
  BY DEF NoConfig, Configs
<1>2. client \in Clients /\ client.token = NoToken /\ client.legacy = NoConfig
  <2>1. PICK adapter \in Adapters :
          client = [adapter |-> adapter, open |-> FALSE, token |-> NoToken, until |-> 0,
                    trying |-> FALSE, modern |-> FALSE, legacy |-> NoConfig, built |-> NoConfig]
    BY DEF SlInit
  <2>2. adapter \in BOOLEAN
    BY LoginAssumption
  <2>. QED BY <1>1, <2>1, <2>2 DEF Clients, NoToken
<1>3. LoginTypes
  <2>1. link \in [state : {"down", "dialing", "open"}, no : Nat]
    BY DEF SlInit
  <2>2. server \in [token : Nat, issued : Seq(Nat)]
    BY DEF SlInit, NoToken
  <2>3. /\ signal \in Signals /\ pending \in Sessions \cup {NoSession} /\ leaving \in BOOLEAN
        /\ moment \in Nat
    BY DEF SlInit, Signals
  <2>4. jobs \in Seq(Jobs) /\ wire \in Seq(Requests)
    BY Empty DEF SlInit
  <2>. QED BY <1>2, <2>1, <2>2, <2>3, <2>4 DEF LoginTypes
<1>. QED BY <1>2, <1>3 DEF SlInit, LInv, TokensIssued, CacheCurrent, PendingJoinKept

\* The callbacks keep it.
LEMMA CallbackLInv ==
    ASSUME LInv, CallbackThread
    PROVE  LInv'
<1>1. ASSUME NEW s, NEW becomes \in Signals \ {"connected"}, s # "opened", OnStatus(s, becomes)
      PROVE  LInv'
  <2>1. /\ client' \in Clients /\ client'.token = client.token /\ client'.until = client.until
        /\ client'.legacy = client.legacy /\ client'.adapter = client.adapter
    BY <1>1 DEF OnStatus, LInv, LoginTypes, Clients
  <2>2. jobs # <<>> /\ jobs' = Tail(jobs) /\ Head(jobs).kind # "opened"
    BY <1>1 DEF OnStatus, Status
  <2>3. client.until <= client.until
    BY DEF LInv, LoginTypes, Clients
  <2>4. UNCHANGED <<pending, leaving, link, wire, server, moment>> /\ signal' = becomes
    BY <1>1 DEF OnStatus
  <2>5. jobs' \in Seq(Jobs) /\ TokensIssued' /\ CacheCurrent'
    BY <2>1, <2>2, <2>3, <2>4, CallbackKeeps
  <2>. QED BY <2>1, <2>4, <2>5 DEF LInv, LoginTypes, PendingJoinKept
<1>2. ASSUME NEW answer \in Answers, OnWsOpened(answer) PROVE LInv'
  <2>. DEFINE c == [client EXCEPT !.open = TRUE]
  <2>1. /\ c \in Clients /\ c.token = client.token /\ c.until = client.until
        /\ c.adapter = client.adapter
    BY DEF LInv, LoginTypes, Clients
  <2>2. /\ jobs # <<>> /\ jobs' = Tail(jobs) /\ Login(c, answer)
        /\ UNCHANGED <<leaving, link, server, moment>>
    BY <1>2 DEF OnWsOpened, Status
  <2>. HIDE DEF c
  <2>3. /\ client' \in Clients /\ client'.adapter = client.adapter /\ client'.legacy = NoConfig
        /\ client'.token # NoToken =>
              client'.token = client.token /\ client'.until <= client.until
        /\ wire' \in Seq(Requests)
        /\ (signal' = signal /\ pending' = pending)
              \/ (signal' = "failed" /\ pending' = NoSession)
    <3>1. client.until <= client.until
      BY DEF LInv, LoginTypes, Clients
    <3>. QED BY <2>1, <2>2, <3>1, LoginSteps
  <2>4. jobs' \in Seq(Jobs) /\ TokensIssued' /\ CacheCurrent'
    BY <2>2, <2>3, CallbackKeeps
  <2>. QED BY <2>2, <2>3, <2>4 DEF LInv, LoginTypes, PendingJoinKept, Signals
<1>3. ASSUME NEW kind \in Messages, OnRefused(kind) PROVE LInv'
  <2>1. client' \in Clients /\ client'.token = NoToken /\ client'.legacy = client.legacy
        /\ client'.adapter = client.adapter
    BY <1>3, CredentialSteps DEF OnRefused, LInv, LoginTypes
  <2>2. /\ jobs # <<>> /\ jobs' = Tail(jobs) /\ Head(jobs).kind # "opened"
        /\ signal' = "failed" /\ pending' = NoSession
        /\ UNCHANGED <<leaving, link, wire, server, moment>>
    BY <1>3 DEF OnRefused, Message, Status, Messages, Failed
  <2>3. jobs' \in Seq(Jobs) /\ TokensIssued' /\ CacheCurrent'
    BY <2>1, <2>2, CallbackKeeps
  <2>. QED BY <2>1, <2>2, <2>3 DEF LInv, LoginTypes, PendingJoinKept, Signals
<1>4. ASSUME NEW kind \in Messages, OnConsumed(kind) PROVE LInv'
  <2>1. /\ jobs # <<>> /\ jobs' = Tail(jobs) /\ Head(jobs).kind # "opened"
        /\ Sent([kind |-> "other"])
        /\ UNCHANGED <<signal, pending, leaving, client, link, server, moment>>
    BY <1>4 DEF OnConsumed, Message, Status, Messages
  <2>2. [kind |-> "other"] \in Requests
    BY DEF Requests
  <2>3. wire' \in Seq(Requests)
    BY <2>1, <2>2, SentSteps DEF LInv
  <2>4. client.until <= client.until /\ client \in Clients
    BY DEF LInv, LoginTypes, Clients
  <2>5. jobs' \in Seq(Jobs) /\ TokensIssued' /\ CacheCurrent'
    BY <2>1, <2>4, CallbackKeeps
  <2>. QED BY <2>1, <2>3, <2>5 DEF LInv, LoginTypes, PendingJoinKept
<1>5. CASE OnLoginAccepted
  <2>. DEFINE reply == Head(jobs)
              m == [client EXCEPT !.modern = reply.modern]
              c == ApplyTurnCredentials(m, reply.turn)
  <2>1. /\ jobs # <<>> /\ jobs' = Tail(jobs) /\ reply.kind = "accepted"
        /\ client' = IF c.adapter THEN c ELSE Accepted(c, reply)
        /\ signal' = "connected" /\ pending' = NoSession
        /\ leaving' = IF pending # NoSession THEN FALSE ELSE leaving
        /\ wire' = wire \/ Sent([kind |-> "join", session |-> pending])
        /\ UNCHANGED <<link, server, moment>>
    BY <1>5 DEF OnLoginAccepted, Message, Status
  <2>2. reply \in Jobs /\ reply.turn \in Nat /\ reply.modern \in BOOLEAN
    <3>1. reply \in Jobs
      BY <2>1, Taken DEF LInv, LoginTypes
    <3>. QED BY <2>1, <3>1 DEF Jobs
  <2>3. /\ m \in Clients /\ m.token = client.token /\ m.until = client.until
        /\ m.legacy = client.legacy /\ m.adapter = client.adapter
    BY <2>2 DEF LInv, LoginTypes, Clients
  <2>. HIDE DEF m
  <2>4. /\ c \in Clients /\ c.token = client.token /\ c.until = client.until
        /\ c.adapter = client.adapter
        /\ c.legacy = client.legacy \/ c.legacy.link = link.no
    BY <2>2, <2>3, TurnSteps DEF LInv
  <2>. HIDE DEF c, reply
  <2>5. client.until <= client.until
    BY DEF LInv, LoginTypes, Clients
  <2>6. /\ client' \in Clients /\ client'.adapter = client.adapter
        /\ client'.legacy = client.legacy \/ client'.legacy.link = link.no
        /\ client'.token # NoToken =>
             \/ client'.token = client.token /\ client'.until <= client.until
             \/ ~client.adapter /\ client'.token = reply.token /\ client'.until = reply.until
    BY <2>1, <2>2, <2>4, <2>5, AcceptedSteps DEF LInv
  <2>7. jobs' \in Seq(Jobs) /\ TokensIssued' /\ CacheCurrent'
    BY <2>1, <2>6, CallbackKeeps DEF reply
  <2>8. wire' \in Seq(Requests)
    <3>1. [kind |-> "join", session |-> pending] \in Requests
      BY DEF LInv, LoginTypes, Requests
    <3>. QED BY <2>1, <3>1, SentSteps DEF LInv, LoginTypes
  <2>. QED BY <2>1, <2>6, <2>7, <2>8 DEF LInv, LoginTypes, PendingJoinKept, Signals
<1>6. CASE OnLoginRejected
  <2>1. /\ jobs # <<>> /\ jobs' = Tail(jobs) /\ Head(jobs).kind = "rejected"
        /\ UNCHANGED <<leaving, link, server, moment>>
    BY <1>6 DEF OnLoginRejected, Message, Status
  <2>2. /\ Rejected(client) \in Clients /\ Rejected(client).token = NoToken
        /\ Rejected(client).adapter = client.adapter
        /\ Rejected(client).legacy = client.legacy
    BY CredentialSteps DEF Rejected, LInv, LoginTypes
  <2>3. client.until <= client.until /\ client \in Clients
    BY DEF LInv, LoginTypes, Clients
  <2>4. /\ client' \in Clients /\ client'.adapter = client.adapter
        /\ client'.legacy \in {client.legacy, NoConfig}
        /\ client'.token # NoToken =>
              client'.token = client.token /\ client'.until <= client.until
        /\ wire' \in Seq(Requests)
        /\ (signal' = signal /\ pending' = pending)
              \/ (signal' = "failed" /\ pending' = NoSession)
    <3>1. CASE ~client.adapter /\ client.trying
      <4>1. Login(Rejected(client), "go on")
        BY <1>6, <3>1 DEF OnLoginRejected
      <4>. QED BY <2>2, <4>1, LoginSteps
    <3>2. CASE ~(~client.adapter /\ client.trying)
      BY <1>6, <3>2, <2>2, <2>3 DEF OnLoginRejected, Failed, LInv, LoginTypes
    <3>. QED BY <3>1, <3>2
  <2>5. jobs' \in Seq(Jobs) /\ TokensIssued' /\ CacheCurrent'
    BY <2>1, <2>4, CallbackKeeps
  <2>. QED BY <2>1, <2>4, <2>5 DEF LInv, LoginTypes, PendingJoinKept, Signals
<1>7. CASE OnRevoked
  <2>1. client' \in Clients /\ client'.token = NoToken /\ client'.legacy = client.legacy
        /\ client'.adapter = client.adapter
    BY <1>7, CredentialSteps DEF OnRevoked, LInv, LoginTypes
  <2>2. /\ jobs # <<>> /\ jobs' = Tail(jobs) /\ Head(jobs).kind # "opened"
        /\ UNCHANGED <<signal, pending, leaving, link, wire, server, moment>>
    BY <1>7 DEF OnRevoked, Message, Status
  <2>3. jobs' \in Seq(Jobs) /\ TokensIssued' /\ CacheCurrent'
    BY <2>1, <2>2, CallbackKeeps
  <2>. QED BY <2>1, <2>2, <2>3 DEF LInv, LoginTypes, PendingJoinKept
<1>8. CASE OnTurnCredentials
  <2>1. /\ jobs # <<>> /\ jobs' = Tail(jobs) /\ Head(jobs).kind = "turn"
        /\ client' = ApplyTurnCredentials(client, Head(jobs).until)
        /\ UNCHANGED <<signal, pending, leaving, link, wire, server, moment>>
    BY <1>8 DEF OnTurnCredentials, Message, Status
  <2>2. Head(jobs).until \in Nat
    <3>1. Head(jobs) \in Jobs
      BY <2>1, Taken DEF LInv, LoginTypes
    <3>. QED BY <2>1, <3>1 DEF Jobs
  <2>3. /\ client' \in Clients /\ client'.token = client.token /\ client'.until = client.until
        /\ client'.adapter = client.adapter
        /\ client'.legacy = client.legacy \/ client'.legacy.link = link.no
    BY <2>1, <2>2, TurnSteps DEF LInv, LoginTypes
  <2>4. client.until <= client.until
    BY DEF LInv, LoginTypes, Clients
  <2>5. jobs' \in Seq(Jobs) /\ TokensIssued' /\ CacheCurrent'
    BY <2>1, <2>3, <2>4, CallbackKeeps
  <2>. QED BY <2>1, <2>3, <2>5 DEF LInv, LoginTypes, PendingJoinKept
<1>9. ASSUME NEW relayed \in BOOLEAN, OnPeer(relayed) PROVE LInv'
  <2>1. /\ jobs # <<>> /\ jobs' = Tail(jobs) /\ Head(jobs).kind = "peer"
        /\ UNCHANGED <<signal, pending, leaving, link, wire, server, moment>>
    BY <1>9 DEF OnPeer, Message, Status
  <2>2. IceConfig(Head(jobs)) \in Configs
    <3>1. Head(jobs) \in Jobs
      BY <2>1, Taken DEF LInv, LoginTypes
    <3>2. Head(jobs).until \in Nat
      BY <2>1, <3>1 DEF Jobs
    <3>3. NoConfig \in Configs /\ client.legacy \in Configs
      BY DEF NoConfig, Configs, LInv, LoginTypes, Clients
    <3>4. client \in Clients
      BY DEF LInv, LoginTypes
    <3>. QED BY <3>2, <3>3, <3>4, TurnSteps DEF IceConfig, LInv
  <2>3. client' = client \/ client' = [client EXCEPT !.built = IceConfig(Head(jobs))]
    BY <1>9 DEF OnPeer
  <2>4. /\ client' \in Clients /\ client'.token = client.token /\ client'.until = client.until
        /\ client'.adapter = client.adapter /\ client'.legacy = client.legacy
        /\ client.until <= client.until
    <3>1. client \in Clients
      BY DEF LInv, LoginTypes
    <3>. HIDE DEF IceConfig
    <3>. QED BY <2>2, <2>3, <3>1 DEF Clients
  <2>5. jobs' \in Seq(Jobs) /\ TokensIssued' /\ CacheCurrent'
    BY <2>1, <2>4, CallbackKeeps
  <2>. QED BY <2>1, <2>4, <2>5 DEF LInv, LoginTypes, PendingJoinKept
<1>. QED
  BY <1>1, <1>2, <1>3, <1>4, <1>5, <1>6, <1>7, <1>8, <1>9 DEF CallbackThread, Signals
\* The application, the connection and the server keep it.
LEMMA OthersLInv ==
    ASSUME LInv, Application \/ Network \/ Server \/ SlPassTime
    PROVE  LInv'
<1>1. ASSUME NEW s \in Sessions, Join(s) PROVE LInv'
  <2>1. [kind |-> "join", session |-> s] \in Requests
    BY DEF Requests
  <2>2. wire' \in Seq(Requests)
    BY <1>1, <2>1, SentSteps DEF Join, LInv, LoginTypes
  <2>. QED
    BY <1>1, <2>2
    DEF Join, LInv, LoginTypes, TokensIssued, Issued, CacheCurrent, OpenedBefore, PendingJoinKept
<1>2. CASE Leave
  <2>1. [kind |-> "leave"] \in Requests
    BY DEF Requests
  <2>2. wire' \in Seq(Requests)
    BY <1>2, <2>1, SentSteps DEF Leave, LInv, LoginTypes
  <2>. QED
    BY <1>2, <2>2
    DEF Leave, LInv, LoginTypes, TokensIssued, Issued, CacheCurrent, OpenedBefore, PendingJoinKept
<1>3. CASE LinkEnds
  <2>1. /\ link' \in [state : {"down", "dialing", "open"}, no : Nat]
        /\ link'.no = link.no /\ link'.state = "down" /\ wire' \in Seq(Requests)
    <3>1. link \in [state : {"down", "dialing", "open"}, no : Nat]
      BY DEF LInv, LoginTypes
    <3>. QED BY <1>3, <3>1, Empty DEF LinkEnds
  <2>. QED
    BY <1>3, <2>1
    DEF LinkEnds, LInv, LoginTypes, TokensIssued, Issued, CacheCurrent, OpenedBefore,
        PendingJoinKept
<1>4. CASE Dial
  <2>1. /\ link' \in [state : {"down", "dialing", "open"}, no : Nat] /\ link'.state = "dialing"
    <3>1. link \in [state : {"down", "dialing", "open"}, no : Nat]
      BY DEF LInv, LoginTypes
    <3>2. PICK n \in Nat : n = link.no + 1
      <4>1. link.no + 1 \in Nat
        BY <3>1
      <4>. QED BY <4>1
    <3>3. link' = [link EXCEPT !.state = "dialing", !.no = n]
      BY <1>4, <3>2 DEF Dial
    <3>. QED BY <3>1, <3>3
  <2>2. jobs' \in Seq(Jobs) /\ \A i \in 1..Len(jobs') : jobs'[i].kind = "opening"
    BY <1>4 DEF Dial, Jobs
  <2>3. TokensIssued' /\ CacheCurrent'
    BY <1>4, <2>1, <2>2 DEF Dial, LInv, TokensIssued, Issued, CacheCurrent
  <2>. QED BY <1>4, <2>1, <2>2, <2>3 DEF Dial, LInv, LoginTypes, PendingJoinKept
<1>5. CASE WorkerTells
  <2>1. [kind |-> "reconnecting"] \in Jobs
    BY DEF Jobs
  <2>2. /\ Post([kind |-> "reconnecting"])
        /\ UNCHANGED <<signal, pending, leaving, client, link, wire, server, moment>>
    BY <1>5 DEF WorkerTells
  <2>3. jobs' \in Seq(Jobs) /\ TokensIssued' /\ CacheCurrent'
    BY <2>1, <2>2, PostKeeps DEF LInv, LoginTypes
  <2>. QED BY <2>2, <2>3 DEF LInv, LoginTypes, PendingJoinKept
<1>6. CASE LinkOpens \/ CertificateFails
  <2>1. PICK kind \in {"opened", "tls"} :
          /\ Post([kind |-> kind])
          /\ link' = [link EXCEPT !.state = IF kind = "opened" THEN "open" ELSE "down"]
          /\ UNCHANGED <<signal, pending, leaving, client, wire, server, moment>>
    BY <1>6 DEF LinkOpens, CertificateFails
  <2>2. [kind |-> kind] \in Jobs
    BY DEF Jobs
  <2>3. /\ link' \in [state : {"down", "dialing", "open"}, no : Nat] /\ link'.no = link.no
        /\ link'.state = "open" => kind = "opened"
    BY <2>1 DEF LInv, LoginTypes
  <2>4. jobs' \in Seq(Jobs) /\ TokensIssued' /\ CacheCurrent'
    BY <2>1, <2>2, <2>3, PostKeeps DEF LInv, LoginTypes
  <2>. QED BY <2>1, <2>3, <2>4 DEF LInv, LoginTypes, PendingJoinKept
<1>7. ASSUME NEW issue \in BOOLEAN, NEW modern \in BOOLEAN, NEW life \in Lives,
             NEW turn \in TurnLives, ServerAdmits(issue, life, modern, turn)
      PROVE  LInv'
  <2>. DEFINE token == IF issue THEN Len(server.issued) + 1 ELSE NoToken
              until == moment + life
              job == [kind |-> "accepted", token |-> token, until |-> until, modern |-> modern,
                      turn |-> moment + turn, again |-> Head(wire).token # NoToken]
  <2>1. /\ wire # <<>> /\ wire' = Tail(wire)
        /\ server' = IF issue THEN [token |-> token, issued |-> Append(server.issued, until)]
                     ELSE server
        /\ Post(job)
        /\ UNCHANGED <<signal, pending, leaving, client, link, moment>>
    BY <1>7 DEF ServerAdmits, Receives
  <2>2. /\ token \in Nat /\ until \in Nat /\ moment + turn \in Nat
        /\ server.issued \in Seq(Nat) /\ Len(server.issued) \in Nat
    BY LoginAssumption DEF LInv, LoginTypes, NoToken
  <2>3. job \in Jobs /\ job.kind = "accepted" /\ job.token = token /\ job.until = until
    BY <2>2 DEF Jobs
  <2>4. wire' \in Seq(Requests)
    BY <2>1, Taken DEF LInv, LoginTypes
  <2>5. /\ server' \in [token : Nat, issued : Seq(Nat)]
        /\ Len(server.issued) <= Len(server'.issued)
        /\ \A t \in 1..Len(server.issued) : server'.issued[t] = server.issued[t]
        /\ token # NoToken => token \in 1..Len(server'.issued) /\ server'.issued[token] = until
    <3>1. CASE issue
      <4>1. server' = [token |-> Len(server.issued) + 1, issued |-> Append(server.issued, until)]
        BY <2>1, <3>1
      <4>. HIDE DEF until
      <4>. QED BY <2>2, <3>1, <4>1, Added
    <3>2. CASE ~issue
      BY <2>1, <2>2, <3>2 DEF LInv, LoginTypes
    <3>. QED BY <3>1, <3>2
  <2>6. PICK t \in Nat, u \in Nat, j \in Jobs : t = token /\ u = until /\ j = job
    BY <2>2, <2>3
  <2>. HIDE DEF job, token, until
  <2>7. j.token # NoToken => Issued(j.token, j.until)'
    BY <2>2, <2>3, <2>5, <2>6 DEF Issued
  <2>8. jobs' \in Seq(Jobs) /\ TokensIssued' /\ CacheCurrent'
    BY <2>1, <2>3, <2>5, <2>6, <2>7, PostKeeps DEF LInv, LoginTypes
  <2>. QED BY <2>1, <2>4, <2>5, <2>8 DEF LInv, LoginTypes, PendingJoinKept
<1>8. CASE ServerRejects
  <2>1. /\ Post([kind |-> "rejected"]) /\ wire # <<>> /\ wire' = Tail(wire)
        /\ UNCHANGED <<signal, pending, leaving, client, link, server, moment>>
    BY <1>8 DEF ServerRejects, Receives
  <2>2. [kind |-> "rejected"] \in Jobs /\ wire' \in Seq(Requests)
    BY <2>1, Taken DEF Jobs, LInv, LoginTypes
  <2>3. jobs' \in Seq(Jobs) /\ TokensIssued' /\ CacheCurrent'
    BY <2>1, <2>2, PostKeeps DEF LInv, LoginTypes
  <2>. QED BY <2>1, <2>2, <2>3 DEF LInv, LoginTypes, PendingJoinKept
<1>9. CASE ServerReceives
  <2>1. wire' \in Seq(Requests)
    BY <1>9, Taken DEF ServerReceives, Receives, LInv, LoginTypes
  <2>. QED
    BY <1>9, <2>1
    DEF ServerReceives, LInv, LoginTypes, TokensIssued, Issued, CacheCurrent, OpenedBefore,
        PendingJoinKept
<1>10. CASE ServerRevokes
  <2>1. /\ Post([kind |-> "revoked"]) /\ server' = [server EXCEPT !.token = NoToken]
        /\ UNCHANGED <<signal, pending, leaving, client, link, wire, moment>>
    BY <1>10 DEF ServerRevokes
  <2>2. /\ [kind |-> "revoked"] \in Jobs
        /\ server' \in [token : Nat, issued : Seq(Nat)] /\ server'.issued = server.issued
    BY <2>1 DEF Jobs, LInv, LoginTypes, NoToken
  <2>3. jobs' \in Seq(Jobs) /\ TokensIssued' /\ CacheCurrent'
    BY <2>1, <2>2, PostKeeps DEF LInv, LoginTypes
  <2>. QED BY <2>1, <2>2, <2>3 DEF LInv, LoginTypes, PendingJoinKept
<1>11. ASSUME NEW job \in Jobs, job.kind # "accepted", ServerTells(job) PROVE LInv'
  <2>1. /\ Post(job) /\ link.state = "open"
        /\ UNCHANGED <<signal, pending, leaving, client, link, wire, server, moment>>
    BY <1>11 DEF ServerTells
  <2>2. jobs' \in Seq(Jobs) /\ TokensIssued' /\ CacheCurrent'
    BY <1>11, <2>1, PostKeeps DEF LInv, LoginTypes
  <2>. QED BY <2>1, <2>2 DEF LInv, LoginTypes, PendingJoinKept
<1>12. ASSUME NEW life \in TurnLives, NEW ice \in {"modern", "turn", "none"}
       PROVE  /\ [kind |-> "turn", until |-> moment + life] \in Jobs
              /\ [kind |-> "peer", ice |-> ice, until |-> moment + life] \in Jobs
  BY LoginAssumption DEF Jobs, LInv, LoginTypes
<1>13. CASE SlPassTime
  BY <1>13
  DEF SlPassTime, LInv, LoginTypes, TokensIssued, Issued, CacheCurrent, OpenedBefore,
      PendingJoinKept
<1>14. CASE Server
  BY <1>7, <1>8, <1>9, <1>10, <1>11, <1>12, <1>14 DEF Server
<1>. QED
  BY <1>1, <1>2, <1>3, <1>4, <1>5, <1>6, <1>13, <1>14
  DEF Application, Network, ForceSignalReconnect
\* So it always holds.
LEMMA LoginInvariance == SlSpec => []LInv
<1>1. LInv /\ [SlNext]_slVars => LInv'
  <2>. SUFFICES ASSUME LInv, [SlNext]_slVars PROVE LInv'
    OBVIOUS
  <2>1. CASE UNCHANGED slVars
    BY <2>1
    DEF slVars, LInv, LoginTypes, TokensIssued, Issued, CacheCurrent, OpenedBefore,
        PendingJoinKept
  <2>. QED BY <2>1, CallbackLInv, OthersLInv DEF SlNext
<1>. QED BY <1>1, InitLInv, PTL DEF SlSpec

\* "one pending join is retained": the login that succeeds while Join decides
\* does not overlook it, and it is never one the application has left.
THEOREM PendingJoinIsKept == SlSpec => []PendingJoinKept
<1>1. LInv => PendingJoinKept
  BY DEF LInv
<1>. QED BY LoginInvariance, <1>1, PTL

\* A token is sent only within the life it was issued for, and only as the first
\* login of a connection, whatever the server answers and an adapter says.
THEOREM CredentialsAreUsedInTheirLife == SlSpec => CredentialUse
<1>. DEFINE Used ==
        \A i \in (Len(wire) + 1)..Len(wire') :
           wire'[i].kind = "login" /\ wire'[i].token # NoToken =>
             /\ moment < server.issued[wire'[i].token]
             /\ Head(jobs).kind = "opened"
<1>1. ASSUME LInv, SlNext PROVE Used
  <2>1. wire \in Seq(Requests) /\ Len(wire) \in Nat
    BY <1>1 DEF LInv, LoginTypes
  <2>2. ASSUME NEW m \in Requests, m.kind # "login", Sent(m) PROVE Used
    BY <2>1, <2>2, Added DEF Sent
  <2>3. ASSUME wire' = wire \/ wire' = <<>> \/ (wire # <<>> /\ wire' = Tail(wire)) PROVE Used
    BY <2>1, <2>3, Taken
  <2>4. ASSUME NEW c \in Clients, NEW answer, Login(c, answer),
               c.token = client.token, c.until = client.until, c.adapter = client.adapter,
               Head(jobs).kind = "opened"
        PROVE  Used
    <3>. SUFFICES ASSUME NEW t \in Nat, wire' = Append(wire, [kind |-> "login", token |-> t]),
                         t # NoToken, t = c.token, ~c.adapter => moment < c.until
                  PROVE  moment < server.issued[t]
      <4>1. CASE wire' = wire
        BY <2>3, <4>1
      <4>2. ASSUME NEW t \in Nat, wire' = Append(wire, [kind |-> "login", token |-> t]),
                   t # NoToken => moment < server.issued[t]
            PROVE  Used
        <5>1. [kind |-> "login", token |-> t] \in Requests
          BY DEF Requests
        <5>. QED BY <2>1, <2>4, <4>2, <5>1, Added
      <4>. QED BY <1>1, <2>4, <4>1, <4>2, LoginSteps
    <3>1. ~client.adapter /\ Issued(client.token, client.until) /\ moment < client.until
      BY <1>1, <2>4 DEF LInv, TokensIssued
    <3>2. moment \in Nat /\ client.until \in Nat /\ server.issued \in Seq(Nat)
      BY <1>1 DEF LInv, LoginTypes, Clients
    <3>. QED BY <2>4, <3>1, <3>2 DEF Issued
  <2>5. ASSUME NEW c \in Clients, NEW answer, Login(c, answer), c.token = NoToken
        PROVE  Used
    <3>1. CASE wire' = wire
      BY <2>3, <3>1
    <3>2. CASE wire' # wire
      <4>1. wire' = Append(wire, [kind |-> "login", token |-> NoToken])
        BY <1>1, <2>5, <3>2, LoginSteps
      <4>2. [kind |-> "login", token |-> NoToken] \in Requests
        BY DEF Requests, NoToken
      <4>. QED BY <2>1, <4>1, <4>2, Added
    <3>. QED BY <3>1, <3>2
  <2>6. CASE CallbackThread
    <3>1. ASSUME NEW answer \in Answers, OnWsOpened(answer) PROVE Used
      <4>1. [client EXCEPT !.open = TRUE] \in Clients
        BY <1>1 DEF LInv, LoginTypes, Clients
      <4>2. /\ [client EXCEPT !.open = TRUE].token = client.token
            /\ [client EXCEPT !.open = TRUE].until = client.until
            /\ [client EXCEPT !.open = TRUE].adapter = client.adapter
        BY <1>1 DEF LInv, LoginTypes, Clients
      <4>3. Head(jobs).kind = "opened" /\ Login([client EXCEPT !.open = TRUE], answer)
        BY <3>1 DEF OnWsOpened, Status
      <4>. QED BY <2>4, <4>1, <4>2, <4>3
    <3>2. ASSUME NEW kind \in Messages, OnConsumed(kind) PROVE Used
      <4>1. [kind |-> "other"] \in Requests
        BY DEF Requests
      <4>. QED BY <2>2, <3>2, <4>1 DEF OnConsumed
    <3>3. CASE OnLoginAccepted
      <4>1. [kind |-> "join", session |-> pending] \in Requests
        BY <1>1 DEF LInv, LoginTypes, Requests
      <4>. QED BY <2>2, <2>3, <3>3, <4>1 DEF OnLoginAccepted
    <3>4. CASE OnLoginRejected
      <4>1. Rejected(client) \in Clients /\ Rejected(client).token = NoToken
        BY <1>1, CredentialSteps DEF Rejected, LInv, LoginTypes
      <4>. QED BY <2>3, <2>5, <3>4, <4>1 DEF OnLoginRejected
    <3>5. ASSUME NEW s, NEW becomes, OnStatus(s, becomes) PROVE Used
      BY <2>3, <3>5 DEF OnStatus
    <3>6. ASSUME NEW kind, OnRefused(kind) PROVE Used
      BY <2>3, <3>6 DEF OnRefused
    <3>7. ASSUME NEW relayed, OnPeer(relayed) PROVE Used
      BY <2>3, <3>7 DEF OnPeer
    <3>8. CASE OnRevoked \/ OnTurnCredentials
      BY <2>3, <3>8 DEF OnRevoked, OnTurnCredentials
    <3>. HIDE DEF Used
    <3>. QED BY <2>6, <3>1, <3>2, <3>3, <3>4, <3>5, <3>6, <3>7, <3>8 DEF CallbackThread
  <2>7. CASE Application
    <3>1. /\ \A s \in Sessions : [kind |-> "join", session |-> s] \in Requests
          /\ [kind |-> "leave"] \in Requests
      BY DEF Requests
    <3>. QED BY <2>2, <2>3, <2>7, <3>1 DEF Application, Join, Leave
  <2>8. CASE Network \/ SlPassTime
    BY <2>3, <2>8
    DEF Network, LinkEnds, ForceSignalReconnect, WorkerTells, Dial, LinkOpens, CertificateFails,
        SlPassTime
  <2>9. CASE Server
    <3>1. wire' = wire \/ (wire # <<>> /\ wire' = Tail(wire))
      BY <2>9
      DEF Server, ServerAdmits, ServerRejects, ServerReceives, ServerRevokes, ServerTells, Receives
    <3>. QED BY <2>3, <3>1
  <2>. HIDE DEF Used
  <2>. QED BY <1>1, <2>6, <2>7, <2>8, <2>9 DEF SlNext
<1>2. LInv /\ [SlNext]_slVars => [Used]_slVars
  BY <1>1
<1>. QED BY <1>2, LoginInvariance, PTL DEF SlSpec, CredentialUse

\* The ICE servers a connection is built with are fresh, and were named on the
\* signaling connection that asked for it.
THEOREM IceServersAreCurrent == SlSpec => IceConfigCurrent
<1>. DEFINE Current == client'.built # client.built =>
                           client'.built.until > moment /\ client'.built.link = link.no
<1>1. ASSUME LInv, SlNext PROVE Current
  <2>1. ASSUME NEW relayed \in BOOLEAN, OnPeer(relayed) PROVE Current
    <3>. DEFINE config == IceConfig(Head(jobs))
    <3>1. /\ jobs # <<>> /\ Head(jobs).kind = "peer"
          /\ client' = IF config # NoConfig /\ relayed THEN [client EXCEPT !.built = config]
                       ELSE client
      BY <2>1 DEF OnPeer, Message, Status
    <3>2. /\ Head(jobs) = jobs[1] /\ Head(jobs) \in Jobs /\ 1 \in 1..Len(jobs)
      BY <1>1, <3>1, Taken DEF LInv, LoginTypes
    <3>3. Head(jobs).until \in Nat
      BY <3>1, <3>2 DEF Jobs
    <3>4. ~OpenedBefore(1)
      BY DEF OpenedBefore
    <3>5. client.legacy = NoConfig \/ client.legacy.link = link.no
      BY <1>1, <3>1, <3>2, <3>4 DEF LInv, CacheCurrent
    <3>6. config # NoConfig => config.until > moment /\ config.link = link.no
      BY <1>1, <3>3, <3>5, TurnSteps DEF IceConfig, LInv, LoginTypes
    <3>. HIDE DEF config
    <3>. QED BY <1>1, <3>1, <3>6 DEF LInv, LoginTypes, Clients
  <2>2. ASSUME client'.built = client.built PROVE Current
    BY <2>2
  <2>3. CASE CallbackThread
    <3>1. client \in Clients
      BY <1>1 DEF LInv, LoginTypes
    <3>2. ASSUME NEW answer \in Answers, OnWsOpened(answer) PROVE client'.built = client.built
      <4>1. /\ [client EXCEPT !.open = TRUE] \in Clients
            /\ [client EXCEPT !.open = TRUE].built = client.built
        BY <3>1 DEF Clients
      <4>2. Login([client EXCEPT !.open = TRUE], answer)
        BY <3>2 DEF OnWsOpened
      <4>. QED BY <1>1, <4>1, <4>2, LoginSteps
    <3>3. Forget(client).built = client.built /\ Forget(client) \in Clients
      BY <1>1, <3>1, CredentialSteps DEF LInv
    <3>4. CASE OnLoginAccepted
      <4>. DEFINE reply == Head(jobs)
                  m == [client EXCEPT !.modern = reply.modern]
                  c == ApplyTurnCredentials(m, reply.turn)
      <4>1. reply \in Jobs /\ reply.kind = "accepted"
        BY <1>1, <3>4, Taken DEF OnLoginAccepted, Message, Status, LInv, LoginTypes
      <4>2. reply.turn \in Nat /\ reply.modern \in BOOLEAN
        BY <4>1 DEF Jobs
      <4>3. m \in Clients /\ m.built = client.built
        BY <3>1, <4>2 DEF Clients
      <4>4. client' = IF c.adapter THEN c ELSE Accepted(c, reply)
        BY <3>4 DEF OnLoginAccepted
      <4>. HIDE DEF m, reply
      <4>5. c \in Clients /\ c.built = client.built
        BY <1>1, <4>2, <4>3, TurnSteps DEF LInv
      <4>. HIDE DEF c
      <4>. QED BY <1>1, <4>1, <4>4, <4>5, AcceptedSteps DEF LInv
    <3>5. CASE OnLoginRejected
      BY <1>1, <3>3, <3>5, LoginSteps DEF OnLoginRejected, Rejected
    <3>6. CASE OnTurnCredentials
      <4>1. Head(jobs).until \in Nat
        <5>1. Head(jobs) \in Jobs /\ Head(jobs).kind = "turn"
          BY <1>1, <3>6, Taken DEF OnTurnCredentials, Message, Status, LInv, LoginTypes
        <5>. QED BY <5>1 DEF Jobs
      <4>. QED BY <1>1, <3>1, <3>6, <4>1, TurnSteps DEF OnTurnCredentials, LInv
    <3>7. ASSUME NEW s, NEW becomes, OnStatus(s, becomes) PROVE client'.built = client.built
      BY <3>1, <3>7 DEF OnStatus, Clients
    <3>8. ASSUME NEW kind, OnRefused(kind) \/ OnConsumed(kind) \/ OnRevoked
          PROVE  client'.built = client.built
      BY <3>3, <3>8 DEF OnRefused, OnConsumed, OnRevoked
    <3>. HIDE DEF Current
    <3>. QED BY <2>1, <2>2, <2>3, <3>2, <3>4, <3>5, <3>6, <3>7, <3>8 DEF CallbackThread
  <2>4. CASE Application \/ Network \/ Server \/ SlPassTime
    <3>1. client' = client
      BY <2>4
      DEF Application, Join, Leave, Network, LinkEnds, ForceSignalReconnect, WorkerTells, Dial,
          LinkOpens, CertificateFails, Server, ServerAdmits, ServerRejects, ServerReceives,
          ServerRevokes, ServerTells, SlPassTime
    <3>. QED BY <2>2, <3>1
  <2>. HIDE DEF Current
  <2>. QED BY <1>1, <2>3, <2>4 DEF SlNext
<1>2. LInv /\ [SlNext]_slVars => [Current]_slVars
  BY <1>1
<1>. QED BY <1>2, LoginInvariance, PTL DEF SlSpec, IceConfigCurrent
=============================================================================
