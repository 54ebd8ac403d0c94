------------------------------ MODULE WsClient ------------------------------
(***************************************************************************)
(* The signaling client (src/ws/ws_client.cpp): the application thread,    *)
(* the I/O thread of the websocket endpoint, the heartbeat thread, the     *)
(* thread that runs the application's callbacks, and the workers that      *)
(* ScheduleReconnect starts.  pc[t] is where thread t stands; a step is    *)
(* what one thread does between two points where another can get in: a     *)
(* critical section, a wait or an access to shared state.                  *)
(*                                                                         *)
(* Left out, because no property tells them apart: the length of the       *)
(* backoff (a wait that is not forced may end at any time), the byte limit *)
(* of the callback queue, what a message or a status callback says.        *)
(* The reconnect generation is kept as the set of workers whose captured   *)
(* generation is no longer the current one.  Jobs carry no generation:     *)
(* InvalidateCallbacks empties the queue in the critical section that      *)
(* bumps it, so every queued job is of the current one; q.exec says        *)
(* whether the job being executed still is.                                *)
(***************************************************************************)
EXTENDS Naturals

CONSTANTS
    Workers,          \* identities of reconnect threads
    MessageSlots,     \* queue length up to which a message is accepted, 128
    StatusSlots,      \* queue length up to which a status is accepted, 144
    ServerAccepts,    \* whether the server may accept a connection
    UriResults,       \* what get_connection can say about the URI
    CallbackCloses    \* whether an application callback may call Close

ASSUME WorkersAssumption ==
    Workers # {} /\ Workers \cap {"app", "io", "ping", "callback", "nobody"} = {}
ASSUME SlotsAssumption ==
    MessageSlots \in Nat /\ StatusSlots \in Nat /\ MessageSlots <= StatusSlots
ASSUME SwitchAssumption ==
    ServerAccepts \in BOOLEAN /\ UriResults \subseteq BOOLEAN /\ CallbackCloses \in BOOLEAN

VARIABLES
    pc,        \* where each thread stands; "none" is a thread that does not run
    caller,    \* for a thread in StopThreads, what it goes on with
    shutdown,  \* shutdown_
    holder,    \* the thread in the critical section of shutdown_mtx_
    rc,        \* is_reconnecting_, reconnect_waiting_, reconnect_now_, reconnect_thread_
    stale,     \* workers whose captured reconnect_generation_ is outdated
    status,    \* ws_status_
    running,   \* running_
    ep,        \* m_endpoint_: up, stopped, and the state of its connection
    q          \* callbacks_: queued jobs, the one executing, stopping; callback_thread_ detached
vars == <<pc, caller, shutdown, holder, rc, stale, status, running, ep, q>>

Threads    == Workers \cup {"app", "io", "ping", "callback"}
Connectors == Workers \cup {"app"}
Closers    == {"app", "callback"}

Statuses == {"WsClosed", "WsOpening", "WsConnecting", "WsOpened", "WsReconnecting",
             "WsTlsCertError"}
NetStates == {"none", "connecting", "open", "closing", "failed", "closed"}
NoEndpoint == [up |-> FALSE, stop |-> FALSE, net |-> "none"]

\* Inside ReConnect, Connect or the StopThreads they call.
Building == {"reconnect", "connect", "stop", "joinPing", "cleanup", "joinPending", "joinIo",
             "invalidate", "drain", "asleep", "recheck", "reset", "start", "dial", "dialed"}
Initialising == pc["app"] \in Building

Move(t, where) == [pc EXCEPT ![t] = where]

-----------------------------------------------------------------------------
(***************************************************************************)
(* The callback queue and ws_status_.                                      *)
(***************************************************************************)

\* callbacks_->mutex is free: nobody has found the wait condition of
\* InvalidateCallbacks false without having gone to sleep yet.
QueueFree == \A t \in Connectors : pc[t] # "drain"

\* callbacks_->ready.notify_all: wakes those who sleep, not those about to.
Notified(p) == [t \in Threads |-> IF p[t] = "asleep" THEN "recheck" ELSE p[t]]

\* Whether QueueCallback takes one more job.
Accepts(slots) == ~shutdown /\ ~q.stopping /\ q.jobs < slots

SetStatus(s) ==
    /\ QueueFree
    /\ status' = s
    /\ q' = IF Accepts(StatusSlots) THEN [q EXCEPT !.jobs = @ + 1] ELSE q

-----------------------------------------------------------------------------
(***************************************************************************)
(* ScheduleReconnect: one critical section of reconnect_mtx_.  p is pc     *)
(* with the calling thread moved on.  The recheck of shutdown_ before the  *)
(* worker is published cannot fail, since Shutdown sets the flag under the *)
(* same mutex.                                                             *)
(***************************************************************************)

\* Mutant: the check that a reconnect is under way is dropped.
ScheduleTwice(force, p) ==
    IF shutdown \/ \A w \in Workers : pc[w] # "none"
    THEN pc' = p /\ UNCHANGED <<rc, stale>>
    ELSE \E w \in Workers :
            /\ pc[w] = "none"
            /\ pc' = [p EXCEPT ![w] = "publish"]
            /\ rc' = [busy |-> TRUE, waiting |-> TRUE, now |-> force, thread |-> w]
            /\ stale' = stale \ {w}

\* Mutant: reconnect_waiting_ is left to the worker.
ScheduleUnmarked(force, p) ==
    IF shutdown THEN pc' = p /\ UNCHANGED <<rc, stale>>
    ELSE IF rc.busy
    THEN /\ pc' = p
         /\ rc' = [rc EXCEPT !.now = @ \/ (force /\ rc.waiting)]
         /\ UNCHANGED stale
    ELSE LET w == CHOOSE v \in Workers : pc[v] = "none"
         IN  /\ pc' = [p EXCEPT ![w] = "publish"]
             /\ rc' = [busy |-> TRUE, waiting |-> FALSE, now |-> force, thread |-> w]
             /\ stale' = stale \ {w}

ScheduleReconnect(force, p) ==
    IF shutdown THEN pc' = p /\ UNCHANGED <<rc, stale>>
    ELSE IF rc.busy
    THEN /\ pc' = p
         /\ rc' = [rc EXCEPT !.now = @ \/ (force /\ rc.waiting)]
         /\ UNCHANGED stale
    ELSE LET w == CHOOSE v \in Workers : pc[v] = "none"
         IN  /\ pc' = [p EXCEPT ![w] = "publish"]
             /\ rc' = [busy |-> TRUE, waiting |-> TRUE, now |-> force, thread |-> w]
             /\ stale' = stale \ {w}

\* The worker's first step.
Publish(w) ==
    /\ pc[w] = "publish"
    /\ pc' = Move(w, "wait")
    /\ IF status = "WsTlsCertError" THEN UNCHANGED <<status, q>> ELSE SetStatus("WsReconnecting")
    /\ UNCHANGED <<caller, shutdown, holder, rc, stale, running, ep>>

\* The condition that ends the wait before its time.
WaitOver(w) == shutdown \/ rc.now \/ w \in stale

\* Mutant of Wake: a cancelled worker does not clear is_reconnecting_.
WakeStaysBusy(w) ==
    /\ pc[w] = "wait"
    /\ WaitOver(w) \/ ~Initialising
    /\ LET cancelled == shutdown \/ w \in stale
       IN  /\ rc' = [rc EXCEPT !.waiting = FALSE, !.now = FALSE]
           /\ pc' = Move(w, IF cancelled THEN "none" ELSE "reconnect")
    /\ UNCHANGED <<caller, shutdown, holder, stale, status, running, ep, q>>

\* The end of the wait.  Two seconds are enough for Connect, which does not
\* block after the connection attempt starts, to return to the application.
Wake(w) ==
    /\ pc[w] = "wait"
    /\ WaitOver(w) \/ ~Initialising
    /\ LET cancelled == shutdown \/ w \in stale
       IN  /\ rc' = [rc EXCEPT !.waiting = FALSE, !.now = FALSE, !.busy = ~cancelled]
           /\ pc' = Move(w, IF cancelled THEN "none" ELSE "reconnect")
    /\ UNCHANGED <<caller, shutdown, holder, stale, status, running, ep, q>>

\* ReConnect up to its StopThreads: a connection that is open is closed.
ReConnect(w) ==
    /\ pc[w] = "reconnect"
    /\ IF shutdown
       THEN pc' = Move(w, "finish") /\ UNCHANGED <<caller, status, ep, q>>
       ELSE /\ pc' = Move(w, "stop")
            /\ caller' = [caller EXCEPT ![w] = "ReConnect"]
            /\ IF status = "WsReconnecting" THEN UNCHANGED <<status, q>>
               ELSE SetStatus("WsReconnecting")
            /\ ep' = IF ep.net = "open" THEN [ep EXCEPT !.net = "closing"] ELSE ep
    /\ UNCHANGED <<shutdown, holder, rc, stale, running>>

\* The worker's last step, under reconnect_mtx_.
Finish(w) ==
    /\ pc[w] = "finish"
    /\ pc' = Move(w, "none")
    /\ rc' = [rc EXCEPT !.busy = FALSE]
    /\ UNCHANGED <<caller, shutdown, holder, stale, status, running, ep, q>>

-----------------------------------------------------------------------------
(***************************************************************************)
(* StopThreads, called by ReConnect, by Connect and by a Connect whose URI *)
(* is refused.                                                             *)
(***************************************************************************)
StopPing(t) ==
    /\ pc[t] = "stop"
    /\ pc' = Move(t, "joinPing")
    /\ running' = FALSE
    /\ UNCHANGED <<caller, shutdown, holder, rc, stale, status, ep, q>>

JoinPing(t) ==
    /\ pc[t] = "joinPing"
    /\ pc["ping"] = "none"
    /\ pc' = Move(t, "cleanup")
    /\ UNCHANGED <<caller, shutdown, holder, rc, stale, status, running, ep, q>>

\* CleanupPendingThreads: cancel what waits; the workers that
\* reconnect_thread_ no longer names are joined next.
CleanupPendingThreads(t) ==
    /\ pc[t] = "cleanup"
    /\ pc' = Move(t, "joinPending")
    /\ stale' = Workers
    /\ UNCHANGED <<caller, shutdown, holder, rc, status, running, ep, q>>

\* Join them, then stop the endpoint.
JoinPending(t) ==
    /\ pc[t] = "joinPending"
    /\ \A w \in Workers \ {t, rc.thread} : pc[w] = "none"
    /\ pc' = Move(t, "joinIo")
    /\ ep' = [ep EXCEPT !.stop = TRUE]
    /\ UNCHANGED <<caller, shutdown, holder, rc, stale, status, running, q>>

JoinIo(t) ==
    /\ pc[t] = "joinIo"
    /\ pc["io"] = "none"
    /\ pc' = Move(t, "invalidate")
    /\ UNCHANGED <<caller, shutdown, holder, rc, stale, status, running, ep, q>>

Drained == q.exec = "no" \/ shutdown

\* InvalidateCallbacks up to the first look at its wait condition, with
\* callbacks_->mutex held from there to the sleep.
InvalidateCallbacks(t) ==
    /\ pc[t] = "invalidate"
    /\ QueueFree
    /\ q' = [q EXCEPT !.jobs = 0, !.exec = IF @ = "no" THEN @ ELSE "old"]
    /\ pc' = Move(t, IF Drained THEN "reset" ELSE "drain")
    /\ UNCHANGED <<caller, shutdown, holder, rc, stale, status, running, ep>>

Sleep(t) ==
    /\ pc[t] = "drain"
    /\ pc' = Move(t, "asleep")
    /\ UNCHANGED <<caller, shutdown, holder, rc, stale, status, running, ep, q>>

Recheck(t) ==
    /\ pc[t] = "recheck"
    /\ QueueFree
    /\ pc' = Move(t, IF Drained THEN "reset" ELSE "drain")
    /\ UNCHANGED <<caller, shutdown, holder, rc, stale, status, running, ep, q>>

\* Where a thread goes when Connect or ReConnect returns.
Return(t) == IF t = "app" THEN "idle" ELSE "finish"

ResetTransport(t) ==
    /\ pc[t] = "reset"
    /\ ep' = NoEndpoint
    /\ pc' = Move(t, CASE caller[t] = "ReConnect" -> "connect"
                       [] caller[t] = "Connect"   -> "start"
                       [] caller[t] = "Refused"   -> Return(t))
    /\ UNCHANGED <<caller, shutdown, holder, rc, stale, status, running, q>>

StopThreads(t) ==
    \/ StopPing(t) \/ JoinPing(t) \/ CleanupPendingThreads(t) \/ JoinPending(t)
    \/ JoinIo(t) \/ InvalidateCallbacks(t) \/ Sleep(t) \/ Recheck(t) \/ ResetTransport(t)

-----------------------------------------------------------------------------
(***************************************************************************)
(* Connect.                                                                *)
(***************************************************************************)

\* Mutant of ConnectEnter: a terminal shutdown is not rejected.
ConnectEnterAnyway(t) ==
    /\ pc[t] = "connect"
    /\ pc' = Move(t, "stop")
    /\ caller' = [caller EXCEPT ![t] = "Connect"]
    /\ UNCHANGED <<shutdown, holder, rc, stale, status, running, ep, q>>

ConnectEnter(t) ==
    /\ pc[t] = "connect"
    /\ IF shutdown THEN pc' = Move(t, Return(t)) /\ UNCHANGED caller
       ELSE /\ pc' = Move(t, "stop")
            /\ caller' = [caller EXCEPT ![t] = "Connect"]
    /\ UNCHANGED <<shutdown, holder, rc, stale, status, running, ep, q>>

\* StartCallbacks, a fresh endpoint and its I/O thread.
ConnectStart(t) ==
    /\ pc[t] = "start"
    /\ pc' = [pc EXCEPT ![t] = "dial", !["io"] = "loop",
                        !["callback"] = IF @ = "none" /\ ~q.stopping THEN "idle" ELSE @]
    /\ ep' = [NoEndpoint EXCEPT !.up = TRUE]
    /\ SetStatus("WsOpening")
    /\ UNCHANGED <<caller, shutdown, holder, rc, stale, running>>

ConnectDial(t) ==
    /\ pc[t] = "dial"
    /\ \E ok \in UriResults :
         /\ pc' = Move(t, IF ok THEN "dialed" ELSE "stop")
         /\ ep' = IF ok THEN [ep EXCEPT !.net = "connecting"] ELSE ep
         /\ caller' = IF ok THEN caller ELSE [caller EXCEPT ![t] = "Refused"]
    /\ UNCHANGED <<shutdown, holder, rc, stale, status, running, q>>

ConnectDone(t) ==
    /\ pc[t] = "dialed"
    /\ pc' = Move(t, Return(t))
    /\ SetStatus("WsConnecting")
    /\ UNCHANGED <<caller, shutdown, holder, rc, stale, running, ep>>

Connect(t) == ConnectEnter(t) \/ ConnectStart(t) \/ ConnectDial(t) \/ ConnectDone(t)

WorkerStep(w) ==
    Publish(w) \/ Wake(w) \/ ReConnect(w) \/ StopThreads(w) \/ Connect(w) \/ Finish(w)

-----------------------------------------------------------------------------
(***************************************************************************)
(* The I/O thread: the handlers of the endpoint.  A stopped endpoint runs  *)
(* no further handler.                                                     *)
(***************************************************************************)
Handling == pc["io"] = "loop" /\ ~ep.stop

OnOpen ==
    /\ Handling /\ ServerAccepts /\ ep.net = "connecting"
    /\ ep' = [ep EXCEPT !.net = "open"]
    /\ IF shutdown THEN UNCHANGED <<pc, status, q>>
       ELSE pc' = Move("io", "restart") /\ SetStatus("WsOpened")
    /\ UNCHANGED <<caller, shutdown, holder, rc, stale, running>>

\* RestartPingThread: the check of shutdown_, the end of an earlier heartbeat
\* and the start of the new one are separate steps.
RestartPing ==
    /\ pc["io"] = "restart"
    /\ IF shutdown THEN pc' = Move("io", "loop") /\ UNCHANGED running
       ELSE IF pc["ping"] = "none" THEN pc' = Move("io", "spawn") /\ UNCHANGED running
       ELSE pc' = Move("io", "rejoin") /\ running' = FALSE
    /\ UNCHANGED <<caller, shutdown, holder, rc, stale, status, ep, q>>

SpawnPing ==
    /\ pc["io"] \in {"rejoin", "spawn"}
    /\ pc["ping"] = "none"
    /\ pc' = [pc EXCEPT !["io"] = "loop", !["ping"] = "wait"]
    /\ running' = TRUE
    /\ UNCHANGED <<caller, shutdown, holder, rc, stale, status, ep, q>>

\* OnFail, with OnTlsVerify's verdict on the certificate.
OnFail ==
    /\ Handling /\ ep.net = "connecting"
    /\ ep' = [ep EXCEPT !.net = "failed"]
    /\ IF shutdown THEN UNCHANGED <<pc, status, q>>
       ELSE /\ pc' = Move("io", "schedule")
            /\ \/ status # "WsTlsCertError" /\ SetStatus("WsTlsCertError")
               \/ UNCHANGED <<status, q>>
    /\ UNCHANGED <<caller, shutdown, holder, rc, stale, running>>

OnClose ==
    /\ Handling /\ ep.net \in {"open", "closing"}
    /\ ep' = [ep EXCEPT !.net = "closed"]
    /\ running' = FALSE
    /\ pc' = IF shutdown \/ status = "WsReconnecting" THEN pc ELSE Move("io", "schedule")
    /\ UNCHANGED <<caller, shutdown, holder, rc, stale, status, q>>

OnMessage ==
    /\ Handling /\ ep.net = "open" /\ ~shutdown /\ QueueFree
    /\ IF Accepts(MessageSlots)
       THEN q' = [q EXCEPT !.jobs = @ + 1] /\ UNCHANGED pc
       ELSE pc' = Move("io", "schedule") /\ UNCHANGED q
    /\ UNCHANGED <<caller, shutdown, holder, rc, stale, status, running, ep>>

\* A pong that answers the outstanding ping.
OnPong ==
    /\ Handling /\ ep.net = "open" /\ running /\ pc["ping"] = "await"
    /\ pc' = Move("ping", "wait")
    /\ UNCHANGED <<caller, shutdown, holder, rc, stale, status, running, ep, q>>

\* The AsyncReConnect or ScheduleReconnect that ends OnFail, OnClose and OnMessage.
IoSchedule ==
    /\ pc["io"] = "schedule"
    /\ ScheduleReconnect(FALSE, Move("io", "loop"))
    /\ UNCHANGED <<caller, shutdown, holder, status, running, ep, q>>

\* run() returns once the endpoint is stopped.
IoExit ==
    /\ pc["io"] = "loop" /\ ep.stop
    /\ pc' = Move("io", "none")
    /\ UNCHANGED <<caller, shutdown, holder, rc, stale, status, running, ep, q>>

-----------------------------------------------------------------------------
(***************************************************************************)
(* The heartbeat thread.                                                   *)
(***************************************************************************)
PingSend ==
    /\ pc["ping"] = "wait"
    /\ pc' = Move("ping", IF running THEN "await" ELSE "end")
    /\ UNCHANGED <<caller, shutdown, holder, rc, stale, status, running, ep, q>>

\* The pong is late, the ping could not be sent, or the heartbeat was stopped.
PingGivesUp ==
    /\ pc["ping"] = "await"
    /\ pc' = Move("ping", "end")
    /\ UNCHANGED <<caller, shutdown, holder, rc, stale, status, running, ep, q>>

PingEnd ==
    /\ pc["ping"] = "end"
    /\ running' = FALSE
    /\ pc' = Move("ping", IF running /\ ~shutdown THEN "schedule" ELSE "none")
    /\ UNCHANGED <<caller, shutdown, holder, rc, stale, status, ep, q>>

PingSchedule ==
    /\ pc["ping"] = "schedule"
    /\ ScheduleReconnect(FALSE, Move("ping", "none"))
    /\ UNCHANGED <<caller, shutdown, holder, status, running, ep, q>>

-----------------------------------------------------------------------------
(***************************************************************************)
(* The callback thread.                                                    *)
(***************************************************************************)
CallbackTake ==
    /\ pc["callback"] = "idle" /\ ~q.stopping /\ q.jobs > 0 /\ QueueFree
    /\ q' = [q EXCEPT !.jobs = @ - 1, !.exec = "current"]
    /\ pc' = Move("callback", "taken")
    /\ UNCHANGED <<caller, shutdown, holder, rc, stale, status, running, ep>>

CallbackRun ==
    /\ pc["callback"] = "taken"
    /\ pc' = Move("callback", IF shutdown THEN "done" ELSE "job")
    /\ UNCHANGED <<caller, shutdown, holder, rc, stale, status, running, ep, q>>

\* What the application does in a callback: nothing that matters here, throw
\* (AsyncReConnect), ask for a reconnect once Init has returned, or close.
JobReturns ==
    /\ pc["callback"] = "job"
    /\ pc' = Move("callback", "done")
    /\ UNCHANGED <<caller, shutdown, holder, rc, stale, status, running, ep, q>>

JobReconnects(force) ==
    /\ pc["callback"] = "job"
    /\ force => ~Initialising
    /\ ScheduleReconnect(force, Move("callback", "done"))
    /\ UNCHANGED <<caller, shutdown, holder, status, running, ep, q>>

JobCloses ==
    /\ pc["callback"] = "job" /\ CallbackCloses
    /\ pc' = Move("callback", IF shutdown THEN "done" ELSE "lock")
    /\ UNCHANGED <<caller, shutdown, holder, rc, stale, status, running, ep, q>>

CallbackDone ==
    /\ pc["callback"] = "done" /\ QueueFree
    /\ q' = [q EXCEPT !.exec = "no"]
    /\ pc' = Notified(Move("callback", IF q.stopping THEN "none" ELSE "idle"))
    /\ UNCHANGED <<caller, shutdown, holder, rc, stale, status, running, ep>>

CallbackExit ==
    /\ pc["callback"] = "idle" /\ q.stopping /\ QueueFree
    /\ pc' = Move("callback", "none")
    /\ UNCHANGED <<caller, shutdown, holder, rc, stale, status, running, ep, q>>

CallbackStep ==
    \/ CallbackTake \/ CallbackRun \/ JobReturns \/ (\E f \in BOOLEAN : JobReconnects(f))
    \/ JobCloses \/ CallbackDone \/ CallbackExit

-----------------------------------------------------------------------------
(***************************************************************************)
(* Shutdown, by the application thread (Close, the destructor) or from a   *)
(* callback.                                                               *)
(***************************************************************************)
Ended(t) == IF t = "app" THEN "closed" ELSE "done"

\* The return at the top: an earlier Shutdown has left nothing to stop.
NothingToStop ==
    /\ shutdown /\ ~ep.up
    /\ \A t \in Workers \cup {"io", "ping"} : pc[t] = "none"
    /\ pc["callback"] = "none" \/ q.detached

\* Mutant of ShutdownLock: the workers are waited for before they are
\* cancelled.
ShutdownLockWaits(t) ==
    /\ pc[t] = "lock" /\ holder = "nobody"
    /\ \A w \in Workers : pc[w] = "none"
    /\ IF NothingToStop THEN pc' = Move(t, Ended(t)) /\ UNCHANGED holder
       ELSE pc' = Move(t, "terminate") /\ holder' = t
    /\ UNCHANGED <<caller, shutdown, rc, stale, status, running, ep, q>>

ShutdownLock(t) ==
    /\ pc[t] = "lock" /\ holder = "nobody"
    /\ IF NothingToStop THEN pc' = Move(t, Ended(t)) /\ UNCHANGED holder
       ELSE pc' = Move(t, "terminate") /\ holder' = t
    /\ UNCHANGED <<caller, shutdown, rc, stale, status, running, ep, q>>

\* shutdown_ and the generation under reconnect_mtx_, then every condition
\* variable is notified, callbacks_->ready without its mutex.
Terminate(t) ==
    /\ pc[t] = "terminate"
    /\ shutdown' = TRUE
    /\ stale' = Workers
    /\ running' = FALSE
    /\ pc' = Notified(Move(t, "joinWorkers"))
    /\ UNCHANGED <<caller, holder, rc, status, ep, q>>

\* Mutant of JoinWorkers: reconnect workers are not waited for.
JoinNoWorkers(t) ==
    /\ pc[t] = "joinWorkers"
    /\ running' = FALSE
    /\ pc' = Move(t, "joinHeartbeat")
    /\ UNCHANGED <<caller, shutdown, holder, rc, stale, status, ep, q>>

JoinWorkers(t) ==
    /\ pc[t] = "joinWorkers"
    /\ \A w \in Workers : pc[w] = "none"
    /\ running' = FALSE
    /\ pc' = Move(t, "joinHeartbeat")
    /\ UNCHANGED <<caller, shutdown, holder, rc, stale, status, ep, q>>

\* Join the heartbeat, then stop the endpoint.
JoinHeartbeat(t) ==
    /\ pc[t] = "joinHeartbeat"
    /\ pc["ping"] = "none"
    /\ ep' = [ep EXCEPT !.stop = TRUE]
    /\ pc' = Move(t, "joinEndpoint")
    /\ UNCHANGED <<caller, shutdown, holder, rc, stale, status, running, q>>

StopQueue(t) ==
    /\ pc[t] = "joinEndpoint"
    /\ pc["io"] = "none" /\ QueueFree
    /\ q' = [q EXCEPT !.stopping = TRUE, !.jobs = 0]
    /\ pc' = Notified(Move(t, "joinCallbacks"))
    /\ UNCHANGED <<caller, shutdown, holder, rc, stale, status, running, ep>>

\* Mutant of JoinCallbacks: the callback thread is detached, never joined.
JoinNoCallbacks(t) ==
    /\ pc[t] = "joinCallbacks"
    /\ q' = [q EXCEPT !.detached = TRUE]
    /\ ep' = NoEndpoint
    /\ holder' = "nobody"
    /\ pc' = Move(t, Ended(t))
    /\ UNCHANGED <<caller, shutdown, rc, stale, status, running>>

\* JoinThread detaches a thread that would join itself.
JoinCallbacks(t) ==
    /\ pc[t] = "joinCallbacks"
    /\ IF t = "callback" THEN q' = [q EXCEPT !.detached = TRUE]
       ELSE (pc["callback"] = "none" \/ q.detached) /\ UNCHANGED q
    /\ ep' = NoEndpoint
    /\ holder' = "nobody"
    /\ pc' = Move(t, Ended(t))
    /\ UNCHANGED <<caller, shutdown, rc, stale, status, running>>

Shutdown(t) ==
    \/ ShutdownLock(t) \/ Terminate(t) \/ JoinWorkers(t) \/ JoinHeartbeat(t)
    \/ StopQueue(t) \/ JoinCallbacks(t)

-----------------------------------------------------------------------------
(***************************************************************************)
(* The application thread connects once, then may ask for a reconnect any  *)
(* number of times and close.                                              *)
(***************************************************************************)
ForceReconnect ==
    /\ pc["app"] = "idle"
    /\ ScheduleReconnect(TRUE, pc)
    /\ UNCHANGED <<caller, shutdown, holder, status, running, ep, q>>

Close ==
    /\ pc["app"] = "idle"
    /\ pc' = Move("app", "lock")
    /\ UNCHANGED <<caller, shutdown, holder, rc, stale, status, running, ep, q>>

AppStep == StopThreads("app") \/ Connect("app")
IoStep == RestartPing \/ SpawnPing \/ IoSchedule \/ IoExit
PingStep == PingSend \/ PingGivesUp \/ PingEnd \/ PingSchedule

Init ==
    /\ pc = [t \in Threads |-> IF t = "app" THEN "connect" ELSE "none"]
    /\ caller = [t \in Connectors |-> "Connect"]
    /\ shutdown = FALSE
    /\ holder = "nobody"
    /\ rc = [busy |-> FALSE, waiting |-> FALSE, now |-> FALSE,
             thread |-> "nobody"]
    /\ stale = {}
    /\ status = "WsClosed"
    /\ running = FALSE
    /\ ep = NoEndpoint
    /\ q = [jobs |-> 0, exec |-> "no", stopping |-> FALSE, detached |-> FALSE]

\* Everything has been joined: nothing is left to happen.
Over ==
    /\ pc["app"] = "closed"
    /\ \A t \in Threads \ {"app"} : pc[t] = "none"
    /\ UNCHANGED vars

Next ==
    \/ \E w \in Workers : WorkerStep(w)
    \/ AppStep \/ ForceReconnect \/ Close
    \/ OnOpen \/ OnFail \/ OnClose \/ OnMessage \/ OnPong \/ IoStep
    \/ PingStep
    \/ CallbackStep
    \/ \E t \in Closers : Shutdown(t)
    \/ Over

Spec == Init /\ [][Next]_vars

(***************************************************************************)
(* The operating system runs every thread that can run, a wait with a time *)
(* limit ends, a callback returns and a connection attempt ends one way or *)
(* the other.  Nothing is assumed of the server, of clicks and of Close.   *)
(***************************************************************************)
Fairness ==
    /\ \A w \in Workers : WF_vars(WorkerStep(w))
    /\ WF_vars(AppStep)
    /\ WF_vars(IoStep)
    /\ WF_vars(OnOpen \/ OnFail)
    /\ WF_vars(PingStep)
    /\ WF_vars(CallbackStep)
    /\ \A t \in Closers : WF_vars(Shutdown(t))

FairSpec == Spec /\ Fairness

-----------------------------------------------------------------------------
(***************************************************************************)
(* Properties.                                                             *)
(***************************************************************************)
Places == Building \cup
    {"none", "publish", "wait", "finish", "idle", "closed", "loop", "restart", "rejoin",
     "spawn", "schedule", "await", "end", "taken", "job", "done", "lock", "terminate",
     "joinWorkers", "joinHeartbeat", "joinEndpoint", "joinCallbacks"}
ReconnectStates == [busy : BOOLEAN, waiting : BOOLEAN, now : BOOLEAN,
                    thread : Workers \cup {"nobody"}]
EndpointStates == [up : BOOLEAN, stop : BOOLEAN, net : NetStates]
QueueStates == [jobs : 0..StatusSlots, exec : {"no", "current", "old"},
                stopping : BOOLEAN, detached : BOOLEAN]

\* The type invariant; the callback queue stays within its limit.
TypeOK ==
    /\ pc \in [Threads -> Places]
    /\ caller \in [Connectors -> {"ReConnect", "Connect", "Refused"}]
    /\ shutdown \in BOOLEAN
    /\ holder \in Closers \cup {"nobody"}
    /\ rc \in ReconnectStates
    /\ stale \subseteq Workers
    /\ status \in Statuses
    /\ running \in BOOLEAN
    /\ ep \in EndpointStates
    /\ q \in QueueStates

\* "ensure only one reconnect attempt is scheduled at a time": never do two
\* threads tear down and rebuild the endpoint, whose members have no lock.
OneConnector ==
    \A s, t \in Connectors : pc[s] \in Building /\ pc[t] \in Building => s = t

\* A callback queued for an earlier connection is over before the endpoint of
\* the next connection exists (InvalidateCallbacks, and Connect's refusal when
\* a shutdown cut the wait short).
DrainedBeforeConnect == ep.up /\ ~ep.stop => q.exec # "old"

\* Shutdown is terminal: once it is done no I/O thread, endpoint or reconnect
\* worker is left, and none appears later.
NoRevival ==
    shutdown /\ holder = "nobody" =>
        /\ ~ep.up
        /\ \A t \in Workers \cup {"io"} : pc[t] = "none"

\* An executing callback finishes before Close returns: callbacks hold the
\* raw pointer of the PeerConnection that is deleted next.
CallbacksFinished == pc["app"] = "closed" => q.exec = "no"

\* "a click just before the worker starts waiting cannot be lost": as long as
\* a worker is before or in its backoff wait, a ForceReconnect finds
\* reconnect_waiting_ set, and the wake-up it leaves stays until the wait ends.
Delayed(p) == \E w \in Workers : p[w] \in {"publish", "wait"}
ClickNotLost ==
    [][Delayed(pc) => rc.waiting /\ (rc.now /\ Delayed(pc') => rc'.now)]_vars

\* A thread waits for a heartbeat that was started after it had cleared
\* running_: RestartPingThread on the I/O thread checks shutdown_ first and
\* sets running_ later.  Such a heartbeat lasts as long as pongs come.
LateHeartbeat == running /\ \E t \in Connectors : pc[t] \in {"joinPing", "joinHeartbeat"}

\* A Close of the application returns, whatever the server does and in
\* whatever step of a reconnect it arrives, except where a late heartbeat is
\* kept alive: none of the other threads that Shutdown joins waits for
\* something only Shutdown could still provide.
CloseReturns == (pc["app"] = "lock" ~> pc["app"] = "closed") \/ <>[]LateHeartbeat

\* A reconnect attempt comes to an end, and with it the refusal of others,
\* with the same exception.
ReconnectFinishes == (rc.busy ~> ~rc.busy) \/ <>[]LateHeartbeat

\* What the code counts on is that the exception does not happen: StopThreads
\* and Shutdown clear running_ before they join the heartbeat ("A reconnect that
\* was already running may have restarted the heartbeat"), so that the join
\* returns.
HeartbeatJoinReturns == ~<>[]LateHeartbeat
=============================================================================
