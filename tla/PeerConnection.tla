--------------------------- MODULE PeerConnection ---------------------------
(***************************************************************************)
(* The life of the connections to one remote user                          *)
(* (src/pc/peer_connection.cpp): the signaling thread creates and replaces *)
(* them, the ICE worker starts and stops their transports, the transports' *)
(* own threads report what becomes of them, and the application leaves,    *)
(* disconnects or destroys at any time.                                    *)
(*                                                                         *)
(* A connection is identified by its generation, 1 for the first one       *)
(* created.  The map, connected_peers_ and session_tickets_ are changed    *)
(* under peer_connection_map_mutex_; everything a thread does outside the  *)
(* critical section, above all the report to the application and the       *)
(* release of a transport, is a step of its own.                           *)
(*                                                                         *)
(* Left out: answers and candidates, which only feed a transport that      *)
(* exists, the media paths, what a direct session (one without a server)   *)
(* does differently, and the state of the login, so that every call of     *)
(* Leave is taken to reach ClearPeerConnections.                           *)
(***************************************************************************)
EXTENDS Naturals, Sequences

CONSTANTS
    MaxConns,   \* bound on the connections created
    MaxMsgs,    \* bound on the length of ice_work_msg_queue_
    Tickets     \* whether the server hands out session tickets

ASSUME BoundsAssumption == MaxConns \in Nat \ {0} /\ MaxMsgs \in Nat \ {0}
ASSUME TicketsAssumption == Tickets \in BOOLEAN

Conns == 1..MaxConns
None  == 0

VARIABLES
    map,        \* peer_connection_map_: the current connection or None
    created,    \* number of connections created
    connected,  \* the remote user is in connected_peers_
    ticket,     \* the remote user has an entry in session_tickets_
    confirmed,  \* what the last session_report said: none, dead, alive, or unfounded
    transport,  \* for each connection, its transport thread
    ice,        \* connections whose transport has become ready
    told,       \* what the application was told of each connection
    removed,    \* connections taken out of the map, not replaced
    cleanup,    \* terminal_connection_cleanup_queue_
    msgs,       \* ice_work_msg_queue_
    running,    \* ice_worker_running_
    thread      \* the signaling thread, the ICE worker and the application thread
vars == <<map, created, connected, ticket, confirmed, transport, ice, told, removed, cleanup,
          msgs, running, thread>>

sessions == <<connected, ticket>>

Threads == {"signal", "worker", "app"}

\* A thread: where it stands, the connection it works on, the one it
\* replaces, and where it goes after a report or a release.
At(where, c, then) == [at |-> where, conn |-> c, old |-> None, then |-> then]
Idle == At("idle", None, "idle")
Goes(t, where) == thread' = [thread EXCEPT ![t].at = where]
GoesVia(t, where, then) == thread' = [thread EXCEPT ![t].at = where, ![t].then = then]
Rests(t) == thread' = [thread EXCEPT ![t] = Idle]

\* A transport thread that is inside on_connection_status.
Callbacks == {"check", "checkConnected", "insert", "report", "tell", "retire", "tellEnd"}

\* Somebody other than the transport's own thread holds a reference to c.
Owned(c) ==
    \/ map = c
    \/ c \in cleanup
    \/ \E t \in Threads : c \in {thread[t].conn, thread[t].old}

(***************************************************************************)
(* Thread t drops its reference to c.  If it was the last one, the         *)
(* connection is destroyed here and its transport joined, unless the       *)
(* transport's thread is inside a callback: then that thread now holds the *)
(* last reference.  Otherwise the transport does not change.               *)
(***************************************************************************)
DropsLast(t, c) ==
    /\ map # c /\ c \notin cleanup
    /\ \A s \in Threads \ {t} : c \notin {thread[s].conn, thread[s].old}
Drops(t, c) ==
    transport' = IF DropsLast(t, c) /\ transport[c] = "idle"
                 THEN [transport EXCEPT ![c] = "none"] ELSE transport

-----------------------------------------------------------------------------
(***************************************************************************)
(* Telling the application.                                                *)
(***************************************************************************)
TellLive(c) == told' = [told EXCEPT ![c].late = @ \/ told[c].ends > 0]
TellEnd(c)  == told' = [told EXCEPT ![c].ends = @ + 1]

\* ReportSessions, with the websocket open.  The session is well founded if
\* the transport of the current connection has become ready.
ReportSessions ==
    confirmed' = IF ~ticket \/ ~connected THEN confirmed
                 ELSE IF map \in ice THEN "alive" ELSE "unfounded"

\* Mutant of Retirable: a connection is retired although the worker stopped.
RetirableStopped(c) == map = c

(***************************************************************************)
(* RetirePeerConnection, one critical section of the map's mutex: c goes   *)
(* from the map to the cleanup queue if it is current and the worker is    *)
(* there to release it, and is left where it is otherwise.  Retirable is   *)
(* what the function returns; the caller reports the end if it is TRUE.    *)
(***************************************************************************)
Retirable(c) == map = c /\ running

\* Mutant of Retire: the connection stays in the map.
RetireKept(c) ==
    IF ~Retirable(c) THEN UNCHANGED <<map, connected, ticket, confirmed, removed, cleanup>>
    ELSE /\ cleanup' = cleanup \cup {c}
         /\ connected' = FALSE
         /\ ticket' = FALSE
         /\ confirmed' = IF ticket THEN "dead" ELSE confirmed
         /\ removed' = removed \cup {c}
         /\ UNCHANGED map

Retire(c) ==
    IF ~Retirable(c) THEN UNCHANGED <<map, connected, ticket, confirmed, removed, cleanup>>
    ELSE /\ cleanup' = cleanup \cup {c}
         /\ map' = None
         /\ connected' = FALSE
         /\ ticket' = FALSE
         /\ confirmed' = IF ticket THEN "dead" ELSE confirmed
         /\ removed' = removed \cup {c}

\* ReleaseAllIceTransmission: ends the transport and joins its thread.
Releasable(c) == transport[c] \in {"none", "idle"}
Release(c) == Releasable(c) /\ transport' = [transport EXCEPT ![c] = "none"]

-----------------------------------------------------------------------------
(***************************************************************************)
(* Steps that any of the three threads takes.  ClearPeerConnections takes  *)
(* the connection out of the map, reports it closed and releases it, in    *)
(* this order; the removal for a user who left does the same.              *)
(***************************************************************************)
RemoveCurrent(t, next) ==
    /\ map' = None
    /\ connected' = FALSE
    /\ ticket' = FALSE
    /\ removed' = IF map = None THEN removed ELSE removed \cup {map}
    /\ thread' = [thread EXCEPT ![t] = IF map = None THEN At(next, None, "idle")
                                       ELSE At("clearTell", map, next)]
    /\ UNCHANGED <<created, confirmed, transport, ice, told, cleanup, msgs, running>>

\* Mutant of ClearTell: the transport is not released.
ClearTellOnly(t) ==
    /\ thread[t].at = "clearTell"
    /\ TellEnd(thread[t].conn)
    /\ thread' = [thread EXCEPT ![t] = At(@.then, None, "idle")]
    /\ UNCHANGED <<map, created, connected, ticket, confirmed, transport, ice, removed, cleanup,
                   msgs, running>>

ClearTell(t) ==
    /\ thread[t].at = "clearTell"
    /\ TellEnd(thread[t].conn)
    /\ Goes(t, "release")
    /\ UNCHANGED <<map, created, connected, ticket, confirmed, transport, ice, removed, cleanup,
                   msgs, running>>

ClearRelease(t) ==
    /\ thread[t].at = "release"
    /\ Release(thread[t].conn)
    /\ thread' = [thread EXCEPT ![t] = At(@.then, None, "idle")]
    /\ UNCHANGED <<map, created, connected, ticket, confirmed, ice, told, removed, cleanup,
                   msgs, running>>

\* The terminal report that follows a successful RetirePeerConnection.
RetireTell(t) ==
    /\ thread[t].at = "tellEnd"
    /\ TellEnd(thread[t].conn)
    /\ IF thread[t].then = "idle" THEN Rests(t) /\ Drops(t, thread[t].conn)
       ELSE Goes(t, thread[t].then) /\ UNCHANGED transport
    /\ UNCHANGED <<map, created, connected, ticket, confirmed, ice, removed, cleanup, msgs,
                   running>>

\* PushIceWorkMsg.  Nobody reads the queue of a worker that has ended.
Push(m) ==
    IF thread["worker"].at = "exited" THEN UNCHANGED msgs
    ELSE Len(msgs) < MaxMsgs /\ msgs' = Append(msgs, m)

-----------------------------------------------------------------------------
(***************************************************************************)
(* The signaling thread.                                                   *)
(***************************************************************************)
SignalIdle == thread["signal"].at = "idle"

SessionTicket ==
    /\ SignalIdle /\ Tickets
    /\ ticket' = TRUE
    /\ connected' = FALSE
    /\ UNCHANGED <<map, created, confirmed, transport, ice, told, removed, cleanup, msgs,
                   running, thread>>

LoginAccepted ==
    /\ SignalIdle
    /\ ReportSessions
    /\ UNCHANGED <<map, created, connected, ticket, transport, ice, told, removed, cleanup,
                   msgs, running, thread>>

\* A join or an offer: ReplaceOrCreatePeerConnection.
Replace ==
    /\ SignalIdle /\ created < MaxConns
    /\ created' = created + 1
    /\ map' = created + 1
    /\ connected' = FALSE
    /\ thread' = [thread EXCEPT !["signal"] =
                    [At("replace", created + 1, "idle") EXCEPT !.old = map]]
    /\ UNCHANGED <<ticket, confirmed, transport, ice, told, removed, cleanup, msgs, running>>

ReleaseReplaced ==
    /\ thread["signal"].at = "replace"
    /\ IF thread["signal"].old = None THEN UNCHANGED transport
       ELSE Release(thread["signal"].old)
    /\ thread' = [thread EXCEPT !["signal"] = At("init", thread["signal"].conn, "idle")]
    /\ UNCHANGED <<map, created, connected, ticket, confirmed, ice, told, removed, cleanup,
                   msgs, running>>

\* connection->Init, which fails for a data-channel connection whose ICE
\* configuration has expired.
InitConnection(ok) ==
    /\ thread["signal"].at = "init"
    /\ LET c == thread["signal"].conn
       IN  \/ /\ ok
              /\ thread' = [thread EXCEPT !["signal"] = At("push", None, "idle")]
              /\ Drops("signal", c)
              /\ UNCHANGED <<map, sessions, confirmed, removed, cleanup>>
           \/ /\ ~ok
              /\ Retire(c)
              /\ IF Retirable(c) THEN Goes("signal", "tellEnd") /\ UNCHANGED transport
                 ELSE Rests("signal") /\ Drops("signal", c)
    /\ UNCHANGED <<created, ice, told, msgs, running>>

\* The message that lets the worker start the transport; an offer also
\* tells the application that the connection is being made.
PushStart(offer) ==
    /\ thread["signal"].at = "push"
    /\ Push("Start")
    /\ IF offer THEN Goes("signal", "tell") ELSE Rests("signal")
    /\ UNCHANGED <<map, created, connected, ticket, confirmed, transport, ice, told, removed,
                   cleanup, running>>

\* "Connecting", told by the handler of the offer, not by the wrapper of the
\* transport's callbacks.
SignalTell ==
    /\ thread["signal"].at = "tell"
    /\ Rests("signal")
    /\ UNCHANGED <<map, created, connected, ticket, confirmed, transport, ice, told, removed,
                   cleanup, msgs, running>>

RemoteLeft ==
    /\ SignalIdle
    /\ Push("Leave")
    /\ UNCHANGED <<map, created, connected, ticket, confirmed, transport, ice, told, removed,
                   cleanup, running, thread>>

SignalLost == SignalIdle /\ RemoveCurrent("signal", "idle")

SignalStep ==
    \/ ReleaseReplaced \/ SignalTell
    \/ ClearTell("signal") \/ ClearRelease("signal") \/ RetireTell("signal")
    \/ \E b \in BOOLEAN : InitConnection(b) \/ PushStart(b)

-----------------------------------------------------------------------------
(***************************************************************************)
(* The ICE worker.                                                         *)
(***************************************************************************)
WorkerIdle == thread["worker"].at = "idle"

TakeCleanup ==
    /\ WorkerIdle
    /\ \E c \in cleanup :
         /\ cleanup' = cleanup \ {c}
         /\ thread' = [thread EXCEPT !["worker"] = At("release", c, "idle")]
    /\ UNCHANGED <<map, created, connected, ticket, confirmed, transport, ice, told, removed,
                   msgs, running>>

WorkerExit ==
    /\ WorkerIdle /\ cleanup = {} /\ ~running
    /\ Goes("worker", "exited")
    /\ msgs' = <<>>
    /\ UNCHANGED <<map, created, connected, ticket, confirmed, transport, ice, told, removed,
                   cleanup, running>>

TakeMsg ==
    /\ WorkerIdle /\ cleanup = {} /\ running /\ msgs # <<>>
    /\ msgs' = Tail(msgs)
    /\ Goes("worker", IF Head(msgs) = "Leave" THEN "leave" ELSE "lookup")
    /\ UNCHANGED <<map, created, connected, ticket, confirmed, transport, ice, told, removed,
                   cleanup, running>>

\* UserLeaveTransmission: the map entry goes first, then the report, then
\* the transport.
WorkerLeave ==
    /\ thread["worker"].at = "leave"
    /\ IF map # None THEN RemoveCurrent("worker", "idle")
       ELSE /\ Rests("worker")
            /\ UNCHANGED <<map, created, connected, ticket, confirmed, transport, ice, told,
                           removed, cleanup, msgs, running>>

\* The message is for whatever connection is current now.
Lookup ==
    /\ thread["worker"].at = "lookup"
    /\ thread' = [thread EXCEPT !["worker"] = IF map = None THEN Idle ELSE At("start", map, "idle")]
    /\ UNCHANGED <<map, created, connected, ticket, confirmed, transport, ice, told, removed,
                   cleanup, msgs, running>>

\* The ICE credentials have expired: "failed" is reported through the managed
\* callback and nothing is started.
CredentialsExpired ==
    /\ thread["worker"].at = "start"
    /\ LET c == thread["worker"].conn
       IN  /\ Retire(c)
           /\ GoesVia("worker", IF Retirable(c) THEN "tellEnd" ELSE "drop", "drop")
    /\ UNCHANGED <<created, transport, ice, told, msgs, running>>

\* A transport that exists is destroyed first, which reports "closed" through
\* the managed callback; then the new one is started.
StartOver ==
    /\ thread["worker"].at = "start"
    /\ LET c == thread["worker"].conn
       IN  IF transport[c] = "none"
           THEN Goes("worker", "launch") /\ UNCHANGED <<map, sessions, confirmed, removed, cleanup>>
           ELSE /\ Retire(c)
                /\ GoesVia("worker", IF Retirable(c) THEN "tellEnd" ELSE "join", "join")
    /\ UNCHANGED <<created, transport, ice, told, msgs, running>>

JoinOld ==
    /\ thread["worker"].at = "join"
    /\ Release(thread["worker"].conn)
    /\ Goes("worker", "launch")
    /\ UNCHANGED <<map, created, connected, ticket, confirmed, ice, told, removed, cleanup,
                   msgs, running>>

\* InitIceTransmission starts the transport's thread or fails, which reports
\* "failed" through the managed callback.
Launch(ok) ==
    /\ thread["worker"].at = "launch"
    /\ LET c == thread["worker"].conn
       IN  IF ok
           THEN /\ transport' = [transport EXCEPT ![c] = "idle"]
                /\ Goes("worker", "drop")
                /\ UNCHANGED <<map, sessions, confirmed, removed, cleanup>>
           ELSE /\ Retire(c)
                /\ GoesVia("worker", IF Retirable(c) THEN "tellEnd" ELSE "drop", "drop")
                /\ UNCHANGED transport
    /\ UNCHANGED <<created, ice, told, msgs, running>>

\* The worker has handled the message.
Drop ==
    /\ thread["worker"].at = "drop"
    /\ Drops("worker", thread["worker"].conn)
    /\ Rests("worker")
    /\ UNCHANGED <<map, created, connected, ticket, confirmed, ice, told, removed, cleanup,
                   msgs, running>>

WorkerStep ==
    \/ TakeCleanup \/ WorkerExit \/ TakeMsg \/ WorkerLeave \/ Lookup
    \/ CredentialsExpired \/ StartOver \/ JoinOld \/ Drop
    \/ ClearTell("worker") \/ ClearRelease("worker") \/ RetireTell("worker")
    \/ \E ok \in BOOLEAN : Launch(ok)

-----------------------------------------------------------------------------
(***************************************************************************)
(* The thread of a transport and the managed callback it calls.            *)
(***************************************************************************)
Steps(c, where) == transport' = [transport EXCEPT ![c] = where]

\* Where a callback ends: the thread rests; or, with the last reference, it
\* destroys its own connection and joins itself, which never returns or
\* throws, and this is as far as the transport gets.
Returns(c) == IF Owned(c) THEN "idle" ELSE "selfJoin"

\* The transport becomes ready ("checkConnected") or makes progress ("check").
\* The callback takes a reference, if there still is a connection.
Progress(c) ==
    /\ transport[c] = "idle" /\ Owned(c)
    /\ \E where \in {"check", "checkConnected"} :
         /\ Steps(c, where)
         /\ ice' = IF where = "check" THEN ice ELSE ice \cup {c}
    /\ UNCHANGED <<map, created, connected, ticket, confirmed, told, removed, cleanup, msgs,
                   running, thread>>

IsCurrent(c) ==
    /\ transport[c] \in {"check", "checkConnected"}
    /\ Steps(c, IF map # c THEN Returns(c)
                ELSE IF transport[c] = "check" THEN "tell" ELSE "insert")
    /\ UNCHANGED <<map, created, connected, ticket, confirmed, ice, told, removed, cleanup,
                   msgs, running, thread>>

InsertConnected(c) ==
    /\ transport[c] = "insert"
    /\ connected' = TRUE
    /\ Steps(c, "report")
    /\ UNCHANGED <<map, created, ticket, confirmed, ice, told, removed, cleanup, msgs, running,
                   thread>>

ReportConnected(c) ==
    /\ transport[c] = "report"
    /\ ReportSessions
    /\ Steps(c, "tell")
    /\ UNCHANGED <<map, created, connected, ticket, ice, told, removed, cleanup, msgs, running,
                   thread>>

CallbackTell(c) ==
    /\ transport[c] = "tell"
    /\ TellLive(c)
    /\ Steps(c, Returns(c))
    /\ UNCHANGED <<map, created, connected, ticket, confirmed, ice, removed, cleanup, msgs,
                   running, thread>>

\* The transport fails or is disconnected.
Terminal(c) ==
    /\ transport[c] = "idle" /\ Owned(c)
    /\ Steps(c, "retire")
    /\ UNCHANGED <<map, created, connected, ticket, confirmed, ice, told, removed, cleanup, msgs,
                   running, thread>>

CallbackRetire(c) ==
    /\ transport[c] = "retire"
    /\ Retire(c)
    /\ Steps(c, IF Retirable(c) THEN "tellEnd" ELSE Returns(c))
    /\ UNCHANGED <<created, ice, told, msgs, running, thread>>

CallbackTellEnd(c) ==
    /\ transport[c] = "tellEnd"
    /\ TellEnd(c)
    /\ Steps(c, Returns(c))
    /\ UNCHANGED <<map, created, connected, ticket, confirmed, ice, removed, cleanup, msgs,
                   running, thread>>

CallbackStep(c) ==
    IsCurrent(c) \/ InsertConnected(c) \/ ReportConnected(c) \/ CallbackTell(c)
    \/ CallbackRetire(c) \/ CallbackTellEnd(c)

-----------------------------------------------------------------------------
(***************************************************************************)
(* The application thread.                                                 *)
(***************************************************************************)
AppIdle == thread["app"].at = "idle"

Leave == AppIdle /\ RemoveCurrent("app", "idle")

DisconnectPeer ==
    /\ AppIdle /\ map # None
    /\ thread' = [thread EXCEPT !["app"] = At("retire", map, "idle")]
    /\ UNCHANGED <<map, created, connected, ticket, confirmed, transport, ice, told, removed,
                   cleanup, msgs, running>>

DisconnectRetire ==
    /\ thread["app"].at = "retire"
    /\ LET c == thread["app"].conn
       IN  /\ Retire(c)
           /\ IF Retirable(c) THEN Goes("app", "tellEnd") /\ UNCHANGED transport
              ELSE Rests("app") /\ Drops("app", c)
    /\ UNCHANGED <<created, ice, told, msgs, running>>

\* Destroy: clear the map, stop and join the worker, close the websocket.
Destroy == AppIdle /\ RemoveCurrent("app", "stop")

StopIceWorker ==
    /\ thread["app"].at = "stop"
    /\ running' = FALSE
    /\ Goes("app", "joinWorker")
    /\ UNCHANGED <<map, created, connected, ticket, confirmed, transport, ice, told, removed,
                   cleanup, msgs>>

JoinIceWorker ==
    /\ thread["app"].at = "joinWorker" /\ thread["worker"].at = "exited"
    /\ Goes("app", "close")
    /\ UNCHANGED <<map, created, connected, ticket, confirmed, transport, ice, told, removed,
                   cleanup, msgs, running>>

\* WsClient::Close returns when no callback executes, and none runs later.
CloseWebsocket ==
    /\ thread["app"].at = "close" /\ SignalIdle
    /\ thread' = [thread EXCEPT !["app"].at = "destroyed", !["signal"].at = "closed"]
    /\ UNCHANGED <<map, created, connected, ticket, confirmed, transport, ice, told, removed,
                   cleanup, msgs, running>>

AppStep ==
    \/ DisconnectRetire \/ StopIceWorker \/ JoinIceWorker \/ CloseWebsocket
    \/ ClearTell("app") \/ ClearRelease("app") \/ RetireTell("app")

-----------------------------------------------------------------------------
Init ==
    /\ map = None /\ created = 0
    /\ connected = FALSE /\ ticket = FALSE /\ confirmed = "none"
    /\ transport = [c \in Conns |-> "none"]
    /\ ice = {} /\ removed = {} /\ cleanup = {}
    /\ told = [c \in Conns |-> [ends |-> 0, late |-> FALSE]]
    /\ msgs = <<>> /\ running = TRUE
    /\ thread = [t \in Threads |-> Idle]

\* The peer is destroyed and the transports that are left have nothing to say.
Over == thread["app"].at = "destroyed" /\ UNCHANGED vars

Next ==
    \/ SessionTicket \/ LoginAccepted \/ Replace \/ RemoteLeft \/ SignalLost \/ SignalStep
    \/ WorkerStep
    \/ \E c \in Conns : Progress(c) \/ Terminal(c) \/ CallbackStep(c)
    \/ Leave \/ DisconnectPeer \/ Destroy \/ AppStep
    \/ Over

Spec == Init /\ [][Next]_vars

\* The steps in which thread t waits for a transport's thread to end.
ReleaseStep(t) ==
    \/ ClearRelease(t)
    \/ t = "signal" /\ ReleaseReplaced
    \/ t = "worker" /\ JoinOld

\* Threads that have something to do go on; nothing is assumed of the server,
\* of the network and of what the application decides.  The release of a
\* transport tells the main loop its callbacks run in to quit, which ends it
\* however many callbacks there were to be: strong fairness.
FairSpec ==
    /\ Spec
    /\ WF_vars(SignalStep) /\ WF_vars(WorkerStep) /\ WF_vars(AppStep)
    /\ \A t \in Threads : SF_vars(ReleaseStep(t))
    /\ \A c \in Conns : WF_vars(CallbackStep(c))

-----------------------------------------------------------------------------
(***************************************************************************)
(* Properties.                                                             *)
(***************************************************************************)
\* The application is told the end of a connection at most once, whoever of
\* the four threads removes it, and only of a connection no longer current.
OneTerminal ==
    \A c \in Conns : told[c].ends <= 1 /\ (told[c].ends = 1 => c \in removed /\ map # c)

\* No connection waits for cleanup once the worker has ended: a terminal
\* callback cannot enqueue after the worker exits.
CleanupServed == thread["worker"].at = "exited" => cleanup = {}

\* Late callbacks are ignored: a status of a connection is never reported
\* after its end.
NoLateStatus == \A c \in Conns : ~told[c].late

\* A transport's own thread never holds the last reference to its
\* connection: it would destroy the connection and join itself.
NeverJoinsItself == \A c \in Conns : transport[c] \in Callbacks => Owned(c)

\* Who removes a connection from the map also reports its end and has its
\* transport stopped: it never stays at that for any of them, as long as no
\* transport's own thread is left with the last reference to its connection.
RemovedIsEnded ==
    []NeverJoinsItself =>
        []<>(\A c \in removed : told[c].ends = 1 /\ transport[c] = "none")
=============================================================================
