---------------------------- MODULE MCSignaling -----------------------------
(***************************************************************************)
(* The signaling connection, part by part: the client with two worker      *)
(* identities, one reconnect under way and one more that must not start;   *)
(* and the logins over three connections, with and without an adapter, a   *)
(* token that lives for one or two moments and TURN credentials for one.   *)
(* part is the one looked at; the other rests.  The steps are listed one   *)
(* by one so that TLC counts how often each is taken.                      *)
(***************************************************************************)
EXTENDS WsClient, SignalLogin

TwoWorkers == {"w1", "w2"}
UriAny == BOOLEAN

VARIABLE part

Client(A) == part = "client" /\ A /\ UNCHANGED <<slVars, part>>
Logins(A) == part = "login" /\ A /\ UNCHANGED <<vars, part>>

SignalingInit ==
    /\ Init /\ SlInit
    /\ part \in {"client", "login"}
    /\ part = "client" => ~client.adapter

ClientNext ==
    \/ \E w \in Workers :
          \/ Client(Publish(w)) \/ Client(Wake(w)) \/ Client(ReConnect(w))
          \/ Client(Finish(w))
    \/ \E t \in Connectors :
          \/ Client(StopPing(t)) \/ Client(JoinPing(t)) \/ Client(CleanupPendingThreads(t))
          \/ Client(JoinPending(t)) \/ Client(JoinIo(t)) \/ Client(InvalidateCallbacks(t))
          \/ Client(Sleep(t)) \/ Client(Recheck(t)) \/ Client(ResetTransport(t))
          \/ Client(ConnectEnter(t)) \/ Client(ConnectStart(t))
          \/ Client(ConnectDial(t)) \/ Client(ConnectDone(t))
    \/ Client(ForceReconnect) \/ Client(Close)
    \/ Client(OnOpen) \/ Client(OnFail) \/ Client(OnClose) \/ Client(OnMessage) \/ Client(OnPong)
    \/ Client(RestartPing) \/ Client(SpawnPing) \/ Client(IoSchedule) \/ Client(IoExit)
    \/ Client(PingSend) \/ Client(PingGivesUp) \/ Client(PingEnd) \/ Client(PingSchedule)
    \/ Client(CallbackTake) \/ Client(CallbackRun) \/ Client(JobReturns)
    \/ \E f \in BOOLEAN : Client(JobReconnects(f))
    \/ Client(JobCloses) \/ Client(CallbackDone) \/ Client(CallbackExit)
    \/ \E t \in Closers :
          \/ Client(ShutdownLock(t)) \/ Client(Terminate(t)) \/ Client(JoinWorkers(t))
          \/ Client(JoinHeartbeat(t)) \/ Client(StopQueue(t)) \/ Client(JoinCallbacks(t))
    \/ Client(Over)

LoginNext ==
    \/ Logins(OnStatus("opening", "connecting")) \/ Logins(OnStatus("reconnecting", "reconnecting"))
    \/ Logins(OnStatus("tls", "tls"))
    \/ Logins(\E answer \in Answers : OnWsOpened(answer))
    \/ \E kind \in Messages : Logins(OnRefused(kind)) \/ Logins(OnConsumed(kind))
    \/ Logins(OnLoginAccepted) \/ Logins(OnLoginRejected) \/ Logins(OnRevoked)
    \/ Logins(OnTurnCredentials) \/ \E relayed \in BOOLEAN : Logins(OnPeer(relayed))
    \/ \E s \in Sessions : Logins(Join(s))
    \/ Logins(Leave)
    \/ Logins(LinkEnds) \/ Logins(ForceSignalReconnect) \/ Logins(WorkerTells)
    \/ Logins(Dial) \/ Logins(LinkOpens) \/ Logins(CertificateFails)
    \/ \E issue, modern \in BOOLEAN, life \in Lives, turn \in TurnLives :
          Logins(ServerAdmits(issue, life, modern, turn))
    \/ Logins(ServerRejects) \/ Logins(ServerReceives) \/ Logins(ServerRevokes)
    \/ \E life \in TurnLives : Logins(ServerTells([kind |-> "turn", until |-> moment + life]))
    \/ \E life \in TurnLives, ice \in {"modern", "turn", "none"} :
          Logins(ServerTells([kind |-> "peer", ice |-> ice, until |-> moment + life]))
    \/ Logins(SlPassTime)

SignalingNext == ClientNext \/ LoginNext

SignalingSpec == SignalingInit /\ [][SignalingNext]_<<vars, slVars, part>>
=============================================================================
