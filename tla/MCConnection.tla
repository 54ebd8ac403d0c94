---------------------------- MODULE MCConnection ----------------------------
(***************************************************************************)
(* A connection, part by part: its life at the PeerConnection, with two    *)
(* connections of which one may replace the other and two queued messages; *)
(* and the transport below it, with the faults of the offer under SRTP and *)
(* of the answer in a direct session.  part is the one looked at; the      *)
(* other rests.  The steps are listed one by one so that TLC counts how    *)
(* often each is taken.                                                    *)
(***************************************************************************)
EXTENDS PeerConnection, DtlsTransport

ModesAndFaults == {<<"punch", "nobody">>, <<"srtp", "offer">>, <<"direct", "answer">>}

VARIABLE part

Peer(A) == part = "peer" /\ A /\ UNCHANGED <<dtVars, part>>
Transport(A) == part = "transport" /\ A /\ UNCHANGED <<vars, part>>

ConnectionInit ==
    /\ Init /\ DtInit
    /\ part \in {"peer", "transport"}
    /\ part = "peer" => mode = "punch"

PeerNext ==
    \/ Peer(SessionTicket) \/ Peer(LoginAccepted) \/ Peer(Replace) \/ Peer(RemoteLeft)
    \/ Peer(SignalLost) \/ Peer(ReleaseReplaced) \/ Peer(SignalTell)
    \/ \E b \in BOOLEAN : Peer(InitConnection(b)) \/ Peer(PushStart(b))
    \/ Peer(ClearTell("signal")) \/ Peer(ClearRelease("signal")) \/ Peer(RetireTell("signal"))
    \/ Peer(ClearTell("worker")) \/ Peer(ClearRelease("worker")) \/ Peer(RetireTell("worker"))
    \/ Peer(ClearTell("app")) \/ Peer(ClearRelease("app")) \/ Peer(RetireTell("app"))
    \/ Peer(TakeCleanup) \/ Peer(WorkerExit) \/ Peer(TakeMsg) \/ Peer(WorkerLeave)
    \/ Peer(Lookup) \/ Peer(CredentialsExpired) \/ Peer(StartOver) \/ Peer(JoinOld)
    \/ Peer(Drop) \/ \E ok \in BOOLEAN : Peer(Launch(ok))
    \/ \E c \in Conns :
          \/ Peer(Progress(c)) \/ Peer(Terminal(c)) \/ Peer(IsCurrent(c))
          \/ Peer(InsertConnected(c)) \/ Peer(ReportConnected(c)) \/ Peer(CallbackTell(c))
          \/ Peer(CallbackRetire(c)) \/ Peer(CallbackTellEnd(c))
    \/ Peer(Leave) \/ Peer(DisconnectPeer) \/ Peer(Destroy) \/ Peer(DisconnectRetire)
    \/ Peer(StopIceWorker) \/ Peer(JoinIceWorker) \/ Peer(CloseWebsocket)
    \/ Peer(Over)

\* A transport whose datagrams and tasks have all been dealt with rests.
TransportNext ==
    \/ \E p \in Peers :
          \/ Transport(NiceState(p)) \/ Transport(NiceStateElsewhere(p)) \/ Transport(Lose(p))
          \/ Transport(DispatchIceCallback(p)) \/ Transport(OnNiceSelectedPair(p))
          \/ Transport(Deliver(p)) \/ Transport(TimerTick(p))
          \/ Transport(PacerTask(p)) \/ Transport(CcTask(p))
          \/ Transport(DestroyIceTransmission(p))
    \/ Transport(UNCHANGED dtVars)

ConnectionNext == PeerNext \/ TransportNext

ConnectionSpec == ConnectionInit /\ [][ConnectionNext]_<<vars, dtVars, part>>
=============================================================================
