---------------------------- MODULE DtlsTransport ----------------------------
(***************************************************************************)
(* How a media path becomes ready: the DTLS handshake of IceAgent over a   *)
(* path that loses, repeats and reorders datagrams, the component states   *)
(* libnice signals meanwhile, IceTransport that turns them into one        *)
(* availability, and the IceTransportController that tells the pacer and   *)
(* congestion control.  Two peers, so that one's last flight may be lost.  *)
(*                                                                         *)
(* Threads of a peer: the ICE context, which runs every callback of        *)
(* libnice, of the handshake's timer and of received datagrams; the thread *)
(* that adds remote candidates, whose signals are dispatched to the ICE    *)
(* context; the two task queues; the worker that destroys the transport.   *)
(*                                                                         *)
(* libnice and OpenSSL are modelled from how the code uses them: libnice   *)
(* by the states it signals, OpenSSL by its four flights and the rule that *)
(* a peer that has finished answers a repeated last flight.                *)
(***************************************************************************)
EXTENDS Integers, Sequences, FiniteSets

CONSTANTS
    MaxEarly,       \* datagrams kept before StartDtls (4)
    MaxTicks,       \* retransmissions before kDtlsHandshakeTimeoutMs
    MaxLoss,        \* bound on the datagrams lost
    MaxRechecks,    \* bound on the returns from READY to CONNECTED, per peer
    MaxSignals,     \* bound on the signals waiting for the ICE context
    MaxLag,         \* bound on the tasks left to run before the next step of the upset peer
    Cases           \* what to look at: pairs of a mode and of the peer that faults befall

ASSUME TicksAssumption == MaxTicks \in Nat

VARIABLES
    mode,       \* what the SDPs negotiated: "srtp", "direct" (with SRTP) or "punch"
    upset,      \* the peer whose path, socket or owner may fail, or "nobody"
    match,      \* whether the certificate of the peer has the fingerprint of its SDP
    side,       \* the two peers
    net,        \* the flights on their way to a peer
    lost        \* datagrams lost so far

dtVars == <<mode, upset, match, side, net, lost>>

Peers == {"offer", "answer"}
Other(p) == IF p = "offer" THEN "answer" ELSE "offer"

\* Nothing worse happens than lost datagrams, and these leave time to answer.
Calm == upset = "nobody"

Secure == mode \in {"srtp", "direct"}      \* enable_srtp_; "punch" has DTLS without SRTP

-----------------------------------------------------------------------------
(* The controller: UpdateMediaTransportState and its callers. *)

\* mutant: a path that is not ready is taken to need no task
UpdateMediaTransportStateUp(s) ==
    LET ready == s.iceReady /\ (Secure => s.dtlsReady)
    IN [s EXCEPT !.mediaReady = ready,
                 !.pacerTasks = IF ready THEN Append(@, ready) ELSE @,
                 !.ccTasks = IF ready # s.mediaReady THEN Append(@, ready) ELSE @]

UpdateMediaTransportState(s) ==
    LET ready == s.iceReady /\ (Secure => s.dtlsReady)
    IN [s EXCEPT !.mediaReady = ready,
                 !.pacerTasks = Append(@, ready),
                 !.ccTasks = IF ready # s.mediaReady THEN Append(@, ready) ELSE @]

UpdateNetworkAvaliablity(s, available) ==
    UpdateMediaTransportState(
        [s EXCEPT !.iceReady = available, !.dtlsReady = @ /\ available])

\* installed: the SRTP keys could be exported and the sessions built.
InstallSrtp(s, installed) ==
    IF s.dtlsReady \/ ~installed THEN s
    ELSE UpdateMediaTransportState([s EXCEPT !.dtlsReady = TRUE])

-----------------------------------------------------------------------------
(* IceTransport: the component state, its tracker, the status it reports. *)

Report(s, st) == [s EXCEPT !.status = st]

Down == {"disconnected", "failed"}

Track(s, st) == [s EXCEPT !.usable = IF st = "ready" THEN TRUE ELSE @ /\ st \notin Down]

\* What OnIceStateChange does after the tracker (and after StartDtls); usable is
\* what the tracker held before.
Publish(s, st, usable) ==
    Report(IF st = "ready" /\ ~usable THEN UpdateNetworkAvaliablity(s, TRUE)
           ELSE IF st \in Down /\ usable THEN UpdateNetworkAvaliablity(s, FALSE)
           ELSE s, st)

OnIceFailed(s) == IF s.closed THEN s ELSE Publish(Track(s, "failed"), "failed", s.usable)

OnDtlsHandshakeDone(s, installed) ==
    IF ~Secure THEN s
    ELSE LET t == InstallSrtp(s, installed)
         IN IF mode # "direct" THEN t
            ELSE IF ~t.dtlsReady THEN Report(t, "failed")
            ELSE IF s.secureReported THEN t
            ELSE [Report(t, "secure_ready") EXCEPT !.secureReported = TRUE]

-----------------------------------------------------------------------------
(* IceAgent: the handshake.  sent holds the flights the step writes. *)

Gone(s) == s.failed \/ s.disabled \/ s.destroyed

FailDtlsHandshake(s) ==
    LET t == [s EXCEPT !.timer = FALSE, !.failed = TRUE]
    IN IF Gone(s) THEN t ELSE OnIceFailed(t)

\* mutant: a certificate that does not match is only logged
CompleteDtlsHandshakeAny(p, s, installed) ==
    IF s.done \/ Gone(s) THEN s
    ELSE OnDtlsHandshakeDone([s EXCEPT !.verified = TRUE, !.done = TRUE, !.timer = FALSE],
                             installed)

CompleteDtlsHandshake(p, s, installed) ==
    IF s.done \/ Gone(s) THEN s
    ELSE IF ~match[p] THEN FailDtlsHandshake(s)
    ELSE OnDtlsHandshakeDone([s EXCEPT !.verified = TRUE, !.done = TRUE, !.timer = FALSE],
                             installed)

Write(s, flight) == [s EXCEPT !.sent = {flight}]

\* OpenSSL: what flight f does to a peer.
Ssl(p, s, f) ==
    CASE p = "offer"  /\ s.ssl = "await 2" /\ f = 2 -> Write([s EXCEPT !.ssl = "await 4"], 3)
      [] p = "offer"  /\ s.ssl = "await 4" /\ f = 4 -> [s EXCEPT !.ssl = "finished"]
      [] p = "answer" /\ s.ssl = "await 1" /\ f = 1 -> Write([s EXCEPT !.ssl = "await 3"], 2)
      [] p = "answer" /\ s.ssl = "await 3" /\ f = 3 -> Write([s EXCEPT !.ssl = "finished"], 4)
      [] p = "answer" /\ s.ssl = "finished" /\ f = 3 -> Write(s, 4)
      [] OTHER -> s

\* What a peer repeats when its timer runs out.
LastFlight(s) ==
    CASE s.ssl = "await 2" -> {1}
      [] s.ssl = "await 3" -> {2}
      [] s.ssl = "await 4" -> {3}
      [] OTHER -> {}

\* A datagram that could not be written is an error to OpenSSL, not a loss.
Written(s, ok) == s.sent = {} \/ ok
Unwritten(s) == [s EXCEPT !.sent = {}]

StartDtls(p, s, ok) ==
    IF Gone(s) \/ s.started THEN s
    ELSE LET b == [s EXCEPT !.started = TRUE, !.early = 0,
                            !.ssl = IF p = "offer" THEN "await 2" ELSE "await 1"]
             t == IF p = "offer" THEN Write(b, 1) ELSE IF s.early > 0 THEN Ssl(p, b, 1) ELSE b
         IN IF Written(t, ok) THEN [t EXCEPT !.timer = TRUE, !.left = MaxTicks]
            ELSE FailDtlsHandshake(Unwritten(t))

\* The path that is looked at is the current one, whatever state was signalled.
MaybeStartDtls(p, s, ok) ==
    IF s.started \/ Gone(s) \/ s.nice \notin {"connected", "ready"} \/ ~s.pair THEN s
    ELSE StartDtls(p, s, ok)

OnIceStateChange(p, s, st, ok) ==
    IF s.closed THEN s
    ELSE LET t == Track(s, st)
         IN Publish(IF st = "ready" THEN StartDtls(p, t, ok) ELSE t, st, s.usable)

\* mutant: a late change of state may speak for a failed connection
OnNiceStateChangedLate(p, s, st, ok) ==
    LET t == MaybeStartDtls(p, s, ok)
        u == IF st = "failed" THEN [t EXCEPT !.failed = TRUE, !.timer = FALSE] ELSE t
    IN OnIceStateChange(p, u, st, ok)

OnNiceStateChanged(p, s, st, ok) ==
    LET t == MaybeStartDtls(p, s, ok)
        u == IF st = "failed" THEN [t EXCEPT !.failed = TRUE, !.timer = FALSE] ELSE t
    IN IF t.failed THEN t ELSE OnIceStateChange(p, u, st, ok)

\* mutant: what comes after completion is left unread
ReceiveOnce(p, s, f, ok, installed) ==
    IF s.done THEN s
    ELSE LET t == Ssl(p, s, f)
         IN IF ~Written(t, ok) THEN FailDtlsHandshake(Unwritten(t))
            ELSE IF t.ssl = "finished" THEN CompleteDtlsHandshake(p, t, installed)
            ELSE t

\* SSL_do_handshake, or SSL_read once done, which answers a repeated flight.
Receive(p, s, f, ok, installed) ==
    LET t == Ssl(p, s, f)
    IN IF ~Written(t, ok) THEN FailDtlsHandshake(Unwritten(t))
       ELSE IF t.ssl = "finished" THEN CompleteDtlsHandshake(p, t, installed)
       ELSE t

\* OnNiceRecv: a ClientHello that comes before StartDtls is kept.
OnNiceRecv(p, s, f, ok, installed) ==
    IF Gone(s) THEN s
    ELSE IF s.started THEN Receive(p, s, f, ok, installed)
    ELSE [s EXCEPT !.early = IF @ < MaxEarly THEN @ + 1 ELSE @]

\* The callback of the timer, which has stopped itself.
TimerFailed(s) ==
    LET t == [s EXCEPT !.timer = FALSE]
    IN IF s.disabled \/ s.destroyed \/ s.done THEN t ELSE FailDtlsHandshake(t)

\* DtlsHandshakeTimer::Tick: the deadline, or another retransmission and Refresh.
HandshakeTick(s, ok) ==
    IF s.left = 0 \/ (LastFlight(s) # {} /\ ~ok) THEN TimerFailed(s)
    ELSE [s EXCEPT !.left = IF Calm THEN @ ELSE @ - 1, !.sent = LastFlight(s)]

-----------------------------------------------------------------------------
(* The steps.  A step of a peer may write one flight to the other. *)

Advance(p, s, inbox) ==
    /\ side' = [side EXCEPT ![p] = [s EXCEPT !.sent = {}, !.left = IF s.timer THEN @ ELSE 0]]
    /\ net' = [net EXCEPT ![p] = inbox, ![Other(p)] = @ \cup s.sent]
    /\ UNCHANGED <<mode, upset, match>>

Step(p, s) == Advance(p, s, net[p])

\* A peer is looked at while its task queues have not fallen too far behind,
\* and until it stops listening.
Looked(p) ==
    /\ ~side[p].disabled
    /\ Len(side[p].pacerTasks) + Len(side[p].ccTasks) <= IF p = upset THEN MaxLag ELSE 0

\* Whether a write, or the installation of the keys, succeeds.
Fate(p) == IF p = upset THEN BOOLEAN ELSE {TRUE}

\* States libnice moves a component to.  Only its own timers declare a failure;
\* the thread that adds candidates may leave READY and come back to it.
NiceSteps(st) ==
    CASE st = "connecting" -> {"connected"}
      [] st = "connected"  -> {"ready"}
      [] st = "ready"      -> {"connected"}
      [] OTHER -> {}

Rechecks(s, st) == [s EXCEPT !.nice = st, !.pair = @ \/ st = "ready",
                             !.rechecks = IF s.nice = "ready" /\ st # "failed" THEN @ + 1 ELSE @]

MayMove(p, s, st) ==
    Looked(p) /\ (s.nice = "ready" /\ st # "failed" => p = upset /\ s.rechecks < MaxRechecks)

\* libnice signals on the ICE context: the callback runs at once.
NiceState(p) ==
    \E st \in NiceSteps(side[p].nice) \cup (IF p # upset \/ side[p].nice = "failed" THEN {} ELSE {"failed"}),
       ok \in Fate(p) :
        LET s == Rechecks(side[p], st)
        IN /\ MayMove(p, side[p], st)
           /\ Step(p, OnNiceStateChanged(p, s, st, ok))
           /\ UNCHANGED lost

\* Signals emitted while candidates are added are dispatched to the context.
NiceStateElsewhere(p) ==
    \E st \in NiceSteps(side[p].nice) :
        /\ side[p].nice \in {"connected", "ready"}
        /\ MayMove(p, side[p], st)
        /\ Len(side[p].signals) < MaxSignals
        /\ Step(p, [Rechecks(side[p], st) EXCEPT !.signals = Append(@, st)])
        /\ UNCHANGED lost

DispatchIceCallback(p) ==
    \E ok \in Fate(p) :
        LET s == [side[p] EXCEPT !.signals = Tail(@)]
        IN /\ side[p].signals # <<>> /\ ~side[p].destroyed
           /\ Step(p, IF s.disabled \/ s.destroyed THEN s
                      ELSE OnNiceStateChanged(p, s, Head(side[p].signals), ok))
           /\ UNCHANGED lost

OnNiceSelectedPair(p) ==
    \E ok \in Fate(p) :
        LET s == [side[p] EXCEPT !.pair = TRUE]
        IN /\ ~side[p].pair /\ side[p].nice = "connected" /\ Looked(p)
           /\ Step(p, MaybeStartDtls(p, s, ok))
           /\ UNCHANGED lost

\* A datagram arrives.  Its copies are those a retransmission sends.
Deliver(p) ==
    \E f \in net[p], ok \in Fate(p), installed \in Fate(p) :
        /\ Looked(p)
        /\ Advance(p, OnNiceRecv(p, side[p], f, ok, installed), net[p] \ {f})
        /\ UNCHANGED lost

Lose(p) ==
    \E f \in net[p] :
        /\ lost < MaxLoss /\ Looked(p)
        /\ lost' = lost + 1
        /\ net' = [net EXCEPT ![p] = @ \ {f}]
        /\ UNCHANGED <<mode, upset, match, side>>

TimerTick(p) ==
    \E ok \in Fate(p) :
        /\ side[p].timer /\ ~side[p].destroyed /\ (side[p].disabled \/ Looked(p))
        /\ Step(p, HandshakeTick(side[p], ok))
        /\ UNCHANGED lost

PacerTask(p) ==
    /\ side[p].pacerTasks # <<>>
    /\ Step(p, [side[p] EXCEPT !.pacerReady = Head(side[p].pacerTasks), !.pacerTasks = Tail(@)])
    /\ UNCHANGED lost

CcTask(p) ==
    /\ side[p].ccTasks # <<>>
    /\ Step(p, [side[p] EXCEPT !.ccReady = Head(side[p].ccTasks), !.ccTasks = Tail(@)])
    /\ UNCHANGED lost

-----------------------------------------------------------------------------
(* DestroyIceTransmission of the worker, and the closing of the ICE context. *)

CloseTransport(s)  == Report([s EXCEPT !.closed = TRUE], "closed")
StopSending(s)     == [s EXCEPT !.disabled = TRUE]
DestroyAgent(s)    == [s EXCEPT !.pacerTasks = <<>>, !.ccTasks = <<>>,
                                !.destroyed = TRUE, !.timer = FALSE]

\* IceTransport reports its end and stops the agent's writes; the task queues
\* are shut down, the ICE context is closed and joined.
DestroyIceTransmission(p) ==
    /\ p = upset
    /\ LET s == side[p]
       IN \/ ~s.closed /\ Step(p, CloseTransport(s))
          \/ s.closed /\ ~s.disabled /\ Step(p, StopSending(s))
          \/ s.disabled /\ ~s.destroyed /\ Step(p, DestroyAgent(s))
    /\ UNCHANGED lost

NewSide == [
    nice |-> "connecting", pair |-> FALSE, rechecks |-> 0, signals |-> <<>>,
    started |-> FALSE, done |-> FALSE, verified |-> FALSE, failed |-> FALSE,
    ssl |-> "none", early |-> 0, timer |-> FALSE, left |-> 0, sent |-> {},
    usable |-> FALSE, iceReady |-> FALSE, dtlsReady |-> FALSE, mediaReady |-> FALSE,
    pacerTasks |-> <<FALSE>>, pacerReady |-> FALSE, ccTasks |-> <<>>, ccReady |-> FALSE,
    status |-> "none", secureReported |-> FALSE,
    closed |-> FALSE, disabled |-> FALSE, destroyed |-> FALSE]

DtInit ==
    /\ \E c \in Cases : mode = c[1] /\ upset = c[2]
    /\ match \in {m \in [Peers -> BOOLEAN] : \A p \in Peers \ {upset} : m[p]}
    /\ side = [p \in Peers |-> NewSide]
    /\ net = [p \in Peers |-> {}]
    /\ lost = 0

DtNext ==
    \E p \in Peers :
        \/ NiceState(p) \/ NiceStateElsewhere(p) \/ Lose(p)
        \/ DispatchIceCallback(p) \/ OnNiceSelectedPair(p) \/ Deliver(p) \/ TimerTick(p)
        \/ PacerTask(p) \/ CcTask(p)
        \/ DestroyIceTransmission(p)

\* libnice finds a pair and nominates it when the path works, and what it
\* signals is dispatched.
IceProgress(p) ==
    DispatchIceCallback(p) \/ OnNiceSelectedPair(p) \/ (side[p].nice # "ready" /\ NiceState(p))

\* The main loop of the ICE context and the task queues run what they are given.
DtFairness ==
    \A p \in Peers :
        /\ WF_dtVars(Deliver(p)) /\ WF_dtVars(TimerTick(p))
        /\ WF_dtVars(PacerTask(p) \/ CcTask(p))
        /\ WF_dtVars(IceProgress(p))

DtSpec == DtInit /\ [][DtNext]_dtVars /\ DtFairness

-----------------------------------------------------------------------------
\* Media flows only over a path that ICE holds usable, and under SRTP only to a
\* peer whose certificate had the fingerprint of its SDP; never over a
\* connection whose handshake has failed.  A transport that is being destroyed
\* no longer hears of its path.
MediaIsFounded ==
    \A p \in Peers : side[p].mediaReady /\ ~side[p].closed =>
        /\ ~side[p].failed
        /\ side[p].usable
        /\ Secure => side[p].verified /\ match[p]

\* Once the task queues have run what was posted, the pacer and congestion
\* control believe of the path what the controller decided last.
QueuesAgree ==
    \A p \in Peers :
        /\ side[p].pacerTasks = <<>> /\ ~side[p].destroyed => side[p].pacerReady = side[p].mediaReady
        /\ side[p].ccTasks = <<>> /\ ~side[p].destroyed => side[p].ccReady = side[p].mediaReady

\* A transport that has reported the failure of its agent reports nothing else
\* but its end.  (The failure to install SRTP under a direct session is reported
\* too, and is not a failure of the agent.)
FailedIsFinal ==
    [][\A p \in Peers : side[p].failed /\ side[p].status = "failed"
                          => side'[p].status \in {"failed", "closed"}]_dtVars

\* As long as nothing worse happens than the loss of some datagrams, both peers
\* finish: the last flight, which no timer repeats, is sent again on demand.
\* Then media may flow at both.
HandshakeCompletes ==
    Calm => <>[](\A p \in Peers : side[p].done /\ side[p].mediaReady)
=============================================================================
