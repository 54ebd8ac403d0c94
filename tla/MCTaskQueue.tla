----------------------------- MODULE MCTaskQueue ----------------------------
(***************************************************************************)
(* What must eventually happen, part by part: the task queue with two      *)
(* posting threads and a delay long enough for the worker to sleep while a *)
(* task that is due earlier is posted; and the DTLS handshake of two       *)
(* undisturbed peers over a path that loses datagrams.  part is the one    *)
(* looked at; the other rests.                                             *)
(***************************************************************************)
EXTENDS TaskQueue, DtlsTransport

CONSTANTS p1, p2
TwoPosters == {p1, p2}
NowOrLater == {0, 1, 2}

Undisturbed == {<<m, "nobody">> : m \in {"srtp", "direct", "punch"}}
Resting == <<"punch", "offer">>
ModesLooked == Undisturbed \cup {Resting}

VARIABLE part
bothVars == <<vars, dtVars, part>>

Queue(A) == part = "queue" /\ A /\ UNCHANGED <<dtVars, part>>
Handshake(A) == part = "handshake" /\ A /\ UNCHANGED <<vars, part>>

ProgressInit ==
    /\ Init /\ DtInit
    /\ part \in {"queue", "handshake"}
    /\ part = "queue" <=> <<mode, upset>> = Resting
    /\ part = "queue" => match["offer"]

\* Two peers whose handshake is over and whose tasks have run may rest.
\* (PeerSafety takes the transport's other steps, those of faults.)
ProgressNext ==
    \/ \E p \in Posters : Queue(PostDelayedTask(p)) \/ Queue(PostDelayedTaskAt(p))
    \/ Queue(ClearTasks) \/ Queue(Notify) \/ Queue(Enter) \/ Queue(Resume) \/ Queue(Timeout)
    \/ Queue(TaskReturns) \/ Queue(Spurious) \/ Queue(Stop) \/ Queue(StopNotifies)
    \/ Queue(StopJoins) \/ Queue(Tick) \/ Queue(Over)
    \/ Handshake(DtNext) \/ Handshake(UNCHANGED dtVars)

\* The fairness of both specifications, each for its part.
ProgressSpec ==
    /\ ProgressInit /\ [][ProgressNext]_bothVars
    /\ \A p \in Posters : WF_bothVars(Queue(PostDelayedTaskAt(p)))
    /\ WF_bothVars(Queue(Notify)) /\ WF_bothVars(Queue(WorkerStep))
    /\ WF_bothVars(Queue(StopStep)) /\ WF_bothVars(Queue(Tick))
    /\ \A p \in Peers :
          /\ WF_bothVars(Handshake(Deliver(p))) /\ WF_bothVars(Handshake(TimerTick(p)))
          /\ WF_bothVars(Handshake(PacerTask(p) \/ CcTask(p)))
          /\ WF_bothVars(Handshake(IceProgress(p)))
=============================================================================
