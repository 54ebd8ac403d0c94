----------------------------- MODULE MCEndings ------------------------------
(***************************************************************************)
(* What must come to its end, part by part: the signaling client, with one *)
(* reconnect under way and one more that must not start, and a server that *)
(* accepts, refuses or closes; and the connections of a peer, of which one *)
(* may replace the other.  part is the one looked at; the other rests.     *)
(***************************************************************************)
EXTENDS WsClient

CONSTANTS MaxConns, MaxMsgs, Tickets

TwoWorkers == {"w1", "w2"}
UriGood == {TRUE}

VARIABLES map, created, connected, ticket, confirmed, transport, ice, removed, cleanup, told,
          msgs, thread, peerRunning, part

Peer == INSTANCE PeerConnection WITH running <- peerRunning

peerVars == <<map, created, connected, ticket, confirmed, transport, ice, removed, cleanup,
              told, msgs, thread, peerRunning>>
allVars  == <<vars, peerVars, part>>

Client(A) == part = "client" /\ A /\ UNCHANGED <<peerVars, part>>
Connections(A) == part = "peer" /\ A /\ UNCHANGED <<vars, part>>

EndingsInit == Init /\ Peer!Init /\ part \in {"client", "peer"}

EndingsNext == Client(Next) \/ Connections(Peer!Next)

\* The fairness of both specifications, each for its part.
EndingsSpec ==
    /\ EndingsInit /\ [][EndingsNext]_allVars
    /\ \A w \in Workers : WF_allVars(Client(WorkerStep(w)))
    /\ WF_allVars(Client(AppStep)) /\ WF_allVars(Client(IoStep))
    /\ WF_allVars(Client(OnOpen \/ OnFail)) /\ WF_allVars(Client(PingStep))
    /\ WF_allVars(Client(CallbackStep))
    /\ \A t \in Closers : WF_allVars(Client(Shutdown(t)))
    /\ WF_allVars(Connections(Peer!SignalStep)) /\ WF_allVars(Connections(Peer!WorkerStep))
    /\ WF_allVars(Connections(Peer!AppStep))
    /\ \A t \in Peer!Threads : SF_allVars(Connections(Peer!ReleaseStep(t)))
    /\ \A c \in Peer!Conns : WF_allVars(Connections(Peer!CallbackStep(c)))

\* Who removes a connection from the map also reports its end and has its
\* transport stopped, unless a transport's thread is left with the last
\* reference to its own connection.
RemovedIsEnded == Peer!RemovedIsEnded
=============================================================================
