----------------------------- MODULE SignalLogin ----------------------------
(***************************************************************************)
(* What PeerConnection does with the signaling connection                  *)
(* (src/pc/peer_connection.cpp, reconnect_login.h): logging in with a      *)
(* password or a reconnect token, the join that waits for the login, and   *)
(* the ICE servers of the connections built on request of the server.      *)
(*                                                                         *)
(* Two threads: the application, and the thread on which WsClient runs its *)
(* callbacks one after the other.  Each handler has one critical section   *)
(* of signal_status_mutex_ and the rest of its state is its own, so a      *)
(* handler is one step.  WsClient is reduced to what its own module shows: *)
(* it posts statuses and messages of one connection in order, and drops    *)
(* whatever is still queued before it dials the next one.  The server      *)
(* answers logins as it likes within what it promised.  What the handlers  *)
(* do to the connections (ClearPeerConnections, ReportSessions) is in      *)
(* PeerConnection.                                                         *)
(***************************************************************************)
EXTENDS Naturals, Sequences

CONSTANTS
    Sessions,    \* transmission ids the application can ask for
    Adapters,    \* whether there is an on_signal_exchange_
    Lives,       \* how long the server lets a token live
    TurnLives,   \* how long it lets a TURN password live
    MaxLinks,    \* connections of the websocket
    MaxTokens,   \* reconnect tokens of the server
    MaxJobs,     \* queued callbacks
    MaxWire,     \* requests on their way
    MaxMoment    \* bound on the clock

ASSUME LoginAssumption ==
    Adapters \subseteq BOOLEAN /\ Lives \subseteq Nat /\ TurnLives \subseteq Nat
    /\ {MaxLinks, MaxTokens, MaxJobs, MaxWire, MaxMoment} \subseteq Nat

VARIABLES
    signal,    \* signal_status_
    pending,   \* pending_join_transmission_id_
    leaving,   \* leave_
    client,    \* what only the callback thread uses, reconnect_login_ included
    link,      \* the websocket connection: its state and its number
    jobs,      \* callbacks queued by WsClient
    wire,      \* requests on their way to the server
    server,    \* the token it would accept, and what it has issued
    moment     \* wall clock
slVars == <<signal, pending, leaving, client, link, jobs, wire, server, moment>>

NoSession == "none"
NoToken == 0
NoConfig == [until |-> 0, link |-> 0]

\* ReconnectLogin::Clear.
Forget(c) == [c EXCEPT !.token = NoToken, !.until = 0, !.trying = FALSE]

\* ws_transport_->Send: silently nothing unless the connection is open.
Sent(m) == /\ Len(wire) < MaxWire
           /\ wire' = IF link.state = "open" THEN Append(wire, m) ELSE wire

Post(job) == jobs' = Append(jobs, job)
Room == Len(jobs) < MaxJobs

\* The status and, after a failed login, the join that waited for it.
Failed == signal' = "failed" /\ pending' = NoSession

-----------------------------------------------------------------------------
(***************************************************************************)
(* ReconnectLogin, for one identity.                                       *)
(***************************************************************************)
Request(c) == LET k == IF moment >= c.until THEN Forget(c) ELSE c
              IN  [k EXCEPT !.trying = k.token # NoToken]

\* Mutant of Accepted: a reconnect takes over the expiry the server names.
AcceptedExtends(c, reply) ==
    IF reply.until <= moment THEN Forget(c)
    ELSE IF reply.token # NoToken
    THEN [c EXCEPT !.trying = FALSE, !.token = reply.token, !.until = reply.until]
    ELSE IF c.trying /\ reply.again THEN [c EXCEPT !.trying = FALSE, !.until = reply.until]
    ELSE Forget(c)

\* A new token replaces the old one; a reconnect without one keeps it, for no
\* longer than before.
Accepted(c, reply) ==
    IF reply.until <= moment THEN Forget(c)
    ELSE IF reply.token # NoToken
    THEN [c EXCEPT !.trying = FALSE, !.token = reply.token, !.until = reply.until]
    ELSE IF c.trying /\ reply.again
    THEN [c EXCEPT !.trying = FALSE, !.until = IF reply.until < @ THEN reply.until ELSE @]
    ELSE Forget(c)

\* RetryPassword.
Rejected(c) == Forget(c)

-----------------------------------------------------------------------------
(***************************************************************************)
(* The callback thread.  With an adapter, answer is what the application   *)
(* says: go on, I have sent something instead, or fail.                    *)
(***************************************************************************)
Answers == IF client.adapter THEN {"go on", "sent", "fail"} ELSE {"go on"}

\* Login, from callbacks that run with the connection open; c is the client as
\* the caller leaves it.
Login(c, answer) ==
    LET k == IF c.adapter THEN c ELSE Request(c)
        l == [k EXCEPT !.modern = FALSE, !.legacy = NoConfig]
    IN  /\ answer \in Answers
        /\ client' = IF answer = "fail" THEN Forget(l) ELSE l
        /\ IF answer = "go on" THEN Sent([kind |-> "login", token |-> l.token])
           ELSE IF answer = "sent" THEN Sent([kind |-> "login", token |-> NoToken])
           ELSE wire' = wire
        /\ IF answer = "fail" THEN Failed ELSE UNCHANGED <<signal, pending>>

\* on_ws_status_ takes the head of the queue.  WsConnecting is ignored, and the
\* statuses WsFailed, WsClosed and WsServerClosed are never set by WsClient.
Status(s) == jobs # <<>> /\ Head(jobs).kind = s /\ jobs' = Tail(jobs)

OnStatus(s, becomes) ==
    /\ Status(s)
    /\ signal' = becomes
    /\ client' = [client EXCEPT !.open = FALSE]
    /\ UNCHANGED <<pending, leaving, link, wire, server, moment>>

OnWsOpened(answer) ==
    /\ Status("opened")
    /\ Login([client EXCEPT !.open = TRUE], answer)
    /\ UNCHANGED <<leaving, link, server, moment>>

\* on_receive_ws_msg_ asks the adapter first.
Message(kind, answer) == Status(kind) /\ answer \in Answers

\* ExchangeSignal fails.
OnRefused(kind) ==
    /\ Message(kind, "fail")
    /\ client' = Forget(client)
    /\ Failed
    /\ UNCHANGED <<leaving, link, wire, server, moment>>

\* The adapter has consumed the message and sent one of its own.
OnConsumed(kind) ==
    /\ Message(kind, "sent")
    /\ Sent([kind |-> "other"])
    /\ UNCHANGED <<signal, pending, leaving, client, link, server, moment>>

\* ParseLegacyTurnConfig, ParseIceServerConfiguration: credentials named now.
Named(until) == IF until > moment THEN [until |-> until, link |-> link.no] ELSE NoConfig

\* ApplyTurnCredentials: a cache, for old servers only.
ApplyTurnCredentials(c, until) ==
    IF c.modern \/ Named(until) = NoConfig THEN c ELSE [c EXCEPT !.legacy = Named(until)]

\* A login reply that says success: the ICE version is noted, TURN credentials
\* are cached, and the join that waited is sent.
OnLoginAccepted ==
    /\ Message("accepted", "go on")
    /\ LET reply == Head(jobs)
           c == ApplyTurnCredentials([client EXCEPT !.modern = reply.modern], reply.turn)
       IN  client' = IF c.adapter THEN c ELSE Accepted(c, reply)
    /\ signal' = "connected"
    /\ pending' = NoSession
    /\ leaving' = IF pending # NoSession THEN FALSE ELSE leaving
    /\ IF pending # NoSession THEN Sent([kind |-> "join", session |-> pending]) ELSE wire' = wire
    /\ UNCHANGED <<link, server, moment>>

\* A login reply that says no: once, the password is tried instead of a token.
OnLoginRejected ==
    /\ Message("rejected", "go on")
    /\ IF ~client.adapter /\ client.trying
       THEN Login(Rejected(client), "go on")
       ELSE /\ client' = IF client.adapter THEN client ELSE Rejected(client)
            /\ Failed
            /\ UNCHANGED wire
    /\ UNCHANGED <<leaving, link, server, moment>>

\* change_password or revoke_reconnect_credential succeeded for this user.
OnRevoked ==
    /\ Message("revoked", "go on")
    /\ client' = Forget(client)
    /\ UNCHANGED <<signal, pending, leaving, link, wire, server, moment>>

OnTurnCredentials ==
    /\ Message("turn", "go on")
    /\ client' = ApplyTurnCredentials(client, Head(jobs).until)
    /\ UNCHANGED <<signal, pending, leaving, link, wire, server, moment>>

\* Mutant of IceConfig: the cache is used without a look at its age.
IceConfigStale(m) ==
    IF m.ice = "modern" \/ (m.ice = "turn" /\ ~client.modern) THEN Named(m.until)
    ELSE IF m.ice = "none" /\ ~client.modern THEN client.legacy
    ELSE NoConfig

\* BuildConnectionInfo: the ICE servers of a join or an offer are those it
\* names; the cache of an old server stands in for them while it is fresh.
IceConfig(m) ==
    IF m.ice = "modern" \/ (m.ice = "turn" /\ ~client.modern) THEN Named(m.until)
    ELSE IF m.ice = "none" /\ ~client.modern /\ client.legacy.until > moment THEN client.legacy
    ELSE NoConfig

\* A join or an offer of a remote user: without ICE servers, or with none that a
\* forced TURN mode can use, no connection is built.  built is the configuration
\* of the last one; what happens to the connection is in PeerConnection.
OnPeer(relayed) ==
    /\ Message("peer", "go on")
    /\ LET config == IceConfig(Head(jobs))
       IN  client' = IF config # NoConfig /\ relayed THEN [client EXCEPT !.built = config]
                     ELSE client
    /\ UNCHANGED <<signal, pending, leaving, link, wire, server, moment>>

Messages == {"accepted", "rejected", "revoked", "turn", "peer"}

CallbackThread ==
    \/ OnStatus("opening", "connecting") \/ OnStatus("reconnecting", "reconnecting")
    \/ OnStatus("tls", "tls")
    \/ \E answer \in Answers : OnWsOpened(answer)
    \/ \E kind \in Messages : OnRefused(kind) \/ OnConsumed(kind)
    \/ OnLoginAccepted \/ OnLoginRejected \/ OnRevoked \/ OnTurnCredentials
    \/ \E relayed \in BOOLEAN : OnPeer(relayed)

-----------------------------------------------------------------------------
(***************************************************************************)
(* The application.                                                        *)
(***************************************************************************)
\* Sent when logged in; kept, in place of an earlier one, while connecting.
Join(s) ==
    /\ \/ /\ signal = "connected"
          /\ pending' = pending
          /\ Sent([kind |-> "join", session |-> s])
       \/ /\ signal \in {"connecting", "reconnecting"}
          /\ pending' = s
          /\ wire' = wire
    /\ leaving' = FALSE
    /\ UNCHANGED <<signal, client, link, jobs, server, moment>>

\* Mutant of Leave: a queued join is left in the queue.
LeaveQueued ==
    /\ leaving' = TRUE
    /\ IF signal = "connected" THEN Sent([kind |-> "leave"]) ELSE wire' = wire
    /\ UNCHANGED <<signal, pending, client, link, jobs, server, moment>>

\* The first part of Leave; that it then clears the connections is the matter
\* of PeerConnection.
Leave ==
    /\ leaving' = TRUE
    /\ pending' = NoSession
    /\ IF pending = NoSession /\ signal = "connected" THEN Sent([kind |-> "leave"])
       ELSE wire' = wire
    /\ UNCHANGED <<signal, client, link, jobs, server, moment>>

-----------------------------------------------------------------------------
(***************************************************************************)
(* WsClient and the network.  ForceSignalReconnect goes to WsClient unless *)
(* the login has succeeded; otherwise a connection ends by itself.         *)
(***************************************************************************)
LinkEnds ==
    /\ link.state # "down"
    /\ link' = [link EXCEPT !.state = "down"]
    /\ wire' = <<>>
    /\ UNCHANGED <<signal, pending, leaving, client, jobs, server, moment>>

ForceSignalReconnect == signal # "connected" /\ LinkEnds

\* The worker says that it will try again, and after its wait it dials; the
\* callbacks still queued for the old connection are dropped.
WorkerTells ==
    /\ link.state = "down" /\ Room
    /\ \A i \in 1..Len(jobs) : jobs[i].kind # "reconnecting"
    /\ Post([kind |-> "reconnecting"])
    /\ UNCHANGED <<signal, pending, leaving, client, link, wire, server, moment>>

Dial ==
    /\ link.state = "down" /\ link.no < MaxLinks
    /\ link' = [link EXCEPT !.state = "dialing", !.no = @ + 1]
    /\ jobs' = <<[kind |-> "opening"]>>
    /\ UNCHANGED <<signal, pending, leaving, client, wire, server, moment>>

LinkOpens ==
    /\ link.state = "dialing" /\ Room
    /\ link' = [link EXCEPT !.state = "open"]
    /\ Post([kind |-> "opened"])
    /\ UNCHANGED <<signal, pending, leaving, client, wire, server, moment>>

CertificateFails ==
    /\ link.state = "dialing" /\ Room
    /\ link' = [link EXCEPT !.state = "down"]
    /\ Post([kind |-> "tls"])
    /\ UNCHANGED <<signal, pending, leaving, client, wire, server, moment>>

-----------------------------------------------------------------------------
(***************************************************************************)
(* The server.  A token is its number; issued[t] is the end of its life    *)
(* that was named when it was issued.  When a token is accepted, the       *)
(* server may name any time, and may issue a new token.                    *)
(***************************************************************************)
Receives(kind) == link.state = "open" /\ wire # <<>> /\ Head(wire).kind = kind /\ wire' = Tail(wire)

Honoured(t) == t # NoToken => (t = server.token /\ moment < server.issued[t])

ServerAdmits(issue, life, modern, turn) ==
    /\ Receives("login") /\ Room /\ Honoured(Head(wire).token)
    /\ LET token == IF issue THEN Len(server.issued) + 1 ELSE NoToken
           until == moment + life
       IN  /\ issue => Len(server.issued) < MaxTokens
           /\ server' = IF issue THEN [token |-> token, issued |-> Append(server.issued, until)]
                        ELSE server
           /\ Post([kind |-> "accepted", token |-> token, until |-> until, modern |-> modern,
                    turn |-> moment + turn, again |-> Head(wire).token # NoToken])
    /\ UNCHANGED <<signal, pending, leaving, client, link, moment>>

ServerRejects ==
    /\ Receives("login") /\ Room
    /\ Post([kind |-> "rejected"])
    /\ UNCHANGED <<signal, pending, leaving, client, link, server, moment>>

ServerReceives ==
    /\ \E kind \in {"join", "leave", "other"} : Receives(kind)
    /\ UNCHANGED <<signal, pending, leaving, client, link, jobs, server, moment>>

ServerRevokes ==
    /\ link.state = "open" /\ Room /\ server.token # NoToken
    /\ server' = [server EXCEPT !.token = NoToken]
    /\ Post([kind |-> "revoked"])
    /\ UNCHANGED <<signal, pending, leaving, client, link, wire, moment>>

ServerTells(job) ==
    /\ link.state = "open" /\ Room
    /\ Post(job)
    /\ UNCHANGED <<signal, pending, leaving, client, link, wire, server, moment>>

SlPassTime == moment < MaxMoment /\ moment' = moment + 1
          /\ UNCHANGED <<signal, pending, leaving, client, link, jobs, wire, server>>

-----------------------------------------------------------------------------
SlInit ==
    /\ signal = "closed" /\ pending = NoSession /\ leaving = FALSE
    /\ \E adapter \in Adapters :
         client = [adapter |-> adapter, open |-> FALSE, token |-> NoToken, until |-> 0,
                   trying |-> FALSE, modern |-> FALSE, legacy |-> NoConfig, built |-> NoConfig]
    /\ link = [state |-> "down", no |-> 0]
    /\ jobs = <<>> /\ wire = <<>>
    /\ server = [token |-> NoToken, issued |-> <<>>]
    /\ moment = 0

Application == (\E s \in Sessions : Join(s)) \/ Leave
Network == LinkEnds \/ ForceSignalReconnect \/ WorkerTells \/ Dial \/ LinkOpens \/ CertificateFails
Server ==
    \/ \E issue, modern \in BOOLEAN, life \in Lives, turn \in TurnLives :
          ServerAdmits(issue, life, modern, turn)
    \/ ServerRejects \/ ServerReceives \/ ServerRevokes
    \/ \E life \in TurnLives : ServerTells([kind |-> "turn", until |-> moment + life])
    \/ \E life \in TurnLives, ice \in {"modern", "turn", "none"} :
          ServerTells([kind |-> "peer", ice |-> ice, until |-> moment + life])

SlNext == CallbackThread \/ Application \/ Network \/ Server \/ SlPassTime

SlSpec == SlInit /\ [][SlNext]_slVars
-----------------------------------------------------------------------------
(***************************************************************************)
(* Properties.                                                             *)
(***************************************************************************)

\* "one pending join is retained": it is not overlooked by the login that
\* succeeds while Join decides, and it is never one the application has left.
PendingJoinKept ==
    /\ signal = "connected" => pending = NoSession
    /\ pending # NoSession => ~leaving

\* A token is sent only within the life it was issued for, whatever later
\* replies say, and on one connection after it no other: a rejected or revoked
\* token is not tried again, and the password is the end of it.
CredentialUse ==
    [][ \A i \in (Len(wire) + 1)..Len(wire') :
          wire'[i].kind = "login" /\ wire'[i].token # NoToken =>
            /\ moment < server.issued[wire'[i].token]
            /\ Head(jobs).kind = "opened"
      ]_slVars

\* The ICE servers of a connection are fresh, and were named on the signaling
\* connection that asked for it: nothing of an earlier login is used.
IceConfigCurrent ==
    [][client'.built # client.built =>
         client'.built.until > moment /\ client'.built.link = link.no]_slVars
=============================================================================
