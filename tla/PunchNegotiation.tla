-------------------------- MODULE PunchNegotiation --------------------------
(***************************************************************************)
(* The UDP hole-punching negotiation between the two ends of one ICE       *)
(* session (src/ice/punch_coordinator.cpp, driven by punch_runtime.cpp).   *)
(*                                                                         *)
(*   offer                                   answer                        *)
(*     HELLO  ------------------------------>                              *)
(*            <------------------------------  HELLO                       *)
(*     choose a round, allocate sockets                                    *)
(*     HELLO, PREPARE ---------------------->  check the plan, allocate    *)
(*            <------------------------------  READY                       *)
(*     start probing, START ---------------->  start probing               *)
(*            <------------------------------  STARTED                     *)
(*                                                                         *)
(* The peers exchange authenticated datagrams over a path that loses,      *)
(* duplicates and reorders: net[p] is the set of packets p ever handed to  *)
(* the transport and any of them may be delivered at any time, any number  *)
(* of times or never.  Time is counted in units of the first wait, 200 ms. *)
(*                                                                         *)
(* One peer's state is a record.  The operators named after the code's     *)
(* methods map such a record to its successor, in the order of the code's  *)
(* assignments; field "out" collects what the method hands to hooks.send   *)
(* and is moved to net at the end of the step.                             *)
(***************************************************************************)
EXTENDS Integers

CONSTANTS
    Rounds,       \* the round ids hooks.random_round can draw (0: IsZero)
    Hellos,       \* for each peer, the HELLO snapshots it can begin with
    Waits,        \* waits before the second to fourth retransmission, {400, 800, 800} ms
    MinRemaining, \* reserve + 3000 ms of MakePunchPlan
    MaxTime       \* bound on the clock

(***************************************************************************)
(* A HELLO, as far as the negotiation tells two of them apart: the class   *)
(* of the observed NAT mapping, the mode (with or without a second         *)
(* attempt), the control packet budget and the time left to the deadline   *)
(* (at most 30 s).                                                         *)
(***************************************************************************)
Peers == {"offer", "answer"}
HelloType == [mapping : {"Stable", "Dependent"}, retry : BOOLEAN,
              budget : 1..48, remaining : 1..150]

ASSUME RoundsAssumption == Rounds \subseteq Nat \ {0}
ASSUME HellosAssumption == Hellos \in [Peers -> SUBSET HelloType]
ASSUME WaitsAssumption == Waits \in [1..3 -> Nat \ {0}]
ASSUME TimeAssumption == MinRemaining \in Nat /\ MaxTime \in Nat

VARIABLES peer, net, now
vars == <<peer, net, now>>

Other(p) == IF p = "offer" THEN "answer" ELSE "offer"

States == {"Idle", "Hello", "Allocating", "Preparing", "Ready", "Probing", "Stopped"}
StopReasons == {"timeout", "ineligible", "resources", "conflict", "budget",
                "interface-change", "direct_selected", "disconnect"}

NoMsg    == [kind |-> "None"]
NoHello  == [mapping |-> "None"]
NoPlan   == [anchor |-> "None"]
NoDigest == [empty |-> TRUE]

\* SHA-256 of a payload: equal exactly for equal payloads.
Digest(v) == [sha |-> v]

MinOf(a, b) == IF a <= b THEN a ELSE b

(***************************************************************************)
(* The plan both peers compute from the two HELLOs.  The stable side is    *)
(* the anchor; without one stable and one dependent side, with different   *)
(* modes or with too little time left there is no plan.                    *)
(***************************************************************************)
MakePunchPlan(oh, ah) ==
    IF \/ oh.retry # ah.retry
       \/ oh.mapping = ah.mapping
       \/ MinOf(oh.remaining, ah.remaining) <= MinRemaining
    THEN NoPlan
    ELSE [anchor |-> IF oh.mapping = "Stable" THEN "offer" ELSE "answer",
          budget |-> MinOf(oh.budget, ah.budget),
          offer_hello |-> Digest(oh), answer_hello |-> Digest(ah)]

-----------------------------------------------------------------------------
(***************************************************************************)
(* Sending.                                                                *)
(***************************************************************************)

\* What Stop does to a negotiation that is not stopped yet, after the CANCEL.
Halt(s, why) == [s EXCEPT !.st = "Stopped", !.pend = NoMsg, !.why = why]

\* Hand a packet to the transport, or stop when the packet budget is used up.
Emit(s, m) ==
    IF m = NoMsg \/ s.st = "Stopped" THEN s
    ELSE IF s.attempts >= s.hello.budget THEN Halt(s, "budget")
    ELSE [s EXCEPT !.attempts = @ + 1, !.out = @ \cup {m}]

\* The packet Make builds; the caller's Advance consumes the sequence number.
Packet(s, kind, body) ==
    [kind |-> kind, round |-> IF kind = "Hello" THEN 0 ELSE s.round,
     seq |-> s.seq, body |-> body]
\* Mutant of Advance: the sequence number is reused.
AdvanceNot(s) == s

Advance(s) == [s EXCEPT !.seq = @ + 1]

\* Remember a packet for retransmission and send it for the first time.
Pending(s, m, t) ==
    Emit([s EXCEPT !.pend = m, !.retries = 0, !.retryAt = t + 1], m)

\* End the negotiation; a CANCEL goes out when a round exists and budget is left.
Stop(s, why, notify) ==
    IF s.st = "Stopped" THEN s
    ELSE IF notify /\ s.round # 0 /\ s.attempts < s.hello.budget
    THEN Halt(Emit(Advance(s), Packet(s, "Cancel", [reason |-> why])), why)
    ELSE Halt(s, why)

(***************************************************************************)
(* Preparing and starting.  hooks.prepare either takes the round lease and *)
(* the ports or fails (ok); hooks.start finds the mapping and the base     *)
(* still valid or calls PunchRuntime::Stop (fail names its reason).        *)
(***************************************************************************)
BeginPreparation(s, ok) ==
    LET a == [s EXCEPT !.st = "Allocating", !.pend = NoMsg]
    IN  IF ok THEN a ELSE Stop(a, "resources", TRUE)

\* Mutant of FinishPreparation: the offer does not wait for READY.
FinishPreparationEager(p, s, t) ==
    LET d == [s EXCEPT !.digest = Digest(s.plan)]
        prepare == Packet(d, "Prepare", [plan |-> d.plan])
        ready   == Packet(d, "Ready", [digest |-> d.digest, budget |-> d.plan.budget])
    IN  IF p = "offer"
        THEN Pending(Emit([Advance(d) EXCEPT !.prepare = prepare, !.st = "Probing"],
                          d.hmsg), prepare, t)
        ELSE Pending([Advance(d) EXCEPT !.ready = ready, !.st = "Ready"], ready, t)

FinishPreparation(p, s, t) ==
    LET d == [s EXCEPT !.digest = Digest(s.plan)]
        prepare == Packet(d, "Prepare", [plan |-> d.plan])
        ready   == Packet(d, "Ready", [digest |-> d.digest, budget |-> d.plan.budget])
    IN  IF p = "offer"
        THEN Pending(Emit([Advance(d) EXCEPT !.prepare = prepare, !.st = "Preparing"],
                          d.hmsg), prepare, t)
        ELSE Pending([Advance(d) EXCEPT !.ready = ready, !.st = "Ready"], ready, t)

Start(s, fail) ==
    IF s.st \in {"Probing", "Stopped"} THEN s
    ELSE LET a == [s EXCEPT !.st = "Probing"]
         IN  IF fail = "none" THEN a ELSE Stop(a, fail, TRUE)

-----------------------------------------------------------------------------
(***************************************************************************)
(* Receiving.  A packet is looked at only by a running negotiation before  *)
(* its deadline, for its own round (or for the round a PREPARE proposes to *)
(* an answer that has none), and outside the replay window's "too old".    *)
(***************************************************************************)
Active(s) == s.st \notin {"Idle", "Stopped"}

RoundOk(p, s, m) ==
    \/ m.kind = "Hello"
    \/ m.round = s.round
    \/ m.kind = "Prepare" /\ p = "answer" /\ s.round = 0 /\ s.st = "Hello"

\* ReplayWindow::Accept: 256 sequence numbers and the digest of each.
TooOld(s, m)   == \E x \in s.seen : x.seq >= m.seq + 256
Conflict(s, m) == \E x \in s.seen : x.seq = m.seq /\ x # m
See(s, m)      == [s EXCEPT !.seen = @ \cup {m}]

\* The first HELLO of the remote peer: the offer plans and draws the round.
OnFirstHello(p, s, m, r, ok) ==
    LET h    == [s EXCEPT !.rhello = m.body.hello]
        plan == MakePunchPlan(s.hello, m.body.hello)
    IN  IF p = "answer" THEN Emit(h, h.hmsg)
        ELSE IF plan = NoPlan THEN Stop(h, "ineligible", FALSE)
        ELSE IF r = 0 THEN Stop([h EXCEPT !.plan = plan], "resources", FALSE)
        ELSE BeginPreparation([h EXCEPT !.plan = plan, !.round = r], ok)

\* Mutant of OnRepeatedHello: every HELLO makes the offer draw a round.
OnRepeatedHelloRedraw(p, s, m) ==
    IF p = "offer" THEN [s EXCEPT !.round = CHOOSE r \in Rounds : r # s.round] ELSE s

\* A repeated HELLO solicits the cached PREPARE; a different one is a conflict.
OnRepeatedHello(p, s, m) ==
    IF s.rhello # m.body.hello THEN Stop(s, "conflict", TRUE)
    ELSE IF p = "offer" /\ s.prepare # NoMsg /\ s.st = "Preparing"
    THEN Emit(Emit(s, s.hmsg), s.prepare)
    ELSE s

OnPrepare(s, m, ok) ==
    IF s.plan # NoPlan
    THEN IF s.plan # m.body.plan THEN Stop(s, "conflict", TRUE) ELSE Emit(s, s.ready)
    ELSE IF \/ s.st # "Hello"
            \/ s.rhello = NoHello
            \/ MakePunchPlan(s.rhello, s.hello) # m.body.plan
         THEN s
         ELSE BeginPreparation([s EXCEPT !.round = m.round, !.plan = m.body.plan], ok)

OnReady(s, m, t, fail) ==
    LET start == Packet(s, "Start", [digest |-> s.digest])
    IN  IF m.body.digest # s.digest \/ m.body.budget # s.plan.budget THEN s
        ELSE IF s.st = "Preparing"
        THEN Pending(Start([Advance(s) EXCEPT !.start = start], fail), start, t)
        ELSE IF s.st = "Probing" THEN Emit(s, s.start)
        ELSE s

OnStart(s, m, fail) ==
    LET started == Packet(s, "Started", [digest |-> s.digest])
    IN  IF m.body.digest # s.digest THEN s
        ELSE IF s.st = "Ready"
        THEN Emit(Start([Advance(s) EXCEPT !.pend = NoMsg, !.started = started], fail),
                  started)
        ELSE IF s.st = "Probing" THEN Emit(s, s.started)
        ELSE s

OnStarted(s, m) ==
    IF s.st = "Probing" /\ m.body.digest = s.digest THEN [s EXCEPT !.pend = NoMsg] ELSE s

-----------------------------------------------------------------------------
(***************************************************************************)
(* The actions.  Apply ends a step of p: what it emitted reaches the net.  *)
(***************************************************************************)
Apply(p, s) ==
    /\ peer' = [peer EXCEPT ![p] = [s EXCEPT !.out = {}]]
    /\ net'  = [net EXCEPT ![p] = @ \cup s.out]
    /\ UNCHANGED now

Begin(p, h) ==
    LET hello == Packet(peer[p], "Hello", [hello |-> h])
        s == [Advance(peer[p]) EXCEPT !.st = "Hello", !.hello = h, !.hmsg = hello,
                                      !.deadline = now + h.remaining]
    IN  /\ peer[p].st = "Idle"
        /\ now + h.remaining <= MaxTime
        /\ Apply(p, Pending(s, hello, now))

\* Mutant of Expire: the deadline does not apply while probing.
ExpireNotProbing(p) ==
    /\ Active(peer[p]) /\ peer[p].st # "Probing"
    /\ now >= peer[p].deadline
    /\ Apply(p, Stop(peer[p], "timeout", TRUE))

Expire(p) ==
    /\ Active(peer[p])
    /\ now >= peer[p].deadline
    /\ Apply(p, Stop(peer[p], "timeout", TRUE))

\* Tick while sockets are being opened: hooks.poll_prepare's three answers.
TickPrepare(p, ready) ==
    /\ peer[p].st = "Allocating"
    /\ now < peer[p].deadline
    /\ Apply(p, IF ready THEN FinishPreparation(p, peer[p], now)
                ELSE Stop(peer[p], "resources", TRUE))

RetryDue(s) ==
    /\ Active(s) /\ s.st # "Allocating"
    /\ now < s.deadline
    /\ s.pend # NoMsg /\ now >= s.retryAt

\* if (!Emit(hello_)) return; if (!Emit(pending_)) return; retry_at_ = ...
Retransmit(s, t) ==
    LET h == IF s.pend.kind = "Prepare" THEN Emit(s, s.hmsg) ELSE s
        e == Emit(h, s.pend)
    IN  IF e.st = "Stopped" THEN e
        ELSE [e EXCEPT !.retryAt = t + Waits[s.retries + 1], !.retries = @ + 1]

TickRetry(p) ==
    /\ RetryDue(peer[p])
    /\ peer[p].retries < 3
    /\ Apply(p, Retransmit(peer[p], now))

\* Mutant of TickExhausted: HELLO is not an exception.
TickExhaustedStops(p) ==
    /\ RetryDue(peer[p])
    /\ peer[p].retries = 3
    /\ Apply(p, Stop(peer[p], "timeout", TRUE))

TickExhausted(p) ==
    /\ RetryDue(peer[p])
    /\ peer[p].retries = 3
    /\ Apply(p, IF peer[p].pend.kind = "Hello" THEN [peer[p] EXCEPT !.pend = NoMsg]
                ELSE Stop(peer[p], "timeout", TRUE))

\* What an accepted packet does; s has it recorded in the replay window.
Handle(p, s, m, duplicate, r, ok, fail) ==
    CASE m.kind = "Hello" /\ s.rhello = NoHello  -> OnFirstHello(p, s, m, r, ok)
      [] m.kind = "Hello" /\ s.rhello # NoHello  -> OnRepeatedHello(p, s, m)
      [] m.kind = "Prepare" /\ p = "answer"      -> OnPrepare(s, m, ok)
      [] m.kind = "Ready" /\ p = "offer"         -> OnReady(s, m, now, fail)
      [] m.kind = "Start" /\ p = "answer"        -> OnStart(s, m, fail)
      [] m.kind = "Started" /\ p = "offer"       -> OnStarted(s, m)
      [] m.kind = "Cancel" /\ ~duplicate         -> Stop(s, m.body.reason, FALSE)
      [] OTHER                                   -> s

Receive(p, m, r, ok, fail) ==
    LET s == peer[p]
    IN  /\ Active(s) /\ now < s.deadline
        /\ RoundOk(p, s, m)
        /\ ~TooOld(s, m)
        /\ Apply(p, IF Conflict(s, m) THEN Stop(s, "conflict", TRUE)
                    ELSE Handle(p, See(s, m), m, m \in s.seen, r, ok, fail))

\* PunchRuntime::Stop from its own Tick or from the agent that owns it.
RuntimeStop(p, why) ==
    /\ Active(peer[p])
    /\ Apply(p, Stop(peer[p], why, why = "interface-change"))

\* Tick returns at once before Begin and after Stop.
TickIdle(p) == ~Active(peer[p]) /\ UNCHANGED vars

Clock ==
    /\ now < MaxTime
    /\ now' = now + 1
    /\ UNCHANGED <<peer, net>>

IdlePeer ==
    [st |-> "Idle", hello |-> NoHello, hmsg |-> NoMsg, deadline |-> 0,
     rhello |-> NoHello, plan |-> NoPlan, round |-> 0, digest |-> NoDigest,
     prepare |-> NoMsg, ready |-> NoMsg, start |-> NoMsg, started |-> NoMsg,
     pend |-> NoMsg, retries |-> 0, retryAt |-> 0, attempts |-> 0, seq |-> 1,
     seen |-> {}, out |-> {}, why |-> "none"]

Init ==
    /\ peer = [p \in Peers |-> IdlePeer]
    /\ net  = [p \in Peers |-> {}]
    /\ now  = 0

Step(p) ==
    \/ \E h \in Hellos[p] : Begin(p, h)
    \/ Expire(p)
    \/ \E ready \in BOOLEAN : TickPrepare(p, ready)
    \/ TickIdle(p)
    \/ TickRetry(p)
    \/ TickExhausted(p)
    \/ \E m \in net[Other(p)], r \in Rounds \cup {0}, ok \in BOOLEAN,
          fail \in {"none", "ineligible", "timeout"} : Receive(p, m, r, ok, fail)
    \/ \E why \in {"direct_selected", "interface-change", "disconnect"} : RuntimeStop(p, why)

Next == Clock \/ \E p \in Peers : Step(p)

Spec == Init /\ [][Next]_vars

\* The agent's 10 ms timer keeps calling Tick, and time passes.
Ticks(p) == Expire(p) \/ TickPrepare(p, TRUE) \/ TickRetry(p) \/ TickExhausted(p)
FairSpec == Spec /\ WF_vars(Clock) /\ \A p \in Peers : WF_vars(Ticks(p))
-----------------------------------------------------------------------------
(***************************************************************************)
(* Properties.                                                             *)
(***************************************************************************)
PlanType   == [anchor : {"offer", "answer"}, budget : 1..48,
               offer_hello : [sha : HelloType], answer_hello : [sha : HelloType]]
DigestType == [sha : PlanType]

PacketOf(kind, rounds, bodies) ==
    [kind : {kind}, round : rounds, seq : Nat, body : bodies]
HelloPackets   == PacketOf("Hello", {0}, [hello : HelloType])
PreparePackets == PacketOf("Prepare", Rounds, [plan : PlanType])
ReadyPackets   == PacketOf("Ready", Rounds, [digest : DigestType, budget : 1..48])
StartPackets   == PacketOf("Start", Rounds, [digest : DigestType])
StartedPackets == PacketOf("Started", Rounds, [digest : DigestType])
CancelPackets  == PacketOf("Cancel", Rounds, [reason : StopReasons])
Packets == HelloPackets \cup PreparePackets \cup ReadyPackets
             \cup StartPackets \cup StartedPackets \cup CancelPackets

PacketSets == SUBSET Packets
RetryCount == 0..3
SendCount  == 0..48
Opt(S, none) == S \cup {none}

PeerType ==
    [st : States, hello : Opt(HelloType, NoHello), hmsg : Opt(HelloPackets, NoMsg),
     deadline : Nat, rhello : Opt(HelloType, NoHello), plan : Opt(PlanType, NoPlan),
     round : Opt(Rounds, 0), digest : Opt(DigestType, NoDigest),
     prepare : Opt(PreparePackets, NoMsg), ready : Opt(ReadyPackets, NoMsg),
     start : Opt(StartPackets, NoMsg), started : Opt(StartedPackets, NoMsg),
     pend : Opt(Packets, NoMsg), retries : RetryCount, retryAt : Nat,
     attempts : SendCount, seq : Nat, seen : PacketSets, out : PacketSets,
     why : Opt(StopReasons, "none")]

\* Every field of the two negotiations has the type of its C++ member.
TypeOK ==
    /\ peer \in [Peers -> PeerType]
    /\ net \in [Peers -> SUBSET Packets]
    /\ now \in Nat

(***************************************************************************)
(* When both ends probe they probe the same round under the same plan.     *)
(***************************************************************************)
Agreement ==
    \A p, q \in Peers :
        peer[p].st = "Probing" /\ peer[q].st = "Probing" =>
            /\ peer[p].round = peer[q].round /\ peer[p].round # 0
            /\ peer[p].plan = peer[q].plan

(***************************************************************************)
(* No end sends probes to a peer that has not reserved its resources: the  *)
(* offer probes only after the answer finished preparing this very plan,   *)
(* the answer only after the offer did and has itself started.             *)
(***************************************************************************)
ProbeOnlyPrepared ==
    /\ peer["offer"].st = "Probing" =>
         /\ peer["answer"].ready # NoMsg
         /\ peer["answer"].round = peer["offer"].round
         /\ peer["answer"].plan = peer["offer"].plan
    /\ peer["answer"].st = "Probing" =>
         /\ peer["offer"].start # NoMsg
         /\ peer["offer"].round = peer["answer"].round

(***************************************************************************)
(* Between two ends that run this code a sequence number is never used for *)
(* two packets, and the peer's HELLO and plan never change: nobody stops   *)
(* for a conflict, whatever is lost, repeated or reordered.                *)
(***************************************************************************)
NoConflict == \A p \in Peers : peer[p].why # "conflict"

(***************************************************************************)
(* Running out of HELLO retransmissions is not a timeout: a peer that is   *)
(* still waiting for the first HELLO gives up only at its deadline.        *)
(***************************************************************************)
HelloWaitsForDeadline ==
    [][\A p \in Peers :
          peer[p].st = "Hello" /\ peer'[p].why = "timeout" => now >= peer[p].deadline]_vars

(***************************************************************************)
(* Every negotiation that begins ends, at the latest at its deadline.      *)
(***************************************************************************)
Terminates == \A p \in Peers : peer[p].st # "Idle" ~> peer[p].st = "Stopped"
=============================================================================
