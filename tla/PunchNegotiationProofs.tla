----------------------- MODULE PunchNegotiationProofs -----------------------
(***************************************************************************)
(* Proofs about PunchNegotiation, for all rounds, HELLOs, waits and times. *)
(***************************************************************************)
EXTENDS PunchNegotiation, TLAPS

(***************************************************************************)
(* Keeps: the fields neither Emit nor Stop touches.  Mild: what any chain  *)
(* of Emit and Stop may do to a peer besides sending.                      *)
(***************************************************************************)
Keeps(s, e) ==
    /\ e.hello = s.hello /\ e.hmsg = s.hmsg /\ e.deadline = s.deadline
    /\ e.rhello = s.rhello /\ e.plan = s.plan /\ e.round = s.round
    /\ e.digest = s.digest /\ e.prepare = s.prepare /\ e.ready = s.ready
    /\ e.start = s.start /\ e.started = s.started
    /\ e.retries = s.retries /\ e.retryAt = s.retryAt

Mild(s, e) ==
    /\ e \in PeerType
    /\ Keeps(s, e)
    /\ e.st \in {s.st, "Stopped"}
    /\ e.pend \in {s.pend, NoMsg}

LEMMA HaltFacts ==
    ASSUME NEW s \in PeerType, NEW why \in StopReasons
    PROVE  Mild(s, Halt(s, why)) /\ Halt(s, why).out = s.out
                                 /\ Halt(s, why).st = "Stopped"
<1> DEFINE h == Halt(s, why)
<1>1. h = [s EXCEPT !.st = "Stopped", !.pend = NoMsg, !.why = why]
  BY DEF Halt
<1>2. "Stopped" \in States /\ why \in Opt(StopReasons, "none") /\ NoMsg \in Opt(Packets, NoMsg)
  BY DEF States, Opt
<1>2a. h \in PeerType
  BY ZenonT(40), <1>1, <1>2 DEF PeerType
<1>3. Keeps(s, h)
  BY <1>1 DEF PeerType, Keeps
<1>4. h.st = "Stopped" /\ h.pend = NoMsg /\ h.out = s.out
  BY <1>1 DEF PeerType
<1> QED BY <1>2a, <1>3, <1>4 DEF Mild

LEMMA EmitFacts ==
    ASSUME NEW s \in PeerType, NEW m \in Opt(Packets, NoMsg), s.hello \in HelloType
    PROVE  /\ Mild(s, Emit(s, m))
           /\ Emit(s, m).out \subseteq s.out \cup ({m} \ {NoMsg})
<1>1. CASE m = NoMsg \/ s.st = "Stopped"
  BY <1>1 DEF Mild, Keeps, Emit
<1>2. CASE ~(m = NoMsg \/ s.st = "Stopped") /\ s.attempts >= s.hello.budget
  <2>1. Emit(s, m) = Halt(s, "budget")
    BY <1>2 DEF Emit
  <2>2. "budget" \in StopReasons
    BY DEF StopReasons
  <2> QED BY <2>1, <2>2, HaltFacts
<1>3. CASE ~(m = NoMsg \/ s.st = "Stopped") /\ ~(s.attempts >= s.hello.budget)
  <2>1. Emit(s, m) = [s EXCEPT !.attempts = s.attempts + 1, !.out = s.out \cup {m}]
    BY <1>3 DEF Emit
  <2>2. s.attempts + 1 \in SendCount
    BY <1>3 DEF HelloType, PeerType, SendCount
  <2>3. s.out \cup {m} \in PacketSets
    BY <1>3 DEF PeerType, PacketSets, Opt
  <2>4. Emit(s, m) \in PeerType
    BY <2>1, <2>2, <2>3 DEF PeerType
  <2>5. Keeps(s, Emit(s, m))
    BY <2>1 DEF PeerType, Keeps
  <2>6. Emit(s, m).st = s.st /\ Emit(s, m).pend = s.pend /\ Emit(s, m).out = s.out \cup {m}
    BY <2>1 DEF PeerType
  <2> QED BY <1>3, <2>4, <2>5, <2>6 DEF Mild
<1> QED BY <1>1, <1>2, <1>3

(***************************************************************************)
(* Advance only consumes a sequence number.                                *)
(***************************************************************************)
LEMMA AdvanceFacts ==
    ASSUME NEW s \in PeerType
    PROVE  /\ Mild(s, Advance(s)) /\ Advance(s).out = s.out
           /\ Advance(s).st = s.st /\ Advance(s).pend = s.pend
<1>1. Advance(s) = [s EXCEPT !.seq = s.seq + 1]
  BY DEF Advance
<1>2. s.seq + 1 \in Nat
  BY DEF PeerType
<1>3. Advance(s) \in PeerType
  BY <1>1, <1>2 DEF PeerType
<1>4. Keeps(s, Advance(s)) /\ Advance(s).out = s.out
        /\ Advance(s).st = s.st /\ Advance(s).pend = s.pend
  BY <1>1 DEF PeerType, Keeps
<1> QED BY <1>3, <1>4 DEF Mild

LEMMA MildTrans ==
    ASSUME NEW s, NEW t, NEW u, Mild(s, t), Mild(t, u)
    PROVE  Mild(s, u)
BY DEF Mild, Keeps

(***************************************************************************)
(* Stop is Mild, ends in Stopped and sends at most a CANCEL of the round.  *)
(***************************************************************************)
LEMMA StopFacts ==
    ASSUME NEW s \in PeerType, NEW why \in StopReasons, NEW notify \in BOOLEAN,
           s.hello \in HelloType
    PROVE  /\ Mild(s, Stop(s, why, notify))
           /\ Stop(s, why, notify).st = "Stopped"
           /\ Stop(s, why, notify).out \subseteq s.out \cup CancelPackets
<1>1. CASE s.st = "Stopped"
  BY <1>1 DEF Stop, Mild, Keeps
<1>2. CASE s.st # "Stopped" /\ ~(notify /\ s.round # 0 /\ s.attempts < s.hello.budget)
  <2>1. Stop(s, why, notify) = Halt(s, why)
    BY <1>2 DEF Stop
  <2> QED BY <2>1, HaltFacts
<1>3. CASE s.st # "Stopped" /\ notify /\ s.round # 0 /\ s.attempts < s.hello.budget
  <2> DEFINE m == Packet(s, "Cancel", [reason |-> why])
             a == Advance(s)
             e == Emit(a, m)
  <2>1. Stop(s, why, notify) = Halt(e, why)
    BY <1>3 DEF Stop
  <2>2. m \in CancelPackets
    <3>1. s.round \in Rounds /\ s.seq \in Nat
      BY <1>3 DEF PeerType, Opt
    <3> QED BY <3>1 DEF Packet, CancelPackets, PacketOf
  <2>3. m \in Opt(Packets, NoMsg)
    BY <2>2 DEF Packets, Opt
  <2>4. Mild(s, a) /\ a.out = s.out /\ a \in PeerType /\ a.hello \in HelloType
    BY AdvanceFacts DEF Mild, Keeps
  <2>5. Mild(a, e) /\ e.out \subseteq s.out \cup {m} /\ e \in PeerType
    BY <2>3, <2>4, EmitFacts DEF Mild
  <2>6. Mild(e, Halt(e, why)) /\ Halt(e, why).out = e.out /\ Halt(e, why).st = "Stopped"
    BY <2>5, HaltFacts
  <2>7. Mild(s, Halt(e, why))
    BY <2>4, <2>5, <2>6, MildTrans
  <2> QED BY <2>1, <2>2, <2>5, <2>6, <2>7
<1> QED BY <1>1, <1>2, <1>3

-----------------------------------------------------------------------------
(***************************************************************************)
(* The inductive invariant.  Shape: what a peer of each role holds in each *)
(* state.  Own: the packets it has built.  Link: what one peer's progress  *)
(* says about the other's.                                                 *)
(***************************************************************************)
OfferShape(s) ==
    /\ s.st # "Ready" /\ s.ready = NoMsg /\ s.started = NoMsg
    /\ s.st # "Idle" => s.hello \in HelloType /\ s.hmsg # NoMsg
    /\ s.st = "Idle" => s.hmsg = NoMsg
    /\ s.st \in {"Idle", "Hello"} => s.round = 0 /\ s.rhello = NoHello
    /\ s.st \in {"Idle", "Hello", "Allocating"} => s.prepare = NoMsg
    /\ s.st \in {"Allocating", "Preparing", "Probing"} =>
          s.round # 0 /\ s.plan # NoPlan /\ s.rhello # NoHello
    /\ s.st = "Preparing" => s.prepare # NoMsg /\ s.start = NoMsg
    /\ s.st = "Probing" => s.start # NoMsg
    /\ s.prepare # NoMsg =>
          /\ s.round # 0 /\ s.plan # NoPlan
          /\ s.prepare.round = s.round /\ s.prepare.body.plan = s.plan
          /\ s.digest = Digest(s.plan)
    /\ s.start # NoMsg => s.prepare # NoMsg

AnswerShape(s) ==
    /\ s.st # "Preparing" /\ s.prepare = NoMsg /\ s.start = NoMsg
    /\ s.st # "Idle" => s.hello \in HelloType /\ s.hmsg # NoMsg
    /\ s.st = "Idle" => s.hmsg = NoMsg
    /\ s.st \in {"Idle", "Hello"} => s.plan = NoPlan
    /\ s.st \in {"Idle", "Hello", "Allocating"} => s.ready = NoMsg
    /\ s.st \in {"Idle", "Hello", "Allocating", "Ready"} => s.started = NoMsg
    /\ s.st = "Allocating" => s.round # 0
    /\ s.st \in {"Ready", "Probing"} => s.ready # NoMsg
    /\ s.st = "Probing" => s.started # NoMsg
    /\ s.ready # NoMsg =>
          /\ s.round # 0
          /\ s.ready.round = s.round /\ s.digest = Digest(s.plan)
    /\ s.started # NoMsg => s.ready # NoMsg
    /\ s.round # 0 <=> s.plan # NoPlan

Shape(p, s) == IF p = "offer" THEN OfferShape(s) ELSE AnswerShape(s)

Own(s) == {s.hmsg, s.prepare, s.ready, s.start, s.started} \ {NoMsg}

Link(o, a) ==
    /\ a.round # 0 => o.prepare # NoMsg /\ a.round = o.round /\ a.plan = o.plan
    /\ o.start # NoMsg => a.ready # NoMsg
    /\ a.started # NoMsg => o.start # NoMsg

IInv ==
    /\ TypeOK
    /\ \A p \in Peers :
          /\ Shape(p, peer[p])
          /\ peer[p].out = {}
          /\ peer[p].pend \in Own(peer[p]) \cup {NoMsg}
          /\ net[p] \subseteq Own(peer[p]) \cup CancelPackets
    /\ Link(peer["offer"], peer["answer"])

(***************************************************************************)
(* What a whole step of one peer guarantees: fields that identify the      *)
(* round are set once, the shape is kept, and only own packets are sent.   *)
(***************************************************************************)
Evolve(s, t) ==
    /\ s.round # 0 => t.round = s.round /\ t.plan = s.plan
    /\ s.hmsg # NoMsg => t.hmsg = s.hmsg
    /\ s.prepare # NoMsg => t.prepare = s.prepare
    /\ s.ready # NoMsg => t.ready = s.ready
    /\ s.start # NoMsg => t.start = s.start
    /\ s.started # NoMsg => t.started = s.started

LocalOk(p, s, t) ==
    /\ t \in PeerType
    /\ Shape(p, t)
    /\ Evolve(s, t)
    /\ t.out \subseteq Own(t) \cup CancelPackets
    /\ t.pend \in Own(t) \cup {NoMsg}

Linked(p, t) == IF p = "offer" THEN Link(t, peer["answer"]) ELSE Link(peer["offer"], t)

LEMMA ApplyIInv ==
    ASSUME IInv, NEW p \in Peers, NEW t, LocalOk(p, peer[p], t), Linked(p, t), Apply(p, t)
    PROVE  IInv'
<1> DEFINE u == [t EXCEPT !.out = {}]
<1>1. /\ peer' = [peer EXCEPT ![p] = u]
      /\ net' = [net EXCEPT ![p] = net[p] \cup t.out]
      /\ now' = now
  BY DEF Apply
<1>2. {} \in PacketSets /\ t \in PeerType
  BY DEF PacketSets, LocalOk
<1>3. u \in PeerType /\ u.out = {}
  BY <1>2 DEF PeerType
<1>4. /\ u.st = t.st /\ u.hello = t.hello /\ u.hmsg = t.hmsg /\ u.rhello = t.rhello
      /\ u.plan = t.plan /\ u.round = t.round /\ u.digest = t.digest
      /\ u.prepare = t.prepare /\ u.ready = t.ready /\ u.start = t.start
      /\ u.started = t.started /\ u.pend = t.pend
  BY <1>2 DEF PeerType
<1> HIDE DEF u
<1>5. Shape(p, u) /\ Own(u) = Own(t) /\ Linked(p, u)
  BY <1>4 DEF LocalOk, Shape, OfferShape, AnswerShape, Own, Linked, Link
<1>6. /\ peer'[p] = u /\ net'[p] = net[p] \cup t.out
      /\ \A q \in Peers : q # p => peer'[q] = peer[q] /\ net'[q] = net[q]
  BY <1>1 DEF IInv, TypeOK
<1>7. t.out \in SUBSET Packets
  BY <1>2 DEF PeerType, PacketSets
<1>8. TypeOK'
  BY <1>1, <1>3, <1>7 DEF IInv, TypeOK
<1>9. Own(peer[p]) \subseteq Own(u)
  BY <1>5 DEF LocalOk, Evolve, Own
<1>10. net'[p] \subseteq Own(u) \cup CancelPackets
  BY <1>5, <1>6, <1>9 DEF IInv, LocalOk
<1>11. \A q \in Peers : /\ Shape(q, peer'[q]) /\ peer'[q].out = {}
                        /\ peer'[q].pend \in Own(peer'[q]) \cup {NoMsg}
                        /\ net'[q] \subseteq Own(peer'[q]) \cup CancelPackets
  BY <1>3, <1>4, <1>5, <1>6, <1>10 DEF IInv, LocalOk
<1>12. Link(peer'["offer"], peer'["answer"])
  BY <1>5, <1>6 DEF Linked, Peers
<1> QED BY <1>8, <1>11, <1>12 DEF IInv

\* A step that only sends or stops keeps the shape.
LEMMA MildLocal ==
    ASSUME NEW p \in Peers, NEW s, NEW t, Shape(p, s), s.st # "Idle",
           s.pend \in Own(s) \cup {NoMsg}, Mild(s, t),
           t.out \subseteq Own(s) \cup CancelPackets
    PROVE  LocalOk(p, s, t)
<1>1. Own(t) = Own(s) /\ t \in PeerType
  BY DEF Mild, Keeps, Own
<1>2. Evolve(s, t)
  BY DEF Mild, Keeps, Evolve
<1>3. Shape(p, t)
  BY DEF Mild, Keeps, Shape, OfferShape, AnswerShape
<1> QED BY <1>1, <1>2, <1>3 DEF LocalOk, Mild

LEMMA LinkOffer ==
    ASSUME NEW o, NEW a, NEW t, Link(o, a), OfferShape(o), Evolve(o, t),
           t.start = o.start \/ a.ready # NoMsg
    PROVE  Link(t, a)
BY DEF Link, OfferShape, Evolve

LEMMA LinkAnswer ==
    ASSUME NEW o, NEW a, NEW t, Link(o, a), Evolve(a, t),
           t.round = a.round \/ (o.prepare # NoMsg /\ t.round = o.round /\ t.plan = o.plan),
           t.started = a.started \/ o.start # NoMsg
    PROVE  Link(o, t)
BY DEF Link, Evolve

\* A step that leaves round, START and STARTED alone keeps the link.
LEMMA QuietLink ==
    ASSUME IInv, NEW p \in Peers, NEW t, Evolve(peer[p], t), t.round = peer[p].round,
           t.start = peer[p].start, t.started = peer[p].started
    PROVE  Linked(p, t)
<1>1. CASE p = "offer"
  <2>1. OfferShape(peer["offer"]) /\ Link(peer["offer"], peer["answer"])
    BY <1>1 DEF IInv, Shape, Peers
  <2> QED BY <1>1, <2>1, LinkOffer DEF Linked
<1>2. CASE p = "answer"
  <2>1. Link(peer["offer"], peer["answer"])
    BY DEF IInv
  <2> QED BY <1>2, <2>1, LinkAnswer DEF Linked
<1> QED BY <1>1, <1>2 DEF Peers

\* Any chain of Emit and Stop on a running peer, applied, keeps the invariant.
LEMMA MildStep ==
    ASSUME IInv, NEW p \in Peers, NEW t, peer[p].st # "Idle", Mild(peer[p], t),
           t.out \subseteq Own(peer[p]) \cup CancelPackets, Apply(p, t)
    PROVE  IInv'
<1>1. LocalOk(p, peer[p], t)
  BY MildLocal DEF IInv
<1>2. Linked(p, t)
  BY <1>1, QuietLink DEF LocalOk, Mild, Keeps
<1> QED BY <1>1, <1>2, ApplyIInv

-----------------------------------------------------------------------------
(***************************************************************************)
(* One lemma per action.                                                   *)
(***************************************************************************)
LEMMA RunningFacts ==
    ASSUME IInv, NEW p \in Peers
    PROVE  /\ peer[p] \in PeerType /\ peer[p].out = {} /\ net[p] \subseteq Packets
           /\ Shape(p, peer[p])
           /\ peer[p].st # "Idle" => peer[p].hello \in HelloType /\ peer[p].hmsg # NoMsg
           /\ peer[p].pend \in Own(peer[p]) \cup {NoMsg}
BY DEF IInv, TypeOK, Shape, OfferShape, AnswerShape

LEMMA OwnPackets ==
    ASSUME NEW s \in PeerType
    PROVE  Own(s) \subseteq Packets
BY DEF Own, PeerType, Opt, Packets

LEMMA StopStep ==
    ASSUME IInv, NEW p \in Peers, NEW why \in StopReasons, NEW notify \in BOOLEAN,
           Active(peer[p]), Apply(p, Stop(peer[p], why, notify))
    PROVE  IInv'
<1>1. peer[p].st # "Idle" /\ peer[p] \in PeerType /\ peer[p].out = {}
        /\ peer[p].hello \in HelloType
  BY RunningFacts DEF Active
<1>2. Mild(peer[p], Stop(peer[p], why, notify))
        /\ Stop(peer[p], why, notify).out \subseteq Own(peer[p]) \cup CancelPackets
  BY <1>1, StopFacts
<1> QED BY <1>1, <1>2, MildStep

\* Pending only sends and sets the retransmission timer.
LEMMA PendingFacts ==
    ASSUME NEW s \in PeerType, NEW m \in Packets, NEW t \in Nat, s.hello \in HelloType
    PROVE  LET e == Pending(s, m, t)
           IN  /\ e \in PeerType
               /\ e.st \in {s.st, "Stopped"} /\ e.pend \in {m, NoMsg}
               /\ e.out \subseteq s.out \cup {m}
               /\ e.hello = s.hello /\ e.hmsg = s.hmsg /\ e.rhello = s.rhello
               /\ e.plan = s.plan /\ e.round = s.round /\ e.digest = s.digest
               /\ e.prepare = s.prepare /\ e.ready = s.ready /\ e.start = s.start
               /\ e.started = s.started
<1> DEFINE a == [s EXCEPT !.pend = m, !.retries = 0, !.retryAt = t + 1]
<1>1. Pending(s, m, t) = Emit(a, m)
  BY DEF Pending
<1>2. m \in Opt(Packets, NoMsg) /\ 0 \in RetryCount /\ t + 1 \in Nat
  BY DEF Opt, RetryCount
<1>3. a \in PeerType
  BY <1>2 DEF PeerType
<1>4. /\ a.st = s.st /\ a.pend = m /\ a.out = s.out
      /\ a.hello = s.hello /\ a.hmsg = s.hmsg /\ a.rhello = s.rhello
      /\ a.plan = s.plan /\ a.round = s.round /\ a.digest = s.digest
      /\ a.prepare = s.prepare /\ a.ready = s.ready /\ a.start = s.start
      /\ a.started = s.started
  BY DEF PeerType
<1> HIDE DEF a
<1>5. Mild(a, Emit(a, m)) /\ Emit(a, m).out \subseteq a.out \cup {m}
  BY <1>2, <1>3, <1>4, EmitFacts
<1> QED BY <1>1, <1>4, <1>5 DEF Mild, Keeps

LEMMA BeginStep ==
    ASSUME IInv, NEW p \in Peers, NEW h \in Hellos[p], Begin(p, h)
    PROVE  IInv'
<1> DEFINE hello == Packet(peer[p], "Hello", [hello |-> h])
           adv == Advance(peer[p])
           s == [adv EXCEPT !.st = "Hello", !.hello = h, !.hmsg = hello,
                            !.deadline = now + h.remaining]
           t == Pending(s, hello, now)
<1>1. peer[p].st = "Idle" /\ Apply(p, t)
  BY DEF Begin
<1>2. h \in HelloType /\ now \in Nat /\ now + h.remaining \in Nat
  BY HellosAssumption DEF HelloType, IInv, TypeOK
<1>3. /\ adv \in PeerType /\ adv.out = {} /\ Keeps(peer[p], adv) /\ adv.st = "Idle"
      /\ adv.pend = peer[p].pend
  BY <1>1, RunningFacts, AdvanceFacts DEF Mild
<1>4. hello \in HelloPackets /\ hello \in Packets /\ hello # NoMsg
  <2>1. peer[p].seq \in Nat
    BY RunningFacts DEF PeerType
  <2>2. hello = [kind |-> "Hello", round |-> 0, seq |-> peer[p].seq,
                 body |-> [hello |-> h]]
    BY DEF Packet
  <2>3. hello \in HelloPackets
    BY <1>2, <2>1, <2>2 DEF HelloPackets, PacketOf
  <2>4. hello # NoMsg
    BY <2>2 DEF NoMsg
  <2> QED BY <2>3, <2>4 DEF Packets
<1>5. "Hello" \in States /\ h \in Opt(HelloType, NoHello)
        /\ hello \in Opt(HelloPackets, NoMsg)
  BY <1>2, <1>4 DEF States, Opt
<1> HIDE DEF hello, adv
<1>6. s \in PeerType
  BY <1>2, <1>3, <1>5 DEF PeerType
<1>7. /\ s.st = "Hello" /\ s.hello = h /\ s.hmsg = hello /\ s.out = {}
      /\ s.rhello = adv.rhello /\ s.plan = adv.plan /\ s.round = adv.round
      /\ s.digest = adv.digest /\ s.prepare = adv.prepare /\ s.ready = adv.ready
      /\ s.start = adv.start /\ s.started = adv.started
  BY <1>3 DEF PeerType
<1> HIDE DEF s
<1>8. /\ t \in PeerType /\ t.st \in {"Hello", "Stopped"} /\ t.pend \in {hello, NoMsg}
      /\ t.out \subseteq {hello}
      /\ t.hello = h /\ t.hmsg = hello /\ t.rhello = peer[p].rhello
      /\ t.plan = peer[p].plan /\ t.round = peer[p].round /\ t.digest = peer[p].digest
      /\ t.prepare = peer[p].prepare /\ t.ready = peer[p].ready
      /\ t.start = peer[p].start /\ t.started = peer[p].started
  BY <1>2, <1>3, <1>4, <1>6, <1>7, PendingFacts DEF Keeps
<1> HIDE DEF t
<1>9. Shape(p, t) /\ Evolve(peer[p], t)
  <2>1. Shape(p, peer[p])
    BY RunningFacts
  <2> QED BY <1>1, <1>2, <1>4, <1>8, <2>1 DEF Shape, OfferShape, AnswerShape, Evolve
<1>10. LocalOk(p, peer[p], t)
  BY <1>4, <1>8, <1>9 DEF LocalOk, Own
<1>11. Linked(p, t)
  BY <1>8, <1>9, QuietLink
<1> QED BY <1>1, <1>10, <1>11, ApplyIInv

\* The offer caches PREPARE and the answer READY; both packets are well formed.
LEMMA FinishStep ==
    ASSUME IInv, NEW p \in Peers, peer[p].st = "Allocating",
           Apply(p, FinishPreparation(p, peer[p], now))
    PROVE  IInv'
<1> DEFINE s == peer[p]
           d == [s EXCEPT !.digest = Digest(s.plan)]
           prepare == Packet(d, "Prepare", [plan |-> d.plan])
           ready == Packet(d, "Ready", [digest |-> d.digest, budget |-> d.plan.budget])
           adv == Advance(d)
<1>1. /\ s \in PeerType /\ s.out = {} /\ Shape(p, s) /\ s.hello \in HelloType
      /\ s.hmsg \in Packets /\ s.hmsg # NoMsg /\ now \in Nat
  BY RunningFacts, OwnPackets DEF Own, IInv, TypeOK
<1>2. s.plan \in PlanType /\ s.round \in Rounds /\ s.round # 0
  <2>1. s.plan # NoPlan /\ s.round # 0
    BY <1>1 DEF Shape, OfferShape, AnswerShape
  <2> QED BY <1>1, <2>1 DEF PeerType, Opt
<1>3. Digest(s.plan) \in DigestType /\ Digest(s.plan) \in Opt(DigestType, NoDigest)
  BY <1>2 DEF Digest, DigestType, Opt
<1>4. d \in PeerType
  BY <1>1, <1>3 DEF PeerType
<1>5. /\ d.digest = Digest(s.plan) /\ d.out = {} /\ d.pend = s.pend /\ d.seq \in Nat
      /\ d.hello = s.hello /\ d.hmsg = s.hmsg /\ d.rhello = s.rhello
      /\ d.plan = s.plan /\ d.round = s.round /\ d.prepare = s.prepare
      /\ d.ready = s.ready /\ d.start = s.start /\ d.started = s.started
  BY <1>1 DEF PeerType
<1>6. prepare = [kind |-> "Prepare", round |-> s.round, seq |-> d.seq,
                 body |-> [plan |-> s.plan]]
  BY <1>5 DEF Packet
<1>7. ready = [kind |-> "Ready", round |-> s.round, seq |-> d.seq,
               body |-> [digest |-> Digest(s.plan), budget |-> s.plan.budget]]
  BY <1>5 DEF Packet
<1> HIDE DEF d, prepare, ready
<1>8. adv \in PeerType /\ Keeps(d, adv) /\ adv.out = {}
  BY <1>4, <1>5, AdvanceFacts DEF Mild
<1> HIDE DEF adv
<1>9. CASE p = "offer"
  <2> DEFINE a == [adv EXCEPT !.prepare = prepare, !.st = "Preparing"]
             e == Emit(a, d.hmsg)
             t == Pending(e, prepare, now)
  <2>1. FinishPreparation(p, s, now) = t
    BY <1>9 DEF FinishPreparation, d, prepare, adv
  <2>2. prepare \in PreparePackets /\ prepare # NoMsg /\ prepare \in Packets
    <3>1. prepare \in PreparePackets
      BY <1>2, <1>5, <1>6 DEF PreparePackets, PacketOf
    <3>2. prepare # NoMsg
      BY <1>6 DEF NoMsg
    <3> QED BY <3>1, <3>2 DEF Packets
  <2>3. prepare \in Opt(PreparePackets, NoMsg) /\ "Preparing" \in States
    BY <2>2 DEF Opt, States
  <2>4. a \in PeerType
    BY <1>8, <2>3 DEF PeerType
  <2>5. /\ a.st = "Preparing" /\ a.prepare = prepare /\ a.out = {}
        /\ a.hello = s.hello /\ a.hmsg = s.hmsg /\ a.rhello = s.rhello /\ a.plan = s.plan
        /\ a.round = s.round /\ a.digest = Digest(s.plan) /\ a.ready = s.ready
        /\ a.start = s.start /\ a.started = s.started
    BY <1>5, <1>8 DEF PeerType, Keeps
  <2> HIDE DEF a
  <2>6. d.hmsg \in Opt(Packets, NoMsg)
    BY <1>1, <1>5 DEF Opt
  <2>7. Mild(a, e) /\ e.out \subseteq {d.hmsg} /\ e \in PeerType /\ e.hello \in HelloType
    BY <1>1, <2>4, <2>5, <2>6, EmitFacts DEF Mild, Keeps
  <2> HIDE DEF e
  <2>8. /\ t \in PeerType /\ t.st \in {"Preparing", "Stopped"}
        /\ t.pend \in {prepare, NoMsg} /\ t.out \subseteq {s.hmsg, prepare}
        /\ t.hello = s.hello /\ t.hmsg = s.hmsg /\ t.rhello = s.rhello /\ t.plan = s.plan
        /\ t.round = s.round /\ t.digest = Digest(s.plan) /\ t.prepare = prepare
        /\ t.ready = s.ready /\ t.start = s.start /\ t.started = s.started
    <3>1. LET x == Pending(e, prepare, now)
          IN  /\ x \in PeerType
              /\ x.st \in {e.st, "Stopped"} /\ x.pend \in {prepare, NoMsg}
              /\ x.out \subseteq e.out \cup {prepare}
              /\ x.hello = e.hello /\ x.hmsg = e.hmsg /\ x.rhello = e.rhello
              /\ x.plan = e.plan /\ x.round = e.round /\ x.digest = e.digest
              /\ x.prepare = e.prepare /\ x.ready = e.ready /\ x.start = e.start
              /\ x.started = e.started
      BY <1>1, <2>2, <2>7, PendingFacts
    <3> QED BY <1>5, <2>5, <2>7, <3>1 DEF Mild, Keeps
  <2> HIDE DEF t
  <2>9. prepare.round = s.round /\ prepare.body.plan = s.plan
    BY <1>6
  <2>10. OfferShape(s)
    BY <1>1, <1>9 DEF Shape
  <2>11. OfferShape(t) /\ Evolve(s, t)
    BY <1>1, <2>2, <2>8, <2>9, <2>10 DEF OfferShape, Evolve
  <2>12. LocalOk(p, s, t)
    BY <1>1, <1>9, <2>2, <2>8, <2>11 DEF LocalOk, Shape, Own
  <2>13. Linked(p, t)
    BY <2>8, <2>11, QuietLink
  <2> QED BY <2>1, <2>12, <2>13, ApplyIInv
<1>10. CASE p = "answer"
  <2> DEFINE a == [adv EXCEPT !.ready = ready, !.st = "Ready"]
             t == Pending(a, ready, now)
  <2>1. FinishPreparation(p, s, now) = t
    BY <1>10 DEF FinishPreparation, d, ready, adv
  <2>2. ready \in ReadyPackets /\ ready # NoMsg /\ ready \in Packets
    <3>1. s.plan.budget \in 1..48
      BY <1>2 DEF PlanType
    <3>2. ready \in ReadyPackets
      BY <1>2, <1>3, <1>5, <1>7, <3>1 DEF ReadyPackets, PacketOf
    <3>3. ready # NoMsg
      BY <1>7 DEF NoMsg
    <3> QED BY <3>2, <3>3 DEF Packets
  <2>3. ready \in Opt(ReadyPackets, NoMsg) /\ "Ready" \in States
    BY <2>2 DEF Opt, States
  <2>4. a \in PeerType
    BY <1>8, <2>3 DEF PeerType
  <2>5. /\ a.st = "Ready" /\ a.ready = ready /\ a.out = {}
        /\ a.hello = s.hello /\ a.hmsg = s.hmsg /\ a.rhello = s.rhello /\ a.plan = s.plan
        /\ a.round = s.round /\ a.digest = Digest(s.plan) /\ a.prepare = s.prepare
        /\ a.start = s.start /\ a.started = s.started
    BY <1>5, <1>8 DEF PeerType, Keeps
  <2> HIDE DEF a
  <2>6. /\ t \in PeerType /\ t.st \in {"Ready", "Stopped"}
        /\ t.pend \in {ready, NoMsg} /\ t.out \subseteq {ready}
        /\ t.hello = s.hello /\ t.hmsg = s.hmsg /\ t.rhello = s.rhello /\ t.plan = s.plan
        /\ t.round = s.round /\ t.digest = Digest(s.plan) /\ t.prepare = s.prepare
        /\ t.ready = ready /\ t.start = s.start /\ t.started = s.started
    BY <1>1, <2>2, <2>4, <2>5, PendingFacts
  <2> HIDE DEF t
  <2>7. ready.round = s.round
    BY <1>7
  <2>8. AnswerShape(s)
    BY <1>1, <1>10 DEF Shape
  <2>9. AnswerShape(t) /\ Evolve(s, t)
    BY <1>1, <1>2, <2>2, <2>6, <2>7, <2>8 DEF AnswerShape, Evolve
  <2>10. LocalOk(p, s, t)
    BY <1>1, <1>10, <2>2, <2>6, <2>9 DEF LocalOk, Shape, Own
  <2>11. Linked(p, t)
    BY <2>6, <2>9, QuietLink
  <2> QED BY <2>1, <2>10, <2>11, ApplyIInv
<1> QED BY <1>9, <1>10 DEF Peers

\* Retransmission sends cached packets only and moves the timer.
LEMMA RetryStep ==
    ASSUME IInv, NEW p \in Peers, TickRetry(p)
    PROVE  IInv'
<1> DEFINE s == peer[p]
           h == IF s.pend.kind = "Prepare" THEN Emit(s, s.hmsg) ELSE s
           e == Emit(h, s.pend)
           t == [e EXCEPT !.retryAt = now + Waits[s.retries + 1], !.retries = e.retries + 1]
<1>1. /\ s \in PeerType /\ s.out = {} /\ Shape(p, s) /\ s.st # "Idle"
      /\ s.hello \in HelloType /\ s.hmsg \in Own(s) /\ s.pend \in Own(s)
      /\ s.retries < 3 /\ now \in Nat
  BY RunningFacts DEF TickRetry, RetryDue, Active, Own, IInv, TypeOK
<1>2. s.hmsg \in Opt(Packets, NoMsg) /\ s.pend \in Opt(Packets, NoMsg)
  BY <1>1, OwnPackets DEF Opt
<1>3. Mild(s, h) /\ h.out \subseteq Own(s) /\ h \in PeerType /\ h.hello \in HelloType
  <2>1. CASE s.pend.kind = "Prepare"
    BY <1>1, <1>2, <2>1, EmitFacts DEF Mild, Keeps
  <2>2. CASE s.pend.kind # "Prepare"
    BY <1>1, <2>2 DEF Mild, Keeps
  <2> QED BY <2>1, <2>2
<1> HIDE DEF h
<1>4. Mild(h, e) /\ e.out \subseteq Own(s) /\ e \in PeerType
  BY <1>1, <1>2, <1>3, EmitFacts DEF Mild
<1>5. Mild(s, e)
  BY <1>3, <1>4, MildTrans
<1>6. Retransmit(s, now) = IF e.st = "Stopped" THEN e ELSE t
  BY DEF Retransmit, h
<1> HIDE DEF e
<1>7. CASE e.st = "Stopped"
  BY <1>1, <1>4, <1>5, <1>6, <1>7, MildStep DEF TickRetry
<1>8. CASE e.st # "Stopped"
  <2>1. now + Waits[s.retries + 1] \in Nat /\ e.retries + 1 \in RetryCount
    <3>1. s.retries \in 0..2 /\ e.retries = s.retries
      BY <1>1, <1>5 DEF PeerType, RetryCount, Mild, Keeps
    <3>2. Waits[s.retries + 1] \in Nat
      BY <3>1, WaitsAssumption
    <3> QED BY <1>1, <3>1, <3>2 DEF RetryCount
  <2>2. t \in PeerType
    BY <1>4, <2>1 DEF PeerType
  <2>3. /\ t.st = e.st /\ t.hello = e.hello /\ t.hmsg = e.hmsg /\ t.rhello = e.rhello
        /\ t.plan = e.plan /\ t.round = e.round /\ t.digest = e.digest
        /\ t.prepare = e.prepare /\ t.ready = e.ready /\ t.start = e.start
        /\ t.started = e.started /\ t.pend = e.pend /\ t.out = e.out
    BY <1>4 DEF PeerType
  <2> HIDE DEF t
  <2>4. LocalOk(p, s, e)
    BY <1>1, <1>4, <1>5, MildLocal
  <2>5. LocalOk(p, s, t)
    BY <2>2, <2>3, <2>4 DEF LocalOk, Shape, OfferShape, AnswerShape, Evolve, Own
  <2>6. Linked(p, t)
    BY <1>5, <2>3, <2>5, QuietLink DEF LocalOk, Mild, Keeps
  <2> QED BY <1>6, <1>8, <2>5, <2>6, ApplyIInv DEF TickRetry
<1> QED BY <1>7, <1>8

\* Dropping the pending packet is harmless in every state.
LEMMA ClearPendingFacts ==
    ASSUME NEW s \in PeerType
    PROVE  Mild(s, [s EXCEPT !.pend = NoMsg]) /\ [s EXCEPT !.pend = NoMsg].out = s.out
<1>1. NoMsg \in Opt(Packets, NoMsg)
  BY DEF Opt
<1>2. [s EXCEPT !.pend = NoMsg] \in PeerType
  BY <1>1 DEF PeerType
<1>3. /\ Keeps(s, [s EXCEPT !.pend = NoMsg]) /\ [s EXCEPT !.pend = NoMsg].out = s.out
      /\ [s EXCEPT !.pend = NoMsg].st = s.st /\ [s EXCEPT !.pend = NoMsg].pend = NoMsg
  BY DEF PeerType, Keeps
<1> QED BY <1>2, <1>3 DEF Mild

LEMMA ExhaustedStep ==
    ASSUME IInv, NEW p \in Peers, TickExhausted(p)
    PROVE  IInv'
<1>1. Active(peer[p]) /\ peer[p].st # "Idle" /\ peer[p] \in PeerType /\ peer[p].out = {}
  BY RunningFacts DEF TickExhausted, RetryDue, Active
<1>2. CASE peer[p].pend.kind = "Hello"
  BY <1>1, <1>2, ClearPendingFacts, MildStep DEF TickExhausted
<1>3. CASE peer[p].pend.kind # "Hello"
  <2>1. "timeout" \in StopReasons
    BY DEF StopReasons
  <2> QED BY <1>1, <1>3, <2>1, StopStep DEF TickExhausted
<1> QED BY <1>2, <1>3

-----------------------------------------------------------------------------
(***************************************************************************)
(* Receiving.                                                              *)
(***************************************************************************)
LEMMA KindFacts ==
    ASSUME NEW q \in PeerType, NEW m \in Own(q) \cup CancelPackets
    PROVE  /\ m \in Packets
           /\ m.kind = "Hello" => m.body.hello \in HelloType
           /\ m.kind = "Prepare" => m = q.prepare
           /\ m.kind = "Ready" => m = q.ready
           /\ m.kind = "Start" => m = q.start
           /\ m.kind = "Cancel" => m.body.reason \in StopReasons
<1>1. /\ q.hmsg \in HelloPackets \cup {NoMsg} /\ q.prepare \in PreparePackets \cup {NoMsg}
      /\ q.ready \in ReadyPackets \cup {NoMsg} /\ q.start \in StartPackets \cup {NoMsg}
      /\ q.started \in StartedPackets \cup {NoMsg}
  BY DEF PeerType, Opt
<1>2. m \in Packets
  BY OwnPackets DEF Packets
<1>3. m.kind = "Hello" => m.body.hello \in HelloType
  BY <1>2 DEF Packets, HelloPackets, PreparePackets, ReadyPackets, StartPackets,
              StartedPackets, CancelPackets, PacketOf
<1>4. m.kind = "Cancel" => m.body.reason \in StopReasons
  BY <1>2 DEF Packets, HelloPackets, PreparePackets, ReadyPackets, StartPackets,
              StartedPackets, CancelPackets, PacketOf
<1>5. /\ m.kind = "Prepare" => m = q.prepare
      /\ m.kind = "Ready" => m = q.ready
      /\ m.kind = "Start" => m = q.start
  BY <1>1 DEF Own, HelloPackets, PreparePackets, ReadyPackets, StartPackets,
              StartedPackets, CancelPackets, PacketOf
<1> QED BY <1>2, <1>3, <1>4, <1>5

LEMMA SeeFacts ==
    ASSUME NEW s \in PeerType, NEW m \in Packets
    PROVE  /\ Mild(s, See(s, m)) /\ See(s, m).st = s.st
           /\ See(s, m).pend = s.pend /\ See(s, m).out = s.out
<1>1. See(s, m) = [s EXCEPT !.seen = s.seen \cup {m}]
  BY DEF See
<1>2. s.seen \cup {m} \in PacketSets
  BY DEF PeerType, PacketSets
<1>3. See(s, m) \in PeerType
  BY <1>1, <1>2 DEF PeerType
<1>4. Keeps(s, See(s, m)) /\ See(s, m).st = s.st
        /\ See(s, m).pend = s.pend /\ See(s, m).out = s.out
  BY <1>1 DEF PeerType, Keeps
<1> QED BY <1>3, <1>4 DEF Mild

LEMMA PlanFacts ==
    ASSUME NEW oh \in HelloType, NEW ah \in HelloType
    PROVE  MakePunchPlan(oh, ah) \in Opt(PlanType, NoPlan)
<1>1. oh.budget \in 1..48 /\ ah.budget \in 1..48
  BY DEF HelloType
<1>2. MinOf(oh.budget, ah.budget) \in 1..48
  BY <1>1 DEF MinOf
<1>3. Digest(oh) \in [sha : HelloType] /\ Digest(ah) \in [sha : HelloType]
  BY DEF Digest
<1> QED BY <1>2, <1>3 DEF MakePunchPlan, PlanType, Opt

LEMMA BeginPreparationFacts ==
    ASSUME NEW b \in PeerType, NEW ok \in BOOLEAN, b.hello \in HelloType
    PROVE  LET t == BeginPreparation(b, ok)
           IN  /\ t \in PeerType /\ Keeps(b, t) /\ t.pend = NoMsg
               /\ t.st \in {"Allocating", "Stopped"}
               /\ t.out \subseteq b.out \cup CancelPackets
<1> DEFINE a == [b EXCEPT !.st = "Allocating", !.pend = NoMsg]
<1>1. "Allocating" \in States /\ NoMsg \in Opt(Packets, NoMsg) /\ "resources" \in StopReasons
  BY DEF States, Opt, StopReasons
<1>2. a \in PeerType
  BY <1>1 DEF PeerType
<1>3. Keeps(b, a) /\ a.st = "Allocating" /\ a.pend = NoMsg /\ a.out = b.out
  BY DEF PeerType, Keeps
<1>4. BeginPreparation(b, ok) = IF ok THEN a ELSE Stop(a, "resources", TRUE)
  BY DEF BeginPreparation
<1> HIDE DEF a
<1>5. a.hello \in HelloType
  BY <1>3 DEF Keeps
<1>6. /\ Mild(a, Stop(a, "resources", TRUE)) /\ Stop(a, "resources", TRUE).st = "Stopped"
      /\ Stop(a, "resources", TRUE).out \subseteq a.out \cup CancelPackets
  BY <1>1, <1>2, <1>5, StopFacts
<1>7. Keeps(b, Stop(a, "resources", TRUE))
  BY <1>3, <1>6 DEF Mild, Keeps
<1> QED BY <1>2, <1>3, <1>4, <1>6, <1>7 DEF Mild

LEMMA StartFacts ==
    ASSUME NEW s \in PeerType, NEW fail \in {"none", "ineligible", "timeout"},
           s.hello \in HelloType, s.st \notin {"Probing", "Stopped"}
    PROVE  LET t == Start(s, fail)
           IN  /\ t \in PeerType /\ Keeps(s, t) /\ t.pend \in {s.pend, NoMsg}
               /\ t.st \in {"Probing", "Stopped"}
               /\ t.out \subseteq s.out \cup CancelPackets
<1> DEFINE a == [s EXCEPT !.st = "Probing"]
<1>1. "Probing" \in States
  BY DEF States
<1>2. a \in PeerType
  BY <1>1 DEF PeerType
<1>3. Keeps(s, a) /\ a.st = "Probing" /\ a.pend = s.pend /\ a.out = s.out
  BY DEF PeerType, Keeps
<1>4. Start(s, fail) = IF fail = "none" THEN a ELSE Stop(a, fail, TRUE)
  BY DEF Start
<1> HIDE DEF a
<1>5. CASE fail = "none"
  BY <1>2, <1>3, <1>4, <1>5
<1>6. CASE fail # "none"
  <2>1. fail \in StopReasons /\ a.hello \in HelloType
    BY <1>3, <1>6 DEF StopReasons, Keeps
  <2>2. /\ Mild(a, Stop(a, fail, TRUE)) /\ Stop(a, fail, TRUE).st = "Stopped"
        /\ Stop(a, fail, TRUE).out \subseteq a.out \cup CancelPackets
    BY <1>2, <2>1, StopFacts
  <2>3. Keeps(s, Stop(a, fail, TRUE))
    BY <1>3, <2>2 DEF Mild, Keeps
  <2> QED BY <1>3, <1>4, <1>6, <2>2, <2>3 DEF Mild
<1> QED BY <1>5, <1>6

\* What is known of a running peer once a packet is in its replay window.
LEMMA SeenFacts ==
    ASSUME IInv, NEW p \in Peers, NEW m \in net[Other(p)], Active(peer[p])
    PROVE  LET a == See(peer[p], m)
               q == peer[Other(p)]
           IN  /\ a \in PeerType /\ Mild(peer[p], a) /\ a.st = peer[p].st /\ a.out = {}
               /\ a.st # "Idle" /\ a.st # "Stopped" /\ a.hello \in HelloType
               /\ a.pend \in Own(a) \cup {NoMsg} /\ Own(a) = Own(peer[p])
               /\ Own(a) \subseteq Packets /\ a.hmsg \in Own(a)
               /\ Shape(p, a) /\ Shape(Other(p), q)
               /\ q \in PeerType /\ m \in Own(q) \cup CancelPackets
<1> DEFINE a == See(peer[p], m)
<1>1. Other(p) \in Peers
  BY DEF Other, Peers
<1>2. /\ peer[Other(p)] \in PeerType /\ m \in Own(peer[Other(p)]) \cup CancelPackets
      /\ Shape(Other(p), peer[Other(p)])
  BY <1>1, RunningFacts DEF IInv
<1>3. m \in Packets
  BY <1>2, KindFacts
<1>4. /\ peer[p] \in PeerType /\ peer[p].out = {} /\ Shape(p, peer[p])
      /\ peer[p].hello \in HelloType /\ peer[p].hmsg # NoMsg
      /\ peer[p].pend \in Own(peer[p]) \cup {NoMsg}
      /\ peer[p].st # "Idle" /\ peer[p].st # "Stopped"
  BY RunningFacts DEF Active
<1>5. Mild(peer[p], a) /\ a.st = peer[p].st /\ a.pend = peer[p].pend /\ a.out = peer[p].out
  BY <1>3, <1>4, SeeFacts
<1> HIDE DEF a
<1>6. Own(a) = Own(peer[p]) /\ a \in PeerType /\ a.hello \in HelloType /\ a.hmsg # NoMsg
  BY <1>4, <1>5 DEF Mild, Keeps, Own
<1>7. Shape(p, a)
  BY <1>4, <1>5 DEF Mild, Keeps, Shape, OfferShape, AnswerShape
<1>8. Own(a) \subseteq Packets /\ a.hmsg \in Own(a)
  BY <1>6, OwnPackets DEF Own
<1>9. /\ a.out = {} /\ a.st # "Idle" /\ a.st # "Stopped" /\ a.pend \in Own(a) \cup {NoMsg}
  BY <1>4, <1>5, <1>6
<1> QED BY <1>2, <1>5, <1>6, <1>7, <1>8, <1>9 DEF a

\* A handler that only sends own packets or stops keeps the invariant.
LEMMA MildHandler ==
    ASSUME IInv, NEW p \in Peers, NEW m \in net[Other(p)], Active(peer[p]), NEW t,
           Mild(See(peer[p], m), t), Apply(p, t),
           t.out \subseteq Own(peer[p]) \cup CancelPackets
    PROVE  IInv'
<1>1. Mild(peer[p], See(peer[p], m)) /\ peer[p].st # "Idle"
  BY SeenFacts DEF Active
<1>2. Mild(peer[p], t)
  BY <1>1, MildTrans
<1> QED BY <1>1, <1>2, MildStep

\* Sending a cached packet (or nothing when the cache is empty) is Mild.
LEMMA EmitOwn ==
    ASSUME NEW a \in PeerType, a.hello \in HelloType, a.out \subseteq Own(a) \cup CancelPackets,
           NEW m \in Own(a) \cup {NoMsg}
    PROVE  Mild(a, Emit(a, m)) /\ Emit(a, m).out \subseteq Own(a) \cup CancelPackets
<1>1. m \in Opt(Packets, NoMsg)
  BY OwnPackets DEF Opt
<1> QED BY <1>1, EmitFacts

LEMMA FirstHelloStep ==
    ASSUME IInv, NEW p \in Peers, NEW m \in net[Other(p)], Active(peer[p]),
           NEW r \in Rounds \cup {0}, NEW ok \in BOOLEAN,
           m.kind = "Hello", peer[p].rhello = NoHello,
           Apply(p, OnFirstHello(p, See(peer[p], m), m, r, ok))
    PROVE  IInv'
<1> DEFINE s == peer[p]
           a == See(s, m)
           h == [a EXCEPT !.rhello = m.body.hello]
           plan == MakePunchPlan(a.hello, m.body.hello)
<1>1. /\ a \in PeerType /\ Mild(s, a) /\ a.st = s.st /\ a.out = {}
      /\ a.st # "Idle" /\ a.st # "Stopped" /\ a.hello \in HelloType
      /\ a.pend \in Own(a) \cup {NoMsg} /\ Own(a) = Own(s) /\ a.hmsg \in Own(a)
      /\ Shape(p, a) /\ m.body.hello \in HelloType
  BY SeenFacts, KindFacts
<1>2. plan \in Opt(PlanType, NoPlan) /\ m.body.hello \in Opt(HelloType, NoHello)
  BY <1>1, PlanFacts DEF Opt
<1> HIDE DEF a, plan
<1>3. h \in PeerType
  BY <1>1, <1>2 DEF PeerType
<1>4. /\ h.st = a.st /\ h.out = {} /\ h.pend = a.pend /\ h.hello = a.hello
      /\ h.hmsg = a.hmsg /\ h.plan = a.plan /\ h.round = a.round /\ h.digest = a.digest
      /\ h.prepare = a.prepare /\ h.ready = a.ready /\ h.start = a.start
      /\ h.started = a.started
  BY <1>1 DEF PeerType
<1> HIDE DEF h
<1>5. Own(h) = Own(a)
  BY <1>4 DEF Own
<1>6. CASE p = "answer"
  <2> DEFINE t == Emit(h, h.hmsg)
  <2>1. Apply(p, t)
    BY <1>6 DEF OnFirstHello, a, h
  <2>2. h.hmsg \in Own(h) /\ h.hello \in HelloType
    BY <1>1, <1>4, <1>5
  <2>3. Mild(h, t) /\ t.out \subseteq Own(h) \cup CancelPackets
    BY <1>3, <1>4, <2>2, EmitOwn
  <2> HIDE DEF t
  <2>4. AnswerShape(h)
    BY <1>1, <1>4, <1>6 DEF Shape, AnswerShape
  <2>5. LocalOk(p, h, t)
    BY <1>1, <1>4, <1>5, <1>6, <2>3, <2>4, MildLocal DEF Shape
  <2>6. LocalOk(p, s, t) /\ t.round = s.round /\ t.start = s.start /\ t.started = s.started
    BY <1>1, <1>4, <2>3, <2>5 DEF LocalOk, Evolve, Mild, Keeps
  <2> QED BY <2>1, <2>6, QuietLink, ApplyIInv DEF LocalOk
<1>7. CASE p = "offer"
  <2>1. OfferShape(a) /\ a.rhello = NoHello
    BY <1>1, <1>7 DEF Shape, Mild, Keeps
  <2>2. a.st = "Hello"
    <3>1. a.st \in States
      BY <1>1 DEF PeerType
    <3> QED BY <1>1, <2>1, <3>1 DEF OfferShape, States
  <2>3. /\ a.round = 0 /\ a.prepare = NoMsg /\ a.start = NoMsg /\ a.ready = NoMsg
        /\ a.started = NoMsg /\ a.hmsg # NoMsg
    BY <2>1, <2>2 DEF OfferShape
  <2>4. ASSUME NEW b \in PeerType, NEW t \in PeerType, Apply(p, t),
               b.hello = a.hello, b.hmsg = a.hmsg, b.prepare = NoMsg, b.ready = NoMsg,
               b.start = NoMsg, b.started = NoMsg, Keeps(b, t), t.pend = NoMsg,
               t.st = "Stopped" \/ (/\ t.st = "Allocating" /\ b.round # 0
                                    /\ b.plan # NoPlan /\ b.rhello # NoHello),
               t.out \subseteq CancelPackets
        PROVE  IInv'
    <3>1. OfferShape(t)
      BY <1>1, <2>3, <2>4 DEF Keeps, OfferShape
    <3>2. Evolve(s, t)
      BY <1>1, <2>3, <2>4 DEF Mild, Keeps, Evolve
    <3>3. LocalOk(p, s, t)
      BY <1>7, <2>4, <3>1, <3>2 DEF LocalOk, Shape
    <3>4. OfferShape(s) /\ Link(s, peer["answer"])
      BY <1>7 DEF IInv, Shape, Peers
    <3>5. t.start = s.start
      BY <1>1, <2>3, <2>4 DEF Mild, Keeps
    <3>6. Linked(p, t)
      BY <1>7, <3>2, <3>4, <3>5, LinkOffer DEF Linked
    <3> QED BY <2>4, <3>3, <3>6, ApplyIInv
  <2>5. h.hello \in HelloType /\ h.rhello # NoHello
    <3>1. h.rhello = m.body.hello
      BY <1>1 DEF h, PeerType
    <3>2. NoHello \notin HelloType
      BY DEF NoHello, HelloType
    <3> QED BY <1>1, <1>4, <3>1, <3>2
  <2>6. CASE plan = NoPlan
    <3>1. Apply(p, Stop(h, "ineligible", FALSE)) /\ "ineligible" \in StopReasons
      BY <1>7, <2>6 DEF OnFirstHello, a, h, plan, StopReasons
    <3>2. Stop(h, "ineligible", FALSE) = Halt(h, "ineligible")
      BY <1>1, <1>4 DEF Stop
    <3>3. /\ Mild(h, Halt(h, "ineligible")) /\ Halt(h, "ineligible").out = {}
          /\ Halt(h, "ineligible").st = "Stopped"
      BY <1>3, <1>4, <3>1, HaltFacts
    <3>4. Halt(h, "ineligible").pend = NoMsg
      BY <1>3 DEF Halt, PeerType
    <3> QED BY <1>3, <1>4, <2>3, <2>4, <3>1, <3>2, <3>3, <3>4 DEF Mild
  <2>7. CASE plan # NoPlan /\ r = 0
    <3> DEFINE b == [h EXCEPT !.plan = plan]
    <3>1. Apply(p, Stop(b, "resources", FALSE)) /\ "resources" \in StopReasons
      BY <1>7, <2>7 DEF OnFirstHello, a, h, plan, StopReasons
    <3>2. b \in PeerType
      BY <1>2, <1>3 DEF PeerType
    <3>3. /\ b.st = a.st /\ b.out = {} /\ b.hello = a.hello /\ b.hmsg = a.hmsg
          /\ b.prepare = NoMsg /\ b.ready = NoMsg /\ b.start = NoMsg /\ b.started = NoMsg
      BY <1>3, <1>4, <2>3 DEF PeerType
    <3> HIDE DEF b
    <3>4. Stop(b, "resources", FALSE) = Halt(b, "resources")
      BY <1>1, <3>3 DEF Stop
    <3>5. /\ Mild(b, Halt(b, "resources")) /\ Halt(b, "resources").out = {}
          /\ Halt(b, "resources").st = "Stopped"
      BY <3>1, <3>2, <3>3, HaltFacts
    <3>6. Halt(b, "resources").pend = NoMsg
      BY <3>2 DEF Halt, PeerType
    <3> QED BY <2>4, <3>1, <3>2, <3>3, <3>4, <3>5, <3>6 DEF Mild
  <2>8. CASE plan # NoPlan /\ r # 0
    <3> DEFINE b == [h EXCEPT !.plan = plan, !.round = r]
               t == BeginPreparation(b, ok)
    <3>1. Apply(p, t)
      BY <1>7, <2>8 DEF OnFirstHello, a, h, plan
    <3>2. r \in Opt(Rounds, 0)
      BY DEF Opt
    <3>3. b \in PeerType
      BY <1>2, <1>3, <3>2 DEF PeerType
    <3>4. /\ b.out = {} /\ b.hello = a.hello /\ b.hmsg = a.hmsg
          /\ b.prepare = NoMsg /\ b.ready = NoMsg /\ b.start = NoMsg /\ b.started = NoMsg
          /\ b.round # 0 /\ b.plan # NoPlan /\ b.rhello # NoHello
      BY <1>3, <1>4, <2>3, <2>5, <2>8 DEF PeerType
    <3> HIDE DEF b
    <3>5. /\ t \in PeerType /\ Keeps(b, t) /\ t.pend = NoMsg
          /\ t.st \in {"Allocating", "Stopped"} /\ t.out \subseteq CancelPackets
      BY <1>1, <3>3, <3>4, BeginPreparationFacts
    <3> HIDE DEF t
    <3> QED BY <2>4, <3>1, <3>3, <3>4, <3>5
  <2> QED BY <2>6, <2>7, <2>8
<1> QED BY <1>6, <1>7 DEF Peers

LEMMA StopHandler ==
    ASSUME IInv, NEW p \in Peers, NEW m \in net[Other(p)], Active(peer[p]),
           NEW why \in StopReasons, NEW notify \in BOOLEAN,
           Apply(p, Stop(See(peer[p], m), why, notify))
    PROVE  IInv'
<1> DEFINE a == See(peer[p], m)
<1>1. a \in PeerType /\ a.out = {} /\ a.hello \in HelloType
  BY SeenFacts
<1>2. Mild(a, Stop(a, why, notify)) /\ Stop(a, why, notify).out \subseteq CancelPackets
  BY <1>1, StopFacts
<1> QED BY <1>2, MildHandler

\* A packet that is only recorded as seen.
LEMMA IgnoreHandler ==
    ASSUME IInv, NEW p \in Peers, NEW m \in net[Other(p)], Active(peer[p]),
           Apply(p, See(peer[p], m))
    PROVE  IInv'
<1>1. See(peer[p], m) \in PeerType /\ See(peer[p], m).out = {}
  BY SeenFacts
<1>2. Mild(See(peer[p], m), See(peer[p], m))
  BY <1>1 DEF Mild, Keeps
<1> QED BY <1>1, <1>2, MildHandler

\* A cached packet is sent again.
LEMMA ResendHandler ==
    ASSUME IInv, NEW p \in Peers, NEW m \in net[Other(p)], Active(peer[p]),
           NEW x \in Own(peer[p]) \cup {NoMsg}, Apply(p, Emit(See(peer[p], m), x))
    PROVE  IInv'
<1> DEFINE a == See(peer[p], m)
<1>1. a \in PeerType /\ a.out = {} /\ a.hello \in HelloType /\ Own(a) = Own(peer[p])
  BY SeenFacts
<1>2. Mild(a, Emit(a, x)) /\ Emit(a, x).out \subseteq Own(a) \cup CancelPackets
  BY <1>1, EmitOwn
<1> QED BY <1>1, <1>2, MildHandler

LEMMA RepeatedHelloStep ==
    ASSUME IInv, NEW p \in Peers, NEW m \in net[Other(p)], Active(peer[p]),
           Apply(p, OnRepeatedHello(p, See(peer[p], m), m))
    PROVE  IInv'
<1> DEFINE a == See(peer[p], m)
           e == Emit(a, a.hmsg)
           t == Emit(e, a.prepare)
<1>1. a \in PeerType /\ a.out = {} /\ a.hello \in HelloType /\ a.hmsg \in Own(a)
        /\ Own(a) = Own(peer[p])
  BY SeenFacts
<1>2. CASE a.rhello # m.body.hello
  <2>1. "conflict" \in StopReasons
    BY DEF StopReasons
  <2> QED BY <1>2, <2>1, StopHandler DEF OnRepeatedHello
<1>3. CASE a.rhello = m.body.hello /\ p = "offer" /\ a.prepare # NoMsg /\ a.st = "Preparing"
  <2>1. Mild(a, e) /\ e.out \subseteq Own(a) \cup CancelPackets
    BY <1>1, EmitOwn
  <2>2. e \in PeerType /\ e.hello \in HelloType /\ Own(e) = Own(a)
    BY <1>1, <2>1 DEF Mild, Keeps, Own
  <2>3. a.prepare \in Own(e) \cup {NoMsg}
    BY <1>3, <2>2 DEF Own
  <2>4. Mild(e, t) /\ t.out \subseteq Own(e) \cup CancelPackets
    BY <2>1, <2>2, <2>3, EmitOwn
  <2>5. Mild(a, t)
    BY <2>1, <2>4, MildTrans
  <2>6. Apply(p, t)
    BY <1>3 DEF OnRepeatedHello
  <2> QED BY <1>1, <2>2, <2>4, <2>5, <2>6, MildHandler
<1>4. CASE a.rhello = m.body.hello
             /\ ~(p = "offer" /\ a.prepare # NoMsg /\ a.st = "Preparing")
  BY <1>4, IgnoreHandler DEF OnRepeatedHello
<1> QED BY <1>2, <1>3, <1>4

\* The answer adopts round and plan of the PREPARE the offer really sent.
LEMMA PrepareStep ==
    ASSUME IInv, NEW m \in net["offer"], Active(peer["answer"]), NEW ok \in BOOLEAN,
           m.kind = "Prepare", Apply("answer", OnPrepare(See(peer["answer"], m), m, ok))
    PROVE  IInv'
<1> DEFINE p == "answer"
           s == peer[p]
           o == peer["offer"]
           a == See(s, m)
<1>1. p \in Peers /\ Other(p) = "offer" /\ m \in net[Other(p)]
  BY DEF Peers, Other
<1>2. /\ a \in PeerType /\ Mild(s, a) /\ a.st = s.st /\ a.out = {}
      /\ a.st # "Idle" /\ a.st # "Stopped" /\ a.hello \in HelloType
      /\ Own(a) = Own(s) /\ AnswerShape(a) /\ OfferShape(o) /\ o \in PeerType
      /\ m \in Own(o) \cup CancelPackets
  BY <1>1, SeenFacts DEF Shape
<1>3. m = o.prepare /\ o.prepare # NoMsg /\ o.prepare \in PreparePackets
  <2>1. m = o.prepare /\ m \in Packets
    BY <1>2, KindFacts
  <2>2. o.prepare \in Opt(PreparePackets, NoMsg)
    BY <1>2 DEF PeerType
  <2>3. NoMsg \notin Packets
    BY DEF NoMsg, Packets, HelloPackets, PreparePackets, ReadyPackets, StartPackets,
           StartedPackets, CancelPackets, PacketOf
  <2> QED BY <2>1, <2>2, <2>3 DEF Opt
<1>4. m.round = o.round /\ m.body.plan = o.plan /\ o.round # 0 /\ o.plan # NoPlan
  BY <1>2, <1>3 DEF OfferShape
<1>5. o.round \in Opt(Rounds, 0) /\ o.plan \in Opt(PlanType, NoPlan)
  BY <1>2 DEF PeerType
<1> HIDE DEF p
<1>6. CASE a.plan # NoPlan /\ a.plan # m.body.plan
  <2>1. "conflict" \in StopReasons
    BY DEF StopReasons
  <2> QED BY <1>1, <1>6, <2>1, StopHandler DEF OnPrepare, p
<1>7. CASE a.plan # NoPlan /\ a.plan = m.body.plan
  <2>1. a.ready \in Own(s) \cup {NoMsg}
    BY <1>2 DEF Own
  <2> QED BY <1>1, <1>7, <2>1, ResendHandler DEF OnPrepare, p
<1>8. CASE a.plan = NoPlan /\ (\/ a.st # "Hello" \/ a.rhello = NoHello
                               \/ MakePunchPlan(a.rhello, a.hello) # m.body.plan)
  BY <1>1, <1>8, IgnoreHandler DEF OnPrepare, p
<1>9. CASE a.plan = NoPlan /\ a.st = "Hello" /\ a.rhello # NoHello
             /\ MakePunchPlan(a.rhello, a.hello) = m.body.plan
  <2> DEFINE b == [a EXCEPT !.round = m.round, !.plan = m.body.plan]
             t == BeginPreparation(b, ok)
  <2>1. Apply(p, t)
    BY <1>9 DEF OnPrepare, p
  <2>2. b \in PeerType
    BY <1>2, <1>4, <1>5 DEF PeerType
  <2>3. /\ b.out = {} /\ b.hello = a.hello /\ b.hmsg = a.hmsg /\ b.round = o.round
        /\ b.plan = o.plan /\ b.prepare = a.prepare /\ b.ready = a.ready
        /\ b.start = a.start /\ b.started = a.started
    BY <1>2, <1>4 DEF PeerType
  <2> HIDE DEF b
  <2>4. /\ t \in PeerType /\ Keeps(b, t) /\ t.pend = NoMsg
        /\ t.st \in {"Allocating", "Stopped"} /\ t.out \subseteq CancelPackets
    BY <1>2, <2>2, <2>3, BeginPreparationFacts
  <2> HIDE DEF t
  <2>5. /\ a.round = 0 /\ a.ready = NoMsg /\ a.started = NoMsg /\ a.prepare = NoMsg
        /\ a.start = NoMsg /\ a.hmsg # NoMsg
    BY <1>2, <1>9 DEF AnswerShape
  <2>6. AnswerShape(t)
    BY <1>2, <1>4, <2>3, <2>4, <2>5 DEF Keeps, AnswerShape
  <2>7. Evolve(s, t)
    BY <1>2, <2>3, <2>4, <2>5 DEF Mild, Keeps, Evolve
  <2>8. LocalOk(p, s, t)
    BY <2>4, <2>6, <2>7 DEF LocalOk, Shape, p
  <2>9. Link(o, s)
    BY DEF IInv, p
  <2>10. t.round = o.round /\ t.plan = o.plan /\ t.started = s.started
    BY <1>2, <2>3, <2>4 DEF Mild, Keeps
  <2>11. Linked(p, t)
    BY <1>3, <2>7, <2>9, <2>10, LinkAnswer DEF Linked, p
  <2> QED BY <1>1, <2>1, <2>8, <2>11, ApplyIInv
<1> QED BY <1>6, <1>7, <1>8, <1>9

\* The offer starts only on the READY the answer really sent.
LEMMA ReadyStep ==
    ASSUME IInv, NEW m \in net["answer"], Active(peer["offer"]),
           NEW fail \in {"none", "ineligible", "timeout"}, m.kind = "Ready",
           Apply("offer", OnReady(See(peer["offer"], m), m, now, fail))
    PROVE  IInv'
<1> DEFINE p == "offer"
           s == peer[p]
           q == peer["answer"]
           a == See(s, m)
           start == Packet(a, "Start", [digest |-> a.digest])
           adv == Advance(a)
<1>1. p \in Peers /\ Other(p) = "answer" /\ m \in net[Other(p)] /\ now \in Nat
  BY DEF Peers, Other, IInv, TypeOK
<1>2. /\ a \in PeerType /\ Mild(s, a) /\ a.st = s.st /\ a.out = {}
      /\ a.st # "Idle" /\ a.st # "Stopped" /\ a.hello \in HelloType
      /\ Own(a) = Own(s) /\ OfferShape(a) /\ q \in PeerType
      /\ m \in Own(q) \cup CancelPackets
  BY <1>1, SeenFacts DEF Shape
<1>3. q.ready # NoMsg
  <2>1. m = q.ready /\ m \in Packets
    BY <1>2, KindFacts
  <2>2. NoMsg \notin Packets
    BY DEF NoMsg, Packets, HelloPackets, PreparePackets, ReadyPackets, StartPackets,
           StartedPackets, CancelPackets, PacketOf
  <2> QED BY <2>1, <2>2
<1> HIDE DEF p
<1>4. CASE (m.body.digest # a.digest \/ m.body.budget # a.plan.budget)
             \/ a.st \notin {"Preparing", "Probing"}
  BY <1>1, <1>4, IgnoreHandler DEF OnReady, p
<1>5. CASE ~(m.body.digest # a.digest \/ m.body.budget # a.plan.budget) /\ a.st = "Probing"
  <2>1. a.start \in Own(s) \cup {NoMsg}
    BY <1>2 DEF Own
  <2> QED BY <1>1, <1>5, <2>1, ResendHandler DEF OnReady, p
<1>6. CASE ~(m.body.digest # a.digest \/ m.body.budget # a.plan.budget) /\ a.st = "Preparing"
  <2> DEFINE x == [adv EXCEPT !.start = start]
             y == Start(x, fail)
             t == Pending(y, start, now)
  <2>1. Apply(p, t)
    BY <1>6 DEF OnReady, p
  <2>2. /\ a.prepare # NoMsg /\ a.start = NoMsg /\ a.round # 0 /\ a.plan # NoPlan
        /\ a.digest = Digest(a.plan) /\ a.rhello # NoHello /\ a.ready = NoMsg
        /\ a.started = NoMsg /\ a.hmsg # NoMsg /\ a.prepare.round = a.round
        /\ a.prepare.body.plan = a.plan
    BY <1>2, <1>6 DEF OfferShape
  <2>3. start \in StartPackets /\ start # NoMsg /\ start \in Packets
          /\ start \in Opt(StartPackets, NoMsg)
    <3>1. a.round \in Rounds /\ a.seq \in Nat /\ a.plan \in PlanType
      BY <1>2, <2>2 DEF PeerType, Opt
    <3>2. a.digest \in DigestType
      BY <2>2, <3>1 DEF Digest, DigestType
    <3>3. start = [kind |-> "Start", round |-> a.round, seq |-> a.seq,
                   body |-> [digest |-> a.digest]]
      BY DEF Packet
    <3>4. start \in StartPackets
      BY <3>1, <3>2, <3>3 DEF StartPackets, PacketOf
    <3>5. start # NoMsg
      BY <3>3 DEF NoMsg
    <3> QED BY <3>4, <3>5 DEF Packets, Opt
  <2> HIDE DEF start
  <2>4. adv \in PeerType /\ Keeps(a, adv) /\ adv.out = {} /\ adv.st = "Preparing"
    BY <1>2, <1>6, AdvanceFacts DEF Mild
  <2> HIDE DEF adv, a
  <2>5. x \in PeerType
    BY <2>3, <2>4 DEF PeerType
  <2>6. /\ x.st = "Preparing" /\ x.out = {} /\ x.start = start
        /\ x.hello = a.hello /\ x.hmsg = a.hmsg /\ x.rhello = a.rhello /\ x.plan = a.plan
        /\ x.round = a.round /\ x.digest = a.digest /\ x.prepare = a.prepare
        /\ x.ready = a.ready /\ x.started = a.started
    BY <2>4 DEF PeerType, Keeps
  <2> HIDE DEF x
  <2>7. /\ y \in PeerType /\ Keeps(x, y) /\ y.st \in {"Probing", "Stopped"}
        /\ y.out \subseteq CancelPackets
    BY <1>2, <2>5, <2>6, StartFacts
  <2> HIDE DEF y
  <2>8. y.hello \in HelloType
    BY <1>2, <2>6, <2>7 DEF Keeps
  <2>9. /\ t \in PeerType /\ t.st \in {"Probing", "Stopped"} /\ t.pend \in {start, NoMsg}
        /\ t.out \subseteq CancelPackets \cup {start}
        /\ t.hello = y.hello /\ t.hmsg = y.hmsg /\ t.rhello = y.rhello /\ t.plan = y.plan
        /\ t.round = y.round /\ t.digest = y.digest /\ t.prepare = y.prepare
        /\ t.ready = y.ready /\ t.start = y.start /\ t.started = y.started
    BY <1>1, <2>3, <2>7, <2>8, PendingFacts
  <2> HIDE DEF t
  <2>10. /\ t.hello = a.hello /\ t.hmsg = a.hmsg /\ t.rhello = a.rhello /\ t.plan = a.plan
         /\ t.round = a.round /\ t.digest = a.digest /\ t.prepare = a.prepare
         /\ t.ready = NoMsg /\ t.start = start /\ t.started = NoMsg
    BY <2>2, <2>6, <2>7, <2>9 DEF Keeps
  <2>11. OfferShape(t)
    BY <1>2, <2>2, <2>3, <2>9, <2>10 DEF OfferShape
  <2>12. Evolve(s, t)
    BY <1>2, <2>2, <2>10 DEF Mild, Keeps, Evolve
  <2>13. LocalOk(p, s, t)
    BY <2>3, <2>9, <2>10, <2>11, <2>12 DEF LocalOk, Shape, Own, p
  <2>14. Link(s, q) /\ OfferShape(s)
    BY <1>1 DEF IInv, Shape, p
  <2>15. Linked(p, t)
    BY <1>3, <2>12, <2>14, LinkOffer DEF Linked, p
  <2> QED BY <1>1, <2>1, <2>13, <2>15, ApplyIInv
<1> QED BY <1>4, <1>5, <1>6

\* The answer starts only on the START the offer really sent.
LEMMA StartStep ==
    ASSUME IInv, NEW m \in net["offer"], Active(peer["answer"]),
           NEW fail \in {"none", "ineligible", "timeout"}, m.kind = "Start",
           Apply("answer", OnStart(See(peer["answer"], m), m, fail))
    PROVE  IInv'
<1> DEFINE p == "answer"
           s == peer[p]
           o == peer["offer"]
           a == See(s, m)
           started == Packet(a, "Started", [digest |-> a.digest])
           adv == Advance(a)
<1>1. p \in Peers /\ Other(p) = "offer" /\ m \in net[Other(p)]
  BY DEF Peers, Other
<1>2. /\ a \in PeerType /\ Mild(s, a) /\ a.st = s.st /\ a.out = {}
      /\ a.st # "Idle" /\ a.st # "Stopped" /\ a.hello \in HelloType
      /\ Own(a) = Own(s) /\ AnswerShape(a) /\ o \in PeerType
      /\ m \in Own(o) \cup CancelPackets
  BY <1>1, SeenFacts DEF Shape
<1>3. o.start # NoMsg
  <2>1. m = o.start /\ m \in Packets
    BY <1>2, KindFacts
  <2>2. NoMsg \notin Packets
    BY DEF NoMsg, Packets, HelloPackets, PreparePackets, ReadyPackets, StartPackets,
           StartedPackets, CancelPackets, PacketOf
  <2> QED BY <2>1, <2>2
<1> HIDE DEF p
<1>4. CASE m.body.digest # a.digest \/ a.st \notin {"Ready", "Probing"}
  BY <1>1, <1>4, IgnoreHandler DEF OnStart, p
<1>5. CASE m.body.digest = a.digest /\ a.st = "Probing"
  <2>1. a.started \in Own(s) \cup {NoMsg}
    BY <1>2 DEF Own
  <2> QED BY <1>1, <1>5, <2>1, ResendHandler DEF OnStart, p
<1>6. CASE m.body.digest = a.digest /\ a.st = "Ready"
  <2> DEFINE x == [adv EXCEPT !.pend = NoMsg, !.started = started]
             y == Start(x, fail)
             t == Emit(y, started)
  <2>1. Apply(p, t)
    BY <1>6 DEF OnStart, p
  <2>2. /\ a.ready # NoMsg /\ a.started = NoMsg /\ a.round # 0 /\ a.plan # NoPlan
        /\ a.digest = Digest(a.plan) /\ a.prepare = NoMsg /\ a.start = NoMsg
        /\ a.hmsg # NoMsg /\ a.ready.round = a.round
    BY <1>2, <1>6 DEF AnswerShape
  <2>3. started \in StartedPackets /\ started # NoMsg /\ started \in Packets
          /\ started \in Opt(StartedPackets, NoMsg) /\ started \in Opt(Packets, NoMsg)
    <3>1. a.round \in Rounds /\ a.seq \in Nat /\ a.plan \in PlanType
      BY <1>2, <2>2 DEF PeerType, Opt
    <3>2. a.digest \in DigestType
      BY <2>2, <3>1 DEF Digest, DigestType
    <3>3. started = [kind |-> "Started", round |-> a.round, seq |-> a.seq,
                     body |-> [digest |-> a.digest]]
      BY DEF Packet
    <3>4. started \in StartedPackets
      BY <3>1, <3>2, <3>3 DEF StartedPackets, PacketOf
    <3>5. started # NoMsg
      BY <3>3 DEF NoMsg
    <3> QED BY <3>4, <3>5 DEF Packets, Opt
  <2> HIDE DEF started
  <2>4. adv \in PeerType /\ Keeps(a, adv) /\ adv.out = {} /\ adv.st = "Ready"
    BY <1>2, <1>6, AdvanceFacts DEF Mild
  <2> HIDE DEF adv, a
  <2>5. x \in PeerType
    <3>1. NoMsg \in Opt(Packets, NoMsg)
      BY DEF Opt
    <3> QED BY <2>3, <2>4, <3>1 DEF PeerType
  <2>6. /\ x.st = "Ready" /\ x.out = {} /\ x.started = started /\ x.pend = NoMsg
        /\ x.hello = a.hello /\ x.hmsg = a.hmsg /\ x.rhello = a.rhello /\ x.plan = a.plan
        /\ x.round = a.round /\ x.digest = a.digest /\ x.prepare = a.prepare
        /\ x.ready = a.ready /\ x.start = a.start
    BY <2>4 DEF PeerType, Keeps
  <2> HIDE DEF x
  <2>7. /\ y \in PeerType /\ Keeps(x, y) /\ y.st \in {"Probing", "Stopped"}
        /\ y.out \subseteq CancelPackets /\ y.pend = NoMsg
    BY <1>2, <2>5, <2>6, StartFacts
  <2> HIDE DEF y
  <2>8. y.hello \in HelloType
    BY <1>2, <2>6, <2>7 DEF Keeps
  <2>9. Mild(y, t) /\ t.out \subseteq CancelPackets \cup {started}
    BY <2>3, <2>7, <2>8, EmitFacts
  <2> HIDE DEF t
  <2>10. /\ t \in PeerType /\ t.st \in {"Probing", "Stopped"} /\ t.pend = NoMsg
         /\ t.hello = a.hello /\ t.hmsg = a.hmsg /\ t.rhello = a.rhello /\ t.plan = a.plan
         /\ t.round = a.round /\ t.digest = a.digest /\ t.prepare = NoMsg
         /\ t.ready = a.ready /\ t.start = NoMsg /\ t.started = started
    BY <2>2, <2>6, <2>7, <2>9 DEF Mild, Keeps
  <2>11. AnswerShape(t)
    BY <1>2, <2>2, <2>3, <2>10 DEF AnswerShape
  <2>12. Evolve(s, t)
    BY <1>2, <2>2, <2>10 DEF Mild, Keeps, Evolve
  <2>13. LocalOk(p, s, t)
    BY <2>3, <2>9, <2>10, <2>11, <2>12 DEF LocalOk, Shape, Own, p
  <2>14. Link(o, s) /\ t.round = s.round
    BY <1>2, <2>10 DEF IInv, Mild, Keeps, p
  <2>15. Linked(p, t)
    BY <1>3, <2>12, <2>14, LinkAnswer DEF Linked, p
  <2> QED BY <1>1, <2>1, <2>13, <2>15, ApplyIInv
<1> QED BY <1>4, <1>5, <1>6

LEMMA ReceiveStep ==
    ASSUME IInv, NEW p \in Peers, NEW m \in net[Other(p)], NEW r \in Rounds \cup {0},
           NEW ok \in BOOLEAN, NEW fail \in {"none", "ineligible", "timeout"},
           Receive(p, m, r, ok, fail)
    PROVE  IInv'
<1> DEFINE s == peer[p]
           a == See(s, m)
<1>1. Active(s)
  BY DEF Receive
<1>2. CASE Conflict(s, m)
  <2>1. "conflict" \in StopReasons
    BY DEF StopReasons
  <2> QED BY <1>1, <1>2, <2>1, StopStep DEF Receive
<1>3. CASE ~Conflict(s, m)
  <2>1. Apply(p, Handle(p, a, m, m \in s.seen, r, ok, fail))
    BY <1>3 DEF Receive
  <2>2. a.rhello = s.rhello /\ a \in PeerType /\ a.out = {}
    BY <1>1, SeenFacts DEF Mild, Keeps
  <2>3. m.kind = "Cancel" => m.body.reason \in StopReasons
    BY <1>1, SeenFacts, KindFacts
  <2>4. /\ p = "offer" => Other(p) = "answer"
        /\ p = "answer" => Other(p) = "offer"
    BY DEF Other
  <2> HIDE DEF a
  <2>5. CASE m.kind = "Hello" /\ a.rhello = NoHello
    <3>1. Handle(p, a, m, m \in s.seen, r, ok, fail) = OnFirstHello(p, a, m, r, ok)
      BY <2>5 DEF Handle
    <3> QED BY <1>1, <2>1, <2>2, <2>5, <3>1, FirstHelloStep DEF a
  <2>6. CASE m.kind = "Hello" /\ a.rhello # NoHello
    <3>1. Handle(p, a, m, m \in s.seen, r, ok, fail) = OnRepeatedHello(p, a, m)
      BY <2>6 DEF Handle
    <3> QED BY <1>1, <2>1, <3>1, RepeatedHelloStep DEF a
  <2>7. CASE m.kind = "Prepare" /\ p = "answer"
    <3>1. Handle(p, a, m, m \in s.seen, r, ok, fail) = OnPrepare(a, m, ok)
      BY <2>7 DEF Handle
    <3> QED BY <1>1, <2>1, <2>4, <2>7, <3>1, PrepareStep DEF a
  <2>8. CASE m.kind = "Ready" /\ p = "offer"
    <3>1. Handle(p, a, m, m \in s.seen, r, ok, fail) = OnReady(a, m, now, fail)
      BY <2>8 DEF Handle
    <3> QED BY <1>1, <2>1, <2>4, <2>8, <3>1, ReadyStep DEF a
  <2>9. CASE m.kind = "Start" /\ p = "answer"
    <3>1. Handle(p, a, m, m \in s.seen, r, ok, fail) = OnStart(a, m, fail)
      BY <2>9 DEF Handle
    <3> QED BY <1>1, <2>1, <2>4, <2>9, <3>1, StartStep DEF a
  <2>10. CASE m.kind = "Started" /\ p = "offer"
    <3>1. Handle(p, a, m, m \in s.seen, r, ok, fail) = OnStarted(a, m)
      BY <2>10 DEF Handle
    <3>2. CASE a.st = "Probing" /\ m.body.digest = a.digest
      <4>1. OnStarted(a, m) = [a EXCEPT !.pend = NoMsg]
        BY <3>2 DEF OnStarted
      <4>2. Mild(a, [a EXCEPT !.pend = NoMsg]) /\ [a EXCEPT !.pend = NoMsg].out = {}
        BY <2>2, ClearPendingFacts
      <4> QED BY <1>1, <2>1, <3>1, <4>1, <4>2, MildHandler DEF a
    <3>3. CASE ~(a.st = "Probing" /\ m.body.digest = a.digest)
      BY <1>1, <2>1, <3>1, <3>3, IgnoreHandler DEF OnStarted, a
    <3> QED BY <3>2, <3>3
  <2>11. CASE m.kind = "Cancel" /\ m \notin s.seen
    <3>1. Handle(p, a, m, m \in s.seen, r, ok, fail) = Stop(a, m.body.reason, FALSE)
      BY <2>11 DEF Handle
    <3> QED BY <1>1, <2>1, <2>3, <2>11, <3>1, StopHandler DEF a
  <2>12. CASE /\ m.kind # "Hello" /\ ~(m.kind = "Prepare" /\ p = "answer")
              /\ ~(m.kind = "Ready" /\ p = "offer") /\ ~(m.kind = "Start" /\ p = "answer")
              /\ ~(m.kind = "Started" /\ p = "offer")
              /\ ~(m.kind = "Cancel" /\ m \notin s.seen)
    <3>1. Handle(p, a, m, m \in s.seen, r, ok, fail) = a
      BY <2>12 DEF Handle
    <3> QED BY <1>1, <2>1, <3>1, IgnoreHandler DEF a
  <2> QED BY <2>5, <2>6, <2>7, <2>8, <2>9, <2>10, <2>11, <2>12
<1> QED BY <1>2, <1>3

-----------------------------------------------------------------------------
LEMMA InitIInv == Init => IInv
<1> SUFFICES ASSUME Init PROVE IInv
  OBVIOUS
<1>1. /\ "Idle" \in States /\ NoHello \in Opt(HelloType, NoHello)
      /\ NoPlan \in Opt(PlanType, NoPlan) /\ 0 \in Opt(Rounds, 0)
      /\ NoDigest \in Opt(DigestType, NoDigest) /\ {} \in PacketSets
      /\ NoMsg \in Opt(HelloPackets, NoMsg) /\ NoMsg \in Opt(PreparePackets, NoMsg)
      /\ NoMsg \in Opt(ReadyPackets, NoMsg) /\ NoMsg \in Opt(StartPackets, NoMsg)
      /\ NoMsg \in Opt(StartedPackets, NoMsg) /\ NoMsg \in Opt(Packets, NoMsg)
      /\ 0 \in RetryCount /\ 0 \in SendCount /\ "none" \in Opt(StopReasons, "none")
  BY DEF States, Opt, PacketSets, RetryCount, SendCount
<1>2. IdlePeer \in PeerType
  BY <1>1 DEF IdlePeer, PeerType
<1>3. TypeOK
  BY <1>2 DEF Init, TypeOK
<1>4. OfferShape(IdlePeer) /\ AnswerShape(IdlePeer) /\ IdlePeer.out = {}
        /\ IdlePeer.pend = NoMsg /\ Link(IdlePeer, IdlePeer)
  BY DEF IdlePeer, OfferShape, AnswerShape, Link
<1> QED BY <1>3, <1>4 DEF Init, IInv, Shape, Peers

LEMMA NextIInv == IInv /\ [Next]_vars => IInv'
<1> SUFFICES ASSUME IInv, [Next]_vars PROVE IInv'
  OBVIOUS
<1>1. CASE UNCHANGED vars
  BY <1>1 DEF vars, IInv, TypeOK
<1>2. CASE Clock
  <2>1. now' \in Nat /\ peer' = peer /\ net' = net
    BY <1>2 DEF Clock, IInv, TypeOK
  <2> QED BY <2>1 DEF IInv, TypeOK
<1>3. ASSUME NEW p \in Peers, Step(p) PROVE IInv'
  <2>1. ASSUME NEW h \in Hellos[p], Begin(p, h) PROVE IInv'
    BY <2>1, BeginStep
  <2>2. CASE Expire(p)
    <3>1. "timeout" \in StopReasons
      BY DEF StopReasons
    <3> QED BY <2>2, <3>1, StopStep DEF Expire
  <2>3. ASSUME NEW ready \in BOOLEAN, TickPrepare(p, ready) PROVE IInv'
    <3>1. CASE ready
      BY <2>3, <3>1, FinishStep DEF TickPrepare
    <3>2. CASE ~ready
      <4>1. "resources" \in StopReasons /\ Active(peer[p])
        BY <2>3 DEF StopReasons, Active, TickPrepare
      <4> QED BY <2>3, <3>2, <4>1, StopStep DEF TickPrepare
    <3> QED BY <3>1, <3>2
  <2>4. CASE TickIdle(p)
    BY <2>4, <1>1 DEF TickIdle, vars, IInv, TypeOK
  <2>5. CASE TickRetry(p)
    BY <2>5, RetryStep
  <2>6. CASE TickExhausted(p)
    BY <2>6, ExhaustedStep
  <2>7. ASSUME NEW m \in net[Other(p)], NEW r \in Rounds \cup {0}, NEW ok \in BOOLEAN,
               NEW fail \in {"none", "ineligible", "timeout"}, Receive(p, m, r, ok, fail)
        PROVE  IInv'
    BY <2>7, ReceiveStep
  <2>8. ASSUME NEW why \in {"direct_selected", "interface-change", "disconnect"},
               RuntimeStop(p, why)
        PROVE  IInv'
    <3>1. why \in StopReasons /\ (why = "interface-change") \in BOOLEAN
      BY DEF StopReasons
    <3> QED BY <2>8, <3>1, StopStep DEF RuntimeStop
  <2> QED BY <1>3, <2>1, <2>2, <2>3, <2>4, <2>5, <2>6, <2>7, <2>8 DEF Step
<1> QED BY <1>1, <1>2, <1>3 DEF Next

(***************************************************************************)
(* The invariant holds in every reachable state.                           *)
(***************************************************************************)
LEMMA Invariance == Spec => []IInv
BY InitIInv, NextIInv, PTL DEF Spec

(***************************************************************************)
(* Types: every member of a negotiation keeps its type, in particular a    *)
(* cached packet is always a well-formed packet of its kind.               *)
(***************************************************************************)
THEOREM TypeCorrect == Spec => []TypeOK
<1>1. IInv => TypeOK
  BY DEF IInv
<1> QED BY <1>1, Invariance, PTL

(***************************************************************************)
(* The offer probes only a prepared answer, the answer only a started      *)
(* offer, whatever the network loses, repeats or reorders.                 *)
(***************************************************************************)
THEOREM ProbesOnlyPrepared == Spec => []ProbeOnlyPrepared
<1>1. IInv => ProbeOnlyPrepared
  <2> SUFFICES ASSUME IInv PROVE ProbeOnlyPrepared
    OBVIOUS
  <2>1. OfferShape(peer["offer"]) /\ AnswerShape(peer["answer"])
          /\ Link(peer["offer"], peer["answer"])
    BY DEF IInv, Shape, Peers
  <2> QED BY <2>1 DEF ProbeOnlyPrepared, OfferShape, AnswerShape, Link
<1> QED BY <1>1, Invariance, PTL

(***************************************************************************)
(* Two probing peers probe one round under one plan.                       *)
(***************************************************************************)
THEOREM PeersAgree == Spec => []Agreement
<1>1. IInv => Agreement
  <2> SUFFICES ASSUME IInv PROVE Agreement
    OBVIOUS
  <2>1. OfferShape(peer["offer"]) /\ AnswerShape(peer["answer"])
          /\ Link(peer["offer"], peer["answer"])
    BY DEF IInv, Shape, Peers
  <2>2. peer["offer"].st = "Probing" => peer["offer"].round # 0
    BY <2>1 DEF OfferShape
  <2>3. peer["answer"].st = "Probing" => /\ peer["answer"].round # 0
                                         /\ peer["answer"].round = peer["offer"].round
                                         /\ peer["answer"].plan = peer["offer"].plan
    BY <2>1 DEF AnswerShape, Link
  <2> QED BY <2>2, <2>3 DEF Agreement, Peers
<1> QED BY <1>1, Invariance, PTL

-----------------------------------------------------------------------------
(***************************************************************************)
(* Nobody stops for a conflict.  The invariant Good says why, of a peer as *)
(* it stands in the middle of a step: every packet it ever made has a      *)
(* number of its own, below the next one; it has seen only what the other  *)
(* end sent, the HELLO it keeps included; and no CANCEL speaks of a        *)
(* conflict.  What is on the net never goes away, so this survives the     *)
(* steps of the other end.                                                 *)
(***************************************************************************)
Used(p, t) == net[p] \cup t.out \cup Own(t)

Numbered(p, t) ==
    \A m \in Used(p, t) : m.seq < t.seq /\ \A k \in Used(p, t) : m.seq = k.seq => m = k

Good(p, t) ==
    /\ Numbered(p, t)
    /\ t.why # "conflict" /\ (t.st # "Stopped" => t.why = "none")
    /\ \A m \in t.out : m.kind = "Cancel" => m.body.reason # "conflict"
    /\ t.seen \subseteq net[Other(p)]
    /\ t.rhello # NoHello =>
         \E m \in net[Other(p)] : m.kind = "Hello" /\ t.rhello = m.body.hello

Sane(p, t) == t \in PeerType /\ t.hello \in HelloType /\ Good(p, t)

CInv ==
    \A p \in Peers :
        /\ Good(p, peer[p])
        /\ \A m \in net[p] : m.kind = "Cancel" => m.body.reason # "conflict"

\* What numbering does not look at may change.
LEMMA TouchSane ==
    ASSUME NEW p \in Peers, NEW s, Sane(p, s), NEW e \in PeerType, e.hello \in HelloType,
           Own(e) = Own(s), e.out = s.out, e.seq = s.seq, e.seen = s.seen,
           e.why # "conflict", e.st # "Stopped" => e.why = "none",
           \/ e.rhello = s.rhello
           \/ \E m \in net[Other(p)] : m.kind = "Hello" /\ e.rhello = m.body.hello
    PROVE  Sane(p, e)
<1>1. Numbered(p, e)
  BY DEF Sane, Good, Numbered, Used
<1> QED BY <1>1 DEF Sane, Good

\* A packet with the next number is made.
LEMMA MakeSane ==
    ASSUME IInv, NEW p \in Peers, NEW s \in PeerType, Good(p, s), NEW e \in PeerType,
           e.hello \in HelloType,
           NEW m, m.seq = s.seq, Own(e) \subseteq Own(s) \cup {m}, e.out \subseteq s.out \cup {m},
           m.kind = "Cancel" => m.body.reason # "conflict",
           e.seq = s.seq + 1, e.seen = s.seen, e.rhello = s.rhello,
           e.why # "conflict", e.st # "Stopped" => e.why = "none"
    PROVE  Sane(p, e)
<1>1. Used(p, e) \subseteq Used(p, s) \cup {m}
  BY DEF Used
<1>2. PICK n \in Nat : n = s.seq
  BY DEF PeerType
<1>3. \A k \in Used(p, s) : k.seq < n /\ \A j \in Used(p, s) : k.seq = j.seq => k = j
  BY <1>2 DEF Good, Numbered
<1>4. \A k \in Used(p, s) : k.seq # n
  BY <1>3
<1>5. \A k \in Used(p, s) \cup {m} : k.seq < n + 1
  <2>1. \A k \in Used(p, s) : k.seq \in Nat
    <3>1. Used(p, s) \subseteq Packets
      BY OwnPackets, RunningFacts DEF Used, PeerType, PacketSets
    <3> QED BY <3>1 DEF Packets, HelloPackets, PreparePackets, ReadyPackets, StartPackets,
                      StartedPackets, CancelPackets, PacketOf
  <2> QED BY <1>2, <1>3, <2>1
<1>6. Numbered(p, e)
  BY <1>1, <1>2, <1>3, <1>4, <1>5 DEF Numbered
<1> QED BY <1>6 DEF Sane, Good

LEMMA HaltSane ==
    ASSUME NEW p \in Peers, NEW s, Sane(p, s), NEW why \in StopReasons, why # "conflict",
           NEW e, e = Halt(s, why)
    PROVE  Sane(p, e)
<1>1. s \in PeerType /\ s.hello \in HelloType
  BY DEF Sane
<1>2. Mild(s, e) /\ e.out = s.out /\ e.st = "Stopped"
  BY <1>1, HaltFacts
<1>3. e.seq = s.seq /\ e.seen = s.seen /\ e.why = why
  BY <1>1 DEF Halt, PeerType
<1>4. e \in PeerType /\ e.hello \in HelloType /\ Own(e) = Own(s) /\ e.rhello = s.rhello
  BY <1>1, <1>2 DEF Mild, Keeps, Own
<1> QED BY <1>2, <1>3, <1>4, TouchSane

\* Sending a packet that was made before.
LEMMA EmitSane ==
    ASSUME NEW p \in Peers, NEW s, Sane(p, s), NEW m \in Own(s) \cup {NoMsg},
           NEW e, e = Emit(s, m)
    PROVE  Sane(p, e) /\ Own(e) = Own(s)
<1>1. s \in PeerType /\ s.hello \in HelloType /\ m \in Opt(Packets, NoMsg)
  BY OwnPackets DEF Sane, Opt
<1>2. Mild(s, e)
  BY <1>1, EmitFacts
<1>3. e \in PeerType /\ e.hello \in HelloType /\ Own(e) = Own(s) /\ e.rhello = s.rhello
  BY <1>1, <1>2 DEF Mild, Keeps, Own
<1>4. CASE m = NoMsg \/ s.st = "Stopped"
  BY <1>4 DEF Emit
<1>5. CASE ~(m = NoMsg \/ s.st = "Stopped") /\ s.attempts >= s.hello.budget
  <2>1. e = Halt(s, "budget") /\ "budget" \in StopReasons
    BY <1>5 DEF Emit, StopReasons
  <2> QED BY <1>3, <2>1, HaltSane
<1>6. CASE ~(m = NoMsg \/ s.st = "Stopped") /\ ~(s.attempts >= s.hello.budget)
  <2>1. e = [s EXCEPT !.attempts = s.attempts + 1, !.out = s.out \cup {m}]
    BY <1>6 DEF Emit
  <2>2. e.seq = s.seq /\ e.seen = s.seen /\ e.why = s.why /\ e.st = s.st /\ e.out = s.out \cup {m}
    BY <1>1, <2>1 DEF PeerType
  <2>3. m \in Own(s) /\ m.kind # "Cancel"
    <3>1. m \in Own(s)
      BY <1>6
    <3>2. /\ s.hmsg \in HelloPackets \cup {NoMsg} /\ s.prepare \in PreparePackets \cup {NoMsg}
          /\ s.ready \in ReadyPackets \cup {NoMsg} /\ s.start \in StartPackets \cup {NoMsg}
          /\ s.started \in StartedPackets \cup {NoMsg}
      BY <1>1 DEF PeerType, Opt
    <3> QED BY <3>1, <3>2 DEF Own, HelloPackets, PreparePackets, ReadyPackets, StartPackets,
                              StartedPackets, PacketOf
  <2>4. Numbered(p, e)
    <3>1. Used(p, e) = Used(p, s)
      BY <1>3, <2>2, <2>3 DEF Used
    <3> QED BY <2>2, <3>1 DEF Sane, Good, Numbered
  <2> QED BY <1>3, <2>2, <2>3, <2>4 DEF Sane, Good
<1> QED BY <1>4, <1>5, <1>6

LEMMA StopSane ==
    ASSUME IInv, NEW p \in Peers, NEW s, Sane(p, s), NEW why \in StopReasons, why # "conflict",
           NEW notify \in BOOLEAN, NEW e, e = Stop(s, why, notify)
    PROVE  Sane(p, e)
<1>1. s \in PeerType /\ s.hello \in HelloType /\ Good(p, s)
  BY DEF Sane
<1>2. CASE s.st = "Stopped"
  BY <1>2 DEF Stop
<1>3. CASE s.st # "Stopped" /\ ~(notify /\ s.round # 0 /\ s.attempts < s.hello.budget)
  <2>1. e = Halt(s, why)
    BY <1>3 DEF Stop
  <2> QED BY <2>1, HaltSane
<1>4. CASE s.st # "Stopped" /\ notify /\ s.round # 0 /\ s.attempts < s.hello.budget
  <2>1. PICK m : m = Packet(s, "Cancel", [reason |-> why])
    OBVIOUS
  <2>2. PICK a : a = Advance(s)
    OBVIOUS
  <2>3. PICK x : x = Emit(a, m)
    OBVIOUS
  <2>4. e = Halt(x, why)
    BY <1>4, <2>1, <2>2, <2>3 DEF Stop
  <2>5. m.seq = s.seq /\ m.kind = "Cancel" /\ m.body.reason = why
    BY <2>1 DEF Packet
  <2>6. /\ a \in PeerType /\ Keeps(s, a) /\ a.out = s.out /\ a.st = s.st
    BY <1>1, <2>2, AdvanceFacts DEF Mild
  <2>7. a.seq = s.seq + 1 /\ a.seen = s.seen /\ a.why = s.why /\ a.attempts = s.attempts
    BY <1>1, <2>2 DEF Advance, PeerType
  <2>8. m \in CancelPackets
    <3>1. s.round \in Rounds /\ s.seq \in Nat
      BY <1>1, <1>4 DEF PeerType, Opt
    <3> QED BY <2>1, <3>1 DEF Packet, CancelPackets, PacketOf
  <2>9. m \in Opt(Packets, NoMsg) /\ a.hello \in HelloType
    BY <1>1, <2>6, <2>8 DEF Packets, Opt, Keeps
  <2>10. Mild(a, x) /\ x.out \subseteq a.out \cup {m}
    BY <2>3, <2>6, <2>9, EmitFacts
  <2>11. x.seq = a.seq /\ x.seen = a.seen /\ ((x.why = a.why /\ x.st = a.st) \/ x = Halt(a, "budget"))
    <3>1. CASE m = NoMsg \/ a.st = "Stopped"
      BY <2>3, <3>1 DEF Emit
    <3>2. CASE ~(m = NoMsg \/ a.st = "Stopped") /\ a.attempts >= a.hello.budget
      <4>1. x = Halt(a, "budget")
        BY <2>3, <3>2 DEF Emit
      <4> QED BY <2>6, <4>1 DEF Halt, PeerType
    <3>3. CASE ~(m = NoMsg \/ a.st = "Stopped") /\ ~(a.attempts >= a.hello.budget)
      <4>1. x = [a EXCEPT !.attempts = a.attempts + 1, !.out = a.out \cup {m}]
        BY <2>3, <3>3 DEF Emit
      <4> QED BY <2>6, <4>1 DEF PeerType
    <3> QED BY <3>1, <3>2, <3>3
  <2>12. x.why # "conflict" /\ (x.st # "Stopped" => x.why = "none")
    <3>1. a.why # "conflict" /\ (a.st # "Stopped" => a.why = "none")
      BY <1>1, <2>6, <2>7 DEF Good
    <3>2. Halt(a, "budget").why = "budget" /\ Halt(a, "budget").st = "Stopped"
      BY <2>6 DEF Halt, PeerType
    <3> QED BY <2>11, <3>1, <3>2
  <2>13. x \in PeerType /\ x.hello \in HelloType /\ Own(x) = Own(s) /\ x.rhello = s.rhello
    BY <1>1, <2>6, <2>10 DEF Mild, Keeps, Own
  <2>14. Own(x) \subseteq Own(s) \cup {m} /\ x.out \subseteq s.out \cup {m}
    BY <2>6, <2>10, <2>13
  <2>15. x.seq = s.seq + 1 /\ x.seen = s.seen
    BY <2>7, <2>11
  <2>16. Sane(p, x)
    BY <1>1, <2>5, <2>12, <2>13, <2>14, <2>15, MakeSane
  <2> QED BY <2>4, <2>16, HaltSane
<1> QED BY <1>2, <1>3, <1>4

LEMMA PendingSane ==
    ASSUME NEW p \in Peers, NEW s, Sane(p, s), NEW m \in Own(s), NEW n \in Nat,
           NEW e, e = Pending(s, m, n)
    PROVE  Sane(p, e)
<1>1. s \in PeerType /\ s.hello \in HelloType /\ m \in Opt(Packets, NoMsg)
  BY OwnPackets DEF Sane, Opt
<1>2. PICK a : a = [s EXCEPT !.pend = m, !.retries = 0, !.retryAt = n + 1]
  OBVIOUS
<1>3. e = Emit(a, m)
  BY <1>2 DEF Pending
<1>4. 0 \in RetryCount /\ n + 1 \in Nat
  BY DEF RetryCount
<1>5. a \in PeerType
  BY <1>1, <1>2, <1>4 DEF PeerType
<1>6. /\ a.hello = s.hello /\ Own(a) = Own(s) /\ a.out = s.out /\ a.seq = s.seq /\ a.seen = s.seen
      /\ a.why = s.why /\ a.st = s.st /\ a.rhello = s.rhello
  BY <1>1, <1>2 DEF PeerType, Own
<1>7. Sane(p, a)
  BY <1>1, <1>5, <1>6, TouchSane DEF Sane, Good
<1> QED BY <1>3, <1>6, <1>7, EmitSane

LEMMA BeginPreparationSane ==
    ASSUME IInv, NEW p \in Peers, NEW s, Sane(p, s), s.st # "Stopped", NEW ok \in BOOLEAN,
           NEW e, e = BeginPreparation(s, ok)
    PROVE  Sane(p, e)
<1>1. s \in PeerType /\ s.hello \in HelloType
  BY DEF Sane
<1>2. PICK a : a = [s EXCEPT !.st = "Allocating", !.pend = NoMsg]
  OBVIOUS
<1>3. "Allocating" \in States /\ NoMsg \in Opt(Packets, NoMsg) /\ "resources" \in StopReasons
  BY DEF States, Opt, StopReasons
<1>4. a \in PeerType
  BY <1>1, <1>2, <1>3 DEF PeerType
<1>5. /\ a.hello = s.hello /\ Own(a) = Own(s) /\ a.out = s.out /\ a.seq = s.seq /\ a.seen = s.seen
      /\ a.why = s.why /\ a.rhello = s.rhello
  BY <1>1, <1>2 DEF PeerType, Own
<1>6. Sane(p, a)
  BY <1>1, <1>4, <1>5, TouchSane DEF Sane, Good
<1>7. e = IF ok THEN a ELSE Stop(a, "resources", TRUE)
  BY <1>2 DEF BeginPreparation
<1> QED BY <1>3, <1>6, <1>7, StopSane

LEMMA StartSane ==
    ASSUME IInv, NEW p \in Peers, NEW s, Sane(p, s), NEW fail \in {"none", "ineligible", "timeout"},
           NEW e, e = Start(s, fail)
    PROVE  Sane(p, e)
<1>1. s \in PeerType /\ s.hello \in HelloType
  BY DEF Sane
<1>2. CASE s.st \in {"Probing", "Stopped"}
  BY <1>2 DEF Start
<1>3. CASE s.st \notin {"Probing", "Stopped"}
  <2>1. PICK a : a = [s EXCEPT !.st = "Probing"]
    OBVIOUS
  <2>2. "Probing" \in States
    BY DEF States
  <2>3. a \in PeerType
    BY <1>1, <2>1, <2>2 DEF PeerType
  <2>4. /\ a.hello = s.hello /\ Own(a) = Own(s) /\ a.out = s.out /\ a.seq = s.seq
        /\ a.seen = s.seen /\ a.why = s.why /\ a.rhello = s.rhello
    BY <1>1, <2>1 DEF PeerType, Own
  <2>5. Sane(p, a)
    BY <1>1, <1>3, <2>3, <2>4, TouchSane DEF Sane, Good
  <2>6. e = IF fail = "none" THEN a ELSE Stop(a, fail, TRUE)
    BY <1>3, <2>1 DEF Start
  <2>7. fail # "none" => fail \in StopReasons /\ fail # "conflict"
    BY DEF StopReasons
  <2> QED BY <2>5, <2>6, <2>7, StopSane
<1> QED BY <1>2, <1>3

\* The end of a step: what the peer made reaches the net.
LEMMA ApplyCInv ==
    ASSUME IInv, CInv, NEW p \in Peers, NEW t, Sane(p, t), Apply(p, t)
    PROVE  CInv'
<1>1. PICK u : u = [t EXCEPT !.out = {}]
  OBVIOUS
<1>2. /\ peer' = [peer EXCEPT ![p] = u]
      /\ net' = [net EXCEPT ![p] = net[p] \cup t.out]
  BY <1>1 DEF Apply
<1>3. t \in PeerType /\ Good(p, t)
  BY DEF Sane
<1>4. /\ u.out = {} /\ Own(u) = Own(t) /\ u.seq = t.seq /\ u.why = t.why /\ u.st = t.st
      /\ u.seen = t.seen /\ u.rhello = t.rhello
  BY <1>1, <1>3 DEF PeerType, Own
<1>5. /\ peer'[p] = u /\ net'[p] = net[p] \cup t.out
      /\ \A q \in Peers : q # p => peer'[q] = peer[q] /\ net'[q] = net[q]
  BY <1>2 DEF IInv, TypeOK
<1>6. \A q \in Peers : Other(q) \in Peers /\ Other(q) # q
  BY DEF Other, Peers
<1>7. net'[Other(p)] = net[Other(p)]
  BY <1>5, <1>6
<1>8. Good(p, peer[p])'
  <2>1. (Used(p, peer[p]))' = Used(p, t)
    BY <1>4, <1>5 DEF Used
  <2>2. Numbered(p, peer[p])'
    BY <1>3, <1>4, <1>5, <2>1 DEF Good, Numbered
  <2> QED BY <1>3, <1>4, <1>5, <1>7, <2>2 DEF Good
<1>9. ASSUME NEW q \in Peers, q # p PROVE Good(q, peer[q])'
  <2>1. peer'[q] = peer[q] /\ net'[q] = net[q] /\ Good(q, peer[q])
    BY <1>5, <1>9 DEF CInv
  <2>2. net[Other(q)] \subseteq net'[Other(q)]
    BY <1>5, <1>6
  <2>3. Numbered(q, peer[q])'
    BY <2>1 DEF Good, Numbered, Used
  <2> QED BY <2>1, <2>2, <2>3 DEF Good
<1>10. ASSUME NEW q \in Peers, NEW m \in net'[q], m.kind = "Cancel"
       PROVE  m.body.reason # "conflict"
  BY <1>3, <1>5, <1>10 DEF CInv, Good
<1> QED BY <1>8, <1>9, <1>10 DEF CInv

\* A running peer is sane, and stays so when it records a packet as seen.
LEMMA RunningSane ==
    ASSUME IInv, CInv, NEW p \in Peers, peer[p].st # "Idle"
    PROVE  Sane(p, peer[p])
BY RunningFacts DEF Sane, CInv

LEMMA SeeSane ==
    ASSUME IInv, CInv, NEW p \in Peers, Active(peer[p]), NEW m \in net[Other(p)],
           NEW a, a = See(peer[p], m)
    PROVE  Sane(p, a) /\ a.why = "none"
<1>1. peer[p] \in PeerType /\ peer[p].st \notin {"Idle", "Stopped"} /\ Sane(p, peer[p])
  BY RunningFacts, RunningSane DEF Active
<1>2. a \in PeerType /\ Mild(peer[p], a) /\ a.st = peer[p].st /\ a.out = {}
        /\ a.hello \in HelloType /\ Own(a) = Own(peer[p])
  BY SeenFacts
<1>3. a.seq = peer[p].seq /\ a.why = peer[p].why /\ a.seen = peer[p].seen \cup {m}
  BY <1>1 DEF See, PeerType
<1>4. a.rhello = peer[p].rhello
  BY <1>2 DEF Mild, Keeps
<1>5. peer[p].out = {}
  BY RunningFacts
<1>6. Numbered(p, a)
  BY <1>1, <1>2, <1>3, <1>5 DEF Sane, Good, Numbered, Used
<1> QED BY <1>1, <1>2, <1>3, <1>4, <1>6 DEF Sane, Good

\* All that the other end sent carries numbers of its own.
LEMMA SeenAgrees ==
    ASSUME IInv, CInv, NEW p \in Peers, NEW m \in net[Other(p)]
    PROVE  ~Conflict(peer[p], m)
<1>1. Other(p) \in Peers
  BY DEF Other, Peers
<1>2. \A x, y \in net[Other(p)] : x.seq = y.seq => x = y
  BY <1>1 DEF CInv, Good, Numbered, Used
<1>3. peer[p].seen \subseteq net[Other(p)]
  BY DEF CInv, Good
<1> QED BY <1>2, <1>3 DEF Conflict

LEMMA StopCInv ==
    ASSUME IInv, CInv, NEW p \in Peers, Active(peer[p]), NEW why \in StopReasons,
           why # "conflict", NEW notify \in BOOLEAN, Apply(p, Stop(peer[p], why, notify))
    PROVE  CInv'
<1>1. Sane(p, peer[p])
  BY RunningSane DEF Active
<1>2. Sane(p, Stop(peer[p], why, notify))
  BY <1>1, StopSane
<1> QED BY <1>2, ApplyCInv

LEMMA BeginCInv ==
    ASSUME IInv, CInv, NEW p \in Peers, NEW h \in Hellos[p], Begin(p, h)
    PROVE  CInv'
<1>1. PICK hello : hello = Packet(peer[p], "Hello", [hello |-> h])
  OBVIOUS
<1>2. PICK s : s = [Advance(peer[p]) EXCEPT !.st = "Hello", !.hello = h, !.hmsg = hello,
                                            !.deadline = now + h.remaining]
  OBVIOUS
<1>3. peer[p].st = "Idle" /\ Apply(p, Pending(s, hello, now))
  BY <1>1, <1>2 DEF Begin
<1>4. h \in HelloType /\ now \in Nat /\ now + h.remaining \in Nat
  BY HellosAssumption DEF HelloType, IInv, TypeOK
<1>5. peer[p] \in PeerType /\ peer[p].out = {} /\ Good(p, peer[p])
  BY RunningFacts DEF CInv
<1>6. PICK d : d = Advance(peer[p])
  OBVIOUS
<1>7. /\ d \in PeerType /\ Own(d) = Own(peer[p]) /\ d.rhello = peer[p].rhello /\ d.out = {}
  BY <1>5, <1>6, AdvanceFacts DEF Mild, Keeps, Own
<1>8. d.seq = peer[p].seq + 1 /\ d.seen = peer[p].seen /\ d.why = peer[p].why
  BY <1>5, <1>6 DEF Advance, PeerType
<1>9. hello = [kind |-> "Hello", round |-> 0, seq |-> peer[p].seq, body |-> [hello |-> h]]
  BY <1>1 DEF Packet
<1>10. hello \in HelloPackets /\ hello # NoMsg
  <2>1. peer[p].seq \in Nat
    BY <1>5 DEF PeerType
  <2>2. hello \in HelloPackets
    BY <1>4, <1>9, <2>1 DEF HelloPackets, PacketOf
  <2> QED BY <1>9, <2>2 DEF NoMsg
<1>11. "Hello" \in States /\ h \in Opt(HelloType, NoHello) /\ hello \in Opt(HelloPackets, NoMsg)
  BY <1>4, <1>10 DEF States, Opt
<1>12. s \in PeerType
  BY <1>2, <1>4, <1>6, <1>7, <1>11 DEF PeerType
<1>13. /\ s.hello = h /\ s.hmsg = hello /\ s.prepare = d.prepare /\ s.ready = d.ready
       /\ s.start = d.start /\ s.started = d.started /\ s.out = d.out /\ s.seq = d.seq
       /\ s.seen = d.seen /\ s.rhello = d.rhello /\ s.why = d.why
  BY <1>2, <1>6, <1>7 DEF PeerType
<1>14. Own(s) \subseteq Own(peer[p]) \cup {hello} /\ hello \in Own(s)
  BY <1>7, <1>10, <1>13 DEF Own
<1>15. hello.seq = peer[p].seq /\ hello.kind # "Cancel" /\ s.seq = peer[p].seq + 1
  BY <1>8, <1>9, <1>13
<1>16. s.why = "none"
  BY <1>3, <1>5, <1>8, <1>13 DEF Good
<1>17. Sane(p, s)
  BY <1>4, <1>5, <1>7, <1>8, <1>12, <1>13, <1>14, <1>15, <1>16, MakeSane
<1>18. Sane(p, Pending(s, hello, now))
  BY <1>4, <1>14, <1>17, PendingSane
<1> QED BY <1>3, <1>18, ApplyCInv

LEMMA FinishCInv ==
    ASSUME IInv, CInv, NEW p \in Peers, peer[p].st = "Allocating",
           Apply(p, FinishPreparation(p, peer[p], now))
    PROVE  CInv'
<1>1. PICK s : s = peer[p]
  OBVIOUS
<1>2. /\ s \in PeerType /\ s.out = {} /\ Shape(p, s) /\ s.hello \in HelloType
      /\ s.hmsg # NoMsg /\ now \in Nat /\ Sane(p, s)
  BY <1>1, RunningFacts, RunningSane DEF IInv, TypeOK
<1>3. s.plan \in PlanType /\ s.round \in Rounds
  <2>1. s.plan # NoPlan /\ s.round # 0
    BY <1>1, <1>2 DEF Shape, OfferShape, AnswerShape
  <2> QED BY <1>2, <2>1 DEF PeerType, Opt
<1>4. Digest(s.plan) \in DigestType /\ Digest(s.plan) \in Opt(DigestType, NoDigest)
  BY <1>3 DEF Digest, DigestType, Opt
<1>5. PICK d : d = [s EXCEPT !.digest = Digest(s.plan)]
  OBVIOUS
<1>6. d \in PeerType
  BY <1>2, <1>4, <1>5 DEF PeerType
<1>7. /\ d.digest = Digest(s.plan) /\ d.out = s.out /\ d.seq = s.seq /\ d.seen = s.seen
      /\ d.why = s.why /\ d.st = s.st /\ d.hello = s.hello /\ d.rhello = s.rhello
      /\ d.plan = s.plan /\ d.round = s.round /\ Own(d) = Own(s) /\ d.hmsg = s.hmsg
  BY <1>2, <1>5 DEF PeerType, Own
<1>8. Sane(p, d) /\ Good(p, d) /\ d.why = "none"
  <2>1. Sane(p, d)
    BY <1>2, <1>6, <1>7, TouchSane DEF Sane, Good
  <2> QED BY <1>1, <1>7, <2>1 DEF Sane, Good
<1>9. PICK v : v = Advance(d)
  OBVIOUS
<1>10. /\ v \in PeerType /\ Keeps(d, v) /\ v.out = d.out
       /\ v.seq = d.seq + 1 /\ v.seen = d.seen /\ v.why = d.why
  <2>1. v \in PeerType /\ Keeps(d, v) /\ v.out = d.out
    BY <1>6, <1>9, AdvanceFacts DEF Mild
  <2>2. v.seq = d.seq + 1 /\ v.seen = d.seen /\ v.why = d.why
    BY <1>6, <1>9 DEF Advance, PeerType
  <2> QED BY <2>1, <2>2
<1>11. CASE p = "offer"
  <2>1. PICK m : m = Packet(d, "Prepare", [plan |-> d.plan])
    OBVIOUS
  <2>2. PICK a : a = [v EXCEPT !.prepare = m, !.st = "Preparing"]
    OBVIOUS
  <2>3. PICK e : e = Emit(a, d.hmsg)
    OBVIOUS
  <2>4. Apply(p, Pending(e, m, now))
    BY <1>1, <1>5, <1>9, <1>11, <2>1, <2>2, <2>3 DEF FinishPreparation
  <2>5. m = [kind |-> "Prepare", round |-> s.round, seq |-> d.seq, body |-> [plan |-> s.plan]]
    BY <1>7, <2>1 DEF Packet
  <2>6. m \in PreparePackets /\ m # NoMsg
    <3>1. d.seq \in Nat
      BY <1>6 DEF PeerType
    <3>2. m \in PreparePackets
      BY <1>3, <2>5, <3>1 DEF PreparePackets, PacketOf
    <3> QED BY <2>5, <3>2 DEF NoMsg
  <2>7. m \in Opt(PreparePackets, NoMsg) /\ "Preparing" \in States
    BY <2>6 DEF Opt, States
  <2>8. a \in PeerType
    BY <1>10, <2>2, <2>7 DEF PeerType
  <2>9. /\ a.hello = v.hello /\ a.hmsg = v.hmsg /\ a.prepare = m /\ a.ready = v.ready
        /\ a.start = v.start /\ a.started = v.started /\ a.out = v.out /\ a.seq = v.seq
        /\ a.seen = v.seen /\ a.rhello = v.rhello /\ a.why = v.why
    BY <1>10, <2>2 DEF PeerType
  <2>10. /\ Own(a) \subseteq Own(d) \cup {m} /\ m \in Own(a) /\ a.hello \in HelloType
         /\ a.rhello = d.rhello /\ a.hmsg = d.hmsg
    BY <1>2, <1>7, <1>10, <2>6, <2>9 DEF Own, Keeps
  <2>11. m.seq = d.seq /\ m.kind # "Cancel"
    BY <2>5
  <2>12. Sane(p, a)
    BY <1>6, <1>8, <1>10, <2>8, <2>9, <2>10, <2>11, MakeSane
  <2>13. d.hmsg \in Own(a)
    BY <1>2, <1>7, <2>10 DEF Own
  <2>14. Sane(p, e) /\ Own(e) = Own(a)
    BY <2>3, <2>12, <2>13, EmitSane
  <2>15. Sane(p, Pending(e, m, now))
    BY <1>2, <2>10, <2>14, PendingSane
  <2> QED BY <2>4, <2>15, ApplyCInv
<1>12. CASE p = "answer"
  <2>1. PICK m : m = Packet(d, "Ready", [digest |-> d.digest, budget |-> d.plan.budget])
    OBVIOUS
  <2>2. PICK a : a = [v EXCEPT !.ready = m, !.st = "Ready"]
    OBVIOUS
  <2>3. Apply(p, Pending(a, m, now))
    BY <1>1, <1>5, <1>9, <1>12, <2>1, <2>2 DEF FinishPreparation
  <2>4. m = [kind |-> "Ready", round |-> s.round, seq |-> d.seq,
             body |-> [digest |-> Digest(s.plan), budget |-> s.plan.budget]]
    BY <1>7, <2>1 DEF Packet
  <2>5. m \in ReadyPackets /\ m # NoMsg
    <3>1. d.seq \in Nat /\ s.plan.budget \in 1..48
      BY <1>3, <1>6 DEF PeerType, PlanType
    <3>2. m \in ReadyPackets
      BY <1>3, <1>4, <2>4, <3>1 DEF ReadyPackets, PacketOf
    <3> QED BY <2>4, <3>2 DEF NoMsg
  <2>6. m \in Opt(ReadyPackets, NoMsg) /\ "Ready" \in States
    BY <2>5 DEF Opt, States
  <2>7. a \in PeerType
    BY <1>10, <2>2, <2>6 DEF PeerType
  <2>8. /\ a.hello = v.hello /\ a.hmsg = v.hmsg /\ a.prepare = v.prepare /\ a.ready = m
        /\ a.start = v.start /\ a.started = v.started /\ a.out = v.out /\ a.seq = v.seq
        /\ a.seen = v.seen /\ a.rhello = v.rhello /\ a.why = v.why
    BY <1>10, <2>2 DEF PeerType
  <2>9. /\ Own(a) \subseteq Own(d) \cup {m} /\ m \in Own(a) /\ a.hello \in HelloType
        /\ a.rhello = d.rhello
    BY <1>2, <1>7, <1>10, <2>5, <2>8 DEF Own, Keeps
  <2>10. m.seq = d.seq /\ m.kind # "Cancel"
    BY <2>4
  <2>11. Sane(p, a)
    BY <1>6, <1>8, <1>10, <2>7, <2>8, <2>9, <2>10, MakeSane
  <2>12. Sane(p, Pending(a, m, now))
    BY <1>2, <2>9, <2>11, PendingSane
  <2> QED BY <2>3, <2>12, ApplyCInv
<1> QED BY <1>11, <1>12 DEF Peers

LEMMA RetryCInv ==
    ASSUME IInv, CInv, NEW p \in Peers, TickRetry(p)
    PROVE  CInv'
<1>1. PICK s : s = peer[p]
  OBVIOUS
<1>2. PICK h : h = IF s.pend.kind = "Prepare" THEN Emit(s, s.hmsg) ELSE s
  OBVIOUS
<1>3. PICK e : e = Emit(h, s.pend)
  OBVIOUS
<1>4. PICK t : t = [e EXCEPT !.retryAt = now + Waits[s.retries + 1], !.retries = e.retries + 1]
  OBVIOUS
<1>5. /\ s \in PeerType /\ s.st # "Idle" /\ s.hello \in HelloType /\ s.hmsg \in Own(s)
      /\ s.pend \in Own(s) /\ s.retries < 3 /\ now \in Nat /\ Sane(p, s)
  BY <1>1, RunningFacts, RunningSane DEF TickRetry, RetryDue, Active, Own, IInv, TypeOK
<1>6. Sane(p, h) /\ Own(h) = Own(s)
  BY <1>2, <1>5, EmitSane
<1>7. Sane(p, e) /\ e \in PeerType
  BY <1>3, <1>5, <1>6, EmitSane DEF Sane
<1>8. Apply(p, IF e.st = "Stopped" THEN e ELSE t)
  BY <1>1, <1>2, <1>3, <1>4 DEF TickRetry, Retransmit
<1>9. CASE e.st = "Stopped"
  BY <1>7, <1>8, <1>9, ApplyCInv
<1>10. CASE e.st # "Stopped"
  <2>1. e.retries = s.retries
    <3>1. s.hmsg \in Opt(Packets, NoMsg) /\ s.pend \in Opt(Packets, NoMsg)
      BY <1>5, OwnPackets DEF Opt
    <3>2. h.retries = s.retries
      BY <1>2, <1>5, <3>1, EmitFacts DEF Mild, Keeps
    <3>3. e.retries = h.retries
      BY <1>3, <1>6, <3>1, EmitFacts DEF Mild, Keeps, Sane
    <3> QED BY <3>2, <3>3
  <2>2. now + Waits[s.retries + 1] \in Nat /\ e.retries + 1 \in RetryCount
    <3>1. s.retries \in 0..2
      BY <1>5 DEF PeerType, RetryCount
    <3>2. Waits[s.retries + 1] \in Nat
      BY <3>1, WaitsAssumption
    <3> QED BY <1>5, <2>1, <3>1, <3>2 DEF RetryCount
  <2>3. t \in PeerType
    BY <1>4, <1>7, <2>2 DEF PeerType
  <2>4. /\ t.hello = e.hello /\ Own(t) = Own(e) /\ t.out = e.out /\ t.seq = e.seq
        /\ t.seen = e.seen /\ t.why = e.why /\ t.st = e.st /\ t.rhello = e.rhello
    BY <1>4, <1>7 DEF PeerType, Own
  <2>5. Sane(p, t)
    BY <1>7, <2>3, <2>4, TouchSane DEF Sane, Good
  <2> QED BY <1>8, <1>10, <2>5, ApplyCInv
<1> QED BY <1>9, <1>10

\* Dropping the pending packet.
LEMMA ClearPendingSane ==
    ASSUME NEW p \in Peers, NEW s, Sane(p, s), NEW e, e = [s EXCEPT !.pend = NoMsg]
    PROVE  Sane(p, e)
<1>1. s \in PeerType /\ s.hello \in HelloType
  BY DEF Sane
<1>2. Mild(s, e) /\ e.out = s.out
  BY <1>1, ClearPendingFacts
<1>3. e.seq = s.seq /\ e.seen = s.seen /\ e.why = s.why /\ e.st = s.st
  BY <1>1 DEF PeerType
<1>4. e \in PeerType /\ e.hello \in HelloType /\ Own(e) = Own(s) /\ e.rhello = s.rhello
  BY <1>1, <1>2 DEF Mild, Keeps, Own
<1> QED BY <1>2, <1>3, <1>4, TouchSane DEF Sane, Good

LEMMA ExhaustedCInv ==
    ASSUME IInv, CInv, NEW p \in Peers, TickExhausted(p)
    PROVE  CInv'
<1>1. Active(peer[p]) /\ Sane(p, peer[p])
  BY RunningSane DEF TickExhausted, RetryDue, Active
<1>2. CASE peer[p].pend.kind = "Hello"
  BY <1>1, <1>2, ClearPendingSane, ApplyCInv DEF TickExhausted
<1>3. CASE peer[p].pend.kind # "Hello"
  <2>1. "timeout" \in StopReasons
    BY DEF StopReasons
  <2> QED BY <1>1, <1>3, <2>1, StopCInv DEF TickExhausted
<1> QED BY <1>2, <1>3

\* The other end has made one HELLO.
LEMMA OneHello ==
    ASSUME NEW q \in PeerType, NEW m \in Own(q) \cup CancelPackets, m.kind = "Hello"
    PROVE  m = q.hmsg
<1>1. /\ q.hmsg \in HelloPackets \cup {NoMsg} /\ q.prepare \in PreparePackets \cup {NoMsg}
      /\ q.ready \in ReadyPackets \cup {NoMsg} /\ q.start \in StartPackets \cup {NoMsg}
      /\ q.started \in StartedPackets \cup {NoMsg}
  BY DEF PeerType, Opt
<1> QED BY <1>1 DEF Own, HelloPackets, PreparePackets, ReadyPackets, StartPackets,
                    StartedPackets, CancelPackets, PacketOf

LEMMA FirstHelloSane ==
    ASSUME IInv, CInv, NEW p \in Peers, NEW m \in net[Other(p)], Active(peer[p]),
           NEW r \in Rounds \cup {0}, NEW ok \in BOOLEAN, m.kind = "Hello",
           NEW a, a = See(peer[p], m), NEW e, e = OnFirstHello(p, a, m, r, ok)
    PROVE  Sane(p, e)
<1>1. Sane(p, a) /\ a.why = "none"
  BY SeeSane
<1>2. a \in PeerType /\ a.hello \in HelloType /\ m.body.hello \in HelloType
        /\ a.hmsg \in Own(a) /\ a.st # "Stopped"
  BY SeenFacts, KindFacts
<1>3. PICK h : h = [a EXCEPT !.rhello = m.body.hello]
  OBVIOUS
<1>4. PICK plan : plan = MakePunchPlan(a.hello, m.body.hello)
  OBVIOUS
<1>5. plan \in Opt(PlanType, NoPlan) /\ m.body.hello \in Opt(HelloType, NoHello)
        /\ r \in Opt(Rounds, 0)
  BY <1>2, <1>4, PlanFacts DEF Opt
<1>6. h \in PeerType
  BY <1>2, <1>3, <1>5 DEF PeerType
<1>7. /\ h.hello = a.hello /\ Own(h) = Own(a) /\ h.out = a.out /\ h.seq = a.seq
      /\ h.seen = a.seen /\ h.why = a.why /\ h.st = a.st /\ h.hmsg = a.hmsg
      /\ h.rhello = m.body.hello
  BY <1>2, <1>3 DEF PeerType, Own
<1>8. Sane(p, h)
  BY <1>1, <1>2, <1>6, <1>7, TouchSane
<1>9. CASE p = "answer"
  <2>1. e = Emit(h, h.hmsg) /\ h.hmsg \in Own(h)
    BY <1>2, <1>3, <1>7, <1>9 DEF OnFirstHello
  <2> QED BY <1>8, <2>1, EmitSane
<1>10. CASE p # "answer" /\ plan = NoPlan
  <2>1. e = Stop(h, "ineligible", FALSE) /\ "ineligible" \in StopReasons
    BY <1>3, <1>4, <1>10 DEF OnFirstHello, StopReasons
  <2> QED BY <1>8, <2>1, StopSane
<1>11. CASE p # "answer" /\ plan # NoPlan /\ r = 0
  <2>1. PICK b : b = [h EXCEPT !.plan = plan]
    OBVIOUS
  <2>2. e = Stop(b, "resources", FALSE) /\ "resources" \in StopReasons
    BY <1>3, <1>4, <1>11, <2>1 DEF OnFirstHello, StopReasons
  <2>3. b \in PeerType
    BY <1>5, <1>6, <2>1 DEF PeerType
  <2>4. /\ b.hello = h.hello /\ Own(b) = Own(h) /\ b.out = h.out /\ b.seq = h.seq
        /\ b.seen = h.seen /\ b.why = h.why /\ b.rhello = h.rhello
    BY <1>6, <2>1 DEF PeerType, Own
  <2>5. Sane(p, b)
    BY <1>1, <1>2, <1>7, <1>8, <2>3, <2>4, TouchSane
  <2> QED BY <2>2, <2>5, StopSane
<1>12. CASE p # "answer" /\ plan # NoPlan /\ r # 0
  <2>1. PICK b : b = [h EXCEPT !.plan = plan, !.round = r]
    OBVIOUS
  <2>2. e = BeginPreparation(b, ok)
    BY <1>3, <1>4, <1>12, <2>1 DEF OnFirstHello
  <2>3. b \in PeerType
    BY <1>5, <1>6, <2>1 DEF PeerType
  <2>4. /\ b.hello = h.hello /\ Own(b) = Own(h) /\ b.out = h.out /\ b.seq = h.seq
        /\ b.seen = h.seen /\ b.why = h.why /\ b.rhello = h.rhello /\ b.st = h.st
    BY <1>6, <2>1 DEF PeerType, Own
  <2>5. Sane(p, b) /\ b.st # "Stopped"
    BY <1>1, <1>2, <1>7, <1>8, <2>3, <2>4, TouchSane
  <2> QED BY <2>2, <2>5, BeginPreparationSane
<1> QED BY <1>9, <1>10, <1>11, <1>12

LEMMA RepeatedHelloSane ==
    ASSUME IInv, CInv, NEW p \in Peers, NEW m \in net[Other(p)], Active(peer[p]),
           m.kind = "Hello", peer[p].rhello # NoHello,
           NEW a, a = See(peer[p], m), NEW e, e = OnRepeatedHello(p, a, m)
    PROVE  Sane(p, e)
<1>1. Sane(p, a)
  BY SeeSane
<1>2. a.hmsg \in Own(a) /\ Mild(peer[p], a)
  BY SeenFacts
<1>3. PICK k \in net[Other(p)] : k.kind = "Hello" /\ peer[p].rhello = k.body.hello
  BY DEF CInv, Good
<1>4. k = m
  <2>1. PICK q : q = peer[Other(p)]
    OBVIOUS
  <2>2. q \in PeerType /\ m \in Own(q) \cup CancelPackets /\ k \in Own(q) \cup CancelPackets
    BY <2>1, SeenFacts
  <2> QED BY <1>3, <2>2, OneHello
<1>5. a.rhello = m.body.hello
  BY <1>2, <1>3, <1>4 DEF Mild, Keeps
<1>6. CASE p = "offer" /\ a.prepare # NoMsg /\ a.st = "Preparing"
  <2>1. PICK x : x = Emit(a, a.hmsg)
    OBVIOUS
  <2>2. e = Emit(x, a.prepare)
    BY <1>5, <1>6, <2>1 DEF OnRepeatedHello
  <2>3. Sane(p, x) /\ Own(x) = Own(a)
    BY <1>1, <1>2, <2>1, EmitSane
  <2>4. a.prepare \in Own(x)
    BY <1>6, <2>3 DEF Own
  <2> QED BY <2>2, <2>3, <2>4, EmitSane
<1>7. CASE ~(p = "offer" /\ a.prepare # NoMsg /\ a.st = "Preparing")
  BY <1>1, <1>5, <1>7 DEF OnRepeatedHello
<1> QED BY <1>6, <1>7

\* The answer's plan is the plan of the offer's PREPARE, once it has one.
LEMMA PrepareSane ==
    ASSUME IInv, CInv, NEW m \in net["offer"], Active(peer["answer"]), NEW ok \in BOOLEAN,
           m.kind = "Prepare", NEW a, a = See(peer["answer"], m),
           NEW e, e = OnPrepare(a, m, ok)
    PROVE  Sane("answer", e)
<1>1. "answer" \in Peers /\ "offer" \in Peers /\ Other("answer") = "offer"
  BY DEF Peers, Other
<1>2. Sane("answer", a) /\ a.why = "none"
  BY <1>1, SeeSane
<1>3. PICK o : o = peer["offer"]
  OBVIOUS
<1>4. /\ a \in PeerType /\ Mild(peer["answer"], a) /\ a.st # "Stopped" /\ a.hello \in HelloType
      /\ AnswerShape(a) /\ OfferShape(o) /\ o \in PeerType /\ m \in Own(o) \cup CancelPackets
  BY <1>1, <1>3, SeenFacts DEF Shape
<1>5. m = o.prepare /\ o.prepare # NoMsg
  <2>1. m = o.prepare /\ m \in Packets
    BY <1>4, KindFacts
  <2>2. NoMsg \notin Packets
    BY DEF NoMsg, Packets, HelloPackets, PreparePackets, ReadyPackets, StartPackets,
           StartedPackets, CancelPackets, PacketOf
  <2> QED BY <2>1, <2>2
<1>6. m.round = o.round /\ m.body.plan = o.plan
  BY <1>4, <1>5 DEF OfferShape
<1>7. o.round \in Opt(Rounds, 0) /\ o.plan \in Opt(PlanType, NoPlan)
  BY <1>4 DEF PeerType
<1>8. a.plan # NoPlan => a.plan = m.body.plan
  <2>1. Link(o, peer["answer"])
    BY <1>3 DEF IInv
  <2> QED BY <1>4, <1>6, <2>1 DEF Link, AnswerShape, Mild, Keeps
<1>9. CASE a.plan # NoPlan
  <2>1. e = Emit(a, a.ready) /\ a.ready \in Own(a) \cup {NoMsg}
    BY <1>8, <1>9 DEF OnPrepare, Own
  <2> QED BY <1>1, <1>2, <2>1, EmitSane
<1>10. CASE a.plan = NoPlan
  <2>1. PICK b : b = [a EXCEPT !.round = m.round, !.plan = m.body.plan]
    OBVIOUS
  <2>2. e = a \/ e = BeginPreparation(b, ok)
    BY <1>10, <2>1 DEF OnPrepare
  <2>3. b \in PeerType
    BY <1>4, <1>6, <1>7, <2>1 DEF PeerType
  <2>4. /\ b.hello = a.hello /\ Own(b) = Own(a) /\ b.out = a.out /\ b.seq = a.seq
        /\ b.seen = a.seen /\ b.why = a.why /\ b.rhello = a.rhello /\ b.st = a.st
    BY <1>4, <2>1 DEF PeerType, Own
  <2>5. Sane("answer", b) /\ b.st # "Stopped"
    BY <1>1, <1>2, <1>4, <2>3, <2>4, TouchSane
  <2> QED BY <1>1, <1>2, <2>2, <2>5, BeginPreparationSane
<1> QED BY <1>9, <1>10

\* A packet of the round that carries the digest is made and kept.
LEMMA RoundPacket ==
    ASSUME NEW a \in PeerType, a.round # 0, a.digest = Digest(a.plan), a.plan # NoPlan,
           NEW k, NEW m, m = Packet(a, k, [digest |-> a.digest]), k \in {"Start", "Started"}
    PROVE  /\ m \in PacketOf(k, Rounds, [digest : DigestType]) /\ m # NoMsg
           /\ m.seq = a.seq /\ m.kind # "Cancel"
<1>1. a.round \in Rounds /\ a.seq \in Nat /\ a.plan \in PlanType
  BY DEF PeerType, Opt
<1>2. a.digest \in DigestType
  BY <1>1 DEF Digest, DigestType
<1>3. m = [kind |-> k, round |-> a.round, seq |-> a.seq, body |-> [digest |-> a.digest]]
  BY DEF Packet
<1>4. m # NoMsg
  BY <1>3 DEF NoMsg
<1> QED BY <1>1, <1>2, <1>3, <1>4 DEF PacketOf

LEMMA ReadySane ==
    ASSUME IInv, CInv, NEW m \in net["answer"], Active(peer["offer"]),
           NEW fail \in {"none", "ineligible", "timeout"},
           NEW a, a = See(peer["offer"], m), NEW e, e = OnReady(a, m, now, fail)
    PROVE  Sane("offer", e)
<1>1. "offer" \in Peers /\ Other("offer") = "answer" /\ now \in Nat
  BY DEF Peers, Other, IInv, TypeOK
<1>2. Sane("offer", a) /\ a.why = "none" /\ Good("offer", a)
  BY <1>1, SeeSane DEF Sane
<1>3. a \in PeerType /\ a.hello \in HelloType /\ OfferShape(a)
  BY <1>1, SeenFacts DEF Shape
<1>4. PICK k : k = Packet(a, "Start", [digest |-> a.digest])
  OBVIOUS
<1>5. PICK d : d = Advance(a)
  OBVIOUS
<1>6. PICK x : x = [d EXCEPT !.start = k]
  OBVIOUS
<1>7. PICK y : y = Start(x, fail)
  OBVIOUS
<1>8. \/ e = a
      \/ a.st = "Probing" /\ e = Emit(a, a.start)
      \/ a.st = "Preparing" /\ e = Pending(y, k, now)
  BY <1>4, <1>5, <1>6, <1>7 DEF OnReady
<1>9. CASE e = a
  BY <1>2, <1>9
<1>10. CASE a.st = "Probing" /\ e = Emit(a, a.start)
  <2>1. a.start \in Own(a) \cup {NoMsg}
    BY DEF Own
  <2> QED BY <1>1, <1>2, <1>10, <2>1, EmitSane
<1>11. CASE a.st = "Preparing" /\ e = Pending(y, k, now)
  <2>1. a.round # 0 /\ a.plan # NoPlan /\ a.digest = Digest(a.plan) /\ a.start = NoMsg
    BY <1>3, <1>11 DEF OfferShape
  <2>2. k \in StartPackets /\ k # NoMsg /\ k.seq = a.seq /\ k.kind # "Cancel"
    BY <1>3, <1>4, <2>1, RoundPacket DEF StartPackets
  <2>3. d \in PeerType /\ Keeps(a, d) /\ d.out = a.out
    BY <1>3, <1>5, AdvanceFacts DEF Mild
  <2>4. d.seq = a.seq + 1 /\ d.seen = a.seen /\ d.why = a.why
    BY <1>3, <1>5 DEF Advance, PeerType
  <2>5. k \in Opt(StartPackets, NoMsg)
    BY <2>2 DEF Opt
  <2>6. x \in PeerType
    BY <1>6, <2>3, <2>5 DEF PeerType
  <2>7. /\ x.hello = d.hello /\ x.hmsg = d.hmsg /\ x.prepare = d.prepare /\ x.ready = d.ready
        /\ x.start = k /\ x.started = d.started /\ x.out = d.out /\ x.seq = d.seq
        /\ x.seen = d.seen /\ x.rhello = d.rhello /\ x.why = d.why
    BY <1>6, <2>3 DEF PeerType
  <2>8. /\ Own(x) \subseteq Own(a) \cup {k} /\ k \in Own(x) /\ x.hello \in HelloType
        /\ x.rhello = a.rhello
    BY <1>3, <2>2, <2>3, <2>7 DEF Own, Keeps
  <2>9. Sane("offer", x)
    BY <1>1, <1>2, <1>3, <2>2, <2>3, <2>4, <2>6, <2>7, <2>8, MakeSane
  <2>10. Sane("offer", y)
    BY <1>1, <1>7, <2>9, StartSane
  <2>11. k \in Own(y)
    <3>1. CASE x.st \in {"Probing", "Stopped"}
      BY <1>7, <2>8, <3>1 DEF Start
    <3>2. CASE x.st \notin {"Probing", "Stopped"}
      BY <1>7, <2>6, <2>8, <3>2, StartFacts DEF Keeps, Own
    <3> QED BY <3>1, <3>2
  <2> QED BY <1>1, <1>11, <2>10, <2>11, PendingSane
<1> QED BY <1>8, <1>9, <1>10, <1>11

LEMMA StartedSane ==
    ASSUME IInv, CInv, NEW m \in net["offer"], Active(peer["answer"]),
           NEW fail \in {"none", "ineligible", "timeout"},
           NEW a, a = See(peer["answer"], m), NEW e, e = OnStart(a, m, fail)
    PROVE  Sane("answer", e)
<1>1. "answer" \in Peers /\ Other("answer") = "offer"
  BY DEF Peers, Other
<1>2. Sane("answer", a) /\ a.why = "none" /\ Good("answer", a)
  BY <1>1, SeeSane DEF Sane
<1>3. a \in PeerType /\ a.hello \in HelloType /\ AnswerShape(a)
  BY <1>1, SeenFacts DEF Shape
<1>4. PICK k : k = Packet(a, "Started", [digest |-> a.digest])
  OBVIOUS
<1>5. PICK d : d = Advance(a)
  OBVIOUS
<1>6. PICK x : x = [d EXCEPT !.pend = NoMsg, !.started = k]
  OBVIOUS
<1>7. PICK y : y = Start(x, fail)
  OBVIOUS
<1>8. \/ e = a
      \/ a.st = "Probing" /\ e = Emit(a, a.started)
      \/ a.st = "Ready" /\ e = Emit(y, k)
  BY <1>4, <1>5, <1>6, <1>7 DEF OnStart
<1>9. CASE e = a
  BY <1>2, <1>9
<1>10. CASE a.st = "Probing" /\ e = Emit(a, a.started)
  <2>1. a.started \in Own(a) \cup {NoMsg}
    BY DEF Own
  <2> QED BY <1>1, <1>2, <1>10, <2>1, EmitSane
<1>11. CASE a.st = "Ready" /\ e = Emit(y, k)
  <2>1. a.round # 0 /\ a.plan # NoPlan /\ a.digest = Digest(a.plan)
    BY <1>3, <1>11 DEF AnswerShape
  <2>2. k \in StartedPackets /\ k # NoMsg /\ k.seq = a.seq /\ k.kind # "Cancel"
    BY <1>3, <1>4, <2>1, RoundPacket DEF StartedPackets
  <2>3. d \in PeerType /\ Keeps(a, d) /\ d.out = a.out
    BY <1>3, <1>5, AdvanceFacts DEF Mild
  <2>4. d.seq = a.seq + 1 /\ d.seen = a.seen /\ d.why = a.why
    BY <1>3, <1>5 DEF Advance, PeerType
  <2>5. k \in Opt(StartedPackets, NoMsg) /\ NoMsg \in Opt(Packets, NoMsg)
    BY <2>2 DEF Opt
  <2>6. x \in PeerType
    BY <1>6, <2>3, <2>5 DEF PeerType
  <2>7. /\ x.hello = d.hello /\ x.hmsg = d.hmsg /\ x.prepare = d.prepare /\ x.ready = d.ready
        /\ x.start = d.start /\ x.started = k /\ x.out = d.out /\ x.seq = d.seq
        /\ x.seen = d.seen /\ x.rhello = d.rhello /\ x.why = d.why
    BY <1>6, <2>3 DEF PeerType
  <2>8. /\ Own(x) \subseteq Own(a) \cup {k} /\ k \in Own(x) /\ x.hello \in HelloType
        /\ x.rhello = a.rhello
    BY <1>3, <2>2, <2>3, <2>7 DEF Own, Keeps
  <2>9. Sane("answer", x)
    BY <1>1, <1>2, <1>3, <2>2, <2>3, <2>4, <2>6, <2>7, <2>8, MakeSane
  <2>10. Sane("answer", y)
    BY <1>1, <1>7, <2>9, StartSane
  <2>11. k \in Own(y)
    <3>1. CASE x.st \in {"Probing", "Stopped"}
      BY <1>7, <2>8, <3>1 DEF Start
    <3>2. CASE x.st \notin {"Probing", "Stopped"}
      BY <1>7, <2>6, <2>8, <3>2, StartFacts DEF Keeps, Own
    <3> QED BY <3>1, <3>2
  <2> QED BY <1>1, <1>11, <2>10, <2>11, EmitSane
<1> QED BY <1>8, <1>9, <1>10, <1>11

LEMMA ReceiveCInv ==
    ASSUME IInv, CInv, NEW p \in Peers, NEW m \in net[Other(p)], NEW r \in Rounds \cup {0},
           NEW ok \in BOOLEAN, NEW fail \in {"none", "ineligible", "timeout"},
           Receive(p, m, r, ok, fail)
    PROVE  CInv'
<1>1. Active(peer[p]) /\ ~Conflict(peer[p], m)
  BY SeenAgrees DEF Receive
<1>2. PICK a : a = See(peer[p], m)
  OBVIOUS
<1>3. PICK e : e = Handle(p, a, m, m \in peer[p].seen, r, ok, fail)
  OBVIOUS
<1>4. Apply(p, e)
  BY <1>1, <1>2, <1>3 DEF Receive
<1>5. Sane(p, a) /\ a.rhello = peer[p].rhello
  BY <1>1, <1>2, SeeSane, SeenFacts DEF Mild, Keeps
<1>6. /\ p = "offer" => Other(p) = "answer"
      /\ p = "answer" => Other(p) = "offer"
  BY DEF Other
<1> SUFFICES Sane(p, e)
  BY <1>4, ApplyCInv
<1>7. CASE m.kind = "Hello" /\ a.rhello = NoHello
  <2>1. e = OnFirstHello(p, a, m, r, ok)
    BY <1>3, <1>7 DEF Handle
  <2> QED BY <1>1, <1>2, <1>7, <2>1, FirstHelloSane
<1>8. CASE m.kind = "Hello" /\ a.rhello # NoHello
  <2>1. e = OnRepeatedHello(p, a, m)
    BY <1>3, <1>8 DEF Handle
  <2> QED BY <1>1, <1>2, <1>5, <1>8, <2>1, RepeatedHelloSane
<1>9. CASE m.kind = "Prepare" /\ p = "answer"
  <2>1. e = OnPrepare(a, m, ok)
    BY <1>3, <1>9 DEF Handle
  <2> QED BY <1>1, <1>2, <1>6, <1>9, <2>1, PrepareSane
<1>10. CASE m.kind = "Ready" /\ p = "offer"
  <2>1. e = OnReady(a, m, now, fail)
    BY <1>3, <1>10 DEF Handle
  <2> QED BY <1>1, <1>2, <1>6, <1>10, <2>1, ReadySane
<1>11. CASE m.kind = "Start" /\ p = "answer"
  <2>1. e = OnStart(a, m, fail)
    BY <1>3, <1>11 DEF Handle
  <2> QED BY <1>1, <1>2, <1>6, <1>11, <2>1, StartedSane
<1>12. CASE m.kind = "Started" /\ p = "offer"
  <2>1. e = OnStarted(a, m)
    BY <1>3, <1>12 DEF Handle
  <2>2. e = a \/ e = [a EXCEPT !.pend = NoMsg]
    BY <2>1 DEF OnStarted
  <2> QED BY <1>5, <2>2, ClearPendingSane
<1>13. CASE m.kind = "Cancel" /\ m \notin peer[p].seen
  <2>1. e = Stop(a, m.body.reason, FALSE)
    BY <1>3, <1>13 DEF Handle
  <2>2. m.body.reason \in StopReasons
    BY <1>1, <1>13, SeenFacts, KindFacts
  <2>3. m.body.reason # "conflict"
    BY <1>13 DEF CInv, Other, Peers
  <2> QED BY <1>5, <2>1, <2>2, <2>3, StopSane
<1>14. CASE /\ m.kind # "Hello" /\ ~(m.kind = "Prepare" /\ p = "answer")
            /\ ~(m.kind = "Ready" /\ p = "offer") /\ ~(m.kind = "Start" /\ p = "answer")
            /\ ~(m.kind = "Started" /\ p = "offer")
            /\ ~(m.kind = "Cancel" /\ m \notin peer[p].seen)
  <2>1. e = a
    BY <1>3, <1>14 DEF Handle
  <2> QED BY <1>5, <2>1
<1> QED BY <1>7, <1>8, <1>9, <1>10, <1>11, <1>12, <1>13, <1>14

LEMMA InitCInv == Init => CInv
<1> SUFFICES ASSUME Init PROVE CInv
  OBVIOUS
<1>1. \A p \in Peers : peer[p] = IdlePeer /\ net[p] = {}
  BY DEF Init
<1>2. /\ IdlePeer.out = {} /\ IdlePeer.seen = {} /\ IdlePeer.rhello = NoHello
      /\ IdlePeer.why = "none" /\ Own(IdlePeer) = {}
  BY DEF IdlePeer, Own
<1> QED BY <1>1, <1>2 DEF CInv, Good, Numbered, Used

LEMMA NextCInv == IInv /\ CInv /\ [Next]_vars => CInv'
<1> SUFFICES ASSUME IInv, CInv, [Next]_vars PROVE CInv'
  OBVIOUS
<1>1. CASE UNCHANGED <<peer, net>>
  BY <1>1 DEF CInv, Good, Numbered, Used
<1>2. ASSUME NEW p \in Peers, Step(p) PROVE CInv'
  <2>1. ASSUME NEW h \in Hellos[p], Begin(p, h) PROVE CInv'
    BY <2>1, BeginCInv
  <2>2. CASE Expire(p)
    <3>1. "timeout" \in StopReasons
      BY DEF StopReasons
    <3> QED BY <2>2, <3>1, StopCInv DEF Expire
  <2>3. ASSUME NEW ready \in BOOLEAN, TickPrepare(p, ready) PROVE CInv'
    <3>1. CASE ready
      BY <2>3, <3>1, FinishCInv DEF TickPrepare
    <3>2. CASE ~ready
      <4>1. "resources" \in StopReasons /\ Active(peer[p])
        BY <2>3 DEF StopReasons, Active, TickPrepare
      <4> QED BY <2>3, <3>2, <4>1, StopCInv DEF TickPrepare
    <3> QED BY <3>1, <3>2
  <2>4. CASE TickIdle(p)
    BY <1>1, <2>4 DEF TickIdle, vars
  <2>5. CASE TickRetry(p)
    BY <2>5, RetryCInv
  <2>6. CASE TickExhausted(p)
    BY <2>6, ExhaustedCInv
  <2>7. ASSUME NEW m \in net[Other(p)], NEW r \in Rounds \cup {0}, NEW ok \in BOOLEAN,
               NEW fail \in {"none", "ineligible", "timeout"}, Receive(p, m, r, ok, fail)
        PROVE  CInv'
    BY <2>7, ReceiveCInv
  <2>8. ASSUME NEW why \in {"direct_selected", "interface-change", "disconnect"},
               RuntimeStop(p, why)
        PROVE  CInv'
    <3>1. why \in StopReasons /\ why # "conflict" /\ (why = "interface-change") \in BOOLEAN
      BY DEF StopReasons
    <3> QED BY <2>8, <3>1, StopCInv DEF RuntimeStop
  <2> QED BY <1>2, <2>1, <2>2, <2>3, <2>4, <2>5, <2>6, <2>7, <2>8 DEF Step
<1> QED BY <1>1, <1>2 DEF Next, Clock, vars

LEMMA ConflictInvariance == Spec => []CInv
BY InitCInv, NextCInv, Invariance, PTL DEF Spec

(***************************************************************************)
(* Between two ends that run this code nobody ever stops for a conflict:   *)
(* not over a reused sequence number, nor over a second HELLO or plan.     *)
(***************************************************************************)
THEOREM NobodyStopsForAConflict == Spec => []NoConflict
<1>1. CInv => NoConflict
  BY DEF CInv, Good, NoConflict
<1> QED BY <1>1, ConflictInvariance, PTL

-----------------------------------------------------------------------------
(***************************************************************************)
(* A peer in Hello does not give up early.  Its only packet is the HELLO,  *)
(* whose retransmissions may run out; it has no round, so no CANCEL        *)
(* reaches it; and what the handlers it can run stop for is not a timeout. *)
(***************************************************************************)
LEMMA EmitWhy ==
    ASSUME NEW s \in PeerType, NEW m
    PROVE  Emit(s, m).why \in {s.why, "budget"}
<1>1. Halt(s, "budget").why = "budget"
  BY DEF Halt, PeerType
<1>2. PICK x : x = [s EXCEPT !.attempts = s.attempts + 1, !.out = s.out \cup {m}]
  OBVIOUS
<1>3. x.why = s.why
  BY <1>2 DEF PeerType
<1> QED BY <1>1, <1>2, <1>3 DEF Emit

LEMMA StopWhy ==
    ASSUME NEW s \in PeerType, NEW why \in StopReasons, NEW notify \in BOOLEAN,
           s.hello \in HelloType
    PROVE  Stop(s, why, notify).why \in {s.why, why}
<1>1. \A x \in PeerType : Halt(x, why).why = why
  BY DEF Halt, PeerType
<1>2. CASE ~(s.st # "Stopped" /\ notify /\ s.round # 0 /\ s.attempts < s.hello.budget)
  BY <1>1, <1>2 DEF Stop
<1>3. CASE s.st # "Stopped" /\ notify /\ s.round # 0 /\ s.attempts < s.hello.budget
  <2>1. PICK m : m = Packet(s, "Cancel", [reason |-> why])
    OBVIOUS
  <2>2. m \in Opt(Packets, NoMsg)
    <3>1. s.round \in Rounds /\ s.seq \in Nat
      BY <1>3 DEF PeerType, Opt
    <3>2. m \in CancelPackets
      BY <2>1, <3>1 DEF Packet, CancelPackets, PacketOf
    <3> QED BY <3>2 DEF Packets, Opt
  <2>3. Advance(s) \in PeerType /\ Advance(s).hello \in HelloType
    BY AdvanceFacts DEF Mild, Keeps
  <2>4. Emit(Advance(s), m) \in PeerType
    BY <2>2, <2>3, EmitFacts DEF Mild
  <2>5. Stop(s, why, notify) = Halt(Emit(Advance(s), m), why)
    BY <1>3, <2>1 DEF Stop
  <2> QED BY <1>1, <2>4, <2>5
<1> QED BY <1>2, <1>3

LEMMA BeginPreparationWhy ==
    ASSUME NEW s \in PeerType, NEW ok \in BOOLEAN, s.hello \in HelloType
    PROVE  BeginPreparation(s, ok).why \in {s.why, "resources"}
<1>1. PICK a : a = [s EXCEPT !.st = "Allocating", !.pend = NoMsg]
  OBVIOUS
<1>2. "Allocating" \in States /\ NoMsg \in Opt(Packets, NoMsg) /\ "resources" \in StopReasons
  BY DEF States, Opt, StopReasons
<1>3. a \in PeerType
  BY <1>1, <1>2 DEF PeerType
<1>4. a.why = s.why /\ a.hello = s.hello
  BY <1>1 DEF PeerType
<1>5. Stop(a, "resources", TRUE).why \in {a.why, "resources"}
  BY <1>2, <1>3, <1>4, StopWhy
<1> QED BY <1>1, <1>4, <1>5 DEF BeginPreparation

\* The handlers a peer in Hello can run.
LEMMA HelloHandle ==
    ASSUME IInv, CInv, NEW p \in Peers, NEW m \in net[Other(p)], NEW r \in Rounds \cup {0},
           NEW ok \in BOOLEAN, NEW fail \in {"none", "ineligible", "timeout"},
           peer[p].st = "Hello", Receive(p, m, r, ok, fail)
    PROVE  peer'[p].why # "timeout"
<1>1. Active(peer[p]) /\ ~Conflict(peer[p], m) /\ RoundOk(p, peer[p], m)
  BY SeenAgrees DEF Receive
<1>2. PICK a : a = See(peer[p], m)
  OBVIOUS
<1>3. PICK e : e = Handle(p, a, m, m \in peer[p].seen, r, ok, fail)
  OBVIOUS
<1>4. Apply(p, e)
  BY <1>1, <1>2, <1>3 DEF Receive
<1>5. a.why = "none" /\ a \in PeerType /\ a.hello \in HelloType /\ a.st = "Hello"
  BY <1>1, <1>2, SeeSane, SeenFacts
<1>6. /\ m \in Packets /\ Shape(p, peer[p])
      /\ m.kind = "Hello" => m.body.hello \in HelloType
  BY <1>1, SeenFacts, KindFacts, RunningFacts
<1>7. e \in PeerType /\ e.why # "timeout"
  <2>1. CASE m.kind = "Hello" /\ a.rhello = NoHello
    <3>1. PICK h : h = [a EXCEPT !.rhello = m.body.hello]
      OBVIOUS
    <3>2. PICK plan : plan = MakePunchPlan(a.hello, m.body.hello)
      OBVIOUS
    <3>3. PICK b : b = [h EXCEPT !.plan = plan]
      OBVIOUS
    <3>4. PICK c : c = [h EXCEPT !.plan = plan, !.round = r]
      OBVIOUS
    <3>5. plan \in Opt(PlanType, NoPlan) /\ m.body.hello \in Opt(HelloType, NoHello)
            /\ r \in Opt(Rounds, 0)
      BY <1>5, <1>6, <2>1, <3>2, PlanFacts DEF Opt
    <3>6. h \in PeerType
      BY <1>5, <3>1, <3>5 DEF PeerType
    <3>7. b \in PeerType
      BY <3>3, <3>5, <3>6 DEF PeerType
    <3>8. c \in PeerType
      BY <3>4, <3>5, <3>6 DEF PeerType
    <3>9. /\ h.why = "none" /\ h.hello = a.hello /\ h.hmsg = a.hmsg
      BY <1>5, <3>1 DEF PeerType
    <3>10. b.why = "none" /\ b.hello = a.hello /\ c.why = "none" /\ c.hello = a.hello
      BY <3>3, <3>4, <3>6, <3>9 DEF PeerType
    <3>11. \/ e = Emit(h, h.hmsg) \/ e = Stop(h, "ineligible", FALSE)
           \/ e = Stop(b, "resources", FALSE) \/ e = BeginPreparation(c, ok)
      <4>1. e = OnFirstHello(p, a, m, r, ok)
        BY <1>3, <2>1 DEF Handle
      <4> QED BY <3>1, <3>2, <3>3, <3>4, <4>1 DEF OnFirstHello
    <3>12. "ineligible" \in StopReasons /\ "resources" \in StopReasons
             /\ h.hmsg \in Opt(Packets, NoMsg)
      BY <3>6 DEF StopReasons, PeerType, Opt, Packets
    <3>13. CASE e = Emit(h, h.hmsg)
      BY <1>5, <3>6, <3>9, <3>12, <3>13, EmitFacts, EmitWhy DEF Mild
    <3>14. CASE e = Stop(h, "ineligible", FALSE)
      BY <1>5, <3>6, <3>9, <3>12, <3>14, StopFacts, StopWhy DEF Mild
    <3>15. CASE e = Stop(b, "resources", FALSE)
      BY <1>5, <3>7, <3>10, <3>12, <3>15, StopFacts, StopWhy DEF Mild
    <3>16. CASE e = BeginPreparation(c, ok)
      BY <1>5, <3>8, <3>10, <3>16, BeginPreparationFacts, BeginPreparationWhy
    <3> QED BY <3>11, <3>13, <3>14, <3>15, <3>16
  <2>2. CASE m.kind = "Hello" /\ a.rhello # NoHello
    <3>1. e = OnRepeatedHello(p, a, m)
      BY <1>3, <2>2 DEF Handle
    <3>2. e = a \/ e = Stop(a, "conflict", TRUE)
      BY <1>5, <3>1 DEF OnRepeatedHello
    <3>3. "conflict" \in StopReasons
      BY DEF StopReasons
    <3>4. CASE e = a
      BY <1>5, <3>4
    <3>5. CASE e = Stop(a, "conflict", TRUE)
      BY <1>5, <3>3, <3>5, StopFacts, StopWhy DEF Mild
    <3> QED BY <3>2, <3>4, <3>5
  <2>3. CASE m.kind = "Prepare" /\ p = "answer"
    <3>1. e = OnPrepare(a, m, ok)
      BY <1>3, <2>3 DEF Handle
    <3>2. PICK b : b = [a EXCEPT !.round = m.round, !.plan = m.body.plan]
      OBVIOUS
    <3>3. \/ e = a \/ e = Stop(a, "conflict", TRUE) \/ e = Emit(a, a.ready)
          \/ e = BeginPreparation(b, ok)
      BY <3>1, <3>2 DEF OnPrepare
    <3>4. m.round \in Opt(Rounds, 0) /\ m.body.plan \in Opt(PlanType, NoPlan)
      BY <1>6, <2>3 DEF Packets, HelloPackets, PreparePackets, ReadyPackets, StartPackets,
                        StartedPackets, CancelPackets, PacketOf, Opt
    <3>5. b \in PeerType
      BY <1>5, <3>2, <3>4 DEF PeerType
    <3>6. b.why = "none" /\ b.hello = a.hello
      BY <1>5, <3>2 DEF PeerType
    <3>7. "conflict" \in StopReasons /\ a.ready \in Opt(Packets, NoMsg)
      BY <1>5 DEF StopReasons, PeerType, Opt, Packets
    <3>8. CASE e = a
      BY <1>5, <3>8
    <3>9. CASE e = Stop(a, "conflict", TRUE)
      BY <1>5, <3>7, <3>9, StopFacts, StopWhy DEF Mild
    <3>10. CASE e = Emit(a, a.ready)
      BY <1>5, <3>7, <3>10, EmitFacts, EmitWhy DEF Mild
    <3>11. CASE e = BeginPreparation(b, ok)
      BY <1>5, <3>5, <3>6, <3>11, BeginPreparationFacts, BeginPreparationWhy
    <3> QED BY <3>3, <3>8, <3>9, <3>10, <3>11
  <2>4. CASE m.kind = "Ready" /\ p = "offer"
    <3>1. e = OnReady(a, m, now, fail)
      BY <1>3, <2>4 DEF Handle
    <3> QED BY <1>5, <3>1 DEF OnReady
  <2>5. CASE m.kind = "Start" /\ p = "answer"
    <3>1. e = OnStart(a, m, fail)
      BY <1>3, <2>5 DEF Handle
    <3> QED BY <1>5, <3>1 DEF OnStart
  <2>6. CASE m.kind = "Started" /\ p = "offer"
    <3>1. e = OnStarted(a, m)
      BY <1>3, <2>6 DEF Handle
    <3> QED BY <1>5, <3>1 DEF OnStarted
  <2>7. m.kind # "Cancel"
    <3>1. m.kind = "Cancel" => m.round \in Rounds
      BY <1>6 DEF Packets, HelloPackets, PreparePackets, ReadyPackets, StartPackets,
                  StartedPackets, CancelPackets, PacketOf
    <3>2. peer[p].round = 0
      BY <1>6 DEF Shape, OfferShape, AnswerShape
    <3> QED BY <1>1, <3>1, <3>2, RoundsAssumption DEF RoundOk
  <2>8. CASE /\ m.kind # "Hello" /\ ~(m.kind = "Prepare" /\ p = "answer")
             /\ ~(m.kind = "Ready" /\ p = "offer") /\ ~(m.kind = "Start" /\ p = "answer")
             /\ ~(m.kind = "Started" /\ p = "offer")
    <3>1. e = a
      BY <1>3, <2>7, <2>8 DEF Handle
    <3> QED BY <1>5, <3>1
  <2> QED BY <2>1, <2>2, <2>3, <2>4, <2>5, <2>6, <2>8
<1>8. PICK u : u = [e EXCEPT !.out = {}]
  OBVIOUS
<1>9. u.why = e.why
  BY <1>7, <1>8 DEF PeerType
<1> QED BY <1>4, <1>7, <1>8, <1>9 DEF Apply, IInv, TypeOK

LEMMA HelloStep ==
    ASSUME IInv, CInv, NEW p \in Peers, Step(p), peer[p].st = "Hello", now < peer[p].deadline
    PROVE  peer'[p].why # "timeout"
<1>1. PICK s : s = peer[p]
  OBVIOUS
<1>2. /\ s \in PeerType /\ Shape(p, s) /\ s.hello \in HelloType /\ s.why = "none"
      /\ s.pend \in Own(s) \cup {NoMsg} /\ s.hmsg \in Own(s) /\ Active(s)
      /\ now \in Nat /\ s.deadline \in Nat
  BY <1>1, RunningFacts DEF CInv, Good, Active, Own, IInv, TypeOK, PeerType
<1>3. ASSUME NEW t \in PeerType, Apply(p, t), t.why # "timeout"
      PROVE  peer'[p].why # "timeout"
  <2>1. PICK u : u = [t EXCEPT !.out = {}]
    OBVIOUS
  <2>2. u.why = t.why
    BY <2>1 DEF PeerType
  <2> QED BY <1>3, <2>1, <2>2 DEF Apply, IInv, TypeOK
<1>4. ASSUME NEW h \in Hellos[p], Begin(p, h) PROVE FALSE
  BY <1>4 DEF Begin
<1>5. ~Expire(p)
  <2>1. PICK d : d = peer[p].deadline
    OBVIOUS
  <2>2. d \in Nat /\ now \in Nat /\ now < d
    BY <1>1, <1>2, <2>1
  <2>3. ~(now >= d)
    BY <2>2
  <2> QED BY <2>1, <2>3, Zenon DEF Expire
<1>6. ASSUME NEW ready \in BOOLEAN, TickPrepare(p, ready) PROVE FALSE
  BY <1>6 DEF TickPrepare
<1>7. ~TickIdle(p)
  BY <1>1, <1>2 DEF TickIdle
<1>8. CASE TickRetry(p)
  <2>1. PICK h : h = IF s.pend.kind = "Prepare" THEN Emit(s, s.hmsg) ELSE s
    OBVIOUS
  <2>2. PICK e : e = Emit(h, s.pend)
    OBVIOUS
  <2>3. PICK t : t = [e EXCEPT !.retryAt = now + Waits[s.retries + 1], !.retries = e.retries + 1]
    OBVIOUS
  <2>4. Apply(p, IF e.st = "Stopped" THEN e ELSE t)
    BY <1>1, <1>8, <2>1, <2>2, <2>3 DEF TickRetry, Retransmit
  <2>5. s.hmsg \in Opt(Packets, NoMsg) /\ s.pend \in Opt(Packets, NoMsg) /\ s.retries < 3
    BY <1>1, <1>2, <1>8, OwnPackets DEF Opt, TickRetry
  <2>6. h \in PeerType /\ h.why # "timeout" /\ h.hello \in HelloType /\ h.retries = s.retries
    BY <1>2, <2>1, <2>5, EmitFacts, EmitWhy DEF Mild, Keeps
  <2>7. e \in PeerType /\ e.why # "timeout" /\ e.retries = s.retries
    BY <2>2, <2>5, <2>6, EmitFacts, EmitWhy DEF Mild, Keeps
  <2>8. now + Waits[s.retries + 1] \in Nat /\ e.retries + 1 \in RetryCount
    <3>1. s.retries \in 0..2
      BY <1>2, <2>5 DEF PeerType, RetryCount
    <3>2. Waits[s.retries + 1] \in Nat
      BY <3>1, WaitsAssumption
    <3> QED BY <1>2, <2>7, <3>1, <3>2 DEF RetryCount
  <2>9. t \in PeerType
    BY <2>3, <2>7, <2>8 DEF PeerType
  <2>10. t.why = e.why
    BY <2>3, <2>7 DEF PeerType
  <2> QED BY <1>3, <2>4, <2>7, <2>9, <2>10
<1>9. CASE TickExhausted(p)
  <2>1. s.pend.kind = "Hello"
    <3>1. s.pend \in Own(s)
      BY <1>1, <1>2, <1>9 DEF TickExhausted, RetryDue
    <3>2. /\ s.prepare = NoMsg /\ s.ready = NoMsg /\ s.started = NoMsg
      BY <1>1, <1>2 DEF Shape, OfferShape, AnswerShape
    <3>3. s.start = NoMsg
      BY <1>1, <1>2, <3>2 DEF Shape, OfferShape, AnswerShape
    <3>4. s.hmsg \in HelloPackets \cup {NoMsg}
      BY <1>2 DEF PeerType, Opt
    <3> QED BY <3>1, <3>2, <3>3, <3>4 DEF Own, HelloPackets, PacketOf
  <2>2. PICK t : t = [s EXCEPT !.pend = NoMsg]
    OBVIOUS
  <2>3. Apply(p, t)
    BY <1>1, <1>9, <2>1, <2>2 DEF TickExhausted
  <2>4. t \in PeerType
    BY <1>2, <2>2, ClearPendingFacts DEF Mild
  <2>5. t.why = s.why
    BY <1>2, <2>2 DEF PeerType
  <2> QED BY <1>2, <1>3, <2>3, <2>4, <2>5
<1>10. ASSUME NEW m \in net[Other(p)], NEW r \in Rounds \cup {0}, NEW ok \in BOOLEAN,
              NEW fail \in {"none", "ineligible", "timeout"}, Receive(p, m, r, ok, fail)
       PROVE  peer'[p].why # "timeout"
  BY <1>10, HelloHandle
<1>11. ASSUME NEW why \in {"direct_selected", "interface-change", "disconnect"},
              RuntimeStop(p, why)
       PROVE  peer'[p].why # "timeout"
  <2>1. PICK t : t = Stop(s, why, why = "interface-change")
    OBVIOUS
  <2>2. why \in StopReasons /\ (why = "interface-change") \in BOOLEAN
    BY DEF StopReasons
  <2>3. t \in PeerType /\ t.why # "timeout"
    BY <1>2, <2>1, <2>2, StopFacts, StopWhy DEF Mild
  <2> QED BY <1>1, <1>3, <1>11, <2>1, <2>3 DEF RuntimeStop
<1> QED BY <1>4, <1>5, <1>6, <1>7, <1>8, <1>9, <1>10, <1>11 DEF Step

\* A step of one end leaves the other's record alone.
LEMMA StepIsLocal ==
    ASSUME IInv, NEW q \in Peers, Step(q), NEW p \in Peers, p # q
    PROVE  peer'[p] = peer[p]
<1>1. ASSUME NEW t, Apply(q, t) PROVE peer'[p] = peer[p]
  BY <1>1 DEF Apply, IInv, TypeOK
<1> QED BY <1>1 DEF Step, Begin, Expire, TickPrepare, TickIdle, TickRetry, TickExhausted,
                    Receive, RuntimeStop, vars

(***************************************************************************)
(* Running out of HELLO retransmissions is no timeout: a peer in Hello     *)
(* times out only at its deadline, whatever packets reach it.              *)
(***************************************************************************)
THEOREM HelloIsPatient == Spec => HelloWaitsForDeadline
<1>1. ASSUME IInv, CInv, [Next]_vars, NEW p \in Peers, peer[p].st = "Hello",
             peer'[p].why = "timeout"
      PROVE  now >= peer[p].deadline
  <2>1. peer[p].why = "none" /\ now \in Nat /\ peer[p].deadline \in Nat
    BY <1>1, RunningFacts DEF CInv, Good, IInv, TypeOK, PeerType
  <2>2. peer' # peer
    BY <1>1, <2>1
  <2>3. PICK q \in Peers : Step(q)
    BY <1>1, <2>2 DEF Next, Clock, vars
  <2>4. q = p
    BY <1>1, <2>1, <2>3, StepIsLocal
  <2> QED BY <1>1, <2>1, <2>3, <2>4, HelloStep
<1>2. IInv /\ CInv /\ [Next]_vars =>
        [\A p \in Peers : peer[p].st = "Hello" /\ peer'[p].why = "timeout"
            => now >= peer[p].deadline]_vars
  BY <1>1
<1> QED BY <1>2, Invariance, ConflictInvariance, PTL DEF Spec, HelloWaitsForDeadline
=============================================================================
