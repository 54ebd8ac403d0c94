----------------------- MODULE VideoChannelSendProofs -----------------------
(***************************************************************************)
(* Proofs about VideoChannelSend, for any range of sequence numbers, any   *)
(* capacity of at most half of it, any NACKs, round-trip times and bounds. *)
(*                                                                         *)
(* The first part is about the deque alone: whatever is put, removed and   *)
(* aged out, wherever the numbers wrap, it stays a window of consecutive   *)
(* numbers, and a packet is found under its number.  The others rest on    *)
(* it.  A result that is recorded reaches the packet it belongs to, so     *)
(* that no packet stays marked as waiting in the pacer for good.  With RTX *)
(* the deque implements PacketStore, however late the tasks that put       *)
(* packets run.  And retransmissions of a packet are a round-trip time     *)
(* apart, although one thread sends them and another records them.         *)
(***************************************************************************)
EXTENDS VideoChannelSend, WellFoundedInduction, TLAPS

Slots == [held : BOOLEAN, seq : SeqNums, epoch : Nat, pending : BOOLEAN, resent : BOOLEAN, at : Nat]

Window(h) ==
    /\ h # <<>> => h[1].held
    /\ \A i \in 1..Len(h) : h[i].held => h[i].seq = SeqPlus(h[1].seq, i - 1, SeqMod)

Least(S) == CHOOSE i \in S : \A j \in S : i <= j

\* The slots of e that are not empty are slots of h or p.
From2(h, e, p) ==
    \A j \in 1..Len(e) : e[j].held \/ e[j].pending => e[j] = p \/ \E i \in 1..Len(h) : e[j] = h[i]
-----------------------------------------------------------------------------
(***************************************************************************)
(* The deque.                                                              *)
(***************************************************************************)
LEMMA LeastElement ==
    ASSUME NEW S \in SUBSET Nat, S # {}
    PROVE  \E x \in S : \A y \in S : x <= y
<1>1. PICK x \in S : \A y \in S : ~(<<y, x>> \in OpToRel(<, Nat))
  BY NatLessThanWellFounded, WFMin, Zenon
<1>2. \A y \in S : ~(y < x)
  BY <1>1, Zenon DEF OpToRel
<1>. QED
  BY <1>2

LEMMA SlotType ==
    ASSUME NEW h \in Seq(Slots), NEW i \in 1..Len(h)
    PROVE  h[i] \in Slots /\ h[i].seq \in SeqNums /\ h[i].held \in BOOLEAN
<1>1. h[i] \in Slots
  OBVIOUS
<1>. QED
  BY <1>1 DEF Slots

LEMMA Suffix ==
    ASSUME NEW h \in Seq(Slots), Window(h), Len(h) <= SeqMod,
           NEW k \in 1..Len(h), h[k].held, NEW e, e = From(h, k)
    PROVE  /\ e \in Seq(Slots) /\ Len(e) = Len(h) - k + 1
           /\ \A j \in 1..Len(e) : k + j - 1 \in 1..Len(h) /\ e[j] = h[k + j - 1]
           /\ Window(e)
<1>. USE CapacityAssumption
<1>1. /\ e \in Seq(Slots) /\ Len(e) = Len(h) - k + 1
      /\ \A j \in 1..Len(e) : k + j - 1 \in 1..Len(h) /\ e[j] = h[k + j - 1]
  BY DEF From
<1>2. e[1] = h[k]
  BY <1>1
<1>3. ASSUME NEW j \in 1..Len(e), e[j].held
      PROVE  e[j].seq = SeqPlus(e[1].seq, j - 1, SeqMod)
  <2>1. h[k].seq = SeqPlus(h[1].seq, k - 1, SeqMod)
    BY DEF Window
  <2>2. e[j].seq = SeqPlus(h[1].seq, k + j - 2, SeqMod)
    <3>1. PICK i \in 1..Len(h) : i = k + j - 1 /\ e[j] = h[i]
      BY <1>1
    <3>2. h[i].seq = SeqPlus(h[1].seq, i - 1, SeqMod)
      BY <1>3, <3>1 DEF Window
    <3>. QED
      BY <3>1, <3>2
  <2>3. h[1].seq \in SeqNums /\ k + j - 2 < SeqMod
    <3>1. 1 \in 1..Len(h) /\ k + j - 1 \in 1..Len(h)
      BY <1>1
    <3>. QED
      BY <3>1, SlotType
  <2>. QED
    BY SMTT(30), <1>2, <2>1, <2>2, <2>3 DEF SeqPlus, SeqNums
<1>. QED
  BY <1>1, <1>2, <1>3 DEF Window

(***************************************************************************)
(* RemoveDeadPackets and RemovePacket keep a suffix that starts with a     *)
(* packet, or empty a slot behind the front.                               *)
(***************************************************************************)
LEMMA FromKept ==
    ASSUME NEW h \in Seq(Slots), Window(h), Len(h) <= SeqMod, NEW p,
           NEW kept \in SUBSET (1..Len(h)), \A i \in kept : h[i].held,
           NEW e, e = IF kept = {} THEN <<>> ELSE From(h, Least(kept))
    PROVE  /\ e \in Seq(Slots) /\ Window(e) /\ From2(h, e, p)
           /\ e = <<>> \/ \E k \in kept : Len(e) = Len(h) - k + 1
<1>1. CASE kept = {}
  BY <1>1 DEF Window, From2
<1>2. CASE kept # {}
  <2>1. PICK k : k = Least(kept)
    OBVIOUS
  <2>2. kept \in SUBSET Nat
    OBVIOUS
  <2>3. k \in kept
    BY <1>2, <2>1, <2>2, LeastElement DEF Least
  <2>4. k \in 1..Len(h) /\ h[k].held
    BY <2>3
  <2>5. e = From(h, k)
    BY <1>2, <2>1
  <2>6. /\ e \in Seq(Slots) /\ Len(e) = Len(h) - k + 1 /\ Window(e)
        /\ \A j \in 1..Len(e) : k + j - 1 \in 1..Len(h) /\ e[j] = h[k + j - 1]
    BY <2>4, <2>5, Suffix
  <2>. QED
    BY <2>3, <2>6 DEF From2
<1>. QED
  BY <1>1, <1>2

LEMMA RemoveDeadFacts ==
    ASSUME NEW h \in Seq(Slots), Window(h), Len(h) <= SeqMod, NEW r, NEW p,
           NEW e, e = RemoveDeadPackets(h, r)
    PROVE  e \in Seq(Slots) /\ Window(e) /\ Len(e) <= MaxCapacity /\ From2(h, e, p)
<1>. USE CapacityAssumption
<1>1. PICK kept : kept = {i \in 1..Len(h) : h[i].held /\ ~Dead(h, i, r)}
  OBVIOUS
<1>2. e = IF kept = {} THEN <<>> ELSE From(h, Least(kept))
  BY <1>1 DEF RemoveDeadPackets, FromFirst, Least
<1>3. kept \in SUBSET (1..Len(h)) /\ \A i \in kept : h[i].held /\ Len(h) - i + 1 <= MaxCapacity
  BY <1>1 DEF Dead
<1>4. /\ e \in Seq(Slots) /\ Window(e) /\ From2(h, e, p)
      /\ e = <<>> \/ \E k \in kept : Len(e) = Len(h) - k + 1
  BY <1>2, <1>3, FromKept
<1>. QED
  BY <1>3, <1>4

LEMMA RemovePacketFacts ==
    ASSUME NEW h \in Seq(Slots), Window(h), Len(h) <= MaxCapacity, NEW i \in 1..Len(h), NEW p,
           NEW e, e = RemovePacket(h, i)
    PROVE  e \in Seq(Slots) /\ Window(e) /\ Len(e) <= MaxCapacity /\ From2(h, e, p)
<1>. USE CapacityAssumption
<1>1. CASE i = 1
  <2>1. PICK kept : kept = {j \in 1..Len(h) : h[j].held /\ j > 1}
    OBVIOUS
  <2>2. e = IF kept = {} THEN <<>> ELSE From(h, Least(kept))
    BY <1>1, <2>1 DEF RemovePacket, FromFirst, Least
  <2>3. kept \in SUBSET (1..Len(h)) /\ \A j \in kept : h[j].held
    BY <2>1
  <2>4. Len(h) <= SeqMod
    OBVIOUS
  <2>5. /\ e \in Seq(Slots) /\ Window(e) /\ From2(h, e, p)
        /\ e = <<>> \/ \E k \in kept : Len(e) = Len(h) - k + 1
    BY <2>2, <2>3, <2>4, FromKept
  <2>. QED
    BY <2>3, <2>5
<1>2. CASE i # 1
  <2>1. e = [h EXCEPT ![i] = Hole]
    BY <1>2 DEF RemovePacket
  <2>2. Hole \in Slots /\ ~Hole.held /\ ~Hole.pending
    BY DEF Hole, Slots, SeqNums
  <2>3. PICK x \in Slots : x = Hole /\ ~x.held /\ ~x.pending
    BY <2>2
  <2>4. e \in Seq(Slots) /\ Len(e) = Len(h) /\ e[i] = x /\ \A j \in 1..Len(h) \ {i} : e[j] = h[j]
    BY <2>1, <2>3
  <2>5. h # <<>> /\ e # <<>> /\ e[1] = h[1]
    BY <1>2, <2>4
  <2>6. Window(e)
    BY <2>3, <2>4, <2>5 DEF Window
  <2>7. From2(h, e, p)
    BY <2>3, <2>4 DEF From2
  <2>. QED
    BY <2>4, <2>6, <2>7
<1>. QED
  BY <1>1, <1>2

(***************************************************************************)
(* A packet is found under its number, and only under its number.          *)
(***************************************************************************)
LEMMA IndexFacts ==
    ASSUME NEW h \in Seq(Slots), h # <<>>, NEW s \in SeqNums, NEW f, f = h[1].seq,
           NEW x, x = GetPacketIndex(h, s)
    PROVE  /\ f \in SeqNums /\ x \in Int
           /\ x >= 0 => x < SeqMod /\ s = SeqPlus(f, x, SeqMod)
           /\ x < 0 => 0 - x <= SeqMod - MaxCapacity /\ f = SeqPlus(s, 0 - x, SeqMod)
<1>. USE CapacityAssumption
<1>1. f \in SeqNums
  <2>1. 1 \in 1..Len(h)
    OBVIOUS
  <2>. QED
    BY <2>1, SlotType
<1>2. x = IF s = f \/ AheadOf(s, f, SeqMod) THEN ForwardDiff(f, s, SeqMod)
          ELSE 0 - ForwardDiff(s, f, SeqMod)
  BY DEF GetPacketIndex
<1>3. s # f => ForwardDiff(s, f, SeqMod) > 0
  BY <1>1 DEF ForwardDiff, SeqNums
<1>4. ForwardDiff(s, f, SeqMod) \in Int /\ ForwardDiff(f, s, SeqMod) \in 0..(SeqMod - 1)
  <2>1. SeqMod \in Nat /\ s \in Nat /\ f \in Nat /\ s < SeqMod /\ f < SeqMod
    BY <1>1 DEF SeqNums
  <2>. QED
    BY <2>1 DEF ForwardDiff
<1>5. s = SeqPlus(f, ForwardDiff(f, s, SeqMod), SeqMod)
  BY <1>1 DEF ForwardDiff, SeqPlus, SeqNums
<1>6. s # f => f = SeqPlus(s, ForwardDiff(s, f, SeqMod), SeqMod)
  BY <1>1 DEF ForwardDiff, SeqPlus, SeqNums
<1>7. s # f /\ ~AheadOf(s, f, SeqMod) => ForwardDiff(s, f, SeqMod) <= SeqMod - MaxCapacity
  <2>1. s # f => ForwardDiff(s, f, SeqMod) = SeqMod - ForwardDiff(f, s, SeqMod)
    BY <1>1 DEF ForwardDiff, SeqNums
  <2>2. s # f /\ ~AheadOf(s, f, SeqMod) => ForwardDiff(f, s, SeqMod) >= SeqMod \div 2
    BY <1>4 DEF AheadOf
  <2>3. SeqMod \div 2 >= MaxCapacity
    OBVIOUS
  <2>. QED
    BY <1>4, <2>1, <2>2, <2>3
<1>8. CASE s = f \/ AheadOf(s, f, SeqMod)
  BY <1>1, <1>2, <1>4, <1>5, <1>8
<1>9. CASE ~(s = f \/ AheadOf(s, f, SeqMod))
  BY <1>1, <1>2, <1>3, <1>4, <1>6, <1>7, <1>9
<1>. QED
  BY <1>8, <1>9

LEMMA FoundSound ==
    ASSUME NEW h \in Seq(Slots), Window(h), NEW s \in SeqNums,
           NEW i, i = GetStoredPacket(h, s)
    PROVE  i \in 0..Len(h) /\ (i # 0 => h[i].held /\ h[i].seq = s)
<1>1. PICK x : x = GetPacketIndex(h, s)
  OBVIOUS
<1>2. CASE h = <<>>
  BY <1>2 DEF GetStoredPacket
<1>3. CASE h # <<>>
  <2>1. PICK f : f = h[1].seq
    OBVIOUS
  <2>2. x \in Int /\ (x >= 0 => x < SeqMod /\ s = SeqPlus(f, x, SeqMod))
    BY <1>1, <1>3, <2>1, IndexFacts
  <2>3. i = IF x + 1 \in 1..Len(h) /\ h[x + 1].held THEN x + 1 ELSE 0
    BY <1>1 DEF GetStoredPacket
  <2>4. CASE x + 1 \in 1..Len(h) /\ h[x + 1].held
    <3>1. h[x + 1].seq = SeqPlus(f, x, SeqMod)
      BY <2>1, <2>2, <2>4 DEF Window
    <3>. QED
      BY <2>2, <2>3, <2>4, <3>1
  <2>5. CASE ~(x + 1 \in 1..Len(h) /\ h[x + 1].held)
    BY <2>3, <2>5
  <2>. QED
    BY <2>4, <2>5
<1>. QED
  BY <1>2, <1>3

LEMMA FoundComplete ==
    ASSUME NEW h \in Seq(Slots), Window(h), Len(h) <= MaxCapacity, NEW i \in 1..Len(h), h[i].held
    PROVE  GetStoredPacket(h, h[i].seq) = i
<1>. USE CapacityAssumption
<1>1. PICK f \in SeqNums : f = h[1].seq
  <2>1. 1 \in 1..Len(h)
    OBVIOUS
  <2>. QED
    BY <2>1, SlotType
<1>2. PICK s \in SeqNums : s = h[i].seq
  BY SlotType
<1>3. s = SeqPlus(f, i - 1, SeqMod) /\ i - 1 \in Nat /\ i - 1 < SeqMod \div 2
  BY <1>1, <1>2 DEF Window
<1>4. ForwardDiff(f, s, SeqMod) = i - 1 /\ (s = f \/ AheadOf(s, f, SeqMod))
  BY <1>3 DEF ForwardDiff, AheadOf, SeqPlus, SeqNums
<1>5. GetPacketIndex(h, s) = i - 1
  BY <1>1, <1>4 DEF GetPacketIndex
<1>. QED
  BY <1>2, <1>5 DEF GetStoredPacket

(***************************************************************************)
(* A packet that is put gets the slot of its number; the gap is filled.    *)
(***************************************************************************)
LEMMA HolesFacts ==
    ASSUME NEW n \in Int, NEW g, g = Holes(n)
    PROVE  /\ g \in Seq(Slots) /\ Len(g) = (IF n > 0 THEN n ELSE 0)
           /\ \A j \in 1..Len(g) : ~g[j].held /\ ~g[j].pending
<1>1. Hole \in Slots /\ ~Hole.held /\ ~Hole.pending
  BY CapacityAssumption DEF Hole, Slots, SeqNums
<1>2. PICK x \in Slots : x = Hole /\ ~x.held /\ ~x.pending
  BY <1>1
<1>3. PICK m \in Nat : m = IF n > 0 THEN n ELSE 0
  OBVIOUS
<1>4. g = [j \in 1..m |-> x]
  <2>1. 1..n = 1..m
    BY <1>3
  <2>. QED
    BY <1>2, <2>1 DEF Holes
<1>5. g \in Seq(Slots) /\ Len(g) = m /\ \A j \in 1..m : g[j] = x
  BY <1>4
<1>. QED
  BY <1>2, <1>3, <1>5

LEMMA PlaceFacts ==
    ASSUME NEW h \in Seq(Slots), Window(h), Len(h) <= MaxCapacity,
           NEW p \in Slots, p.held, NEW e, e = Place(h, p)
    PROVE  e \in Seq(Slots) /\ Window(e) /\ Len(e) <= SeqMod /\ From2(h, e, p)
<1>. USE CapacityAssumption
<1>1. PICK s \in SeqNums : s = p.seq
  BY DEF Slots
<1>2. PICK x : x = GetPacketIndex(h, s)
  OBVIOUS
<1>3. PICK f : f = h[1].seq
  OBVIOUS
<1>4. /\ x \in Int
      /\ h = <<>> => x = 0
      /\ h # <<>> => /\ f \in SeqNums
                     /\ x >= 0 => x < SeqMod /\ s = SeqPlus(f, x, SeqMod)
                     /\ x < 0 => 0 - x <= SeqMod - MaxCapacity /\ f = SeqPlus(s, 0 - x, SeqMod)
  <2>1. h = <<>> => x = 0
    BY <1>2 DEF GetPacketIndex
  <2>. QED
    BY <1>2, <1>3, <2>1, IndexFacts
<1>5. CASE x < 0
  <2>1. PICK k \in Nat : k = 0 - x - 1
    BY <1>4, <1>5
  <2>2. PICK g : g = Holes(k)
    OBVIOUS
  <2>3. g \in Seq(Slots) /\ Len(g) = k /\ \A j \in 1..Len(g) : ~g[j].held /\ ~g[j].pending
    BY <2>2, HolesFacts
  <2>4. e = <<p>> \o g \o h
    BY <1>1, <1>2, <1>5, <2>1, <2>2 DEF Place
  <2>5. /\ e \in Seq(Slots) /\ Len(e) = 1 + k + Len(h) /\ e[1] = p
        /\ \A j \in 2..(k + 1) : e[j] = g[j - 1]
        /\ \A j \in (k + 2)..Len(e) : e[j] = h[j - k - 1] /\ j - k - 1 \in 1..Len(h)
    BY <2>3, <2>4
  <2>6. Len(e) <= SeqMod
    BY <1>4, <1>5, <2>1, <2>5
  <2>7. ASSUME NEW j \in 1..Len(e)
        PROVE  /\ e[j].held => e[j].seq = SeqPlus(s, j - 1, SeqMod)
               /\ e[j].held \/ e[j].pending => e[j] = p \/ \E i \in 1..Len(h) : e[j] = h[i]
    <3>1. CASE j = 1
      BY <1>1, <2>5, <3>1 DEF SeqPlus, SeqNums
    <3>2. CASE j \in 2..(k + 1)
      BY <2>3, <2>5, <3>2
    <3>3. CASE j \in (k + 2)..Len(e)
      <4>1. PICK i \in 1..Len(h) : i = j - k - 1 /\ e[j] = h[i]
        BY <2>5, <3>3
      <4>2. e[j].held => e[j].seq = SeqPlus(f, i - 1, SeqMod)
        BY <1>3, <4>1 DEF Window
      <4>3. SeqPlus(f, i - 1, SeqMod) = SeqPlus(s, j - 1, SeqMod)
        <5>1. f = SeqPlus(s, k + 1, SeqMod) /\ f \in SeqNums /\ j - 1 < SeqMod
          BY <1>4, <1>5, <2>1, <2>6, <4>1
        <5>. QED
          BY <4>1, <5>1 DEF SeqPlus, SeqNums
      <4>. QED
        BY <4>1, <4>2, <4>3
    <3>. QED
      BY <2>5, <3>1, <3>2, <3>3
  <2>. QED
    BY <1>1, <2>5, <2>6, <2>7 DEF Window, From2
<1>6. CASE x >= 0
  <2>1. PICK n \in Int : n = x + 1 - Len(h)
    <3>1. x + 1 - Len(h) \in Int
      BY <1>4
    <3>. QED
      BY <3>1
  <2>2. PICK g : g = Holes(n)
    OBVIOUS
  <2>3. /\ g \in Seq(Slots) /\ Len(g) = (IF n > 0 THEN n ELSE 0)
        /\ \A j \in 1..Len(g) : ~g[j].held /\ ~g[j].pending
    BY <2>2, HolesFacts
  <2>4. PICK d \in Seq(Slots) : d = h \o g
    <3>1. h \o g \in Seq(Slots)
      BY <2>3
    <3>. QED
      BY <3>1
  <2>5. e = [d EXCEPT ![x + 1] = p]
    BY <1>1, <1>2, <1>4, <1>6, <2>1, <2>2, <2>4 DEF Place
  <2>6. /\ Len(d) = Len(h) + Len(g)
        /\ \A j \in 1..Len(h) : d[j] = h[j]
        /\ \A j \in (Len(h) + 1)..Len(d) : d[j] = g[j - Len(h)]
    <3>1. Len(d) = Len(h) + Len(g)
      <4>1. g \in Seq(Slots)
        BY <2>3
      <4>. QED
        BY <2>4, <4>1
    <3>2. \A j \in 1..Len(h) : d[j] = h[j]
      BY <2>3, <2>4
    <3>3. ASSUME NEW j \in (Len(h) + 1)..Len(d)
          PROVE  d[j] = g[j - Len(h)]
      BY <2>3, <2>4, <3>1
    <3>. QED
      BY <3>1, <3>2, <3>3
  <2>7. x + 1 \in 1..Len(d) /\ Len(d) <= SeqMod
    BY <1>4, <1>6, <2>1, <2>3, <2>6
  <2>8. /\ e \in Seq(Slots) /\ Len(e) = Len(d) /\ e[x + 1] = p
        /\ \A j \in 1..Len(d) \ {x + 1} : e[j] = d[j]
    BY <2>5, <2>7
  <2>9. ASSUME NEW j \in 1..Len(e), j # x + 1
        PROVE  \/ ~e[j].held /\ ~e[j].pending
               \/ j \in 1..Len(h) /\ e[j] = h[j]
    <3>1. e[j] = d[j]
      BY <2>8, <2>9
    <3>2. CASE j \in 1..Len(h)
      BY <2>6, <3>1, <3>2
    <3>3. CASE j \notin 1..Len(h)
      <4>1. j \in (Len(h) + 1)..Len(d) /\ j - Len(h) \in 1..Len(g)
        BY <2>3, <2>6, <2>8, <3>3
      <4>. QED
        BY <2>3, <2>6, <3>1, <4>1
    <3>. QED
      BY <3>2, <3>3
  <2>10. h # <<>> /\ x # 0 => e[1] = h[1]
    <3>1. h # <<>> /\ x # 0 => 1 \in 1..Len(h) /\ 1 \in 1..Len(d) \ {x + 1}
      BY <1>4, <1>6, <2>7
    <3>. QED
      BY <2>6, <2>8, <3>1
  <2>11. h # <<>> => e[1].seq = f
    <3>1. CASE x = 0
      BY <1>1, <1>4, <2>8, <3>1 DEF SeqPlus, SeqNums
    <3>2. CASE x # 0
      BY <1>3, <2>10, <3>2
    <3>. QED
      BY <3>1, <3>2
  <2>12. e # <<>> /\ e[1].held
    <3>1. h # <<>> => h[1].held
      BY DEF Window
    <3>2. CASE x = 0
      BY <2>7, <2>8, <3>2
    <3>3. CASE x # 0
      BY <1>4, <2>7, <2>8, <2>10, <3>1, <3>3
    <3>. QED
      BY <3>2, <3>3
  <2>13. ASSUME NEW j \in 1..Len(e), e[j].held
         PROVE  e[j].seq = SeqPlus(e[1].seq, j - 1, SeqMod)
    <3>1. CASE j = x + 1 /\ h = <<>>
      BY <1>1, <1>4, <2>8, <3>1 DEF SeqPlus, SeqNums
    <3>2. CASE j = x + 1 /\ h # <<>>
      BY <1>1, <1>4, <1>6, <2>8, <2>11, <3>2
    <3>3. CASE j # x + 1
      <4>1. j \in 1..Len(h) /\ e[j] = h[j] /\ h # <<>>
        BY <2>9, <2>13, <3>3
      <4>. QED
        BY <1>3, <2>11, <2>13, <4>1 DEF Window
    <3>. QED
      BY <3>1, <3>2, <3>3
  <2>14. From2(h, e, p)
    BY <2>8, <2>9 DEF From2
  <2>. QED
    BY <2>7, <2>8, <2>12, <2>13, <2>14 DEF Window
<1>. QED
  BY <1>4, <1>5, <1>6

LEMMA FromTransitive ==
    ASSUME NEW h, NEW d, NEW e, NEW p, From2(h, d, p), From2(d, e, p)
    PROVE  From2(h, e, p)
BY DEF From2

LEMMA PutFacts ==
    ASSUME NEW h \in Seq(Slots), Window(h), Len(h) <= MaxCapacity,
           NEW p \in Slots, p.held, NEW e, e = PutRtpPacket(h, p)
    PROVE  e \in Seq(Slots) /\ Window(e) /\ Len(e) <= MaxCapacity /\ From2(h, e, p)
<1>. USE CapacityAssumption
<1>1. PICK alive : alive = RemoveDeadPackets(h, rtt)
  OBVIOUS
<1>2. alive \in Seq(Slots) /\ Window(alive) /\ Len(alive) <= MaxCapacity /\ From2(h, alive, p)
  <2>1. Len(h) <= SeqMod
    OBVIOUS
  <2>. QED
    BY <1>1, <2>1, RemoveDeadFacts
<1>3. PICK i : i = GetStoredPacket(alive, p.seq)
  OBVIOUS
<1>4. i \in 0..Len(alive)
  <2>1. p.seq \in SeqNums
    BY DEF Slots
  <2>. QED
    BY <1>2, <1>3, <2>1, FoundSound
<1>5. PICK clean : clean = IF i > 0 THEN RemovePacket(alive, i) ELSE alive
  OBVIOUS
<1>6. clean \in Seq(Slots) /\ Window(clean) /\ Len(clean) <= MaxCapacity /\ From2(alive, clean, p)
  <2>1. CASE i > 0
    <3>1. i \in 1..Len(alive) /\ clean = RemovePacket(alive, i)
      BY <1>4, <1>5, <2>1
    <3>. QED
      BY <1>2, <3>1, RemovePacketFacts
  <2>2. CASE ~(i > 0)
    BY <1>2, <1>5, <2>2 DEF From2
  <2>. QED
    BY <2>1, <2>2
<1>7. PICK placed : placed = Place(clean, p)
  OBVIOUS
<1>8. placed \in Seq(Slots) /\ Window(placed) /\ Len(placed) <= SeqMod /\ From2(clean, placed, p)
  BY <1>6, <1>7, PlaceFacts
<1>9. e = RemoveDeadPackets(placed, rtt)
  BY <1>1, <1>3, <1>5, <1>7 DEF PutRtpPacket
<1>10. e \in Seq(Slots) /\ Window(e) /\ Len(e) <= MaxCapacity /\ From2(placed, e, p)
  BY <1>8, <1>9, RemoveDeadFacts
<1>. QED
  BY <1>2, <1>6, <1>8, <1>10, FromTransitive

\* A slot whose packet stays the same.
With(h, i, y) == [h EXCEPT ![i] = y]

LEMMA ReplaceSlot ==
    ASSUME NEW h \in Seq(Slots), Window(h), NEW i \in 1..Len(h), NEW y \in Slots,
           y.held = h[i].held, y.seq = h[i].seq, NEW e, e = With(h, i, y)
    PROVE  /\ e \in Seq(Slots) /\ Len(e) = Len(h) /\ Window(e)
           /\ e[i] = y /\ \A j \in 1..Len(h) \ {i} : e[j] = h[j]
<1>1. /\ e \in Seq(Slots) /\ Len(e) = Len(h)
      /\ e[i] = y /\ \A j \in 1..Len(h) \ {i} : e[j] = h[j]
  BY DEF With
<1>2. \A j \in 1..Len(h) : e[j].held = h[j].held /\ e[j].seq = h[j].seq
  BY <1>1
<1>3. 1 \in 1..Len(h) /\ h # <<>>
  OBVIOUS
<1>. QED
  BY <1>1, <1>2, <1>3 DEF Window
-----------------------------------------------------------------------------
(***************************************************************************)
(* The inductive invariant.                                                *)
(***************************************************************************)
Kinds == {"put", "sent", "aborted", "clear", "nacks", "rtt"}

HistoryTasks == {t \in [kind : Kinds, seq : SeqNums \cup Rtts, epoch : Nat] :
                    t.kind # "rtt" => t.seq \in SeqNums}
PacerTasks == [kind : {"rtx", "pause", "resume"}, seq : SeqNums, epoch : Nat]

Types ==
    /\ clock \in Nat /\ pauses \in Nat /\ videoPaused \in BOOLEAN /\ scheduled \in BOOLEAN
    /\ nextSeq \in SeqNums /\ pendingNacks \subseteq SeqNums /\ stage \in Stages
    /\ worker \in [at : {"idle", "resend"}, batch : SUBSET SeqNums]
    /\ history \in Seq(Slots) /\ tasks \in Seq(HistoryTasks)
    /\ pacerTasks \in Seq(PacerTasks) /\ rtxQueue \in Seq(PacerTasks)

Waits(q, k)     == \E j \in 1..Len(q) : q[j].kind = k
Reports(q, s)   == \E j \in 1..Len(q) : q[j].kind \in {"sent", "aborted"} /\ q[j].seq = s
CopyIn(q, s, e) == \E j \in 1..Len(q) : q[j].kind = "rtx" /\ q[j].seq = s /\ q[j].epoch = e
InQueue(q, s)   == \E j \in 1..Len(q) : q[j].seq = s
Later(q, i)     == \E j \in (i + 1)..Len(q) : q[j].kind = "clear"

\* A retransmission of this epoch would not be discarded.
Current(e) == ~videoPaused /\ e >= pauses

\* The copy is the one of this epoch: only that makes its loss harmless, since
\* a copy is discarded after a pause, which has the history cleared.
Backed(slot) ==
    \/ CopyIn(pacerTasks, slot.seq, slot.epoch)
    \/ InQueue(rtxQueue, slot.seq)
    \/ Reports(tasks, slot.seq)
    \/ Waits(tasks, "clear")

Marked ==
    \A i \in 1..Len(history) :
        history[i].pending => history[i].held /\ (stage = "run" => Backed(history[i]))

\* A packet of before the pause, stored or still to be stored, is to be cleared.
Cleared ==
    stage = "run" =>
      /\ \A i \in 1..Len(history) :
           history[i].held /\ ~Current(history[i].epoch) => Waits(tasks, "clear")
      /\ \A i \in 1..Len(tasks) :
           tasks[i].kind = "put" /\ ~Current(tasks[i].epoch) => Later(tasks, i)

Nacked ==
    /\ history_shutdown => pendingNacks = {} /\ ~scheduled
    /\ scheduled \/ pendingNacks # {} =>
         nacker = "post" \/ worker.at = "resend" \/ Waits(tasks, "nacks")

Rest == Marked /\ Cleared /\ Nacked
VInv == Types /\ HistoryIsWindow /\ Rest

-----------------------------------------------------------------------------
(***************************************************************************)
(* Queues.                                                                 *)
(***************************************************************************)
LEMMA AppendFacts ==
    ASSUME NEW S, NEW q \in Seq(S), NEW x \in S, NEW e, e = Append(q, x)
    PROVE  /\ e \in Seq(S) /\ Len(e) = Len(q) + 1 /\ Len(q) \in Nat
           /\ Len(e) \in 1..Len(e) /\ e[Len(e)] = x
           /\ \A j \in 1..Len(q) : j \in 1..Len(e) /\ e[j] = q[j]
OBVIOUS

LEMMA OnAppend ==
    ASSUME NEW S, NEW q \in Seq(S), NEW x \in S, NEW e, e = Append(q, x)
    PROVE  /\ e \in Seq(S)
           /\ \A k : Waits(q, k) => Waits(e, k)
           /\ \A s : Reports(q, s) => Reports(e, s)
           /\ \A s, c : CopyIn(q, s, c) => CopyIn(e, s, c)
           /\ \A s : InQueue(q, s) => InQueue(e, s)
           /\ Waits(e, x.kind) /\ InQueue(e, x.seq)
           /\ x.kind \in {"sent", "aborted"} => Reports(e, x.seq)
           /\ x.kind = "rtx" => CopyIn(e, x.seq, x.epoch)
<1>1. /\ e \in Seq(S) /\ Len(e) = Len(q) + 1 /\ Len(q) \in Nat
      /\ Len(e) \in 1..Len(e) /\ e[Len(e)] = x
      /\ \A j \in 1..Len(q) : j \in 1..Len(e) /\ e[j] = q[j]
  BY AppendFacts
<1>2. \A k : Waits(q, k) => Waits(e, k)
  BY <1>1 DEF Waits
<1>3. \A s : Reports(q, s) => Reports(e, s)
  BY <1>1 DEF Reports
<1>4. \A s, c : CopyIn(q, s, c) => CopyIn(e, s, c)
  BY <1>1 DEF CopyIn
<1>5. \A s : InQueue(q, s) => InQueue(e, s)
  BY <1>1 DEF InQueue
<1>6. Waits(e, x.kind) /\ InQueue(e, x.seq)
  BY <1>1 DEF Waits, InQueue
<1>7. x.kind \in {"sent", "aborted"} => Reports(e, x.seq)
  BY <1>1 DEF Reports
<1>8. x.kind = "rtx" => CopyIn(e, x.seq, x.epoch)
  BY <1>1 DEF CopyIn
<1>. QED
  BY <1>1, <1>2, <1>3, <1>4, <1>5, <1>6, <1>7, <1>8

LEMMA TailFacts ==
    ASSUME NEW S, NEW q \in Seq(S), q # <<>>, NEW e, e = Tail(q), NEW x, x = Head(q)
    PROVE  /\ x \in S /\ x = q[1] /\ 1 \in 1..Len(q) /\ e \in Seq(S) /\ Len(e) = Len(q) - 1
           /\ \A j \in 1..Len(e) : j + 1 \in 1..Len(q) /\ e[j] = q[j + 1]
           /\ \A j \in 1..Len(q) : j = 1 \/ (j - 1 \in 1..Len(e) /\ e[j - 1] = q[j])
<1>1. Len(q) \in Nat /\ Len(q) > 0
  OBVIOUS
<1>2. x = q[1] /\ 1 \in 1..Len(q)
  BY <1>1
<1>3. x \in S
  BY <1>2
<1>4. e \in Seq(S) /\ Len(e) = Len(q) - 1
  BY <1>1
<1>5. \A j \in 1..Len(e) : j + 1 \in 1..Len(q) /\ e[j] = q[j + 1]
  BY <1>4
<1>6. \A j \in 1..Len(q) : j = 1 \/ (j - 1 \in 1..Len(e) /\ e[j - 1] = q[j])
  BY <1>1, <1>4
<1>. QED
  BY <1>2, <1>3, <1>4, <1>5, <1>6

LEMMA OnTail ==
    ASSUME NEW S, NEW q \in Seq(S), q # <<>>, NEW e, e = Tail(q), NEW x, x = Head(q)
    PROVE  /\ x \in S /\ e \in Seq(S)
           /\ \A k : Waits(q, k) => Waits(e, k) \/ x.kind = k
           /\ \A s : Reports(q, s) => Reports(e, s) \/ (x.kind \in {"sent", "aborted"} /\ x.seq = s)
           /\ \A s, c : CopyIn(q, s, c) =>
                \/ CopyIn(e, s, c)
                \/ x.kind = "rtx" /\ x.seq = s /\ x.epoch = c
           /\ \A s : InQueue(q, s) => InQueue(e, s) \/ x.seq = s
<1>1. /\ x \in S /\ x = q[1] /\ e \in Seq(S)
      /\ \A j \in 1..Len(q) : j = 1 \/ (j - 1 \in 1..Len(e) /\ e[j - 1] = q[j])
  BY TailFacts
<1>2. \A k : Waits(q, k) => Waits(e, k) \/ x.kind = k
  BY <1>1 DEF Waits
<1>3. \A s : Reports(q, s) => Reports(e, s) \/ (x.kind \in {"sent", "aborted"} /\ x.seq = s)
  BY <1>1 DEF Reports
<1>4. \A s, c : CopyIn(q, s, c) => CopyIn(e, s, c) \/ (x.kind = "rtx" /\ x.seq = s /\ x.epoch = c)
  BY <1>1 DEF CopyIn
<1>5. \A s : InQueue(q, s) => InQueue(e, s) \/ x.seq = s
  BY <1>1 DEF InQueue
<1>. QED
  BY <1>1, <1>2, <1>3, <1>4, <1>5

\* What is to be cleared later stays so.
LEMMA LaterAppend ==
    ASSUME NEW q \in Seq(HistoryTasks), NEW x \in HistoryTasks, NEW e, e = Append(q, x)
    PROVE  \A i \in 1..Len(q) : e[i] = q[i] /\ (Later(q, i) \/ x.kind = "clear" => Later(e, i))
<1>1. /\ Len(e) = Len(q) + 1 /\ Len(q) \in Nat /\ e[Len(e)] = x
      /\ \A j \in 1..Len(q) : j \in 1..Len(e) /\ e[j] = q[j]
  BY AppendFacts
<1>. TAKE i \in 1..Len(q)
<1>2. ASSUME Later(q, i) PROVE Later(e, i)
  <2>1. PICK j \in (i + 1)..Len(q) : q[j].kind = "clear"
    BY <1>2 DEF Later
  <2>2. j \in (i + 1)..Len(e) /\ e[j] = q[j]
    BY <1>1
  <2>. QED
    BY <2>1, <2>2 DEF Later
<1>3. ASSUME x.kind = "clear" PROVE Later(e, i)
  <2>1. Len(e) \in (i + 1)..Len(e)
    BY <1>1
  <2>. QED
    BY <1>1, <1>3, <2>1 DEF Later
<1>. QED
  BY <1>1, <1>2, <1>3

LEMMA LaterTail ==
    ASSUME NEW S, NEW q \in Seq(S), q # <<>>, NEW e, e = Tail(q)
    PROVE  /\ Later(q, 1) => Waits(e, "clear")
           /\ \A i \in 1..Len(e) : /\ i + 1 \in 1..Len(q) /\ e[i] = q[i + 1]
                                   /\ Later(q, i + 1) => Later(e, i)
<1>1. /\ Len(e) = Len(q) - 1 /\ 1 \in 1..Len(q)
      /\ \A j \in 1..Len(e) : j + 1 \in 1..Len(q) /\ e[j] = q[j + 1]
      /\ \A j \in 1..Len(q) : j = 1 \/ (j - 1 \in 1..Len(e) /\ e[j - 1] = q[j])
  BY TailFacts
<1>2. ASSUME Later(q, 1) PROVE Waits(e, "clear")
  <2>1. PICK j \in (1 + 1)..Len(q) : q[j].kind = "clear"
    BY <1>2 DEF Later
  <2>2. j - 1 \in 1..Len(e) /\ e[j - 1] = q[j]
    BY <1>1
  <2>. QED
    BY <2>1, <2>2 DEF Waits
<1>3. ASSUME NEW i \in 1..Len(e), Later(q, i + 1) PROVE Later(e, i)
  <2>1. PICK j \in (i + 1 + 1)..Len(q) : q[j].kind = "clear"
    BY <1>3 DEF Later
  <2>2. j - 1 \in (i + 1)..Len(e) /\ e[j - 1] = q[j]
    <3>1. j \in 1..Len(q) /\ j # 1
      OBVIOUS
    <3>. QED
      BY <1>1, <3>1
  <2>. QED
    BY <2>1, <2>2 DEF Later
<1>. QED
  BY <1>1, <1>2, <1>3
-----------------------------------------------------------------------------
(***************************************************************************)
(* Marks and epochs, for the kinds of step that move them.                 *)
(***************************************************************************)
Media == <<history, tasks, pacerTasks, rtxQueue, videoPaused, pauses, stage>>
Asked == <<tasks, worker, pendingNacks, scheduled, nacker, stage>>

LEMMA MediaKept ==
    ASSUME Marked, Cleared, UNCHANGED Media
    PROVE  Marked' /\ Cleared'
BY DEF Marked, Cleared, Backed, Current, Media

LEMMA AskedKept ==
    ASSUME Nacked, UNCHANGED Asked
    PROVE  Nacked'
BY DEF Nacked, Asked, history_shutdown

\* A task is posted to the history worker; no packet of before a pause.
LEMMA Posted ==
    ASSUME Types, Marked, Cleared, NEW t \in HistoryTasks, tasks' = Append(tasks, t),
           t.kind = "put" => Current(t.epoch),
           UNCHANGED <<history, pacerTasks, rtxQueue, videoPaused, pauses, stage>>
    PROVE  Marked' /\ Cleared'
<1>1. PICK q \in Seq(HistoryTasks) : q = tasks
  BY DEF Types
<1>2. PICK e : e = tasks'
  OBVIOUS
<1>3. /\ \A k : Waits(q, k) => Waits(e, k)
      /\ \A s : Reports(q, s) => Reports(e, s)
  BY <1>1, <1>2, OnAppend
<1>4. \A i \in 1..Len(q) : e[i] = q[i] /\ (Later(q, i) => Later(e, i))
  BY <1>1, <1>2, LaterAppend
<1>5. Len(q) \in Nat /\ Len(e) = Len(q) + 1 /\ e[Len(e)] = t
  BY <1>1, <1>2
<1>6. Marked'
  BY <1>1, <1>2, <1>3 DEF Marked, Backed
<1>7. ASSUME stage = "run", NEW i \in 1..Len(e), e[i].kind = "put", ~Current(e[i].epoch)
      PROVE  Later(e, i)
  <2>1. i # Len(e)
    BY <1>5, <1>7
  <2>2. i \in 1..Len(q)
    BY <1>5, <2>1
  <2>. QED
    BY <1>1, <1>4, <1>7, <2>2 DEF Cleared
<1>8. Cleared'
  BY <1>1, <1>2, <1>3, <1>7 DEF Cleared, Current
<1>. QED
  BY <1>6, <1>8

\* What the deque d, after the task t, has of the history: every packet is one
\* of it, marked only if it was and t does not report on it, or what t puts.
Inherits(d, t) ==
    \A j \in 1..Len(d) : d[j].held \/ d[j].pending =>
        \/ d[j].held /\ ~d[j].pending /\ t.kind = "put" /\ d[j].epoch = t.epoch
        \/ \E i \in 1..Len(history) :
             /\ d[j].held = history[i].held /\ d[j].seq = history[i].seq
             /\ d[j].epoch = history[i].epoch
             /\ d[j].pending => /\ history[i].pending
                                /\ ~(t.kind \in {"sent", "aborted"} /\ t.seq = d[j].seq)

\* The first task of the history worker has been run.
LEMMA Served ==
    ASSUME Types, Marked, Cleared, tasks # <<>>, tasks' = Tail(tasks), NEW t, t = Head(tasks),
           UNCHANGED <<pacerTasks, rtxQueue, videoPaused, pauses, stage>>,
           NEW d, d = history', Inherits(d, t), t.kind = "clear" => d = <<>>
    PROVE  Marked' /\ Cleared'
<1>1. PICK q \in Seq(HistoryTasks) : q = tasks /\ q # <<>>
  BY DEF Types
<1>2. PICK e : e = tasks'
  OBVIOUS
<1>3. /\ \A k : Waits(q, k) => Waits(e, k) \/ t.kind = k
      /\ \A s : Reports(q, s) => Reports(e, s) \/ (t.kind \in {"sent", "aborted"} /\ t.seq = s)
  BY <1>1, <1>2, OnTail
<1>4. /\ Later(q, 1) => Waits(e, "clear")
      /\ \A i \in 1..Len(e) : /\ i + 1 \in 1..Len(q) /\ e[i] = q[i + 1]
                              /\ Later(q, i + 1) => Later(e, i)
  BY <1>1, <1>2, LaterTail
<1>5. t = q[1] /\ 1 \in 1..Len(q)
  BY <1>1, TailFacts
<1>6. ASSUME NEW j \in 1..Len(d), d[j].pending
      PROVE  d[j].held /\ (stage = "run" => Backed(d[j])')
  <2>1. PICK i \in 1..Len(history) :
             /\ d[j].held = history[i].held /\ d[j].seq = history[i].seq
             /\ d[j].epoch = history[i].epoch /\ history[i].pending
             /\ ~(t.kind \in {"sent", "aborted"} /\ t.seq = d[j].seq)
    BY <1>6 DEF Inherits
  <2>2. t.kind # "clear"
    BY <1>6
  <2>3. history[i].held /\ (stage = "run" => Backed(history[i]))
    BY <2>1 DEF Marked
  <2>. QED
    BY <1>1, <1>2, <1>3, <2>1, <2>2, <2>3 DEF Backed
<1>7. ASSUME stage = "run", NEW j \in 1..Len(d), d[j].held, ~Current(d[j].epoch)
      PROVE  Waits(e, "clear")
  <2>1. t.kind # "clear"
    BY <1>7
  <2>2. CASE t.kind = "put" /\ d[j].epoch = t.epoch
    BY <1>1, <1>4, <1>5, <1>7, <2>2 DEF Cleared
  <2>3. CASE \E i \in 1..Len(history) : d[j].held = history[i].held /\ d[j].epoch = history[i].epoch
    BY <1>1, <1>3, <1>7, <2>1, <2>3 DEF Cleared
  <2>. QED
    BY <1>7, <2>2, <2>3 DEF Inherits
<1>8. ASSUME stage = "run", NEW i \in 1..Len(e), e[i].kind = "put", ~Current(e[i].epoch)
      PROVE  Later(e, i)
  BY <1>1, <1>4, <1>8 DEF Cleared
<1>9. Marked'
  BY <1>6 DEF Marked
<1>10. Cleared'
  BY <1>2, <1>7, <1>8 DEF Cleared, Current
<1>. QED
  BY <1>9, <1>10

-----------------------------------------------------------------------------
(***************************************************************************)
(* The history worker.                                                     *)
(***************************************************************************)
DequeOf(d) == d \in Seq(Slots) /\ Window(d) /\ Len(d) <= MaxCapacity

LEMMA ShortDeque == ASSUME NEW d, DequeOf(d) PROVE d \in Seq(Slots) /\ Window(d) /\ Len(d) <= SeqMod
BY CapacityAssumption DEF DequeOf

\* Recording a result: the packet of number s is no longer marked.
LEMMA RecordFacts ==
    ASSUME Types, DequeOf(history), Marked, NEW t \in HistoryTasks, t.kind \in {"sent", "aborted"},
           NEW i, i = GetStoredPacket(history, t.seq), NEW d,
           \/ i = 0 /\ d = history
           \/ /\ i # 0
              /\ \E y \in Slots : /\ y.held = history[i].held /\ y.seq = history[i].seq
                                   /\ y.epoch = history[i].epoch /\ ~y.pending
                                   /\ d = With(history, i, y)
    PROVE  DequeOf(d) /\ Inherits(d, t)
<1>1. PICK h \in Seq(Slots) : h = history /\ Window(h) /\ Len(h) <= MaxCapacity
  BY DEF DequeOf
<1>2. t.seq \in SeqNums
  BY DEF HistoryTasks
<1>3. i \in 0..Len(h) /\ (i # 0 => h[i].held /\ h[i].seq = t.seq)
  BY <1>1, <1>2, FoundSound
<1>4. \A j \in 1..Len(h) : h[j].held /\ h[j].seq = t.seq => j = i
  BY <1>1, FoundComplete
<1>5. \A j \in 1..Len(h) : h[j].pending => h[j].held
  BY <1>1 DEF Marked
<1>6. CASE i = 0 /\ d = history
  <2>1. Inherits(d, t)
    <3>1. \A j \in 1..Len(h) : h[j].pending => h[j].seq # t.seq
      BY <1>4, <1>5, <1>6
    <3>. QED
      BY <1>1, <1>6, <3>1 DEF Inherits
  <2>. QED
    BY <1>6, <2>1
<1>7. CASE i # 0
  <2>1. i \in 1..Len(h)
    BY <1>3, <1>7
  <2>2. PICK y \in Slots : /\ y.held = h[i].held /\ y.seq = h[i].seq
                            /\ y.epoch = h[i].epoch /\ ~y.pending
                            /\ d = With(h, i, y)
    BY <1>1, <1>7
  <2>3. /\ d \in Seq(Slots) /\ Len(d) = Len(h) /\ Window(d)
        /\ d[i] = y /\ \A j \in 1..Len(h) \ {i} : d[j] = h[j]
    BY <1>1, <2>1, <2>2, ReplaceSlot
  <2>4. \A j \in 1..Len(h) \ {i} : h[j].pending => h[j].seq # t.seq
    BY <1>4, <1>5
  <2>5. Inherits(d, t)
    BY <1>1, <2>1, <2>2, <2>3, <2>4 DEF Inherits
  <2>. QED
    BY <1>1, <2>3, <2>5 DEF DequeOf
<1>. QED
  BY <1>6, <1>7

LEMMA SameInherits ==
    ASSUME NEW d, NEW t, NEW p, From2(history, d, p),
           \/ ~p.held /\ ~p.pending
           \/ p.held /\ ~p.pending /\ t.kind = "put" /\ p.epoch = t.epoch,
           t.kind \notin {"sent", "aborted"}
    PROVE  Inherits(d, t)
BY DEF From2, Inherits

LEMMA WindowIsDeque ==
    ASSUME Types
    PROVE  HistoryIsWindow <=> DequeOf(history)
BY DEF Types, HistoryIsWindow, DequeOf, Window

LEMMA PutInherits ==
    ASSUME Types, DequeOf(history), NEW t \in HistoryTasks, t.kind = "put",
           NEW d, d = PutRtpPacket(history, Slot(t.seq, t.epoch))
    PROVE  DequeOf(d) /\ Inherits(d, t)
<1>1. PICK p : p = Slot(t.seq, t.epoch)
  OBVIOUS
<1>2. p \in Slots /\ p.held /\ ~p.pending /\ p.epoch = t.epoch
  BY <1>1 DEF Slot, Slots, HistoryTasks, Types
<1>3. PICK h \in Seq(Slots) : h = history /\ Window(h) /\ Len(h) <= MaxCapacity
  BY DEF DequeOf
<1>4. d \in Seq(Slots) /\ Window(d) /\ Len(d) <= MaxCapacity /\ From2(h, d, p)
  BY <1>1, <1>2, <1>3, PutFacts
<1>5. Inherits(d, t)
  BY <1>2, <1>3, <1>4, SameInherits
<1>. QED
  BY <1>4, <1>5 DEF DequeOf

LEMMA AgedInherits ==
    ASSUME DequeOf(history), NEW t, t.kind \notin {"sent", "aborted"}, NEW r,
           NEW d, d = RemoveDeadPackets(history, r) \/ d = history
    PROVE  DequeOf(d) /\ Inherits(d, t)
<1>1. PICK p : p = Hole /\ ~p.held /\ ~p.pending
  <2>1. ~Hole.held /\ ~Hole.pending
    BY DEF Hole
  <2>. QED
    BY <2>1
<1>2. PICK h \in Seq(Slots) : h = history /\ Window(h) /\ Len(h) <= MaxCapacity /\ Len(h) <= SeqMod
  BY ShortDeque DEF DequeOf
<1>3. CASE d = RemoveDeadPackets(history, r)
  <2>1. d \in Seq(Slots) /\ Window(d) /\ Len(d) <= MaxCapacity /\ From2(h, d, p)
    BY <1>2, <1>3, RemoveDeadFacts
  <2>. QED
    BY <1>1, <1>2, <2>1, SameInherits DEF DequeOf
<1>4. CASE d = history
  BY <1>4 DEF Inherits
<1>. QED
  BY <1>3, <1>4

LEMMA SentInherits ==
    ASSUME Types, DequeOf(history), Marked, NEW t \in HistoryTasks, t.kind = "sent",
           MarkPacketAsSent(t.seq), NEW d, d = history'
    PROVE  DequeOf(d) /\ Inherits(d, t)
<1>1. PICK h \in Seq(Slots) : h = history /\ Window(h) /\ Len(h) <= MaxCapacity
  BY DEF DequeOf
<1>2. PICK i : i = GetStoredPacket(h, t.seq)
  OBVIOUS
<1>3. CASE i = 0
  <2>1. d = history
    BY <1>1, <1>2, <1>3 DEF MarkPacketAsSent
  <2>. QED
    BY <1>1, <1>2, <1>3, <2>1, RecordFacts
<1>4. CASE i # 0
  <2>1. t.seq \in SeqNums
    BY DEF HistoryTasks
  <2>2. i \in 1..Len(h)
    BY <1>1, <1>2, <1>4, <2>1, FoundSound
  <2>3. PICK x \in Slots : x = h[i]
    BY <2>2, SlotType
  <2>4. PICK y : y = [x EXCEPT !.at = clock, !.pending = FALSE, !.resent = TRUE]
    OBVIOUS
  <2>5. y \in Slots /\ y.held = x.held /\ y.seq = x.seq /\ y.epoch = x.epoch /\ ~y.pending
    BY <2>4 DEF Slots, Types
  <2>6. d = With(h, i, y)
    <3>1. d = [h EXCEPT ![i].at = clock, ![i].pending = FALSE, ![i].resent = TRUE]
      BY <1>1, <1>2, <1>4 DEF MarkPacketAsSent
    <3>. QED
      BY <2>2, <2>3, <2>4, <3>1 DEF With
  <2>. QED
    BY <1>1, <1>2, <1>4, <2>3, <2>5, <2>6, RecordFacts
<1>. QED
  BY <1>3, <1>4

LEMMA AbortedInherits ==
    ASSUME Types, DequeOf(history), Marked, NEW t \in HistoryTasks, t.kind = "aborted",
           MarkPacketAsAborted(t.seq), NEW d, d = history'
    PROVE  DequeOf(d) /\ Inherits(d, t)
<1>1. PICK h \in Seq(Slots) : h = history /\ Window(h) /\ Len(h) <= MaxCapacity
  BY DEF DequeOf
<1>2. PICK i : i = GetStoredPacket(h, t.seq)
  OBVIOUS
<1>3. CASE i = 0
  <2>1. d = history
    BY <1>1, <1>2, <1>3 DEF MarkPacketAsAborted
  <2>. QED
    BY <1>1, <1>2, <1>3, <2>1, RecordFacts
<1>4. CASE i # 0
  <2>1. t.seq \in SeqNums
    BY DEF HistoryTasks
  <2>2. i \in 1..Len(h)
    BY <1>1, <1>2, <1>4, <2>1, FoundSound
  <2>3. PICK x \in Slots : x = h[i]
    BY <2>2, SlotType
  <2>4. PICK y : y = [x EXCEPT !.pending = FALSE]
    OBVIOUS
  <2>5. y \in Slots /\ y.held = x.held /\ y.seq = x.seq /\ y.epoch = x.epoch /\ ~y.pending
    BY <2>4 DEF Slots, Types
  <2>6. d = With(h, i, y)
    <3>1. d = [h EXCEPT ![i].pending = FALSE]
      BY <1>1, <1>2, <1>4 DEF MarkPacketAsAborted
    <3>. QED
      BY <2>2, <2>3, <2>4, <3>1 DEF With
  <2>. QED
    BY <1>1, <1>2, <1>4, <2>3, <2>5, <2>6, RecordFacts
<1>. QED
  BY <1>3, <1>4

LEMMA RunTaskInv == ASSUME VInv, RunTask PROVE VInv'
<1>. USE DEF VInv, Rest
<1>1. PICK t : t = Head(tasks)
  OBVIOUS
<1>2. PICK d : d = history'
  OBVIOUS
<1>3. tasks \in Seq(HistoryTasks) /\ tasks # <<>> /\ tasks' = Tail(tasks) /\ t.kind # "nacks"
  BY <1>1 DEF Types, RunTask
<1>4. /\ t \in HistoryTasks /\ tasks' \in Seq(HistoryTasks)
      /\ \A k : Waits(tasks, k) => Waits(tasks', k) \/ t.kind = k
  <2>1. PICK e : e = tasks'
    OBVIOUS
  <2>2. /\ t \in HistoryTasks /\ e \in Seq(HistoryTasks)
        /\ \A k : Waits(tasks, k) => Waits(e, k) \/ t.kind = k
    BY <1>1, <1>3, <2>1, OnTail
  <2>. QED
    BY <2>1, <2>2
<1>5. DequeOf(history)
  BY WindowIsDeque
<1>6. DequeOf(d) /\ Inherits(d, t) /\ (t.kind = "clear" => d = <<>>)
  <2>1. CASE t.kind = "put" /\ history' = PutRtpPacket(history, Slot(t.seq, t.epoch))
    BY <1>2, <1>4, <1>5, <2>1, PutInherits
  <2>2. CASE t.kind = "sent" /\ MarkPacketAsSent(t.seq)
    BY <1>2, <1>4, <1>5, <2>2, SentInherits
  <2>3. CASE t.kind = "aborted" /\ MarkPacketAsAborted(t.seq)
    BY <1>2, <1>4, <1>5, <2>3, AbortedInherits
  <2>4. CASE t.kind = "clear" /\ history' = <<>>
    BY <1>2, <2>4, CapacityAssumption DEF DequeOf, Inherits, Window
  <2>5. CASE /\ t.kind = "rtt"
             /\ history' = IF history_shutdown THEN history ELSE RemoveDeadPackets(history, t.seq)
    <3>1. d = RemoveDeadPackets(history, t.seq) \/ d = history
      BY <1>2, <2>5
    <3>. QED
      BY <1>5, <2>5, <3>1, AgedInherits
  <2>. QED
    BY <1>1, <2>1, <2>2, <2>3, <2>4, <2>5 DEF RunTask
<1>7. UNCHANGED <<pacerTasks, rtxQueue, videoPaused, pauses, stage, clock, nextSeq, pendingNacks,
                  scheduled, nacker, worker>>
  BY DEF RunTask
<1>8. Types'
  BY <1>2, <1>4, <1>6, <1>7 DEF Types, DequeOf
<1>9. HistoryIsWindow'
  BY <1>2, <1>6 DEF HistoryIsWindow, DequeOf, Window
<1>10. Marked' /\ Cleared'
  BY <1>1, <1>2, <1>3, <1>6, <1>7, Served
<1>11. Nacked'
  BY <1>3, <1>4, <1>7 DEF Nacked, history_shutdown
<1>. QED
  BY <1>8, <1>9, <1>10, <1>11

LEMMA ProcessPendingNacksInv == ASSUME VInv, ProcessPendingNacks PROVE VInv'
<1>. USE DEF VInv, Rest
<1>1. PICK t : t = Head(tasks)
  OBVIOUS
<1>2. PICK d : d = history' /\ d = history
  BY DEF ProcessPendingNacks
<1>3. tasks \in Seq(HistoryTasks) /\ tasks # <<>> /\ tasks' = Tail(tasks) /\ t.kind = "nacks"
  BY <1>1 DEF Types, ProcessPendingNacks
<1>4. tasks' \in Seq(HistoryTasks)
  BY <1>3
<1>5. UNCHANGED <<history, pacerTasks, rtxQueue, videoPaused, pauses, stage, clock, nextSeq, nacker>>
  BY DEF ProcessPendingNacks
<1>6. /\ pendingNacks' \subseteq pendingNacks /\ scheduled' \in BOOLEAN
      /\ worker' \in [at : {"idle", "resend"}, batch : SUBSET SeqNums]
      /\ \/ history_shutdown /\ pendingNacks' = {} /\ ~scheduled'
         \/ ~history_shutdown /\ worker'.at = "resend"
  <2>1. CASE history_shutdown
    BY <2>1 DEF Types, ProcessPendingNacks
  <2>2. CASE ~history_shutdown
    <3>1. PICK taken \in SUBSET pendingNacks :
               /\ pendingNacks' = pendingNacks \ taken
               /\ worker' = [at |-> "resend", batch |-> taken] /\ scheduled' = scheduled
      BY <2>2 DEF ProcessPendingNacks
    <3>. QED
      BY <2>2, <3>1 DEF Types
  <2>. QED
    BY <2>1, <2>2
<1>7. Types'
  BY <1>4, <1>5, <1>6 DEF Types
<1>8. HistoryIsWindow'
  BY <1>5 DEF HistoryIsWindow
<1>9. Marked' /\ Cleared'
  <2>1. Inherits(d, t)
    BY <1>2, <1>3 DEF Inherits
  <2>. QED
    BY <1>1, <1>2, <1>3, <1>5, <2>1, Served
<1>10. Nacked'
  BY <1>5, <1>6 DEF Nacked, history_shutdown
<1>. QED
  BY <1>7, <1>8, <1>9, <1>10

\* The packet of number s is marked and its copy is posted to the pacer.
LEMMA CopiedFacts ==
    ASSUME Types, DequeOf(history), Marked, Cleared, NEW i \in 1..Len(history), history[i].held,
           history' = [history EXCEPT ![i].pending = TRUE],
           pacerTasks' = Append(pacerTasks, [kind |-> "rtx", seq |-> history[i].seq,
                                             epoch |-> history[i].epoch]),
           UNCHANGED <<tasks, rtxQueue, videoPaused, pauses, stage>>
    PROVE  /\ DequeOf(history)' /\ pacerTasks' \in Seq(PacerTasks)
           /\ Marked' /\ Cleared'
<1>1. PICK h \in Seq(Slots) : h = history /\ Window(h) /\ Len(h) <= MaxCapacity
  BY DEF DequeOf
<1>2. PICK x \in Slots : x = h[i] /\ x.held
  BY <1>1, SlotType
<1>3. PICK y : y = [x EXCEPT !.pending = TRUE]
  OBVIOUS
<1>4. y \in Slots /\ y.held = x.held /\ y.seq = x.seq /\ y.epoch = x.epoch /\ y.pending
  BY <1>3 DEF Slots
<1>5. PICK d : d = history'
  OBVIOUS
<1>6. d = With(h, i, y)
  <2>1. d = [h EXCEPT ![i].pending = TRUE]
    BY <1>1, <1>5
  <2>. QED
    BY <1>1, <1>2, <1>3, <2>1 DEF With
<1>7. /\ d \in Seq(Slots) /\ Len(d) = Len(h) /\ Window(d)
      /\ d[i] = y /\ \A j \in 1..Len(h) \ {i} : d[j] = h[j]
  <2>1. i \in 1..Len(h) /\ y.held = h[i].held /\ y.seq = h[i].seq
    BY <1>1, <1>2, <1>4
  <2>. QED
    BY <1>1, <1>4, <1>6, <2>1, ReplaceSlot
<1>8. PICK t \in PacerTasks : /\ t.kind = "rtx" /\ t.seq = x.seq /\ t.epoch = x.epoch
                              /\ pacerTasks' = Append(pacerTasks, t)
  <2>1. PICK t : t = [kind |-> "rtx", seq |-> x.seq, epoch |-> x.epoch]
    OBVIOUS
  <2>2. t \in PacerTasks /\ t.kind = "rtx" /\ t.seq = x.seq /\ t.epoch = x.epoch
    BY <2>1 DEF PacerTasks, Slots
  <2>. QED
    BY <1>1, <1>2, <2>1, <2>2
<1>9. PICK q \in Seq(PacerTasks) : q = pacerTasks
  BY DEF Types
<1>10. PICK e : e = pacerTasks'
  OBVIOUS
<1>11. /\ e \in Seq(PacerTasks) /\ CopyIn(e, x.seq, x.epoch)
       /\ \A s, c : CopyIn(q, s, c) => CopyIn(e, s, c)
  BY <1>8, <1>9, <1>10, OnAppend
<1>12. ASSUME NEW j \in 1..Len(d), d[j].pending
       PROVE  d[j].held /\ (stage = "run" => Backed(d[j])')
  <2>1. CASE j = i
    BY <1>2, <1>4, <1>7, <1>10, <1>11, <2>1 DEF Backed
  <2>2. CASE j # i
    <3>1. d[j] = history[j] /\ j \in 1..Len(history)
      BY <1>1, <1>7, <2>2
    <3>2. d[j].held /\ (stage = "run" => Backed(d[j]))
      BY <1>12, <3>1 DEF Marked
    <3>. QED
      BY <1>9, <1>10, <1>11, <3>2 DEF Backed
  <2>. QED
    BY <2>1, <2>2
<1>13. Marked'
  BY <1>5, <1>12 DEF Marked
<1>14. \A j \in 1..Len(d) : d[j].held = history[j].held /\ d[j].epoch = history[j].epoch
  BY <1>1, <1>2, <1>4, <1>7
<1>15. Cleared'
  BY <1>1, <1>5, <1>7, <1>14 DEF Cleared, Current
<1>. QED
  BY <1>1, <1>5, <1>7, <1>10, <1>11, <1>13, <1>15 DEF DequeOf

LEMMA ResendInv == ASSUME VInv, Resend PROVE VInv'
<1>. USE DEF VInv, Rest
<1>1. DequeOf(history)
  BY WindowIsDeque
<1>2. UNCHANGED <<tasks, rtxQueue, videoPaused, pauses, stage, clock, nextSeq, pendingNacks,
                  scheduled, nacker>>
  BY DEF Resend
<1>3. worker' \in [at : {"idle", "resend"}, batch : SUBSET SeqNums] /\ worker'.at = worker.at
  <2>1. worker \in [at : {"idle", "resend"}, batch : SUBSET SeqNums]
    BY DEF Types
  <2>2. \E b \in SUBSET SeqNums : worker' = [worker EXCEPT !.batch = b]
    <3>1. CASE history_shutdown
      BY <3>1 DEF Resend
    <3>2. CASE ~history_shutdown
      <4>1. PICK s \in worker.batch : worker' = [worker EXCEPT !.batch = @ \ {s}]
        BY <3>2 DEF Resend
      <4>2. worker.batch \ {s} \in SUBSET SeqNums
        BY <2>1
      <4>. QED
        BY <2>1, <4>1, <4>2
    <3>. QED
      BY <3>1, <3>2
  <2>. QED
    BY <2>1, <2>2
<1>4. CASE UNCHANGED <<history, pacerTasks>>
  <2>1. Types' /\ HistoryIsWindow'
    BY <1>2, <1>3, <1>4 DEF Types, HistoryIsWindow
  <2>2. Marked' /\ Cleared'
    BY <1>2, <1>4, MediaKept DEF Media
  <2>3. Nacked'
    BY <1>2, <1>3 DEF Nacked, history_shutdown
  <2>. QED
    BY <2>1, <2>2, <2>3
<1>5. CASE ~UNCHANGED <<history, pacerTasks>>
  <2>1. PICK s \in worker.batch : ReSendPacket(s)
    BY <1>5 DEF Resend
  <2>2. PICK i : i = GetStoredPacket(history, s)
    OBVIOUS
  <2>3. /\ Resendable(i)
        /\ history' = [history EXCEPT ![i].pending = TRUE]
        /\ pacerTasks' = Append(pacerTasks, [kind |-> "rtx", seq |-> history[i].seq,
                                              epoch |-> history[i].epoch])
    BY <1>5, <2>1, <2>2 DEF ReSendPacket
  <2>4. i \in 1..Len(history) /\ history[i].held
    <3>1. s \in SeqNums
      BY DEF Types
    <3>2. i \in 0..Len(history) /\ (i # 0 => history[i].held)
      BY <1>1, <2>2, <3>1, FoundSound DEF DequeOf
    <3>3. i > 0
      BY <2>3 DEF Resendable
    <3>. QED
      BY <3>2, <3>3
  <2>5. /\ DequeOf(history)' /\ pacerTasks' \in Seq(PacerTasks)
        /\ Marked' /\ Cleared'
    BY <1>1, <1>2, <2>3, <2>4, CopiedFacts
  <2>6. Types' /\ HistoryIsWindow'
    BY <1>2, <1>3, <2>5 DEF Types, HistoryIsWindow, DequeOf, Window
  <2>7. Nacked'
    BY <1>2, <1>3 DEF Nacked, history_shutdown
  <2>. QED
    BY <2>5, <2>6, <2>7
<1>. QED
  BY <1>4, <1>5

LEMMA TaskType ==
    ASSUME Types, NEW k \in Kinds, NEW s \in SeqNums \cup Rtts, k # "rtt" => s \in SeqNums
    PROVE  Task(k, s) \in HistoryTasks /\ Task(k, s).kind = k /\ Task(k, s).seq = s
           /\ Task(k, s).epoch = pauses
<1>1. PICK t : t = Task(k, s)
  OBVIOUS
<1>2. t \in [kind : Kinds, seq : SeqNums \cup Rtts, epoch : Nat] /\ t.kind = k /\ t.seq = s
      /\ t.epoch = pauses
  BY <1>1 DEF Types, Task
<1>3. t \in HistoryTasks
  BY <1>2 DEF HistoryTasks
<1>. QED
  BY <1>1, <1>2, <1>3

\* What posting a task gives, for the parts of the invariant about tasks.
LEMMA PostedFacts ==
    ASSUME Types, NEW t \in HistoryTasks, tasks' = Append(tasks, t)
    PROVE  /\ tasks' \in Seq(HistoryTasks)
           /\ \A k : Waits(tasks, k) => Waits(tasks', k)
           /\ Waits(tasks', t.kind)
<1>1. PICK q \in Seq(HistoryTasks) : q = tasks
  BY DEF Types
<1>2. PICK e : e = tasks'
  OBVIOUS
<1>3. e \in Seq(HistoryTasks) /\ (\A k : Waits(q, k) => Waits(e, k)) /\ Waits(e, t.kind)
  BY <1>1, <1>2, OnAppend
<1>. QED
  BY <1>1, <1>2, <1>3

LEMMA FinishNacksInv == ASSUME VInv, FinishNacks PROVE VInv'
<1>. USE DEF VInv, Rest
<1>1. UNCHANGED <<history, pacerTasks, rtxQueue, videoPaused, pauses, stage, clock, nextSeq, nacker>>
  BY DEF FinishNacks
<1>2. worker' = Idle /\ worker' \in [at : {"idle", "resend"}, batch : SUBSET SeqNums]
  BY DEF FinishNacks, Idle
<1>3. HistoryIsWindow'
  BY <1>1 DEF HistoryIsWindow
<1>4. CASE history_shutdown \/ pendingNacks = {}
  <2>1. pendingNacks' = {} /\ scheduled' = FALSE /\ tasks' = tasks
    BY <1>4 DEF FinishNacks
  <2>2. Marked' /\ Cleared'
    BY <1>1, <2>1, MediaKept DEF Media
  <2>3. Types' /\ Nacked'
    BY <1>1, <1>2, <2>1 DEF Types, Nacked
  <2>. QED
    BY <1>3, <2>2, <2>3
<1>5. CASE ~(history_shutdown \/ pendingNacks = {})
  <2>1. PICK t \in HistoryTasks : t.kind = "nacks" /\ tasks' = Append(tasks, t)
    <3>1. "nacks" \in Kinds /\ 0 \in SeqNums
      BY CapacityAssumption DEF Kinds, SeqNums
    <3>2. Task("nacks", 0) \in HistoryTasks /\ Task("nacks", 0).kind = "nacks"
      BY <3>1, TaskType
    <3>. QED
      BY <1>5, <3>2 DEF FinishNacks
  <2>2. UNCHANGED <<pendingNacks, scheduled>>
    BY <1>5 DEF FinishNacks
  <2>3. tasks' \in Seq(HistoryTasks) /\ Waits(tasks', "nacks")
    BY <2>1, PostedFacts
  <2>4. Marked' /\ Cleared'
    BY <1>1, <2>1, Posted
  <2>5. Types'
    BY <1>1, <1>2, <2>2, <2>3 DEF Types
  <2>6. Nacked'
    BY <1>1, <1>5, <2>2, <2>3 DEF Nacked, history_shutdown
  <2>. QED
    BY <1>3, <2>4, <2>5, <2>6
<1>. QED
  BY <1>4, <1>5

-----------------------------------------------------------------------------
(***************************************************************************)
(* The RTCP thread.                                                        *)
(***************************************************************************)
LEMMA OnReceiveNackInv == ASSUME VInv, OnReceiveNack PROVE VInv'
<1>. USE DEF VInv, Rest
<1>1. /\ UNCHANGED <<history, tasks, pacerTasks, rtxQueue, videoPaused, pauses, stage, clock, nextSeq,
                     worker>>
      /\ ~history_shutdown /\ nacker = "idle" /\ scheduled' = TRUE
      /\ nacker' = IF scheduled THEN "idle" ELSE "post"
  BY DEF OnReceiveNack
<1>2. pendingNacks' \subseteq SeqNums
  <2>1. PICK S \in NackBatches : \E T \in SUBSET S : pendingNacks' = pendingNacks \cup T
    BY DEF OnReceiveNack
  <2>2. PICK T \in SUBSET S : pendingNacks' = pendingNacks \cup T
    BY <2>1
  <2>3. S \subseteq SeqNums
    BY NumbersAssumption
  <2>. QED
    BY <2>2, <2>3 DEF Types
<1>3. Types' /\ HistoryIsWindow'
  BY <1>1, <1>2 DEF Types, HistoryIsWindow
<1>4. Marked' /\ Cleared'
  BY <1>1, MediaKept DEF Media
<1>5. Nacked'
  BY <1>1 DEF Types, Nacked, history_shutdown
<1>. QED
  BY <1>3, <1>4, <1>5

LEMMA PostNackTaskInv == ASSUME VInv, PostNackTask PROVE VInv'
<1>. USE DEF VInv, Rest
<1>1. UNCHANGED <<history, pacerTasks, rtxQueue, videoPaused, pauses, stage, clock, nextSeq, worker,
                  pendingNacks>>
  BY DEF PostNackTask
<1>2. HistoryIsWindow'
  BY <1>1 DEF HistoryIsWindow
<1>3. CASE stage = "stopped"
  <2>1. scheduled' = FALSE /\ tasks' = tasks
    BY <1>3 DEF PostNackTask
  <2>2. Marked' /\ Cleared'
    BY <1>1, <2>1, MediaKept DEF Media
  <2>3. Types'
    BY <1>1, <2>1 DEF Types
  <2>4. Nacked'
    BY <1>1, <1>3, <2>1 DEF Nacked, history_shutdown
  <2>. QED
    BY <1>2, <2>2, <2>3, <2>4
<1>4. CASE stage # "stopped"
  <2>1. PICK t \in HistoryTasks : t.kind = "nacks" /\ tasks' = Append(tasks, t)
    <3>1. "nacks" \in Kinds /\ 0 \in SeqNums
      BY CapacityAssumption DEF Kinds, SeqNums
    <3>2. Task("nacks", 0) \in HistoryTasks /\ Task("nacks", 0).kind = "nacks"
      BY <3>1, TaskType
    <3>. QED
      BY <1>4, <3>2 DEF PostNackTask
  <2>2. scheduled' = scheduled
    BY <1>4 DEF PostNackTask
  <2>3. tasks' \in Seq(HistoryTasks) /\ Waits(tasks', "nacks")
    BY <2>1, PostedFacts
  <2>4. Marked' /\ Cleared'
    BY <1>1, <2>1, Posted
  <2>5. Types'
    BY <1>1, <2>2, <2>3 DEF Types
  <2>6. Nacked'
    BY <1>1, <2>2, <2>3 DEF Nacked, history_shutdown
  <2>. QED
    BY <1>2, <2>4, <2>5, <2>6
<1>. QED
  BY <1>3, <1>4

LEMMA OnRttUpdateInv == ASSUME VInv, OnRttUpdate PROVE VInv'
<1>. USE DEF VInv, Rest
<1>1. UNCHANGED <<history, pacerTasks, rtxQueue, videoPaused, pauses, stage, clock, nextSeq, worker,
                  pendingNacks, scheduled, nacker>>
  BY DEF OnRttUpdate
<1>2. PICK t \in HistoryTasks : t.kind = "rtt" /\ tasks' = Append(tasks, t)
  <2>1. PICK r \in Rtts : tasks' = Append(tasks, Task("rtt", r))
    BY DEF OnRttUpdate, PostHistory
  <2>2. Task("rtt", r) \in HistoryTasks /\ Task("rtt", r).kind = "rtt"
    BY TaskType DEF Kinds
  <2>. QED
    BY <2>1, <2>2
<1>3. tasks' \in Seq(HistoryTasks) /\ \A k : Waits(tasks, k) => Waits(tasks', k)
  BY <1>2, PostedFacts
<1>4. Marked' /\ Cleared'
  BY <1>1, <1>2, Posted
<1>5. Types' /\ HistoryIsWindow'
  BY <1>1, <1>3 DEF Types, HistoryIsWindow
<1>6. Nacked'
  BY <1>1, <1>3 DEF Nacked, history_shutdown
<1>. QED
  BY <1>4, <1>5, <1>6

-----------------------------------------------------------------------------
(***************************************************************************)
(* The pacer.                                                              *)
(***************************************************************************)
LEMMA NextNumber == ASSUME Types PROVE SeqPlus(nextSeq, 1, SeqMod) \in SeqNums
<1>1. nextSeq \in 0..(SeqMod - 1) /\ SeqMod \in Nat
  BY CapacityAssumption DEF Types, SeqNums
<1>. QED
  BY <1>1 DEF SeqPlus, SeqNums

LEMMA SendMediaInv == ASSUME VInv, SendMedia PROVE VInv'
<1>. USE DEF VInv, Rest
<1>1. /\ UNCHANGED <<history, pacerTasks, rtxQueue, videoPaused, pauses, stage, clock, worker,
                     pendingNacks, scheduled, nacker>>
      /\ stage = "run" /\ ~videoPaused
      /\ nextSeq' = SeqPlus(nextSeq, 1, SeqMod)
      /\ tasks' = Append(tasks, Task("put", nextSeq))
  BY DEF SendMedia, PostHistory, history_shutdown
<1>2. PICK t \in HistoryTasks : t.kind = "put" /\ t.epoch = pauses /\ tasks' = Append(tasks, t)
  <2>1. /\ Task("put", nextSeq) \in HistoryTasks /\ Task("put", nextSeq).kind = "put"
        /\ Task("put", nextSeq).epoch = pauses
    <3>1. "put" \in Kinds /\ nextSeq \in SeqNums
      BY DEF Kinds, Types
    <3>. QED
      BY <3>1, TaskType
  <2>. QED
    BY <1>1, <2>1
<1>3. tasks' \in Seq(HistoryTasks) /\ \A k : Waits(tasks, k) => Waits(tasks', k)
  BY <1>2, PostedFacts
<1>4. Marked' /\ Cleared'
  <2>1. Current(t.epoch)
    BY <1>1, <1>2 DEF Current, Types
  <2>. QED
    BY <1>1, <1>2, <2>1, Posted
<1>5. Types' /\ HistoryIsWindow'
  BY <1>1, <1>3, NextNumber DEF Types, HistoryIsWindow
<1>6. Nacked'
  BY <1>1, <1>3 DEF Nacked, history_shutdown
<1>. QED
  BY <1>4, <1>5, <1>6

LEMMA SendRtxInv == ASSUME VInv, SendRtx PROVE VInv'
<1>. USE DEF VInv, Rest
<1>1. /\ UNCHANGED <<history, pacerTasks, videoPaused, pauses, stage, clock, nextSeq, worker,
                     pendingNacks, scheduled, nacker>>
      /\ stage = "run" /\ rtxQueue # <<>> /\ rtxQueue' = Tail(rtxQueue)
  BY DEF SendRtx
<1>2. PICK x : x = Head(rtxQueue)
  OBVIOUS
<1>3. PICK q \in Seq(PacerTasks) : q = rtxQueue /\ q # <<>>
  BY <1>1 DEF Types
<1>4. PICK e : e = rtxQueue'
  OBVIOUS
<1>5. x \in PacerTasks /\ e \in Seq(PacerTasks) /\ \A s : InQueue(q, s) => InQueue(e, s) \/ x.seq = s
  BY <1>1, <1>2, <1>3, <1>4, OnTail
<1>6. PICK t \in HistoryTasks : /\ t.kind \in {"sent", "aborted"} /\ t.seq = x.seq
                               /\ tasks' = Append(tasks, t)
  <2>1. x.seq \in SeqNums
    BY <1>5 DEF PacerTasks
  <2>2. PICK k \in {"sent", "aborted"} : tasks' = Append(tasks, Task(k, x.seq))
    BY <1>1, <1>2 DEF SendRtx, PostHistory, history_shutdown
  <2>3. Task(k, x.seq) \in HistoryTasks /\ Task(k, x.seq).kind = k /\ Task(k, x.seq).seq = x.seq
    <3>1. k \in Kinds
      BY DEF Kinds
    <3>. QED
      BY <2>1, <3>1, TaskType
  <2>. QED
    BY <2>2, <2>3
<1>7. tasks' \in Seq(HistoryTasks) /\ \A k : Waits(tasks, k) => Waits(tasks', k)
  BY <1>6, PostedFacts
<1>8. PICK w \in Seq(HistoryTasks) : w = tasks
  BY DEF Types
<1>9. PICK v : v = tasks'
  OBVIOUS
<1>10. Reports(v, x.seq) /\ \A s : Reports(w, s) => Reports(v, s)
  BY <1>6, <1>8, <1>9, OnAppend
<1>11. ASSUME NEW i \in 1..Len(history), history[i].pending
       PROVE  Backed(history[i])'
  <2>1. Backed(history[i])
    BY <1>1, <1>11 DEF Marked
  <2>2. InQueue(q, history[i].seq) => InQueue(e, history[i].seq) \/ Reports(v, history[i].seq)
    BY <1>5, <1>10
  <2>3. Reports(w, history[i].seq) => Reports(v, history[i].seq)
    BY <1>10
  <2>4. Waits(tasks, "clear") => Waits(tasks', "clear")
    BY <1>7
  <2>. QED
    BY <1>1, <1>3, <1>4, <1>8, <1>9, <2>1, <2>2, <2>3, <2>4 DEF Backed
<1>12. Marked'
  BY <1>1, <1>11 DEF Marked
<1>13. Cleared'
  <2>1. \A i \in 1..Len(w) : v[i] = w[i] /\ (Later(w, i) \/ t.kind = "clear" => Later(v, i))
    <3>1. v = Append(w, t)
      BY <1>6, <1>8, <1>9
    <3>. QED
      BY <3>1, LaterAppend
  <2>2. Len(w) \in Nat /\ Len(v) = Len(w) + 1 /\ v[Len(v)] = t
    BY <1>6, <1>8, <1>9
  <2>3. ASSUME NEW i \in 1..Len(v), v[i].kind = "put", ~Current(v[i].epoch)
        PROVE  Later(v, i)
    <3>1. i \in 1..Len(w)
      BY <1>6, <2>2, <2>3
    <3>. QED
      BY <1>1, <1>8, <2>1, <2>3, <3>1 DEF Cleared
  <2>. QED
    BY <1>1, <1>7, <1>9, <2>3 DEF Cleared, Current
<1>14. Types' /\ HistoryIsWindow'
  BY <1>1, <1>4, <1>5, <1>7 DEF Types, HistoryIsWindow
<1>15. Nacked'
  BY <1>1, <1>7 DEF Nacked, history_shutdown
<1>. QED
  BY <1>12, <1>13, <1>14, <1>15

LEMMA EnqueueRtxInv == ASSUME VInv, EnqueueRtx PROVE VInv'
<1>. USE DEF VInv, Rest
<1>1. /\ UNCHANGED <<history, tasks, videoPaused, pauses, stage, clock, nextSeq, worker,
                     pendingNacks, scheduled, nacker>>
      /\ pacerTasks # <<>> /\ pacerTasks' = Tail(pacerTasks)
  BY DEF EnqueueRtx
<1>2. PICK x : x = Head(pacerTasks)
  OBVIOUS
<1>3. PICK q \in Seq(PacerTasks) : q = pacerTasks /\ q # <<>>
  BY <1>1 DEF Types
<1>4. PICK e : e = pacerTasks'
  OBVIOUS
<1>5. /\ x \in PacerTasks /\ e \in Seq(PacerTasks)
      /\ \A s, c : CopyIn(q, s, c) => CopyIn(e, s, c) \/ (x.seq = s /\ x.epoch = c)
  BY <1>1, <1>2, <1>3, <1>4, OnTail
<1>6. PICK r \in Seq(PacerTasks) : r = rtxQueue
  BY DEF Types
<1>7. PICK w : w = rtxQueue'
  OBVIOUS
<1>8. /\ w \in Seq(PacerTasks) /\ (\A s : InQueue(r, s) => InQueue(w, s))
      /\ Current(x.epoch) => InQueue(w, x.seq)
  <2>1. CASE ShouldDropVideoPacket(x)
    <3>1. w = r
      BY <1>2, <1>6, <1>7, <2>1 DEF EnqueueRtx
    <3>2. ~Current(x.epoch)
      BY <1>5, <2>1 DEF ShouldDropVideoPacket, Current, PacerTasks, Types
    <3>. QED
      BY <3>1, <3>2
  <2>2. CASE ~ShouldDropVideoPacket(x)
    <3>1. w = Append(r, x)
      BY <1>2, <1>6, <1>7, <2>2 DEF EnqueueRtx
    <3>. QED
      BY <1>5, <3>1, OnAppend
  <2>. QED
    BY <2>1, <2>2
<1>9. ASSUME stage = "run", NEW i \in 1..Len(history), history[i].pending
      PROVE  Backed(history[i])'
  <2>1. Backed(history[i]) /\ history[i].held
    BY <1>9 DEF Marked
  <2>2. \/ CopyIn(e, history[i].seq, history[i].epoch) \/ InQueue(w, history[i].seq)
        \/ Reports(tasks, history[i].seq) \/ Waits(tasks, "clear")
    <3>1. CASE CopyIn(pacerTasks, history[i].seq, history[i].epoch)
      <4>1. CASE x.seq = history[i].seq /\ x.epoch = history[i].epoch
        <5>1. CASE Current(x.epoch)
          BY <1>8, <4>1, <5>1
        <5>2. CASE ~Current(x.epoch)
          BY <1>9, <2>1, <4>1, <5>2 DEF Cleared
        <5>. QED
          BY <5>1, <5>2
      <4>2. CASE ~(x.seq = history[i].seq /\ x.epoch = history[i].epoch)
        BY <1>3, <1>5, <3>1, <4>2
      <4>. QED
        BY <4>1, <4>2
    <3>2. CASE InQueue(rtxQueue, history[i].seq)
      BY <1>6, <1>8, <3>2
    <3>. QED
      BY <2>1, <3>1, <3>2 DEF Backed
  <2>. QED
    BY <1>1, <1>4, <1>7, <2>2 DEF Backed
<1>10. Marked'
  BY <1>1, <1>9 DEF Marked
<1>11. Cleared'
  BY <1>1 DEF Cleared, Current
<1>12. Types' /\ HistoryIsWindow'
  BY <1>1, <1>4, <1>5, <1>7, <1>8 DEF Types, HistoryIsWindow
<1>13. Nacked'
  BY <1>1, AskedKept DEF Asked
<1>. QED
  BY <1>10, <1>11, <1>12, <1>13

LEMMA PauseVideoInv == ASSUME VInv, PauseVideo PROVE VInv'
<1>. USE DEF VInv, Rest
<1>1. /\ UNCHANGED <<history, stage, clock, nextSeq, worker, scheduled, nacker>>
      /\ pacerTasks # <<>> /\ pacerTasks' = Tail(pacerTasks) /\ pendingNacks' = {}
      /\ tasks' = IF history_shutdown THEN tasks ELSE Append(tasks, Task("clear", 0))
  BY DEF PauseVideo, ResetSendState, PostHistory
<1>2. pacerTasks' \in Seq(PacerTasks)
  BY <1>1 DEF Types
<1>3. pauses' \in Nat /\ videoPaused' \in BOOLEAN /\ rtxQueue' \in Seq(PacerTasks)
  <2>1. CASE stage = "run"
    <3>1. videoPaused' = TRUE /\ pauses' = pauses + 1 /\ rtxQueue' = <<>>
      BY <2>1 DEF PauseVideo
    <3>. QED
      BY <3>1 DEF Types
  <2>2. CASE stage # "run"
    BY <2>2 DEF PauseVideo, Types
  <2>. QED
    BY <2>1, <2>2
<1>4. /\ Task("clear", 0) \in HistoryTasks /\ Task("clear", 0).kind = "clear"
  <2>1. "clear" \in Kinds /\ 0 \in SeqNums
    BY CapacityAssumption DEF Kinds, SeqNums
  <2>. QED
    BY <2>1, TaskType
<1>5. /\ tasks' \in Seq(HistoryTasks) /\ \A k : Waits(tasks, k) => Waits(tasks', k)
      /\ ~history_shutdown => Waits(tasks', "clear")
  <2>1. CASE history_shutdown
    BY <1>1, <2>1 DEF Types
  <2>2. CASE ~history_shutdown
    BY <1>1, <1>4, <2>2, PostedFacts
  <2>. QED
    BY <2>1, <2>2
<1>6. Types' /\ HistoryIsWindow'
  BY <1>1, <1>2, <1>3, <1>5 DEF Types, HistoryIsWindow
<1>7. Nacked'
  BY <1>1, <1>5 DEF Nacked, history_shutdown
<1>8. CASE stage # "run"
  BY <1>1, <1>6, <1>7, <1>8 DEF Marked, Cleared
<1>9. CASE stage = "run"
  <2>1. Waits(tasks', "clear")
    BY <1>5, <1>9 DEF history_shutdown
  <2>2. Marked'
    BY <1>1, <2>1 DEF Marked, Backed
  <2>3. PICK w \in Seq(HistoryTasks) : w = tasks
    BY DEF Types
  <2>4. PICK t \in HistoryTasks : t = Task("clear", 0) /\ t.kind = "clear"
    BY <1>4
  <2>5. PICK v : v = tasks'
    OBVIOUS
  <2>6. v = Append(w, t)
    BY <1>1, <1>9, <2>3, <2>4, <2>5 DEF history_shutdown
  <2>7. Len(w) \in Nat /\ Len(v) = Len(w) + 1 /\ v[Len(v)] = t
    BY <2>6
  <2>8. ASSUME NEW i \in 1..Len(v), v[i].kind = "put"
        PROVE  Later(v, i)
    <3>1. i \in 1..Len(w)
      BY <2>4, <2>7, <2>8
    <3>2. \A j \in 1..Len(w) : v[j] = w[j] /\ (Later(w, j) \/ t.kind = "clear" => Later(v, j))
      BY <2>6, LaterAppend
    <3>. QED
      BY <2>4, <3>1, <3>2
  <2>9. Cleared'
    BY <2>1, <2>5, <2>8 DEF Cleared
  <2>. QED
    BY <1>6, <1>7, <2>2, <2>9
<1>. QED
  BY <1>8, <1>9

\* A task of the pacer that is no retransmission has been taken, or one has
\* been posted, and packets of an earlier epoch are not revived.
LEMMA ControlFacts ==
    ASSUME VInv, pacerTasks' \in Seq(PacerTasks),
           \A s, c : CopyIn(pacerTasks, s, c) => CopyIn(pacerTasks', s, c),
           videoPaused' \in BOOLEAN, stage = "run" /\ videoPaused' => videoPaused,
           UNCHANGED <<history, tasks, rtxQueue, pauses, stage, clock, nextSeq, worker,
                       pendingNacks, scheduled, nacker>>
    PROVE  VInv'
<1>. USE DEF VInv, Rest
<1>1. Types' /\ HistoryIsWindow'
  BY DEF Types, HistoryIsWindow
<1>2. Nacked'
  BY AskedKept DEF Asked
<1>3. Marked'
  <2>1. ASSUME stage = "run", NEW i \in 1..Len(history), history[i].pending
        PROVE  Backed(history[i])'
    <3>1. Backed(history[i])
      BY <2>1 DEF Marked
    <3>. QED
      BY <3>1 DEF Backed
  <2>. QED
    BY <2>1 DEF Marked
<1>4. Cleared'
  <2>1. stage = "run" => \A c : Current(c) => Current(c)'
    BY DEF Current
  <2>. QED
    BY <2>1 DEF Cleared
<1>. QED
  BY <1>1, <1>2, <1>3, <1>4

LEMMA ResumeVideoInv == ASSUME VInv, ResumeVideo PROVE VInv'
<1>1. PICK x : x = Head(pacerTasks) /\ x.kind = "resume"
  BY DEF ResumeVideo
<1>2. PICK q \in Seq(PacerTasks) : q = pacerTasks /\ q # <<>>
  BY DEF ResumeVideo, VInv, Types
<1>3. PICK e : e = pacerTasks' /\ e = Tail(q)
  BY <1>2 DEF ResumeVideo
<1>4. /\ e \in Seq(PacerTasks)
      /\ \A s, c : CopyIn(q, s, c) => CopyIn(e, s, c) \/ (x.kind = "rtx" /\ x.seq = s /\ x.epoch = c)
  BY <1>1, <1>2, <1>3, OnTail
<1>5. pacerTasks' \in Seq(PacerTasks) /\ \A s, c : CopyIn(pacerTasks, s, c) => CopyIn(pacerTasks', s, c)
  BY <1>1, <1>2, <1>3, <1>4
<1>6. videoPaused' \in BOOLEAN /\ (stage = "run" /\ videoPaused' => videoPaused)
  BY DEF ResumeVideo
<1>7. UNCHANGED <<history, tasks, rtxQueue, pauses, stage, clock, nextSeq, worker,
                  pendingNacks, scheduled, nacker>>
  BY DEF ResumeVideo
<1>. QED
  BY <1>5, <1>6, <1>7, ControlFacts

LEMMA SetVideoSendPausedInv == ASSUME VInv, SetVideoSendPaused PROVE VInv'
<1>1. PICK t \in PacerTasks : pacerTasks' = Append(pacerTasks, t)
  <2>1. 0 \in SeqNums
    BY CapacityAssumption DEF SeqNums
  <2>2. [kind |-> IF apiPaused THEN "resume" ELSE "pause", seq |-> 0, epoch |-> 0] \in PacerTasks
    BY <2>1 DEF PacerTasks
  <2>. QED
    BY <2>2 DEF SetVideoSendPaused
<1>2. PICK q \in Seq(PacerTasks) : q = pacerTasks
  BY DEF VInv, Types
<1>3. PICK e : e = pacerTasks'
  OBVIOUS
<1>4. e \in Seq(PacerTasks) /\ \A s, c : CopyIn(q, s, c) => CopyIn(e, s, c)
  BY <1>1, <1>2, <1>3, OnAppend
<1>5. pacerTasks' \in Seq(PacerTasks) /\ \A s, c : CopyIn(pacerTasks, s, c) => CopyIn(pacerTasks', s, c)
  BY <1>2, <1>3, <1>4
<1>6. UNCHANGED <<history, tasks, rtxQueue, videoPaused, pauses, stage, clock, nextSeq, worker,
                  pendingNacks, scheduled, nacker>>
  BY DEF SetVideoSendPaused
<1>7. videoPaused' \in BOOLEAN /\ (stage = "run" /\ videoPaused' => videoPaused)
  BY <1>6 DEF VInv, Types
<1>. QED
  BY <1>5, <1>6, <1>7, ControlFacts

LEMMA DestroyInv == ASSUME VInv, Destroy PROVE VInv'
<1>. USE DEF VInv, Rest
<1>1. UNCHANGED <<history, pacerTasks, rtxQueue, videoPaused, pauses, clock, nextSeq, worker, nacker>>
  BY DEF Destroy
<1>2. stage' \in Stages /\ stage' # "run"
  BY DEF Destroy, Stages
<1>3. HistoryIsWindow'
  BY <1>1 DEF HistoryIsWindow
<1>4. Marked' /\ Cleared'
  BY <1>1, <1>2 DEF Marked, Cleared
<1>5. CASE stage \in {"run", "cleared"}
  <2>1. UNCHANGED <<tasks, pendingNacks, scheduled>> /\ (stage = "run" => stage' = "pacer down")
    BY <1>5 DEF Destroy
  <2>2. Types'
    BY <1>1, <1>2, <2>1 DEF Types
  <2>3. Nacked'
    BY <1>1, <1>5, <2>1 DEF Nacked, history_shutdown
  <2>. QED
    BY <1>3, <1>4, <2>2, <2>3
<1>6. CASE stage = "pacer down"
  <2>1. pendingNacks' = {} /\ scheduled' = FALSE /\ tasks' = tasks
    BY <1>6 DEF Destroy
  <2>2. Types' /\ Nacked'
    BY <1>1, <1>2, <2>1 DEF Types, Nacked
  <2>. QED
    BY <1>3, <1>4, <2>2
<1>7. CASE stage = "shutdown"
  <2>1. UNCHANGED <<pendingNacks, scheduled>> /\ tasks' = <<>>
    BY <1>7 DEF Destroy
  <2>2. pendingNacks = {} /\ ~scheduled
    BY <1>7 DEF Nacked, history_shutdown
  <2>3. Types'
    BY <1>1, <1>2, <2>1 DEF Types
  <2>4. Nacked'
    BY <2>1, <2>2 DEF Nacked
  <2>. QED
    BY <1>3, <1>4, <2>3, <2>4
<1>. QED
  BY <1>5, <1>6, <1>7 DEF Destroy

\* Padding, the clock, and the stuttering of a destroyed channel.
LEMMA AsideInv ==
    ASSUME VInv, clock' \in Nat, nextSeq' \in SeqNums, UNCHANGED <<Media, Asked>>
    PROVE  VInv'
<1>. USE DEF VInv, Rest
<1>1. Types' /\ HistoryIsWindow'
  BY DEF Types, HistoryIsWindow, Media, Asked
<1>2. Marked' /\ Cleared'
  BY MediaKept
<1>3. Nacked'
  BY AskedKept
<1>. QED
  BY <1>1, <1>2, <1>3

LEMMA InitVInv == VcsInit => VInv
<1>. SUFFICES ASSUME VcsInit PROVE VInv
  OBVIOUS
<1>1. Types
  <2>1. /\ clock \in Nat /\ pauses \in Nat /\ videoPaused \in BOOLEAN /\ scheduled \in BOOLEAN
        /\ nextSeq \in SeqNums /\ pendingNacks \subseteq SeqNums /\ stage \in Stages
    BY NumbersAssumption DEF VcsInit, Stages
  <2>2. worker \in [at : {"idle", "resend"}, batch : SUBSET SeqNums]
    BY DEF VcsInit, Idle
  <2>3. history = <<>> /\ tasks = <<>> /\ pacerTasks = <<>> /\ rtxQueue = <<>>
    BY DEF VcsInit
  <2>. QED
    BY <2>1, <2>2, <2>3 DEF Types
<1>2. HistoryIsWindow
  BY CapacityAssumption DEF VcsInit, HistoryIsWindow
<1>3. Marked /\ Cleared
  BY DEF VcsInit, Marked, Cleared
<1>4. Nacked
  BY DEF VcsInit, Nacked, history_shutdown
<1>. QED
  BY <1>1, <1>2, <1>3, <1>4 DEF VInv, Rest

LEMMA NextVInv == VInv /\ [VcsNext]_vcsVars => VInv'
<1>. SUFFICES ASSUME VInv, [VcsNext]_vcsVars PROVE VInv'
  OBVIOUS
<1>1. CASE RunTask BY <1>1, RunTaskInv
<1>2. CASE ProcessPendingNacks BY <1>2, ProcessPendingNacksInv
<1>3. CASE Resend BY <1>3, ResendInv
<1>4. CASE FinishNacks BY <1>4, FinishNacksInv
<1>5. CASE OnReceiveNack BY <1>5, OnReceiveNackInv
<1>6. CASE PostNackTask BY <1>6, PostNackTaskInv
<1>7. CASE OnRttUpdate BY <1>7, OnRttUpdateInv
<1>8. CASE SendMedia BY <1>8, SendMediaInv
<1>9. CASE SendPadding
  <2>1. UNCHANGED <<Media, Asked>> /\ clock' \in Nat /\ nextSeq' \in SeqNums
    BY <1>9, NextNumber DEF SendPadding, Media, Asked, VInv, Types
  <2>. QED
    BY <2>1, AsideInv
<1>10. CASE SendRtx BY <1>10, SendRtxInv
<1>11. CASE EnqueueRtx BY <1>11, EnqueueRtxInv
<1>12. CASE PauseVideo BY <1>12, PauseVideoInv
<1>13. CASE ResumeVideo BY <1>13, ResumeVideoInv
<1>14. CASE SetVideoSendPaused BY <1>14, SetVideoSendPausedInv
<1>15. CASE Destroy BY <1>15, DestroyInv
<1>16. CASE PassTime
  <2>1. UNCHANGED <<Media, Asked>> /\ clock' \in Nat /\ nextSeq' \in SeqNums
    BY <1>16 DEF PassTime, Media, Asked, VInv, Types
  <2>. QED
    BY <2>1, AsideInv
<1>17. CASE UNCHANGED vcsVars
  <2>1. UNCHANGED <<Media, Asked>> /\ clock' \in Nat /\ nextSeq' \in SeqNums
    BY <1>17 DEF vcsVars, Media, Asked, VInv, Types
  <2>. QED
    BY <2>1, AsideInv
<1>. QED
  BY <1>1, <1>2, <1>3, <1>4, <1>5, <1>6, <1>7, <1>8, <1>9, <1>10, <1>11, <1>12, <1>13, <1>14,
     <1>15, <1>16, <1>17 DEF VcsNext, HistoryStep, PacerStep, Destroyed

LEMMA VInvariance == VcsSpec => []VInv
BY InitVInv, NextVInv, PTL DEF VcsSpec

-----------------------------------------------------------------------------
(***************************************************************************)
(* The theorems.                                                           *)
(***************************************************************************)
\* The deque of RtpPacketHistory stays a window of consecutive numbers of at
\* most kMaxCapacity slots whose front is a packet, through puts in any order,
\* replacements, removals by age and wherever the numbers wrap.
THEOREM HistoryStaysAWindow == VcsSpec => []HistoryIsWindow
BY VInvariance, PTL DEF VInv

\* Every stored packet is found under its number: the index that
\* GetPacketIndex computes from the number is the packet's place.
PacketsAreFound ==
    \A i \in 1..Len(history) :
        history[i].held => GetStoredPacket(history, history[i].seq) = i

\* No packet is lost in the deque: GetStoredPacket finds every one, wherever
\* the numbers have wrapped, so the result of a retransmission is recorded for
\* the packet that was resent and for no other.
THEOREM StoredPacketsAreFound == VcsSpec => []PacketsAreFound
<1>1. VInv => PacketsAreFound
  <2>. SUFFICES ASSUME VInv, NEW i \in 1..Len(history), history[i].held
       PROVE  GetStoredPacket(history, history[i].seq) = i
    BY DEF PacketsAreFound
  <2>1. DequeOf(history)
    BY WindowIsDeque DEF VInv
  <2>. QED
    BY <2>1, FoundComplete DEF DequeOf
<1>. QED
  BY <1>1, VInvariance, PTL

\* A NACK that OnReceiveNack accepted is served: a task that will look at it
\* is posted, about to be posted or running; and no packet stays marked as
\* waiting in the pacer, although the mark is set by the history worker, the
\* copy may be discarded by a pause in the pacer, and the result is recorded
\* by a task that runs later.
THEOREM RetransmissionsAreServed == VcsSpec => []RetransmissionServed
<1>1. VInv => RetransmissionServed
  <2>. SUFFICES ASSUME VInv PROVE RetransmissionServed
    OBVIOUS
  <2>1. pendingNacks # {} =>
          nacker = "post" \/ worker.at = "resend" \/ \E j \in 1..Len(tasks) : tasks[j].kind = "nacks"
    BY DEF VInv, Rest, Nacked, Waits
  <2>2. ASSUME stage = "run", NEW i \in 1..Len(history), history[i].pending
        PROVE  MarkIsBacked(history[i])
    <3>1. Backed(history[i])
      BY <2>2 DEF VInv, Rest, Marked
    <3>2. CASE CopyIn(pacerTasks, history[i].seq, history[i].epoch)
      BY <3>2 DEF CopyIn, MarkIsBacked, Copies
    <3>3. CASE InQueue(rtxQueue, history[i].seq)
      BY <3>3 DEF InQueue, MarkIsBacked
    <3>4. CASE Reports(tasks, history[i].seq)
      BY <3>4 DEF Reports, MarkIsBacked
    <3>5. CASE Waits(tasks, "clear")
      BY <3>5 DEF Waits, MarkIsBacked
    <3>. QED
      BY <3>1, <3>2, <3>3, <3>4, <3>5 DEF Backed
  <2>. QED
    BY <2>1, <2>2 DEF RetransmissionServed
<1>. QED
  BY <1>1, VInvariance, PTL
-----------------------------------------------------------------------------
(***************************************************************************)
(* The deque implements the store of packets by number.  With RTX enabled  *)
(* every number of the media SSRC is the number of a packet that is put,   *)
(* so the packets to be put carry on, one by one, from the newest stored.  *)
(***************************************************************************)
\* No packet is put by the tasks between the i-th and the j-th.
Quiet(w, i, j) == \A k \in (i + 1)..(j - 1) : w[k].kind # "put"

\* Every packet to be put follows the one to be put before it, the first of
\* them the newest stored, of number a \in A.
Chained(w, A) ==
    \A j \in 1..Len(w) : w[j].kind = "put" =>
        /\ \A i \in 1..(j - 1) : w[i].kind = "put" /\ Quiet(w, i, j) =>
              w[j].seq = SeqPlus(w[i].seq, 1, SeqMod)
        /\ Quiet(w, 0, j) => \A a \in A : w[j].seq = SeqPlus(a, 1, SeqMod)

\* The number n follows the last of them.
Ended(w, A, n) ==
    /\ \A i \in 1..Len(w) : w[i].kind = "put" /\ Quiet(w, i, Len(w) + 1) =>
          n = SeqPlus(w[i].seq, 1, SeqMod)
    /\ Quiet(w, 0, Len(w) + 1) => \A a \in A : n = SeqPlus(a, 1, SeqMod)

Newest(h) == IF h = <<>> THEN {} ELSE {h[Len(h)].seq}
Full(h)   == \A i \in 1..Len(h) : h[i].held

LEMMA ChainOther ==
    ASSUME NEW w \in Seq(HistoryTasks), NEW A, NEW t \in HistoryTasks, t.kind # "put",
           NEW e, e = Append(w, t), Chained(w, A)
    PROVE  Chained(e, A) /\ \A n : Ended(w, A, n) => Ended(e, A, n)
<1>1. /\ Len(e) = Len(w) + 1 /\ Len(w) \in Nat /\ e[Len(e)] = t
      /\ \A j \in 1..Len(w) : j \in 1..Len(e) /\ e[j] = w[j]
  BY AppendFacts
<1>2. ASSUME NEW j \in 1..Len(w), NEW i \in 0..(j - 1), Quiet(e, i, j)
      PROVE  Quiet(w, i, j)
  BY <1>1, <1>2 DEF Quiet
<1>3. ASSUME NEW i \in 0..Len(w), Quiet(e, i, Len(e) + 1)
      PROVE  Quiet(w, i, Len(w) + 1)
  BY <1>1, <1>3 DEF Quiet
<1>4. ASSUME NEW j \in 1..Len(e), e[j].kind = "put"
      PROVE  /\ \A i \in 1..(j - 1) : e[i].kind = "put" /\ Quiet(e, i, j) =>
                   e[j].seq = SeqPlus(e[i].seq, 1, SeqMod)
             /\ Quiet(e, 0, j) => \A a \in A : e[j].seq = SeqPlus(a, 1, SeqMod)
  <2>1. j \in 1..Len(w) /\ e[j] = w[j]
    BY <1>1, <1>4
  <2>2. \A i \in 1..(j - 1) : i \in 0..(j - 1) /\ e[i] = w[i]
    BY <1>1, <2>1
  <2>3. 0 \in 0..(j - 1)
    BY <2>1
  <2>. QED
    BY <1>2, <1>4, <2>1, <2>2, <2>3 DEF Chained
<1>5. ASSUME NEW n, Ended(w, A, n)
      PROVE  Ended(e, A, n)
  <2>1. ASSUME NEW i \in 1..Len(e), e[i].kind = "put", Quiet(e, i, Len(e) + 1)
        PROVE  n = SeqPlus(e[i].seq, 1, SeqMod)
    <3>1. i \in 1..Len(w) /\ i \in 0..Len(w) /\ e[i] = w[i]
      BY <1>1, <2>1
    <3>. QED
      BY <1>3, <1>5, <2>1, <3>1 DEF Ended
  <2>2. Quiet(e, 0, Len(e) + 1) => Quiet(w, 0, Len(w) + 1)
    <3>1. 0 \in 0..Len(w)
      BY <1>1
    <3>. QED
      BY <1>3, <3>1
  <2>. QED
    BY <1>5, <2>1, <2>2 DEF Ended
<1>. QED
  BY <1>4, <1>5 DEF Chained

LEMMA ChainPut ==
    ASSUME NEW w \in Seq(HistoryTasks), NEW A, NEW t \in HistoryTasks, t.kind = "put",
           NEW e, e = Append(w, t), Chained(w, A), Ended(w, A, t.seq)
    PROVE  Chained(e, A) /\ Ended(e, A, SeqPlus(t.seq, 1, SeqMod))
<1>1. /\ Len(e) = Len(w) + 1 /\ Len(w) \in Nat /\ e[Len(e)] = t
      /\ \A j \in 1..Len(w) : j \in 1..Len(e) /\ e[j] = w[j]
  BY AppendFacts
<1>2. ASSUME NEW j \in 1..Len(e), NEW i \in 0..(j - 1), Quiet(e, i, j)
      PROVE  Quiet(w, i, j)
  BY <1>1, <1>2 DEF Quiet
<1>3. ASSUME NEW j \in 1..Len(e), e[j].kind = "put"
      PROVE  /\ \A i \in 1..(j - 1) : e[i].kind = "put" /\ Quiet(e, i, j) =>
                   e[j].seq = SeqPlus(e[i].seq, 1, SeqMod)
             /\ Quiet(e, 0, j) => \A a \in A : e[j].seq = SeqPlus(a, 1, SeqMod)
  <2>1. \A i \in 1..(j - 1) : i \in 0..(j - 1) /\ i \in 1..Len(w) /\ e[i] = w[i]
    BY <1>1
  <2>2. 0 \in 0..(j - 1)
    OBVIOUS
  <2>3. CASE j \in 1..Len(w)
    BY <1>1, <1>2, <1>3, <2>1, <2>2, <2>3 DEF Chained
  <2>4. CASE j = Len(w) + 1
    <3>1. e[j] = t
      BY <1>1, <2>4
    <3>. QED
      BY <1>2, <2>1, <2>2, <2>4, <3>1 DEF Ended
  <2>. QED
    BY <1>1, <2>3, <2>4
<1>4. ASSUME NEW i \in 0..Len(w)
      PROVE  ~Quiet(e, i, Len(e) + 1)
  <2>1. Len(e) \in (i + 1)..(Len(e) + 1 - 1)
    BY <1>1
  <2>. QED
    BY <1>1, <2>1 DEF Quiet
<1>5. Ended(e, A, SeqPlus(t.seq, 1, SeqMod))
  <2>1. ASSUME NEW i \in 1..Len(e), Quiet(e, i, Len(e) + 1)
        PROVE  e[i] = t
    <3>1. i \notin 0..Len(w)
      BY <1>4, <2>1
    <3>. QED
      BY <1>1, <3>1
  <2>2. ~Quiet(e, 0, Len(e) + 1)
    <3>1. 0 \in 0..Len(w)
      BY <1>1
    <3>. QED
      BY <1>4, <3>1
  <2>. QED
    BY <2>1, <2>2 DEF Ended
<1>. QED
  BY <1>3, <1>5 DEF Chained

LEMMA ChainTail ==
    ASSUME NEW w \in Seq(HistoryTasks), w # <<>>, NEW A, NEW B, NEW e, e = Tail(w),
           NEW t, t = Head(w), Chained(w, A),
           t.kind = "put" => B \subseteq {t.seq}, t.kind # "put" => B \subseteq A
    PROVE  Chained(e, B) /\ \A n : Ended(w, A, n) => Ended(e, B, n)
<1>1. /\ t = w[1] /\ 1 \in 1..Len(w) /\ Len(e) = Len(w) - 1 /\ Len(w) \in Nat
      /\ \A j \in 1..Len(e) : j + 1 \in 1..Len(w) /\ e[j] = w[j + 1]
  BY TailFacts
<1>2. ASSUME NEW j \in 1..(Len(e) + 1), NEW i \in 0..(j - 1), Quiet(e, i, j)
      PROVE  Quiet(w, i + 1, j + 1)
  <2>. SUFFICES ASSUME NEW k \in (i + 1 + 1)..(j + 1 - 1)
       PROVE  w[k].kind # "put"
    BY DEF Quiet
  <2>1. k - 1 \in (i + 1)..(j - 1) /\ k - 1 \in 1..Len(e) /\ (k - 1) + 1 = k
    BY <1>1
  <2>2. e[k - 1] = w[(k - 1) + 1]
    BY <1>1, <2>1
  <2>. QED
    BY <1>2, <2>1, <2>2 DEF Quiet
<1>3. ASSUME NEW j \in 1..(Len(e) + 1), Quiet(e, 0, j), t.kind # "put"
      PROVE  Quiet(w, 0, j + 1)
  <2>1. Quiet(w, 0 + 1, j + 1)
    <3>1. 0 \in 0..(j - 1)
      OBVIOUS
    <3>. QED
      BY <1>2, <1>3, <3>1
  <2>. QED
    BY <1>1, <1>3, <2>1 DEF Quiet
<1>4. ASSUME NEW j \in 1..Len(e), e[j].kind = "put"
      PROVE  /\ \A i \in 1..(j - 1) : e[i].kind = "put" /\ Quiet(e, i, j) =>
                   e[j].seq = SeqPlus(e[i].seq, 1, SeqMod)
             /\ Quiet(e, 0, j) => \A a \in B : e[j].seq = SeqPlus(a, 1, SeqMod)
  <2>1. j \in 1..(Len(e) + 1) /\ j + 1 \in 1..Len(w) /\ e[j] = w[j + 1]
    BY <1>1
  <2>2. ASSUME NEW i \in 1..(j - 1), e[i].kind = "put", Quiet(e, i, j)
        PROVE  e[j].seq = SeqPlus(e[i].seq, 1, SeqMod)
    <3>1. /\ i \in 0..(j - 1) /\ i \in 1..Len(e) /\ i + 1 \in 1..((j + 1) - 1)
      OBVIOUS
    <3>2. e[i] = w[i + 1] /\ Quiet(w, i + 1, j + 1)
      BY <1>1, <1>2, <2>1, <2>2, <3>1
    <3>. QED
      BY <1>4, <2>1, <2>2, <3>1, <3>2 DEF Chained
  <2>3. ASSUME Quiet(e, 0, j), NEW a \in B
        PROVE  e[j].seq = SeqPlus(a, 1, SeqMod)
    <3>1. CASE t.kind = "put"
      <4>1. Quiet(w, 0 + 1, j + 1)
        <5>1. 0 \in 0..(j - 1)
          OBVIOUS
        <5>. QED
          BY <1>2, <2>1, <2>3, <5>1
      <4>2. Quiet(w, 1, j + 1) /\ 1 \in 1..((j + 1) - 1)
        BY <4>1
      <4>. QED
        BY <1>1, <1>4, <2>1, <2>3, <3>1, <4>2 DEF Chained
    <3>2. CASE t.kind # "put"
      BY <1>3, <1>4, <2>1, <2>3, <3>2 DEF Chained
    <3>. QED
      BY <3>1, <3>2
  <2>. QED
    BY <2>2, <2>3
<1>5. ASSUME NEW n, Ended(w, A, n)
      PROVE  Ended(e, B, n)
  <2>1. Len(e) + 1 \in 1..(Len(e) + 1) /\ (Len(e) + 1) + 1 = Len(w) + 1
    BY <1>1
  <2>2. ASSUME NEW i \in 1..Len(e), e[i].kind = "put", Quiet(e, i, Len(e) + 1)
        PROVE  n = SeqPlus(e[i].seq, 1, SeqMod)
    <3>1. i \in 0..((Len(e) + 1) - 1)
      BY <1>1
    <3>2. e[i] = w[i + 1] /\ i + 1 \in 1..Len(w) /\ Quiet(w, i + 1, Len(w) + 1)
      BY <1>1, <1>2, <2>1, <2>2, <3>1
    <3>. QED
      BY <1>5, <2>2, <3>2 DEF Ended
  <2>3. ASSUME Quiet(e, 0, Len(e) + 1), NEW a \in B
        PROVE  n = SeqPlus(a, 1, SeqMod)
    <3>1. CASE t.kind = "put"
      <4>1. Quiet(w, 0 + 1, (Len(e) + 1) + 1)
        <5>1. 0 \in 0..((Len(e) + 1) - 1)
          BY <1>1
        <5>. QED
          BY <1>2, <2>1, <2>3, <5>1
      <4>2. Quiet(w, 1, Len(w) + 1)
        BY <2>1, <4>1
      <4>. QED
        BY <1>1, <1>5, <2>3, <3>1, <4>2 DEF Ended
    <3>2. CASE t.kind # "put"
      <4>1. Quiet(w, 0, Len(w) + 1)
        BY <1>3, <2>1, <2>3, <3>2
      <4>. QED
        BY <1>5, <2>3, <3>2, <4>1 DEF Ended
    <3>. QED
      BY <3>1, <3>2
  <2>. QED
    BY <2>2, <2>3 DEF Ended
<1>. QED
  BY <1>4, <1>5 DEF Chained

\* e is what is left of h when the oldest packets are dropped.
SuffixOf(h, e) ==
    \/ e = <<>>
    \/ \E k \in 1..Len(h) : /\ Len(e) = Len(h) - k + 1
                            /\ \A j \in 1..Len(e) : e[j] = h[k + j - 1]

LEMMA SuffixFacts ==
    ASSUME NEW h \in Seq(Slots), NEW e \in Seq(Slots), SuffixOf(h, e)
    PROVE  /\ Full(h) => Full(e)
           /\ Newest(e) \subseteq Newest(h)
<1>1. CASE e = <<>>
  BY <1>1 DEF Full, Newest
<1>2. CASE e # <<>>
  <2>1. PICK k \in 1..Len(h) : /\ Len(e) = Len(h) - k + 1
                               /\ \A j \in 1..Len(e) : e[j] = h[k + j - 1]
    BY <1>2 DEF SuffixOf
  <2>2. \A j \in 1..Len(e) : k + j - 1 \in 1..Len(h)
    BY <2>1
  <2>3. h # <<>> /\ Len(e) \in 1..Len(e) /\ e[Len(e)] = h[Len(h)]
    BY <2>1
  <2>. QED
    BY <1>2, <2>1, <2>2, <2>3 DEF Full, Newest
<1>. QED
  BY <1>1, <1>2

LEMMA AgedIsSuffix ==
    ASSUME NEW h \in Seq(Slots), Window(h), Len(h) <= SeqMod, NEW r,
           NEW e, e = RemoveDeadPackets(h, r)
    PROVE  SuffixOf(h, e)
<1>1. PICK kept : kept = {i \in 1..Len(h) : h[i].held /\ ~Dead(h, i, r)}
  OBVIOUS
<1>2. e = IF kept = {} THEN <<>> ELSE From(h, Least(kept))
  BY <1>1 DEF RemoveDeadPackets, FromFirst, Least
<1>3. CASE kept = {}
  BY <1>2, <1>3 DEF SuffixOf
<1>4. CASE kept # {}
  <2>1. PICK k : k = Least(kept)
    OBVIOUS
  <2>2. kept \in SUBSET Nat
    BY <1>1
  <2>3. k \in kept
    BY <1>4, <2>1, <2>2, LeastElement DEF Least
  <2>4. k \in 1..Len(h) /\ h[k].held /\ e = From(h, k)
    BY <1>1, <1>2, <1>4, <2>1, <2>3
  <2>5. /\ Len(e) = Len(h) - k + 1
        /\ \A j \in 1..Len(e) : e[j] = h[k + j - 1]
    BY <2>4, Suffix
  <2>. QED
    BY <2>4, <2>5 DEF SuffixOf
<1>. QED
  BY <1>3, <1>4

LEMMA ConcatFacts ==
    ASSUME NEW S, NEW a \in Seq(S), NEW b \in Seq(S)
    PROVE  Len(a \o b) = Len(a) + Len(b) /\ \A j \in 1..Len(a) : (a \o b)[j] = a[j]
OBVIOUS

\* A packet that follows the newest stored one takes the place behind it.
LEMMA PlacedLast ==
    ASSUME MaxCapacity < SeqMod \div 2, NEW h \in Seq(Slots), Window(h), Len(h) <= MaxCapacity,
           Full(h), NEW p \in Slots,
           \A a \in Newest(h) : p.seq = SeqPlus(a, 1, SeqMod)
    PROVE  GetStoredPacket(h, p.seq) = 0 /\ Place(h, p) = Append(h, p)
<1>. USE CapacityAssumption
<1>1. Len(h) \in Nat
  OBVIOUS
<1>2. GetPacketIndex(h, p.seq) = Len(h)
  <2>1. CASE h = <<>>
    BY <2>1 DEF GetPacketIndex
  <2>2. CASE h # <<>>
    <3>1. 1 \in 1..Len(h) /\ Len(h) \in 1..Len(h)
      BY <1>1, <2>2
    <3>2. PICK f \in SeqNums : f = h[1].seq
      BY <1>1, <3>1, SlotType
    <3>3. PICK l \in SeqNums : l = h[Len(h)].seq
      BY <1>1, <3>1, SlotType
    <3>4. l = SeqPlus(f, Len(h) - 1, SeqMod)
      BY <3>1, <3>2, <3>3, <1>1 DEF Full, Window
    <3>5. p.seq = SeqPlus(l, 1, SeqMod)
      BY <2>2, <3>3 DEF Newest
    <3>6. PICK n \in Nat : n = Len(h) /\ n > 0 /\ n < SeqMod \div 2 /\ n < SeqMod
      BY <1>1, <2>2
    <3>7. PICK s : s = p.seq
      OBVIOUS
    <3>8. s = SeqPlus(f, n, SeqMod)
      BY <3>4, <3>5, <3>6, <3>7 DEF SeqPlus, SeqNums
    <3>9. ForwardDiff(f, s, SeqMod) = n /\ s # f
      BY <3>6, <3>8 DEF ForwardDiff, SeqPlus, SeqNums
    <3>10. AheadOf(s, f, SeqMod)
      BY <3>6, <3>9 DEF AheadOf
    <3>11. h[1].seq = f
      BY <3>2
    <3>. QED
      BY <2>2, <3>6, <3>7, <3>9, <3>10, <3>11 DEF GetPacketIndex
  <2>. QED
    BY <2>1, <2>2
<1>3. GetStoredPacket(h, p.seq) = 0
  BY <1>1, <1>2 DEF GetStoredPacket
<1>4. Place(h, p) = Append(h, p)
  <2>1. PICK g : g = Holes(1)
    OBVIOUS
  <2>2. g \in Seq(Slots) /\ Len(g) = 1
    <3>1. 1 \in Int /\ 1 > 0
      OBVIOUS
    <3>2. g \in Seq(Slots) /\ Len(g) = (IF 1 > 0 THEN 1 ELSE 0)
      BY <2>1, <3>1, HolesFacts
    <3>. QED
      BY <3>1, <3>2
  <2>3. Place(h, p) = [(h \o g) EXCEPT ![Len(h) + 1] = p]
    BY <1>1, <1>2, <2>1 DEF Place
  <2>4. PICK d \in Seq(Slots) : d = h \o g
    <3>1. h \o g \in Seq(Slots)
      BY <1>1, <2>2
    <3>. QED
      BY <3>1
  <2>5. Len(d) = Len(h) + 1 /\ \A j \in 1..Len(h) : d[j] = h[j]
    <3>1. Len(d) = Len(h) + Len(g) /\ \A j \in 1..Len(h) : d[j] = h[j]
      BY <2>2, <2>4, ConcatFacts
    <3>. QED
      BY <2>2, <3>1
  <2>6. PICK e \in Seq(Slots) : e = [d EXCEPT ![Len(h) + 1] = p]
    <3>1. Len(h) + 1 \in 1..Len(d)
      BY <1>1, <2>5
    <3>2. [d EXCEPT ![Len(h) + 1] = p] \in Seq(Slots)
      BY <3>1
    <3>. QED
      BY <3>2
  <2>7. Len(e) = Len(h) + 1 /\ e[Len(h) + 1] = p /\ \A j \in 1..Len(h) : e[j] = h[j]
    BY <1>1, <2>5, <2>6
  <2>8. PICK c \in Seq(Slots) : c = Append(h, p)
    <3>1. Append(h, p) \in Seq(Slots)
      BY <1>1
    <3>. QED
      BY <3>1
  <2>9. Len(c) = Len(h) + 1 /\ c[Len(h) + 1] = p /\ \A j \in 1..Len(h) : c[j] = h[j]
    BY <1>1, <2>8
  <2>10. e = c
    <3>1. \A j \in 1..Len(e) : e[j] = c[j]
      BY <1>1, <2>7, <2>9
    <3>. QED
      BY <2>7, <2>9, <3>1
  <2>. QED
    BY <2>3, <2>4, <2>6, <2>8, <2>10
<1>. QED
  BY <1>3, <1>4

LEMMA PutIsSuffix ==
    ASSUME MaxCapacity < SeqMod \div 2, NEW h, DequeOf(h), Full(h), NEW p \in Slots, p.held,
           \A a \in Newest(h) : p.seq = SeqPlus(a, 1, SeqMod),
           NEW e, e = PutRtpPacket(h, p)
    PROVE  \E alive : /\ DequeOf(alive) /\ SuffixOf(h, alive) /\ Full(alive)
                      /\ Append(alive, p) \in Seq(Slots) /\ Window(Append(alive, p))
                      /\ Len(Append(alive, p)) <= SeqMod
                      /\ SuffixOf(Append(alive, p), e)
<1>1. h \in Seq(Slots) /\ Window(h) /\ Len(h) <= SeqMod
  BY ShortDeque
<1>2. PICK alive : alive = RemoveDeadPackets(h, rtt)
  OBVIOUS
<1>3. DequeOf(alive)
  BY <1>1, <1>2, RemoveDeadFacts DEF DequeOf
<1>4. SuffixOf(h, alive)
  BY <1>1, <1>2, AgedIsSuffix
<1>5. Full(alive) /\ Newest(alive) \subseteq Newest(h)
  BY <1>1, <1>3, <1>4, SuffixFacts DEF DequeOf
<1>6. GetStoredPacket(alive, p.seq) = 0 /\ Place(alive, p) = Append(alive, p)
  BY <1>3, <1>5, PlacedLast DEF DequeOf
<1>7. PICK placed : placed = Append(alive, p)
  OBVIOUS
<1>8. placed \in Seq(Slots) /\ Window(placed) /\ Len(placed) <= SeqMod
  BY <1>3, <1>6, <1>7, PlaceFacts DEF DequeOf
<1>9. e = RemoveDeadPackets(placed, rtt)
  <2>1. ~(GetStoredPacket(alive, p.seq) > 0)
    BY <1>6
  <2>. QED
    BY <1>2, <1>6, <1>7, <2>1, Zenon DEF PutRtpPacket
<1>10. SuffixOf(placed, e)
  BY <1>8, <1>9, AgedIsSuffix
<1>. QED
  BY <1>3, <1>4, <1>5, <1>7, <1>8, <1>10

-----------------------------------------------------------------------------
(***************************************************************************)
(* The steps of the deque are steps of the store.                          *)
(***************************************************************************)
\* What the deque stores, as PacketStore sees it.
Kept(h) == {h[i] : i \in {j \in 1..Len(h) : h[j].held}}

LEMMA KeptFull == ASSUME NEW h, Full(h) PROVE Kept(h) = {h[i] : i \in 1..Len(h)}
BY DEF Kept, Full

LEMMA Apart ==
    ASSUME NEW h, h \in Seq(Slots), Window(h), Len(h) <= SeqMod, Full(h),
           NEW i \in 1..Len(h), NEW j \in 1..Len(h), i < j
    PROVE  (h[j].seq - h[i].seq) % SeqMod = j - i
<1>. USE CapacityAssumption
<1>1. 1 \in 1..Len(h)
  OBVIOUS
<1>2. PICK f \in SeqNums : f = h[1].seq
  BY <1>1, SlotType
<1>3. h[i].seq = SeqPlus(f, i - 1, SeqMod) /\ h[j].seq = SeqPlus(f, j - 1, SeqMod)
  BY <1>2 DEF Full, Window
<1>4. \/ h[j].seq - h[i].seq = j - i
      \/ h[j].seq - h[i].seq = (j - i) - SeqMod
  <2>1. PICK a \in Nat, b \in Nat : a = i - 1 /\ b = j - 1 /\ a < b /\ b < SeqMod
    OBVIOUS
  <2>2. f \in Nat /\ f < SeqMod
    BY DEF SeqNums
  <2>3. PICK x : x = SeqPlus(f, a, SeqMod)
    OBVIOUS
  <2>4. PICK y : y = SeqPlus(f, b, SeqMod)
    OBVIOUS
  <2>5. y - x = b - a \/ y - x = (b - a) - SeqMod
    BY <2>1, <2>2, <2>3, <2>4 DEF SeqPlus
  <2>6. b - a = j - i
    BY <2>1
  <2>. QED
    BY <1>3, <2>1, <2>3, <2>4, <2>5, <2>6
<1>5. PICK d \in 1..(SeqMod - 1) : d = j - i
  OBVIOUS
<1>6. d % SeqMod = d
  OBVIOUS
<1>7. (d - SeqMod) % SeqMod = d
  OBVIOUS
<1>. QED
  BY <1>4, <1>5, <1>6, <1>7

LEMMA Distinct ==
    ASSUME NEW h, DequeOf(h), Full(h), NEW i \in 1..Len(h), NEW j \in 1..Len(h), h[i] = h[j]
    PROVE  i = j
BY FoundComplete DEF DequeOf, Full

LEMMA SuffixIsDrop ==
    ASSUME NEW h, DequeOf(h), Full(h), NEW e \in Seq(Slots), SuffixOf(h, e)
    PROVE  Kept(e) \in Store!Suffixes(Kept(h))
<1>1. h \in Seq(Slots) /\ Window(h) /\ Len(h) <= MaxCapacity /\ Len(h) <= SeqMod
  BY ShortDeque DEF DequeOf
<1>2. Full(e)
  BY <1>1, SuffixFacts
<1>3. Kept(e) = {e[j] : j \in 1..Len(e)} /\ Kept(h) = {h[i] : i \in 1..Len(h)}
  BY <1>2, KeptFull
<1>4. CASE e = <<>>
  <2>1. Kept(e) = {}
    BY <1>3, <1>4
  <2>. QED
    BY <2>1 DEF Store!Suffixes
<1>5. CASE e # <<>>
  <2>1. PICK k \in 1..Len(h) : /\ Len(e) = Len(h) - k + 1
                               /\ \A j \in 1..Len(e) : e[j] = h[k + j - 1]
    BY <1>5 DEF SuffixOf
  <2>2. \A j \in 1..Len(e) : k + j - 1 \in k..Len(h)
    BY <1>1, <2>1
  <2>3. \A i \in k..Len(h) : i - k + 1 \in 1..Len(e) /\ h[i] = e[i - k + 1]
    BY <1>1, <2>1
  <2>4. Kept(e) \subseteq Kept(h)
    <3>1. \A j \in 1..Len(e) : \E i \in 1..Len(h) : e[j] = h[i]
      BY <1>1, <2>1, <2>2
    <3>. QED
      BY <1>3, <3>1
  <2>5. ASSUME NEW p \in Kept(h) \ Kept(e), NEW q \in Kept(e)
        PROVE  Store!Older(p, q)
    <3>1. PICK i \in 1..Len(h) : p = h[i]
      BY <1>3
    <3>2. i < k
      <4>1. i \notin k..Len(h)
        BY <1>3, <2>3, <2>5, <3>1
      <4>. QED
        BY <4>1
    <3>3. PICK j \in k..Len(h) : q = h[j]
      BY <1>3, <2>1, <2>2
    <3>4. (q.seq - p.seq) % SeqMod = j - i
      BY <1>1, <3>1, <3>2, <3>3, Apart
    <3>5. j - i \in 1..(SeqMod \div 2)
      BY <1>1, <3>1, <3>2, <3>3, CapacityAssumption
    <3>. QED
      BY <3>4, <3>5 DEF Store!Older
  <2>. QED
    BY <2>4, <2>5 DEF Store!Suffixes
<1>. QED
  BY <1>4, <1>5

LEMMA SuffixTransitive ==
    ASSUME NEW h \in Seq(Slots), NEW d \in Seq(Slots), NEW e \in Seq(Slots),
           SuffixOf(h, d), SuffixOf(d, e)
    PROVE  SuffixOf(h, e)
<1>1. CASE e = <<>>
  BY <1>1 DEF SuffixOf
<1>2. CASE e # <<>>
  <2>1. PICK l \in 1..Len(d) : /\ Len(e) = Len(d) - l + 1
                               /\ \A j \in 1..Len(e) : e[j] = d[l + j - 1]
    BY <1>2 DEF SuffixOf
  <2>2. PICK k \in 1..Len(h) : /\ Len(d) = Len(h) - k + 1
                               /\ \A j \in 1..Len(d) : d[j] = h[k + j - 1]
    <3>1. d # <<>>
      BY <2>1
    <3>. QED
      BY <3>1 DEF SuffixOf
  <2>3. PICK m \in 1..Len(h) : m = k + l - 1 /\ Len(e) = Len(h) - m + 1
    <3>1. k + l - 1 \in 1..Len(h) /\ Len(e) = Len(h) - (k + l - 1) + 1
      BY <2>1, <2>2
    <3>. QED
      BY <3>1
  <2>4. ASSUME NEW j \in 1..Len(e)
        PROVE  e[j] = h[m + j - 1]
    <3>1. l + j - 1 \in 1..Len(d) /\ k + (l + j - 1) - 1 = m + j - 1
      BY <2>1, <2>3
    <3>2. e[j] = d[l + j - 1] /\ d[l + j - 1] = h[k + (l + j - 1) - 1]
      BY <2>1, <2>2, <3>1
    <3>. QED
      BY <3>1, <3>2
  <2>. QED
    BY <2>3, <2>4 DEF SuffixOf
<1>. QED
  BY <1>1, <1>2

LEMMA FrontFacts ==
    ASSUME NEW e \in Seq(Slots), Len(e) > 0
    PROVE  \E c \in Seq(Slots) : Len(c) = Len(e) - 1 /\ \A j \in 1..Len(c) : c[j] = e[j]
<1>1. PICK n \in Nat : n = Len(e) - 1
  <2>1. Len(e) - 1 \in Nat
    OBVIOUS
  <2>. QED
    BY <2>1
<1>2. PICK c : c = [j \in 1..n |-> e[j]]
  OBVIOUS
<1>3. \A j \in 1..n : e[j] \in Slots
  BY <1>1
<1>4. c \in Seq(Slots) /\ Len(c) = n /\ \A j \in 1..n : c[j] = e[j]
  BY <1>2, <1>3
<1>. QED
  BY <1>1, <1>4

\* A packet is put: it joins what is left of the older ones, or, where the
\* packets' life is nought, is gone at once.
LEMMA PutIsInsert ==
    ASSUME MaxCapacity < SeqMod \div 2, NEW h, DequeOf(h), Full(h), NEW p \in Slots, p.held,
           \A a \in Newest(h) : p.seq = SeqPlus(a, 1, SeqMod),
           NEW e, e = PutRtpPacket(h, p)
    PROVE  /\ Full(e) /\ Newest(e) \subseteq {p.seq}
           /\ \/ Kept(e) \in Store!Suffixes(Kept(h))
              \/ \E T \in Store!Suffixes(Kept(h)) :
                    /\ \A q \in T : Store!Older(q, p)
                    /\ Kept(e) = T \cup {p}
<1>. USE CapacityAssumption
<1>1. PICK alive : /\ DequeOf(alive) /\ SuffixOf(h, alive) /\ Full(alive)
                   /\ Append(alive, p) \in Seq(Slots) /\ Window(Append(alive, p))
                   /\ Len(Append(alive, p)) <= SeqMod
                   /\ SuffixOf(Append(alive, p), e)
  BY PutIsSuffix
<1>2. h \in Seq(Slots) /\ alive \in Seq(Slots) /\ e \in Seq(Slots) /\ Len(alive) <= MaxCapacity
  BY <1>1, PutFacts DEF DequeOf
<1>3. PICK placed \in Seq(Slots) : placed = Append(alive, p)
  BY <1>1
<1>4. /\ Len(placed) = Len(alive) + 1 /\ Len(alive) \in Nat /\ placed[Len(placed)] = p
      /\ \A j \in 1..Len(alive) : placed[j] = alive[j]
  BY <1>2, <1>3, AppendFacts
<1>5. Full(placed)
  BY <1>1, <1>4 DEF Full
<1>6. Full(e) /\ Newest(e) \subseteq Newest(placed)
  BY <1>1, <1>2, <1>3, <1>5, SuffixFacts
<1>7. Newest(placed) = {p.seq}
  BY <1>4 DEF Newest
<1>8. Kept(e) = {e[j] : j \in 1..Len(e)}
  BY <1>6, KeptFull
<1>9. CASE e = <<>>
  <2>1. SuffixOf(h, e)
    BY <1>9 DEF SuffixOf
  <2>. QED
    BY <1>2, <1>6, <1>7, <2>1, SuffixIsDrop
<1>10. CASE e # <<>>
  <2>1. PICK k \in 1..Len(placed) : /\ Len(e) = Len(placed) - k + 1
                                    /\ \A j \in 1..Len(e) : e[j] = placed[k + j - 1]
    BY <1>1, <1>3, <1>10 DEF SuffixOf
  <2>2. Len(e) \in Nat /\ Len(e) > 0 /\ e[Len(e)] = p
    <3>1. Len(e) \in Nat /\ Len(e) > 0 /\ Len(e) \in 1..Len(e) /\ k + Len(e) - 1 = Len(placed)
      BY <2>1
    <3>. QED
      BY <1>4, <2>1, <3>1
  <2>3. PICK c \in Seq(Slots) : /\ Len(c) = Len(e) - 1
                                /\ \A j \in 1..Len(c) : c[j] = e[j]
    BY <1>2, <2>2, FrontFacts
  <2>4. SuffixOf(alive, c)
    <3>1. CASE c = <<>>
      BY <3>1 DEF SuffixOf
    <3>2. CASE c # <<>>
      <4>1. Len(c) > 0 /\ Len(c) \in Nat
        BY <2>3, <3>2
      <4>2. k \in 1..Len(alive) /\ Len(c) = Len(alive) - k + 1
        BY <1>4, <2>1, <2>3, <4>1
      <4>3. ASSUME NEW j \in 1..Len(c)
            PROVE  c[j] = alive[k + j - 1]
        <5>1. j \in 1..Len(e) /\ k + j - 1 \in 1..Len(alive)
          BY <2>2, <2>3, <4>2
        <5>. QED
          BY <1>4, <2>1, <2>3, <5>1
      <4>. QED
        BY <4>2, <4>3 DEF SuffixOf
    <3>. QED
      BY <3>1, <3>2
  <2>5. SuffixOf(h, c)
    BY <1>1, <1>2, <2>4, SuffixTransitive
  <2>6. Full(c)
    BY <1>1, <1>2, <2>4, SuffixFacts
  <2>7. Kept(c) \in Store!Suffixes(Kept(h)) /\ Kept(c) = {c[j] : j \in 1..Len(c)}
    BY <2>5, <2>6, SuffixIsDrop, KeptFull
  <2>8. Kept(e) = Kept(c) \cup {p}
    <3>1. \A j \in 1..Len(e) : e[j] = p \/ (j \in 1..Len(c) /\ e[j] = c[j])
      BY <2>2, <2>3
    <3>2. \A j \in 1..Len(c) : j \in 1..Len(e) /\ e[j] = c[j]
      BY <2>2, <2>3
    <3>3. Len(e) \in 1..Len(e)
      BY <2>2
    <3>. QED
      BY <1>8, <2>2, <2>7, <3>1, <3>2, <3>3
  <2>9. ASSUME NEW q \in Kept(c)
        PROVE  Store!Older(q, p)
    <3>1. PICK i \in 1..Len(alive) : q = alive[i]
      <4>1. PICK j \in 1..Len(c) : q = c[j]
        BY <2>7
      <4>2. c # <<>>
        BY <4>1
      <4>3. PICK l \in 1..Len(alive) : /\ Len(c) = Len(alive) - l + 1
                                       /\ \A g \in 1..Len(c) : c[g] = alive[l + g - 1]
        BY <2>4, <4>2 DEF SuffixOf
      <4>4. l + j - 1 \in 1..Len(alive) /\ q = alive[l + j - 1]
        BY <1>4, <4>1, <4>3
      <4>. QED
        BY <4>4
    <3>2. i \in 1..Len(placed) /\ Len(placed) \in 1..Len(placed) /\ i < Len(placed)
      BY <1>4
    <3>3. (placed[Len(placed)].seq - placed[i].seq) % SeqMod = Len(placed) - i
      BY <1>1, <1>3, <1>5, <3>2, Apart
    <3>4. Len(placed) - i \in 1..(SeqMod \div 2)
      BY <1>2, <1>4
    <3>. QED
      BY <1>4, <3>1, <3>3, <3>4 DEF Store!Older
  <2>. QED
    BY <1>6, <1>7, <2>7, <2>8, <2>9
<1>. QED
  BY <1>9, <1>10

LEMMA MarkIsReplace ==
    ASSUME NEW h \in Seq(Slots), DequeOf(h), Full(h), NEW i \in 1..Len(h), NEW y \in Slots, y.held,
           y.seq = h[i].seq, NEW e, e = With(h, i, y)
    PROVE  /\ Full(e) /\ Newest(e) = Newest(h) /\ h[i] \in Kept(h)
           /\ Kept(e) = (Kept(h) \ {h[i]}) \cup {y}
<1>1. h[i].held
  BY DEF Full
<1>2. /\ e \in Seq(Slots) /\ Len(e) = Len(h)
      /\ e[i] = y /\ \A j \in 1..Len(h) \ {i} : e[j] = h[j]
  BY DEF With
<1>3. Full(e)
  BY <1>2 DEF Full
<1>4. Newest(e) = Newest(h)
  <2>1. h # <<>> /\ e # <<>> /\ Len(h) \in 1..Len(h)
    <3>1. Len(h) \in Nat /\ Len(h) > 0
      BY <1>1
    <3>. QED
      BY <1>2, <3>1
  <2>2. \A j \in 1..Len(h) : e[j].seq = h[j].seq
    BY <1>2
  <2>. QED
    BY <1>2, <2>1, <2>2 DEF Newest
<1>5. Kept(e) = {e[j] : j \in 1..Len(e)} /\ Kept(h) = {h[j] : j \in 1..Len(h)}
  BY <1>3, KeptFull
<1>6. \A j \in 1..Len(h) \ {i} : h[j] # h[i]
  BY Distinct
<1>. QED
  BY <1>2, <1>3, <1>4, <1>5, <1>6

-----------------------------------------------------------------------------
(***************************************************************************)
(* The invariant that makes every put an insertion at the new end.         *)
(***************************************************************************)
InOrder ==
    /\ rtxEnabled /\ Full(history)
    /\ Chained(tasks, Newest(history))
    /\ stage = "run" => Ended(tasks, Newest(history), nextSeq)

StoreStep == Store!StoreNext \/ Kept(history)' = Kept(history)

LEMMA TakenFacts ==
    ASSUME VInv, InOrder, tasks # <<>>, tasks' = Tail(tasks), NEW t, t = Head(tasks),
           Full(history'), t.kind = "put" => Newest(history') \subseteq {t.seq},
           t.kind # "put" => Newest(history') \subseteq Newest(history),
           UNCHANGED <<rtxEnabled, stage, nextSeq>>
    PROVE  InOrder'
<1>1. PICK w \in Seq(HistoryTasks) : w = tasks /\ w # <<>>
  BY DEF VInv, Types
<1>2. PICK e : e = tasks'
  OBVIOUS
<1>3. PICK A : A = Newest(history)
  OBVIOUS
<1>4. PICK B : B = Newest(history')
  OBVIOUS
<1>5. Chained(e, B) /\ \A n : Ended(w, A, n) => Ended(e, B, n)
  BY <1>1, <1>2, <1>3, <1>4, ChainTail DEF InOrder
<1>. QED
  BY <1>1, <1>2, <1>3, <1>4, <1>5 DEF InOrder

LEMMA PostedOther ==
    ASSUME VInv, InOrder, NEW t \in HistoryTasks, t.kind # "put", tasks' = Append(tasks, t),
           UNCHANGED <<rtxEnabled, history, stage, nextSeq>>
    PROVE  InOrder'
<1>1. PICK w \in Seq(HistoryTasks) : w = tasks
  BY DEF VInv, Types
<1>2. PICK e : e = tasks'
  OBVIOUS
<1>3. PICK A : A = Newest(history)
  OBVIOUS
<1>4. Chained(e, A) /\ \A n : Ended(w, A, n) => Ended(e, A, n)
  BY <1>1, <1>2, <1>3, ChainOther DEF InOrder
<1>. QED
  BY <1>1, <1>2, <1>3, <1>4 DEF InOrder

LEMMA OrderKept ==
    ASSUME InOrder, UNCHANGED <<rtxEnabled, tasks, stage, nextSeq>>, Full(history'),
           Newest(history') = Newest(history)
    PROVE  InOrder'
BY DEF InOrder

\* The packet found under the number of a result is replaced by one not pending.
LEMMA RecordedStep ==
    ASSUME VInv, InOrder, NEW s \in SeqNums, NEW i, i = GetStoredPacket(history, s), NEW d, d = history',
           \/ i = 0 /\ d = history
           \/ /\ i # 0
              /\ \E y \in Slots : /\ y.held = history[i].held /\ y.seq = history[i].seq /\ ~y.pending
                                   /\ d = With(history, i, y)
    PROVE  StoreStep /\ Full(d) /\ Newest(d) = Newest(history)
<1>1. DequeOf(history) /\ Full(history)
  BY WindowIsDeque DEF VInv, InOrder
<1>2. CASE i = 0 /\ d = history
  BY <1>1, <1>2 DEF StoreStep, Kept
<1>3. CASE i # 0
  <2>1. i \in 0..Len(history)
    BY <1>1, FoundSound DEF DequeOf
  <2>2. i \in 1..Len(history) /\ history[i].held
    BY <1>1, <1>3, <2>1 DEF Full
  <2>3. PICK y \in Slots : /\ y.held /\ y.seq = history[i].seq /\ ~y.pending
                            /\ d = With(history, i, y)
    BY <1>3, <2>2
  <2>4. /\ Full(d) /\ Newest(d) = Newest(history) /\ history[i] \in Kept(history)
        /\ Kept(d) = (Kept(history) \ {history[i]}) \cup {y}
    BY <1>1, <2>2, <2>3, MarkIsReplace DEF DequeOf
  <2>5. Store!Return
    <3>1. y \in Kept(d)
      BY <2>4
    <3>2. \E p \in Kept(history) : \E q \in Kept(history)' :
              /\ q.seq = p.seq /\ ~q.pending
              /\ Kept(history)' = (Kept(history) \ {p}) \cup {q}
      BY <2>3, <2>4, <3>1
    <3>. QED
      BY <3>2, Zenon DEF Store!Return, Kept
  <2>. QED
    BY <2>4, <2>5 DEF StoreStep, Store!StoreNext
<1>. QED
  BY <1>2, <1>3

LEMMA SentStep ==
    ASSUME VInv, InOrder, NEW s \in SeqNums, MarkPacketAsSent(s) \/ MarkPacketAsAborted(s),
           NEW d, d = history'
    PROVE  StoreStep /\ Full(d) /\ Newest(d) = Newest(history)
<1>1. PICK h \in Seq(Slots) : h = history /\ Window(h)
  BY WindowIsDeque DEF VInv, DequeOf
<1>2. PICK i : i = GetStoredPacket(h, s)
  OBVIOUS
<1>3. CASE i = 0
  <2>1. d = history
    BY <1>1, <1>2, <1>3 DEF MarkPacketAsSent, MarkPacketAsAborted
  <2>. QED
    BY <1>1, <1>2, <1>3, <2>1, RecordedStep
<1>4. CASE i # 0
  <2>1. i \in 1..Len(h)
    <3>1. i \in 0..Len(h)
      BY <1>1, <1>2, FoundSound
    <3>. QED
      BY <1>4, <3>1
  <2>2. PICK x \in Slots : x = h[i]
    BY <2>1, SlotType
  <2>3. CASE MarkPacketAsSent(s)
    <3>1. PICK y : y = [x EXCEPT !.at = clock, !.pending = FALSE, !.resent = TRUE]
      OBVIOUS
    <3>2. y \in Slots /\ y.held = x.held /\ y.seq = x.seq /\ ~y.pending
      BY <3>1 DEF Slots, VInv, Types
    <3>3. d = [h EXCEPT ![i].at = clock, ![i].pending = FALSE, ![i].resent = TRUE]
      BY <1>1, <1>2, <1>4, <2>3 DEF MarkPacketAsSent
    <3>4. d = With(h, i, y)
      BY <2>1, <2>2, <3>1, <3>3 DEF With
    <3>. QED
      BY <1>1, <1>2, <1>4, <2>2, <3>2, <3>4, RecordedStep
  <2>4. CASE MarkPacketAsAborted(s)
    <3>1. PICK y : y = [x EXCEPT !.pending = FALSE]
      OBVIOUS
    <3>2. y \in Slots /\ y.held = x.held /\ y.seq = x.seq /\ ~y.pending
      BY <3>1 DEF Slots
    <3>3. d = [h EXCEPT ![i].pending = FALSE]
      BY <1>1, <1>2, <1>4, <2>4 DEF MarkPacketAsAborted
    <3>4. d = With(h, i, y)
      BY <2>1, <2>2, <3>1, <3>3 DEF With
    <3>. QED
      BY <1>1, <1>2, <1>4, <2>2, <3>2, <3>4, RecordedStep
  <2>. QED
    BY <2>3, <2>4
<1>. QED
  BY <1>3, <1>4

\* Packets are dropped by age, or all of them.
LEMMA DroppedStep ==
    ASSUME VInv, InOrder, NEW d, d = history', d \in Seq(Slots), SuffixOf(history, d)
    PROVE  StoreStep /\ Full(d) /\ Newest(d) \subseteq Newest(history)
<1>1. DequeOf(history) /\ Full(history)
  BY WindowIsDeque DEF VInv, InOrder
<1>2. Kept(d) \in Store!Suffixes(Kept(history))
  BY <1>1, SuffixIsDrop
<1>3. Store!Drop
  BY <1>2 DEF Store!Drop, Kept
<1>4. Full(d) /\ Newest(d) \subseteq Newest(history)
  BY <1>1, SuffixFacts DEF DequeOf
<1>. QED
  BY <1>3, <1>4 DEF StoreStep, Store!StoreNext

LEMMA PutStep ==
    ASSUME MaxCapacity < SeqMod \div 2, VInv, InOrder, tasks # <<>>, NEW t, t = Head(tasks),
           t.kind = "put", NEW d, d = history', d = PutRtpPacket(history, Slot(t.seq, t.epoch))
    PROVE  StoreStep /\ Full(d) /\ Newest(d) \subseteq {t.seq}
<1>1. DequeOf(history) /\ Full(history)
  BY WindowIsDeque DEF VInv, InOrder
<1>2. PICK w \in Seq(HistoryTasks) : w = tasks /\ w # <<>>
  BY DEF VInv, Types
<1>3. t \in HistoryTasks /\ t = w[1] /\ 1 \in 1..Len(w)
  <2>1. PICK e : e = Tail(w)
    OBVIOUS
  <2>. QED
    BY <1>2, <2>1, TailFacts
<1>4. PICK p : p = Slot(t.seq, t.epoch)
  OBVIOUS
<1>5. p \in Slots /\ p.held /\ ~p.pending /\ p.seq = t.seq /\ p.seq \in SeqNums
  BY <1>3, <1>4 DEF Slot, Slots, HistoryTasks, VInv, Types
<1>6. \A a \in Newest(history) : p.seq = SeqPlus(a, 1, SeqMod)
  <2>1. Quiet(w, 0, 1)
    BY DEF Quiet
  <2>. QED
    BY <1>2, <1>3, <1>5, <2>1 DEF InOrder, Chained
<1>7. /\ Full(d) /\ Newest(d) \subseteq {p.seq}
      /\ \/ Kept(d) \in Store!Suffixes(Kept(history))
         \/ \E T \in Store!Suffixes(Kept(history)) :
               /\ \A q \in T : Store!Older(q, p)
               /\ Kept(d) = T \cup {p}
  BY <1>1, <1>4, <1>5, <1>6, PutIsInsert
<1>8. CASE Kept(d) \in Store!Suffixes(Kept(history))
  <2>1. Store!Drop
    BY <1>8 DEF Store!Drop, Kept
  <2>. QED
    BY <1>5, <1>7, <2>1 DEF StoreStep, Store!StoreNext
<1>9. CASE \E T \in Store!Suffixes(Kept(history)) :
               /\ \A q \in T : Store!Older(q, p)
               /\ Kept(d) = T \cup {p}
  <2>1. \E T \in Store!Suffixes(Kept(history)) : \E x \in Kept(history)' :
            /\ x.seq \in SeqNums /\ ~x.pending
            /\ \A q \in T : Store!Older(q, x)
            /\ Kept(history)' = T \cup {x}
    BY <1>5, <1>9
  <2>2. Store!Insert
    BY <2>1, Zenon DEF Store!Insert, Store!Seqs, SeqNums, Kept
  <2>. QED
    BY <1>5, <1>7, <2>2 DEF StoreStep, Store!StoreNext
<1>. QED
  BY <1>7, <1>8, <1>9

LEMMA RunTaskStep ==
    ASSUME MaxCapacity < SeqMod \div 2, VInv, InOrder, RunTask
    PROVE  StoreStep /\ InOrder'
<1>1. PICK t : t = Head(tasks)
  OBVIOUS
<1>2. PICK d : d = history'
  OBVIOUS
<1>3. tasks \in Seq(HistoryTasks) /\ tasks # <<>> /\ tasks' = Tail(tasks)
  BY DEF RunTask, VInv, Types
<1>4. t \in HistoryTasks
  <2>1. PICK e : e = Tail(tasks)
    OBVIOUS
  <2>. QED
    BY <1>1, <1>3, <2>1, TailFacts
<1>5. DequeOf(history) /\ DequeOf(d)
  <2>1. VInv'
    BY RunTaskInv
  <2>2. d \in Seq(Slots) /\ Len(d) <= MaxCapacity /\ Window(d)
    BY <1>2, <2>1 DEF VInv, Types, HistoryIsWindow, Window
  <2>. QED
    BY <2>2, WindowIsDeque DEF VInv, DequeOf
<1>6. /\ StoreStep /\ Full(d)
      /\ t.kind = "put" => Newest(d) \subseteq {t.seq}
      /\ t.kind # "put" => Newest(d) \subseteq Newest(history)
  <2>1. CASE t.kind = "put" /\ d = PutRtpPacket(history, Slot(t.seq, t.epoch))
    BY <1>1, <1>2, <1>3, <2>1, PutStep
  <2>2. CASE t.kind \in {"sent", "aborted"} /\ (MarkPacketAsSent(t.seq) \/ MarkPacketAsAborted(t.seq))
    <3>1. t.seq \in SeqNums
      BY <1>4, <2>2 DEF HistoryTasks
    <3>. QED
      BY <1>2, <2>2, <3>1, SentStep
  <2>3. CASE t.kind = "clear" /\ d = <<>>
    <3>1. SuffixOf(history, d)
      BY <2>3 DEF SuffixOf
    <3>. QED
      BY <1>2, <1>5, <2>3, <3>1, DroppedStep DEF DequeOf
  <2>4. CASE t.kind = "rtt" /\ d = RemoveDeadPackets(history, t.seq)
    <3>1. SuffixOf(history, d)
      BY <1>5, <2>4, ShortDeque, AgedIsSuffix
    <3>. QED
      BY <1>2, <1>5, <2>4, <3>1, DroppedStep DEF DequeOf
  <2>5. CASE t.kind = "rtt" /\ d = history
    BY <1>2, <2>5 DEF StoreStep, InOrder
  <2>. QED
    BY <1>1, <1>2, <2>1, <2>2, <2>3, <2>4, <2>5 DEF RunTask
<1>7. UNCHANGED <<rtxEnabled, stage, nextSeq>>
  BY DEF RunTask
<1>8. InOrder'
  BY <1>1, <1>2, <1>3, <1>6, <1>7, TakenFacts
<1>. QED
  BY <1>6, <1>8

LEMMA ResendStep ==
    ASSUME VInv, InOrder, Resend
    PROVE  StoreStep /\ InOrder'
<1>1. DequeOf(history) /\ Full(history)
  BY WindowIsDeque DEF VInv, InOrder
<1>2. UNCHANGED <<rtxEnabled, tasks, stage, nextSeq>>
  BY DEF Resend
<1>3. CASE history' = history
  BY <1>1, <1>2, <1>3, OrderKept DEF StoreStep
<1>4. CASE history' # history
  <2>1. PICK s \in worker.batch : ReSendPacket(s)
    BY <1>4 DEF Resend
  <2>2. PICK i : i = GetStoredPacket(history, s)
    OBVIOUS
  <2>3. Resendable(i) /\ history' = [history EXCEPT ![i].pending = TRUE]
    BY <1>4, <2>1, <2>2 DEF ReSendPacket
  <2>4. i \in 1..Len(history) /\ ~history[i].pending
    <3>1. s \in SeqNums
      BY DEF VInv, Types
    <3>2. i \in 0..Len(history)
      BY <1>1, <2>2, <3>1, FoundSound DEF DequeOf
    <3>. QED
      BY <2>3, <3>2 DEF Resendable
  <2>5. PICK x \in Slots : x = history[i] /\ x.held
    BY <1>1, <2>4, SlotType DEF DequeOf, Full
  <2>6. PICK y : y = [x EXCEPT !.pending = TRUE]
    OBVIOUS
  <2>7. y \in Slots /\ y.held /\ y.seq = history[i].seq
    BY <2>5, <2>6 DEF Slots
  <2>8. PICK d : d = history'
    OBVIOUS
  <2>9. d = With(history, i, y)
    BY <1>1, <2>3, <2>4, <2>5, <2>6, <2>8 DEF With, DequeOf
  <2>10. /\ Full(d) /\ Newest(d) = Newest(history) /\ x \in Kept(history)
         /\ Kept(d) = (Kept(history) \ {x}) \cup {y}
    BY <1>1, <2>4, <2>5, <2>7, <2>9, MarkIsReplace DEF DequeOf
  <2>11. \E p \in Kept(history) :
            /\ ~p.pending
            /\ Kept(d) = (Kept(history) \ {p}) \cup {[p EXCEPT !.pending = TRUE]}
    BY <2>4, <2>5, <2>6, <2>10
  <2>12. Store!Take
    BY <2>8, <2>11 DEF Store!Take, Kept
  <2>13. InOrder'
    BY <1>2, <2>8, <2>10, OrderKept
  <2>. QED
    BY <2>12, <2>13 DEF StoreStep, Store!StoreNext
<1>. QED
  BY <1>3, <1>4

LEMMA SendMediaStep ==
    ASSUME VInv, InOrder, SendMedia
    PROVE  InOrder'
<1>1. PICK w \in Seq(HistoryTasks) : w = tasks
  BY DEF VInv, Types
<1>2. PICK t \in HistoryTasks : t.kind = "put" /\ t.seq = nextSeq /\ tasks' = Append(tasks, t)
  <2>1. "put" \in Kinds /\ nextSeq \in SeqNums
    BY DEF Kinds, VInv, Types
  <2>2. /\ Task("put", nextSeq) \in HistoryTasks /\ Task("put", nextSeq).kind = "put"
        /\ Task("put", nextSeq).seq = nextSeq
    BY <2>1, TaskType DEF VInv
  <2>3. tasks' = Append(tasks, Task("put", nextSeq))
    BY DEF SendMedia, PostHistory, history_shutdown
  <2>. QED
    BY <2>2, <2>3
<1>3. PICK e : e = tasks'
  OBVIOUS
<1>4. PICK A : A = Newest(history)
  OBVIOUS
<1>5. /\ UNCHANGED <<rtxEnabled, history, stage>> /\ stage = "run"
      /\ nextSeq' = SeqPlus(nextSeq, 1, SeqMod)
  BY DEF SendMedia
<1>6. Chained(e, A) /\ Ended(e, A, SeqPlus(nextSeq, 1, SeqMod))
  BY <1>1, <1>2, <1>3, <1>4, <1>5, ChainPut DEF InOrder
<1>. QED
  BY <1>3, <1>4, <1>5, <1>6 DEF InOrder

\* A task that puts nothing is posted to the history worker, or none is.
LEMMA PosterStep ==
    ASSUME VInv, InOrder, SendRtx \/ PauseVideo \/ FinishNacks \/ PostNackTask \/ OnRttUpdate
    PROVE  InOrder'
<1>1. UNCHANGED <<rtxEnabled, history, stage, nextSeq>>
  BY DEF SendRtx, PauseVideo, FinishNacks, PostNackTask, OnRttUpdate
<1>2. \/ tasks' = tasks
      \/ \E t \in HistoryTasks : t.kind # "put" /\ tasks' = Append(tasks, t)
  <2>1. ASSUME NEW k \in Kinds \ {"put"}, NEW s \in SeqNums \cup Rtts, k # "rtt" => s \in SeqNums
        PROVE  Task(k, s) \in HistoryTasks /\ Task(k, s).kind # "put"
    BY <2>1, TaskType DEF VInv
  <2>2. 0 \in SeqNums
    BY CapacityAssumption DEF SeqNums
  <2>3. CASE SendRtx
    <3>1. rtxQueue \in Seq(PacerTasks) /\ rtxQueue # <<>>
      BY <2>3 DEF SendRtx, VInv, Types
    <3>2. PICK s \in SeqNums : s = Head(rtxQueue).seq
      <4>1. PICK x \in PacerTasks : x = Head(rtxQueue)
        BY <3>1
      <4>2. x.seq \in SeqNums
        BY DEF PacerTasks
      <4>. QED
        BY <4>1, <4>2
    <3>3. PICK k \in {"sent", "aborted"} : PostHistory(Task(k, s))
      BY <2>3, <3>2 DEF SendRtx
    <3>4. Task(k, s) \in HistoryTasks /\ Task(k, s).kind # "put"
      BY <2>1 DEF Kinds
    <3>. QED
      BY <3>3, <3>4 DEF PostHistory
  <2>4. CASE PauseVideo
    <3>1. Task("clear", 0) \in HistoryTasks /\ Task("clear", 0).kind # "put"
      BY <2>1, <2>2 DEF Kinds
    <3>. QED
      BY <2>4, <3>1 DEF PauseVideo, ResetSendState, PostHistory
  <2>5. CASE FinishNacks \/ PostNackTask
    <3>1. Task("nacks", 0) \in HistoryTasks /\ Task("nacks", 0).kind # "put"
      BY <2>1, <2>2 DEF Kinds
    <3>. QED
      BY <2>5, <3>1 DEF FinishNacks, PostNackTask
  <2>6. CASE OnRttUpdate
    <3>1. PICK r \in Rtts : PostHistory(Task("rtt", r))
      BY <2>6 DEF OnRttUpdate
    <3>2. Task("rtt", r) \in HistoryTasks /\ Task("rtt", r).kind # "put"
      BY <2>1 DEF Kinds
    <3>. QED
      BY <3>1, <3>2 DEF PostHistory
  <2>. QED
    BY <2>3, <2>4, <2>5, <2>6
<1>. QED
  BY <1>1, <1>2, PostedOther, OrderKept DEF InOrder

LEMMA DestroyStep ==
    ASSUME VInv, InOrder, Destroy
    PROVE  InOrder'
<1>1. UNCHANGED <<rtxEnabled, history>> /\ stage' # "run" /\ (tasks' = tasks \/ tasks' = <<>>)
  BY DEF Destroy
<1>2. CASE tasks' = tasks
  BY <1>1, <1>2 DEF InOrder
<1>3. CASE tasks' = <<>>
  BY <1>1, <1>3 DEF InOrder, Chained
<1>. QED
  BY <1>1, <1>2, <1>3

LEMMA NextStore ==
    ASSUME MaxCapacity < SeqMod \div 2, VInv, InOrder, [VcsNext]_vcsVars
    PROVE  InOrder' /\ StoreStep
<1>1. CASE RunTask BY <1>1, RunTaskStep
<1>2. CASE Resend BY <1>2, ResendStep
<1>3. CASE ProcessPendingNacks
  <2>1. /\ UNCHANGED <<rtxEnabled, history, stage, nextSeq>> /\ tasks # <<>> /\ tasks' = Tail(tasks)
        /\ Head(tasks).kind # "put"
    BY <1>3 DEF ProcessPendingNacks
  <2>2. InOrder'
    BY <2>1, TakenFacts DEF InOrder
  <2>. QED
    BY <2>1, <2>2 DEF StoreStep
<1>4. CASE SendRtx \/ PauseVideo \/ FinishNacks \/ PostNackTask \/ OnRttUpdate
  <2>1. history' = history
    BY <1>4 DEF SendRtx, PauseVideo, FinishNacks, PostNackTask, OnRttUpdate
  <2>. QED
    BY <1>4, <2>1, PosterStep DEF StoreStep
<1>5. CASE SendMedia
  <2>1. history' = history
    BY <1>5 DEF SendMedia
  <2>. QED
    BY <1>5, <2>1, SendMediaStep DEF StoreStep
<1>6. CASE Destroy
  <2>1. history' = history
    BY <1>6 DEF Destroy
  <2>. QED
    BY <1>6, <2>1, DestroyStep DEF StoreStep
<1>7. CASE SendPadding
  BY <1>7 DEF SendPadding, InOrder
<1>8. CASE \/ OnReceiveNack \/ EnqueueRtx \/ ResumeVideo \/ SetVideoSendPaused \/ PassTime
           \/ UNCHANGED vcsVars
  <2>1. UNCHANGED <<rtxEnabled, history, tasks, stage, nextSeq>>
    BY <1>8 DEF OnReceiveNack, EnqueueRtx, ResumeVideo, SetVideoSendPaused, PassTime, vcsVars
  <2>2. InOrder'
    BY <2>1, OrderKept DEF InOrder
  <2>. QED
    BY <2>1, <2>2 DEF StoreStep
<1>. QED
  BY <1>1, <1>2, <1>3, <1>4, <1>5, <1>6, <1>7, <1>8 DEF VcsNext, HistoryStep, PacerStep, Destroyed

\* The deque of RtpPacketHistory implements the store of packets by number that
\* NACKs are answered from, as long as RTX is negotiated: every task that puts a
\* packet, late as it may run, adds it as the newest; a copy is taken only of a
\* packet of which none is pending; a result is recorded for the packet of its
\* number; and packets leave oldest first.  That the capacity is less than half
\* of the numbers, 10001 of 2^16, is what makes the comparison of numbers sound.
THEOREM HistoryImplementsStore ==
    ASSUME MaxCapacity < SeqMod \div 2
    PROVE  VcsSpec /\ rtxEnabled => StoreImplemented
<1>1. VcsInit /\ rtxEnabled => InOrder /\ Store!StoreInit
  BY DEF VcsInit, InOrder, Full, Chained, Ended, Newest, Store!StoreInit
<1>2. VInv /\ InOrder /\ [VcsNext]_vcsVars => InOrder'
  BY NextStore
<1>3. VInv /\ InOrder /\ [VcsNext]_vcsVars
        => [Store!StoreNext]_{history[i] : i \in {j \in 1..Len(history) : history[j].held}}
  BY NextStore DEF StoreStep, Kept
<1>. QED
  BY <1>1, <1>2, <1>3, VInvariance, PTL DEF VcsSpec, StoreImplemented, Store!StoreSpec
-----------------------------------------------------------------------------
(***************************************************************************)
(* Retransmissions are a round-trip time apart.  A retransmission is       *)
(* recorded by the history worker later than the pacer sends it; what      *)
(* bridges the gap is the mark of the packet, of which at most one copy or *)
(* result is on its way.                                                   *)
(***************************************************************************)
AllKinds == {"rtx", "pause", "resume"}
Results  == {"sent", "aborted"}

\* The numbers in a queue, and that none of them is there twice.
Nums(q, K) == {q[j].seq : j \in {i \in 1..Len(q) : q[i].kind \in K}}
Once(q, K) ==
    \A i, j \in 1..Len(q) : q[i].kind \in K /\ q[j].kind \in K /\ q[i].seq = q[j].seq => i = j

LEMMA NumsAppend ==
    ASSUME NEW S, NEW q \in Seq(S), NEW x \in S, NEW K, NEW e, e = Append(q, x),
           Once(q, K), x.kind \in K => x.seq \notin Nums(q, K)
    PROVE  /\ x.kind \in K => Nums(e, K) = Nums(q, K) \cup {x.seq}
           /\ x.kind \notin K => Nums(e, K) = Nums(q, K)
           /\ Once(e, K)
<1>1. /\ e \in Seq(S) /\ Len(e) = Len(q) + 1 /\ Len(q) \in Nat
      /\ Len(e) \in 1..Len(e) /\ e[Len(e)] = x
      /\ \A j \in 1..Len(q) : j \in 1..Len(e) /\ e[j] = q[j]
  BY AppendFacts
<1>2. \A j \in 1..Len(e) : j = Len(e) \/ j \in 1..Len(q)
  BY <1>1
<1>3. \A s : s \in Nums(e, K) <=> \E j \in 1..Len(e) : e[j].kind \in K /\ e[j].seq = s
  BY DEF Nums
<1>4. \A s : s \in Nums(q, K) <=> \E j \in 1..Len(q) : q[j].kind \in K /\ q[j].seq = s
  BY DEF Nums
<1>5. \A s : s \in Nums(e, K) <=> s \in Nums(q, K) \/ (x.kind \in K /\ x.seq = s)
  <2>. TAKE s
  <2>1. ASSUME NEW j \in 1..Len(e), e[j].kind \in K, e[j].seq = s
        PROVE  s \in Nums(q, K) \/ (x.kind \in K /\ x.seq = s)
    BY <1>1, <1>2, <1>4, <2>1
  <2>2. ASSUME NEW j \in 1..Len(q), q[j].kind \in K, q[j].seq = s
        PROVE  s \in Nums(e, K)
    BY <1>1, <1>3, <2>2
  <2>3. x.kind \in K /\ x.seq = s => s \in Nums(e, K)
    BY <1>1, <1>3
  <2>. QED
    BY <1>3, <1>4, <2>1, <2>2, <2>3
<1>6. /\ x.kind \in K => Nums(e, K) = Nums(q, K) \cup {x.seq}
      /\ x.kind \notin K => Nums(e, K) = Nums(q, K)
  BY <1>5
<1>7. ASSUME NEW i \in 1..Len(e), NEW j \in 1..Len(e),
             e[i].kind \in K, e[j].kind \in K, e[i].seq = e[j].seq
      PROVE  i = j
  <2>1. CASE i \in 1..Len(q) /\ j \in 1..Len(q)
    BY <1>1, <1>7, <2>1 DEF Once
  <2>2. CASE i = Len(e) /\ j \in 1..Len(q)
    BY <1>1, <1>4, <1>7, <2>2
  <2>3. CASE i \in 1..Len(q) /\ j = Len(e)
    BY <1>1, <1>4, <1>7, <2>3
  <2>. QED
    BY <1>2, <2>1, <2>2, <2>3
<1>. QED
  BY <1>6, <1>7 DEF Once

LEMMA NumsTail ==
    ASSUME NEW S, NEW q \in Seq(S), q # <<>>, NEW K, Once(q, K), NEW e, e = Tail(q),
           NEW x, x = Head(q)
    PROVE  /\ x.kind \in K => Nums(e, K) = Nums(q, K) \ {x.seq} /\ x.seq \in Nums(q, K)
           /\ x.kind \notin K => Nums(e, K) = Nums(q, K)
           /\ Once(e, K)
<1>1. /\ x = q[1] /\ 1 \in 1..Len(q) /\ e \in Seq(S) /\ Len(e) = Len(q) - 1 /\ Len(q) \in Nat
      /\ \A j \in 1..Len(e) : j + 1 \in 1..Len(q) /\ e[j] = q[j + 1]
      /\ \A j \in 1..Len(q) : j = 1 \/ (j - 1 \in 1..Len(e) /\ e[j - 1] = q[j])
  BY TailFacts
<1>2. \A s : s \in Nums(e, K) <=> \E j \in 1..Len(e) : e[j].kind \in K /\ e[j].seq = s
  BY DEF Nums
<1>3. \A s : s \in Nums(q, K) <=> \E j \in 1..Len(q) : q[j].kind \in K /\ q[j].seq = s
  BY DEF Nums
<1>4. ASSUME NEW s, s \in Nums(e, K)
      PROVE  s \in Nums(q, K) /\ ~(x.kind \in K /\ x.seq = s)
  <2>1. PICK j \in 1..Len(e) : e[j].kind \in K /\ e[j].seq = s
    BY <1>2, <1>4
  <2>2. j + 1 \in 1..Len(q) /\ q[j + 1].kind \in K /\ q[j + 1].seq = s /\ j + 1 # 1
    BY <1>1, <2>1
  <2>. QED
    BY <1>1, <1>3, <2>2 DEF Once
<1>5. ASSUME NEW s, s \in Nums(q, K)
      PROVE  s \in Nums(e, K) \/ (x.kind \in K /\ x.seq = s)
  <2>1. PICK j \in 1..Len(q) : q[j].kind \in K /\ q[j].seq = s
    BY <1>3, <1>5
  <2>. QED
    BY <1>1, <1>2, <2>1
<1>6. /\ x.kind \in K => Nums(e, K) = Nums(q, K) \ {x.seq}
      /\ x.kind \notin K => Nums(e, K) = Nums(q, K)
  BY <1>4, <1>5
<1>7. x.kind \in K => x.seq \in Nums(q, K)
  BY <1>1, <1>3
<1>8. ASSUME NEW i \in 1..Len(e), NEW j \in 1..Len(e),
             e[i].kind \in K, e[j].kind \in K, e[i].seq = e[j].seq
      PROVE  i = j
  <2>1. i + 1 = j + 1
    <3>1. /\ i + 1 \in 1..Len(q) /\ j + 1 \in 1..Len(q)
          /\ e[i] = q[i + 1] /\ e[j] = q[j + 1]
      BY <1>1
    <3>. QED
      BY <1>8, <3>1 DEF Once
  <2>. QED
    BY <2>1
<1>. QED
  BY <1>6, <1>7, <1>8 DEF Once

LEMMA NumsEmpty == ASSUME NEW K PROVE Nums(<<>>, K) = {} /\ Once(<<>>, K)
BY DEF Nums, Once

-----------------------------------------------------------------------------
Copied   == Nums(pacerTasks, {"rtx"})
Queued   == Nums(rtxQueue, AllKinds)
Reported == Nums(tasks, Results)
Sent     == Nums(tasks, {"sent"})
ToPut    == Nums(tasks, {"put"})

\* On its way between the mark of a packet and the record of the result.
Underway == Copied \cup Queued \cup Reported

Stored(h) == {h[i].seq : i \in {j \in 1..Len(h) : h[j].held}}

\* A number no packet that was stored has had.
Fresh(s) == s \notin Stored(history) \cup Underway /\ lastRtx[s] = Never

\* The numbers still to be given, as long as none is given twice.
Future(s) == ForwardDiff(nextSeq, s, SeqMod) < SeqMod - sentCount

Times ==
    /\ rtt \in Nat /\ sentCount \in Nat /\ sentCount <= SeqMod
    /\ DOMAIN lastRtx = SeqNums
    /\ \A s \in SeqNums : lastRtx[s] = Never \/ (lastRtx[s] \in Nat /\ lastRtx[s] <= clock)

NoneTwice ==
    /\ Once(pacerTasks, {"rtx"}) /\ Once(rtxQueue, AllKinds)
    /\ Once(tasks, Results) /\ Once(tasks, {"sent"}) /\ Once(tasks, {"put"})
    /\ Copied \cap Queued = {} /\ Copied \cap Reported = {} /\ Queued \cap Reported = {}

Unused ==
    /\ \A s \in ToPut : Fresh(s)
    /\ \A s \in SeqNums : Future(s) => Fresh(s) /\ s \notin ToPut

\* A stored packet of which something is underway is marked, and what it
\* records is no older than its last retransmission, or will not be.
SlotInv(x) ==
    /\ x.seq \in Underway => x.pending
    /\ \/ lastRtx[x.seq] = Never
       \/ x.resent /\ x.at >= lastRtx[x.seq]
       \/ x.seq \in Sent

SlotsInv == \A i \in 1..Len(history) : history[i].held => SlotInv(history[i])

Spaced == NoneTwice /\ Unused /\ SlotsInv
SpInv == Times /\ (stage = "run" => Spaced)

LEMMA InitSpaced == ASSUME VcsInit PROVE SpInv
<1>1. Times
  BY CapacityAssumption, RttAssumption DEF VcsInit, Times
<1>2. /\ Copied = {} /\ Queued = {} /\ Reported = {} /\ Sent = {} /\ ToPut = {}
      /\ NoneTwice
  BY NumsEmpty DEF VcsInit, Copied, Queued, Reported, Sent, ToPut, NoneTwice
<1>3. Stored(history) = {} /\ SlotsInv
  BY DEF VcsInit, Stored, SlotsInv
<1>4. Unused
  BY <1>2, <1>3 DEF VcsInit, Unused, Fresh, Underway
<1>. QED
  BY <1>1, <1>2, <1>3, <1>4 DEF SpInv, Spaced

-----------------------------------------------------------------------------
\* The numbers in the history worker's queue when a task is posted or taken.
LEMMA TaskPosted ==
    ASSUME Types, NoneTwice, NEW t \in HistoryTasks, tasks' = Append(tasks, t),
           t.kind \in Results => t.seq \notin Reported, t.kind = "put" => t.seq \notin ToPut
    PROVE  /\ t.kind \in Results => Reported' = Reported \cup {t.seq}
           /\ t.kind \notin Results => Reported' = Reported
           /\ t.kind = "sent" => Sent' = Sent \cup {t.seq}
           /\ t.kind # "sent" => Sent' = Sent
           /\ t.kind = "put" => ToPut' = ToPut \cup {t.seq}
           /\ t.kind # "put" => ToPut' = ToPut
           /\ Once(tasks', Results) /\ Once(tasks', {"sent"}) /\ Once(tasks', {"put"})
<1>1. PICK q \in Seq(HistoryTasks) : q = tasks
  BY DEF Types
<1>2. PICK e : e = tasks' /\ e = Append(q, t)
  BY <1>1
<1>3. ASSUME NEW K, Once(q, K), t.kind \in K => t.seq \notin Nums(q, K)
      PROVE  /\ t.kind \in K => Nums(e, K) = Nums(q, K) \cup {t.seq}
             /\ t.kind \notin K => Nums(e, K) = Nums(q, K)
             /\ Once(e, K)
  <2>1. e = Append(q, t)
    BY <1>2
  <2>. QED
    BY <1>3, <2>1, NumsAppend, Zenon
<1>4. Once(q, Results) /\ Once(q, {"sent"}) /\ Once(q, {"put"})
  BY <1>1 DEF NoneTwice
<1>5. t.kind \in Results => t.seq \notin Nums(q, Results)
  BY <1>1 DEF Reported
<1>6. t.kind \in {"sent"} => t.seq \notin Nums(q, {"sent"})
  <2>1. Nums(q, {"sent"}) \subseteq Nums(q, Results)
    BY DEF Nums, Results
  <2>. QED
    BY <1>5, <2>1 DEF Results
<1>7. t.kind \in {"put"} => t.seq \notin Nums(q, {"put"})
  BY <1>1 DEF ToPut
<1>8. /\ t.kind \in Results => Nums(e, Results) = Nums(q, Results) \cup {t.seq}
      /\ t.kind \notin Results => Nums(e, Results) = Nums(q, Results)
      /\ Once(e, Results)
  BY <1>3, <1>4, <1>5, Zenon
<1>9. /\ t.kind \in {"sent"} => Nums(e, {"sent"}) = Nums(q, {"sent"}) \cup {t.seq}
      /\ t.kind \notin {"sent"} => Nums(e, {"sent"}) = Nums(q, {"sent"})
      /\ Once(e, {"sent"})
  BY <1>3, <1>4, <1>6, Zenon
<1>10. /\ t.kind \in {"put"} => Nums(e, {"put"}) = Nums(q, {"put"}) \cup {t.seq}
       /\ t.kind \notin {"put"} => Nums(e, {"put"}) = Nums(q, {"put"})
       /\ Once(e, {"put"})
  BY <1>3, <1>4, <1>7, Zenon
<1>11. /\ Reported = Nums(q, Results) /\ Sent = Nums(q, {"sent"}) /\ ToPut = Nums(q, {"put"})
       /\ Reported' = Nums(e, Results) /\ Sent' = Nums(e, {"sent"}) /\ ToPut' = Nums(e, {"put"})
  BY <1>1, <1>2 DEF Reported, Sent, ToPut
<1>. QED
  BY <1>2, <1>8, <1>9, <1>10, <1>11

LEMMA TaskTaken ==
    ASSUME Types, NoneTwice, tasks # <<>>, tasks' = Tail(tasks), NEW t, t = Head(tasks)
    PROVE  /\ t.kind \in Results => Reported' = Reported \ {t.seq} /\ t.seq \in Reported
           /\ t.kind \notin Results => Reported' = Reported
           /\ t.kind = "sent" => Sent' = Sent \ {t.seq}
           /\ t.kind # "sent" => Sent' = Sent
           /\ t.kind = "put" => ToPut' = ToPut \ {t.seq} /\ t.seq \in ToPut
           /\ t.kind # "put" => ToPut' = ToPut
           /\ Once(tasks', Results) /\ Once(tasks', {"sent"}) /\ Once(tasks', {"put"})
<1>1. PICK q \in Seq(HistoryTasks) : q = tasks /\ q # <<>>
  BY DEF Types
<1>2. PICK e : e = tasks' /\ e = Tail(q)
  BY <1>1
<1>3. ASSUME NEW K, Once(q, K)
      PROVE  /\ t.kind \in K => Nums(e, K) = Nums(q, K) \ {t.seq} /\ t.seq \in Nums(q, K)
             /\ t.kind \notin K => Nums(e, K) = Nums(q, K)
             /\ Once(e, K)
  <2>1. t = Head(q)
    BY <1>1
  <2>. QED
    BY <1>1, <1>2, <1>3, <2>1, NumsTail, Zenon
<1>4. Once(q, Results) /\ Once(q, {"sent"}) /\ Once(q, {"put"})
  BY <1>1 DEF NoneTwice
<1>5. /\ t.kind \in Results => /\ Nums(e, Results) = Nums(q, Results) \ {t.seq}
                               /\ t.seq \in Nums(q, Results)
      /\ t.kind \notin Results => Nums(e, Results) = Nums(q, Results)
      /\ Once(e, Results)
  BY <1>3, <1>4, Zenon
<1>6. /\ t.kind \in {"sent"} => Nums(e, {"sent"}) = Nums(q, {"sent"}) \ {t.seq}
      /\ t.kind \notin {"sent"} => Nums(e, {"sent"}) = Nums(q, {"sent"})
      /\ Once(e, {"sent"})
  BY <1>3, <1>4, Zenon
<1>7. /\ t.kind \in {"put"} => /\ Nums(e, {"put"}) = Nums(q, {"put"}) \ {t.seq}
                               /\ t.seq \in Nums(q, {"put"})
      /\ t.kind \notin {"put"} => Nums(e, {"put"}) = Nums(q, {"put"})
      /\ Once(e, {"put"})
  BY <1>3, <1>4, Zenon
<1>8. /\ Reported = Nums(q, Results) /\ Sent = Nums(q, {"sent"}) /\ ToPut = Nums(q, {"put"})
      /\ Reported' = Nums(e, Results) /\ Sent' = Nums(e, {"sent"}) /\ ToPut' = Nums(e, {"put"})
  BY <1>1, <1>2 DEF Reported, Sent, ToPut
<1>. QED
  BY <1>2, <1>5, <1>6, <1>7, <1>8

\* What is unused stays so when nothing new is touched.
LEMMA UnusedKept ==
    ASSUME Unused, ToPut' \subseteq ToPut, Stored(history)' \subseteq Stored(history),
           Underway' \subseteq Underway, lastRtx' = lastRtx,
           \A s \in SeqNums : Future(s)' => Future(s)
    PROVE  Unused'
BY DEF Unused, Fresh

\* The queue of the history worker changes by tasks that carry no number.
LEMMA NumbersKept ==
    ASSUME Spaced, UNCHANGED <<history, pacerTasks, rtxQueue, lastRtx, nextSeq, sentCount>>,
           UNCHANGED <<Reported, Sent, ToPut>>,
           Once(tasks', Results), Once(tasks', {"sent"}), Once(tasks', {"put"})
    PROVE  Spaced'
<1>1. NoneTwice'
  BY DEF Spaced, NoneTwice, Copied, Queued
<1>2. Underway' = Underway
  BY DEF Underway, Copied, Queued
<1>3. Unused'
  <2>1. \A s \in SeqNums : Future(s)' = Future(s)
    BY DEF Future
  <2>. QED
    BY <1>2, <2>1, UnusedKept DEF Spaced, Stored
<1>4. SlotsInv'
  BY <1>2 DEF Spaced, SlotsInv, SlotInv
<1>. QED
  BY <1>1, <1>3, <1>4 DEF Spaced

Quietly == {"clear", "nacks", "rtt"}

LEMMA PostedQuietly ==
    ASSUME Types, Spaced, NEW t \in HistoryTasks, t.kind \in Quietly,
           tasks' = tasks \/ tasks' = Append(tasks, t),
           UNCHANGED <<history, pacerTasks, rtxQueue, lastRtx, nextSeq, sentCount>>
    PROVE  Spaced'
<1>1. CASE tasks' = tasks
  BY <1>1, NumbersKept DEF Spaced, NoneTwice, Reported, Sent, ToPut
<1>2. CASE tasks' = Append(tasks, t)
  <2>1. t.kind \notin Results /\ t.kind # "sent" /\ t.kind # "put"
    BY DEF Quietly, Results
  <2>. QED
    BY <1>2, <2>1, TaskPosted, NumbersKept DEF Spaced, NoneTwice
<1>. QED
  BY <1>1, <1>2

-----------------------------------------------------------------------------
LEMMA SendMediaSpaced ==
    ASSUME MaxPackets \in 0..SeqMod, VInv, SpInv, SendMedia
    PROVE  Spaced' /\ sentCount' \in Nat /\ sentCount' <= SeqMod
<1>. USE CapacityAssumption
<1>1. /\ stage = "run" /\ sentCount < MaxPackets /\ sentCount' = sentCount + 1
      /\ nextSeq' = SeqPlus(nextSeq, 1, SeqMod)
      /\ UNCHANGED <<history, pacerTasks, rtxQueue, lastRtx>>
      /\ tasks' = Append(tasks, Task("put", nextSeq))
  BY DEF SendMedia, PostHistory, history_shutdown
<1>2. Spaced /\ Types /\ Times
  BY <1>1 DEF SpInv, VInv
<1>3. sentCount \in Nat /\ sentCount < SeqMod /\ nextSeq \in SeqNums
  BY <1>1, <1>2 DEF Times, Types
<1>4. PICK t \in HistoryTasks : t.kind = "put" /\ t.seq = nextSeq /\ tasks' = Append(tasks, t)
  <2>1. "put" \in Kinds
    BY DEF Kinds
  <2>2. /\ Task("put", nextSeq) \in HistoryTasks /\ Task("put", nextSeq).kind = "put"
        /\ Task("put", nextSeq).seq = nextSeq
    BY <1>2, <1>3, <2>1, TaskType
  <2>. QED
    BY <1>1, <2>2
<1>5. Future(nextSeq)
  BY <1>3 DEF Future, ForwardDiff, SeqNums
<1>6. Fresh(nextSeq) /\ nextSeq \notin ToPut
  BY <1>2, <1>3, <1>5 DEF Spaced, Unused
<1>7. ASSUME NEW s \in SeqNums, Future(s)'
      PROVE  Future(s) /\ s # nextSeq
  <2>1. ForwardDiff(SeqPlus(nextSeq, 1, SeqMod), s, SeqMod) < SeqMod - (sentCount + 1)
    BY <1>1, <1>7 DEF Future
  <2>2. s \in Nat /\ s < SeqMod /\ nextSeq \in Nat /\ nextSeq < SeqMod
    BY <1>3 DEF SeqNums
  <2>. QED
    BY <1>3, <2>1, <2>2 DEF Future, ForwardDiff, SeqPlus
<1>8. /\ Reported' = Reported /\ Sent' = Sent /\ ToPut' = ToPut \cup {nextSeq}
      /\ Once(tasks', Results) /\ Once(tasks', {"sent"}) /\ Once(tasks', {"put"})
  <2>1. t.kind \notin Results /\ t.kind # "sent"
    BY <1>4 DEF Results
  <2>. QED
    BY <1>2, <1>4, <1>6, <2>1, TaskPosted DEF Spaced, NoneTwice
<1>9. Underway' = Underway /\ Copied' = Copied /\ Queued' = Queued /\ Stored(history)' = Stored(history)
  BY <1>1, <1>8 DEF Underway, Copied, Queued, Stored
<1>10. \A s : Fresh(s)' = Fresh(s)
  BY <1>1, <1>9 DEF Fresh
<1>11. Unused'
  BY <1>2, <1>6, <1>7, <1>8, <1>10 DEF Spaced, Unused
<1>12. NoneTwice'
  BY <1>1, <1>2, <1>8, <1>9 DEF Spaced, NoneTwice
<1>13. SlotsInv'
  BY <1>1, <1>2, <1>8, <1>9 DEF Spaced, SlotsInv, SlotInv
<1>. QED
  BY <1>1, <1>3, <1>11, <1>12, <1>13 DEF Spaced

LEMMA SendPaddingSpaced ==
    ASSUME MaxPackets \in 0..SeqMod, VInv, SpInv, SendPadding
    PROVE  Spaced' /\ sentCount' \in Nat /\ sentCount' <= SeqMod
<1>. USE CapacityAssumption
<1>1. /\ stage = "run" /\ sentCount < MaxPackets /\ sentCount' = sentCount + 1
      /\ nextSeq' = SeqPlus(nextSeq, 1, SeqMod)
      /\ UNCHANGED <<history, pacerTasks, rtxQueue, lastRtx, tasks>>
  BY DEF SendPadding
<1>2. Spaced /\ Types /\ Times
  BY <1>1 DEF SpInv, VInv
<1>3. sentCount \in Nat /\ sentCount < SeqMod /\ nextSeq \in SeqNums
  BY <1>1, <1>2 DEF Times, Types
<1>4. ASSUME NEW s \in SeqNums, Future(s)'
      PROVE  Future(s)
  <2>1. ForwardDiff(SeqPlus(nextSeq, 1, SeqMod), s, SeqMod) < SeqMod - (sentCount + 1)
    BY <1>1, <1>4 DEF Future
  <2>2. s \in Nat /\ s < SeqMod /\ nextSeq \in Nat /\ nextSeq < SeqMod
    BY <1>3 DEF SeqNums
  <2>. QED
    BY <1>3, <2>1, <2>2 DEF Future, ForwardDiff, SeqPlus
<1>5. /\ Underway' = Underway /\ ToPut' = ToPut /\ Sent' = Sent
      /\ Stored(history)' = Stored(history)
  BY <1>1 DEF Underway, Copied, Queued, Reported, Stored, ToPut, Sent
<1>6. Unused'
  BY <1>1, <1>2, <1>4, <1>5, UnusedKept DEF Spaced
<1>7. NoneTwice'
  BY <1>1, <1>2 DEF Spaced, NoneTwice, Copied, Queued, Reported
<1>8. SlotsInv'
  BY <1>1, <1>2, <1>5 DEF Spaced, SlotsInv, SlotInv
<1>. QED
  BY <1>1, <1>3, <1>6, <1>7, <1>8 DEF Spaced

\* A copy passes from the pacer's task queue to its packet queue, or is dropped.
LEMMA EnqueueRtxSpaced ==
    ASSUME VInv, Spaced, EnqueueRtx
    PROVE  Spaced'
<1>1. /\ UNCHANGED <<history, tasks, lastRtx, nextSeq, sentCount>>
      /\ pacerTasks # <<>> /\ pacerTasks' = Tail(pacerTasks)
  BY DEF EnqueueRtx
<1>2. PICK x : x = Head(pacerTasks) /\ x.kind = "rtx"
  BY DEF EnqueueRtx
<1>3. PICK q \in Seq(PacerTasks) : q = pacerTasks /\ q # <<>>
  BY <1>1 DEF VInv, Types
<1>4. PICK e : e = pacerTasks' /\ e = Tail(q)
  BY <1>1, <1>3
<1>5. /\ Nums(e, {"rtx"}) = Nums(q, {"rtx"}) \ {x.seq}
      /\ x.seq \in Nums(q, {"rtx"}) /\ Once(e, {"rtx"})
  <2>1. Once(q, {"rtx"}) /\ x = Head(q) /\ x.kind \in {"rtx"}
    BY <1>2, <1>3 DEF Spaced, NoneTwice
  <2>2. /\ x.kind \in {"rtx"} => Nums(e, {"rtx"}) = Nums(q, {"rtx"}) \ {x.seq} /\ x.seq \in Nums(q, {"rtx"})
        /\ Once(e, {"rtx"})
    <3>1. Once(q, {"rtx"})
      BY <2>1
    <3>2. x = Head(q)
      BY <2>1
    <3>3. e = Tail(q)
      BY <1>4
    <3>4. q # <<>>
      BY <1>3
    <3>. QED
      BY <3>1, <3>2, <3>3, <3>4, NumsTail, Zenon
  <2>. QED
    BY <2>1, <2>2
<1>6. /\ Copied' = Copied \ {x.seq} /\ x.seq \in Copied /\ Once(pacerTasks', {"rtx"})
  BY <1>3, <1>4, <1>5 DEF Copied
<1>7. x \in PacerTasks /\ x.kind \in AllKinds
  BY <1>2, <1>3, <1>4, TailFacts DEF AllKinds
<1>8. (Queued' = Queued \/ Queued' = Queued \cup {x.seq}) /\ Once(rtxQueue', AllKinds)
  <2>1. PICK r \in Seq(PacerTasks) : r = rtxQueue
    BY DEF VInv, Types
  <2>2. PICK w : w = rtxQueue' /\ (w = r \/ w = Append(r, x))
    BY <1>2, <2>1 DEF EnqueueRtx
  <2>3. x.seq \notin Nums(r, AllKinds) /\ Once(r, AllKinds)
    BY <1>6, <2>1 DEF Spaced, NoneTwice, Queued
  <2>4. CASE w = r
    BY <2>1, <2>2, <2>3, <2>4 DEF Queued
  <2>5. CASE w = Append(r, x)
    <3>1. Nums(w, AllKinds) = Nums(r, AllKinds) \cup {x.seq} /\ Once(w, AllKinds)
      <4>1. x \in PacerTasks
        BY <1>7
      <4>2. x.kind \in AllKinds => x.seq \notin Nums(r, AllKinds)
        BY <2>3
      <4>3. Once(r, AllKinds)
        BY <2>3
      <4>4. x.kind \in AllKinds => Nums(w, AllKinds) = Nums(r, AllKinds) \cup {x.seq}
        BY <2>5, <4>1, <4>2, <4>3, NumsAppend, Zenon
      <4>5. Once(w, AllKinds)
        BY <2>5, <4>1, <4>2, <4>3, NumsAppend, Zenon
      <4>. QED
        BY <1>7, <4>4, <4>5
    <3>. QED
      BY <2>1, <2>2, <3>1 DEF Queued
  <2>. QED
    BY <2>2, <2>4, <2>5
<1>9. Reported' = Reported /\ Sent' = Sent /\ ToPut' = ToPut /\ Stored(history)' = Stored(history)
  BY <1>1 DEF Reported, Sent, ToPut, Stored
<1>10. Underway' \subseteq Underway
  BY <1>6, <1>8, <1>9 DEF Underway
<1>11. NoneTwice'
  BY <1>1, <1>6, <1>8, <1>9 DEF Spaced, NoneTwice
<1>12. Unused'
  <2>1. \A s \in SeqNums : Future(s)' = Future(s)
    BY <1>1 DEF Future
  <2>. QED
    BY <1>1, <1>9, <1>10, <2>1, UnusedKept DEF Spaced
<1>13. SlotsInv'
  BY <1>1, <1>9, <1>10 DEF Spaced, SlotsInv, SlotInv
<1>. QED
  BY <1>11, <1>12, <1>13 DEF Spaced

\* The copy is sent or refused: what was in the packet queue is now a result.
LEMMA SendRtxSpaced ==
    ASSUME VInv, Times, Spaced, SendRtx
    PROVE  Spaced' /\ Times'
<1>1. /\ UNCHANGED <<history, pacerTasks, nextSeq, sentCount, rtt, clock>>
      /\ stage = "run" /\ rtxQueue # <<>> /\ rtxQueue' = Tail(rtxQueue)
  BY DEF SendRtx
<1>2. PICK q \in Seq(PacerTasks) : q = rtxQueue /\ q # <<>>
  BY <1>1 DEF VInv, Types
<1>3. PICK x : x = Head(q)
  OBVIOUS
<1>4. PICK e : e = rtxQueue' /\ e = Tail(q)
  BY <1>1, <1>2
<1>5. x \in PacerTasks /\ x.seq \in SeqNums /\ x.kind \in AllKinds
  <2>1. x \in PacerTasks
    BY <1>2, <1>3, <1>4, TailFacts
  <2>. QED
    BY <2>1 DEF PacerTasks, AllKinds
<1>6. PICK s \in SeqNums : s = x.seq
  BY <1>5
<1>7. Queued' = Queued \ {s} /\ s \in Queued /\ Once(rtxQueue', AllKinds)
  <2>1. /\ Nums(e, AllKinds) = Nums(q, AllKinds) \ {x.seq}
        /\ x.seq \in Nums(q, AllKinds) /\ Once(e, AllKinds)
    <3>1. Once(q, AllKinds)
      BY <1>2 DEF Spaced, NoneTwice
    <3>. QED
      BY <1>2, <1>3, <1>4, <1>5, <3>1, NumsTail, Zenon
  <2>. QED
    BY <1>2, <1>4, <1>6, <2>1 DEF Queued
<1>8. PICK k \in Results : /\ tasks' = Append(tasks, Task(k, s))
                           /\ k = "sent" => lastRtx' = [lastRtx EXCEPT ![s] = clock]
                           /\ k # "sent" => lastRtx' = lastRtx
  BY <1>1, <1>2, <1>3, <1>6 DEF SendRtx, PostHistory, history_shutdown, Results
<1>9. PICK t \in HistoryTasks : t.kind = k /\ t.seq = s /\ tasks' = Append(tasks, t)
  <2>1. k \in Kinds
    BY DEF Kinds, Results
  <2>2. Task(k, s) \in HistoryTasks /\ Task(k, s).kind = k /\ Task(k, s).seq = s
    BY <2>1, TaskType DEF VInv
  <2>. QED
    BY <1>8, <2>2
<1>10. s \notin Reported /\ s \notin Sent /\ s \notin Copied
  <2>1. Sent \subseteq Reported
    BY DEF Sent, Reported, Nums, Results
  <2>. QED
    BY <1>7, <2>1 DEF Spaced, NoneTwice
<1>11. /\ Reported' = Reported \cup {s} /\ ToPut' = ToPut
       /\ Sent' = IF k = "sent" THEN Sent \cup {s} ELSE Sent
       /\ Once(tasks', Results) /\ Once(tasks', {"sent"}) /\ Once(tasks', {"put"})
  <2>1. t.kind \in Results /\ t.kind # "put"
    BY <1>9 DEF Results
  <2>. QED
    BY <1>9, <1>10, <2>1, TaskPosted DEF Spaced, VInv
<1>12. Copied' = Copied /\ Stored(history)' = Stored(history)
  BY <1>1 DEF Copied, Stored
<1>13. Underway' = Underway /\ s \in Underway
  BY <1>7, <1>11, <1>12 DEF Underway
<1>14. /\ DOMAIN lastRtx' = SeqNums
       /\ \A r \in SeqNums : r # s => lastRtx'[r] = lastRtx[r]
       /\ lastRtx'[s] = IF k = "sent" THEN clock ELSE lastRtx[s]
  BY <1>8 DEF Times
<1>15. NoneTwice'
  BY <1>1, <1>7, <1>10, <1>11, <1>12 DEF Spaced, NoneTwice
<1>16. Unused'
  <2>1. \A r \in SeqNums : Fresh(r) => Fresh(r)'
    BY <1>12, <1>13, <1>14 DEF Fresh
  <2>2. \A r \in SeqNums : Future(r)' = Future(r)
    BY <1>1 DEF Future
  <2>3. ToPut \subseteq SeqNums
    BY DEF ToPut, Nums, VInv, Types, HistoryTasks
  <2>. QED
    BY <1>11, <2>1, <2>2, <2>3 DEF Spaced, Unused
<1>17. ASSUME NEW i \in 1..Len(history), history[i].held
       PROVE  SlotInv(history[i])'
  <2>1. history[i].seq \in SeqNums
    BY <1>17, SlotType DEF VInv, Types
  <2>2. SlotInv(history[i])
    BY <1>17 DEF Spaced, SlotsInv
  <2>3. CASE history[i].seq = s
    BY <1>1, <1>11, <1>13, <1>14, <2>2, <2>3 DEF SlotInv
  <2>4. CASE history[i].seq # s
    BY <1>1, <1>11, <1>13, <1>14, <2>1, <2>2, <2>4 DEF SlotInv
  <2>. QED
    BY <2>3, <2>4
<1>18. SlotsInv'
  BY <1>1, <1>17 DEF SlotsInv
<1>19. Times'
  <2>1. clock \in Nat
    BY DEF VInv, Types
  <2>. QED
    BY <1>1, <1>14, <2>1 DEF Times
<1>. QED
  BY <1>15, <1>16, <1>18, <1>19 DEF Spaced

\* The pacer takes a task that is no copy, or one is posted; a pause purges.
LEMMA ControlSpaced ==
    ASSUME VInv, Spaced, PauseVideo \/ ResumeVideo \/ SetVideoSendPaused, stage = "run"
    PROVE  Spaced'
<1>1. UNCHANGED <<history, lastRtx, nextSeq, sentCount>>
  BY DEF PauseVideo, ResumeVideo, SetVideoSendPaused
<1>2. PICK q \in Seq(PacerTasks) : q = pacerTasks
  BY DEF VInv, Types
<1>3. PICK e : e = pacerTasks'
  OBVIOUS
<1>4. Copied' = Copied /\ Once(pacerTasks', {"rtx"})
  <2>1. CASE PauseVideo \/ ResumeVideo
    <3>1. q # <<>> /\ e = Tail(q) /\ Head(q).kind # "rtx"
      BY <1>2, <1>3, <2>1 DEF PauseVideo, ResumeVideo
    <3>2. Nums(e, {"rtx"}) = Nums(q, {"rtx"}) /\ Once(e, {"rtx"})
      <4>1. Once(q, {"rtx"}) /\ Head(q).kind \notin {"rtx"}
        BY <1>2, <3>1 DEF Spaced, NoneTwice
      <4>. QED
        BY <3>1, <4>1, NumsTail, Zenon
    <3>. QED
      BY <1>2, <1>3, <3>2 DEF Copied
  <2>2. CASE SetVideoSendPaused
    <3>1. PICK t : t = [kind |-> IF apiPaused THEN "resume" ELSE "pause", seq |-> 0, epoch |-> 0]
      OBVIOUS
    <3>2. t \in PacerTasks /\ t.kind # "rtx"
      <4>1. 0 \in SeqNums
        BY CapacityAssumption DEF SeqNums
      <4>. QED
        BY <3>1, <4>1 DEF PacerTasks
    <3>3. e = Append(q, t)
      BY <1>2, <1>3, <2>2, <3>1 DEF SetVideoSendPaused
    <3>4. Nums(e, {"rtx"}) = Nums(q, {"rtx"}) /\ Once(e, {"rtx"})
      <4>1. Once(q, {"rtx"}) /\ t.kind \notin {"rtx"}
        BY <1>2, <3>2 DEF Spaced, NoneTwice
      <4>. QED
        BY <3>2, <3>3, <4>1, NumsAppend, Zenon
    <3>. QED
      BY <1>2, <1>3, <3>4 DEF Copied
  <2>. QED
    BY <2>1, <2>2
<1>5. Queued' \subseteq Queued /\ Once(rtxQueue', AllKinds)
  <2>1. rtxQueue' = rtxQueue \/ rtxQueue' = <<>>
    BY DEF PauseVideo, ResumeVideo, SetVideoSendPaused
  <2>. QED
    BY <2>1, NumsEmpty DEF Queued, Spaced, NoneTwice
<1>6. /\ Reported' = Reported /\ Sent' = Sent /\ ToPut' = ToPut
      /\ Once(tasks', Results) /\ Once(tasks', {"sent"}) /\ Once(tasks', {"put"})
  <2>1. CASE tasks' = tasks
    BY <2>1 DEF Reported, Sent, ToPut, Spaced, NoneTwice
  <2>2. CASE tasks' # tasks
    <3>1. tasks' = Append(tasks, Task("clear", 0))
      BY <2>2 DEF PauseVideo, ResumeVideo, SetVideoSendPaused, ResetSendState, PostHistory
    <3>2. PICK t \in HistoryTasks : t.kind = "clear" /\ tasks' = Append(tasks, t)
      <4>1. "clear" \in Kinds /\ 0 \in SeqNums
        BY CapacityAssumption DEF Kinds, SeqNums
      <4>2. Task("clear", 0) \in HistoryTasks /\ Task("clear", 0).kind = "clear"
        BY <4>1, TaskType DEF VInv
      <4>. QED
        BY <3>1, <4>2
    <3>3. t.kind \notin Results
      BY <3>2 DEF Results
    <3>. QED
      BY <3>2, <3>3, TaskPosted DEF VInv, Spaced, NoneTwice
  <2>. QED
    BY <2>1, <2>2
<1>7. Underway' \subseteq Underway /\ Stored(history)' = Stored(history)
  BY <1>1, <1>4, <1>5, <1>6 DEF Underway, Stored
<1>8. NoneTwice'
  BY <1>4, <1>5, <1>6 DEF Spaced, NoneTwice
<1>9. Unused'
  <2>1. \A s \in SeqNums : Future(s)' = Future(s)
    BY <1>1 DEF Future
  <2>. QED
    BY <1>1, <1>6, <1>7, <2>1, UnusedKept DEF Spaced
<1>10. SlotsInv'
  BY <1>1, <1>6, <1>7 DEF Spaced, SlotsInv, SlotInv
<1>. QED
  BY <1>8, <1>9, <1>10 DEF Spaced

-----------------------------------------------------------------------------
(***************************************************************************)
(* The history worker.                                                     *)
(***************************************************************************)
\* Every packet of d is one of the history, or p.
StemsFrom(d, p) ==
    \A j \in 1..Len(d) : d[j].held => d[j] = p \/ \E i \in 1..Len(history) : d[j] = history[i]

\* A packet is put, packets are dropped, or nothing happens to the packets.
LEMMA TakenSpaced ==
    ASSUME Types, Spaced, tasks # <<>>, tasks' = Tail(tasks), NEW t, t = Head(tasks),
           t.kind \notin Results, NEW p, NEW d, d = history', StemsFrom(d, p),
           \/ ~p.held
           \/ t.kind = "put" /\ p.seq = t.seq,
           UNCHANGED <<pacerTasks, rtxQueue, lastRtx, nextSeq, sentCount>>
    PROVE  Spaced'
<1>1. /\ Reported' = Reported /\ Sent' = Sent
      /\ t.kind = "put" => ToPut' = ToPut \ {t.seq} /\ t.seq \in ToPut
      /\ t.kind # "put" => ToPut' = ToPut
      /\ Once(tasks', Results) /\ Once(tasks', {"sent"}) /\ Once(tasks', {"put"})
  <2>1. t.kind # "sent"
    BY DEF Results
  <2>. QED
    BY <2>1, TaskTaken DEF Spaced
<1>2. Copied' = Copied /\ Queued' = Queued
  BY DEF Copied, Queued
<1>3. Underway' = Underway
  BY <1>1, <1>2 DEF Underway
<1>4. NoneTwice'
  BY <1>1, <1>2 DEF Spaced, NoneTwice
<1>5. Stored(d) \subseteq Stored(history) \cup (IF p.held THEN {t.seq} ELSE {})
  <2>. SUFFICES ASSUME NEW j \in 1..Len(d), d[j].held
       PROVE  d[j].seq \in Stored(history) \cup (IF p.held THEN {t.seq} ELSE {})
    BY DEF Stored
  <2>1. CASE d[j] = p
    BY <2>1
  <2>2. CASE \E i \in 1..Len(history) : d[j] = history[i]
    BY <2>2 DEF Stored
  <2>. QED
    BY <2>1, <2>2 DEF StemsFrom
<1>6. \A s : Fresh(s) /\ (p.held => s # t.seq) => Fresh(s)'
  BY <1>3, <1>5 DEF Fresh
<1>7. \A s \in SeqNums : Future(s)' = Future(s)
  BY DEF Future
<1>8. Unused'
  <2>1. \A s \in ToPut' : s \in ToPut /\ (p.held => s # t.seq)
    BY <1>1
  <2>2. \A s \in SeqNums : s \notin ToPut => s \notin ToPut' /\ (p.held => s # t.seq)
    BY <1>1
  <2>. QED
    BY <1>6, <1>7, <2>1, <2>2 DEF Spaced, Unused
<1>9. ASSUME NEW j \in 1..Len(d), d[j].held
      PROVE  SlotInv(d[j])'
  <2>1. CASE \E i \in 1..Len(history) : d[j] = history[i]
    <3>1. SlotInv(d[j])
      BY <1>9, <2>1 DEF Spaced, SlotsInv
    <3>. QED
      BY <1>1, <1>3, <3>1 DEF SlotInv
  <2>2. CASE d[j] = p
    <3>1. t.kind = "put" /\ p.seq = t.seq
      BY <1>9, <2>2
    <3>2. Fresh(p.seq)
      BY <1>1, <3>1 DEF Spaced, Unused
    <3>. QED
      BY <1>3, <2>2, <3>2 DEF SlotInv, Fresh
  <2>. QED
    BY <1>9, <2>1, <2>2 DEF StemsFrom
<1>10. SlotsInv'
  BY <1>9 DEF SlotsInv
<1>. QED
  BY <1>4, <1>8, <1>10 DEF Spaced

\* A result is recorded: the packet of its number is as before but for the mark,
\* and, when it was sent, the time.
LEMMA RecordedSpaced ==
    ASSUME Types, Times, Spaced, DequeOf(history), tasks # <<>>, tasks' = Tail(tasks),
           NEW t \in HistoryTasks, t = Head(tasks), t.kind \in Results,
           \/ MarkPacketAsSent(t.seq) /\ t.kind = "sent"
           \/ MarkPacketAsAborted(t.seq) /\ t.kind = "aborted",
           UNCHANGED <<pacerTasks, rtxQueue, lastRtx, nextSeq, sentCount>>
    PROVE  Spaced'
<1>1. PICK s \in SeqNums : s = t.seq
  BY DEF HistoryTasks, Results
<1>2. /\ Reported' = Reported \ {s} /\ s \in Reported /\ ToPut' = ToPut
      /\ t.kind = "sent" => Sent' = Sent \ {s}
      /\ t.kind # "sent" => Sent' = Sent
      /\ Once(tasks', Results) /\ Once(tasks', {"sent"}) /\ Once(tasks', {"put"})
  <2>1. t.kind # "put"
    BY DEF Results
  <2>. QED
    BY <1>1, <2>1, TaskTaken DEF Spaced
<1>3. Copied' = Copied /\ Queued' = Queued
  BY DEF Copied, Queued
<1>4. Underway' \subseteq Underway /\ s \notin Underway'
  BY <1>2, <1>3 DEF Underway, Spaced, NoneTwice
<1>5. NoneTwice'
  BY <1>2, <1>3 DEF Spaced, NoneTwice
<1>6. PICK h \in Seq(Slots) : h = history /\ Window(h) /\ Len(h) <= MaxCapacity
  BY DEF DequeOf
<1>7. PICK i : i = GetStoredPacket(h, s)
  OBVIOUS
<1>8. i \in 0..Len(h) /\ (i # 0 => h[i].held /\ h[i].seq = s)
  BY <1>6, <1>7, FoundSound
<1>9. \A j \in 1..Len(h) : h[j].held /\ h[j].seq = s => j = i
  BY <1>6, <1>7, FoundComplete
<1>10. PICK d : d = history'
  OBVIOUS
<1>11. /\ Len(d) = Len(h)
       /\ \A j \in 1..Len(h) : j # i => d[j] = h[j]
       /\ i # 0 => /\ d[i].held = h[i].held /\ d[i].seq = h[i].seq
                   /\ t.kind = "sent" => d[i].resent /\ d[i].at = clock
                   /\ t.kind # "sent" => d[i].resent = h[i].resent /\ d[i].at = h[i].at
  <2>1. CASE i = 0
    <3>1. d = h
      BY <1>1, <1>6, <1>7, <1>10, <2>1 DEF MarkPacketAsSent, MarkPacketAsAborted
    <3>. QED
      BY <2>1, <3>1
  <2>2. CASE i # 0
    <3>1. i \in 1..Len(h)
      BY <1>8, <2>2
    <3>2. PICK x \in Slots : x = h[i]
      BY <3>1, SlotType
    <3>3. PICK y \in Slots : /\ y.held = x.held /\ y.seq = x.seq
                             /\ t.kind = "sent" => y.resent /\ y.at = clock
                             /\ t.kind # "sent" => y.resent = x.resent /\ y.at = x.at
                             /\ d = With(h, i, y)
      <4>1. CASE t.kind = "sent"
        <5>1. PICK y : y = [x EXCEPT !.at = clock, !.pending = FALSE, !.resent = TRUE]
          OBVIOUS
        <5>2. y \in Slots /\ y.held = x.held /\ y.seq = x.seq /\ y.resent /\ y.at = clock
          BY <5>1 DEF Slots, Types
        <5>3. d = [h EXCEPT ![i].at = clock, ![i].pending = FALSE, ![i].resent = TRUE]
          BY <1>1, <1>6, <1>7, <1>10, <2>2, <4>1 DEF MarkPacketAsSent
        <5>4. d = With(h, i, y)
          BY <3>1, <3>2, <5>1, <5>3 DEF With
        <5>. QED
          BY <4>1, <5>2, <5>4
      <4>2. CASE t.kind = "aborted"
        <5>1. PICK y : y = [x EXCEPT !.pending = FALSE]
          OBVIOUS
        <5>2. y \in Slots /\ y.held = x.held /\ y.seq = x.seq /\ y.resent = x.resent /\ y.at = x.at
          BY <5>1 DEF Slots
        <5>3. d = [h EXCEPT ![i].pending = FALSE]
          BY <1>1, <1>6, <1>7, <1>10, <2>2, <4>2 DEF MarkPacketAsAborted
        <5>4. d = With(h, i, y)
          BY <3>1, <3>2, <5>1, <5>3 DEF With
        <5>. QED
          BY <4>2, <5>2, <5>4
      <4>. QED
        BY <4>1, <4>2
    <3>4. y.held = h[i].held /\ y.seq = h[i].seq /\ d = With(h, i, y)
      BY <3>2, <3>3
    <3>5. Len(d) = Len(h) /\ d[i] = y /\ \A j \in 1..Len(h) \ {i} : d[j] = h[j]
      BY <1>6, <3>1, <3>4, ReplaceSlot
    <3>6. \A j \in 1..Len(h) : j # i => d[j] = h[j]
      BY <3>5
    <3>7. /\ t.kind = "sent" => d[i].resent /\ d[i].at = clock
          /\ t.kind # "sent" => d[i].resent = h[i].resent /\ d[i].at = h[i].at
      BY <3>2, <3>3, <3>5
    <3>. QED
      BY <3>4, <3>5, <3>6, <3>7
  <2>. QED
    BY <2>1, <2>2
<1>12. Stored(d) \subseteq Stored(h)
  <2>1. \A j \in 1..Len(d) : j \in 1..Len(h) /\ d[j].held = h[j].held /\ d[j].seq = h[j].seq
    BY <1>8, <1>11
  <2>. QED
    BY <2>1 DEF Stored
<1>13. Unused'
  <2>1. \A r \in SeqNums : Future(r)' = Future(r)
    BY DEF Future
  <2>. QED
    BY <1>2, <1>4, <1>6, <1>10, <1>12, <2>1, UnusedKept DEF Spaced
<1>14. ASSUME NEW j \in 1..Len(d), d[j].held
       PROVE  SlotInv(d[j])'
  <2>1. j \in 1..Len(h)
    BY <1>11
  <2>2. CASE j # i
    <3>1. d[j] = h[j] /\ h[j].held
      BY <1>11, <1>14, <2>1, <2>2
    <3>2. SlotInv(d[j])
      BY <1>6, <2>1, <3>1 DEF Spaced, SlotsInv
    <3>3. d[j].seq # s
      BY <1>9, <2>1, <2>2, <3>1
    <3>. QED
      BY <1>2, <1>4, <3>2, <3>3 DEF SlotInv
  <2>3. CASE j = i
    <3>1. d[j].seq = s /\ h[j].held /\ h[j].seq = s
      BY <1>8, <1>11, <2>1, <2>3
    <3>2. CASE t.kind = "sent"
      <4>1. d[j].resent /\ d[j].at = clock
        BY <1>11, <2>1, <2>3, <3>2
      <4>2. lastRtx[s] = Never \/ clock >= lastRtx[s]
        BY DEF Times, Types
      <4>. QED
        BY <1>4, <3>1, <4>1, <4>2 DEF SlotInv
    <3>3. CASE t.kind # "sent"
      <4>1. d[j].resent = h[j].resent /\ d[j].at = h[j].at
        BY <1>11, <2>1, <2>3, <3>3
      <4>2. SlotInv(h[j])
        BY <1>6, <2>1, <3>1 DEF Spaced, SlotsInv
      <4>3. s \notin Sent
        <5>1. PICK q \in Seq(HistoryTasks) : q = tasks /\ q # <<>>
          BY DEF Types
        <5>2. t = q[1] /\ 1 \in 1..Len(q)
          <6>1. PICK e : e = Tail(q)
            OBVIOUS
          <6>. QED
            BY <5>1, <6>1, TailFacts
        <5>3. ASSUME NEW k \in 1..Len(q), q[k].kind = "sent", q[k].seq = s
              PROVE  FALSE
          <6>1. q[k].kind \in Results /\ q[1].kind \in Results /\ q[k].seq = q[1].seq
            BY <1>1, <5>2, <5>3 DEF Results
          <6>2. k = 1
            BY <5>1, <5>2, <6>1 DEF Spaced, NoneTwice, Once
          <6>. QED
            BY <3>3, <5>2, <5>3, <6>2
        <5>. QED
          BY <5>1, <5>3 DEF Sent, Nums
      <4>. QED
        BY <1>4, <3>1, <4>1, <4>2, <4>3 DEF SlotInv
    <3>. QED
      BY <3>2, <3>3
  <2>. QED
    BY <2>2, <2>3
<1>15. SlotsInv'
  BY <1>10, <1>14 DEF SlotsInv
<1>. QED
  BY <1>5, <1>13, <1>15 DEF Spaced

LEMMA RunTaskSpaced ==
    ASSUME VInv, Times, Spaced, RunTask
    PROVE  Spaced'
<1>1. PICK t : t = Head(tasks)
  OBVIOUS
<1>2. PICK d : d = history'
  OBVIOUS
<1>3. tasks \in Seq(HistoryTasks) /\ tasks # <<>> /\ tasks' = Tail(tasks)
  BY DEF RunTask, VInv, Types
<1>4. t \in HistoryTasks
  <2>1. PICK e : e = Tail(tasks)
    OBVIOUS
  <2>. QED
    BY <1>1, <1>3, <2>1, TailFacts
<1>5. PICK h \in Seq(Slots) : h = history /\ Window(h) /\ Len(h) <= MaxCapacity /\ Len(h) <= SeqMod
  BY WindowIsDeque, ShortDeque DEF VInv, DequeOf
<1>6. UNCHANGED <<pacerTasks, rtxQueue, lastRtx, nextSeq, sentCount>>
  BY DEF RunTask
<1>7. PICK o : o = Hole /\ ~o.held
  <2>1. ~Hole.held
    BY DEF Hole
  <2>. QED
    BY <2>1
<1>8. CASE t.kind = "put" /\ d = PutRtpPacket(history, Slot(t.seq, t.epoch))
  <2>1. PICK p : p = Slot(t.seq, t.epoch)
    OBVIOUS
  <2>2. p \in Slots /\ p.held /\ p.seq = t.seq
    BY <1>4, <1>8, <2>1 DEF Slot, Slots, HistoryTasks, VInv, Types
  <2>3. From2(h, d, p)
    BY <1>5, <1>8, <2>1, <2>2, PutFacts
  <2>4. StemsFrom(d, p)
    BY <1>5, <2>3 DEF StemsFrom, From2
  <2>5. t.kind \notin Results
    BY <1>8 DEF Results
  <2>. QED
    BY <1>1, <1>2, <1>3, <1>6, <1>8, <2>2, <2>4, <2>5, TakenSpaced DEF VInv
<1>9. CASE \/ MarkPacketAsSent(t.seq) /\ t.kind = "sent"
           \/ MarkPacketAsAborted(t.seq) /\ t.kind = "aborted"
  <2>1. DequeOf(history) /\ Types
    BY WindowIsDeque DEF VInv
  <2>2. t.kind \in Results
    BY <1>9 DEF Results
  <2>. QED
    BY <1>1, <1>3, <1>4, <1>6, <1>9, <2>1, <2>2, RecordedSpaced
<1>10. CASE t.kind = "clear" /\ d = <<>>
  <2>1. StemsFrom(d, o)
    BY <1>10 DEF StemsFrom
  <2>2. t.kind \notin Results
    BY <1>10 DEF Results
  <2>. QED
    BY <1>1, <1>2, <1>3, <1>6, <1>7, <2>1, <2>2, TakenSpaced DEF VInv
<1>11. CASE t.kind = "rtt" /\ (d = history \/ d = RemoveDeadPackets(history, t.seq))
  <2>1. StemsFrom(d, o)
    <3>1. CASE d = history
      BY <3>1 DEF StemsFrom
    <3>2. CASE d = RemoveDeadPackets(history, t.seq)
      <4>1. From2(h, d, o)
        BY <1>5, <3>2, RemoveDeadFacts
      <4>. QED
        BY <1>5, <4>1 DEF StemsFrom, From2
    <3>. QED
      BY <1>11, <3>1, <3>2
  <2>2. t.kind \notin Results
    BY <1>11 DEF Results
  <2>. QED
    BY <1>1, <1>2, <1>3, <1>6, <1>7, <2>1, <2>2, TakenSpaced DEF VInv
<1>12. \/ t.kind = "put" /\ d = PutRtpPacket(history, Slot(t.seq, t.epoch))
       \/ MarkPacketAsSent(t.seq) /\ t.kind = "sent"
       \/ MarkPacketAsAborted(t.seq) /\ t.kind = "aborted"
       \/ t.kind = "clear" /\ d = <<>>
       \/ t.kind = "rtt" /\ (d = history \/ d = RemoveDeadPackets(history, t.seq))
  BY <1>1, <1>2, Zenon DEF RunTask
<1>. QED
  BY <1>8, <1>9, <1>10, <1>11, <1>12

\* The packet is marked and its copy is posted to the pacer: nothing of that
\* number was on its way.
LEMMA ResendSpaced ==
    ASSUME VInv, Spaced, Resend
    PROVE  Spaced'
<1>1. DequeOf(history) /\ Types
  BY WindowIsDeque DEF VInv
<1>2. UNCHANGED <<tasks, rtxQueue, lastRtx, nextSeq, sentCount>>
  BY DEF Resend
<1>3. CASE UNCHANGED <<history, pacerTasks>>
  BY <1>2, <1>3, NumbersKept DEF Spaced, NoneTwice, Reported, Sent, ToPut
<1>4. CASE ~UNCHANGED <<history, pacerTasks>>
  <2>1. PICK s \in worker.batch : ReSendPacket(s)
    BY <1>4 DEF Resend
  <2>2. PICK h \in Seq(Slots) : h = history /\ Window(h) /\ Len(h) <= MaxCapacity
    BY <1>1 DEF DequeOf
  <2>3. s \in SeqNums
    BY <1>1 DEF Types
  <2>4. PICK i : i = GetStoredPacket(h, s)
    OBVIOUS
  <2>5. /\ Resendable(i)
        /\ history' = [history EXCEPT ![i].pending = TRUE]
        /\ pacerTasks' = Append(pacerTasks, [kind |-> "rtx", seq |-> history[i].seq,
                                              epoch |-> history[i].epoch])
    BY <1>4, <2>1, <2>2, <2>4 DEF ReSendPacket
  <2>6. i \in 1..Len(h) /\ h[i].held /\ h[i].seq = s /\ ~h[i].pending
    <3>1. i \in 0..Len(h) /\ (i # 0 => h[i].held /\ h[i].seq = s)
      BY <2>2, <2>3, <2>4, FoundSound
    <3>. QED
      BY <2>2, <2>5, <3>1 DEF Resendable
  <2>7. \A j \in 1..Len(h) : h[j].held /\ h[j].seq = s => j = i
    BY <2>2, <2>4, FoundComplete
  <2>8. SlotInv(h[i])
    BY <2>2, <2>6 DEF Spaced, SlotsInv
  <2>9. s \notin Underway /\ s \in Stored(h)
    BY <2>6, <2>8 DEF SlotInv, Stored
  <2>10. PICK d : d = history'
    OBVIOUS
  <2>11. PICK x \in Slots : x = h[i]
    BY <2>6, SlotType
  <2>12. PICK y \in Slots : /\ y = [x EXCEPT !.pending = TRUE]
                            /\ y.held = x.held /\ y.seq = x.seq /\ y.pending
                            /\ y.resent = x.resent /\ y.at = x.at
    <3>1. PICK y : y = [x EXCEPT !.pending = TRUE]
      OBVIOUS
    <3>2. /\ y \in Slots /\ y.held = x.held /\ y.seq = x.seq /\ y.pending
          /\ y.resent = x.resent /\ y.at = x.at
      BY <3>1 DEF Slots
    <3>. QED
      BY <3>1, <3>2
  <2>13. d = With(h, i, y)
    <3>1. d = [h EXCEPT ![i].pending = TRUE]
      BY <2>2, <2>5, <2>10
    <3>. QED
      BY <2>6, <2>11, <2>12, <3>1 DEF With
  <2>14. Len(d) = Len(h) /\ d[i] = y /\ \A j \in 1..Len(h) \ {i} : d[j] = h[j]
    <3>1. Window(h) /\ i \in 1..Len(h)
      BY <2>2, <2>6
    <3>2. y.held = h[i].held /\ y.seq = h[i].seq
      BY <2>11, <2>12
    <3>. QED
      BY <2>13, <3>1, <3>2, ReplaceSlot
  <2>15. PICK t \in PacerTasks : t.kind = "rtx" /\ t.seq = s /\ pacerTasks' = Append(pacerTasks, t)
    <3>1. PICK t : t = [kind |-> "rtx", seq |-> x.seq, epoch |-> x.epoch]
      OBVIOUS
    <3>2. t \in PacerTasks /\ t.kind = "rtx" /\ t.seq = x.seq
      BY <3>1 DEF PacerTasks, Slots
    <3>. QED
      BY <2>2, <2>5, <2>6, <2>11, <3>1, <3>2
  <2>16. Copied' = Copied \cup {s} /\ Once(pacerTasks', {"rtx"})
    <3>1. PICK q \in Seq(PacerTasks) : q = pacerTasks
      BY <1>1 DEF Types
    <3>2. PICK e : e = pacerTasks' /\ e = Append(q, t)
      BY <2>15, <3>1
    <3>3. Once(q, {"rtx"}) /\ t.seq \notin Nums(q, {"rtx"})
      BY <2>9, <2>15, <3>1 DEF Spaced, NoneTwice, Underway, Copied
    <3>4. t.kind \in {"rtx"} => t.seq \notin Nums(q, {"rtx"})
      BY <3>3
    <3>5. Once(q, {"rtx"})
      BY <3>3
    <3>6. e = Append(q, t)
      BY <3>2
    <3>7. (t.kind \in {"rtx"} => Nums(e, {"rtx"}) = Nums(q, {"rtx"}) \cup {t.seq}) /\ Once(e, {"rtx"})
      BY <3>4, <3>5, <3>6, NumsAppend, Zenon
    <3>. QED
      BY <2>15, <3>1, <3>2, <3>7 DEF Copied
  <2>17. Queued' = Queued /\ Reported' = Reported /\ Sent' = Sent /\ ToPut' = ToPut
    BY <1>2 DEF Queued, Reported, Sent, ToPut
  <2>18. Underway' = Underway \cup {s}
    BY <2>16, <2>17 DEF Underway
  <2>19. NoneTwice'
    BY <1>2, <2>9, <2>16, <2>17 DEF Spaced, NoneTwice, Underway
  <2>20. \A j \in 1..Len(d) : j \in 1..Len(h) /\ d[j].held = h[j].held /\ d[j].seq = h[j].seq
    BY <2>11, <2>12, <2>14
  <2>21. Stored(d) \subseteq Stored(h)
    BY <2>20 DEF Stored
  <2>22. Unused'
    <3>1. \A r : Fresh(r) => Fresh(r)'
      BY <1>2, <2>2, <2>9, <2>10, <2>18, <2>21 DEF Fresh
    <3>2. \A r \in SeqNums : Future(r)' = Future(r)
      BY <1>2 DEF Future
    <3>. QED
      BY <2>17, <3>1, <3>2 DEF Spaced, Unused
  <2>23. ASSUME NEW j \in 1..Len(d), d[j].held
         PROVE  SlotInv(d[j])'
    <3>1. CASE j = i
      BY <1>2, <2>8, <2>11, <2>12, <2>14, <2>17, <3>1 DEF SlotInv
    <3>2. CASE j # i
      <4>1. j \in 1..Len(h) /\ d[j] = h[j] /\ h[j].held
        BY <2>14, <2>23, <3>2
      <4>2. SlotInv(d[j]) /\ d[j].seq # s
        BY <2>2, <2>7, <3>2, <4>1 DEF Spaced, SlotsInv
      <4>. QED
        BY <1>2, <2>17, <2>18, <4>2 DEF SlotInv
    <3>. QED
      BY <3>1, <3>2
  <2>24. SlotsInv'
    BY <2>10, <2>23 DEF SlotsInv
  <2>. QED
    BY <2>19, <2>22, <2>24 DEF Spaced
<1>. QED
  BY <1>3, <1>4

-----------------------------------------------------------------------------
LEMMA TimesKept ==
    ASSUME Times, Types, UNCHANGED <<rtt, sentCount, lastRtx>>, clock' \in {clock, clock + 1}
    PROVE  Times'
<1>1. clock \in Nat /\ clock' \in Nat /\ clock' >= clock
  BY DEF Types
<1>. QED
  BY <1>1 DEF Times

LEMMA RunTaskTimes ==
    ASSUME Times, Types, RunTask
    PROVE  Times'
<1>1. UNCHANGED <<sentCount, lastRtx, clock>>
  BY DEF RunTask
<1>2. rtt' \in Nat
  <2>1. PICK q \in Seq(HistoryTasks) : q = tasks /\ q # <<>>
    BY DEF Types, RunTask
  <2>2. PICK t \in HistoryTasks : t = Head(q)
    BY <2>1
  <2>3. t.seq \in SeqNums \cup Rtts
    BY DEF HistoryTasks
  <2>4. t.seq \in Nat
    <3>1. SeqNums \subseteq Nat
      BY CapacityAssumption DEF SeqNums
    <3>2. Rtts \subseteq Nat
      BY RttAssumption
    <3>. QED
      BY <2>3, <3>1, <3>2
  <2>5. rtt' = rtt \/ rtt' = t.seq
    BY <2>1, <2>2 DEF RunTask
  <2>. QED
    BY <2>4, <2>5 DEF Times
<1>. QED
  BY <1>1, <1>2 DEF Times

LEMMA PosterSpaced ==
    ASSUME VInv, Spaced, FinishNacks \/ PostNackTask \/ OnRttUpdate
    PROVE  Spaced'
<1>1. UNCHANGED <<history, pacerTasks, rtxQueue, lastRtx, nextSeq, sentCount>>
  BY DEF FinishNacks, PostNackTask, OnRttUpdate
<1>2. 0 \in SeqNums /\ Types
  BY CapacityAssumption DEF SeqNums, VInv
<1>3. \E t \in HistoryTasks : t.kind \in Quietly /\ (tasks' = tasks \/ tasks' = Append(tasks, t))
  <2>1. CASE FinishNacks \/ PostNackTask
    <3>1. PICK t : t = Task("nacks", 0)
      OBVIOUS
    <3>2. t \in HistoryTasks /\ t.kind = "nacks"
      BY <1>2, <3>1, TaskType DEF Kinds
    <3>. QED
      BY <2>1, <3>1, <3>2 DEF FinishNacks, PostNackTask, Quietly
  <2>2. CASE OnRttUpdate
    <3>1. PICK r \in Rtts : PostHistory(Task("rtt", r))
      BY <2>2 DEF OnRttUpdate
    <3>2. PICK t : t = Task("rtt", r)
      OBVIOUS
    <3>3. t \in HistoryTasks /\ t.kind = "rtt"
      BY <1>2, <3>2, TaskType DEF Kinds
    <3>. QED
      BY <3>1, <3>2, <3>3 DEF PostHistory, Quietly
  <2>. QED
    BY <2>1, <2>2
<1>. QED
  BY <1>1, <1>2, <1>3, PostedQuietly

LEMMA ProcessSpaced ==
    ASSUME VInv, Spaced, ProcessPendingNacks
    PROVE  Spaced'
<1>1. UNCHANGED <<history, pacerTasks, rtxQueue, lastRtx, nextSeq, sentCount>>
  BY DEF ProcessPendingNacks
<1>2. tasks # <<>> /\ tasks' = Tail(tasks)
  BY DEF ProcessPendingNacks
<1>3. PICK t : t = Head(tasks) /\ t.kind = "nacks"
  BY DEF ProcessPendingNacks
<1>4. t.kind \notin Results /\ t.kind # "sent" /\ t.kind # "put"
  BY <1>3 DEF Results
<1>5. /\ UNCHANGED <<Reported, Sent, ToPut>>
      /\ Once(tasks', Results) /\ Once(tasks', {"sent"}) /\ Once(tasks', {"put"})
  <2>1. Types /\ NoneTwice /\ t = Head(tasks)
    BY <1>3 DEF VInv, Spaced
  <2>. QED
    BY <1>2, <1>4, <2>1, TaskTaken
<1>. QED
  BY <1>1, <1>5, NumbersKept

LEMMA NextSpaced ==
    ASSUME MaxPackets \in 0..SeqMod, VInv, SpInv, [VcsNext]_vcsVars
    PROVE  SpInv'
<1>. USE DEF SpInv
<1>1. Times /\ Types
  BY DEF VInv
<1>2. CASE RunTask
  <2>1. stage' = stage
    BY <1>2 DEF RunTask
  <2>. QED
    BY <1>1, <1>2, <2>1, RunTaskSpaced, RunTaskTimes
<1>3. CASE Resend
  <2>1. UNCHANGED <<stage, clock, rtt, sentCount, lastRtx>>
    BY <1>3 DEF Resend
  <2>. QED
    BY <1>1, <1>3, <2>1, ResendSpaced, TimesKept
<1>4. CASE ProcessPendingNacks
  <2>1. UNCHANGED <<stage, clock, rtt, sentCount, lastRtx>>
    BY <1>4 DEF ProcessPendingNacks
  <2>. QED
    BY <1>1, <1>4, <2>1, ProcessSpaced, TimesKept
<1>5. CASE FinishNacks \/ PostNackTask \/ OnRttUpdate
  <2>1. UNCHANGED <<stage, clock, rtt, sentCount, lastRtx>>
    BY <1>5 DEF FinishNacks, PostNackTask, OnRttUpdate
  <2>. QED
    BY <1>1, <1>5, <2>1, PosterSpaced, TimesKept
<1>6. CASE SendRtx
  <2>1. stage' = stage /\ stage = "run"
    BY <1>6 DEF SendRtx
  <2>. QED
    BY <1>1, <1>6, <2>1, SendRtxSpaced
<1>7. CASE EnqueueRtx
  <2>1. UNCHANGED <<stage, clock, rtt, sentCount, lastRtx>>
    BY <1>7 DEF EnqueueRtx
  <2>. QED
    BY <1>1, <1>7, <2>1, EnqueueRtxSpaced, TimesKept
<1>8. CASE PauseVideo \/ ResumeVideo \/ SetVideoSendPaused
  <2>1. UNCHANGED <<stage, clock, rtt, sentCount, lastRtx>>
    BY <1>8 DEF PauseVideo, ResumeVideo, SetVideoSendPaused
  <2>. QED
    BY <1>1, <1>8, <2>1, ControlSpaced, TimesKept
<1>9. CASE SendMedia \/ SendPadding
  <2>1. UNCHANGED <<clock, rtt, lastRtx>>
    BY <1>9 DEF SendMedia, SendPadding
  <2>2. Spaced' /\ sentCount' \in Nat /\ sentCount' <= SeqMod
    BY <1>9, SendMediaSpaced, SendPaddingSpaced
  <2>3. Times'
    BY <1>1, <2>1, <2>2 DEF Times
  <2>. QED
    BY <2>2, <2>3
<1>10. CASE Destroy
  <2>1. UNCHANGED <<clock, rtt, sentCount, lastRtx>> /\ stage' # "run"
    BY <1>10 DEF Destroy
  <2>. QED
    BY <1>1, <2>1, TimesKept
<1>11. CASE OnReceiveNack \/ PassTime \/ UNCHANGED vcsVars
  <2>1. /\ UNCHANGED <<history, tasks, pacerTasks, rtxQueue, lastRtx, nextSeq, sentCount, stage, rtt>>
        /\ clock' \in {clock, clock + 1}
    BY <1>11 DEF OnReceiveNack, PassTime, vcsVars
  <2>2. stage' = "run" => Spaced'
    BY <2>1, NumbersKept DEF Spaced, NoneTwice, Reported, Sent, ToPut
  <2>. QED
    BY <1>1, <2>1, <2>2, TimesKept
<1>. QED
  BY <1>2, <1>3, <1>4, <1>5, <1>6, <1>7, <1>8, <1>9, <1>10, <1>11
     DEF VcsNext, HistoryStep, PacerStep, Destroyed

\* A copy is only ever posted of a packet whose last retransmission is a
\* round-trip time ago.
LEMMA SpacedStep ==
    ASSUME VInv, SpInv, [VcsNext]_vcsVars, NEW s \in SeqNums,
           Len(pacerTasks') > Len(pacerTasks),
           pacerTasks'[Len(pacerTasks')].kind = "rtx",
           pacerTasks'[Len(pacerTasks')].seq = s
    PROVE  lastRtx[s] = Never \/ clock - lastRtx[s] >= rtt
<1>1. PICK q \in Seq(PacerTasks) : q = pacerTasks
  BY DEF VInv, Types
<1>2. Resend \/ SetVideoSendPaused
  <2>1. pacerTasks' # pacerTasks /\ ~(pacerTasks # <<>> /\ pacerTasks' = Tail(pacerTasks))
    <3>1. ASSUME pacerTasks # <<>>, pacerTasks' = Tail(pacerTasks) PROVE FALSE
      <4>1. q # <<>>
        BY <1>1, <3>1
      <4>2. PICK e : e = Tail(q)
        OBVIOUS
      <4>3. Len(e) = Len(q) - 1 /\ Len(q) \in Nat
        BY <4>1, <4>2, TailFacts
      <4>. QED
        BY <1>1, <3>1, <4>2, <4>3
    <3>2. Len(q) \in Nat
      OBVIOUS
    <3>. QED
      BY <1>1, <3>1, <3>2
  <2>. QED
    BY <2>1 DEF VcsNext, HistoryStep, PacerStep, Destroyed, vcsVars, RunTask, ProcessPendingNacks,
                FinishNacks, EnqueueRtx, PauseVideo, ResumeVideo, SendRtx, SendMedia, SendPadding,
                OnReceiveNack, PostNackTask, OnRttUpdate, Destroy, PassTime
<1>3. CASE SetVideoSendPaused
  <2>1. PICK t : t = [kind |-> IF apiPaused THEN "resume" ELSE "pause", seq |-> 0, epoch |-> 0]
    OBVIOUS
  <2>2. t \in PacerTasks /\ t.kind # "rtx"
    <3>1. 0 \in SeqNums
      BY CapacityAssumption DEF SeqNums
    <3>. QED
      BY <2>1, <3>1 DEF PacerTasks
  <2>3. PICK e : e = pacerTasks' /\ e = Append(q, t)
    BY <1>1, <1>3, <2>1 DEF SetVideoSendPaused
  <2>4. e[Len(e)] = t
    BY <2>2, <2>3, AppendFacts
  <2>. QED
    BY <2>2, <2>3, <2>4
<1>4. CASE Resend
  <2>1. pacerTasks' # pacerTasks
    <3>1. Len(q) \in Nat
      OBVIOUS
    <3>. QED
      BY <1>1, <3>1
  <2>2. PICK r \in worker.batch : ReSendPacket(r)
    BY <1>4, <2>1 DEF Resend
  <2>3. PICK h \in Seq(Slots) : h = history /\ Window(h)
    BY WindowIsDeque DEF VInv, DequeOf
  <2>4. PICK i : i = GetStoredPacket(h, r)
    OBVIOUS
  <2>5. /\ Resendable(i) /\ stage = "run"
        /\ pacerTasks' = Append(pacerTasks, [kind |-> "rtx", seq |-> history[i].seq,
                                              epoch |-> history[i].epoch])
    BY <2>1, <2>2, <2>3, <2>4 DEF ReSendPacket
  <2>6. i \in 1..Len(h) /\ h[i].held /\ ~h[i].pending /\ VerifyRtt(h[i])
    <3>1. r \in SeqNums
      BY DEF VInv, Types
    <3>2. i \in 0..Len(h) /\ (i # 0 => h[i].held)
      BY <2>3, <2>4, <3>1, FoundSound
    <3>. QED
      BY <2>3, <2>5, <3>2 DEF Resendable
  <2>7. PICK x \in Slots : x = h[i]
    BY <2>6, SlotType
  <2>8. x.seq = s
    <3>1. PICK t : t = [kind |-> "rtx", seq |-> x.seq, epoch |-> x.epoch]
      OBVIOUS
    <3>2. t \in PacerTasks /\ t.seq = x.seq
      BY <3>1 DEF PacerTasks, Slots
    <3>3. PICK e : e = pacerTasks' /\ e = Append(q, t)
      BY <1>1, <2>3, <2>5, <2>7, <3>1
    <3>4. e[Len(e)] = t
      BY <3>2, <3>3, AppendFacts
    <3>. QED
      BY <3>2, <3>3, <3>4
  <2>9. SlotInv(x)
    BY <2>3, <2>5, <2>6, <2>7 DEF SpInv, Spaced, SlotsInv
  <2>10. s \notin Sent
    <3>1. Sent \subseteq Reported
      BY DEF Sent, Reported, Nums, Results
    <3>. QED
      BY <2>6, <2>7, <2>8, <2>9, <3>1 DEF SlotInv, Underway
  <2>11. lastRtx[s] = Never \/ (x.resent /\ x.at >= lastRtx[s])
    BY <2>8, <2>9, <2>10 DEF SlotInv
  <2>12. x.resent => clock - x.at >= rtt
    <3>1. clock \in Nat /\ x.at \in Nat /\ rtt \in Nat
      BY DEF VInv, Types, SpInv, Times, Slots
    <3>2. VerifyRtt(x)
      BY <2>6, <2>7
    <3>. QED
      BY <3>1, <3>2 DEF VerifyRtt
  <2>13. clock \in Nat /\ x.at \in Nat /\ rtt \in Nat /\ (lastRtx[s] = Never \/ lastRtx[s] \in Nat)
    BY DEF VInv, Types, SpInv, Times, Slots
  <2>. QED
    BY <2>11, <2>12, <2>13
<1>. QED
  BY <1>2, <1>3, <1>4

\* A packet is never handed to the pacer again within a round-trip time of its
\* last retransmission, although the pacer records that one through a task the
\* history worker runs at any later time: a packet of which a copy, or a result
\* still to be recorded, is on its way is marked, and its mark refuses it.  This
\* covers the stretch of a stream before its first number is given a second
\* time: the property is about a number, and another packet's last
\* retransmission says nothing of the one that has the number next.
THEOREM RetransmissionsAreSpaced ==
    ASSUME MaxPackets \in 0..SeqMod
    PROVE  VcsSpec => RtxSpacing
<1>1. VcsInit => SpInv
  BY InitSpaced
<1>2. VInv /\ SpInv /\ [VcsNext]_vcsVars => SpInv'
  BY NextSpaced
<1>3. VInv /\ SpInv /\ [VcsNext]_vcsVars
        => [ \A s \in SeqNums :
               LET NewCopy == /\ Len(pacerTasks') > Len(pacerTasks)
                              /\ pacerTasks'[Len(pacerTasks')].kind = "rtx"
                              /\ pacerTasks'[Len(pacerTasks')].seq = s
               IN  NewCopy => lastRtx[s] = Never \/ clock - lastRtx[s] >= rtt
           ]_vcsVars
  BY SpacedStep
<1>. QED
  BY <1>1, <1>2, <1>3, VInvariance, PTL DEF VcsSpec, RtxSpacing
=============================================================================
