----------------------- MODULE RtpVideoReceiverProofs -----------------------
(***************************************************************************)
(* Proofs about RtpVideoReceiver and its NackRequester, for every stream,  *)
(* every range of numbers and every limit the assumptions allow.           *)
(***************************************************************************)
EXTENDS RtpVideoReceiver, FiniteSetTheorems, TLAPS

-----------------------------------------------------------------------------
(***************************************************************************)
(* Arithmetic of the wrapping numbers.                                     *)
(***************************************************************************)
LEMMA HalfRange ==
    \E h \in Nat : /\ SeqMod = 2 * h /\ SeqMod \div 2 = h
                   /\ MaxPacketAge + MaxNackPackets + 1 < h
<1>1. SeqMod \in Nat /\ SeqMod % 2 = 0 /\ MaxPacketAge + MaxNackPackets + 1 < SeqMod \div 2
  BY NackAssumption
<1>2. SeqMod \div 2 \in Nat /\ SeqMod = 2 * (SeqMod \div 2)
  BY <1>1
<1> QED BY <1>1, <1>2

LEMMA DiffType ==
    ASSUME NEW a \in SeqNums, NEW b \in SeqNums
    PROVE  ForwardDiff(a, b, SeqMod) \in SeqNums
BY NackAssumption DEF ForwardDiff, SeqNums

LEMMA DiffPositive ==
    ASSUME NEW a \in SeqNums, NEW b \in SeqNums, a # b
    PROVE  ForwardDiff(a, b, SeqMod) \in Nat \ {0}
BY NackAssumption DEF ForwardDiff, SeqNums

LEMMA SeqNumsFinite == IsFiniteSet(SeqNums)
BY FS_Interval, NackAssumption DEF SeqNums

LEMMA PlusType ==
    ASSUME NEW a \in SeqNums, NEW k \in SeqNums
    PROVE  SeqPlus(a, k, SeqMod) \in SeqNums
BY NackAssumption DEF SeqPlus, SeqNums

\* A number between the newest and s, s being beyond it.
LEMMA BetweenDiff ==
    ASSUME NEW a \in SeqNums, NEW s \in SeqNums, s # a, ~Ahead(a, s),
           NEW k \in SeqNums, Ahead(k, a), Ahead(s, k)
    PROVE  /\ ForwardDiff(a, k, SeqMod) \in 1..(ForwardDiff(a, s, SeqMod) - 1)
           /\ ForwardDiff(k, s, SeqMod) = ForwardDiff(a, s, SeqMod) - ForwardDiff(a, k, SeqMod)
<1>1. PICK h \in Nat : /\ SeqMod = 2 * h /\ SeqMod \div 2 = h
                       /\ MaxPacketAge + MaxNackPackets + 1 < h
  BY HalfRange
<1>2. a \in 0..(2 * h - 1) /\ s \in 0..(2 * h - 1) /\ k \in 0..(2 * h - 1)
  BY <1>1 DEF SeqNums
<1> QED BY <1>1, <1>2 DEF Ahead, AheadOf, ForwardDiff

\* How many numbers lie between.
LEMMA CountDiff ==
    ASSUME NEW a \in SeqNums, NEW s \in SeqNums, s # a
    PROVE  ForwardDiff(SeqPlus(a, 1, SeqMod), s, SeqMod) = ForwardDiff(a, s, SeqMod) - 1
BY NackAssumption DEF ForwardDiff, SeqPlus, SeqNums

\* A number that was young enough and still is, once s is the newest.
LEMMA YoungDiff ==
    ASSUME NEW a \in SeqNums, NEW s \in SeqNums, s # a, NEW k \in SeqNums,
           ForwardDiff(k, a, SeqMod) \in 1..MaxPacketAge,
           ForwardDiff(a, s, SeqMod) - 1 <= MaxNackPackets,
           ~Ahead(SeqMinus(s, MaxPacketAge, SeqMod), k)
    PROVE  ForwardDiff(k, s, SeqMod) \in 1..MaxPacketAge
<1>1. PICK h \in Nat : /\ SeqMod = 2 * h /\ SeqMod \div 2 = h
                       /\ MaxPacketAge + MaxNackPackets + 1 < h
  BY HalfRange
<1>2. MaxPacketAge \in Nat \ {0} /\ MaxNackPackets \in Nat \ {0}
  BY NackAssumption
<1>3. a \in 0..(2 * h - 1) /\ s \in 0..(2 * h - 1) /\ k \in 0..(2 * h - 1)
  BY <1>1 DEF SeqNums
<1>4. ForwardDiff(k, s, 2 * h) = ForwardDiff(k, a, 2 * h) + ForwardDiff(a, s, 2 * h)
  BY <1>1, <1>2, <1>3 DEF ForwardDiff
<1>5. ForwardDiff(k, s, 2 * h) \in 1..(h - 1)
  <2>1. ForwardDiff(a, s, 2 * h) \in 1..(2 * h - 1)
    BY <1>3 DEF ForwardDiff
  <2> QED BY <1>1, <1>2, <1>4, <2>1
<1>6. ForwardDiff(k, s, 2 * h) <= MaxPacketAge
  BY <1>1, <1>2, <1>3, <1>5 DEF Ahead, AheadOf, ForwardDiff, SeqMinus
<1> QED BY <1>1, <1>2, <1>5, <1>6

-----------------------------------------------------------------------------
(***************************************************************************)
(* The requester.  Within is NackWithinLimits of a record, with nothing    *)
(* asked for before the first packet; Marked are the numbers being sent.   *)
(***************************************************************************)
InfoType == [sendAt : SeqNums, created : Nat, sent : Int, tried : Int, retries : Nat,
             pending : BOOLEAN]

Lists == UNION {[D -> InfoType] : D \in SUBSET SeqNums}

NackType == [initialized : BOOLEAN, newest : SeqNums, list : Lists,
             recovered : SUBSET SeqNums, keyFrame : BOOLEAN, rtt : Nat, sampled : BOOLEAN]

Within(n) ==
    /\ \A s \in DOMAIN n.list : ForwardDiff(s, n.newest, SeqMod) \in 1..MaxPacketAge
    /\ Cardinality(DOMAIN n.list) <= MaxNackPackets
    /\ ~n.initialized => DOMAIN n.list = {}

Sound(n) == n \in NackType /\ Within(n)

Marked(n) == {s \in DOMAIN n.list : n.list[s].pending}

\* A list with a smaller domain.
LEMMA SmallerList ==
    ASSUME NEW n, Sound(n), NEW e \in NackType, e.newest = n.newest,
           e.initialized = n.initialized, DOMAIN e.list \subseteq DOMAIN n.list
    PROVE  Sound(e)
<1>1. PICK D : D = DOMAIN n.list
  OBVIOUS
<1>2. PICK E : E = DOMAIN e.list
  OBVIOUS
<1>3. D \subseteq SeqNums /\ E \subseteq D
  BY <1>1, <1>2 DEF Sound, NackType, Lists
<1>4. IsFiniteSet(D)
  BY <1>3, SeqNumsFinite, FS_Subset
<1>5. Cardinality(E) <= Cardinality(D) /\ Cardinality(D) \in Nat /\ Cardinality(E) \in Nat
  BY <1>3, <1>4, FS_Subset, FS_CardinalityType
<1>6. Cardinality(D) <= MaxNackPackets /\ MaxNackPackets \in Nat
  BY <1>1, NackAssumption DEF Sound, Within
<1>7. Cardinality(E) <= MaxNackPackets
  BY <1>5, <1>6
<1> QED BY <1>2, <1>7 DEF Sound, Within

LEMMA ListFacts ==
    ASSUME NEW l \in Lists
    PROVE  DOMAIN l \subseteq SeqNums /\ l \in [DOMAIN l -> InfoType]
BY DEF Lists

LEMMA ListMade ==
    ASSUME NEW D \in SUBSET SeqNums, NEW f \in [D -> InfoType]
    PROVE  f \in Lists /\ DOMAIN f = D
BY DEF Lists

LEMMA WithoutFacts ==
    ASSUME NEW l \in Lists, NEW S
    PROVE  /\ Without(l, S) \in Lists /\ DOMAIN Without(l, S) = DOMAIN l \ S
           /\ \A s \in DOMAIN l \ S : Without(l, S)[s] = l[s]
<1>1. PICK D : D = DOMAIN l \ S
  OBVIOUS
<1>2. PICK f : f = [s \in D |-> l[s]]
  OBVIOUS
<1>3. Without(l, S) = f
  BY <1>1, <1>2 DEF Without
<1>4. D \in SUBSET SeqNums /\ f \in [D -> InfoType]
  BY <1>1, <1>2, ListFacts
<1>5. f \in Lists /\ DOMAIN f = D
  BY <1>4, ListMade
<1> QED BY <1>1, <1>2, <1>3, <1>5

\* A step of the requester: it stays sound and marks no other number.
Keeps(n, e) == Sound(e) /\ Marked(e) \subseteq Marked(n)

LEMMA WithoutKeeps ==
    ASSUME NEW n, Sound(n), NEW S, NEW e \in NackType, e.newest = n.newest,
           e.initialized = n.initialized, e.list = Without(n.list, S)
    PROVE  Keeps(n, e)
<1>1. n.list \in Lists
  BY DEF Sound, NackType
<1>2. /\ DOMAIN e.list = DOMAIN n.list \ S
      /\ \A s \in DOMAIN e.list : e.list[s] = n.list[s]
  <2>1. /\ DOMAIN Without(n.list, S) = DOMAIN n.list \ S
        /\ \A s \in DOMAIN n.list \ S : Without(n.list, S)[s] = n.list[s]
    BY <1>1, WithoutFacts, Zenon
  <2> QED BY <2>1
<1>3. Sound(e)
  BY <1>2, SmallerList
<1> QED BY <1>2, <1>3 DEF Keeps, Marked

LEMMA UpdateRttFacts ==
    ASSUME NEW n \in NackType, NEW sample \in Int
    PROVE  LET e == UpdateRtt(n, sample)
           IN  /\ e \in NackType /\ e.newest = n.newest /\ e.initialized = n.initialized
               /\ e.list = n.list /\ e.recovered = n.recovered
<1>1. CASE sample <= 0 \/ sample > MaxRttSample
  BY <1>1 DEF UpdateRtt
<1>2. CASE ~(sample <= 0 \/ sample > MaxRttSample)
  <2>1. PICK r : r = IF n.sampled THEN (3 * n.rtt + sample) \div 4 ELSE sample
    OBVIOUS
  <2>2. n.rtt \in Nat /\ sample \in Nat
    BY <1>2 DEF NackType
  <2>3. r \in Nat
    BY <2>1, <2>2
  <2>4. UpdateRtt(n, sample) = [n EXCEPT !.sampled = TRUE, !.rtt = r]
    BY <1>2, <2>1 DEF UpdateRtt
  <2>5. UpdateRtt(n, sample) \in NackType
    BY <2>3, <2>4 DEF NackType
  <2> QED BY <2>4, <2>5 DEF NackType
<1> QED BY <1>1, <1>2

LEMMA UpdateRttKeeps ==
    ASSUME NEW n, Sound(n), NEW sample \in Int, NEW e, e = UpdateRtt(n, sample)
    PROVE  Keeps(n, e)
<1>1. n \in NackType
  BY DEF Sound
<1>2. e \in NackType /\ e.newest = n.newest /\ e.initialized = n.initialized /\ e.list = n.list
  BY <1>1, UpdateRttFacts
<1>3. Sound(e)
  BY <1>2, SmallerList
<1> QED BY <1>2, <1>3 DEF Keeps, Marked

\* There are fewer numbers between than the distance.
LEMMA BetweenBound ==
    ASSUME NEW n \in NackType, NEW s \in SeqNums, s # n.newest, ~Ahead(n.newest, s)
    PROVE  /\ IsFiniteSet(Between(n, s))
           /\ Cardinality(Between(n, s)) <= ForwardDiff(n.newest, s, SeqMod) - 1
<1>1. PICK a \in SeqNums : a = n.newest
  BY DEF NackType
<1>2. PICK c : c = ForwardDiff(a, s, SeqMod) - 1
  OBVIOUS
<1>3. c \in Nat
  BY <1>1, <1>2, NackAssumption DEF ForwardDiff, SeqNums
<1>4. PICK B : B = Between(n, s)
  OBVIOUS
<1>5. \A k \in B : k \in SeqNums /\ Ahead(k, a) /\ Ahead(s, k)
  BY <1>1, <1>4 DEF Between
<1>6. PICK f : f = [k \in B |-> ForwardDiff(a, k, SeqMod)]
  OBVIOUS
<1>7. f \in [B -> 1..c]
  <2>1. ASSUME NEW k \in B PROVE ForwardDiff(a, k, SeqMod) \in 1..c
    BY <1>1, <1>2, <1>5, BetweenDiff
  <2> QED BY <1>6, <2>1
<1>8. ASSUME NEW x \in B, NEW y \in B, f[x] = f[y] PROVE x = y
  <2>1. x \in SeqNums /\ y \in SeqNums
    BY <1>5
  <2>2. ForwardDiff(a, x, SeqMod) = ForwardDiff(a, y, SeqMod)
    BY <1>6, <1>8
  <2> QED BY <1>1, <2>1, <2>2, NackAssumption DEF ForwardDiff, SeqNums
<1>9. f \in Injection(B, 1..c)
  BY <1>7, <1>8 DEF Injection, IsInjective
<1>10. IsFiniteSet(1..c) /\ Cardinality(1..c) = c
  BY <1>3, FS_Interval
<1>11. IsFiniteSet(B) /\ Cardinality(B) <= c
  BY <1>9, <1>10, FS_Injection
<1> QED BY <1>1, <1>2, <1>4, <1>11

\* What lies between is added to what is still young enough.
LEMMA AddPacketsKeeps ==
    ASSUME NEW n, Sound(n), n.initialized, NEW s \in SeqNums, s # n.newest, ~Ahead(n.newest, s),
           NEW w \in SeqNums, now \in Nat,
           NEW e, e = [AddPacketsToNack(n, s, w) EXCEPT !.newest = s]
    PROVE  Keeps(n, e)
<1>1. n \in NackType /\ n.list \in Lists /\ n.newest \in SeqNums
  BY DEF Sound, NackType
<1>2. PICK oldest : oldest = SeqMinus(s, MaxPacketAge, SeqMod)
  OBVIOUS
<1>3. PICK old : old = {k \in DOMAIN n.list : Ahead(oldest, k)}
  OBVIOUS
<1>4. PICK Y : Y = DOMAIN Without(n.list, old)
  OBVIOUS
<1>5. PICK c : c = ForwardDiff(SeqPlus(n.newest, 1, SeqMod), s, SeqMod)
  OBVIOUS
<1>6. PICK gone : gone = Between(n, s) \ n.recovered
  OBVIOUS
<1>7. Y = DOMAIN n.list \ old
  BY <1>1, <1>4, WithoutFacts
<1>8. Y \subseteq SeqNums /\ gone \subseteq SeqNums
  BY <1>1, <1>6, <1>7, ListFacts DEF Between
<1>9. CASE Cardinality(Y) + c > MaxNackPackets
  <2>1. PICK l : l = Without(n.list, DOMAIN n.list)
    OBVIOUS
  <2>2. l \in Lists /\ DOMAIN l = {}
    <3>1. Without(n.list, DOMAIN n.list) \in Lists
            /\ DOMAIN Without(n.list, DOMAIN n.list) = DOMAIN n.list \ DOMAIN n.list
      BY <1>1, WithoutFacts, Zenon
    <3> QED BY <2>1, <3>1
  <2>3. PICK x : x = [n EXCEPT !.list = l, !.keyFrame = TRUE]
    OBVIOUS
  <2>4. AddPacketsToNack(n, s, w) = x
    BY <1>2, <1>3, <1>4, <1>5, <1>9, <2>1, <2>3 DEF AddPacketsToNack
  <2>5. x \in NackType
    BY <1>1, <2>2, <2>3 DEF NackType
  <2>6. e = [x EXCEPT !.newest = s]
    BY <2>4
  <2>7. e \in NackType
    BY <2>5, <2>6 DEF NackType
  <2>8. e.list = l
    BY <1>1, <2>3, <2>5, <2>6 DEF NackType
  <2>9. Cardinality({}) <= MaxNackPackets
    BY FS_EmptySet, NackAssumption
  <2> QED BY <2>2, <2>7, <2>8, <2>9 DEF Keeps, Sound, Within, Marked
<1>10. CASE ~(Cardinality(Y) + c > MaxNackPackets)
  <2>1. PICK l : l = [k \in Y \cup gone |-> IF k \in gone THEN NackInfo(k, w) ELSE n.list[k]]
    OBVIOUS
  <2>2. PICK x : x = [n EXCEPT !.list = l]
    OBVIOUS
  <2>3. AddPacketsToNack(n, s, w) = x
    BY <1>2, <1>3, <1>4, <1>5, <1>6, <1>10, <2>1, <2>2 DEF AddPacketsToNack
  <2>4. ASSUME NEW k \in gone PROVE NackInfo(k, w) \in InfoType /\ ~NackInfo(k, w).pending
    <3>1. SeqPlus(k, w, SeqMod) \in SeqNums
      BY <1>8, <2>4, PlusType
    <3>2. NotYet \in Int
      BY DEF NotYet
    <3> QED BY <3>1, <3>2 DEF NackInfo, InfoType
  <2>5. \A k \in Y : n.list[k] \in InfoType
    BY <1>1, <1>7, ListFacts
  <2>6. l \in [Y \cup gone -> InfoType]
    BY <2>1, <2>4, <2>5
  <2>7. l \in Lists /\ DOMAIN l = Y \cup gone
    BY <1>8, <2>6, ListMade
  <2>8. x \in NackType
    BY <1>1, <2>2, <2>7 DEF NackType
  <2>9. e = [x EXCEPT !.newest = s]
    BY <2>3
  <2>10. e \in NackType
    BY <2>8, <2>9 DEF NackType
  <2>11. e.list = l /\ e.newest = s /\ e.initialized
    BY <1>1, <2>2, <2>8, <2>9 DEF NackType
  <2>12. Marked(e) \subseteq Marked(n)
    BY <1>7, <2>1, <2>4, <2>7, <2>11 DEF Marked
  <2>13. c = ForwardDiff(n.newest, s, SeqMod) - 1 /\ c \in Nat
    <3>1. c = ForwardDiff(n.newest, s, SeqMod) - 1
      BY <1>1, <1>5, CountDiff
    <3>2. ForwardDiff(n.newest, s, SeqMod) \in Nat \ {0}
      BY <1>1, DiffPositive
    <3> QED BY <3>1, <3>2
  <2>14. IsFiniteSet(Y) /\ Cardinality(Y) \in Nat
    BY <1>8, SeqNumsFinite, FS_Subset, FS_CardinalityType
  <2>15. IsFiniteSet(gone) /\ Cardinality(gone) <= c /\ Cardinality(gone) \in Nat
    <3>1. PICK B : B = Between(n, s)
      OBVIOUS
    <3>2. IsFiniteSet(B) /\ Cardinality(B) <= c
      BY <1>1, <2>13, <3>1, BetweenBound
    <3>3. gone \in SUBSET B
      BY <1>6, <3>1
    <3>4. IsFiniteSet(gone) /\ Cardinality(gone) <= Cardinality(B)
      BY <3>2, <3>3, FS_Subset
    <3>5. Cardinality(B) \in Nat /\ Cardinality(gone) \in Nat
      BY <3>2, <3>4, FS_CardinalityType
    <3> QED BY <2>13, <3>2, <3>4, <3>5
  <2>16. c <= MaxNackPackets /\ Cardinality(Y) + c <= MaxNackPackets
    BY <1>10, <2>13, <2>14, NackAssumption
  <2>17. Cardinality(Y \cup gone) <= MaxNackPackets
    <3>1. Cardinality(Y \cup gone) = Cardinality(Y) + Cardinality(gone) - Cardinality(Y \cap gone)
      BY <2>14, <2>15, FS_Union
    <3>2. Cardinality(Y \cap gone) \in Nat
      BY <2>14, FS_Intersection, FS_CardinalityType
    <3> QED BY <2>13, <2>14, <2>15, <2>16, <3>1, <3>2, NackAssumption
  <2>18. ASSUME NEW k \in Y \cup gone PROVE ForwardDiff(k, s, SeqMod) \in 1..MaxPacketAge
    <3>1. CASE k \in gone
      <4>1. k \in SeqNums /\ Ahead(k, n.newest) /\ Ahead(s, k)
        BY <1>6, <3>1 DEF Between
      <4>2. PICK d : d = ForwardDiff(n.newest, k, SeqMod)
        OBVIOUS
      <4>3. d \in 1..c /\ ForwardDiff(k, s, SeqMod) = c + 1 - d
        <5>1. PICK b : b = ForwardDiff(n.newest, s, SeqMod)
          OBVIOUS
        <5>2. d \in 1..(b - 1) /\ ForwardDiff(k, s, SeqMod) = b - d
          BY <1>1, <4>1, <4>2, <5>1, BetweenDiff
        <5>3. b \in Nat /\ c = b - 1
          BY <1>1, <2>13, <5>1, DiffPositive
        <5> QED BY <5>2, <5>3
      <4> QED BY <2>13, <2>16, <4>3, NackAssumption
    <3>2. CASE k \in Y
      <4>1. k \in SeqNums /\ ForwardDiff(k, n.newest, SeqMod) \in 1..MaxPacketAge
              /\ ~Ahead(oldest, k)
        BY <1>3, <1>7, <1>8, <3>2 DEF Sound, Within
      <4>2. ForwardDiff(n.newest, s, SeqMod) - 1 <= MaxNackPackets
        BY <2>13, <2>16
      <4> QED BY <1>1, <1>2, <4>1, <4>2, YoungDiff
    <3> QED BY <2>18, <3>1, <3>2
  <2> QED BY <2>7, <2>10, <2>11, <2>12, <2>17, <2>18 DEF Keeps, Sound, Within
<1> QED BY <1>9, <1>10

LEMMA OldPacketKeeps ==
    ASSUME NEW n, Sound(n), NEW s, NEW recovered \in BOOLEAN, now \in Nat,
           NEW e, e = OnOldPacket(n, s, recovered)
    PROVE  Keeps(n, e)
<1>1. n \in NackType /\ n.list \in Lists
  BY DEF Sound, NackType
<1>2. PICK t : t = IF s \in DOMAIN n.list /\ recovered /\ n.list[s].retries = 1
                      /\ n.list[s].sent # NotYet
                   THEN UpdateRtt(n, now - n.list[s].sent) ELSE n
  OBVIOUS
<1>3. e = [t EXCEPT !.list = Without(n.list, {s})]
  BY <1>2 DEF OnOldPacket
<1>4. t \in NackType /\ t.newest = n.newest /\ t.initialized = n.initialized
  <2>1. CASE s \in DOMAIN n.list
    <3>1. n.list[s] \in InfoType
      BY <1>1, <2>1, ListFacts
    <3>2. now - n.list[s].sent \in Int
      BY <3>1 DEF InfoType
    <3> QED BY <1>1, <1>2, <3>2, UpdateRttFacts
  <2>2. CASE s \notin DOMAIN n.list
    BY <1>1, <1>2, <2>2
  <2> QED BY <2>1, <2>2
<1>5. PICK l \in Lists : l = Without(n.list, {s})
  BY <1>1, WithoutFacts
<1>6. e \in NackType
  BY <1>3, <1>4, <1>5 DEF NackType
<1>7. e.newest = n.newest /\ e.initialized = n.initialized /\ e.list = l
  BY <1>3, <1>4, <1>5 DEF NackType
<1> QED BY <1>5, <1>6, <1>7, WithoutKeeps

LEMMA RecoveredAheadKeeps ==
    ASSUME NEW n, Sound(n), NEW s \in SeqNums, NEW e, e = OnRecoveredAhead(n, s)
    PROVE  Keeps(n, e)
<1>1. n \in NackType
  BY DEF Sound
<1>2. PICK R : R = {k \in n.recovered \cup {s} : ~Ahead(SeqMinus(s, MaxPacketAge, SeqMod), k)}
  OBVIOUS
<1>3. R \in SUBSET SeqNums
  BY <1>1, <1>2 DEF NackType
<1>4. e = [n EXCEPT !.recovered = R]
  BY <1>2 DEF OnRecoveredAhead
<1>5. e \in NackType
  BY <1>1, <1>3, <1>4 DEF NackType
<1>6. e.newest = n.newest /\ e.initialized = n.initialized /\ e.list = n.list
  BY <1>1, <1>4 DEF NackType
<1>7. Sound(e)
  BY <1>5, <1>6, SmallerList
<1> QED BY <1>6, <1>7 DEF Keeps, Marked

LEMMA ReceivedKeeps ==
    ASSUME NEW n, Sound(n), NEW s \in SeqNums, NEW recovered \in BOOLEAN, NEW w \in SeqNums,
           now \in Nat, NEW e, e = OnReceivedPacket(n, s, recovered, w)
    PROVE  Keeps(n, e)
<1>1. n \in NackType
  BY DEF Sound
<1>2. CASE ~n.initialized
  <2>1. e = [n EXCEPT !.initialized = TRUE, !.newest = s]
    BY <1>2 DEF OnReceivedPacket
  <2>2. e \in NackType
    BY <1>1, <2>1 DEF NackType
  <2>3. e.list = n.list /\ DOMAIN n.list = {}
    BY <1>1, <1>2, <2>1 DEF NackType, Sound, Within
  <2> QED BY <2>2, <2>3 DEF Keeps, Sound, Within, Marked
<1>3. CASE n.initialized /\ s = n.newest
  BY <1>3 DEF OnReceivedPacket, Keeps
<1>4. CASE n.initialized /\ s # n.newest /\ Ahead(n.newest, s)
  <2>1. e = OnOldPacket(n, s, recovered)
    BY <1>4 DEF OnReceivedPacket
  <2> QED BY <2>1, OldPacketKeeps
<1>5. CASE n.initialized /\ s # n.newest /\ ~Ahead(n.newest, s) /\ recovered
  <2>1. e = OnRecoveredAhead(n, s)
    BY <1>5 DEF OnReceivedPacket
  <2> QED BY <2>1, RecoveredAheadKeeps
<1>6. CASE n.initialized /\ s # n.newest /\ ~Ahead(n.newest, s) /\ ~recovered
  <2>1. e = [AddPacketsToNack(n, s, w) EXCEPT !.newest = s]
    BY <1>6 DEF OnReceivedPacket
  <2> QED BY <1>6, <2>1, AddPacketsKeeps
<1> QED BY <1>2, <1>3, <1>4, <1>5, <1>6

\* A batch is chosen from the list.
LEMMA BatchInList ==
    ASSUME NEW n \in NackType, NEW by
    PROVE  GetNackBatch(n, by) \subseteq DOMAIN n.list /\ GetNackBatch(n, by) \subseteq SeqNums
<1>1. GetNackBatch(n, by) \subseteq DOMAIN n.list
  BY DEF GetNackBatch
<1>2. DOMAIN n.list \subseteq SeqNums
  BY ListFacts DEF NackType
<1> QED BY <1>1, <1>2

LEMMA MarkPendingSound ==
    ASSUME NEW n, Sound(n), NEW S, NEW e, e = MarkPending(n, S)
    PROVE  Sound(e) /\ Marked(e) \subseteq Marked(n) \cup S
<1>1. n \in NackType /\ n.list \in Lists
  BY DEF Sound, NackType
<1>2. PICK D : D = DOMAIN n.list
  OBVIOUS
<1>3. PICK l : l = [s \in D |-> IF s \in S THEN [n.list[s] EXCEPT !.pending = TRUE]
                                ELSE n.list[s]]
  OBVIOUS
<1>4. e = [n EXCEPT !.list = l]
  BY <1>2, <1>3 DEF MarkPending
<1>5. D \in SUBSET SeqNums /\ \A s \in D : n.list[s] \in InfoType
  BY <1>1, <1>2, ListFacts
<1>6. \A i \in InfoType : [i EXCEPT !.pending = TRUE] \in InfoType
  BY DEF InfoType
<1>7. l \in [D -> InfoType]
  BY <1>3, <1>5, <1>6
<1>8. l \in Lists /\ DOMAIN l = D
  BY <1>5, <1>7, ListMade
<1>9. e \in NackType
  BY <1>1, <1>4, <1>8 DEF NackType
<1>10. e.newest = n.newest /\ e.initialized = n.initialized /\ e.list = l
  BY <1>1, <1>4 DEF NackType
<1>11. Sound(e)
  BY <1>2, <1>8, <1>9, <1>10, SmallerList
<1>12. \A s \in D \ S : l[s] = n.list[s]
  BY <1>3
<1> QED BY <1>2, <1>8, <1>10, <1>11, <1>12 DEF Marked

\* The result of a batch leaves none of its numbers marked.
LEMMA BatchSentSound ==
    ASSUME NEW n, Sound(n), now \in Nat, NEW S, NEW ok \in BOOLEAN,
           NEW e, e = OnNackBatchSent(n, S, ok)
    PROVE  Sound(e) /\ Marked(e) \subseteq Marked(n) \ S
<1>1. n \in NackType /\ n.list \in Lists
  BY DEF Sound, NackType
<1>2. PICK hit : hit = {s \in S \cap DOMAIN n.list : n.list[s].pending}
  OBVIOUS
<1>3. PICK D : D = DOMAIN n.list \ {s \in hit : ok /\ n.list[s].retries + 1 >= MaxNackRetries}
  OBVIOUS
<1> DEFINE Sent(i) == IF ok THEN [i EXCEPT !.pending = FALSE, !.tried = now, !.sent = now,
                                           !.retries = i.retries + 1]
                      ELSE [i EXCEPT !.pending = FALSE, !.tried = now]
<1>4. PICK l : l = [s \in D |-> IF s \in hit THEN Sent(n.list[s]) ELSE n.list[s]]
  OBVIOUS
<1>5. e = [n EXCEPT !.list = l]
  BY <1>2, <1>3, <1>4 DEF OnNackBatchSent
<1>6. D \in SUBSET SeqNums /\ D \subseteq DOMAIN n.list /\ \A s \in D : n.list[s] \in InfoType
  BY <1>1, <1>3, ListFacts
<1>7. \A i \in InfoType : Sent(i) \in InfoType /\ ~Sent(i).pending
  <2> TAKE i \in InfoType
  <2>1. i.retries + 1 \in Nat /\ now \in Int
    BY DEF InfoType
  <2>2. [i EXCEPT !.pending = FALSE, !.tried = now] \in InfoType
    BY <2>1 DEF InfoType
  <2>3. [i EXCEPT !.pending = FALSE, !.tried = now, !.sent = now, !.retries = i.retries + 1]
          \in InfoType
    BY <2>1 DEF InfoType
  <2>4. Sent(i) \in InfoType
    BY <2>2, <2>3
  <2>5. ~Sent(i).pending
    BY DEF InfoType
  <2> QED BY <2>4, <2>5
<1> HIDE DEF Sent
<1>8. l \in [D -> InfoType]
  BY <1>4, <1>6, <1>7
<1>9. l \in Lists /\ DOMAIN l = D
  BY <1>6, <1>8, ListMade
<1>10. e \in NackType
  BY <1>1, <1>5, <1>9 DEF NackType
<1>11. e.newest = n.newest /\ e.initialized = n.initialized /\ e.list = l
  BY <1>1, <1>5 DEF NackType
<1>12. Sound(e)
  BY <1>6, <1>9, <1>10, <1>11, SmallerList
<1>13. \A s \in D : l[s].pending => s \notin hit /\ l[s] = n.list[s]
  BY <1>4, <1>6, <1>7
<1>14. Marked(e) \subseteq Marked(n) \ S
  BY <1>2, <1>6, <1>9, <1>11, <1>13 DEF Marked
<1> QED BY <1>12, <1>14

LEMMA ClearUpToKeeps ==
    ASSUME NEW n, Sound(n), NEW s, NEW e, e = ClearUpTo(n, s)
    PROVE  Keeps(n, e)
<1>1. n \in NackType /\ n.list \in Lists
  BY DEF Sound, NackType
<1>2. PICK S : S = {k \in DOMAIN n.list : ~Ahead(k, s)}
  OBVIOUS
<1>3. PICK R : R = {k \in n.recovered : Ahead(k, s)}
  OBVIOUS
<1>4. R \in SUBSET SeqNums
  BY <1>1, <1>3 DEF NackType
<1>5. PICK l \in Lists : l = Without(n.list, S)
  BY <1>1, WithoutFacts
<1>6. e = [n EXCEPT !.list = l, !.recovered = R]
  BY <1>2, <1>3, <1>5 DEF ClearUpTo
<1>7. e \in NackType
  BY <1>1, <1>4, <1>6 DEF NackType
<1>8. e.newest = n.newest /\ e.initialized = n.initialized /\ e.list = l
  BY <1>1, <1>6 DEF NackType
<1> QED BY <1>5, <1>7, <1>8, WithoutKeeps

LEMMA KeyFrameKeeps ==
    ASSUME NEW n, Sound(n), NEW e, e = [n EXCEPT !.keyFrame = FALSE]
    PROVE  Keeps(n, e)
<1>1. n \in NackType
  BY DEF Sound
<1>2. e \in NackType
  BY <1>1 DEF NackType
<1>3. e.newest = n.newest /\ e.initialized = n.initialized /\ e.list = n.list
  BY <1>1 DEF NackType
<1>4. Sound(e)
  BY <1>2, <1>3, SmallerList
<1> QED BY <1>3, <1>4 DEF Keeps, Marked

LEMMA NewNackSound == Sound(NewNack) /\ Marked(NewNack) = {}
<1>1. PICK l : l = [s \in {} |-> 0]
  OBVIOUS
<1>2. l \in [{} -> InfoType] /\ DOMAIN l = {}
  BY <1>1
<1>3. l \in Lists
  BY <1>2, ListMade
<1>4. 0 \in SeqNums /\ DefaultRtt \in Nat
  BY NackAssumption DEF SeqNums
<1>5. NewNack = [initialized |-> FALSE, newest |-> 0, list |-> l, recovered |-> {},
                 keyFrame |-> FALSE, rtt |-> DefaultRtt, sampled |-> FALSE]
  BY <1>1 DEF NewNack
<1>6. NewNack \in NackType
  BY <1>3, <1>4, <1>5 DEF NackType
<1>7. NewNack.list = l
  BY <1>5
<1>8. Cardinality({}) <= MaxNackPackets
  BY FS_EmptySet, NackAssumption
<1> QED BY <1>2, <1>6, <1>7, <1>8 DEF Sound, Within, Marked

-----------------------------------------------------------------------------
(***************************************************************************)
(* The requester by itself: whatever numbers arrive, repaired or not, in   *)
(* whatever order, and however its batches fare.                           *)
(***************************************************************************)
RInv == now \in Nat /\ Sound(nack)

LEMMA SendsSound ==
    ASSUME RInv, NEW n, Sound(n), NEW batch, Sends(n, batch)
    PROVE  Sound(nack')
<1>1. PICK ok \in BOOLEAN : nack' = OnNackBatchSent(MarkPending(n, batch), batch, ok)
  BY DEF Sends
<1>2. Sound(MarkPending(n, batch)) /\ now \in Nat
  BY MarkPendingSound DEF RInv
<1> QED BY <1>1, <1>2, BatchSentSound

LEMMA RInvariance == NrSpec => []RInv
<1>1. NrInit => RInv
  BY NewNackSound DEF NrInit, RInv
<1>2. RInv /\ [NrNext]_nrVars => RInv'
  <2> SUFFICES ASSUME RInv, [NrNext]_nrVars PROVE RInv'
    OBVIOUS
  <2>1. now \in Nat /\ Sound(nack)
    BY DEF RInv
  <2> SUFFICES now' \in Nat /\ Sound(nack')
    BY DEF RInv, Sound, Within, NackType, Lists, InfoType
  <2>2. CASE NrReceive
    <3>1. PICK s \in SeqNums, recovered \in BOOLEAN, w \in ReorderWaits :
            LET n == OnReceivedPacket(nack, s, recovered, w)
            IN  Sends(n, IF Advances(nack, s, recovered) THEN GetNackBatch(n, "seq") ELSE {})
                /\ UNCHANGED now
      BY <2>2 DEF NrReceive
    <3>2. w \in SeqNums
      BY NackAssumption DEF SeqNums
    <3>3. Sound(OnReceivedPacket(nack, s, recovered, w))
      BY <2>1, <3>2, ReceivedKeeps DEF Keeps
    <3> QED BY <2>1, <3>1, <3>3, SendsSound
  <2>3. CASE NrProcessNacks
    BY <2>1, <2>3, SendsSound DEF NrProcessNacks
  <2>4. CASE NrConsumeKeyFrameRequest
    BY <2>1, <2>4, KeyFrameKeeps DEF NrConsumeKeyFrameRequest, Keeps
  <2>5. CASE NrClearUpTo
    BY <2>1, <2>5, ClearUpToKeeps DEF NrClearUpTo, Keeps
  <2>6. CASE NrPassTime
    BY <2>1, <2>6 DEF NrPassTime
  <2>7. CASE UNCHANGED nrVars
    BY <2>1, <2>7 DEF nrVars
  <2> QED BY <2>2, <2>3, <2>4, <2>5, <2>6, <2>7 DEF NrNext
<1> QED BY <1>1, <1>2, PTL DEF NrSpec

LEMMA SoundIsWithin == Sound(nack) => NackWithinLimits
BY DEF Sound, Within, NackWithinLimits

(***************************************************************************)
(* For every size of the number range and both limits: what the requester  *)
(* asks for is never older than the age limit nor more than the limit.     *)
(***************************************************************************)
THEOREM RequestsStayWithinLimits == NrSpec => []NackWithinLimits
<1>1. RInv => NackWithinLimits
  BY SoundIsWithin DEF RInv
<1> QED BY <1>1, RInvariance, PTL

-----------------------------------------------------------------------------
(***************************************************************************)
(* The receiver: a thread holds a batch only at "nack", and every number   *)
(* marked as being sent is in a batch.                                     *)
(***************************************************************************)
RtpBusy == [at : {"late", "track", "nack", "await", "payload", "fir", "commit"},
            batch : SUBSET SeqNums, kind : {"media", "rtx", "fec"}, overflow : BOOLEAN,
            packet : Stream]

RtpOk(r) == r = RtpIdle \/ (r \in RtpBusy /\ (r.at # "nack" => r.batch = {}))

ProcOk(r) ==
    /\ r \in [at : {"idle", "nack", "retry", "loop", "assembly", "fir"},
              batch : SUBSET SeqNums, ts : {r.ts}, timedOut : BOOLEAN,
              timing : {"no rtx", "unsampled", "sampled"}]
    /\ r.at # "nack" => r.batch = {}

SInv ==
    /\ now \in Nat /\ Sound(nack) /\ RtpOk(rtp) /\ ProcOk(proc)
    /\ Marked(nack) \subseteq rtp.batch \cup proc.batch

LEMMA RtpBatch ==
    ASSUME NEW r, RtpOk(r), r.at # "nack"
    PROVE  r.batch = {} /\ (r.at # "idle" => r \in RtpBusy)
BY DEF RtpOk, RtpIdle

LEMMA RtpMove ==
    ASSUME NEW r, RtpOk(r), r.at \notin {"idle", "nack"}, NEW b \in BOOLEAN,
           NEW x \in {"late", "track", "await", "payload", "fir", "commit"},
           NEW e, e \in {[r EXCEPT !.at = x], [r EXCEPT !.at = x, !.overflow = b]}
    PROVE  RtpOk(e) /\ e.batch = {}
<1>1. r \in RtpBusy /\ r.batch = {}
  BY RtpBatch
<1>2. e \in RtpBusy
  BY <1>1 DEF RtpBusy
<1>3. e.batch = {}
  BY <1>1 DEF RtpBusy
<1> QED BY <1>2, <1>3 DEF RtpOk

LEMMA IdleOk == RtpOk(RtpIdle) /\ RtpIdle.batch = {} /\ ProcOk(ProcIdle) /\ ProcIdle.batch = {}
BY DEF RtpOk, RtpIdle, ProcOk, ProcIdle

LEMMA ProcMove ==
    ASSUME NEW r, ProcOk(r), r.at # "nack", NEW x \in {"idle", "retry", "loop", "assembly", "fir"},
           NEW t, NEW b \in BOOLEAN, NEW k \in {"no rtx", "unsampled", "sampled"},
           NEW e, e \in {[r EXCEPT !.at = x], [r EXCEPT !.at = x, !.ts = t, !.timedOut = b],
                         [r EXCEPT !.at = x, !.timing = k]}
    PROVE  ProcOk(e) /\ e.batch = {}
<1>1. r.batch = {}
  BY DEF ProcOk
<1>2. CASE e = [r EXCEPT !.at = x]
  BY <1>1, <1>2 DEF ProcOk
<1>3. CASE e = [r EXCEPT !.at = x, !.ts = t, !.timedOut = b]
  BY <1>1, <1>3 DEF ProcOk
<1>4. CASE e = [r EXCEPT !.at = x, !.timing = k]
  BY <1>1, <1>4 DEF ProcOk
<1> QED BY <1>2, <1>3, <1>4

\* The steps of the thread that inserts packets.
LEMMA InsertSInv ==
    ASSUME SInv, InsertStep
    PROVE  SInv'
<1>1. now \in Nat /\ Sound(nack) /\ RtpOk(rtp) /\ ProcOk(proc)
        /\ Marked(nack) \subseteq rtp.batch \cup proc.batch
  BY DEF SInv
<1>2. ASSUME nack' = nack, rtp.at # "nack", RtpOk(rtp'), now' = now, proc' = proc
      PROVE  SInv'
  BY <1>1, <1>2, RtpBatch DEF SInv, Sound, Marked, Within, NackType, Lists, InfoType, RtpOk,
                              RtpIdle, RtpBusy, ProcOk
<1>3. CASE InsertRtpPacket
  <2>1. PICK p \in Stream, kind \in {"media", "rtx", "fec"} :
          rtp' = IF IsFrameTimestampObsolete(p.ts) /\ kind = "media" THEN RtpIdle
                 ELSE [at |-> IF IsFrameTimestampObsolete(p.ts) THEN "late" ELSE "track",
                       batch |-> {}, kind |-> kind, overflow |-> FALSE, packet |-> p]
    BY <1>3 DEF InsertRtpPacket
  <2>2. RtpOk(rtp')
    BY <2>1, IdleOk DEF RtpOk, RtpBusy
  <2> QED BY <1>2, <1>3, <2>2 DEF InsertRtpPacket
<1>4. CASE RetireLateRepair
  <2>1. PICK w \in ReorderWaits : nack' = OnReceivedPacket(nack, rtp.packet.seq, TRUE, w)
    BY <1>4 DEF RetireLateRepair
  <2>2. rtp.batch = {} /\ rtp \in RtpBusy
    BY <1>1, <1>4, RtpBatch DEF RetireLateRepair
  <2>3. rtp.packet.seq \in SeqNums /\ w \in SeqNums
    BY <2>2, StreamAssumption, NackAssumption DEF RtpBusy, SeqNums
  <2>4. Keeps(nack, nack')
    BY <1>1, <2>1, <2>3, ReceivedKeeps
  <2>5. rtp' = RtpIdle /\ proc' = proc /\ now' = now
    BY <1>4 DEF RetireLateRepair
  <2> QED BY <1>1, <2>2, <2>4, <2>5, IdleOk DEF SInv, Keeps
<1>5. CASE TrackSequence
  <2>1. rtp.batch = {} /\ rtp \in RtpBusy /\ proc' = proc /\ now' = now
    BY <1>1, <1>5, RtpBatch DEF TrackSequence
  <2>2. CASE ~rtx
    <3>1. rtp' = [rtp EXCEPT !.at = "payload"] /\ nack' = nack
      BY <1>5, <2>2 DEF TrackSequence, RtpAt
    <3>2. RtpOk(rtp')
      BY <1>1, <1>5, <3>1, RtpMove DEF TrackSequence
    <3> QED BY <1>2, <1>5, <2>1, <3>1, <3>2 DEF TrackSequence
  <2>3. CASE rtx
    <3>1. PICK w \in ReorderWaits :
            LET s     == rtp.packet.seq
                fixed == rtp.kind # "media"
                n     == OnReceivedPacket(nack, s, fixed, w)
                batch == IF Advances(nack, s, fixed) THEN GetNackBatch(n, "seq") ELSE {}
            IN  /\ nack' = [MarkPending(n, batch) EXCEPT !.keyFrame = FALSE]
                /\ rtp' = [rtp EXCEPT !.batch = batch, !.overflow = n.keyFrame,
                                      !.at = IF batch # {} THEN "nack"
                                             ELSE IF n.keyFrame THEN "await" ELSE "payload"]
      BY <1>5, <2>3 DEF TrackSequence
    <3>2. PICK s : s = rtp.packet.seq
      OBVIOUS
    <3>3. PICK fixed \in BOOLEAN : fixed = (rtp.kind # "media")
      OBVIOUS
    <3>4. PICK n : n = OnReceivedPacket(nack, s, fixed, w)
      OBVIOUS
    <3>5. PICK batch : batch = IF Advances(nack, s, fixed) THEN GetNackBatch(n, "seq") ELSE {}
      OBVIOUS
    <3>6. PICK m : m = MarkPending(n, batch)
      OBVIOUS
    <3>7. PICK where : where = IF batch # {} THEN "nack"
                               ELSE IF n.keyFrame THEN "await" ELSE "payload"
      OBVIOUS
    <3>8. /\ nack' = [m EXCEPT !.keyFrame = FALSE]
          /\ rtp' = [rtp EXCEPT !.batch = batch, !.overflow = n.keyFrame, !.at = where]
      BY <3>1, <3>2, <3>3, <3>4, <3>5, <3>6, <3>7
    <3>9. s \in SeqNums /\ w \in SeqNums
      BY <2>1, <3>2, StreamAssumption, NackAssumption DEF RtpBusy, SeqNums
    <3>10. Keeps(nack, n)
      BY <1>1, <3>4, <3>9, ReceivedKeeps
    <3>11. n \in NackType /\ n.keyFrame \in BOOLEAN
      BY <3>10 DEF Keeps, Sound, NackType
    <3>12. batch \in SUBSET SeqNums
      BY <3>5, <3>11, BatchInList
    <3>13. Sound(m) /\ Marked(m) \subseteq Marked(n) \cup batch
      BY <3>6, <3>10, MarkPendingSound DEF Keeps
    <3>14. Keeps(m, nack')
      BY <3>8, <3>13, KeyFrameKeeps
    <3>15. where \in {"nack", "await", "payload"} /\ (where # "nack" => batch = {})
      BY <3>7
    <3>16. rtp' \in RtpBusy
      BY <2>1, <3>8, <3>11, <3>12, <3>15 DEF RtpBusy
    <3>17. rtp'.batch = batch /\ rtp'.at = where
      BY <2>1, <3>8 DEF RtpBusy
    <3>18. RtpOk(rtp')
      BY <3>15, <3>16, <3>17 DEF RtpOk
    <3>19. Marked(nack') \subseteq rtp'.batch \cup proc'.batch
      BY <1>1, <2>1, <3>10, <3>13, <3>14, <3>17 DEF Keeps
    <3> QED BY <1>1, <2>1, <3>14, <3>18, <3>19 DEF SInv, Keeps
  <2> QED BY <2>2, <2>3
<1>6. CASE InsertSendsNack
  <2>1. rtp \in RtpBusy
    BY <1>1, <1>6 DEF InsertSendsNack, RtpOk, RtpIdle
  <2>2. PICK ok \in BOOLEAN : nack' = OnNackBatchSent(nack, rtp.batch, ok)
    BY <1>6 DEF InsertSendsNack, SendNackBatch
  <2>3. Sound(nack') /\ Marked(nack') \subseteq Marked(nack) \ rtp.batch
    BY <1>1, <2>2, BatchSentSound
  <2>4. PICK where \in {"await", "payload"} : where = IF rtp.overflow THEN "await" ELSE "payload"
    OBVIOUS
  <2>5. rtp' = [rtp EXCEPT !.at = where, !.batch = {}] /\ proc' = proc /\ now' = now
    BY <1>6, <2>4 DEF InsertSendsNack
  <2>6. rtp' \in RtpBusy
    BY <2>1, <2>5 DEF RtpBusy
  <2>7. rtp'.batch = {}
    BY <2>1, <2>5 DEF RtpBusy
  <2>8. RtpOk(rtp') /\ Marked(nack') \subseteq rtp'.batch \cup proc'.batch
    BY <1>1, <2>3, <2>5, <2>6, <2>7 DEF RtpOk
  <2> QED BY <1>1, <2>3, <2>5, <2>8 DEF SInv
<1>7. CASE EnterAwaiting
  <2>1. RtpOk(rtp')
    BY <1>1, <1>7, RtpMove DEF EnterAwaiting, RtpAt
  <2> QED BY <1>2, <1>7, <2>1 DEF EnterAwaiting
<1>8. CASE InsertSendsFir
  <2>1. rtp' = [rtp EXCEPT !.at = "payload", !.overflow = FALSE] \/ rtp' = RtpIdle
    BY <1>8 DEF InsertSendsFir
  <2>2. RtpOk(rtp')
    BY <1>1, <1>8, <2>1, RtpMove, IdleOk DEF InsertSendsFir
  <2> QED BY <1>2, <1>8, <2>2 DEF InsertSendsFir
<1>9. CASE TrackPendingFramePacket
  <2>1. RtpOk(rtp')
    BY <1>1, <1>9, RtpMove DEF TrackPendingFramePacket, RtpAt
  <2> QED BY <1>2, <1>9, <2>1 DEF TrackPendingFramePacket
<1>10. CASE CommitFrame \/ CommitSingle
  BY <1>2, <1>10, IdleOk DEF CommitFrame, CommitSingle
<1> QED BY <1>3, <1>4, <1>5, <1>6, <1>7, <1>8, <1>9, <1>10 DEF InsertStep

\* The steps of the thread that runs Process.
LEMMA ProcessSInv ==
    ASSUME SInv, ProcessStep
    PROVE  SInv'
<1>1. now \in Nat /\ Sound(nack) /\ RtpOk(rtp) /\ ProcOk(proc)
        /\ Marked(nack) \subseteq rtp.batch \cup proc.batch
  BY DEF SInv
<1>2. ASSUME Keeps(nack, nack'), proc.at # "nack", ProcOk(proc'), now' = now, rtp' = rtp
      PROVE  SInv'
  <2>1. proc.batch = {}
    BY <1>1, <1>2 DEF ProcOk
  <2> QED BY <1>1, <1>2, <2>1 DEF SInv, Keeps
<1>3. Keeps(nack, nack)
  BY <1>1 DEF Keeps
<1>4. CASE ProcessPendingNacks
  <2>1. PICK batch : batch = IF rtx THEN GetNackBatch(nack, "time") ELSE {}
    OBVIOUS
  <2>2. PICK where : where = IF batch = {} THEN "retry" ELSE "nack"
    OBVIOUS
  <2>3. /\ nack' = MarkPending(nack, batch) /\ now' = now /\ rtp' = rtp
        /\ proc' = [ProcIdle EXCEPT !.at = where, !.batch = batch]
        /\ proc.at = "idle"
    BY <1>4, <2>1, <2>2 DEF ProcessPendingNacks
  <2>4. batch \in SUBSET SeqNums
    BY <1>1, <2>1, BatchInList DEF Sound
  <2>5. Sound(nack') /\ Marked(nack') \subseteq Marked(nack) \cup batch
    BY <1>1, <2>3, MarkPendingSound
  <2>6. proc'.batch = batch /\ proc'.at = where
    BY <2>3 DEF ProcIdle
  <2>7. ProcOk(proc')
    BY <2>2, <2>3, <2>4, <2>6 DEF ProcIdle, ProcOk
  <2>8. proc.batch = {}
    BY <1>1, <2>3 DEF ProcOk
  <2> QED BY <1>1, <2>3, <2>5, <2>6, <2>7, <2>8 DEF SInv
<1>5. CASE ProcessSendsNack
  <2>1. PICK ok \in BOOLEAN : nack' = OnNackBatchSent(nack, proc.batch, ok)
    BY <1>5 DEF ProcessSendsNack, SendNackBatch
  <2>2. Sound(nack') /\ Marked(nack') \subseteq Marked(nack) \ proc.batch
    BY <1>1, <2>1, BatchSentSound
  <2>3. proc' = [proc EXCEPT !.at = "retry", !.batch = {}] /\ rtp' = rtp /\ now' = now
    BY <1>5 DEF ProcessSendsNack
  <2>4. ProcOk(proc')
    BY <1>1, <2>3 DEF ProcOk
  <2>5. Marked(nack') \subseteq rtp'.batch
    BY <1>1, <2>2, <2>3
  <2> QED BY <1>1, <2>2, <2>3, <2>4, <2>5 DEF SInv
<1>6. CASE MaybeRetryKeyFrameRequest
  <2>1. PICK k \in {"no rtx", "unsampled", "sampled"} :
          proc' = [proc EXCEPT !.at = "loop", !.timing = k]
    BY <1>6 DEF MaybeRetryKeyFrameRequest
  <2>2. proc.at = "retry" /\ nack' = nack /\ now' = now /\ rtp' = rtp
    BY <1>6 DEF MaybeRetryKeyFrameRequest
  <2>3. ProcOk(proc')
    BY <1>1, <2>1, <2>2, ProcMove
  <2> QED BY <1>2, <1>3, <2>2, <2>3
<1>7. CASE Wait \/ SoftStall \/ ProcessSendsFir
  <2>1. proc' = ProcIdle /\ nack' = nack /\ now' = now /\ rtp' = rtp /\ proc.at \in {"loop", "fir"}
    BY <1>7 DEF Wait, SoftStall, ProcessSendsFir, LoopTurn
  <2> QED BY <1>2, <1>3, <2>1, IdleOk
<1>8. CASE DropFrame
  <2>1. proc' = [proc EXCEPT !.at = "assembly", !.ts = Front, !.timedOut = FALSE]
    BY <1>8 DEF DropFrame
  <2>2. proc.at = "loop" /\ nack' = nack /\ now' = now /\ rtp' = rtp
    BY <1>8 DEF DropFrame, LoopTurn
  <2>3. ProcOk(proc')
    BY <1>1, <2>1, <2>2, ProcMove
  <2> QED BY <1>2, <1>3, <2>2, <2>3
<1>9. ASSUME nack' = IF pending[Front].last # NoSeq THEN ClearUpTo(nack, pending[Front].last)
                     ELSE nack
      PROVE  Keeps(nack, nack')
  BY <1>1, <1>3, <1>9, ClearUpToKeeps
<1>10. CASE Synchronize
  <2>1. proc.at = "loop" /\ proc' = proc /\ now' = now /\ rtp' = rtp /\ Keeps(nack, nack')
    BY <1>9, <1>10 DEF Synchronize, LoopTurn
  <2> QED BY <1>1, <1>2, <2>1
<1>11. CASE ReleaseFrame
  <2>1. proc.at = "loop" /\ proc' = proc /\ now' = now /\ rtp' = rtp /\ nack' = nack
    BY <1>11 DEF ReleaseFrame, LoopTurn
  <2> QED BY <1>1, <1>2, <1>3, <2>1
<1>12. CASE HardTimeout
  <2>1. proc' = [proc EXCEPT !.at = "assembly", !.ts = Front, !.timedOut = TRUE]
    BY <1>12 DEF HardTimeout
  <2>2. proc.at = "loop" /\ now' = now /\ rtp' = rtp /\ Keeps(nack, nack')
    BY <1>9, <1>12 DEF HardTimeout, LoopTurn
  <2>3. ProcOk(proc')
    BY <1>1, <2>1, <2>2, ProcMove
  <2> QED BY <1>2, <2>2, <2>3
<1>13. CASE SoftFir \/ DropFrameAssembly
  <2>1. PICK x \in {"fir", "loop"} : proc' = [proc EXCEPT !.at = x]
    BY <1>13 DEF SoftFir, DropFrameAssembly, ProcAt
  <2>2. proc.at \in {"loop", "assembly"} /\ nack' = nack /\ now' = now /\ rtp' = rtp
    BY <1>13 DEF SoftFir, DropFrameAssembly, LoopTurn
  <2>3. ProcOk(proc')
    BY <1>1, <2>1, <2>2, ProcMove
  <2> QED BY <1>2, <1>3, <2>2, <2>3
<1> QED BY <1>4, <1>5, <1>6, <1>7, <1>8, <1>10, <1>11, <1>12, <1>13 DEF ProcessStep

LEMMA SInvariance == RvSpec => []SInv
<1>1. RvInit => SInv
  BY NewNackSound, IdleOk DEF RvInit, SInv
<1>2. SInv /\ [RvNext]_rvVars => SInv'
  <2> SUFFICES ASSUME SInv, [RvNext]_rvVars PROVE SInv'
    OBVIOUS
  <2>1. CASE OnRttUpdate
    <3>1. DefaultRtt \in Int
      BY NackAssumption
    <3>2. Keeps(nack, nack')
      BY <2>1, <3>1, UpdateRttKeeps DEF OnRttUpdate, SInv
    <3>3. now' = now /\ rtp' = rtp /\ proc' = proc
      BY <2>1 DEF OnRttUpdate
    <3> QED BY <3>2, <3>3 DEF SInv, Keeps
  <2>2. CASE RvPassTime
    <3>1. nack' = nack /\ rtp' = rtp /\ proc' = proc /\ now' = now + 1
      BY <2>2 DEF RvPassTime
    <3> QED BY <3>1 DEF SInv
  <2>3. CASE UNCHANGED rvVars
    <3>1. nack' = nack /\ rtp' = rtp /\ proc' = proc /\ now' = now
      BY <2>3 DEF rvVars
    <3> QED BY <3>1 DEF SInv
  <2> QED BY <2>1, <2>2, <2>3, InsertSInv, ProcessSInv DEF RvNext
<1> QED BY <1>1, <1>2, PTL DEF RvSpec

(***************************************************************************)
(* Whichever way the two threads interleave between preparing a batch and  *)
(* recording its result, and whichever numbers are retired, expire or are  *)
(* forgotten meanwhile: no number stays marked that nobody is sending.     *)
(***************************************************************************)
THEOREM NumbersDoNotStayMarked == RvSpec => []SendsAreResolved
<1>1. SInv => SendsAreResolved
  BY DEF SInv, Marked, SendsAreResolved
<1> QED BY <1>1, SInvariance, PTL

(***************************************************************************)
(* The limits of the requester hold inside the receiver too, where batches *)
(* are in flight while packets arrive and frames are given up.             *)
(***************************************************************************)
THEOREM ReceiverStaysWithinLimits == RvSpec => []NackWithinLimits
<1>1. SInv => NackWithinLimits
  BY SoundIsWithin DEF SInv
<1> QED BY <1>1, SInvariance, PTL

-----------------------------------------------------------------------------
(***************************************************************************)
(* The order of release.  last_complete_frame_ts_ is the last timestamp    *)
(* released; a frame at or before it never gets past the first test.       *)
(***************************************************************************)
OInv ==
    /\ \E S : released \in Seq(S)
    /\ lastComplete = IF released = <<>> THEN {} ELSE {released[Len(released)]}
    /\ ReleasedInOrder

LEMMA ReleaseOInv ==
    ASSUME OInv, Release(Front), ~TooOld(Front)
    PROVE  OInv'
<1>1. PICK t : t = Front
  OBVIOUS
<1>2. PICK S : released \in Seq(S)
  BY DEF OInv
<1>3. PICK n \in Nat : n = Len(released)
  BY <1>2
<1>4. released' = Append(released, t) /\ lastComplete' = {t}
  BY <1>1 DEF Release
<1>5. released \in Seq(S \cup {t})
  BY <1>2
<1>6. released' \in Seq(S \cup {t}) /\ Len(released') = n + 1 /\ released'[n + 1] = t
  BY <1>3, <1>4, <1>5
<1>7. \A i \in 1..n : released'[i] = released[i]
  BY <1>3, <1>4, <1>5
<1>8. ASSUME NEW i \in 1..n PROVE Later(released'[i + 1], released'[i])
  <2>1. CASE i < n
    <3>1. i \in 1..(n - 1) /\ i + 1 \in 1..n
      BY <1>3, <2>1
    <3>2. Later(released[i + 1], released[i])
      BY <1>3, <3>1 DEF OInv, ReleasedInOrder
    <3> QED BY <1>7, <3>1, <3>2
  <2>2. CASE i = n
    <3>1. released # <<>>
      BY <1>3, <2>2
    <3>2. lastComplete = {released[n]}
      BY <1>3, <3>1 DEF OInv
    <3>3. Later(t, released[n])
      BY <1>1, <3>2 DEF TooOld
    <3> QED BY <1>6, <1>7, <2>2, <3>3
  <2> QED BY <2>1, <2>2, <1>3
<1>9. ReleasedInOrder'
  BY <1>3, <1>6, <1>8 DEF ReleasedInOrder, Later
<1>10. released' # <<>> /\ lastComplete' = {released'[Len(released')]}
  BY <1>3, <1>4, <1>6
<1> QED BY <1>6, <1>9, <1>10 DEF OInv

(***************************************************************************)
(* For every stream, every loss and reordering and every interleaving: the *)
(* frames are released in the order of their timestamps, none twice.       *)
(***************************************************************************)
THEOREM FramesAreReleasedInOrder == RvSpec => []ReleasedInOrder
<1>1. RvInit => OInv
  BY DEF RvInit, OInv, ReleasedInOrder
<1>2. OInv /\ [RvNext]_rvVars => OInv'
  <2> SUFFICES ASSUME OInv, [RvNext]_rvVars PROVE OInv'
    OBVIOUS
  <2>1. ASSUME released' = released, lastComplete' = lastComplete PROVE OInv'
    BY <2>1 DEF OInv, ReleasedInOrder
  <2>2. CASE Synchronize \/ ReleaseFrame
    <3>1. Verdict \in {"synchronize", "release"} /\ Release(Front)
      BY <2>2 DEF Synchronize, ReleaseFrame, LoopTurn
    <3>2. ~TooOld(Front)
      BY <3>1 DEF Verdict
    <3> QED BY <3>1, <3>2, ReleaseOInv
  <2>3. CASE InsertStep
    BY <2>1, <2>3 DEF InsertStep, InsertRtpPacket, RetireLateRepair, TrackSequence,
      InsertSendsNack, EnterAwaiting, InsertSendsFir, TrackPendingFramePacket, CommitFrame,
      CommitSingle, doneVars
  <2>4. CASE ProcessStep
    BY <2>1, <2>2, <2>4 DEF ProcessStep, ProcessPendingNacks, ProcessSendsNack,
      MaybeRetryKeyFrameRequest, Wait, DropFrame, HardTimeout, SoftStall, SoftFir,
      DropFrameAssembly, ProcessSendsFir, doneVars
  <2>5. CASE OnRttUpdate \/ RvPassTime \/ UNCHANGED rvVars
    BY <2>1, <2>5 DEF OnRttUpdate, RvPassTime, rvVars, doneVars
  <2> QED BY <2>3, <2>4, <2>5 DEF RvNext
<1>3. OInv => ReleasedInOrder
  BY DEF OInv
<1> QED BY <1>1, <1>2, <1>3, PTL DEF RvSpec
=============================================================================
