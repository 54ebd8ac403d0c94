-------------------------- MODULE PacedSenderProofs --------------------------
(***************************************************************************)
(* The books of the packet queue, the delayed task of the pacer and the    *)
(* cut of a pause, for any streams, sources and times.                     *)
(*                                                                         *)
(* What the books count is counted by the places the packets stand at:     *)
(* first for the contents of a queue alone (what a push, a pop and a purge *)
(* do to the places), then for the queue's operations, then for the pacer. *)
(***************************************************************************)
EXTENDS PacedSender, FiniteSetTheorems, TLAPS

Packet == [ssrc : Ssrcs, kind : {"audio", "rtx", "video", "padding"},
           key : {"delta", "first", "rest"}, cap : Int, at : Int]

\* The contents of a queue: the packets of each stream at each level.
Contents == [Ssrcs -> [Levels -> Seq(Packet)]]

Places(f, S) ==
    UNION {UNION {{<<s, l, i>> : i \in 1..Len(f[s][l])} : l \in Levels} : s \in S}

At(f, x) == f[x[1]][x[2]][x[3]]

\* The time a packet has waited, if u is now, less the time of all pauses.
Wait(f, u, x) == u - At(f, x).at

Units(f, u, S) == UNION {{<<x, t>> : t \in 1..Wait(f, u, x)} : x \in Places(f, S)}

Keys(f, s) == {x \in Places(f, {s}) : IsKey(At(f, x))}

-----------------------------------------------------------------------------
(* The places. *)

\* A place is a stream, a level and a position.
LEMMA PlacesAre ==
    ASSUME NEW f \in Contents, NEW S \in SUBSET Ssrcs
    PROVE  /\ \A s, l, i : <<s, l, i>> \in Places(f, S)
                             <=> s \in S /\ l \in Levels /\ i \in 1..Len(f[s][l])
           /\ \A x \in Places(f, S) :
                  \E s, l, i : /\ s \in S /\ l \in Levels /\ i \in 1..Len(f[s][l])
                               /\ x = <<s, l, i>>
<1>1. \A x \in Places(f, S) :
          \E s, l, i : s \in S /\ l \in Levels /\ i \in 1..Len(f[s][l]) /\ x = <<s, l, i>>
  BY SMT DEF Places
<1>2. ASSUME NEW s, NEW l, NEW i, <<s, l, i>> \in Places(f, S)
      PROVE  s \in S /\ l \in Levels /\ i \in 1..Len(f[s][l])
  <2>1. PICK t, m, j : t \in S /\ m \in Levels /\ j \in 1..Len(f[t][m]) /\ <<s, l, i>> = <<t, m, j>>
    BY <1>1, <1>2, Zenon
  <2>2. s = t /\ l = m /\ i = j
    BY <2>1
  <2>. QED
    BY <2>1, <2>2
<1>3. ASSUME NEW s \in S, NEW l \in Levels, NEW i \in 1..Len(f[s][l])
      PROVE  <<s, l, i>> \in Places(f, S)
  BY SMT DEF Places
<1>. QED
  BY <1>1, <1>2, <1>3, Zenon

\* A unit of waiting time is a place and a number up to what its packet waited.
LEMMA UnitsAre ==
    ASSUME NEW f \in Contents, NEW S \in SUBSET Ssrcs, NEW u \in Int
    PROVE  /\ \A x, t : <<x, t>> \in Units(f, u, S)
                          <=> x \in Places(f, S) /\ t \in 1..Wait(f, u, x)
           /\ \A y \in Units(f, u, S) :
                  \E x \in Places(f, S) : \E t \in 1..Wait(f, u, x) : y = <<x, t>>
<1>1. \A y \in Units(f, u, S) :
          \E x \in Places(f, S) : \E t \in 1..Wait(f, u, x) : y = <<x, t>>
  BY Zenon DEF Units
<1>2. ASSUME NEW x, NEW t, <<x, t>> \in Units(f, u, S)
      PROVE  x \in Places(f, S) /\ t \in 1..Wait(f, u, x)
  <2>1. PICK z \in Places(f, S) : \E r \in 1..Wait(f, u, z) : <<x, t>> = <<z, r>>
    BY <1>1, <1>2, Zenon
  <2>2. PICK r \in 1..Wait(f, u, z) : <<x, t>> = <<z, r>>
    BY <2>1
  <2>3. x = z /\ t = r
    BY <2>2
  <2>. QED
    BY <2>1, <2>2, <2>3
<1>3. ASSUME NEW x \in Places(f, S), NEW t \in 1..Wait(f, u, x)
      PROVE  <<x, t>> \in Units(f, u, S)
  BY SMT DEF Units
<1>. QED
  BY <1>1, <1>2, <1>3, Zenon

LEMMA UnitIs ==
    ASSUME NEW f \in Contents, NEW S \in SUBSET Ssrcs, NEW u \in Int, NEW y \in Units(f, u, S)
    PROVE  \E x \in Places(f, S) : \E t \in 1..Wait(f, u, x) : y = <<x, t>>
BY Zenon DEF Units

\* What stands at a place.
LEMMA PlaceHolds ==
    ASSUME NEW f \in Contents, NEW s \in Ssrcs, NEW l \in Levels, NEW i \in 1..Len(f[s][l])
    PROVE  At(f, <<s, l, i>>) = f[s][l][i] /\ f[s][l][i] \in Packet /\ f[s][l][i].at \in Int
<1>1. f[s][l] \in Seq(Packet)
  BY DEF Contents
<1>2. f[s][l][i] \in Packet
  BY <1>1
<1>. QED
  BY <1>2 DEF At, Packet

\* Two sets between which there is a bijection, given as a function.
LEMMA SameCount ==
    ASSUME NEW A, NEW B, IsFiniteSet(B), NEW h \in [A -> B],
           \A x, y \in A : h[x] = h[y] => x = y,
           \A y \in B : \E x \in A : h[x] = y
    PROVE  IsFiniteSet(A) /\ Cardinality(A) = Cardinality(B)
<1>1. h \in Injection(A, B)
  BY DEF Injection, IsInjective
<1>2. h \in Surjection(A, B)
  BY DEF Surjection
<1>. QED
  BY <1>1, <1>2, FS_Injection

\* Units and keys of the places named.
LEMMA KeysAre ==
    ASSUME NEW f \in Contents, NEW s \in Ssrcs
    PROVE  \A x : x \in Keys(f, s) <=> x \in Places(f, {s}) /\ IsKey(At(f, x))
BY Zenon DEF Keys

\* The contents as a whole: what is finite and what it counts.
Counted(f, u, n, keys, sum) ==
    /\ IsFiniteSet(Places(f, Ssrcs)) /\ n = Cardinality(Places(f, Ssrcs))
    /\ \A s \in Ssrcs : keys[s] = Cardinality(Keys(f, s))
    /\ \A x \in Places(f, Ssrcs) : Wait(f, u, x) >= 0
    /\ IsFiniteSet(Units(f, u, Ssrcs)) /\ sum = Cardinality(Units(f, u, Ssrcs))

\* The places of one stream are places.
LEMMA PlacesWithin ==
    ASSUME NEW f \in Contents, NEW s \in Ssrcs
    PROVE  Places(f, {s}) \subseteq Places(f, Ssrcs)
<1>1. SUFFICES ASSUME NEW x \in Places(f, {s}) PROVE x \in Places(f, Ssrcs)
  OBVIOUS
<1>2. PICK l, i : l \in Levels /\ i \in 1..Len(f[s][l]) /\ x = <<s, l, i>>
  BY PlacesAre
<1>. QED
  BY <1>2, PlacesAre

\* The key frame packets of a stream are finitely many.
LEMMA KeysFinite ==
    ASSUME NEW f \in Contents, IsFiniteSet(Places(f, Ssrcs)), NEW s \in Ssrcs
    PROVE  IsFiniteSet(Keys(f, s)) /\ Cardinality(Keys(f, s)) \in Nat
<1>1. Keys(f, s) \subseteq Places(f, Ssrcs)
  BY PlacesWithin DEF Keys
<1>. QED
  BY <1>1, FS_Subset, FS_CardinalityType

LEMMA CountedType ==
    ASSUME NEW f \in Contents, NEW u, NEW n, NEW keys, NEW sum, Counted(f, u, n, keys, sum)
    PROVE  n \in Nat /\ sum \in Nat /\ (\A s \in Ssrcs : keys[s] \in Nat)
           /\ (n = 0 <=> Places(f, Ssrcs) = {})
BY KeysFinite, FS_CardinalityType, FS_EmptySet DEF Counted

\* Time passes for every packet: d units for each.
LEMMA UnitsGrow ==
    ASSUME NEW f \in Contents, NEW u \in Int, NEW d \in Nat, NEW n, NEW keys, NEW sum,
           Counted(f, u, n, keys, sum)
    PROVE  Counted(f, u + d, n, keys, sum + d * n)
<1>. DEFINE P == Places(f, Ssrcs)
            U == Units(f, u, Ssrcs)
            V == Units(f, u + d, Ssrcs)
            M == V \ U
            h == [y \in M |-> <<y[1], y[2] - Wait(f, u, y[1])>>]
<1>0. IsFiniteSet(P) /\ n = Cardinality(P) /\ IsFiniteSet(U) /\ sum = Cardinality(U)
      /\ n \in Nat /\ sum \in Nat
  BY CountedType DEF Counted
<1>1. ASSUME NEW x \in P
      PROVE  Wait(f, u, x) \in Nat /\ Wait(f, u + d, x) = Wait(f, u, x) + d
  <2>1. PICK s, l, i : s \in Ssrcs /\ l \in Levels /\ i \in 1..Len(f[s][l]) /\ x = <<s, l, i>>
    BY PlacesAre
  <2>2. At(f, x).at \in Int
    BY <2>1, PlaceHolds
  <2>3. Wait(f, u, x) >= 0
    BY DEF Counted
  <2>. QED
    BY <2>2, <2>3 DEF Wait
<1>2. \A x, t : <<x, t>> \in U <=> x \in P /\ t \in 1..Wait(f, u, x)
  BY UnitsAre
<1>. u + d \in Int
  OBVIOUS
<1>3. \A x, t : <<x, t>> \in V <=> x \in P /\ t \in 1..Wait(f, u + d, x)
  BY UnitsAre
<1>4. /\ \A y \in U : \E x, t : y = <<x, t>>
      /\ \A y \in V : \E x, t : y = <<x, t>>
  <2>1. \A y \in U : \E x \in P : \E t \in 1..Wait(f, u, x) : y = <<x, t>>
    BY UnitsAre
  <2>2. \A y \in V : \E x \in P : \E t \in 1..Wait(f, u + d, x) : y = <<x, t>>
    BY UnitsAre
  <2>. QED
    BY <2>1, <2>2
<1>5. \A x \in P : Wait(f, u + d, x) >= 0
  BY <1>1
<1>. HIDE DEF P, U, V
<1>6. U \subseteq V
  BY <1>1, <1>2, <1>3, <1>4
<1>7. ASSUME NEW y \in M
      PROVE  \E x \in P, k \in 1..d : y = <<x, Wait(f, u, x) + k>> /\ h[y] = <<x, k>>
  <2>1. PICK x, t : y = <<x, t>>
    BY <1>4
  <2>2. x \in P /\ t \in 1..Wait(f, u + d, x) /\ t \notin 1..Wait(f, u, x)
    BY <1>2, <1>3, <2>1
  <2>3. Wait(f, u, x) \in Nat /\ Wait(f, u + d, x) = Wait(f, u, x) + d /\ t \in Int
    BY <1>1, <2>2
  <2>. PICK w \in Nat : w = Wait(f, u, x)
    BY <2>3
  <2>6. t \in 1..(w + d) /\ t \notin 1..w
    BY <2>2, <2>3
  <2>7. t - w \in 1..d /\ t = w + (t - w)
    BY <2>3, <2>6
  <2>4. PICK k \in 1..d : t = Wait(f, u, x) + k /\ t - Wait(f, u, x) = k
    BY <2>7
  <2>5. h[y] = <<x, t - Wait(f, u, x)>>
    BY <2>1
  <2>. QED
    BY <2>1, <2>2, <2>3, <2>4, <2>5
<1>8. h \in [M -> P \X (1..d)]
  BY <1>7
<1>9. ASSUME NEW y \in M, NEW z \in M, h[y] = h[z] PROVE y = z
  <2>. HIDE DEF h, M
  <2>1. PICK x \in P, k \in 1..d : y = <<x, Wait(f, u, x) + k>> /\ h[y] = <<x, k>>
    BY <1>7
  <2>2. PICK x2 \in P, k2 \in 1..d : z = <<x2, Wait(f, u, x2) + k2>> /\ h[z] = <<x2, k2>>
    BY <1>7
  <2>3. x = x2 /\ k = k2
    BY <1>9, <2>1, <2>2
  <2>. QED
    BY <2>1, <2>2, <2>3
<1>10. ASSUME NEW z \in P \X (1..d) PROVE \E y \in M : h[y] = z
  <2>1. PICK x \in P, k \in 1..d : z = <<x, k>>
    OBVIOUS
  <2>2. Wait(f, u, x) \in Nat /\ Wait(f, u + d, x) = Wait(f, u, x) + d
    BY <1>1
  <2>3. <<x, Wait(f, u, x) + k>> \in M
    BY <1>2, <1>3, <2>2
  <2>4. h[<<x, Wait(f, u, x) + k>>] = <<x, (Wait(f, u, x) + k) - Wait(f, u, x)>>
    BY <2>3
  <2>5. (Wait(f, u, x) + k) - Wait(f, u, x) = k
    BY <2>2
  <2>. QED
    BY <2>1, <2>3, <2>4, <2>5
<1>. HIDE DEF h
<1>11. IsFiniteSet(P \X (1..d)) /\ Cardinality(P \X (1..d)) = n * d
  <2>1. IsFiniteSet(1..d) /\ Cardinality(1..d) = d
    BY FS_Interval
  <2>. QED
    BY <1>0, <2>1, FS_Product
<1>12. IsFiniteSet(M) /\ Cardinality(M) = n * d
  BY <1>8, <1>9, <1>10, <1>11, SameCount
<1>13. V = U \cup M /\ U \cap M = {}
  BY <1>6
<1>14. IsFiniteSet(V) /\ Cardinality(V) = Cardinality(U) + Cardinality(M) - Cardinality({})
  BY <1>0, <1>12, <1>13, FS_Union
<1>15. n * d = d * n /\ n * d \in Nat
  BY <1>0
<1>16. Cardinality(V) = sum + d * n
  BY <1>0, <1>12, <1>14, <1>15, FS_EmptySet
<1>. QED
  BY <1>5, <1>14, <1>16 DEF Counted, P, V

\* A packet that comes in last has not waited yet.
LEMMA PlacesPush ==
    ASSUME NEW f \in Contents, NEW u \in Int, NEW n, NEW keys, NEW sum,
           Counted(f, u, n, keys, sum),
           NEW s \in Ssrcs, NEW l \in Levels, NEW pkt \in Packet, pkt.at = u,
           NEW g \in Contents, g[s][l] = Append(f[s][l], pkt),
           \A r \in Ssrcs, m \in Levels : (r # s \/ m # l) => g[r][m] = f[r][m],
           NEW more, \A r \in Ssrcs : more[r] = IF r = s /\ IsKey(pkt) THEN keys[r] + 1 ELSE keys[r]
    PROVE  Counted(g, u, n + 1, more, sum)
<1>. DEFINE new == <<s, l, Len(f[s][l]) + 1>>
<1>0. f[s][l] \in Seq(Packet) /\ Len(f[s][l]) \in Nat /\ pkt.at \in Int
  <2>1. f[s][l] \in Seq(Packet)
    BY DEF Contents
  <2>. QED
    BY <2>1 DEF Packet
<1>1. g[s][l] = Append(f[s][l], pkt)
  OBVIOUS
<1>2. \A r \in Ssrcs, m \in Levels : (r # s \/ m # l) => g[r][m] = f[r][m]
  OBVIOUS
<1>3. /\ Len(g[s][l]) = Len(f[s][l]) + 1
      /\ \A i \in 1..Len(f[s][l]) : g[s][l][i] = f[s][l][i]
      /\ g[s][l][Len(f[s][l]) + 1] = pkt
  BY <1>0, <1>1
<1>4. ASSUME NEW S \in SUBSET Ssrcs, s \in S
      PROVE  /\ Places(g, S) = Places(f, S) \cup {new}
             /\ new \notin Places(f, S)
  <2>1. ASSUME NEW x \in Places(g, S) PROVE x \in Places(f, S) \cup {new}
    <3>1. PICK r, m, i : r \in S /\ m \in Levels /\ i \in 1..Len(g[r][m]) /\ x = <<r, m, i>>
      BY PlacesAre
    <3>2. CASE r = s /\ m = l
      <4>1. i \in 1..Len(f[s][l]) \/ i = Len(f[s][l]) + 1
        BY <1>0, <1>3, <3>1, <3>2
      <4>. QED
        BY <3>1, <3>2, <4>1, PlacesAre
    <3>3. CASE r # s \/ m # l
      BY <1>2, <3>1, <3>3, PlacesAre
    <3>. QED
      BY <3>2, <3>3
  <2>2. ASSUME NEW x \in Places(f, S) PROVE x \in Places(g, S)
    <3>1. PICK r, m, i : r \in S /\ m \in Levels /\ i \in 1..Len(f[r][m]) /\ x = <<r, m, i>>
      BY PlacesAre
    <3>2. i \in 1..Len(g[r][m])
      BY <1>0, <1>2, <1>3, <3>1
    <3>. QED
      BY <3>1, <3>2, PlacesAre
  <2>3. new \in Places(g, S)
    <3>1. Len(f[s][l]) + 1 \in 1..Len(g[s][l])
      BY <1>0, <1>3
    <3>. QED
      BY <1>4, <3>1, PlacesAre
  <2>4. new \notin Places(f, S)
    <3>1. Len(f[s][l]) + 1 \notin 1..Len(f[s][l])
      BY <1>0
    <3>. QED
      BY <3>1, PlacesAre
  <2>. QED
    BY <2>1, <2>2, <2>3, <2>4
<1>5. ASSUME NEW x \in Places(f, Ssrcs) PROVE At(g, x) = At(f, x)
  <2>1. PICK r, m, i : r \in Ssrcs /\ m \in Levels /\ i \in 1..Len(f[r][m]) /\ x = <<r, m, i>>
    BY PlacesAre
  <2>2. g[r][m][i] = f[r][m][i]
    BY <1>2, <1>3, <2>1
  <2>. QED
    BY <2>1, <2>2 DEF At
<1>6. At(g, new) = pkt
  BY <1>3 DEF At
<1>7. Places(g, Ssrcs) = Places(f, Ssrcs) \cup {new} /\ new \notin Places(f, Ssrcs)
  BY <1>4
<1>. HIDE DEF new
<1>8. /\ IsFiniteSet(Places(g, Ssrcs))
      /\ Cardinality(Places(g, Ssrcs)) = Cardinality(Places(f, Ssrcs)) + 1
  BY <1>7, FS_AddElement DEF Counted
<1>9. ASSUME NEW r \in Ssrcs PROVE more[r] = Cardinality(Keys(g, r))
  <2>1. CASE r # s
    <3>1. Places(g, {r}) = Places(f, {r})
      <4>1. \A m \in Levels : g[r][m] = f[r][m]
        BY <1>2, <2>1
      <4>. QED
        BY <4>1 DEF Places
    <3>2. Keys(g, r) = Keys(f, r)
      BY <1>5, <3>1, PlacesWithin DEF Keys
    <3>. QED
      BY <2>1, <3>2 DEF Counted
  <2>2. CASE r = s
    <3>1. Places(g, {s}) = Places(f, {s}) \cup {new} /\ new \notin Places(f, {s})
      BY <1>4
    <3>2. \A x \in Places(f, {s}) : At(g, x) = At(f, x)
      BY <1>5, PlacesWithin
    <3>3. CASE IsKey(pkt)
      <4>1. Keys(g, s) = Keys(f, s) \cup {new} /\ new \notin Keys(f, s)
        BY <1>6, <3>1, <3>2, <3>3 DEF Keys
      <4>2. IsFiniteSet(Keys(f, s))
        BY KeysFinite DEF Counted
      <4>3. Cardinality(Keys(g, s)) = Cardinality(Keys(f, s)) + 1
        BY <4>1, <4>2, FS_AddElement
      <4>4. more[s] = keys[s] + 1 /\ keys[s] = Cardinality(Keys(f, s))
        BY <3>3 DEF Counted
      <4>. QED
        BY <2>2, <4>3, <4>4
    <3>4. CASE ~IsKey(pkt)
      <4>1. Keys(g, s) = Keys(f, s)
        BY <1>6, <3>1, <3>2, <3>4 DEF Keys
      <4>2. more[s] = keys[s] /\ keys[s] = Cardinality(Keys(f, s))
        BY <3>4 DEF Counted
      <4>. QED
        BY <2>2, <4>1, <4>2
    <3>. QED
      BY <3>3, <3>4
  <2>. QED
    BY <2>1, <2>2
<1>10. \A x \in Places(f, Ssrcs) : Wait(g, u, x) = Wait(f, u, x)
  BY <1>5 DEF Wait
<1>11. Wait(g, u, new) = 0
  BY <1>0, <1>6 DEF Wait
<1>12. Units(g, u, Ssrcs) = Units(f, u, Ssrcs)
  <2>1. ASSUME NEW y \in Units(g, u, Ssrcs) PROVE y \in Units(f, u, Ssrcs)
    <3>. Ssrcs \in SUBSET Ssrcs
      OBVIOUS
    <3>1. PICK x \in Places(g, Ssrcs) : \E t \in 1..Wait(g, u, x) : y = <<x, t>>
      BY UnitsAre
    <3>2. PICK t \in 1..Wait(g, u, x) : y = <<x, t>>
      BY <3>1
    <3>3. x # new
      BY <1>11, <3>2
    <3>. QED
      BY <1>7, <1>10, <3>2, <3>3, UnitsAre
  <2>2. ASSUME NEW y \in Units(f, u, Ssrcs) PROVE y \in Units(g, u, Ssrcs)
    <3>1. PICK x \in Places(f, Ssrcs) : \E t \in 1..Wait(f, u, x) : y = <<x, t>>
      BY Zenon DEF Units
    <3>. QED
      BY <1>7, <1>10, <3>1, UnitsAre
  <2>. QED
    BY <2>1, <2>2
<1>. QED
  BY <1>7, <1>8, <1>9, <1>10, <1>11, <1>12 DEF Counted

\* After the first packet of stream s at level l has left, the place x of another
\* is the one behind what it was.
Behind(s, l, x) == IF x[1] = s /\ x[2] = l THEN <<s, l, x[3] + 1>> ELSE x

LEMMA PlacesShift ==
    ASSUME NEW f \in Contents, NEW s \in Ssrcs, NEW l \in Levels, f[s][l] # <<>>,
           NEW g \in Contents, g[s][l] = Tail(f[s][l]),
           \A r \in Ssrcs, m \in Levels : (r # s \/ m # l) => g[r][m] = f[r][m],
           NEW S \in SUBSET Ssrcs
    PROVE  /\ \A x \in Places(g, S) : /\ Behind(s, l, x) \in Places(f, S) \ {<<s, l, 1>>}
                                      /\ At(f, Behind(s, l, x)) = At(g, x)
           /\ \A x, y \in Places(g, S) : Behind(s, l, x) = Behind(s, l, y) => x = y
           /\ \A y \in Places(f, S) \ {<<s, l, 1>>} : \E x \in Places(g, S) : Behind(s, l, x) = y
<1>0. f[s][l] \in Seq(Packet) /\ Len(f[s][l]) \in Nat \ {0}
  <2>1. f[s][l] \in Seq(Packet)
    BY DEF Contents
  <2>. QED
    BY <2>1
<1>1. /\ Len(g[s][l]) = Len(f[s][l]) - 1
      /\ \A i \in 1..(Len(f[s][l]) - 1) : g[s][l][i] = f[s][l][i + 1]
  BY <1>0
<1>2. ASSUME NEW x \in Places(g, S)
      PROVE  /\ Behind(s, l, x) \in Places(f, S) \ {<<s, l, 1>>}
             /\ At(f, Behind(s, l, x)) = At(g, x)
             /\ \E r, m, i : r \in S /\ m \in Levels /\ i \in 1..Len(g[r][m]) /\ x = <<r, m, i>>
                   /\ Behind(s, l, x) = IF r = s /\ m = l THEN <<s, l, i + 1>> ELSE <<r, m, i>>
  <2>1. PICK r, m, i : r \in S /\ m \in Levels /\ i \in 1..Len(g[r][m]) /\ x = <<r, m, i>>
    BY PlacesAre
  <2>2. Behind(s, l, x) = IF r = s /\ m = l THEN <<s, l, i + 1>> ELSE <<r, m, i>>
    BY <2>1 DEF Behind
  <2>3. CASE r = s /\ m = l
    <3>0. i \in 1..(Len(f[s][l]) - 1)
      BY <1>1, <2>1, <2>3
    <3>1. i + 1 \in 1..Len(f[s][l]) /\ i + 1 # 1 /\ g[s][l][i] = f[s][l][i + 1]
      BY <1>0, <1>1, <3>0
    <3>2. <<s, l, i + 1>> \in Places(f, S) /\ <<s, l, i + 1>> # <<s, l, 1>>
      BY <2>1, <2>3, <3>1, PlacesAre
    <3>3. At(f, <<s, l, i + 1>>) = At(g, x)
      <4>1. At(f, <<s, l, i + 1>>) = f[s][l][i + 1]
        BY DEF At
      <4>2. At(g, x) = g[s][l][i]
        BY <2>1, <2>3 DEF At
      <4>. QED
        BY <3>1, <4>1, <4>2
    <3>4. Behind(s, l, x) = <<s, l, i + 1>>
      BY <2>2, <2>3
    <3>. QED
      BY <2>1, <2>2, <3>2, <3>3, <3>4
  <2>4. CASE ~(r = s /\ m = l)
    <3>1. g[r][m] = f[r][m]
      BY <2>1, <2>4
    <3>2. <<r, m, i>> \in Places(f, S) /\ <<r, m, i>> # <<s, l, 1>>
      BY <2>1, <2>4, <3>1, PlacesAre
    <3>3. At(f, <<r, m, i>>) = At(g, x)
      BY <2>1, <3>1 DEF At
    <3>. QED
      BY <2>1, <2>2, <2>4, <3>2, <3>3
  <2>. QED
    BY <2>3, <2>4
<1>3. ASSUME NEW x \in Places(g, S), NEW y \in Places(g, S), Behind(s, l, x) = Behind(s, l, y)
      PROVE  x = y
  <2>1. PICK r, m, i : /\ r \in S /\ m \in Levels /\ i \in 1..Len(g[r][m]) /\ x = <<r, m, i>>
                       /\ Behind(s, l, x) = IF r = s /\ m = l THEN <<s, l, i + 1>> ELSE <<r, m, i>>
    BY <1>2
  <2>2. PICK q, k, j : /\ q \in S /\ k \in Levels /\ j \in 1..Len(g[q][k]) /\ y = <<q, k, j>>
                       /\ Behind(s, l, y) = IF q = s /\ k = l THEN <<s, l, j + 1>> ELSE <<q, k, j>>
    BY <1>2
  <2>3. r = q /\ m = k /\ i = j
    BY <1>3, <2>1, <2>2
  <2>. QED
    BY <2>1, <2>2, <2>3
<1>4. ASSUME NEW y \in Places(f, S) \ {<<s, l, 1>>}
      PROVE  \E x \in Places(g, S) : Behind(s, l, x) = y
  <2>1. PICK r, m, i : r \in S /\ m \in Levels /\ i \in 1..Len(f[r][m]) /\ y = <<r, m, i>>
    BY PlacesAre
  <2>2. CASE r = s /\ m = l
    <3>1. i # 1
      BY <1>4, <2>1, <2>2
    <3>2. i - 1 \in 1..Len(g[s][l]) /\ (i - 1) + 1 = i
      BY <1>0, <1>1, <2>1, <2>2, <3>1
    <3>3. <<s, l, i - 1>> \in Places(g, S)
      BY <2>1, <2>2, <3>2, PlacesAre
    <3>4. Behind(s, l, <<s, l, i - 1>>) = <<s, l, (i - 1) + 1>>
      BY DEF Behind
    <3>. QED
      BY <2>1, <2>2, <3>2, <3>3, <3>4
  <2>3. CASE ~(r = s /\ m = l)
    <3>1. g[r][m] = f[r][m]
      BY <2>1, <2>3
    <3>2. y \in Places(g, S)
      BY <2>1, <3>1, PlacesAre
    <3>3. Behind(s, l, y) = y
      BY <2>1, <2>3 DEF Behind
    <3>. QED
      BY <3>2, <3>3
  <2>. QED
    BY <2>2, <2>3
<1>. QED
  BY <1>2, <1>3, <1>4

\* A packet that leaves takes with it what it counted for.
LEMMA PlacesPop ==
    ASSUME NEW f \in Contents, NEW u \in Int, NEW n, NEW keys, NEW sum,
           Counted(f, u, n, keys, sum),
           NEW s \in Ssrcs, NEW l \in Levels, f[s][l] # <<>>,
           NEW g \in Contents, g[s][l] = Tail(f[s][l]),
           \A r \in Ssrcs, m \in Levels : (r # s \/ m # l) => g[r][m] = f[r][m],
           NEW less, \A r \in Ssrcs : less[r] = IF r = s /\ IsKey(f[s][l][1]) THEN keys[r] - 1 ELSE keys[r]
    PROVE  Counted(g, u, n - 1, less, sum - (u - f[s][l][1].at))
<1>. DEFINE first == <<s, l, 1>>
            B(x) == Behind(s, l, x)
<1>0. f[s][l] \in Seq(Packet) /\ 1 \in 1..Len(f[s][l])
  <2>1. f[s][l] \in Seq(Packet)
    BY DEF Contents
  <2>. QED
    BY <2>1
<1>1. ASSUME NEW S \in SUBSET Ssrcs
      PROVE  /\ \A x \in Places(g, S) : B(x) \in Places(f, S) \ {first} /\ At(f, B(x)) = At(g, x)
             /\ \A x, y \in Places(g, S) : B(x) = B(y) => x = y
             /\ \A y \in Places(f, S) \ {first} : \E x \in Places(g, S) : B(x) = y
  BY PlacesShift
<1>2. ASSUME NEW S \in SUBSET Ssrcs, s \in S PROVE first \in Places(f, S)
  BY <1>0, <1>2, PlacesAre
<1>3. At(f, first) = f[s][l][1] /\ f[s][l][1].at \in Int
  BY <1>0, PlaceHolds
<1>. DEFINE P == Places(f, Ssrcs)
            Q == Places(g, Ssrcs)
<1>4. IsFiniteSet(P) /\ n = Cardinality(P) /\ n \in Nat /\ sum \in Nat
  BY CountedType DEF Counted
<1>5. first \in P
  BY <1>2
<1>. HIDE DEF first, B
<1>6. IsFiniteSet(Q) /\ Cardinality(Q) = n - 1
  <2>. DEFINE h == [x \in Q |-> B(x)]
  <2>1. h \in [Q -> P \ {first}]
    BY <1>1
  <2>2. IsFiniteSet(P \ {first}) /\ Cardinality(P \ {first}) = n - 1
    BY <1>4, <1>5, FS_RemoveElement
  <2>3. \A x, y \in Q : h[x] = h[y] => x = y
    BY <1>1
  <2>4. \A y \in P \ {first} : \E x \in Q : h[x] = y
    BY <1>1
  <2>. HIDE DEF h
  <2>. QED
    BY <2>1, <2>2, <2>3, <2>4, SameCount
<1>7. ASSUME NEW r \in Ssrcs PROVE less[r] = Cardinality(Keys(g, r))
  <2>0. keys[r] = Cardinality(Keys(f, r))
    BY DEF Counted
  <2>1. CASE r # s
    <3>1. \A m \in Levels : g[r][m] = f[r][m]
      BY <2>1
    <3>2. Places(g, {r}) = Places(f, {r})
      BY <3>1 DEF Places
    <3>3. ASSUME NEW x \in Places(f, {r}) PROVE At(g, x) = At(f, x)
      <4>1. PICK m, i : m \in Levels /\ i \in 1..Len(f[r][m]) /\ x = <<r, m, i>>
        BY PlacesAre
      <4>. QED
        BY <3>1, <4>1 DEF At
    <3>4. Keys(g, r) = Keys(f, r)
      BY <3>2, <3>3 DEF Keys
    <3>. QED
      BY <2>0, <2>1, <3>4
  <2>2. CASE r = s
    <3>. DEFINE K == Keys(f, s) \ {first}
                h == [x \in Keys(g, s) |-> B(x)]
    <3>0. /\ \A x \in Places(g, {s}) : B(x) \in Places(f, {s}) \ {first} /\ At(f, B(x)) = At(g, x)
          /\ \A x, y \in Places(g, {s}) : B(x) = B(y) => x = y
          /\ \A y \in Places(f, {s}) \ {first} : \E x \in Places(g, {s}) : B(x) = y
      BY <1>1
    <3>1. h \in [Keys(g, s) -> K]
      BY <3>0 DEF Keys
    <3>2. \A x, y \in Keys(g, s) : h[x] = h[y] => x = y
      BY <3>0 DEF Keys
    <3>3. \A y \in K : \E x \in Keys(g, s) : h[x] = y
      <4>1. SUFFICES ASSUME NEW y \in K PROVE \E x \in Keys(g, s) : h[x] = y
        OBVIOUS
      <4>2. y \in Places(f, {s}) \ {first} /\ IsKey(At(f, y))
        BY <4>1 DEF Keys
      <4>3. PICK x \in Places(g, {s}) : B(x) = y
        BY <3>0, <4>2
      <4>4. x \in Keys(g, s)
        BY <3>0, <4>2, <4>3 DEF Keys
      <4>. QED
        BY <4>3, <4>4
    <3>4. IsFiniteSet(Keys(f, s)) /\ Cardinality(Keys(f, s)) \in Nat
      BY <1>4, KeysFinite
    <3>5. first \in Keys(f, s) <=> IsKey(f[s][l][1])
      BY <1>2, <1>3 DEF Keys
    <3>6. /\ IsFiniteSet(K)
          /\ Cardinality(K) = IF IsKey(f[s][l][1]) THEN Cardinality(Keys(f, s)) - 1
                              ELSE Cardinality(Keys(f, s))
      BY <3>4, <3>5, FS_RemoveElement
    <3>. HIDE DEF h, K
    <3>7. Cardinality(Keys(g, s)) = Cardinality(K)
      BY <3>1, <3>2, <3>3, <3>6, SameCount
    <3>. QED
      BY <2>0, <2>2, <3>6, <3>7
  <2>. QED
    BY <2>1, <2>2
<1>8. \A x \in Q : Wait(g, u, x) = Wait(f, u, B(x))
  BY <1>1 DEF Wait
<1>9. \A x \in P : Wait(f, u, x) >= 0
  BY DEF Counted
<1>10. \A x \in Q : Wait(g, u, x) >= 0
  BY <1>1, <1>8, <1>9
<1>. DEFINE U == Units(f, u, Ssrcs)
            V == Units(g, u, Ssrcs)
            w == u - f[s][l][1].at
            F == {<<first, t>> : t \in 1..w}
<1>11. w \in Nat /\ Wait(f, u, first) = w
  <2>1. Wait(f, u, first) = w /\ w \in Int
    BY <1>3 DEF Wait
  <2>. QED
    BY <1>5, <1>9, <2>1
<1>12. IsFiniteSet(U) /\ sum = Cardinality(U)
  BY DEF Counted
<1>12a. Ssrcs \in SUBSET Ssrcs
  OBVIOUS
<1>13. /\ \A x, t : <<x, t>> \in U <=> x \in P /\ t \in 1..Wait(f, u, x)
       /\ \A y \in U : \E x \in P : \E t \in 1..Wait(f, u, x) : y = <<x, t>>
  <2>1. \A x, t : <<x, t>> \in U <=> x \in P /\ t \in 1..Wait(f, u, x)
    BY UnitsAre
  <2>2. \A y \in U : \E x \in P : \E t \in 1..Wait(f, u, x) : y = <<x, t>>
    BY <1>12a, UnitsAre, Zenon
  <2>. QED
    BY <2>1, <2>2, Zenon
<1>14. /\ \A x, t : <<x, t>> \in V <=> x \in Q /\ t \in 1..Wait(g, u, x)
       /\ \A y \in V : \E x \in Q : \E t \in 1..Wait(g, u, x) : y = <<x, t>>
  <2>1. \A x, t : <<x, t>> \in V <=> x \in Q /\ t \in 1..Wait(g, u, x)
    BY UnitsAre
  <2>2. \A y \in V : \E x \in Q : \E t \in 1..Wait(g, u, x) : y = <<x, t>>
    BY <1>12a, UnitsAre, Zenon
  <2>. QED
    BY <2>1, <2>2, Zenon
<1>15. IsFiniteSet(F) /\ Cardinality(F) = w
  <2>. DEFINE h == [y \in F |-> y[2]]
  <2>. HIDE DEF w
  <2>1. h \in [F -> 1..w]
    OBVIOUS
  <2>2. \A x, y \in F : h[x] = h[y] => x = y
    OBVIOUS
  <2>3. \A t \in 1..w : \E x \in F : h[x] = t
    <3>1. SUFFICES ASSUME NEW t \in 1..w PROVE \E x \in F : h[x] = t
      OBVIOUS
    <3>2. <<first, t>> \in F /\ h[<<first, t>>] = t
      OBVIOUS
    <3>. QED
      BY <3>2
  <2>4. IsFiniteSet(1..w) /\ Cardinality(1..w) = w
    BY <1>11, FS_Interval
  <2>. HIDE DEF h, F
  <2>5. IsFiniteSet(F) /\ Cardinality(F) = Cardinality(1..w)
    BY <2>1, <2>2, <2>3, <2>4, SameCount
  <2>. QED
    BY <2>4, <2>5
<1>16. F \subseteq U
  BY <1>5, <1>11, <1>13
<1>17. IsFiniteSet(U \ F) /\ Cardinality(U \ F) = sum - w
  <2>. HIDE DEF F, U, w
  <2>1. U \cap F = F
    BY <1>16
  <2>2. IsFiniteSet(U \ F) /\ Cardinality(U \ F) = Cardinality(U) - Cardinality(U \cap F)
    BY <1>12, FS_Difference, Zenon
  <2>. QED
    BY <1>12, <1>15, <2>1, <2>2
<1>18. IsFiniteSet(V) /\ Cardinality(V) = sum - w
  <2>. DEFINE h == [y \in V |-> <<B(y[1]), y[2]>>]
  <2>. HIDE DEF P, Q, U, V, w
  <2>1. ASSUME NEW y \in V
        PROVE  \E x \in Q : \E t \in 1..Wait(g, u, x) : y = <<x, t>> /\ h[y] = <<B(x), t>>
    <3>1. PICK x \in Q : \E t \in 1..Wait(g, u, x) : y = <<x, t>>
      BY <1>14
    <3>2. PICK t \in 1..Wait(g, u, x) : y = <<x, t>>
      BY <3>1
    <3>3. h[y] = <<B(x), t>>
      BY <3>2
    <3>. QED
      BY <3>2, <3>3
  <2>2. ASSUME NEW y \in V PROVE h[y] \in U \ F
    <3>. HIDE DEF h
    <3>1. PICK x \in Q : \E t \in 1..Wait(g, u, x) : y = <<x, t>> /\ h[y] = <<B(x), t>>
      BY <2>1
    <3>2. PICK t \in 1..Wait(g, u, x) : h[y] = <<B(x), t>>
      BY <3>1
    <3>3. B(x) \in P /\ B(x) # first
      BY <1>1 DEF P, Q
    <3>4. <<B(x), t>> \in U
      BY <1>8, <1>13, <3>2, <3>3
    <3>5. <<B(x), t>> \notin F
      BY <3>3
    <3>. QED
      BY <3>2, <3>4, <3>5
  <2>3. ASSUME NEW y \in V, NEW z \in V, h[y] = h[z] PROVE y = z
    <3>. HIDE DEF h
    <3>1. PICK x \in Q : \E t \in 1..Wait(g, u, x) : y = <<x, t>> /\ h[y] = <<B(x), t>>
      BY <2>1
    <3>2. PICK x2 \in Q : \E t \in 1..Wait(g, u, x2) : z = <<x2, t>> /\ h[z] = <<B(x2), t>>
      BY <2>1
    <3>3. PICK t : y = <<x, t>> /\ h[y] = <<B(x), t>>
      BY <3>1
    <3>4. PICK t2 : z = <<x2, t2>> /\ h[z] = <<B(x2), t2>>
      BY <3>2
    <3>5. B(x) = B(x2) /\ t = t2
      BY <2>3, <3>3, <3>4
    <3>6. x = x2
      BY <1>1, <3>5 DEF Q
    <3>. QED
      BY <3>3, <3>4, <3>5, <3>6
  <2>4. ASSUME NEW z \in U \ F PROVE \E y \in V : h[y] = z
    <3>1. PICK x \in P : \E t \in 1..Wait(f, u, x) : z = <<x, t>>
      BY <1>13
    <3>2. PICK t \in 1..Wait(f, u, x) : z = <<x, t>>
      BY <3>1
    <3>3. x # first
      BY <1>11, <3>2
    <3>4. PICK x2 \in Q : B(x2) = x
      BY <1>1, <3>3 DEF P, Q
    <3>5. <<x2, t>> \in V
      BY <1>8, <1>14, <3>2, <3>4
    <3>6. h[<<x2, t>>] = <<B(x2), t>>
      BY <3>5
    <3>. QED
      BY <3>2, <3>4, <3>5, <3>6
  <2>5. h \in [V -> U \ F]
    BY <2>2
  <2>. HIDE DEF h, F
  <2>. QED
    BY <1>17, <2>3, <2>4, <2>5, SameCount
<1>. QED
  BY <1>6, <1>7, <1>10, <1>18 DEF Counted

\* A stream that is emptied takes with it what its packets counted for.
LEMMA PlacesClear ==
    ASSUME NEW f \in Contents, NEW u \in Int, NEW n, NEW keys, NEW sum,
           Counted(f, u, n, keys, sum),
           NEW s \in Ssrcs, NEW g \in Contents, \A m \in Levels : g[s][m] = <<>>,
           \A r \in Ssrcs \ {s}, m \in Levels : g[r][m] = f[r][m],
           NEW less, \A r \in Ssrcs : less[r] = IF r = s THEN 0 ELSE keys[r]
    PROVE  Counted(g, u, n - Cardinality(Places(f, {s})), less, sum - Cardinality(Units(f, u, {s})))
<1>. DEFINE P == Places(f, Ssrcs)
            D == Places(f, {s})
            U == Units(f, u, Ssrcs)
            E == Units(f, u, {s})
<1>0. Ssrcs \in SUBSET Ssrcs /\ {s} \in SUBSET Ssrcs
  OBVIOUS
<1>1. D \subseteq P
  BY PlacesWithin
<1>2. E \subseteq U
  <2>1. SUFFICES ASSUME NEW y \in E PROVE y \in U
    OBVIOUS
  <2>2. PICK x \in D : \E t \in 1..Wait(f, u, x) : y = <<x, t>>
    BY <1>0, UnitIs, Zenon
  <2>3. PICK t \in 1..Wait(f, u, x) : y = <<x, t>>
    BY <2>2
  <2>. QED
    BY <1>0, <1>1, <2>3, UnitsAre, Zenon
<1>3. ASSUME NEW S \in SUBSET Ssrcs, NEW x \in Places(g, S)
      PROVE  x \in Places(f, S) \ D /\ At(g, x) = At(f, x)
  <2>1. PICK r, m, i : r \in S /\ m \in Levels /\ i \in 1..Len(g[r][m]) /\ x = <<r, m, i>>
    BY PlacesAre
  <2>2. r # s
    <3>1. SUFFICES ASSUME r = s PROVE FALSE
      OBVIOUS
    <3>2. g[r][m] = <<>>
      BY <2>1, <3>1
    <3>3. Len(g[r][m]) = 0
      BY <3>2
    <3>. QED
      BY <2>1, <3>3
  <2>3. g[r][m] = f[r][m]
    BY <2>1, <2>2
  <2>4. x \in Places(f, S)
    BY <2>1, <2>3, PlacesAre
  <2>5. x \notin D
    BY <2>1, <2>2, PlacesAre
  <2>6. At(g, x) = At(f, x)
    BY <2>1, <2>3 DEF At
  <2>. QED
    BY <2>4, <2>5, <2>6
<1>4. ASSUME NEW S \in SUBSET Ssrcs, NEW x \in Places(f, S), x \notin D
      PROVE  x \in Places(g, S)
  <2>1. PICK r, m, i : r \in S /\ m \in Levels /\ i \in 1..Len(f[r][m]) /\ x = <<r, m, i>>
    BY PlacesAre
  <2>2. r # s
    BY <1>4, <2>1, PlacesAre
  <2>3. g[r][m] = f[r][m]
    BY <2>1, <2>2
  <2>. QED
    BY <2>1, <2>3, PlacesAre
<1>5. Places(g, Ssrcs) = P \ D
  BY <1>0, <1>3, <1>4
<1>6. IsFiniteSet(P) /\ n = Cardinality(P) /\ IsFiniteSet(U) /\ sum = Cardinality(U)
  BY DEF Counted
<1>7. IsFiniteSet(P \ D) /\ Cardinality(P \ D) = n - Cardinality(D)
  <2>1. P \cap D = D
    BY <1>1
  <2>2. IsFiniteSet(P \ D) /\ Cardinality(P \ D) = Cardinality(P) - Cardinality(P \cap D)
    BY <1>6, FS_Difference, Zenon
  <2>. QED
    BY <1>6, <2>1, <2>2
<1>8. ASSUME NEW r \in Ssrcs PROVE less[r] = Cardinality(Keys(g, r))
  <2>1. CASE r = s
    <3>1. Places(g, {s}) = {}
      BY <1>0, <1>3
    <3>2. Keys(g, s) = {}
      BY <3>1 DEF Keys
    <3>. QED
      BY <2>1, <3>2, FS_EmptySet
  <2>2. CASE r # s
    <3>0. {r} \in SUBSET Ssrcs
      OBVIOUS
    <3>1. \A x \in Places(g, {r}) : x \in Places(f, {r}) /\ At(g, x) = At(f, x)
      BY <1>3, <3>0
    <3>2. ASSUME NEW x \in Places(f, {r}) PROVE x \in Places(g, {r})
      <4>1. PICK m, i : m \in Levels /\ i \in 1..Len(f[r][m]) /\ x = <<r, m, i>>
        BY PlacesAre
      <4>2. x \notin D
        BY <2>2, <4>1, PlacesAre
      <4>. QED
        BY <1>4, <3>0, <4>2
    <3>3. Keys(g, r) = Keys(f, r)
      BY <3>1, <3>2 DEF Keys
    <3>. QED
      BY <2>2, <3>3 DEF Counted
  <2>. QED
    BY <2>1, <2>2
<1>9. \A x \in Places(g, Ssrcs) : x \in P /\ x \notin D /\ Wait(g, u, x) = Wait(f, u, x)
  BY <1>0, <1>3 DEF Wait
<1>10. \A x \in Places(g, Ssrcs) : Wait(g, u, x) >= 0
  BY <1>9 DEF Counted
<1>11. Units(g, u, Ssrcs) = U \ E
  <2>1. ASSUME NEW y \in Units(g, u, Ssrcs) PROVE y \in U \ E
    <3>1. PICK x \in Places(g, Ssrcs) : \E t \in 1..Wait(g, u, x) : y = <<x, t>>
      BY <1>0, UnitIs, Zenon
    <3>2. PICK t \in 1..Wait(g, u, x) : y = <<x, t>>
      BY <3>1
    <3>3. t \in 1..Wait(f, u, x) /\ x \in P /\ x \notin D
      BY <1>9, <3>2
    <3>4. <<x, t>> \in U
      BY <1>0, <3>3, UnitsAre, Zenon
    <3>5. <<x, t>> \notin E
      BY <1>0, <3>3, UnitsAre, Zenon
    <3>. QED
      BY <3>2, <3>4, <3>5
  <2>2. ASSUME NEW y \in U \ E PROVE y \in Units(g, u, Ssrcs)
    <3>1. PICK x \in P : \E t \in 1..Wait(f, u, x) : y = <<x, t>>
      BY <1>0, UnitIs, ZenonT(40)
    <3>2. PICK t \in 1..Wait(f, u, x) : y = <<x, t>>
      BY <3>1
    <3>3. x \notin D
      BY <1>0, <2>2, <3>2, UnitsAre, Zenon
    <3>4. x \in Places(g, Ssrcs) /\ t \in 1..Wait(g, u, x)
      BY <1>5, <1>9, <3>2, <3>3
    <3>. QED
      BY <1>0, <3>2, <3>4, UnitsAre, Zenon
  <2>. QED
    BY <2>1, <2>2
<1>12. IsFiniteSet(U \ E) /\ Cardinality(U \ E) = sum - Cardinality(E)
  <2>1. U \cap E = E
    BY <1>2
  <2>2. IsFiniteSet(U \ E) /\ Cardinality(U \ E) = Cardinality(U) - Cardinality(U \cap E)
    BY <1>6, FS_Difference, Zenon
  <2>. QED
    BY <1>6, <2>1, <2>2
<1>. QED
  BY <1>5, <1>7, <1>8, <1>10, <1>11, <1>12 DEF Counted

\* An empty queue counts nothing.
LEMMA PlacesNone ==
    ASSUME NEW f \in Contents, \A s \in Ssrcs, l \in Levels : f[s][l] = <<>>,
           NEW keys, \A s \in Ssrcs : keys[s] = 0, NEW u \in Int
    PROVE  Counted(f, u, 0, keys, 0)
<1>1. Places(f, Ssrcs) = {}
  BY PlacesAre
<1>2. \A s \in Ssrcs : Keys(f, s) = {}
  BY <1>1, PlacesWithin DEF Keys
<1>3. Units(f, u, Ssrcs) = {}
  BY <1>1 DEF Units
<1>. QED
  BY <1>1, <1>2, <1>3, FS_EmptySet DEF Counted

-----------------------------------------------------------------------------
(* The round robin of a level. *)

\* Nobody stands in the line twice, and exactly the members of S do.
LineOf(line, S) ==
    /\ line \in Seq(Ssrcs)
    /\ \A i, j \in 1..Len(line) : line[i] = line[j] => i = j
    /\ \A i \in 1..Len(line) : line[i] \in S
    /\ \A s \in S : \E i \in 1..Len(line) : line[i] = s

\* Who had no packets joins at the end ...
LEMMA LineAppend ==
    ASSUME NEW S, NEW line, LineOf(line, S), NEW s \in Ssrcs, s \notin S
    PROVE  LineOf(Append(line, s), S \cup {s})
<1>1. line \in Seq(Ssrcs) /\ Len(line) \in Nat
  BY DEF LineOf
<1>. DEFINE more == Append(line, s)
<1>2. /\ more \in Seq(Ssrcs) /\ Len(more) = Len(line) + 1
      /\ \A i \in 1..Len(line) : more[i] = line[i]
      /\ more[Len(line) + 1] = s
  BY <1>1
<1>. HIDE DEF more
<1>3. \A i \in 1..Len(more) : i \in 1..Len(line) \/ i = Len(line) + 1
  BY <1>1, <1>2
<1>4. \A i \in 1..Len(line) : i \in 1..Len(more) /\ line[i] # s
  BY <1>1, <1>2 DEF LineOf
<1>5. Len(line) + 1 \in 1..Len(more)
  BY <1>1, <1>2
<1>6. \A i, j \in 1..Len(more) : more[i] = more[j] => i = j
  BY <1>2, <1>3, <1>4 DEF LineOf
<1>7. \A i \in 1..Len(more) : more[i] \in S \cup {s}
  BY <1>2, <1>3 DEF LineOf
<1>8. \A r \in S \cup {s} : \E i \in 1..Len(more) : more[i] = r
  BY <1>2, <1>4, <1>5 DEF LineOf
<1>9. LineOf(more, S \cup {s})
  BY <1>2, <1>6, <1>7, <1>8 DEF LineOf
<1>. QED
  BY <1>9 DEF more

\* ... and who has been served leaves at the head.
LEMMA LineTail ==
    ASSUME NEW S, NEW line, LineOf(line, S), line # <<>>
    PROVE  /\ LineOf(Tail(line), S \ {Head(line)})
           /\ Head(line) \in S /\ Head(line) \in Ssrcs /\ Head(line) = line[1]
<1>1. line \in Seq(Ssrcs) /\ Len(line) \in Nat \ {0}
  BY DEF LineOf
<1>. DEFINE rest == Tail(line)
            s == Head(line)
<1>2. /\ rest \in Seq(Ssrcs) /\ Len(rest) = Len(line) - 1
      /\ \A i \in 1..(Len(line) - 1) : rest[i] = line[i + 1]
      /\ s = line[1] /\ s \in Ssrcs
  BY <1>1
<1>. HIDE DEF rest, s
<1>3. \A i \in 1..Len(rest) : i + 1 \in 1..Len(line) /\ i + 1 # 1 /\ rest[i] = line[i + 1]
  BY <1>1, <1>2
<1>4. 1 \in 1..Len(line)
  BY <1>1
<1>5. \A i, j \in 1..Len(rest) : rest[i] = rest[j] => i = j
  <2>1. SUFFICES ASSUME NEW i \in 1..Len(rest), NEW j \in 1..Len(rest), rest[i] = rest[j] PROVE i = j
    OBVIOUS
  <2>2. i + 1 = j + 1
    BY <1>3, <2>1 DEF LineOf
  <2>. QED
    BY <2>2
<1>6. \A i \in 1..Len(rest) : rest[i] \in S \ {s}
  BY <1>2, <1>3, <1>4 DEF LineOf
<1>7. \A r \in S \ {s} : \E i \in 1..Len(rest) : rest[i] = r
  <2>1. SUFFICES ASSUME NEW r \in S \ {s} PROVE \E i \in 1..Len(rest) : rest[i] = r
    OBVIOUS
  <2>2. PICK k \in 1..Len(line) : line[k] = r
    BY DEF LineOf
  <2>3. k # 1
    BY <1>2, <2>1, <2>2
  <2>4. k - 1 \in 1..Len(rest) /\ (k - 1) + 1 = k
    BY <1>1, <1>2, <2>3
  <2>. QED
    BY <1>3, <2>2, <2>4
<1>8. LineOf(rest, S \ {s}) /\ s \in S
  BY <1>2, <1>4, <1>5, <1>6, <1>7 DEF LineOf
<1>. QED
  BY <1>2, <1>8 DEF rest, s

\* Two pieces of a line, joined.
LEMMA Joined ==
    ASSUME NEW a \in Seq(Ssrcs), NEW b \in Seq(Ssrcs)
    PROVE  /\ a \o b \in Seq(Ssrcs) /\ Len(a \o b) = Len(a) + Len(b)
           /\ \A k \in 1..(Len(a) + Len(b)) :
                (a \o b)[k] = IF k <= Len(a) THEN a[k] ELSE b[k - Len(a)]
OBVIOUS

\* Who is filtered out leaves the others in their order.
LEMMA LineWithout ==
    ASSUME NEW S, NEW line, LineOf(line, S), NEW s \in S
    PROVE  LineOf(Without(line, s), S \ {s})
<1>. DEFINE p == CHOOSE i \in 1..Len(line) : line[i] = s
<1>1. line \in Seq(Ssrcs) /\ Len(line) \in Nat
  BY DEF LineOf
<1>2. p \in 1..Len(line) /\ line[p] = s
  BY DEF LineOf
<1>3. Without(line, s) = SubSeq(line, 1, p - 1) \o SubSeq(line, p + 1, Len(line))
  BY Zenon DEF Without
<1>. HIDE DEF p
<1>4. PICK a : a = SubSeq(line, 1, p - 1)  OBVIOUS
<1>5. PICK b : b = SubSeq(line, p + 1, Len(line))  OBVIOUS
<1>6. a \in Seq(Ssrcs) /\ Len(a) = p - 1 /\ \A k \in 1..(p - 1) : a[k] = line[k]
  BY <1>1, <1>2, <1>4
<1>7. b \in Seq(Ssrcs) /\ Len(b) = Len(line) - p /\ \A k \in 1..(Len(line) - p) : b[k] = line[p + k]
  BY <1>1, <1>2, <1>5
<1>8. PICK rest : rest = a \o b  OBVIOUS
<1>9. Len(line) \in Nat /\ p \in Int
  BY <1>1, <1>2
<1>10. rest \in Seq(Ssrcs) /\ Len(rest) = Len(a) + Len(b)
  BY <1>6, <1>7, <1>8, Joined
<1>11. Len(rest) = Len(line) - 1
  BY <1>6, <1>7, <1>9, <1>10
<1>12. \A k \in 1..Len(rest) : rest[k] = IF k <= Len(a) THEN a[k] ELSE b[k - Len(a)]
  BY <1>6, <1>7, <1>8, <1>10, Joined
<1>13. ASSUME NEW k \in 1..Len(rest) PROVE rest[k] = IF k < p THEN line[k] ELSE line[k + 1]
  <2>1. CASE k < p
    BY <1>6, <1>9, <1>12, <2>1
  <2>2. CASE ~(k < p)
    <3>1. k - Len(a) \in 1..(Len(line) - p) /\ p + (k - Len(a)) = k + 1 /\ ~(k <= Len(a))
      BY <1>6, <1>9, <1>11, <2>2
    <3>. QED
      BY <1>7, <1>12, <2>2, <3>1
  <2>. QED
    BY <2>1, <2>2
<1>. DEFINE Old(k) == IF k < p THEN k ELSE k + 1
<1>14. ASSUME NEW k \in 1..Len(rest)
       PROVE  Old(k) \in 1..Len(line) /\ Old(k) # p /\ rest[k] = line[Old(k)]
  BY <1>2, <1>9, <1>11, <1>13
<1>15. \A j, k \in 1..Len(rest) : rest[j] = rest[k] => j = k
  <2>1. SUFFICES ASSUME NEW j \in 1..Len(rest), NEW k \in 1..Len(rest), rest[j] = rest[k] PROVE j = k
    OBVIOUS
  <2>2. Old(j) = Old(k)
    BY <1>14, <2>1 DEF LineOf
  <2>. QED
    BY <1>9, <1>11, <2>2
<1>16. \A k \in 1..Len(rest) : rest[k] \in S \ {s}
  BY <1>2, <1>14 DEF LineOf
<1>17. \A r \in S \ {s} : \E k \in 1..Len(rest) : rest[k] = r
  <2>1. SUFFICES ASSUME NEW r \in S \ {s} PROVE \E k \in 1..Len(rest) : rest[k] = r
    OBVIOUS
  <2>2. PICK k \in 1..Len(line) : line[k] = r
    BY DEF LineOf
  <2>3. k # p
    BY <1>2, <2>1, <2>2
  <2>4. CASE k < p
    <3>1. k \in 1..Len(rest)
      BY <1>2, <1>9, <1>11, <2>4
    <3>. QED
      BY <1>13, <2>2, <2>4, <3>1
  <2>5. CASE k > p
    <3>1. k - 1 \in 1..Len(rest) /\ ~(k - 1 < p) /\ (k - 1) + 1 = k
      BY <1>2, <1>9, <1>11, <2>5
    <3>. QED
      BY <1>13, <2>2, <3>1
  <2>. QED
    BY <1>9, <2>3, <2>4, <2>5
<1>18. LineOf(rest, S \ {s})
  BY <1>10, <1>15, <1>16, <1>17 DEF LineOf
<1>. QED
  BY <1>3, <1>4, <1>5, <1>8, <1>18

-----------------------------------------------------------------------------
(* The queue. *)

Stream == [here : BOOLEAN, made : Int, keys : Int, at : [Levels -> Seq(Packet)]]

QueueType ==
    [streams : [Ssrcs -> Stream], byPrio : [Levels -> Seq(Ssrcs)], top : Int, size : Int,
     timeSum : Int, pauseSum : Int, updated : Int, paused : BOOLEAN, culled : Int]

Held(q) == [s \in Ssrcs |-> q.streams[s].at]
KeyCounts(q) == [s \in Ssrcs |-> q.streams[s].keys]
Age(q) == q.updated - q.pauseSum

\* A stream that is not in the table holds nothing, and packets stand in their stream.
Filed(q) ==
    /\ \A s \in Ssrcs : ~q.streams[s].here =>
          q.streams[s].keys = 0 /\ \A l \in Levels : q.streams[s].at[l] = <<>>
    /\ \A s \in Ssrcs, l \in Levels : \A i \in 1..Len(q.streams[s].at[l]) :
          q.streams[s].at[l][i].ssrc = s

\* The streams with packets at level l.
Busy(q, l) == {s \in Ssrcs : q.streams[s].at[l] # <<>>}

Lined(q) == \A l \in Levels : LineOf(q.byPrio[l], Busy(q, l))

\* No level before the one served has packets; nobody is served if there are none.
NoneBefore(q) ==
    \/ q.top = -1 /\ q.size = 0
    \/ q.top \in Levels /\ \A l \in Levels : l < q.top => Busy(q, l) = {}

TopServed(q) == q.size # 0 => q.top \in Levels /\ Busy(q, q.top) # {}
TopIdle(q) == q.size = 0 => q.top = -1

QBooks(q) ==
    /\ q \in QueueType /\ Filed(q) /\ Lined(q)
    /\ Counted(Held(q), Age(q), q.size, KeyCounts(q), q.timeSum)

QInv(q) == QBooks(q) /\ NoneBefore(q) /\ TopServed(q) /\ TopIdle(q)

LEMMA HeldType ==
    ASSUME NEW q \in QueueType
    PROVE  /\ Held(q) \in Contents
           /\ \A s \in Ssrcs : /\ q.streams[s] \in Stream /\ Held(q)[s] = q.streams[s].at
                               /\ KeyCounts(q)[s] = q.streams[s].keys
                               /\ q.streams[s].at \in [Levels -> Seq(Packet)]
           /\ Age(q) \in Int
<1>1. q.streams \in [Ssrcs -> Stream] /\ q.updated \in Int /\ q.pauseSum \in Int
  BY DEF QueueType
<1>2. \A s \in Ssrcs : q.streams[s] \in Stream
  BY <1>1
<1>3. \A s \in Ssrcs : q.streams[s].at \in [Levels -> Seq(Packet)]
  BY <1>2 DEF Stream
<1>4. Held(q) \in Contents
  BY <1>3 DEF Held, Contents
<1>5. \A s \in Ssrcs : Held(q)[s] = q.streams[s].at /\ KeyCounts(q)[s] = q.streams[s].keys
  BY DEF Held, KeyCounts
<1>6. Age(q) \in Int
  BY <1>1 DEF Age
<1>. QED
  BY <1>2, <1>3, <1>4, <1>5, <1>6

\* What the model counts is what was counted above.
LEMMA Bridge ==
    ASSUME NEW q \in QueueType, NEW S \in SUBSET Ssrcs
    PROVE  /\ Slots(q, S) = Places(Held(q), S)
           /\ \A x \in Slots(q, S) : PacketAt(q, x) = At(Held(q), x)
           /\ \A x \in Slots(q, S) : TimeInNonPausedState(q, PacketAt(q, x)) = Wait(Held(q), Age(q), x)
           /\ Waited(q, S) = Units(Held(q), Age(q), S)
<1>. DEFINE f == Held(q)
<1>1. f \in Contents /\ \A s \in Ssrcs : f[s] = q.streams[s].at
  BY HeldType
<1>. HIDE DEF f
<1>2. ASSUME NEW x \in Slots(q, S) PROVE x \in Places(f, S)
  <2>1. \E s, l, i : s \in S /\ l \in Levels /\ i \in 1..Len(q.streams[s].at[l]) /\ x = <<s, l, i>>
    BY DEF Slots
  <2>2. PICK s, l, i : s \in S /\ l \in Levels /\ i \in 1..Len(q.streams[s].at[l]) /\ x = <<s, l, i>>
    BY <2>1
  <2>. QED
    BY <1>1, <2>2, PlacesAre
<1>3. ASSUME NEW x \in Places(f, S) PROVE x \in Slots(q, S)
  <2>1. PICK s, l, i : s \in S /\ l \in Levels /\ i \in 1..Len(f[s][l]) /\ x = <<s, l, i>>
    BY <1>1, PlacesAre
  <2>2. f[s] = q.streams[s].at
    BY <1>1, <2>1
  <2>3. <<s, l, i>> \in Slots(q, S)
    BY <2>1, <2>2 DEF Slots
  <2>. QED
    BY <2>1, <2>3
<1>4. Slots(q, S) = Places(f, S)
  BY <1>2, <1>3
<1>5. ASSUME NEW x \in Slots(q, S)
      PROVE  /\ PacketAt(q, x) = At(f, x)
             /\ TimeInNonPausedState(q, PacketAt(q, x)) = Wait(f, Age(q), x)
  <2>1. PICK s, l, i : s \in S /\ l \in Levels /\ i \in 1..Len(f[s][l]) /\ x = <<s, l, i>>
    BY <1>1, <1>4, PlacesAre
  <2>2. PacketAt(q, x) = At(f, x)
    BY <1>1, <2>1 DEF PacketAt, At
  <2>3. PICK a \in Int : a = At(f, x).at
    BY <1>1, <2>1, PlaceHolds
  <2>4. q.updated \in Int /\ q.pauseSum \in Int
    BY DEF QueueType
  <2>5. TimeInNonPausedState(q, PacketAt(q, x)) = q.updated - a - q.pauseSum
    BY <2>2, <2>3 DEF TimeInNonPausedState
  <2>6. Wait(f, Age(q), x) = (q.updated - q.pauseSum) - a
    BY <2>3 DEF Wait, Age
  <2>. QED
    BY <2>2, <2>4, <2>5, <2>6
<1>6. Waited(q, S) = Units(f, Age(q), S)
  <2>1. ASSUME NEW y \in Waited(q, S) PROVE y \in Units(f, Age(q), S)
    <3>1. PICK x, t : /\ x \in Slots(q, S) /\ t \in 1..TimeInNonPausedState(q, PacketAt(q, x))
                      /\ y = <<x, t>>
      BY Zenon DEF Waited
    <3>2. x \in Places(f, S) /\ t \in 1..Wait(f, Age(q), x)
      BY <1>4, <1>5, <3>1
    <3>. QED
      BY <1>1, <3>1, <3>2, UnitsAre, HeldType
  <2>2. ASSUME NEW y \in Units(f, Age(q), S) PROVE y \in Waited(q, S)
    <3>1. PICK x \in Places(f, S) : \E t \in 1..Wait(f, Age(q), x) : y = <<x, t>>
      BY <1>1, UnitIs, HeldType
    <3>2. PICK t \in 1..Wait(f, Age(q), x) : y = <<x, t>>
      BY <3>1
    <3>3. x \in Slots(q, S) /\ t \in 1..TimeInNonPausedState(q, PacketAt(q, x))
      BY <1>4, <1>5, <3>2
    <3>4. <<x, t>> \in Waited(q, S)
      BY <3>3 DEF Waited
    <3>. QED
      BY <3>2, <3>4
  <2>. QED
    BY <2>1, <2>2
<1>. QED
  BY <1>4, <1>5, <1>6 DEF f

\* What depends on the streams and the lines only.
LEMMA SameFiling ==
    ASSUME NEW q, QInv(q), NEW r \in QueueType,
           r.streams = q.streams, r.byPrio = q.byPrio, r.top = q.top, r.size = q.size,
           Counted(Held(q), Age(r), q.size, KeyCounts(q), r.timeSum)
    PROVE  QInv(r)
<1>1. Held(r) = Held(q) /\ KeyCounts(r) = KeyCounts(q)
  BY DEF Held, KeyCounts
<1>2. \A l \in Levels : Busy(r, l) = Busy(q, l)
  BY DEF Busy
<1>3. Filed(r)
  BY DEF QInv, QBooks, Filed
<1>4. Lined(r)
  BY <1>2 DEF QInv, QBooks, Lined
<1>5. NoneBefore(r) /\ TopServed(r) /\ TopIdle(r)
  BY <1>2 DEF QInv, NoneBefore, TopServed, TopIdle
<1>. QED
  BY <1>1, <1>3, <1>4, <1>5 DEF QInv, QBooks

\* A queue keeps its books when its clock is brought up to date.
LEMMA UpdateKeeps ==
    ASSUME NEW q, QInv(q), NEW now \in Int, q.updated <= now, NEW r, r = UpdateAverageQueueTime(q, now)
    PROVE  /\ QInv(r) /\ r.streams = q.streams /\ r.byPrio = q.byPrio /\ r.top = q.top
           /\ r.size = q.size /\ r.paused = q.paused /\ r.culled = q.culled /\ r.updated = now
           /\ r.pauseSum = q.pauseSum + (IF q.paused THEN now - q.updated ELSE 0)
<1>0. q \in QueueType /\ Counted(Held(q), Age(q), q.size, KeyCounts(q), q.timeSum)
  BY DEF QInv, QBooks
<1>1. q.updated \in Int /\ q.pauseSum \in Int /\ q.timeSum \in Int /\ q.size \in Int /\ q.paused \in BOOLEAN
  BY <1>0 DEF QueueType
<1>2. q.size \in Nat /\ q.timeSum \in Nat
  BY <1>0, HeldType, CountedType
<1>. PICK d \in Nat : d = now - q.updated
  BY <1>1
<1>3. CASE q.paused
  <2>. PICK v \in Int : v = q.pauseSum + d
    BY <1>1
  <2>1. r = [q EXCEPT !.pauseSum = v, !.updated = now]
    BY <1>3 DEF UpdateAverageQueueTime
  <2>2. r \in QueueType
    BY <1>0, <2>1 DEF QueueType
  <2>3. /\ r.streams = q.streams /\ r.byPrio = q.byPrio /\ r.top = q.top
        /\ r.size = q.size /\ r.paused = q.paused /\ r.culled = q.culled /\ r.updated = now
        /\ r.pauseSum = v /\ r.timeSum = q.timeSum
    BY <1>0, <2>1 DEF QueueType
  <2>4. Age(r) = Age(q)
    BY <1>1, <2>3 DEF Age
  <2>5. QInv(r)
    BY <1>0, <2>2, <2>3, <2>4, SameFiling
  <2>. QED
    BY <1>3, <2>3, <2>5
<1>4. CASE ~q.paused
  <2>. PICK v \in Int : v = q.timeSum + d * q.size
    BY <1>1
  <2>0. d * q.size = (now - q.updated) * q.size
    OBVIOUS
  <2>1. r = [q EXCEPT !.timeSum = v, !.updated = now]
    BY <1>4, <2>0 DEF UpdateAverageQueueTime
  <2>2. r \in QueueType
    BY <1>0, <2>1 DEF QueueType
  <2>3. /\ r.streams = q.streams /\ r.byPrio = q.byPrio /\ r.top = q.top
        /\ r.size = q.size /\ r.paused = q.paused /\ r.culled = q.culled /\ r.updated = now
        /\ r.pauseSum = q.pauseSum /\ r.timeSum = v
    BY <1>0, <2>1 DEF QueueType
  <2>4. Age(r) = Age(q) + d
    BY <1>1, <2>3 DEF Age
  <2>5. Counted(Held(q), Age(q) + d, q.size, KeyCounts(q), v)
    BY <1>0, HeldType, UnitsGrow
  <2>6. QInv(r)
    BY <2>2, <2>3, <2>4, <2>5, SameFiling
  <2>. QED
    BY <1>1, <1>4, <2>3, <2>6
<1>. QED
  BY <1>1, <1>3, <1>4

\* ... and when it is paused or resumed.
LEMMA PauseKeeps ==
    ASSUME NEW q, QInv(q), NEW now \in Int, q.updated <= now, NEW paused \in BOOLEAN,
           NEW r, r = SetPauseState(q, paused, now)
    PROVE  /\ QInv(r) /\ r.streams = q.streams /\ r.byPrio = q.byPrio
           /\ r.size = q.size /\ r.paused = paused /\ r.updated = now
           /\ r.pauseSum = q.pauseSum + (IF q.paused THEN now - q.updated ELSE 0)
<1>. PICK u : u = UpdateAverageQueueTime(q, now)
  OBVIOUS
<1>1. /\ QInv(u) /\ u.streams = q.streams /\ u.byPrio = q.byPrio /\ u.top = q.top
      /\ u.size = q.size /\ u.updated = now
      /\ u.pauseSum = q.pauseSum + (IF q.paused THEN now - q.updated ELSE 0)
  BY UpdateKeeps
<1>2. r = [u EXCEPT !.paused = paused]
  BY DEF SetPauseState
<1>3. u \in QueueType /\ Counted(Held(u), Age(u), u.size, KeyCounts(u), u.timeSum)
  BY <1>1 DEF QInv, QBooks
<1>4. r \in QueueType
  BY <1>2, <1>3 DEF QueueType
<1>5. /\ r.streams = u.streams /\ r.byPrio = u.byPrio /\ r.top = u.top /\ r.size = u.size
      /\ r.updated = u.updated /\ r.pauseSum = u.pauseSum /\ r.timeSum = u.timeSum /\ r.paused = paused
  BY <1>2, <1>3 DEF QueueType
<1>6. Age(r) = Age(u)
  BY <1>5 DEF Age
<1>7. QInv(r)
  BY <1>1, <1>3, <1>4, <1>5, <1>6, SameFiling
<1>. QED
  BY <1>1, <1>5, <1>7

\* A line is empty when nobody has packets there, the queue when no level has any.
LEMMA Emptiness ==
    ASSUME NEW q, QBooks(q)
    PROVE  /\ \A l \in Levels : q.byPrio[l] = <<>> <=> Busy(q, l) = {}
           /\ q.size \in Nat /\ q.timeSum \in Nat
           /\ q.size = 0 <=> \A l \in Levels : Busy(q, l) = {}
<1>0. q \in QueueType /\ Counted(Held(q), Age(q), q.size, KeyCounts(q), q.timeSum)
  BY DEF QBooks
<1>1. ASSUME NEW l \in Levels PROVE q.byPrio[l] = <<>> <=> Busy(q, l) = {}
  <2>1. LineOf(q.byPrio[l], Busy(q, l))
    BY DEF QBooks, Lined
  <2>2. PICK line \in Seq(Ssrcs) : line = q.byPrio[l]
    BY <2>1 DEF LineOf
  <2>3. ASSUME line = <<>> PROVE Busy(q, l) = {}
    BY <2>1, <2>2, <2>3 DEF LineOf
  <2>4. ASSUME line # <<>> PROVE Busy(q, l) # {}
    <3>1. 1 \in 1..Len(line)
      BY <2>4
    <3>. QED
      BY <2>1, <2>2, <3>1 DEF LineOf
  <2>. QED
    BY <2>2, <2>3, <2>4
<1>. DEFINE f == Held(q)
<1>2. f \in Contents /\ \A s \in Ssrcs : f[s] = q.streams[s].at
  BY <1>0, HeldType
<1>3. q.size \in Nat /\ q.timeSum \in Nat /\ (q.size = 0 <=> Places(f, Ssrcs) = {})
  BY <1>0, <1>2, CountedType
<1>. HIDE DEF f
<1>4. ASSUME Places(f, Ssrcs) = {}, NEW l \in Levels, NEW s \in Busy(q, l) PROVE FALSE
  <2>1. s \in Ssrcs /\ f[s][l] # <<>> /\ f[s][l] \in Seq(Packet)
    BY <1>2, <1>4 DEF Busy, Contents
  <2>2. 1 \in 1..Len(f[s][l])
    BY <2>1
  <2>. QED
    BY <1>2, <1>4, <2>1, <2>2, PlacesAre
<1>5. ASSUME NEW x \in Places(f, Ssrcs) PROVE \E l \in Levels : Busy(q, l) # {}
  <2>1. PICK s, l, i : s \in Ssrcs /\ l \in Levels /\ i \in 1..Len(f[s][l]) /\ x = <<s, l, i>>
    BY <1>2, PlacesAre
  <2>2. f[s][l] # <<>>
    BY <2>1
  <2>. QED
    BY <1>2, <2>1, <2>2 DEF Busy
<1>. QED
  BY <1>1, <1>3, <1>4, <1>5

\* The least of some levels.
LEMMA LeastLevel ==
    ASSUME NEW S \in SUBSET Levels, S # {}
    PROVE  Min(S) \in S /\ \A l \in S : Min(S) <= l
<1>0. S \subseteq 0..4
  BY DEF Levels
<1>1. \E x \in S : \A y \in S : x =< y
  <2>1. CASE 0 \in S
    BY <1>0, <2>1
  <2>2. CASE 0 \notin S /\ 1 \in S
    BY <1>0, <2>2
  <2>3. CASE 0 \notin S /\ 1 \notin S /\ 2 \in S
    BY <1>0, <2>3
  <2>4. CASE 0 \notin S /\ 1 \notin S /\ 2 \notin S /\ 3 \in S
    BY <1>0, <2>4
  <2>5. CASE S \subseteq {4}
    <3>1. S = {4}
      BY <2>5
    <3>. QED
      BY <3>1
  <2>6. \A x \in S : x = 0 \/ x = 1 \/ x = 2 \/ x = 3 \/ x = 4
    BY <1>0
  <2>. QED
    BY <2>1, <2>2, <2>3, <2>4, <2>5, <2>6
<1>. QED
  BY <1>1 DEF Min

\* The level served is found again.
LEMMA TopFound ==
    ASSUME NEW q, QBooks(q), NoneBefore(q), NEW r, r = MaybeUpdateTopPrioLevel(q)
    PROVE  /\ QInv(r) /\ r.streams = q.streams /\ r.byPrio = q.byPrio /\ r.size = q.size
           /\ r.paused = q.paused /\ r.updated = q.updated /\ r.pauseSum = q.pauseSum
<1>0. q \in QueueType
  BY DEF QBooks
<1>1. CASE q.top # -1 /\ q.byPrio[q.top] # <<>>
  <2>1. r = q
    BY <1>1 DEF MaybeUpdateTopPrioLevel
  <2>2. q.top \in Levels
    BY <1>1 DEF NoneBefore
  <2>3. Busy(q, q.top) # {} /\ q.size # 0
    BY <1>1, <2>2, Emptiness
  <2>. QED
    BY <2>1, <2>2, <2>3 DEF QInv, TopServed, TopIdle
<1>2. CASE ~(q.top # -1 /\ q.byPrio[q.top] # <<>>)
  <2>. DEFINE L == {l \in Levels : q.byPrio[l] # <<>>}
  <2>. PICK v : v = IF q.size = 0 THEN -1 ELSE Min(L)
    OBVIOUS
  <2>1. r = [q EXCEPT !.top = v]
    BY <1>2 DEF MaybeUpdateTopPrioLevel
  <2>2. L = {l \in Levels : Busy(q, l) # {}}
    BY Emptiness
  <2>3. ASSUME q.size # 0 PROVE v \in Levels /\ Busy(q, v) # {} /\ \A l \in Levels : l < v => Busy(q, l) = {}
    <3>1. L # {} /\ L \in SUBSET Levels
      BY <2>2, <2>3, Emptiness
    <3>2. v \in L /\ \A l \in L : v <= l
      BY <2>3, <3>1, LeastLevel
    <3>3. \A l \in Levels : l < v => l \notin L
      BY <3>1, <3>2 DEF Levels
    <3>. QED
      BY <2>2, <3>1, <3>2, <3>3, Zenon
  <2>. HIDE DEF L
  <2>4. v \in Int
    BY <2>3 DEF Levels
  <2>5. r \in QueueType
    BY <1>0, <2>1, <2>4 DEF QueueType
  <2>6. /\ r.streams = q.streams /\ r.byPrio = q.byPrio /\ r.size = q.size /\ r.timeSum = q.timeSum
        /\ r.paused = q.paused /\ r.updated = q.updated /\ r.pauseSum = q.pauseSum /\ r.top = v
    BY <1>0, <2>1 DEF QueueType
  <2>7. Held(r) = Held(q) /\ KeyCounts(r) = KeyCounts(q) /\ Age(r) = Age(q)
    BY <2>6 DEF Held, KeyCounts, Age
  <2>8. \A l \in Levels : Busy(r, l) = Busy(q, l)
    BY <2>6 DEF Busy
  <2>9. Filed(r) /\ Lined(r)
    BY <2>6, <2>8 DEF QBooks, Filed, Lined
  <2>10. QBooks(r)
    BY <2>5, <2>6, <2>7, <2>9 DEF QBooks
  <2>11. NoneBefore(r) /\ TopServed(r) /\ TopIdle(r)
    BY <2>3, <2>6, <2>8 DEF NoneBefore, TopServed, TopIdle
  <2>. QED
    BY <2>6, <2>10, <2>11 DEF QInv
<1>. QED
  BY <1>1, <1>2

\* Culling drops streams that hold nothing.
LEMMA CullKeeps ==
    ASSUME NEW q, QInv(q), NEW now \in Int, NEW r, r = Cull(q, now)
    PROVE  /\ QInv(r) /\ r.size = q.size /\ r.paused = q.paused
           /\ r.updated = q.updated /\ r.pauseSum = q.pauseSum
<1>0. q \in QueueType /\ QBooks(q) /\ Counted(Held(q), Age(q), q.size, KeyCounts(q), q.timeSum)
  BY DEF QInv, QBooks
<1>1. CASE r = q
  BY <1>1
<1>2. CASE r # q
  <2>0. PICK st : st = [s \in Ssrcs |->
                         IF q.streams[s].here /\ q.streams[s].at = NoPackets
                              /\ q.streams[s].made + CullAfter < now
                         THEN NoStream ELSE q.streams[s]]
    OBVIOUS
  <2>1. r = [q EXCEPT !.culled = now, !.streams = st]
    BY <1>2, <2>0 DEF Cull
  <2>2. \A s \in Ssrcs : q.streams[s] \in Stream
    BY <1>0, HeldType
  <2>3. ASSUME NEW s \in Ssrcs
        PROVE  st[s] \in Stream /\ st[s].at = q.streams[s].at /\ st[s].keys = q.streams[s].keys
               /\ (~st[s].here => st[s].keys = 0 /\ \A l \in Levels : st[s].at[l] = <<>>)
    <3>1. CASE st[s] = q.streams[s]
      <4>1. ~q.streams[s].here => q.streams[s].keys = 0 /\ \A l \in Levels : q.streams[s].at[l] = <<>>
        BY <1>0, Zenon DEF QBooks, Filed
      <4>2. st[s] \in Stream /\ st[s].at = q.streams[s].at /\ st[s].keys = q.streams[s].keys
        BY <2>2, <3>1
      <4>3. ~st[s].here => st[s].keys = 0 /\ \A l \in Levels : st[s].at[l] = <<>>
        BY <3>1, <4>1
      <4>. QED
        BY <4>2, <4>3
    <3>2. CASE st[s] # q.streams[s]
      <4>1. st[s] = NoStream /\ q.streams[s].at = NoPackets
        BY <2>0, <3>2
      <4>2. NoPackets \in [Levels -> Seq(Packet)] /\ \A l \in Levels : NoPackets[l] = <<>>
        BY DEF NoPackets
      <4>3. NoStream \in Stream /\ NoStream.at = NoPackets /\ NoStream.keys = 0
        <5>1. 0 \in Int /\ FALSE \in BOOLEAN
          OBVIOUS
        <5>2. NoStream.at = NoPackets /\ NoStream.keys = 0
          BY DEF NoStream
        <5>. QED
          BY <4>2, <5>1, <5>2, Zenon DEF NoStream, Stream
      <4>4. q.streams[s].keys = 0
        <5>1. Held(q) \in Contents /\ Held(q)[s] = q.streams[s].at /\ KeyCounts(q)[s] = q.streams[s].keys
          BY <1>0, HeldType
        <5>2. Places(Held(q), {s}) = {}
          BY <4>1, <4>2, <5>1, PlacesAre
        <5>3. Keys(Held(q), s) = {}
          BY <5>2 DEF Keys
        <5>. QED
          BY <1>0, <5>1, <5>3, FS_EmptySet DEF Counted
      <4>. QED
        BY <4>1, <4>2, <4>3, <4>4
    <3>. QED
      BY <3>1, <3>2
  <2>4. st \in [Ssrcs -> Stream]
    BY <2>0, <2>3
  <2>5. r \in QueueType
    BY <1>0, <2>1, <2>4 DEF QueueType
  <2>6. /\ r.streams = st /\ r.byPrio = q.byPrio /\ r.size = q.size /\ r.timeSum = q.timeSum
        /\ r.paused = q.paused /\ r.updated = q.updated /\ r.pauseSum = q.pauseSum /\ r.top = q.top
    BY <1>0, <2>1 DEF QueueType
  <2>7. Held(r) = Held(q) /\ KeyCounts(r) = KeyCounts(q) /\ Age(r) = Age(q)
    BY <2>3, <2>6 DEF Held, KeyCounts, Age
  <2>8. \A l \in Levels : Busy(r, l) = Busy(q, l)
    BY <2>3, <2>6 DEF Busy
  <2>9. Filed(r)
    BY <1>0, <2>3, <2>6 DEF QBooks, Filed
  <2>10. Lined(r)
    BY <1>0, <2>6, <2>8 DEF QBooks, Lined
  <2>11. QBooks(r)
    BY <1>0, <2>5, <2>6, <2>7, <2>9, <2>10 DEF QBooks
  <2>12. NoneBefore(r) /\ TopServed(r) /\ TopIdle(r)
    BY <2>6, <2>8 DEF QInv, NoneBefore, TopServed, TopIdle
  <2>. QED
    BY <2>6, <2>11, <2>12 DEF QInv
<1>. QED
  BY <1>1, <1>2

LEMMA LevelOf ==
    ASSUME NEW kind \in {"audio", "rtx", "video", "padding"}
    PROVE  GetPriorityForType(kind) \in Levels
BY DEF GetPriorityForType, Levels

\* From queue u to w a packet of stream s, which becomes t, comes in at level l.
ComesIn(u, w, pkt, s, l, t) ==
    /\ pkt \in Packet /\ pkt.at = Age(u) /\ s \in Ssrcs /\ pkt.ssrc = s
    /\ l \in Levels /\ t \in Stream /\ t.here /\ w \in QueueType
    /\ t.at = [u.streams[s].at EXCEPT ![l] = Append(u.streams[s].at[l], pkt)]
    /\ t.keys = IF IsKey(pkt) THEN u.streams[s].keys + 1 ELSE u.streams[s].keys
    /\ w.streams = [u.streams EXCEPT ![s] = t]
    /\ w.byPrio = [u.byPrio EXCEPT ![l] = IF u.streams[s].at[l] = <<>> THEN Append(u.byPrio[l], s)
                                         ELSE u.byPrio[l]]
    /\ w.top = IF u.top < 0 \/ l < u.top THEN l ELSE u.top
    /\ w.size = u.size + 1 /\ w.timeSum = u.timeSum
    /\ w.updated = u.updated /\ w.pauseSum = u.pauseSum

LEMMA FiledIn ==
    ASSUME NEW u, QInv(u), NEW w, NEW pkt, NEW s, NEW l, NEW t, ComesIn(u, w, pkt, s, l, t)
    PROVE  QInv(w)
<1>. /\ pkt \in Packet /\ pkt.at = Age(u) /\ s \in Ssrcs /\ pkt.ssrc = s
     /\ l \in Levels /\ t \in Stream /\ t.here /\ w \in QueueType
     /\ w.size = u.size + 1 /\ w.timeSum = u.timeSum
     /\ w.updated = u.updated /\ w.pauseSum = u.pauseSum
  BY DEF ComesIn
<1>a. t.at = [u.streams[s].at EXCEPT ![l] = Append(u.streams[s].at[l], pkt)]
  BY DEF ComesIn
<1>b. t.keys = IF IsKey(pkt) THEN u.streams[s].keys + 1 ELSE u.streams[s].keys
  BY DEF ComesIn
<1>c. w.streams = [u.streams EXCEPT ![s] = t]
  BY DEF ComesIn
<1>d. w.byPrio = [u.byPrio EXCEPT ![l] = IF u.streams[s].at[l] = <<>> THEN Append(u.byPrio[l], s)
                                        ELSE u.byPrio[l]]
  BY DEF ComesIn
<1>e. w.top = IF u.top < 0 \/ l < u.top THEN l ELSE u.top
  BY DEF ComesIn
<1>0. u \in QueueType /\ QBooks(u) /\ Counted(Held(u), Age(u), u.size, KeyCounts(u), u.timeSum)
  BY DEF QInv, QBooks
<1>1. u.streams \in [Ssrcs -> Stream] /\ u.byPrio \in [Levels -> Seq(Ssrcs)]
  BY <1>0 DEF QueueType
<1>2. /\ Held(u) \in Contents /\ Held(w) \in Contents /\ Age(u) \in Int /\ Age(w) = Age(u)
      /\ \A r \in Ssrcs : Held(u)[r] = u.streams[r].at /\ KeyCounts(u)[r] = u.streams[r].keys
      /\ \A r \in Ssrcs : Held(w)[r] = w.streams[r].at /\ KeyCounts(w)[r] = w.streams[r].keys
  <2>1. Held(u) \in Contents /\ Age(u) \in Int
        /\ \A r \in Ssrcs : Held(u)[r] = u.streams[r].at /\ KeyCounts(u)[r] = u.streams[r].keys
    BY <1>0, HeldType
  <2>2. Held(w) \in Contents
        /\ \A r \in Ssrcs : Held(w)[r] = w.streams[r].at /\ KeyCounts(w)[r] = w.streams[r].keys
    BY HeldType
  <2>3. Age(w) = Age(u)
    BY DEF Age
  <2>. QED
    BY <2>1, <2>2, <2>3
<1>3. w.streams[s] = t /\ \A r \in Ssrcs : r # s => w.streams[r] = u.streams[r]
  BY <1>1, <1>c
<1>4. /\ u.streams[s].at \in [Levels -> Seq(Packet)]
      /\ u.streams[s].at[l] \in Seq(Packet)
  <2>1. u.streams[s].at \in [Levels -> Seq(Packet)]
    BY <1>0, HeldType
  <2>. QED
    BY <2>1
<1>5. t.at[l] = Append(u.streams[s].at[l], pkt) /\ \A m \in Levels : m # l => t.at[m] = u.streams[s].at[m]
  BY <1>4, <1>a
<1>6. ASSUME NEW r \in Ssrcs, NEW m \in Levels, r # s \/ m # l
      PROVE  w.streams[r].at[m] = u.streams[r].at[m]
  <2>1. CASE r # s
    BY <1>3, <2>1
  <2>2. CASE r = s
    BY <1>3, <1>5, <1>6, <2>2
  <2>. QED
    BY <2>1, <2>2
<1>7. w.streams[s].at[l] = Append(u.streams[s].at[l], pkt)
  BY <1>3, <1>5
<1>8. Counted(Held(w), Age(w), w.size, KeyCounts(w), w.timeSum)
  <2>1. Held(w)[s][l] = Append(Held(u)[s][l], pkt)
    BY <1>2, <1>7
  <2>2. \A r \in Ssrcs, m \in Levels : (r # s \/ m # l) => Held(w)[r][m] = Held(u)[r][m]
    BY <1>2, <1>6
  <2>3. \A r \in Ssrcs : KeyCounts(w)[r] = IF r = s /\ IsKey(pkt) THEN KeyCounts(u)[r] + 1 ELSE KeyCounts(u)[r]
    BY <1>2, <1>3, <1>b
  <2>4. Counted(Held(w), Age(u), u.size + 1, KeyCounts(w), u.timeSum)
    BY <1>0, <1>2, <2>1, <2>2, <2>3, PlacesPush
  <2>. QED
    BY <1>2, <2>4
<1>9. Filed(w)
  <2>1. ASSUME NEW r \in Ssrcs, ~w.streams[r].here
        PROVE  w.streams[r].keys = 0 /\ \A m \in Levels : w.streams[r].at[m] = <<>>
    <3>1. r # s
      BY <1>3, <2>1
    <3>2. w.streams[r] = u.streams[r]
      BY <1>3, <3>1
    <3>. QED
      BY <1>0, <2>1, <3>2 DEF QBooks, Filed
  <2>2. ASSUME NEW r \in Ssrcs, NEW m \in Levels, NEW i \in 1..Len(w.streams[r].at[m])
        PROVE  w.streams[r].at[m][i].ssrc = r
    <3>0. \A j \in 1..Len(u.streams[r].at[m]) : u.streams[r].at[m][j].ssrc = r
      BY <1>0 DEF QBooks, Filed
    <3>1. CASE r # s \/ m # l
      BY <1>6, <3>0, <3>1, SMTT(40)
    <3>2. CASE r = s /\ m = l
      <4>1. PICK a \in Seq(Packet) : a = u.streams[s].at[l]
        BY <1>4
      <4>2. i \in 1..Len(Append(a, pkt)) /\ w.streams[r].at[m][i] = Append(a, pkt)[i]
        BY <1>7, <3>2, <4>1
      <4>3. CASE i \in 1..Len(a)
        BY <3>0, <3>2, <4>1, <4>2, <4>3
      <4>4. CASE i \notin 1..Len(a)
        <5>1. i = Len(a) + 1
          BY <4>2, <4>4
        <5>2. Append(a, pkt)[Len(a) + 1] = pkt
          OBVIOUS
        <5>. QED
          BY <3>2, <4>2, <5>1, <5>2
      <4>. QED
        BY <4>3, <4>4
    <3>. QED
      BY <3>1, <3>2
  <2>. QED
    BY <2>1, <2>2 DEF Filed
<1>10. Append(u.streams[s].at[l], pkt) # <<>>
  BY <1>4
<1>11. \A m \in Levels : Busy(w, m) = IF m = l THEN Busy(u, l) \cup {s} ELSE Busy(u, m)
  <2>1. ASSUME NEW m \in Levels, m # l PROVE Busy(w, m) = Busy(u, m)
    BY <1>6, <2>1 DEF Busy
  <2>2. \A r \in Ssrcs : r # s => w.streams[r].at[l] = u.streams[r].at[l]
    BY <1>6
  <2>3. Busy(w, l) = Busy(u, l) \cup {s}
    BY <1>7, <1>10, <2>2 DEF Busy
  <2>. QED
    BY <2>1, <2>3
<1>12. Lined(w)
  <2>1. SUFFICES ASSUME NEW m \in Levels PROVE LineOf(w.byPrio[m], Busy(w, m))
    BY DEF Lined
  <2>2. LineOf(u.byPrio[m], Busy(u, m))
    BY <1>0 DEF QBooks, Lined
  <2>3. CASE m # l
    <3>1. w.byPrio[m] = u.byPrio[m]
      BY <1>1, <1>d, <2>3
    <3>. QED
      BY <1>11, <2>2, <2>3, <3>1
  <2>4. CASE m = l /\ u.streams[s].at[l] = <<>>
    <3>1. w.byPrio[l] = Append(u.byPrio[l], s)
      BY <1>1, <1>d, <2>4
    <3>2. s \notin Busy(u, l)
      BY <2>4 DEF Busy
    <3>3. LineOf(Append(u.byPrio[l], s), Busy(u, l) \cup {s})
      BY <2>2, <2>4, <3>2, LineAppend
    <3>. QED
      BY <1>11, <2>4, <3>1, <3>3
  <2>5. CASE m = l /\ u.streams[s].at[l] # <<>>
    <3>1. w.byPrio[l] = u.byPrio[l]
      BY <1>1, <1>d, <2>5
    <3>2. Busy(w, l) = Busy(u, l)
      BY <1>11, <2>5 DEF Busy
    <3>. QED
      BY <2>2, <2>5, <3>1, <3>2
  <2>. QED
    BY <2>3, <2>4, <2>5
<1>13. u.size \in Nat /\ (u.size = 0 <=> \A m \in Levels : Busy(u, m) = {})
  BY <1>0, Emptiness
<1>14. w.size # 0
  BY <1>13
<1>15. u.top \in Levels \/ (u.top = -1 /\ u.size = 0)
  BY DEF QInv, NoneBefore
<1>16. w.top \in Levels /\ Busy(w, w.top) # {} /\ \A m \in Levels : m < w.top => Busy(w, m) = {}
  <2>1. CASE u.top = -1 /\ u.size = 0
    <3>1. w.top = l
      BY <1>e, <2>1
    <3>2. Busy(w, l) # {}
      BY <1>11
    <3>3. \A m \in Levels : m < l => m # l
      BY DEF Levels
    <3>. QED
      BY <1>11, <1>13, <2>1, <3>1, <3>2, <3>3
  <2>2. CASE u.top \in Levels /\ l < u.top
    <3>1. w.top = l
      BY <1>e, <2>2
    <3>2. \A m \in Levels : m < u.top => Busy(u, m) = {}
      BY <2>2 DEF QInv, NoneBefore, Levels
    <3>3. \A m \in Levels : m < l => m < u.top /\ m # l
      BY <2>2 DEF Levels
    <3>. QED
      BY <1>11, <3>1, <3>2, <3>3
  <2>3. CASE u.top \in Levels /\ ~(l < u.top)
    <3>1. w.top = u.top
      BY <1>e, <2>3 DEF Levels
    <3>2. \A m \in Levels : m < u.top => Busy(u, m) = {}
      BY <2>3 DEF QInv, NoneBefore, Levels
    <3>3. \A m \in Levels : m < u.top => m # l
      BY <2>3 DEF Levels
    <3>4. Busy(u, u.top) # {}
      <4>1. u.size # 0
        BY <2>3 DEF QInv, TopIdle, Levels
      <4>. QED
        BY <4>1 DEF QInv, TopServed
    <3>. QED
      BY <1>11, <2>3, <3>1, <3>2, <3>3, <3>4
  <2>. QED
    BY <1>15, <2>1, <2>2, <2>3
<1>17. NoneBefore(w) /\ TopServed(w) /\ TopIdle(w)
  BY <1>14, <1>16 DEF NoneBefore, TopServed, TopIdle
<1>. QED
  BY <1>8, <1>9, <1>12, <1>17 DEF QInv, QBooks

\* Push keeps the books.
LEMMA PushKeeps ==
    ASSUME NEW q, QInv(q), NEW now \in Int, q.updated <= now, NEW pkt \in Packet,
           NEW r, r = Push(q, pkt, now)
    PROVE  /\ QInv(r) /\ r.size = q.size + 1 /\ r.paused = q.paused /\ r.updated = now
           /\ r.pauseSum = q.pauseSum + (IF q.paused THEN now - q.updated ELSE 0)
<1>. DEFINE u == UpdateAverageQueueTime(q, now)
            l == GetPriorityForType(pkt.kind)
            s == pkt.ssrc
            old == IF q.streams[s].here THEN q.streams[s] ELSE NewStream(now)
            pkt2 == [pkt EXCEPT !.at = now - u.pauseSum]
            t == [old EXCEPT !.at[l] = Append(@, pkt2), !.keys = IF IsKey(pkt) THEN @ + 1 ELSE @]
            w == [u EXCEPT !.streams[s] = t,
                           !.byPrio[l] = IF old.at[l] = <<>> THEN Append(@, s) ELSE @,
                           !.top = IF @ < 0 \/ l < @ THEN l ELSE @,
                           !.size = @ + 1]
<1>1. r = Cull(w, now)
  BY Zenon DEF Push
<1>2. /\ QInv(u) /\ u.streams = q.streams /\ u.byPrio = q.byPrio /\ u.top = q.top
      /\ u.size = q.size /\ u.paused = q.paused /\ u.updated = now
      /\ u.pauseSum = q.pauseSum + (IF q.paused THEN now - q.updated ELSE 0)
  BY UpdateKeeps
<1>. HIDE DEF u
<1>3. u \in QueueType /\ u.pauseSum \in Int /\ u.updated \in Int /\ u.size \in Int /\ u.top \in Int
      /\ u.streams \in [Ssrcs -> Stream] /\ u.byPrio \in [Levels -> Seq(Ssrcs)]
  BY <1>2 DEF QInv, QBooks, QueueType
<1>4. l \in Levels /\ s \in Ssrcs
  BY LevelOf DEF Packet
<1>. HIDE DEF l
<1>5. pkt2 \in Packet /\ pkt2.at = Age(u) /\ pkt2.ssrc = s /\ (IsKey(pkt2) <=> IsKey(pkt))
  <2>. PICK a \in Int : a = now - u.pauseSum
    BY <1>3
  <2>1. pkt2 = [pkt EXCEPT !.at = a]
    OBVIOUS
  <2>2. pkt2 \in Packet
    BY <2>1 DEF Packet
  <2>3. pkt2.at = a /\ pkt2.ssrc = s /\ pkt2.key = pkt.key
    BY <2>1 DEF Packet
  <2>. QED
    BY <1>2, <2>2, <2>3 DEF Age, IsKey
<1>. HIDE DEF pkt2
<1>6. old \in Stream /\ old.here /\ old.at = u.streams[s].at /\ old.keys = u.streams[s].keys
  <2>0. u.streams[s] \in Stream /\ u.streams[s].at \in [Levels -> Seq(Packet)]
    BY <1>3, <1>4, HeldType
  <2>1. CASE q.streams[s].here
    BY <1>2, <2>0, <2>1
  <2>2. CASE ~q.streams[s].here
    <3>1. old = NewStream(now)
      BY <2>2
    <3>2. NoPackets \in [Levels -> Seq(Packet)] /\ \A m \in Levels : NoPackets[m] = <<>>
      BY DEF NoPackets
    <3>3. NewStream(now) \in Stream
      <4>1. 0 \in Int /\ TRUE \in BOOLEAN
        OBVIOUS
      <4>. QED
        BY <3>2, <4>1, Zenon DEF NewStream, Stream
    <3>4. NewStream(now).here /\ NewStream(now).at = NoPackets /\ NewStream(now).keys = 0
      BY DEF NewStream
    <3>5. u.streams[s].keys = 0 /\ \A m \in Levels : u.streams[s].at[m] = <<>>
      BY <1>2, <1>4, <2>2 DEF QInv, QBooks, Filed
    <3>6. u.streams[s].at = NoPackets
      BY <2>0, <3>2, <3>5
    <3>. QED
      BY <3>1, <3>3, <3>4, <3>5, <3>6
  <2>. QED
    BY <2>1, <2>2
<1>. HIDE DEF old
<1>7. PICK at2 : at2 = [old.at EXCEPT ![l] = Append(old.at[l], pkt2)]
  OBVIOUS
<1>8. PICK k2 : k2 = IF IsKey(pkt) THEN old.keys + 1 ELSE old.keys
  OBVIOUS
<1>9. at2 \in [Levels -> Seq(Packet)] /\ k2 \in Int
  <2>1. old.at \in [Levels -> Seq(Packet)] /\ old.keys \in Int
    BY <1>6 DEF Stream
  <2>2. Append(old.at[l], pkt2) \in Seq(Packet)
    BY <1>4, <1>5, <2>1
  <2>3. at2 \in [Levels -> Seq(Packet)]
    BY <1>7, <2>1, <2>2
  <2>4. k2 \in Int
    BY <1>8, <2>1
  <2>. QED
    BY <2>3, <2>4
<1>10. t = [old EXCEPT !.at = at2, !.keys = k2]
  BY <1>6, <1>7, <1>8 DEF Stream
<1>11. t \in Stream /\ t.at = at2 /\ t.keys = k2 /\ t.here
  BY <1>6, <1>9, <1>10 DEF Stream
<1>. HIDE DEF t
<1>12. PICK st2 : st2 = [u.streams EXCEPT ![s] = t]
  OBVIOUS
<1>13. PICK by2 : by2 = [u.byPrio EXCEPT ![l] = IF old.at[l] = <<>> THEN Append(u.byPrio[l], s) ELSE u.byPrio[l]]
  OBVIOUS
<1>14. PICK top2 : top2 = IF u.top < 0 \/ l < u.top THEN l ELSE u.top
  OBVIOUS
<1>15. PICK n2 : n2 = u.size + 1
  OBVIOUS
<1>16. st2 \in [Ssrcs -> Stream] /\ by2 \in [Levels -> Seq(Ssrcs)] /\ top2 \in Int /\ n2 \in Int
  <2>1. st2 \in [Ssrcs -> Stream]
    BY <1>3, <1>11, <1>12
  <2>2. u.byPrio[l] \in Seq(Ssrcs) /\ Append(u.byPrio[l], s) \in Seq(Ssrcs)
    BY <1>3, <1>4
  <2>3. by2 \in [Levels -> Seq(Ssrcs)]
    BY <1>3, <1>13, <2>2
  <2>. QED
    BY <1>3, <1>4, <1>14, <1>15, <2>1, <2>3, SMTT(40) DEF Levels
<1>17. w = [u EXCEPT !.streams = st2, !.byPrio = by2, !.top = top2, !.size = n2]
  BY <1>3, <1>12, <1>13, <1>14, <1>15 DEF QueueType
<1>18. /\ w \in QueueType /\ w.streams = st2 /\ w.byPrio = by2 /\ w.top = top2 /\ w.size = n2
       /\ w.timeSum = u.timeSum /\ w.updated = u.updated /\ w.pauseSum = u.pauseSum /\ w.paused = u.paused
  BY <1>3, <1>16, <1>17 DEF QueueType
<1>. HIDE DEF w
<1>19. QInv(w)
  <2>1. t.at = [u.streams[s].at EXCEPT ![l] = Append(u.streams[s].at[l], pkt2)]
    BY <1>6, <1>7, <1>11
  <2>2. t.keys = IF IsKey(pkt2) THEN u.streams[s].keys + 1 ELSE u.streams[s].keys
    BY <1>5, <1>6, <1>8, <1>11
  <2>3. w.streams = [u.streams EXCEPT ![s] = t]
    BY <1>12, <1>18
  <2>4. w.byPrio = [u.byPrio EXCEPT ![l] = IF u.streams[s].at[l] = <<>> THEN Append(u.byPrio[l], s)
                                           ELSE u.byPrio[l]]
    BY <1>6, <1>13, <1>18
  <2>5. w.top = IF u.top < 0 \/ l < u.top THEN l ELSE u.top
    BY <1>14, <1>18
  <2>6. w.size = u.size + 1
    BY <1>15, <1>18
  <2>7. ComesIn(u, w, pkt2, s, l, t)
    BY <1>4, <1>5, <1>11, <1>18, <2>1, <2>2, <2>3, <2>4, <2>5, <2>6, Zenon DEF ComesIn
  <2>. QED
    BY <1>2, <2>7, FiledIn
<1>20. /\ QInv(r) /\ r.size = w.size /\ r.paused = w.paused
       /\ r.updated = w.updated /\ r.pauseSum = w.pauseSum
  BY <1>1, <1>19, CullKeeps
<1>. QED
  BY <1>2, <1>15, <1>18, <1>20

\* The packet that is next: the first of the first stream in the line of the level served.
LEMMA NextIs ==
    ASSUME NEW q, QInv(q), q.size # 0
    PROVE  \E s \in Ssrcs, l \in Levels :
              /\ l = q.top /\ s = Head(q.byPrio[l]) /\ q.byPrio[l] # <<>>
              /\ q.streams[s].at[l] \in Seq(Packet) /\ q.streams[s].at[l] # <<>>
              /\ NextPacket(q) = q.streams[s].at[l][1]
              /\ NextPacket(q) \in Packet /\ NextPacket(q).ssrc = s
<1>0. q \in QueueType /\ QBooks(q)
  BY DEF QInv, QBooks
<1>1. PICK l \in Levels : l = q.top /\ Busy(q, l) # {}
  BY DEF QInv, TopServed
<1>2. q.byPrio[l] # <<>> /\ LineOf(q.byPrio[l], Busy(q, l))
  BY <1>0, <1>1, Emptiness DEF QBooks, Lined
<1>3. PICK s \in Ssrcs : s = Head(q.byPrio[l]) /\ s \in Busy(q, l)
  BY <1>2, LineTail
<1>4. PICK a : a = q.streams[s].at[l]
  OBVIOUS
<1>5. a \in Seq(Packet) /\ a # <<>>
  <2>1. q.streams[s].at \in [Levels -> Seq(Packet)]
    BY <1>0, HeldType
  <2>. QED
    BY <1>3, <1>4, <2>1 DEF Busy
<1>6. Head(a) = a[1] /\ a[1] \in Packet /\ 1 \in 1..Len(a)
  BY <1>5
<1>7. NextPacket(q) = a[1]
  BY <1>1, <1>3, <1>4, <1>6 DEF NextPacket
<1>8. a[1].ssrc = s
  BY <1>0, <1>4, <1>6 DEF QBooks, Filed
<1>. QED
  BY <1>1, <1>2, <1>3, <1>4, <1>5, <1>6, <1>7, <1>8

\* From queue q to w the first packet of stream s at level l, which is served, goes out.
GoesOut(q, w, s, l) ==
    /\ s \in Ssrcs /\ l \in Levels /\ w \in QueueType /\ q.streams[s].at[l] # <<>>
    /\ l = q.top /\ s = Head(q.byPrio[l]) /\ q.byPrio[l] # <<>>
    /\ \A r \in Ssrcs : r # s => w.streams[r] = q.streams[r]
    /\ w.streams[s].here = q.streams[s].here
    /\ w.streams[s].at = [q.streams[s].at EXCEPT ![l] = Tail(q.streams[s].at[l])]
    /\ w.streams[s].keys = IF IsKey(q.streams[s].at[l][1]) THEN q.streams[s].keys - 1 ELSE q.streams[s].keys
    /\ \A m \in Levels : m # l => w.byPrio[m] = q.byPrio[m]
    /\ w.byPrio[l] = IF Tail(q.streams[s].at[l]) = <<>> THEN Tail(q.byPrio[l])
                     ELSE Append(Tail(q.byPrio[l]), s)
    /\ w.top = q.top /\ w.size = q.size - 1
    /\ w.timeSum = q.timeSum - (Age(q) - q.streams[s].at[l][1].at)
    /\ w.updated = q.updated /\ w.pauseSum = q.pauseSum

LEMMA Rest ==
    ASSUME NEW a \in Seq(Packet), a # <<>>
    PROVE  /\ Tail(a) \in Seq(Packet) /\ Len(Tail(a)) = Len(a) - 1
           /\ \A i \in 1..Len(Tail(a)) : i + 1 \in 1..Len(a) /\ Tail(a)[i] = a[i + 1]
OBVIOUS

LEMMA TakenOut ==
    ASSUME NEW q, QInv(q), NEW w, NEW s, NEW l, GoesOut(q, w, s, l)
    PROVE  /\ QBooks(w) /\ NoneBefore(w)
           /\ Tail(q.streams[s].at[l]) # <<>> => TopServed(w) /\ TopIdle(w)
<1>. /\ s \in Ssrcs /\ l \in Levels /\ w \in QueueType /\ q.streams[s].at[l] # <<>>
     /\ l = q.top /\ s = Head(q.byPrio[l]) /\ q.byPrio[l] # <<>>
     /\ w.top = q.top /\ w.size = q.size - 1
     /\ w.updated = q.updated /\ w.pauseSum = q.pauseSum
  BY DEF GoesOut
<1>0. q \in QueueType /\ QBooks(q) /\ Counted(Held(q), Age(q), q.size, KeyCounts(q), q.timeSum)
  BY DEF QInv, QBooks
<1>1. \A r \in Ssrcs : r # s => w.streams[r] = q.streams[r]
  BY DEF GoesOut
<1>2. q.streams[s].at \in [Levels -> Seq(Packet)]
  BY <1>0, HeldType
<1>3. /\ w.streams[s].at[l] = Tail(q.streams[s].at[l])
      /\ \A m \in Levels : m # l => w.streams[s].at[m] = q.streams[s].at[m]
  <2>1. w.streams[s].at = [q.streams[s].at EXCEPT ![l] = Tail(q.streams[s].at[l])]
    BY DEF GoesOut
  <2>. QED
    BY <1>2, <2>1
<1>4. ASSUME NEW r \in Ssrcs, NEW m \in Levels, r # s \/ m # l
      PROVE  w.streams[r].at[m] = q.streams[r].at[m]
  <2>1. CASE r # s
    BY <1>1, <2>1
  <2>2. CASE r = s
    BY <1>3, <1>4, <2>2
  <2>. QED
    BY <2>1, <2>2
<1>5. /\ Held(q) \in Contents /\ Age(q) \in Int
      /\ \A r \in Ssrcs : Held(q)[r] = q.streams[r].at /\ KeyCounts(q)[r] = q.streams[r].keys
  BY <1>0, HeldType
<1>6. /\ Held(w) \in Contents
      /\ \A r \in Ssrcs : Held(w)[r] = w.streams[r].at /\ KeyCounts(w)[r] = w.streams[r].keys
  BY HeldType
<1>7. Age(w) = Age(q)
  BY DEF Age
<1>8. Counted(Held(w), Age(w), w.size, KeyCounts(w), w.timeSum)
  <2>1. Held(w)[s][l] = Tail(Held(q)[s][l]) /\ Held(q)[s][l] # <<>>
    BY <1>3, <1>5, <1>6
  <2>2. \A r \in Ssrcs, m \in Levels : (r # s \/ m # l) => Held(w)[r][m] = Held(q)[r][m]
    BY <1>4, <1>5, <1>6
  <2>3. w.streams[s].keys = IF IsKey(q.streams[s].at[l][1]) THEN q.streams[s].keys - 1 ELSE q.streams[s].keys
    BY DEF GoesOut
  <2>4. \A r \in Ssrcs : KeyCounts(w)[r] = IF r = s /\ IsKey(Held(q)[s][l][1]) THEN KeyCounts(q)[r] - 1
                                         ELSE KeyCounts(q)[r]
    <3>1. KeyCounts(w)[s] = IF IsKey(Held(q)[s][l][1]) THEN KeyCounts(q)[s] - 1 ELSE KeyCounts(q)[s]
      <4>1. /\ KeyCounts(w)[s] = w.streams[s].keys /\ KeyCounts(q)[s] = q.streams[s].keys
            /\ Held(q)[s] = q.streams[s].at
        BY <1>5, <1>6, Zenon
      <4>. QED
        BY <2>3, <4>1
    <3>2. ASSUME NEW r \in Ssrcs, r # s PROVE KeyCounts(w)[r] = KeyCounts(q)[r]
      <4>1. w.streams[r] = q.streams[r]
        BY <1>1, <3>2, Zenon
      <4>2. KeyCounts(w)[r] = w.streams[r].keys /\ KeyCounts(q)[r] = q.streams[r].keys
        BY <1>5, <1>6, Zenon
      <4>. QED
        BY <4>1, <4>2
    <3>. QED
      BY <3>1, <3>2, Zenon
  <2>5. Counted(Held(w), Age(q), q.size - 1, KeyCounts(w), q.timeSum - (Age(q) - Held(q)[s][l][1].at))
    <3>1. PICK f \in Contents, u \in Int : f = Held(q) /\ u = Age(q)
      BY <1>5, Zenon
    <3>2. PICK g \in Contents : g = Held(w)
      BY <1>6, Zenon
    <3>3. PICK n, keys, sum, less : n = q.size /\ keys = KeyCounts(q) /\ sum = q.timeSum /\ less = KeyCounts(w)
      BY Zenon
    <3>4. Counted(f, u, n, keys, sum) /\ f[s][l] # <<>> /\ g[s][l] = Tail(f[s][l])
      BY <1>0, <2>1, <3>1, <3>2, <3>3, Zenon
    <3>6. \A r \in Ssrcs, m \in Levels : (r # s \/ m # l) => g[r][m] = f[r][m]
      BY <2>2, <3>1, <3>2, Zenon
    <3>7. \A r \in Ssrcs : less[r] = IF r = s /\ IsKey(f[s][l][1]) THEN keys[r] - 1 ELSE keys[r]
      BY <2>4, <3>1, <3>3
    <3>5. Counted(g, u, n - 1, less, sum - (u - f[s][l][1].at))
      BY ONLY s \in Ssrcs, l \in Levels, f \in Contents, g \in Contents, u \in Int, <3>4, <3>6, <3>7, PlacesPop
    <3>. QED
      BY <3>1, <3>2, <3>3, <3>5, Zenon
  <2>6. w.timeSum = q.timeSum - (Age(q) - q.streams[s].at[l][1].at)
    BY DEF GoesOut
  <2>. QED
    BY <1>5, <1>7, <2>5, <2>6
<1>9. PICK a \in Seq(Packet) : a = q.streams[s].at[l] /\ a # <<>>
  BY <1>2
<1>10. \A i \in 1..Len(Tail(a)) : i + 1 \in 1..Len(a) /\ Tail(a)[i] = a[i + 1]
  BY <1>9, Rest
<1>11. Filed(w)
  <2>1. ASSUME NEW r \in Ssrcs, ~w.streams[r].here
        PROVE  w.streams[r].keys = 0 /\ \A m \in Levels : w.streams[r].at[m] = <<>>
    <3>1. r # s
      <4>1. SUFFICES ASSUME r = s PROVE FALSE
        OBVIOUS
      <4>2. ~q.streams[s].here
        BY <2>1, <4>1 DEF GoesOut
      <4>. QED
        BY <1>0, <4>2 DEF QBooks, Filed
    <3>2. w.streams[r] = q.streams[r]
      BY <1>1, <3>1
    <3>. QED
      BY <1>0, <2>1, <3>2 DEF QBooks, Filed
  <2>2. ASSUME NEW r \in Ssrcs, NEW m \in Levels, NEW i \in 1..Len(w.streams[r].at[m])
        PROVE  w.streams[r].at[m][i].ssrc = r
    <3>0. \A j \in 1..Len(q.streams[r].at[m]) : q.streams[r].at[m][j].ssrc = r
      BY <1>0 DEF QBooks, Filed
    <3>1. CASE r # s \/ m # l
      BY <1>4, <3>0, <3>1
    <3>2. CASE r = s /\ m = l
      <4>1. w.streams[r].at[m] = Tail(a)
        BY <1>3, <1>9, <3>2, Zenon
      <4>2. i \in 1..Len(Tail(a)) /\ w.streams[r].at[m][i] = Tail(a)[i]
        BY <2>2, <4>1, Zenon
      <4>3. i + 1 \in 1..Len(a) /\ w.streams[r].at[m][i] = a[i + 1]
        BY <1>10, <4>2, Zenon
      <4>4. \A j \in 1..Len(a) : a[j].ssrc = r
        BY <1>9, <3>0, <3>2, Zenon
      <4>. QED
        BY <4>3, <4>4, Zenon
    <3>. QED
      BY <3>1, <3>2
  <2>. QED
    BY <2>1, <2>2 DEF Filed
<1>12. \A m \in Levels : m # l => Busy(w, m) = Busy(q, m)
  BY <1>4 DEF Busy
<1>13. Busy(w, l) = IF Tail(a) = <<>> THEN Busy(q, l) \ {s} ELSE Busy(q, l) \cup {s}
  <2>1. \A r \in Ssrcs : r # s => w.streams[r].at[l] = q.streams[r].at[l]
    BY <1>4
  <2>. QED
    BY <1>3, <1>9, <2>1, ZenonT(40) DEF Busy
<1>14. s \in Busy(q, l)
  BY DEF Busy
<1>15. Lined(w)
  <2>1. SUFFICES ASSUME NEW m \in Levels PROVE LineOf(w.byPrio[m], Busy(w, m))
    BY DEF Lined
  <2>2. LineOf(q.byPrio[m], Busy(q, m))
    BY <1>0 DEF QBooks, Lined
  <2>3. CASE m # l
    <3>1. w.byPrio[m] = q.byPrio[m]
      BY <2>3 DEF GoesOut
    <3>. QED
      BY <1>12, <2>2, <2>3, <3>1
  <2>4. CASE m = l
    <3>1. LineOf(Tail(q.byPrio[l]), Busy(q, l) \ {s})
      BY <2>2, <2>4, LineTail
    <3>2. CASE Tail(a) = <<>>
      <4>1. w.byPrio[l] = Tail(q.byPrio[l])
        BY <1>9, <3>2 DEF GoesOut
      <4>. QED
        BY <1>13, <2>4, <3>1, <3>2, <4>1
    <3>3. CASE Tail(a) # <<>>
      <4>1. w.byPrio[l] = Append(Tail(q.byPrio[l]), s)
        BY <1>9, <3>3 DEF GoesOut
      <4>2. LineOf(Append(Tail(q.byPrio[l]), s), (Busy(q, l) \ {s}) \cup {s})
        BY <3>1, LineAppend
      <4>3. (Busy(q, l) \ {s}) \cup {s} = Busy(w, l)
        BY <1>13, <1>14, <3>3
      <4>. QED
        BY <2>4, <4>1, <4>2, <4>3
    <3>. QED
      BY <3>2, <3>3
  <2>. QED
    BY <2>3, <2>4
<1>16. QBooks(w)
  BY <1>8, <1>11, <1>15 DEF QBooks
<1>17. NoneBefore(w)
  <2>1. \A m \in Levels : m < l => Busy(q, m) = {} /\ m # l
    BY DEF QInv, NoneBefore, Levels
  <2>. QED
    BY <1>12, <2>1 DEF NoneBefore
<1>18. ASSUME Tail(q.streams[s].at[l]) # <<>> PROVE TopServed(w) /\ TopIdle(w)
  <2>1. Busy(w, l) # {}
    BY <1>9, <1>13, <1>18
  <2>2. w.size # 0
    BY <1>16, <2>1, Emptiness
  <2>. QED
    BY <2>1, <2>2 DEF TopServed, TopIdle
<1>. QED
  BY <1>16, <1>17, <1>18

\* Pop keeps the books.
LEMMA PopKeeps ==
    ASSUME NEW q, QInv(q), q.size # 0, NEW r, r = Pop(q)
    PROVE  /\ QInv(r) /\ r.size = q.size - 1 /\ r.paused = q.paused
           /\ r.updated = q.updated /\ r.pauseSum = q.pauseSum
<1>1. PICK s \in Ssrcs, l \in Levels :
              /\ l = q.top /\ s = Head(q.byPrio[l]) /\ q.byPrio[l] # <<>>
              /\ q.streams[s].at[l] \in Seq(Packet) /\ q.streams[s].at[l] # <<>>
              /\ NextPacket(q) = q.streams[s].at[l][1]
              /\ NextPacket(q) \in Packet /\ NextPacket(q).ssrc = s
  BY NextIs
<1>2. PICK pkt \in Packet : pkt = NextPacket(q)
  BY <1>1
<1>3. /\ q \in QueueType /\ q.streams \in [Ssrcs -> Stream] /\ q.byPrio \in [Levels -> Seq(Ssrcs)]
      /\ q.size \in Int /\ q.timeSum \in Int /\ q.pauseSum \in Int /\ q.updated \in Int
  BY DEF QInv, QBooks, QueueType
<1>4. PICK rest \in Seq(Packet) : rest = Tail(q.streams[s].at[l])
  BY <1>1, Rest
<1>5. PICK at2 : at2 = [q.streams[s].at EXCEPT ![l] = rest]
  OBVIOUS
<1>6. PICK k2 : k2 = IF IsKey(pkt) THEN q.streams[s].keys - 1 ELSE q.streams[s].keys
  OBVIOUS
<1>7. PICK t : t = [q.streams[s] EXCEPT !.at = at2, !.keys = k2]
  OBVIOUS
<1>8. PICK st2 : st2 = [q.streams EXCEPT ![s] = t]
  OBVIOUS
<1>9. PICK by2 : by2 = [q.byPrio EXCEPT ![l] = IF rest = <<>> THEN Tail(q.byPrio[l])
                                               ELSE Append(Tail(q.byPrio[l]), s)]
  OBVIOUS
<1>10. PICK n2 : n2 = q.size - 1
  OBVIOUS
<1>11. PICK sum2 : sum2 = q.timeSum - TimeInNonPausedState(q, pkt)
  OBVIOUS
<1>12. PICK w : w = [q EXCEPT !.streams = st2, !.byPrio = by2, !.size = n2, !.timeSum = sum2]
  OBVIOUS
<1>13. q.streams[s] \in Stream /\ q.streams[s].at \in [Levels -> Seq(Packet)] /\ q.streams[s].keys \in Int
  BY <1>3 DEF Stream
<1>14. at2 \in [Levels -> Seq(Packet)] /\ k2 \in Int
  BY <1>4, <1>5, <1>6, <1>13
<1>15. t \in Stream /\ t.at = at2 /\ t.keys = k2 /\ t.here = q.streams[s].here
  BY <1>7, <1>13, <1>14 DEF Stream
<1>16. st2 \in [Ssrcs -> Stream] /\ st2[s] = t /\ \A x \in Ssrcs : x # s => st2[x] = q.streams[x]
  BY <1>3, <1>8, <1>15
<1>17. /\ by2 \in [Levels -> Seq(Ssrcs)] /\ \A m \in Levels : m # l => by2[m] = q.byPrio[m]
       /\ by2[l] = IF rest = <<>> THEN Tail(q.byPrio[l]) ELSE Append(Tail(q.byPrio[l]), s)
  <2>1. q.byPrio[l] \in Seq(Ssrcs)
    BY <1>3
  <2>2. Tail(q.byPrio[l]) \in Seq(Ssrcs)
    <3>1. PICK line \in Seq(Ssrcs) : line = q.byPrio[l] /\ line # <<>>
      BY <1>1, <2>1, Zenon
    <3>2. Tail(line) \in Seq(Ssrcs)
      BY <3>1
    <3>. QED
      BY <3>1, <3>2, Zenon
  <2>3. Append(Tail(q.byPrio[l]), s) \in Seq(Ssrcs)
    BY <2>2
  <2>. QED
    BY <1>3, <1>9, <2>2, <2>3
<1>18. n2 \in Int /\ sum2 \in Int /\ pkt.at \in Int
       /\ TimeInNonPausedState(q, pkt) = Age(q) - pkt.at
  <2>1. pkt.at \in Int
    BY DEF Packet
  <2>. QED
    BY <1>3, <1>10, <1>11, <2>1 DEF TimeInNonPausedState, Age
<1>19. /\ w \in QueueType /\ w.streams = st2 /\ w.byPrio = by2 /\ w.top = q.top /\ w.size = n2
       /\ w.timeSum = sum2 /\ w.updated = q.updated /\ w.pauseSum = q.pauseSum /\ w.paused = q.paused
  BY <1>3, <1>12, <1>16, <1>17, <1>18 DEF QueueType
<1>20. GoesOut(q, w, s, l)
  <2>1. w.streams[s] = t /\ \A x \in Ssrcs : x # s => w.streams[x] = q.streams[x]
    BY <1>16, <1>19
  <2>2. w.streams[s].at = [q.streams[s].at EXCEPT ![l] = Tail(q.streams[s].at[l])]
    BY <1>4, <1>5, <1>15, <2>1
  <2>3. w.streams[s].keys = IF IsKey(q.streams[s].at[l][1]) THEN q.streams[s].keys - 1 ELSE q.streams[s].keys
    BY <1>1, <1>2, <1>6, <1>15, <2>1
  <2>4. w.byPrio[l] = IF Tail(q.streams[s].at[l]) = <<>> THEN Tail(q.byPrio[l])
                      ELSE Append(Tail(q.byPrio[l]), s)
    BY <1>4, <1>17, <1>19
  <2>5. w.timeSum = q.timeSum - (Age(q) - q.streams[s].at[l][1].at)
    BY <1>1, <1>2, <1>11, <1>18, <1>19
  <2>6. w.streams[s].here = q.streams[s].here
    BY <1>15, <2>1
  <2>7. \A m \in Levels : m # l => w.byPrio[m] = q.byPrio[m]
    BY <1>17, <1>19
  <2>. QED
    BY <1>1, <1>10, <1>19, <2>1, <2>2, <2>3, <2>4, <2>5, <2>6, <2>7, Zenon DEF GoesOut
<1>21. QBooks(w) /\ NoneBefore(w) /\ (rest # <<>> => TopServed(w) /\ TopIdle(w))
  BY <1>4, <1>20, TakenOut
<1>22. r = IF rest = <<>> THEN MaybeUpdateTopPrioLevel(w) ELSE w
  <2>. DEFINE V(a, b, x, y) ==
                  [q EXCEPT !.streams[a] = [q.streams[a] EXCEPT !.at[b] = y, !.keys = IF IsKey(x) THEN @ - 1 ELSE @],
                            !.size = @ - 1,
                            !.timeSum = @ - TimeInNonPausedState(q, x),
                            !.byPrio[b] = IF y = <<>> THEN Tail(@) ELSE Append(Tail(@), a)]
              R(a, b) == Tail(q.streams[a].at[b])
  <2>1. r = IF R(NextPacket(q).ssrc, q.top) = <<>>
            THEN MaybeUpdateTopPrioLevel(V(NextPacket(q).ssrc, q.top, NextPacket(q), R(NextPacket(q).ssrc, q.top)))
            ELSE V(NextPacket(q).ssrc, q.top, NextPacket(q), R(NextPacket(q).ssrc, q.top))
    BY Zenon DEF Pop
  <2>2. R(s, l) = rest
    BY <1>4
  <2>3. V(s, l, pkt, rest) = w
    <3>1. [q.streams[s] EXCEPT !.at[l] = rest, !.keys = IF IsKey(pkt) THEN @ - 1 ELSE @] = t
      BY <1>5, <1>6, <1>7, <1>13 DEF Stream
    <3>. DEFINE W(x, line, wait) ==
                    [q EXCEPT !.streams[s] = x, !.size = @ - 1, !.timeSum = @ - wait, !.byPrio[l] = line]
    <3>2. V(s, l, pkt, rest) =
              W([q.streams[s] EXCEPT !.at[l] = rest, !.keys = IF IsKey(pkt) THEN @ - 1 ELSE @],
                IF rest = <<>> THEN Tail(q.byPrio[l]) ELSE Append(Tail(q.byPrio[l]), s),
                TimeInNonPausedState(q, pkt))
      BY Zenon
    <3>3. PICK line : /\ line = IF rest = <<>> THEN Tail(q.byPrio[l]) ELSE Append(Tail(q.byPrio[l]), s)
                      /\ by2 = [q.byPrio EXCEPT ![l] = line]
      BY <1>9
    <3>4. PICK wait : wait = TimeInNonPausedState(q, pkt)
      OBVIOUS
    <3>5. W(t, line, wait) = w
      BY <1>3, <1>8, <1>10, <1>11, <1>12, <3>3, <3>4 DEF QueueType
    <3>. HIDE DEF V, W
    <3>. QED
      BY <3>1, <3>2, <3>3, <3>4, <3>5, Zenon
  <2>. HIDE DEF V, R
  <2>. QED
    BY <1>1, <1>2, <2>1, <2>2, <2>3
<1>23. CASE rest = <<>>
  BY <1>10, <1>19, <1>21, <1>22, <1>23, TopFound
<1>24. CASE rest # <<>>
  BY <1>10, <1>19, <1>21, <1>22, <1>24 DEF QInv
<1>. QED
  BY <1>23, <1>24

\* From queue q to w stream s is emptied and filtered out of the lines.
Emptied(q, w, s) ==
    /\ s \in Ssrcs /\ w \in QueueType
    /\ \A r \in Ssrcs : r # s => w.streams[r] = q.streams[r]
    /\ w.streams[s].keys = 0 /\ \A m \in Levels : w.streams[s].at[m] = <<>>
    /\ \A m \in Levels : w.byPrio[m] = IF q.streams[s].at[m] = <<>> THEN q.byPrio[m]
                                       ELSE Without(q.byPrio[m], s)
    /\ w.top = q.top
    /\ w.size = q.size - Cardinality(Places(Held(q), {s}))
    /\ w.timeSum = q.timeSum - Cardinality(Units(Held(q), Age(q), {s}))
    /\ w.updated = q.updated /\ w.pauseSum = q.pauseSum

LEMMA ClearedOut ==
    ASSUME NEW q, QInv(q), NEW w, NEW s, Emptied(q, w, s)
    PROVE  QBooks(w) /\ NoneBefore(w)
<1>. /\ s \in Ssrcs /\ w \in QueueType /\ w.top = q.top
     /\ w.updated = q.updated /\ w.pauseSum = q.pauseSum
  BY DEF Emptied
<1>0. q \in QueueType /\ QBooks(q) /\ Counted(Held(q), Age(q), q.size, KeyCounts(q), q.timeSum)
  BY DEF QInv, QBooks
<1>1. /\ \A r \in Ssrcs : r # s => w.streams[r] = q.streams[r]
      /\ w.streams[s].keys = 0 /\ \A m \in Levels : w.streams[s].at[m] = <<>>
  BY DEF Emptied
<1>2. /\ Held(q) \in Contents /\ Age(q) \in Int
      /\ \A r \in Ssrcs : Held(q)[r] = q.streams[r].at /\ KeyCounts(q)[r] = q.streams[r].keys
  BY <1>0, HeldType
<1>3. /\ Held(w) \in Contents
      /\ \A r \in Ssrcs : Held(w)[r] = w.streams[r].at /\ KeyCounts(w)[r] = w.streams[r].keys
  BY HeldType
<1>4. Age(w) = Age(q)
  BY DEF Age
<1>5. Counted(Held(w), Age(w), w.size, KeyCounts(w), w.timeSum)
  <2>1. \A m \in Levels : Held(w)[s][m] = <<>>
    BY <1>1, <1>3
  <2>2. \A r \in Ssrcs \ {s}, m \in Levels : Held(w)[r][m] = Held(q)[r][m]
    BY <1>1, <1>2, <1>3
  <2>3. \A r \in Ssrcs : KeyCounts(w)[r] = IF r = s THEN 0 ELSE KeyCounts(q)[r]
    BY <1>1, <1>2, <1>3
  <2>4. Counted(Held(w), Age(q), q.size - Cardinality(Places(Held(q), {s})), KeyCounts(w),
                q.timeSum - Cardinality(Units(Held(q), Age(q), {s})))
    BY <1>0, <1>2, <1>3, <2>1, <2>2, <2>3, PlacesClear
  <2>5. /\ w.size = q.size - Cardinality(Places(Held(q), {s}))
        /\ w.timeSum = q.timeSum - Cardinality(Units(Held(q), Age(q), {s}))
    BY DEF Emptied
  <2>. QED
    BY <1>4, <2>4, <2>5
<1>6. Filed(w)
  <2>1. ASSUME NEW r \in Ssrcs, r # s
        PROVE  /\ ~w.streams[r].here =>
                     w.streams[r].keys = 0 /\ \A l \in Levels : w.streams[r].at[l] = <<>>
               /\ \A l \in Levels : \A i \in 1..Len(w.streams[r].at[l]) : w.streams[r].at[l][i].ssrc = r
    <3>1. w.streams[r] = q.streams[r]
      BY <1>1, <2>1
    <3>. QED
      BY <1>0, <3>1 DEF QBooks, Filed
  <2>2. \A m \in Levels : \A i \in 1..Len(w.streams[s].at[m]) : FALSE
    BY <1>1
  <2>. QED
    BY <1>1, <2>1, <2>2 DEF Filed
<1>7. \A m \in Levels : Busy(w, m) = Busy(q, m) \ {s}
  BY <1>1 DEF Busy
<1>8. Lined(w)
  <2>1. SUFFICES ASSUME NEW m \in Levels PROVE LineOf(w.byPrio[m], Busy(w, m))
    BY DEF Lined
  <2>2. LineOf(q.byPrio[m], Busy(q, m))
    BY <1>0 DEF QBooks, Lined
  <2>3. CASE q.streams[s].at[m] = <<>>
    <3>1. w.byPrio[m] = q.byPrio[m]
      BY <2>3 DEF Emptied
    <3>2. Busy(w, m) = Busy(q, m)
      BY <1>7, <2>3 DEF Busy
    <3>. QED
      BY <2>2, <3>1, <3>2
  <2>4. CASE q.streams[s].at[m] # <<>>
    <3>1. w.byPrio[m] = Without(q.byPrio[m], s)
      BY <2>4 DEF Emptied
    <3>2. s \in Busy(q, m)
      BY <2>4 DEF Busy
    <3>. QED
      BY <1>7, <2>2, <3>1, <3>2, LineWithout
  <2>. QED
    BY <2>3, <2>4
<1>9. QBooks(w)
  BY <1>5, <1>6, <1>8 DEF QBooks
<1>10. NoneBefore(w)
  <2>1. CASE q.top = -1 /\ q.size = 0
    <3>1. \A m \in Levels : Busy(q, m) = {}
      BY <1>0, <2>1, Emptiness
    <3>2. w.size = 0
      BY <1>7, <1>9, <3>1, Emptiness
    <3>. QED
      BY <2>1, <3>2 DEF NoneBefore
  <2>2. CASE q.top \in Levels /\ \A m \in Levels : m < q.top => Busy(q, m) = {}
    BY <1>7, <2>2 DEF NoneBefore
  <2>. QED
    BY <2>1, <2>2 DEF QInv, NoneBefore
<1>. QED
  BY <1>9, <1>10

\* What a stream counts for is a number.
LEMMA CountedOne ==
    ASSUME NEW q, QInv(q), NEW s \in Ssrcs
    PROVE  /\ Cardinality(Places(Held(q), {s})) \in Nat
           /\ Cardinality(Units(Held(q), Age(q), {s})) \in Nat
           /\ Slots(q, {s}) = Places(Held(q), {s})
           /\ Waited(q, {s}) = Units(Held(q), Age(q), {s})
<1>0. q \in QueueType /\ Counted(Held(q), Age(q), q.size, KeyCounts(q), q.timeSum)
  BY DEF QInv, QBooks
<1>1. Held(q) \in Contents /\ Age(q) \in Int
  BY <1>0, HeldType
<1>2. {s} \in SUBSET Ssrcs /\ Ssrcs \in SUBSET Ssrcs
  OBVIOUS
<1>3. Places(Held(q), {s}) \subseteq Places(Held(q), Ssrcs)
  BY <1>1, PlacesWithin
<1>4. Units(Held(q), Age(q), {s}) \subseteq Units(Held(q), Age(q), Ssrcs)
  BY <1>3, Zenon DEF Units
<1>5. IsFiniteSet(Places(Held(q), Ssrcs)) /\ IsFiniteSet(Units(Held(q), Age(q), Ssrcs))
  BY <1>0 DEF Counted
<1>6. IsFiniteSet(Places(Held(q), {s})) /\ IsFiniteSet(Units(Held(q), Age(q), {s}))
  BY <1>3, <1>4, <1>5, FS_Subset, Zenon
<1>7. Slots(q, {s}) = Places(Held(q), {s}) /\ Waited(q, {s}) = Units(Held(q), Age(q), {s})
  BY <1>0, <1>2, Bridge, Zenon
<1>. QED
  BY <1>6, <1>7, FS_CardinalityType, Zenon

\* A purge keeps the books.
LEMMA RemoveKeeps ==
    ASSUME NEW q, QInv(q), NEW s \in Ssrcs, NEW r, r = RemovePacketsForSsrc(q, s)
    PROVE  /\ QInv(r) /\ r.paused = q.paused
           /\ r.updated = q.updated /\ r.pauseSum = q.pauseSum
<1>1. CASE ~q.streams[s].here
  <2>1. r = MaybeUpdateTopPrioLevel(q)
    BY <1>1, Zenon DEF RemovePacketsForSsrc
  <2>. QED
    BY <2>1, TopFound DEF QInv
<1>2. CASE q.streams[s].here
  <2>1. /\ q \in QueueType /\ q.streams \in [Ssrcs -> Stream] /\ q.byPrio \in [Levels -> Seq(Ssrcs)]
        /\ q.size \in Int /\ q.timeSum \in Int /\ q.pauseSum \in Int /\ q.updated \in Int
    BY DEF QInv, QBooks, QueueType
  <2>2. PICK t : t = [q.streams[s] EXCEPT !.at = NoPackets, !.keys = 0]
    OBVIOUS
  <2>3. PICK st2 : st2 = [q.streams EXCEPT ![s] = t]
    OBVIOUS
  <2>4. PICK by2 : by2 = [m \in Levels |-> IF q.streams[s].at[m] = <<>> THEN q.byPrio[m]
                                           ELSE Without(q.byPrio[m], s)]
    OBVIOUS
  <2>5. PICK n2 : n2 = q.size - Cardinality(Slots(q, {s}))
    OBVIOUS
  <2>6. PICK sum2 : sum2 = q.timeSum - Cardinality(Waited(q, {s}))
    OBVIOUS
  <2>7. PICK w : w = [q EXCEPT !.streams = st2, !.size = n2, !.timeSum = sum2, !.byPrio = by2]
    OBVIOUS
  <2>8. NoPackets \in [Levels -> Seq(Packet)] /\ \A m \in Levels : NoPackets[m] = <<>>
    BY DEF NoPackets
  <2>9. q.streams[s] \in Stream
    BY <2>1
  <2>10. t \in Stream /\ t.at = NoPackets /\ t.keys = 0
    <3>1. PICK none \in [Levels -> Seq(Packet)], zero \in Int : none = NoPackets /\ zero = 0
      BY <2>8
    <3>2. t = [q.streams[s] EXCEPT !.at = none, !.keys = zero]
      BY <2>2, <3>1, Zenon
    <3>3. t \in Stream /\ t.at = none /\ t.keys = zero
      BY <2>9, <3>2 DEF Stream
    <3>. QED
      BY <3>1, <3>3
  <2>11. st2 \in [Ssrcs -> Stream] /\ st2[s] = t /\ \A x \in Ssrcs : x # s => st2[x] = q.streams[x]
    BY <2>1, <2>3, <2>10
  <2>12. by2 \in [Levels -> Seq(Ssrcs)]
    <3>1. ASSUME NEW m \in Levels PROVE by2[m] \in Seq(Ssrcs)
      <4>1. LineOf(q.byPrio[m], Busy(q, m))
        BY DEF QInv, QBooks, Lined
      <4>2. CASE q.streams[s].at[m] = <<>>
        BY <2>1, <2>4, <4>2
      <4>3. CASE q.streams[s].at[m] # <<>>
        <5>1. s \in Busy(q, m)
          BY <4>3 DEF Busy
        <5>2. LineOf(Without(q.byPrio[m], s), Busy(q, m) \ {s})
          BY <4>1, <5>1, LineWithout
        <5>3. Without(q.byPrio[m], s) \in Seq(Ssrcs)
          BY <5>2 DEF LineOf
        <5>. QED
          BY <2>4, <4>3, <5>3
      <4>. QED
        BY <4>2, <4>3
    <3>. QED
      BY <2>4, <3>1
  <2>13. n2 \in Int /\ sum2 \in Int
         /\ n2 = q.size - Cardinality(Places(Held(q), {s}))
         /\ sum2 = q.timeSum - Cardinality(Units(Held(q), Age(q), {s}))
    <3>1. /\ Cardinality(Slots(q, {s})) \in Nat /\ Cardinality(Waited(q, {s})) \in Nat
          /\ Slots(q, {s}) = Places(Held(q), {s})
          /\ Waited(q, {s}) = Units(Held(q), Age(q), {s})
      BY CountedOne
    <3>. QED
      BY <2>1, <2>5, <2>6, <3>1
  <2>14. /\ w \in QueueType /\ w.streams = st2 /\ w.byPrio = by2 /\ w.top = q.top /\ w.size = n2
         /\ w.timeSum = sum2 /\ w.updated = q.updated /\ w.pauseSum = q.pauseSum /\ w.paused = q.paused
    BY <2>1, <2>7, <2>11, <2>12, <2>13 DEF QueueType
  <2>15. Emptied(q, w, s)
    <3>1. w.streams[s] = t /\ \A x \in Ssrcs : x # s => w.streams[x] = q.streams[x]
      BY <2>11, <2>14
    <3>2. w.streams[s].keys = 0 /\ \A m \in Levels : w.streams[s].at[m] = <<>>
      BY <2>8, <2>10, <3>1
    <3>3. \A m \in Levels : w.byPrio[m] = IF q.streams[s].at[m] = <<>> THEN q.byPrio[m]
                                          ELSE Without(q.byPrio[m], s)
      BY <2>4, <2>14
    <3>. QED
      BY <2>13, <2>14, <3>1, <3>2, <3>3, Zenon DEF Emptied
  <2>16. r = MaybeUpdateTopPrioLevel(w)
    <3>. DEFINE W(x, n, sum, by) == [q EXCEPT !.streams[s] = x, !.size = n, !.timeSum = sum, !.byPrio = by]
    <3>1. r = MaybeUpdateTopPrioLevel(
                 W([q.streams[s] EXCEPT !.at = NoPackets, !.keys = 0],
                   q.size - Cardinality(Slots(q, {s})), q.timeSum - Cardinality(Waited(q, {s})),
                   [m \in Levels |-> IF q.streams[s].at[m] = <<>> THEN q.byPrio[m]
                                     ELSE Without(q.byPrio[m], s)]))
      BY <1>2, Zenon DEF RemovePacketsForSsrc
    <3>2. W(t, n2, sum2, by2) = w
      BY <2>1, <2>3, <2>7 DEF QueueType
    <3>. HIDE DEF W
    <3>. QED
      BY <2>2, <2>4, <2>5, <2>6, <3>1, <3>2, Zenon
  <2>17. QBooks(w) /\ NoneBefore(w)
    BY <2>15, ClearedOut
  <2>18. QInv(r) /\ r.paused = w.paused /\ r.updated = w.updated /\ r.pauseSum = w.pauseSum
    BY <2>16, <2>17, TopFound
  <2>. QED
    BY <2>14, <2>18
<1>. QED
  BY <1>1, <1>2

-----------------------------------------------------------------------------
(* The pacer. *)

PacerType ==
    [q : QueueType, paused : BOOLEAN, congested : BOOLEAN, seen : BOOLEAN, debt : Int,
     padDebt : Int, padRate : BOOLEAN, processed : Int, sent : Int,
     ready : BOOLEAN, started : BOOLEAN, shutdown : BOOLEAN, next : Int,
     videoPaused : BOOLEAN, pauseTime : Int, at : {"idle", "purge", "test", "send"},
     now : Int, target : Int, left : SUBSET Ssrcs, turns : Int, out : Seq(Packet), stood : Int]

\* r differs from p in its debts and times only.
Kept(r, p) ==
    /\ r.q = p.q /\ r.paused = p.paused /\ r.congested = p.congested /\ r.seen = p.seen
    /\ r.padRate = p.padRate /\ r.ready = p.ready /\ r.started = p.started
    /\ r.shutdown = p.shutdown /\ r.next = p.next /\ r.videoPaused = p.videoPaused
    /\ r.pauseTime = p.pauseTime /\ r.at = p.at /\ r.now = p.now /\ r.left = p.left
    /\ r.turns = p.turns /\ r.out = p.out /\ r.stood = p.stood

LEMMA ConstantTypes ==
    KeepAlive \in Int /\ Burst \in Int /\ MaxDebt \in Int /\ MaxElapsed \in Int /\ Replay \in Int /\ CullAfter \in Int
BY PacerAssumption

\* New debts and times.
LEMMA Adjusted ==
    ASSUME NEW p \in PacerType, NEW a \in Int, NEW b \in Int
    PROVE  /\ LET r == [p EXCEPT !.debt = a, !.padDebt = b] IN r \in PacerType /\ Kept(r, p)
           /\ LET r == [p EXCEPT !.debt = a] IN r \in PacerType /\ Kept(r, p)
           /\ LET r == [p EXCEPT !.padDebt = a] IN r \in PacerType /\ Kept(r, p)
           /\ LET r == [p EXCEPT !.processed = a] IN r \in PacerType /\ Kept(r, p)
           /\ LET r == [p EXCEPT !.sent = a] IN r \in PacerType /\ Kept(r, p)
           /\ LET r == [p EXCEPT !.target = a, !.processed = b] IN r \in PacerType /\ Kept(r, p)
<1>1. LET r == [p EXCEPT !.debt = a, !.padDebt = b] IN r \in PacerType /\ Kept(r, p)
  BY DEF PacerType, Kept
<1>2. LET r == [p EXCEPT !.debt = a] IN r \in PacerType /\ Kept(r, p)
  BY DEF PacerType, Kept
<1>3. LET r == [p EXCEPT !.padDebt = a] IN r \in PacerType /\ Kept(r, p)
  BY DEF PacerType, Kept
<1>4. LET r == [p EXCEPT !.processed = a] IN r \in PacerType /\ Kept(r, p)
  BY DEF PacerType, Kept
<1>5. LET r == [p EXCEPT !.sent = a] IN r \in PacerType /\ Kept(r, p)
  BY DEF PacerType, Kept
<1>6. LET r == [p EXCEPT !.target = a, !.processed = b] IN r \in PacerType /\ Kept(r, p)
  BY DEF PacerType, Kept
<1>. QED
  BY <1>1, <1>2, <1>3, <1>4, <1>5, <1>6

LEMMA KeptThrough ==
    ASSUME NEW p, NEW r, NEW w, Kept(r, p), Kept(w, r)
    PROVE  Kept(w, p)
BY DEF Kept

LEMMA ElapsedTimeKeeps ==
    ASSUME NEW p \in PacerType, NEW delta \in Int, NEW r, r = UpdateBudgetWithElapsedTime(p, delta)
    PROVE  r \in PacerType /\ Kept(r, p)
<1>0. p.debt \in Int /\ p.padDebt \in Int
  BY DEF PacerType
<1>1. PICK a \in Int : a = p.debt - Least(p.debt, delta)
  BY <1>0 DEF Least
<1>2. PICK b \in Int : b = IF p.padRate THEN p.padDebt - Least(p.padDebt, delta) ELSE p.padDebt
  BY <1>0 DEF Least
<1>. DEFINE W(x, y) == [p EXCEPT !.debt = x, !.padDebt = y]
<1>3. r = W(p.debt - Least(p.debt, delta), IF p.padRate THEN p.padDebt - Least(p.padDebt, delta) ELSE p.padDebt)
  BY Zenon DEF UpdateBudgetWithElapsedTime
<1>4. W(a, b) \in PacerType /\ Kept(W(a, b), p)
  BY Adjusted
<1>. HIDE DEF W
<1>. QED
  BY <1>1, <1>2, <1>3, <1>4

LEMMA PaddingBudgetKeeps ==
    ASSUME NEW p \in PacerType, NEW r, r = UpdatePaddingBudget(p)
    PROVE  r \in PacerType /\ Kept(r, p)
<1>0. p.padDebt \in Int
  BY DEF PacerType
<1>1. PICK b \in Int : b = IF p.padRate THEN Least(p.padDebt + 1, MaxDebt) ELSE 0
  BY <1>0, ConstantTypes DEF Least
<1>2. r = [p EXCEPT !.padDebt = b]
  BY <1>1 DEF UpdatePaddingBudget
<1>. QED
  BY <1>2, Adjusted

LEMMA SentDataKeeps ==
    ASSUME NEW p \in PacerType, NEW r, r = UpdateBudgetWithSentData(p)
    PROVE  r \in PacerType /\ Kept(r, p)
<1>0. p.debt \in Int
  BY DEF PacerType
<1>1. PICK a \in Int : a = Least(p.debt + 1, MaxDebt)
  BY <1>0, ConstantTypes DEF Least
<1>2. PICK w : w = [p EXCEPT !.debt = a]
  OBVIOUS
<1>3. w \in PacerType /\ Kept(w, p)
  BY <1>2, Adjusted
<1>4. r = UpdatePaddingBudget(w)
  BY <1>1, <1>2 DEF UpdateBudgetWithSentData
<1>. QED
  BY <1>3, <1>4, PaddingBudgetKeeps, KeptThrough

LEMMA ElapseKeeps ==
    ASSUME NEW p \in PacerType, NEW now \in Int, NEW r, r = Elapse(p, now)
    PROVE  r \in PacerType /\ Kept(r, p)
<1>0. p.processed \in Int
  BY DEF PacerType
<1>1. CASE now < p.processed
  BY <1>1 DEF Elapse, Kept
<1>2. CASE ~(now < p.processed)
  <2>1. PICK w : w = [p EXCEPT !.processed = now]
    OBVIOUS
  <2>2. w \in PacerType /\ Kept(w, p)
    BY <2>1, Adjusted
  <2>3. PICK d \in Int : d = Least(now - p.processed, MaxElapsed)
    BY <1>0, ConstantTypes DEF Least
  <2>4. r = UpdateBudgetWithElapsedTime(w, d)
    BY <1>2, <2>1, <2>3 DEF Elapse
  <2>. QED
    BY <2>2, <2>4, ElapsedTimeKeeps, KeptThrough
<1>. QED
  BY <1>1, <1>2

LEMMA KeepaliveKeeps ==
    ASSUME NEW p \in PacerType, NEW now \in Int, NEW r, r = Keepalive(p, now)
    PROVE  r \in PacerType /\ Kept(r, p)
<1>1. CASE now - p.sent < KeepAlive
  BY <1>1 DEF Keepalive, Kept
<1>2. CASE ~(now - p.sent < KeepAlive)
  <2>1. PICK w : w = IF p.seen /\ CanPad(p) THEN UpdateBudgetWithSentData(p) ELSE p
    OBVIOUS
  <2>2. w \in PacerType /\ Kept(w, p)
    BY <2>1, SentDataKeeps DEF Kept
  <2>3. r = [w EXCEPT !.sent = now]
    BY <1>2, <2>1 DEF Keepalive
  <2>. QED
    BY <2>2, <2>3, Adjusted, KeptThrough
<1>. QED
  BY <1>1, <1>2

LEMMA PacketSentKeeps ==
    ASSUME NEW p \in PacerType, NEW pkt, NEW now \in Int, NEW r, r = OnPacketSent(p, pkt, now)
    PROVE  r \in PacerType /\ Kept(r, p)
<1>1. PICK w : w = IF pkt.kind = "audio" THEN p ELSE UpdateBudgetWithSentData(p)
  OBVIOUS
<1>2. w \in PacerType /\ Kept(w, p)
  BY <1>1, SentDataKeeps DEF Kept
<1>3. r = [w EXCEPT !.sent = now]
  BY <1>1 DEF OnPacketSent
<1>. QED
  BY <1>2, <1>3, Adjusted, KeptThrough

\* The packet at the head of a line, if there is one, was enqueued at some time.
LEMMA LeadingType ==
    ASSUME NEW q, QInv(q), NEW kind \in {"audio", "rtx", "video", "padding"}
    PROVE  \A x \in Leading(q, kind) : x \in Int /\ Leading(q, kind) = {x}
<1>0. q \in QueueType /\ QBooks(q)
  BY DEF QInv, QBooks
<1>1. PICK l \in Levels : l = GetPriorityForType(kind)
  BY LevelOf
<1>2. CASE q.byPrio[l] = <<>>
  BY <1>1, <1>2 DEF Leading
<1>3. CASE q.byPrio[l] # <<>>
  <2>1. LineOf(q.byPrio[l], Busy(q, l))
    BY <1>0 DEF QBooks, Lined
  <2>2. PICK s \in Ssrcs : s = Head(q.byPrio[l]) /\ s \in Busy(q, l)
    BY <1>3, <2>1, LineTail
  <2>3. q.streams[s].at \in [Levels -> Seq(Packet)]
    BY <1>0, HeldType
  <2>4. PICK a \in Seq(Packet) : a = q.streams[s].at[l] /\ a # <<>>
    BY <2>2, <2>3 DEF Busy
  <2>5. Head(a) \in Packet
    BY <2>4
  <2>6. Head(a).at \in Int
    BY <2>5 DEF Packet
  <2>7. Leading(q, kind) = {Head(a).at}
    BY <1>1, <1>3, <2>2, <2>4 DEF Leading
  <2>. QED
    BY <2>6, <2>7
<1>. QED
  BY <1>2, <1>3

LEMMA UnpacedType ==
    ASSUME NEW q, QInv(q), NextUnpacedSendTime(q) # {}
    PROVE  Min(NextUnpacedSendTime(q)) \in Int
<1>1. \E x \in Int : NextUnpacedSendTime(q) = {x}
  BY LeadingType DEF NextUnpacedSendTime
<1>2. PICK x \in Int : NextUnpacedSendTime(q) = {x}
  BY <1>1
<1>3. Min({x}) = x
  BY DEF Min
<1>. QED
  BY <1>2, <1>3

LEMMA SendTimeType ==
    ASSUME NEW p \in PacerType, QInv(p.q)
    PROVE  NextSendTime(p) \in Int
<1>1. p.sent \in Int /\ p.debt \in Int /\ p.padDebt \in Int /\ p.processed \in Int
  BY DEF PacerType
<1>2. NextUnpacedSendTime(p.q) # {} => Min(NextUnpacedSendTime(p.q)) \in Int
  BY UnpacedType
<1>. QED
  BY <1>1, <1>2, ConstantTypes DEF NextSendTime, Least, Most

\* The queue's books, and the time the pacer has stood paused by time t.
Booked(p, t) ==
    /\ p \in PacerType /\ QInv(p.q) /\ p.q.updated <= t /\ p.paused = p.q.paused
    /\ p.q.pauseSum + (IF p.q.paused THEN t - p.q.updated ELSE 0) = p.stood

\* Nothing of what was sent was captured up to the time video was last paused.
Cut(p) ==
    \A pkt \in Range(p.out) : pkt.kind # "audio" /\ p.pauseTime # None => pkt.cap > p.pauseTime

Placed(p, t) ==
    /\ p.ready => ~p.paused
    /\ ~p.ready => p.next = None
    /\ p.at \in {"test", "send"} => p.started /\ p.ready
    /\ p.now \in 0..t
    /\ Cut(p)

Running(p) == ~p.shutdown /\ p.started /\ p.ready

\* What the tasks that send leave alone, and what those that only queue do.
Stays(r, p) ==
    /\ r.ready = p.ready /\ r.started = p.started /\ r.shutdown = p.shutdown
    /\ r.next = p.next /\ r.videoPaused = p.videoPaused /\ r.pauseTime = p.pauseTime

Like(r, p) ==
    /\ Stays(r, p) /\ r.paused = p.paused /\ r.at = p.at /\ r.now = p.now /\ r.out = p.out
    /\ r.left = p.left /\ r.stood = p.stood

LEMMA KeptBooks ==
    ASSUME NEW p, NEW t, Booked(p, t), NEW r \in PacerType, Kept(r, p)
    PROVE  Booked(r, t) /\ Like(r, p)
BY DEF Kept, Booked, Like, Stays

LEMMA LikePlaced ==
    ASSUME NEW p, NEW t, Placed(p, t), NEW r, Like(r, p)
    PROVE  Placed(r, t)
BY DEF Like, Stays, Placed, Cut

LEMMA LikeThrough ==
    ASSUME NEW p, NEW r, NEW w, Like(r, p), Like(w, r)
    PROVE  Like(w, p)
BY DEF Like, Stays

\* Another queue with the same clock, or one that is up to date.
LEMMA Requeued ==
    ASSUME NEW p, NEW t \in Int, Booked(p, t), NEW q, QInv(q), q.paused = p.q.paused,
           \/ q.updated = p.q.updated /\ q.pauseSum = p.q.pauseSum
           \/ q.updated = t /\ q.pauseSum = p.q.pauseSum + (IF p.q.paused THEN t - p.q.updated ELSE 0),
           NEW r, r = [p EXCEPT !.q = q]
    PROVE  Booked(r, t) /\ Like(r, p) /\ r.q = q
<1>1. p \in PacerType /\ q \in QueueType
  BY DEF Booked, QInv, QBooks
<1>2. r \in PacerType /\ Like(r, p) /\ r.q = q
  BY <1>1 DEF PacerType, Like, Stays
<1>3. q.updated \in Int /\ q.pauseSum \in Int /\ p.q.pauseSum \in Int /\ p.q.updated \in Int /\ p.stood \in Int
  <2>1. p.q \in QueueType /\ p.stood \in Int
    BY <1>1 DEF PacerType
  <2>. QED
    BY <1>1, <2>1 DEF QueueType
<1>4. q.updated <= t /\ q.pauseSum + (IF q.paused THEN t - q.updated ELSE 0) = p.stood
  BY <1>3 DEF Booked
<1>. QED
  BY <1>2, <1>4 DEF Booked, Like

LEMMA FlushKeeps ==
    ASSUME NEW p, NEW t \in Int, Booked(p, t), NEW pkt \in Packet, NEW r, r = Flush(p, pkt)
    PROVE  Booked(r, t) /\ Like(r, p)
<1>1. PICK c : c <=> pkt.kind = "video" /\ pkt.key = "first" /\ p.q.streams[pkt.ssrc].keys = 0
  BY Zenon
<1>2. CASE c
  <2>1. PICK q : q = RemovePacketsForSsrc(p.q, pkt.ssrc)
    OBVIOUS
  <2>2. pkt.ssrc \in Ssrcs /\ QInv(p.q)
    BY DEF Packet, Booked
  <2>3. QInv(q) /\ q.paused = p.q.paused /\ q.updated = p.q.updated /\ q.pauseSum = p.q.pauseSum
    BY <2>1, <2>2, RemoveKeeps
  <2>4. r = [p EXCEPT !.q = q]
    BY <1>1, <1>2, <2>1 DEF Flush
  <2>. QED
    BY <2>3, <2>4, Requeued
<1>3. CASE ~c
  BY <1>1, <1>3 DEF Flush, Like, Stays
<1>. QED
  BY <1>2, <1>3

\* A packet that is enqueued is in the queue.
LEMMA EnqueueKeeps ==
    ASSUME NEW p, NEW t \in Int, Booked(p, t), NEW pkt \in Packet, NEW r, r = EnqueuePacket(p, pkt, t)
    PROVE  Booked(r, t) /\ Like(r, p) /\ r.q.size > 0
<1>1. PICK f : f = Flush(p, pkt)
  OBVIOUS
<1>2. Booked(f, t) /\ Like(f, p)
  BY <1>1, FlushKeeps
<1>3. PICK g : g = IF f.q.size = 0 THEN Elapse(f, Least(t, NextSendTime(f))) ELSE f
  OBVIOUS
<1>4. Booked(g, t) /\ Like(g, f)
  <2>1. f \in PacerType /\ QInv(f.q)
    BY <1>2 DEF Booked
  <2>2. PICK now \in Int : now = Least(t, NextSendTime(f))
    BY <2>1, SendTimeType DEF Least
  <2>3. CASE f.q.size = 0
    <3>1. g \in PacerType /\ Kept(g, f)
      BY <1>3, <2>1, <2>2, <2>3, ElapseKeeps
    <3>. QED
      BY <1>2, <3>1, KeptBooks
  <2>4. CASE f.q.size # 0
    BY <1>2, <1>3, <2>4 DEF Like, Stays
  <2>. QED
    BY <2>3, <2>4
<1>5. PICK q : q = Push(g.q, pkt, t)
  OBVIOUS
<1>6. QInv(g.q) /\ g.q.updated <= t /\ g.q.size \in Nat
  BY <1>4, Emptiness DEF Booked, QInv
<1>7. /\ QInv(q) /\ q.size = g.q.size + 1 /\ q.paused = g.q.paused /\ q.updated = t
      /\ q.pauseSum = g.q.pauseSum + (IF g.q.paused THEN t - g.q.updated ELSE 0)
  BY <1>5, <1>6, PushKeeps
<1>8. PICK h : h = [g EXCEPT !.q = q]
  OBVIOUS
<1>9. Booked(h, t) /\ Like(h, g) /\ h.q = q
  BY <1>4, <1>7, <1>8, Requeued
<1>10. g \in PacerType /\ h \in PacerType
  BY <1>4, <1>9 DEF Booked
<1>11. r = [h EXCEPT !.seen = TRUE]
  <2>1. r = [g EXCEPT !.q = q, !.seen = TRUE]
    BY <1>1, <1>3, <1>5, Zenon DEF EnqueuePacket
  <2>. QED
    BY <1>8, <1>10, <2>1 DEF PacerType
<1>12. r \in PacerType /\ r.q = h.q /\ Like(r, h)
  BY <1>10, <1>11 DEF PacerType, Like, Stays
<1>13. Booked(r, t)
  BY <1>9, <1>12 DEF Booked, Like
<1>. QED
  BY <1>2, <1>4, <1>6, <1>7, <1>9, <1>12, <1>13, LikeThrough

\* MaybeProcessPackets begins the loop of a pacer that may send.
LEMMA BeginKeeps ==
    ASSUME NEW p, NEW t \in Nat, Booked(p, t), Placed(p, t), NEW r, r = MaybeProcessPackets(p, t)
    PROVE  /\ Booked(r, t) /\ Placed(r, t) /\ Stays(r, p) /\ r.q = p.q
           /\ IF Running(p) THEN r.at = "test" ELSE r = p
<1>0. p \in PacerType /\ p.shutdown \in BOOLEAN /\ p.started \in BOOLEAN /\ p.ready \in BOOLEAN
  BY DEF Booked, PacerType
<1>1. CASE Running(p)
  <2>1. r = [p EXCEPT !.at = "test", !.now = t, !.turns = 0]
    BY <1>1 DEF Running, MaybeProcessPackets
  <2>2. r \in PacerType /\ r.at = "test" /\ r.now = t /\ r.q = p.q /\ Stays(r, p) /\ r.paused = p.paused
        /\ r.out = p.out /\ r.stood = p.stood
    <3>1. PICK at \in {"idle", "purge", "test", "send"}, now \in Int, n \in Int :
              at = "test" /\ now = t /\ n = 0
      OBVIOUS
    <3>2. r = [p EXCEPT !.at = at, !.now = now, !.turns = n]
      BY <2>1, <3>1, Zenon
    <3>3. r \in PacerType
      BY <1>0, <3>2, ZenonT(40) DEF PacerType
    <3>4. r.at = at /\ r.now = now /\ r.q = p.q /\ Stays(r, p) /\ r.paused = p.paused
          /\ r.out = p.out /\ r.stood = p.stood
      BY <1>0, <3>2 DEF PacerType, Stays
    <3>. QED
      BY <3>1, <3>3, <3>4
  <2>3. Booked(r, t)
    BY <2>2 DEF Booked
  <2>4. Placed(r, t)
    BY <1>1, <2>2 DEF Placed, Stays, Cut, Running
  <2>. QED
    BY <1>1, <2>2, <2>3, <2>4
<1>2. CASE ~Running(p)
  <2>1. r = p
    BY <1>2 DEF Running, MaybeProcessPackets
  <2>. QED
    BY <1>2, <2>1 DEF Stays
<1>. QED
  BY <1>1, <1>2

-----------------------------------------------------------------------------
(* The tasks. *)

Tasks ==
    [op : {"packet"}, pkt : Packet] \cup [op : {"probes"}] \cup [op : {"transport"}, on : BOOLEAN, rises : BOOLEAN]
        \cup [op : {"congested", "rates"}, on : BOOLEAN] \cup [op : {"pause"}, on : BOOLEAN, time : Int]

LEMMA TaskIs ==
    ASSUME NEW task \in Tasks
    PROVE  \/ task.op = "packet" /\ task.pkt \in Packet
           \/ task.op = "probes"
           \/ task.op = "transport" /\ task.on \in BOOLEAN /\ task.rises \in BOOLEAN
           \/ task.op \in {"congested", "rates"} /\ task.on \in BOOLEAN
           \/ task.op = "pause" /\ task.on \in BOOLEAN /\ task.time \in Int
<1>1. CASE task \in [op : {"packet"}, pkt : Packet]
  BY <1>1
<1>2. CASE task \in [op : {"transport"}, on : BOOLEAN, rises : BOOLEAN]
  BY <1>2
<1>3. CASE task \in [op : {"congested", "rates"}, on : BOOLEAN]
  BY <1>3
<1>4. CASE task \in [op : {"pause"}, on : BOOLEAN, time : Int]
  BY <1>4
<1>5. CASE task \in [op : {"probes"}]
  BY <1>5
<1>. QED
  BY <1>1, <1>2, <1>3, <1>4, <1>5 DEF Tasks

\* A task was performed: where the pacer stands afterwards, and that it may have
\* gone idle only if it still wants to send at the time it wanted before.
Performed(r, p, task, t) ==
    /\ Booked(r, t) /\ Placed(r, t) /\ r.shutdown = p.shutdown
    /\ r.ready = IF task.op = "transport" THEN task.on ELSE p.ready
    /\ r.videoPaused = IF task.op = "pause" THEN task.on ELSE p.videoPaused
    /\ \/ r.pauseTime = p.pauseTime
       \/ task.op = "pause" /\ task.on /\ r.pauseTime = task.time /\ r.out = <<>>
    /\ r.next \in {p.next, None}
    /\ r.at = "idle" /\ Running(r) =>
          Running(p) /\ r.next = p.next /\ NextSendTime(r) = NextSendTime(p)

LEMMA PacketPerformed ==
    ASSUME NEW p, NEW t \in Nat, Booked(p, t), Placed(p, t),
           NEW task, task.op = "packet", task.pkt \in Packet, NEW r, r = EnqueuePackets(p, task, t)
    PROVE  Performed(r, p, task, t) /\ (~DropsVideoPacket(p, task.pkt) => r.q.size > 0)
<1>1. PICK w : w = IF DropsVideoPacket(p, task.pkt) THEN p ELSE EnqueuePacket(p, task.pkt, t)
  OBVIOUS
<1>2. Booked(w, t) /\ Like(w, p) /\ (~DropsVideoPacket(p, task.pkt) => w.q.size > 0)
  <2>1. CASE DropsVideoPacket(p, task.pkt)
    BY <1>1, <2>1 DEF Like, Stays
  <2>2. CASE ~DropsVideoPacket(p, task.pkt)
    BY <1>1, <2>2, EnqueueKeeps
  <2>. QED
    BY <2>1, <2>2
<1>3. Placed(w, t)
  BY <1>2, LikePlaced
<1>4. r = MaybeProcessPackets(w, t)
  BY <1>1 DEF EnqueuePackets
<1>5. /\ Booked(r, t) /\ Placed(r, t) /\ Stays(r, w) /\ r.q = w.q
      /\ IF Running(w) THEN r.at = "test" ELSE r = w
  BY <1>2, <1>3, <1>4, BeginKeeps
<1>6. Stays(r, p) /\ (Running(r) <=> Running(w))
  BY <1>2, <1>5 DEF Like, Stays, Running
<1>. QED
  BY <1>2, <1>5, <1>6 DEF Performed, Stays

LEMMA CongestedPerformed ==
    ASSUME NEW p, NEW t \in Nat, Booked(p, t), Placed(p, t),
           NEW task, task.op = "congested", task.on \in BOOLEAN, NEW r, r = SetCongested(p, task, t)
    PROVE  Performed(r, p, task, t)
<1>0. p \in PacerType
  BY DEF Booked
<1>1. PICK v : v = IF p.congested /\ ~task.on THEN Elapse(p, t) ELSE p
  OBVIOUS
<1>2. v \in PacerType /\ Kept(v, p)
  BY <1>0, <1>1, ElapseKeeps DEF Kept
<1>3. Booked(v, t) /\ Like(v, p)
  BY <1>2, KeptBooks
<1>4. PICK w : w = [v EXCEPT !.congested = task.on]
  OBVIOUS
<1>5. w \in PacerType /\ Like(w, v) /\ w.q = v.q
  BY <1>2, <1>4 DEF PacerType, Like, Stays
<1>6. Booked(w, t) /\ Like(w, p)
  BY <1>3, <1>5, LikeThrough DEF Booked, Like
<1>7. Placed(w, t)
  BY <1>6, LikePlaced
<1>8. r = MaybeProcessPackets(w, t)
  BY <1>1, <1>4 DEF SetCongested
<1>9. /\ Booked(r, t) /\ Placed(r, t) /\ Stays(r, w) /\ r.q = w.q
      /\ IF Running(w) THEN r.at = "test" ELSE r = w
  BY <1>6, <1>7, <1>8, BeginKeeps
<1>10. Stays(r, p) /\ (Running(r) <=> Running(w))
  BY <1>6, <1>9 DEF Like, Stays, Running
<1>. QED
  BY <1>9, <1>10 DEF Performed, Stays

LEMMA ProbesPerformed ==
    ASSUME NEW p, NEW t \in Nat, Booked(p, t), Placed(p, t),
           NEW task, task.op = "probes", NEW r, r = SetAllowProbeWithoutMediaPacket(p, t)
    PROVE  Performed(r, p, task, t)
<1>1. r = MaybeProcessPackets(p, t)
  BY DEF SetAllowProbeWithoutMediaPacket
<1>2. /\ Booked(r, t) /\ Placed(r, t) /\ Stays(r, p) /\ r.q = p.q
      /\ IF Running(p) THEN r.at = "test" ELSE r = p
  BY <1>1, BeginKeeps
<1>3. Running(r) <=> Running(p)
  BY <1>2 DEF Stays, Running
<1>. QED
  BY <1>2, <1>3 DEF Performed, Stays

LEMMA RatesPerformed ==
    ASSUME NEW p, NEW t \in Nat, Booked(p, t), Placed(p, t),
           NEW task, task.op = "rates", task.on \in BOOLEAN, NEW r, r = SetPacingRates(p, task, t)
    PROVE  Performed(r, p, task, t)
<1>1. PICK w : w = [p EXCEPT !.padRate = task.on]
  OBVIOUS
<1>2. w \in PacerType /\ Like(w, p) /\ w.q = p.q
  BY <1>1 DEF Booked, PacerType, Like, Stays
<1>3. Booked(w, t) /\ Placed(w, t)
  BY <1>2, LikePlaced DEF Booked, Like
<1>4. r = MaybeProcessPackets(w, t)
  BY <1>1 DEF SetPacingRates
<1>5. /\ Booked(r, t) /\ Placed(r, t) /\ Stays(r, w) /\ r.q = w.q
      /\ IF Running(w) THEN r.at = "test" ELSE r = w
  BY <1>3, <1>4, BeginKeeps
<1>6. Stays(r, p) /\ (Running(r) <=> Running(w))
  BY <1>2, <1>5 DEF Like, Stays, Running
<1>. QED
  BY <1>5, <1>6 DEF Performed, Stays

LEMMA PausePerformed ==
    ASSUME NEW p, NEW t \in Nat, Booked(p, t), Placed(p, t), p.out = <<>>,
           NEW task, task.op = "pause", task.on \in BOOLEAN, task.time \in Int,
           NEW r, r = SetVideoPaused(p, task, t)
    PROVE  Performed(r, p, task, t)
<1>0. p \in PacerType /\ p.videoPaused \in BOOLEAN
  BY DEF Booked, PacerType
<1>1. CASE p.videoPaused = task.on
  <2>1. r = p
    BY <1>1 DEF SetVideoPaused
  <2>. QED
    BY <1>1, <2>1 DEF Performed
<1>2. CASE p.videoPaused # task.on /\ task.on
  <2>1. PICK at \in {"idle", "purge", "test", "send"}, left \in SUBSET Ssrcs, paused \in BOOLEAN, time \in Int :
            at = "purge" /\ left = VideoSsrcs /\ paused = TRUE /\ time = task.time
    <3>1. VideoSsrcs \in SUBSET Ssrcs
      BY PacerAssumption DEF VideoSsrcs
    <3>. QED
      BY <3>1
  <2>2. r = [p EXCEPT !.videoPaused = paused, !.pauseTime = time, !.at = at, !.left = left]
    BY <1>2, <2>1, Zenon DEF SetVideoPaused
  <2>3. r \in PacerType
    BY <1>0, <2>2, ZenonT(40) DEF PacerType
  <2>4. /\ r.videoPaused = paused /\ r.pauseTime = time /\ r.at = at /\ r.q = p.q /\ r.paused = p.paused
        /\ r.ready = p.ready /\ r.started = p.started /\ r.shutdown = p.shutdown /\ r.next = p.next
        /\ r.now = p.now /\ r.out = p.out /\ r.stood = p.stood
    BY <1>0, <2>2 DEF PacerType
  <2>5. Booked(r, t)
    BY <2>3, <2>4 DEF Booked
  <2>6. Cut(r)
    BY <2>4 DEF Cut, Range
  <2>7. Placed(r, t)
    BY <2>1, <2>4, <2>6 DEF Placed
  <2>. QED
    BY <1>2, <2>1, <2>4, <2>5, <2>7 DEF Performed
<1>3. CASE p.videoPaused # task.on /\ ~task.on
  <2>1. PICK w : w = [p EXCEPT !.videoPaused = FALSE]
    OBVIOUS
  <2>2. w \in PacerType
    BY <1>0, <2>1 DEF PacerType
  <2>3. /\ w.videoPaused = FALSE /\ w.pauseTime = p.pauseTime /\ w.at = p.at /\ w.q = p.q
        /\ w.paused = p.paused /\ w.ready = p.ready /\ w.started = p.started /\ w.shutdown = p.shutdown
        /\ w.next = p.next /\ w.now = p.now /\ w.out = p.out /\ w.stood = p.stood
    BY <1>0, <2>1 DEF PacerType
  <2>4. Booked(w, t) /\ Placed(w, t)
    BY <2>2, <2>3 DEF Booked, Placed, Cut
  <2>5. r = MaybeProcessPackets(w, t)
    BY <1>3, <2>1 DEF SetVideoPaused
  <2>6. /\ Booked(r, t) /\ Placed(r, t) /\ Stays(r, w) /\ r.q = w.q
        /\ IF Running(w) THEN r.at = "test" ELSE r = w
    BY <2>4, <2>5, BeginKeeps
  <2>7. Running(r) <=> Running(w)
    BY <2>6 DEF Stays, Running
  <2>. QED
    BY <1>3, <2>3, <2>6, <2>7 DEF Performed, Stays
<1>. QED
  BY <1>1, <1>2, <1>3

\* The path became ready, or did so before.
Resumed(r, p) ==
    /\ r.ready = TRUE /\ r.at = "idle"
    /\ r.started = p.started /\ r.shutdown = p.shutdown /\ r.next = p.next
    /\ r.videoPaused = p.videoPaused /\ r.pauseTime = p.pauseTime
    /\ p.ready => NextSendTime(r) = NextSendTime(p)

LEMMA ResumePerformed ==
    ASSUME NEW p, NEW t \in Nat, Booked(p, t), Placed(p, t), p.at = "idle",
           NEW r, r = SetTransportReady(p, TRUE, t)
    PROVE  Booked(r, t) /\ Placed(r, t) /\ Resumed(r, p)
<1>0. /\ p \in PacerType /\ p.q \in QueueType /\ QInv(p.q) /\ p.q.updated <= t
      /\ p.paused = p.q.paused /\ p.paused \in BOOLEAN
  BY DEF Booked, PacerType
<1>4. PICK yes \in BOOLEAN, no \in BOOLEAN : yes = TRUE /\ no = FALSE
  OBVIOUS
<1>1. PICK q : q = SetPauseState(p.q, no, t)
  OBVIOUS
<1>. t \in Int
  OBVIOUS
<1>2. /\ QInv(q) /\ q.streams = p.q.streams /\ q.byPrio = p.q.byPrio
      /\ q.size = p.q.size /\ q.paused = no /\ q.updated = t
      /\ q.pauseSum = p.q.pauseSum + (IF p.q.paused THEN t - p.q.updated ELSE 0)
  BY <1>0, <1>1, PauseKeeps
<1>3. PICK c \in Int : c = IF p.paused THEN t ELSE p.processed
  BY <1>0 DEF PacerType
<1>5. r = [p EXCEPT !.ready = yes, !.processed = c, !.paused = no, !.q = q]
  <2>1. r = Resume([p EXCEPT !.ready = TRUE], t)
    BY DEF SetTransportReady
  <2>2. PICK v : v = [p EXCEPT !.ready = yes]
    OBVIOUS
  <2>3. v \in PacerType /\ v.paused = p.paused /\ v.processed = p.processed /\ v.q = p.q
    BY <1>0, <2>2 DEF PacerType
  <2>. DEFINE W(x, y, z) == [v EXCEPT !.processed = x, !.paused = y, !.q = z]
  <2>4. Resume(v, t) = W(IF v.paused THEN t ELSE v.processed, FALSE, SetPauseState(v.q, FALSE, t))
    BY Zenon DEF Resume
  <2>5. W(c, no, q) = [p EXCEPT !.ready = yes, !.processed = c, !.paused = no, !.q = q]
    BY <1>0, <2>2 DEF PacerType
  <2>. HIDE DEF W
  <2>. QED
    BY <1>1, <1>3, <1>4, <2>1, <2>2, <2>3, <2>4, <2>5
<1>6. q \in QueueType
  BY <1>2 DEF QInv, QBooks
<1>7. r \in PacerType
  BY <1>0, <1>5, <1>6, ZenonT(40) DEF PacerType
<1>8. /\ r.ready = yes /\ r.processed = c /\ r.paused = no /\ r.q = q
      /\ r.at = p.at /\ r.started = p.started /\ r.shutdown = p.shutdown /\ r.next = p.next
      /\ r.videoPaused = p.videoPaused /\ r.pauseTime = p.pauseTime /\ r.now = p.now /\ r.out = p.out
      /\ r.stood = p.stood /\ r.congested = p.congested /\ r.seen = p.seen /\ r.debt = p.debt
      /\ r.padDebt = p.padDebt /\ r.padRate = p.padRate /\ r.sent = p.sent
  BY <1>0, <1>5 DEF PacerType
<1>9. Booked(r, t)
  <2>0. r.q.updated = t
    BY <1>2, <1>8, Zenon
  <2>9. t <= t
    OBVIOUS
  <2>1. r.q.updated <= t
    BY <2>0, <2>9, Zenon
  <2>2. p.stood \in Int /\ p.q.pauseSum \in Int /\ p.q.updated \in Int
    BY <1>0 DEF PacerType, QueueType
  <2>3. q.pauseSum = p.stood
    BY <1>2, <2>2 DEF Booked
  <2>4. q.pauseSum + 0 = p.stood
    BY <2>2, <2>3
  <2>. QED
    BY <1>2, <1>4, <1>7, <1>8, <2>1, <2>4 DEF Booked
<1>10. Placed(r, t)
  BY <1>4, <1>8 DEF Placed, Cut
<1>11. ASSUME p.ready PROVE NextSendTime(r) = NextSendTime(p)
  <2>1. p.paused = FALSE
    BY <1>0, <1>11 DEF Placed
  <2>2. r.processed = p.processed /\ r.paused = FALSE
    BY <1>3, <1>4, <1>8, <2>1
  <2>3. \A kind : Leading(r.q, kind) = Leading(p.q, kind)
    BY <1>2, <1>8 DEF Leading
  <2>4. NextUnpacedSendTime(r.q) = NextUnpacedSendTime(p.q)
    BY <2>3 DEF NextUnpacedSendTime
  <2>5. r.q.size = p.q.size
    BY <1>2, <1>8
  <2>. QED
    BY <1>8, <2>1, <2>2, <2>4, <2>5 DEF NextSendTime
<1>. QED
  BY <1>4, <1>8, <1>9, <1>10, <1>11 DEF Resumed

\* The path is lost: the pacer pauses and forgets its delayed task.
LEMMA LossPerformed ==
    ASSUME NEW p, NEW t \in Nat, Booked(p, t), Placed(p, t), p.at = "idle",
           NEW r, r = SetTransportReady(p, FALSE, t)
    PROVE  /\ Booked(r, t) /\ Placed(r, t) /\ r.ready = FALSE /\ r.at = "idle"
           /\ r.shutdown = p.shutdown /\ r.next = None
           /\ r.videoPaused = p.videoPaused /\ r.pauseTime = p.pauseTime
<1>0. /\ p \in PacerType /\ p.q \in QueueType /\ QInv(p.q) /\ p.q.updated <= t
      /\ p.paused = p.q.paused /\ p.paused \in BOOLEAN
  BY DEF Booked, PacerType
<1>3. PICK yes \in BOOLEAN, no \in BOOLEAN, none \in Int : yes = TRUE /\ no = FALSE /\ none = None
  <2>1. None \in Int
    BY DEF None
  <2>. QED
    BY <2>1, Zenon
<1>1. PICK q : q = SetPauseState(p.q, yes, t)
  OBVIOUS
<1>. t \in Int
  OBVIOUS
<1>2. /\ QInv(q) /\ q.paused = yes /\ q.updated = t
      /\ q.pauseSum = p.q.pauseSum + (IF p.q.paused THEN t - p.q.updated ELSE 0)
  BY <1>0, <1>1, PauseKeeps
<1>4. r = [p EXCEPT !.ready = no, !.paused = yes, !.q = q, !.next = none]
  <2>1. r = [Pause([p EXCEPT !.ready = FALSE], t) EXCEPT !.next = None]
    BY DEF SetTransportReady
  <2>2. PICK v : v = [p EXCEPT !.ready = no]
    OBVIOUS
  <2>3. v \in PacerType /\ v.q = p.q
    BY <1>0, <2>2 DEF PacerType
  <2>. DEFINE W(y, z) == [v EXCEPT !.paused = y, !.q = z]
  <2>4. Pause(v, t) = W(TRUE, SetPauseState(v.q, TRUE, t))
    BY Zenon DEF Pause
  <2>5. W(yes, q) = [p EXCEPT !.ready = no, !.paused = yes, !.q = q]
    BY <1>0, <2>2 DEF PacerType
  <2>. HIDE DEF W
  <2>6. Pause(v, t) = [p EXCEPT !.ready = no, !.paused = yes, !.q = q]
    BY <1>1, <1>3, <2>3, <2>4, <2>5
  <2>7. r = [Pause(v, t) EXCEPT !.next = none]
    BY <1>3, <2>1, <2>2
  <2>. QED
    BY <1>0, <2>6, <2>7 DEF PacerType
<1>5. q \in QueueType
  BY <1>2 DEF QInv, QBooks
<1>6. r \in PacerType
  BY <1>0, <1>4, <1>5, ZenonT(40) DEF PacerType
<1>7. /\ r.ready = no /\ r.paused = yes /\ r.q = q /\ r.next = none
      /\ r.at = p.at /\ r.shutdown = p.shutdown
      /\ r.videoPaused = p.videoPaused /\ r.pauseTime = p.pauseTime /\ r.now = p.now /\ r.out = p.out
      /\ r.stood = p.stood
  BY <1>0, <1>4 DEF PacerType
<1>8. Booked(r, t)
  <2>0. r.q.updated = t
    BY <1>2, <1>7, Zenon
  <2>9. t <= t
    OBVIOUS
  <2>1. r.q.updated <= t
    BY <2>0, <2>9, Zenon
  <2>2. p.stood \in Int /\ p.q.pauseSum \in Int /\ p.q.updated \in Int
    BY <1>0 DEF PacerType, QueueType
  <2>3. q.pauseSum = p.stood
    BY <1>2, <2>2 DEF Booked
  <2>4. q.pauseSum + (t - q.updated) = p.stood
    BY <1>2, <2>2, <2>3
  <2>. QED
    BY <1>2, <1>3, <1>6, <1>7, <2>1, <2>4 DEF Booked
<1>9. Placed(r, t)
  BY <1>3, <1>7 DEF Placed, Cut
<1>. QED
  BY <1>3, <1>7, <1>8, <1>9

LEMMA TransportPerformed ==
    ASSUME NEW p, NEW t \in Nat, Booked(p, t), Placed(p, t), p.at = "idle",
           NEW task, task.op = "transport", task.on \in BOOLEAN, task.rises \in BOOLEAN,
           task.on /\ ~task.rises => p.ready,
           NEW r, r = OnTransport(p, task, t)
    PROVE  Performed(r, p, task, t)
<1>1. CASE ~task.on
  <2>1. r = SetTransportReady(p, FALSE, t)
    BY <1>1 DEF OnTransport
  <2>2. /\ Booked(r, t) /\ Placed(r, t) /\ r.ready = FALSE /\ r.at = "idle"
        /\ r.shutdown = p.shutdown /\ r.next = None
        /\ r.videoPaused = p.videoPaused /\ r.pauseTime = p.pauseTime
    BY <2>1, LossPerformed
  <2>. QED
    BY <1>1, <2>2 DEF Performed, Running
<1>2. CASE task.on
  <2>1. PICK v : v = SetTransportReady(p, TRUE, t)
    OBVIOUS
  <2>0. Booked(v, t) /\ Placed(v, t) /\ Resumed(v, p)
    BY <2>1, ResumePerformed
  <2>2. /\ v.ready = TRUE /\ v.at = "idle"
        /\ v.started = p.started /\ v.shutdown = p.shutdown /\ v.next = p.next
        /\ v.videoPaused = p.videoPaused /\ v.pauseTime = p.pauseTime
        /\ p.ready => NextSendTime(v) = NextSendTime(p)
    BY <2>0 DEF Resumed
  <2>3. v \in PacerType /\ v.ready = TRUE
    BY <2>0, <2>2 DEF Booked, PacerType
  <2>4. CASE ~task.rises
    <3>1. r = v
      BY <1>2, <2>1, <2>4 DEF OnTransport
    <3>. QED
      BY <1>2, <2>0, <2>2, <2>3, <2>4, <3>1 DEF Performed, Running
  <2>5. CASE task.rises
    <3>1. PICK yes \in BOOLEAN : yes = TRUE
      OBVIOUS
    <3>2. PICK w : w = [v EXCEPT !.started = yes]
      OBVIOUS
    <3>3. w \in PacerType
      BY <2>3, <3>2 DEF PacerType
    <3>4. /\ w.started = yes /\ w.ready = v.ready /\ w.at = v.at /\ w.shutdown = v.shutdown
          /\ w.next = v.next /\ w.videoPaused = v.videoPaused /\ w.pauseTime = v.pauseTime
          /\ w.q = v.q /\ w.paused = v.paused /\ w.now = v.now /\ w.out = v.out /\ w.stood = v.stood
      BY <2>3, <3>2 DEF PacerType
    <3>5. Booked(w, t) /\ Placed(w, t)
      BY <2>0, <2>2, <3>1, <3>3, <3>4 DEF Booked, Placed, Cut
    <3>6. r = MaybeProcessPackets(w, t)
      BY <1>2, <2>1, <2>5, <3>1, <3>2 DEF OnTransport
    <3>7. /\ Booked(r, t) /\ Placed(r, t) /\ Stays(r, w)
          /\ IF Running(w) THEN r.at = "test" ELSE r = w
      BY <3>5, <3>6, BeginKeeps
    <3>8. Running(r) <=> Running(w)
      BY <3>7 DEF Stays, Running
    <3>. QED
      BY <1>2, <2>2, <2>3, <3>4, <3>7, <3>8 DEF Performed, Stays
  <2>. QED
    BY <2>4, <2>5
<1>. QED
  BY <1>1, <1>2

\* Any task the pacer performs; an accepted packet is in the queue afterwards.
LEMMA TaskPerformed ==
    ASSUME NEW p, NEW t \in Nat, Booked(p, t), Placed(p, t), p.at = "idle", p.out = <<>>,
           NEW task \in Tasks,
           task.op = "transport" /\ task.on /\ ~task.rises => p.ready,
           NEW r, r = Perform(p, task, t)
    PROVE  /\ Performed(r, p, task, t)
           /\ task.op = "packet" /\ ~DropsVideoPacket(p, task.pkt) => r.q.size > 0
<1>1. CASE task.op = "packet" /\ task.pkt \in Packet
  <2>1. r = EnqueuePackets(p, task, t)
    BY <1>1 DEF Perform
  <2>. QED
    BY <1>1, <2>1, PacketPerformed
<1>2. CASE task.op = "transport" /\ task.on \in BOOLEAN /\ task.rises \in BOOLEAN
  <2>1. r = OnTransport(p, task, t)
    BY <1>2 DEF Perform
  <2>. QED
    BY <1>2, <2>1, TransportPerformed
<1>3. CASE task.op = "congested" /\ task.on \in BOOLEAN
  <2>1. r = SetCongested(p, task, t)
    BY <1>3 DEF Perform
  <2>. QED
    BY <1>3, <2>1, CongestedPerformed
<1>4. CASE task.op = "rates" /\ task.on \in BOOLEAN
  <2>1. r = SetPacingRates(p, task, t)
    BY <1>4 DEF Perform
  <2>. QED
    BY <1>4, <2>1, RatesPerformed
<1>5. CASE task.op = "pause" /\ task.on \in BOOLEAN /\ task.time \in Int
  <2>1. r = SetVideoPaused(p, task, t)
    BY <1>5 DEF Perform
  <2>. QED
    BY <1>5, <2>1, PausePerformed
<1>6. CASE task.op = "probes"
  <2>1. r = SetAllowProbeWithoutMediaPacket(p, t)
    BY <1>6 DEF Perform
  <2>. QED
    BY <1>6, <2>1, ProbesPerformed
<1>. QED
  BY <1>1, <1>2, <1>3, <1>4, <1>5, <1>6, TaskIs

-----------------------------------------------------------------------------
(* The loops. *)

\* Where a turn of a loop that sends leaves the pacer.
Turned(r, p, t) == Booked(r, t) /\ Placed(r, t) /\ Stays(r, p) /\ r.at \in {"test", "send"}

LEMMA Stepped ==
    ASSUME NEW p, NEW t \in Nat, Booked(p, t), Placed(p, t), p.started /\ p.ready,
           NEW at, at \in {"test", "send"}, NEW r,
           r = [p EXCEPT !.at = at] \/ \E x \in Int : r = [p EXCEPT !.at = at, !.target = x]
    PROVE  Turned(r, p, t)
<1>0. p \in PacerType /\ at \in {"idle", "purge", "test", "send"} /\ p.target \in Int
  BY DEF Booked, PacerType
<1>1. PICK x \in Int : r = [p EXCEPT !.at = at, !.target = x]
  <2>1. CASE r = [p EXCEPT !.at = at]
    <3>1. [p EXCEPT !.at = at] = [p EXCEPT !.at = at, !.target = p.target]
      BY <1>0 DEF PacerType
    <3>. QED
      BY <1>0, <2>1, <3>1
  <2>. QED
    BY <2>1
<1>2. r \in PacerType
  BY <1>0, <1>1 DEF PacerType
<1>3. /\ r.at = at /\ r.q = p.q /\ r.paused = p.paused /\ r.stood = p.stood /\ r.ready = p.ready
      /\ r.started = p.started /\ r.shutdown = p.shutdown /\ r.next = p.next /\ r.now = p.now
      /\ r.videoPaused = p.videoPaused /\ r.pauseTime = p.pauseTime /\ r.out = p.out
  BY <1>0, <1>1 DEF PacerType
<1>. QED
  BY <1>2, <1>3 DEF Turned, Booked, Placed, Stays, Cut

\* What was sent is handed over.
LEMMA HandedOver ==
    ASSUME NEW p, NEW t \in Nat, Booked(p, t), Placed(p, t),
           NEW r, r = [p EXCEPT !.out = <<>>]
    PROVE  /\ Booked(r, t) /\ Placed(r, t) /\ Stays(r, p) /\ r.at = p.at
           /\ r.out = <<>> /\ NextSendTime(r) = NextSendTime(p)
<1>0. p \in PacerType
  BY DEF Booked
<1>1. PICK none \in Seq(Packet) : none = <<>>
  <2>1. <<>> \in Seq(Packet)
    OBVIOUS
  <2>. QED
    BY <2>1, Zenon
<1>2. r = [p EXCEPT !.out = none]
  BY <1>1, Zenon
<1>3. r \in PacerType
  BY <1>0, <1>2 DEF PacerType
<1>4. /\ r.at = p.at /\ r.q = p.q /\ r.paused = p.paused /\ r.stood = p.stood /\ r.ready = p.ready
      /\ r.started = p.started /\ r.shutdown = p.shutdown /\ r.next = p.next /\ r.now = p.now
      /\ r.videoPaused = p.videoPaused /\ r.pauseTime = p.pauseTime /\ r.out = none
  BY <1>0, <1>2 DEF PacerType
<1>5. Cut(r)
  BY <1>1, <1>4 DEF Cut, Range
<1>6. NextSendTime(r) = NextSendTime(p)
  <2>1. /\ r.sent = p.sent /\ r.congested = p.congested /\ r.seen = p.seen /\ r.debt = p.debt
        /\ r.padDebt = p.padDebt /\ r.padRate = p.padRate /\ r.processed = p.processed
    BY <1>0, <1>2 DEF PacerType
  <2>. QED
    BY <1>4, <2>1 DEF NextSendTime
<1>. QED
  BY <1>1, <1>3, <1>4, <1>5, <1>6 DEF Booked, Placed, Stays

LEMMA HandedOverInLoop ==
    ASSUME NEW p, NEW t \in Nat, Booked(p, t), Placed(p, t), NEW n \in Int,
           NEW r, r = [p EXCEPT !.out = <<>>, !.turns = n]
    PROVE  Booked(r, t) /\ Placed(r, t) /\ Stays(r, p) /\ r.at = p.at
<1>0. p \in PacerType
  BY DEF Booked
<1>1. PICK none \in Seq(Packet) : none = <<>>
  <2>1. <<>> \in Seq(Packet)
    OBVIOUS
  <2>. QED
    BY <2>1, Zenon
<1>2. r = [p EXCEPT !.out = none, !.turns = n]
  BY <1>1, Zenon
<1>3. r \in PacerType
  BY <1>0, <1>2, ZenonT(40) DEF PacerType
<1>4. /\ r.at = p.at /\ r.q = p.q /\ r.paused = p.paused /\ r.stood = p.stood /\ r.ready = p.ready
      /\ r.started = p.started /\ r.shutdown = p.shutdown /\ r.next = p.next /\ r.now = p.now
      /\ r.videoPaused = p.videoPaused /\ r.pauseTime = p.pauseTime /\ r.out = none
  BY <1>0, <1>2 DEF PacerType
<1>5. Cut(r)
  BY <1>1, <1>4 DEF Cut, Range
<1>. QED
  BY <1>3, <1>4, <1>5 DEF Booked, Placed, Stays

LEMMA LoopTurns ==
    ASSUME NEW p, NEW t \in Nat, Booked(p, t), Placed(p, t), p.at = "test",
           NEW r, r = [ProcessPackets(p, t) EXCEPT !.out = <<>>, !.turns = @ + 1]
    PROVE  Turned(r, p, t)
<1>0. p \in PacerType /\ p.started /\ p.ready /\ t \in Int
  BY DEF Booked, Placed
<1>1. PICK k : k = Keepalive(p, t)
  OBVIOUS
<1>2. k \in PacerType /\ Kept(k, p)
  BY <1>0, <1>1, KeepaliveKeeps
<1>3. Booked(k, t) /\ Like(k, p) /\ Placed(k, t)
  BY <1>2, KeptBooks, LikePlaced
<1>4. PICK target \in Int : target = NextSendTime(k)
  BY <1>3, SendTimeType DEF Booked
<1>5. PICK w : w = ProcessPackets(p, t)
  OBVIOUS
<1>6. Turned(w, p, t)
  <2>1. CASE k.paused
    <3>1. w = [k EXCEPT !.at = "test"]
      BY <1>1, <1>5, <2>1 DEF ProcessPackets
    <3>2. Turned(w, k, t)
      BY <1>0, <1>3, <3>1, Stepped DEF Like, Stays
    <3>. QED
      BY <1>3, <3>2 DEF Turned, Like, Stays
  <2>2. CASE ~k.paused /\ t < target
    <3>1. PICK e : e = Elapse(k, t)
      OBVIOUS
    <3>2. e \in PacerType /\ Kept(e, k)
      BY <1>0, <1>2, <3>1, ElapseKeeps
    <3>3. Booked(e, t) /\ Like(e, k) /\ Placed(e, t)
      BY <1>3, <3>2, KeptBooks, LikePlaced
    <3>4. w = [e EXCEPT !.at = "test"]
      BY <1>1, <1>4, <1>5, <2>2, <3>1 DEF ProcessPackets
    <3>5. Turned(w, e, t)
      BY <1>0, <1>3, <3>3, <3>4, Stepped DEF Like, Stays
    <3>. QED
      BY <1>3, <3>3, <3>5 DEF Turned, Like, Stays
  <2>3. CASE ~k.paused /\ ~(t < target)
    <3>1. PICK e : e = Elapse(k, target)
      OBVIOUS
    <3>2. e \in PacerType /\ Kept(e, k)
      BY <1>2, <3>1, ElapseKeeps
    <3>3. Booked(e, t) /\ Like(e, k) /\ Placed(e, t)
      BY <1>3, <3>2, KeptBooks, LikePlaced
    <3>4. w = [e EXCEPT !.at = "send", !.target = target]
      BY <1>1, <1>4, <1>5, <2>3, <3>1 DEF ProcessPackets
    <3>5. Turned(w, e, t)
      BY <1>0, <1>3, <3>3, <3>4, Stepped DEF Like, Stays
    <3>. QED
      BY <1>3, <3>3, <3>5 DEF Turned, Like, Stays
  <2>. QED
    BY <2>1, <2>2, <2>3
<1>7. PICK n \in Int : n = w.turns + 1
  <2>1. w \in PacerType
    BY <1>6 DEF Turned, Booked
  <2>2. w.turns \in Int
    BY <2>1 DEF PacerType
  <2>. QED
    BY <2>2
<1>8. r = [w EXCEPT !.out = <<>>, !.turns = n]
  BY <1>5, <1>7
<1>9. Booked(r, t) /\ Placed(r, t) /\ Stays(r, w) /\ r.at = w.at
  <2>1. Booked(w, t) /\ Placed(w, t)
    BY <1>6 DEF Turned
  <2>. QED
    BY <1>8, <2>1, HandedOverInLoop
<1>. QED
  BY <1>6, <1>9 DEF Turned, Stays

\* A packet that leaves was not captured before the pause.
LEMMA PacketSent ==
    ASSUME NEW p, NEW t \in Nat, Booked(p, t), Placed(p, t), p.at = "send", p.q.size > 0,
           NEW r, r = SendPacket(p, t)
    PROVE  Turned(r, p, t)
<1>0. /\ p \in PacerType /\ QInv(p.q) /\ p.started /\ p.ready /\ t \in Int /\ p.pauseTime \in Int
      /\ p.q.size \in Nat
  <2>1. p \in PacerType /\ QInv(p.q) /\ p.started /\ p.ready
    BY DEF Booked, Placed
  <2>2. p.pauseTime \in Int
    BY <2>1 DEF PacerType
  <2>3. p.q.size \in Nat
    BY <2>1, Emptiness DEF QInv
  <2>. QED
    BY <2>1, <2>2, <2>3
<1>1. PICK pkt \in Packet : pkt = NextPacket(p.q)
  BY <1>0, NextIs
<1>2. PICK q : q = Pop(p.q)
  OBVIOUS
<1>3. QInv(q) /\ q.paused = p.q.paused /\ q.updated = p.q.updated /\ q.pauseSum = p.q.pauseSum
  BY <1>0, <1>2, PopKeeps
<1>4. PICK out : out = IF p.shutdown \/ DropsVideoPacket(p, pkt) THEN <<>> ELSE <<pkt>>
  OBVIOUS
<1>5. out \in Seq(Packet) /\ \A x \in Range(out) : x = pkt /\ ~DropsVideoPacket(p, pkt)
  <2>1. CASE p.shutdown \/ DropsVideoPacket(p, pkt)
    BY <1>4, <2>1 DEF Range
  <2>2. CASE ~(p.shutdown \/ DropsVideoPacket(p, pkt))
    <3>1. out = <<pkt>>
      BY <1>4, <2>2
    <3>. QED
      BY <2>2, <3>1 DEF Range
  <2>. QED
    BY <2>1, <2>2
<1>6. PICK h : h = [p EXCEPT !.q = q]
  OBVIOUS
<1>7. Booked(h, t) /\ Like(h, p) /\ h.q = q
  BY <1>0, <1>3, <1>6, Requeued
<1>8. PICK v : v = [h EXCEPT !.out = out]
  OBVIOUS
<1>9. /\ v \in PacerType /\ v.at = h.at /\ v.q = h.q /\ v.paused = h.paused /\ v.stood = h.stood
      /\ v.ready = h.ready /\ v.started = h.started /\ v.shutdown = h.shutdown /\ v.next = h.next
      /\ v.now = h.now /\ v.videoPaused = h.videoPaused /\ v.pauseTime = h.pauseTime /\ v.out = out
  <2>1. h \in PacerType
    BY <1>7 DEF Booked
  <2>. QED
    BY <1>5, <1>8, <2>1 DEF PacerType
<1>10. Booked(v, t) /\ Stays(v, p) /\ v.at = p.at
  BY <1>7, <1>9 DEF Booked, Like, Stays
<1>11. Cut(v)
  <2>1. pkt.cap \in Int
    BY DEF Packet
  <2>2. SUFFICES ASSUME ~DropsVideoPacket(p, pkt), pkt.kind # "audio", p.pauseTime # None
                 PROVE  pkt.cap > p.pauseTime
    BY <1>5, <1>9, <1>10 DEF Cut, Stays
  <2>3. ~(pkt.cap <= p.pauseTime)
    BY <2>2 DEF DropsVideoPacket
  <2>. QED
    BY <1>0, <2>1, <2>3
<1>12. Placed(v, t)
  BY <1>7, <1>9, <1>11 DEF Placed, Like, Stays
<1>13. PICK s : s = OnPacketSent(v, pkt, t)
  OBVIOUS
<1>14. s \in PacerType /\ Kept(s, v)
  BY <1>0, <1>9, <1>13, PacketSentKeeps
<1>15. Booked(s, t) /\ Like(s, v) /\ Placed(s, t)
  BY <1>10, <1>12, <1>14, KeptBooks, LikePlaced
<1>16. PICK target \in Int : target = NextSendTime(s)
  BY <1>15, SendTimeType DEF Booked
<1>17. v = [p EXCEPT !.q = Pop(@), !.out = IF p.shutdown \/ DropsVideoPacket(p, pkt) THEN <<>> ELSE <<pkt>>]
  <2>1. v = [p EXCEPT !.q = q, !.out = out]
    BY <1>0, <1>6, <1>8 DEF PacerType
  <2>. DEFINE W(x, y) == [p EXCEPT !.q = x, !.out = y]
  <2>2. v = W(q, out)
    BY <2>1
  <2>3. W(Pop(p.q), IF p.shutdown \/ DropsVideoPacket(p, pkt) THEN <<>> ELSE <<pkt>>) =
          [p EXCEPT !.q = Pop(@), !.out = IF p.shutdown \/ DropsVideoPacket(p, pkt) THEN <<>> ELSE <<pkt>>]
    BY Zenon
  <2>. HIDE DEF W
  <2>. QED
    BY <1>2, <1>4, <2>2, <2>3
<1>18. r = IF target > t THEN [s EXCEPT !.at = "test", !.target = 0]
           ELSE [Elapse(s, target) EXCEPT !.target = target]
  <2>. DEFINE V(x) == [p EXCEPT !.q = Pop(@), !.out = IF p.shutdown \/ DropsVideoPacket(p, x) THEN <<>> ELSE <<x>>]
              S(x) == OnPacketSent(V(x), x, t)
              R(x) == IF NextSendTime(S(x)) > t THEN [S(x) EXCEPT !.at = "test", !.target = 0]
                      ELSE [Elapse(S(x), NextSendTime(S(x))) EXCEPT !.target = NextSendTime(S(x))]
  <2>1. r = R(NextPacket(p.q))
    BY Zenon DEF SendPacket
  <2>2. V(pkt) = v
    BY <1>17
  <2>. HIDE DEF V
  <2>3. S(pkt) = s
    BY <1>13, <2>2
  <2>. HIDE DEF S
  <2>4. R(pkt) = IF target > t THEN [s EXCEPT !.at = "test", !.target = 0]
                 ELSE [Elapse(s, target) EXCEPT !.target = target]
    BY <1>16, <2>3
  <2>. HIDE DEF R
  <2>. QED
    BY <1>1, <2>1, <2>4
<1>19. s.started /\ s.ready /\ Stays(s, p) /\ s.at = "send"
  BY <1>0, <1>10, <1>15 DEF Like, Stays
<1>20. CASE target > t
  <2>1. PICK zero \in Int, at \in {"test", "send"} : at = "test" /\ zero = 0
    OBVIOUS
  <2>2. r = [s EXCEPT !.at = at, !.target = zero]
    BY <1>18, <1>20, <2>1, Zenon
  <2>3. Turned(r, s, t)
    BY <1>15, <1>19, <2>1, <2>2, Stepped
  <2>. QED
    BY <1>19, <2>3 DEF Turned, Stays
<1>21. CASE ~(target > t)
  <2>1. PICK e : e = Elapse(s, target)
    OBVIOUS
  <2>2. e \in PacerType /\ Kept(e, s)
    BY <1>14, <2>1, ElapseKeeps
  <2>3. Booked(e, t) /\ Like(e, s) /\ Placed(e, t)
    BY <1>15, <2>2, KeptBooks, LikePlaced
  <2>4. r = [e EXCEPT !.target = target]
    BY <1>18, <1>21, <2>1
  <2>6. PICK at \in {"test", "send"} : e.at = at /\ e.started /\ e.ready
    BY <1>19, <2>3 DEF Like, Stays
  <2>5. r = [e EXCEPT !.at = at, !.target = target]
    BY <2>2, <2>4, <2>6 DEF PacerType
  <2>7. Turned(r, e, t)
    BY <2>3, <2>5, <2>6, Stepped
  <2>. QED
    BY <1>19, <2>3, <2>7 DEF Turned, Like, Stays
<1>. QED
  BY <1>20, <1>21

LEMMA PaddingIsPacket ==
    ASSUME NEW now \in Int
    PROVE  PaddingPacket(now) \in Packet
<1>1. PadSsrc \in Ssrcs
  BY PacerAssumption
<1>. QED
  BY <1>1 DEF PaddingPacket, Packet

LEMMA PaddingSent ==
    ASSUME NEW p, NEW t \in Nat, Booked(p, t), Placed(p, t), p.at = "send",
           NEW r, r = AddPadding(p, t)
    PROVE  Turned(r, p, t)
<1>0. p \in PacerType /\ p.started /\ p.ready /\ t \in Int /\ p.target \in Int /\ p.processed \in Int
  <2>1. p \in PacerType /\ p.started /\ p.ready
    BY DEF Booked, Placed
  <2>. QED
    BY <2>1 DEF PacerType
<1>1. PICK a \in Int, b \in Int : a = t - Replay /\ b = Most(p.processed, t - Replay)
  BY <1>0, ConstantTypes DEF Most
<1>2. PICK w : w = IF t - p.target > Replay THEN [p EXCEPT !.target = a, !.processed = b] ELSE p
  OBVIOUS
<1>3. w \in PacerType /\ Kept(w, p)
  <2>1. Kept(p, p)
    BY DEF Kept
  <2>. DEFINE v == [p EXCEPT !.target = a, !.processed = b]
  <2>2. v \in PacerType /\ Kept(v, p)
    BY <1>0, Adjusted
  <2>. HIDE DEF v
  <2>. QED
    BY <1>0, <1>2, <2>1, <2>2 DEF v
<1>4. Booked(w, t) /\ Like(w, p) /\ Placed(w, t)
  BY <1>3, KeptBooks, LikePlaced
<1>5. w.started /\ w.ready /\ w.at = "send" /\ Stays(w, p)
  BY <1>0, <1>4 DEF Like, Stays
<1>6. PICK zero \in Int, at \in {"test", "send"} : at = "test" /\ zero = 0
  OBVIOUS
<1>7. r = IF w.q.size > 0 \/ w.congested \/ ~w.padRate \/ w.padDebt # 0
          THEN [w EXCEPT !.at = at, !.target = zero]
          ELSE IF CanPad(w) THEN EnqueuePacket(w, PaddingPacket(t), t)
          ELSE [UpdatePaddingBudget(w) EXCEPT !.at = at, !.target = zero]
  <2>. DEFINE W(x, y) == IF t - p.target > Replay THEN [p EXCEPT !.target = x, !.processed = y] ELSE p
              R(x) == IF x.q.size > 0 \/ x.congested \/ ~x.padRate \/ x.padDebt # 0
                      THEN [x EXCEPT !.at = "test", !.target = 0]
                      ELSE IF CanPad(x) THEN EnqueuePacket(x, PaddingPacket(t), t)
                      ELSE [UpdatePaddingBudget(x) EXCEPT !.at = "test", !.target = 0]
  <2>1. r = R(W(t - Replay, Most(p.processed, t - Replay)))
    BY Zenon DEF AddPadding
  <2>2. W(a, b) = w
    BY <1>2
  <2>3. R(w) = IF w.q.size > 0 \/ w.congested \/ ~w.padRate \/ w.padDebt # 0
               THEN [w EXCEPT !.at = at, !.target = zero]
               ELSE IF CanPad(w) THEN EnqueuePacket(w, PaddingPacket(t), t)
               ELSE [UpdatePaddingBudget(w) EXCEPT !.at = at, !.target = zero]
    BY <1>6, Zenon
  <2>. HIDE DEF W, R
  <2>. QED
    BY <1>1, <2>1, <2>2, <2>3
<1>8. CASE w.q.size > 0 \/ w.congested \/ ~w.padRate \/ w.padDebt # 0
  <2>1. r = [w EXCEPT !.at = at, !.target = zero]
    BY <1>7, <1>8
  <2>2. Turned(r, w, t)
    BY <1>4, <1>5, <1>6, <2>1, Stepped
  <2>. QED
    BY <1>5, <2>2 DEF Turned, Stays
<1>9. CASE ~(w.q.size > 0 \/ w.congested \/ ~w.padRate \/ w.padDebt # 0) /\ CanPad(w)
  <2>1. r = EnqueuePacket(w, PaddingPacket(t), t)
    BY <1>7, <1>9
  <2>2. Booked(r, t) /\ Like(r, w)
    BY <1>0, <1>4, <2>1, EnqueueKeeps, PaddingIsPacket
  <2>3. Placed(r, t)
    BY <1>4, <2>2, LikePlaced
  <2>. QED
    BY <1>5, <2>2, <2>3 DEF Turned, Like, Stays
<1>10. CASE ~(w.q.size > 0 \/ w.congested \/ ~w.padRate \/ w.padDebt # 0) /\ ~CanPad(w)
  <2>1. PICK u : u = UpdatePaddingBudget(w)
    OBVIOUS
  <2>2. u \in PacerType /\ Kept(u, w)
    BY <1>3, <2>1, PaddingBudgetKeeps
  <2>3. Booked(u, t) /\ Like(u, w) /\ Placed(u, t)
    BY <1>4, <2>2, KeptBooks, LikePlaced
  <2>4. r = [u EXCEPT !.at = at, !.target = zero]
    BY <1>7, <1>10, <2>1
  <2>5. u.started /\ u.ready
    BY <1>5, <2>3 DEF Like, Stays
  <2>6. Turned(r, u, t)
    BY <1>6, <2>3, <2>4, <2>5, Stepped
  <2>. QED
    BY <1>5, <2>3, <2>6 DEF Turned, Like, Stays
<1>. QED
  BY <1>8, <1>9, <1>10

LEMMA StreamPurged ==
    ASSUME NEW p, NEW t \in Nat, Booked(p, t), Placed(p, t), p.at = "purge", NEW s \in p.left,
           NEW r, r = Purge(p, s, t)
    PROVE  Booked(r, t) /\ Placed(r, t) /\ Stays(r, p) /\ (r.at = "idle" => ~Running(r))
<1>0. p \in PacerType /\ QInv(p.q) /\ t \in Int
  BY DEF Booked
<1>1. p.left \in SUBSET Ssrcs
  BY <1>0 DEF PacerType
<1>2. PICK left \in SUBSET Ssrcs : left = p.left \ {s}
  BY <1>1
<1>3. PICK q : q = RemovePacketsForSsrc(p.q, s)
  OBVIOUS
<1>4. QInv(q) /\ q.paused = p.q.paused /\ q.updated = p.q.updated /\ q.pauseSum = p.q.pauseSum
  BY <1>0, <1>1, <1>3, RemoveKeeps
<1>5. PICK h : h = [p EXCEPT !.q = q]
  OBVIOUS
<1>6. Booked(h, t) /\ Like(h, p) /\ h \in PacerType
  BY <1>0, <1>4, <1>5, Requeued DEF Booked
<1>7. PICK v : v = [h EXCEPT !.left = left]
  OBVIOUS
<1>8. /\ v \in PacerType /\ v.q = h.q /\ v.paused = h.paused /\ v.stood = h.stood /\ v.at = h.at
      /\ v.now = h.now /\ v.out = h.out /\ v.left = left /\ Stays(v, h)
  BY <1>6, <1>7 DEF PacerType, Stays
<1>9. Booked(v, t) /\ Placed(v, t) /\ Stays(v, p) /\ v.at = "purge"
  <2>1. Placed(h, t)
    BY <1>6, LikePlaced
  <2>2. Placed(v, t)
    BY <1>8, <2>1 DEF Placed, Cut, Stays
  <2>. QED
    BY <1>6, <1>8, <2>2 DEF Booked, Like, Stays
<1>10. v = [p EXCEPT !.q = RemovePacketsForSsrc(@, s), !.left = @ \ {s}]
  <2>. DEFINE W(x, y) == [p EXCEPT !.q = x, !.left = y]
  <2>1. v = W(q, left)
    BY <1>0, <1>5, <1>7 DEF PacerType
  <2>2. W(RemovePacketsForSsrc(p.q, s), p.left \ {s}) =
          [p EXCEPT !.q = RemovePacketsForSsrc(@, s), !.left = @ \ {s}]
    BY Zenon
  <2>. HIDE DEF W
  <2>. QED
    BY <1>2, <1>3, <2>1, <2>2
<1>11. r = IF v.left # {} THEN v ELSE MaybeProcessPackets([v EXCEPT !.at = "idle"], t)
  BY <1>10, Zenon DEF Purge
<1>12. CASE v.left # {}
  BY <1>9, <1>11, <1>12
<1>13. CASE v.left = {}
  <2>1. PICK at \in {"idle", "purge", "test", "send"} : at = "idle"
    OBVIOUS
  <2>2. PICK w : w = [v EXCEPT !.at = at]
    OBVIOUS
  <2>3. /\ w \in PacerType /\ w.q = v.q /\ w.paused = v.paused /\ w.stood = v.stood /\ w.at = at
        /\ w.now = v.now /\ w.out = v.out /\ Stays(w, v)
    BY <1>8, <2>2 DEF PacerType, Stays
  <2>4. Booked(w, t) /\ Placed(w, t)
    BY <1>9, <2>1, <2>3 DEF Booked, Placed, Cut, Stays
  <2>5. r = MaybeProcessPackets(w, t)
    BY <1>11, <1>13, <2>1, <2>2
  <2>6. /\ Booked(r, t) /\ Placed(r, t) /\ Stays(r, w)
        /\ IF Running(w) THEN r.at = "test" ELSE r = w
    BY <2>4, <2>5, BeginKeeps
  <2>7. Running(r) <=> Running(w)
    BY <2>6 DEF Stays, Running
  <2>. QED
    BY <1>9, <2>3, <2>6, <2>7 DEF Stays
<1>. QED
  BY <1>12, <1>13

-----------------------------------------------------------------------------
(* What waits in the task queue. *)

\* The places of one kind of task.
Of(s, op) == {i \in 1..Len(s) : s[i].op = op}

\* The pauses that wait end in what the controller wants, and none is later than
\* the one it asked for last.
Pauses(s, videoPaused, paused, time) ==
    /\ Of(s, "pause") = {} => videoPaused = paused
    /\ \A i \in Of(s, "pause") : (\A j \in Of(s, "pause") : j <= i) => s[i].on = paused
    /\ \A i \in Of(s, "pause") : s[i].on => s[i].time <= time

\* A path that is reported ready again without having become so was ready before.
Transports(s, ready) ==
    \A i \in Of(s, "transport") : s[i].on /\ ~s[i].rises =>
        \/ ready /\ \A j \in Of(s, "transport") : j >= i
        \/ \E j \in Of(s, "transport") :
              j < i /\ s[j].on /\ \A k \in Of(s, "transport") : k <= j \/ k >= i

LEMMA OfTail ==
    ASSUME NEW s \in Seq(Tasks), s # <<>>
    PROVE  /\ Tail(s) \in Seq(Tasks) /\ Head(s) = s[1] /\ s[1] \in Tasks /\ Len(s) \in Nat /\ 1 \in 1..Len(s)
           /\ \A op : \A i \in Int : i \in Of(Tail(s), op) <=> i >= 1 /\ i + 1 \in Of(s, op)
           /\ \A i \in 1..Len(Tail(s)) : Tail(s)[i] = s[i + 1]
           /\ \A op : Of(s, op) \subseteq Int /\ Of(Tail(s), op) \subseteq Int
           /\ \A op : 1 \in Of(s, op) <=> Head(s).op = op
           /\ \A op : \A i \in Of(s, op) : i = 1 \/ i - 1 \in Of(Tail(s), op)
<1>1. /\ Tail(s) \in Seq(Tasks) /\ Head(s) = s[1] /\ s[1] \in Tasks /\ Len(s) \in Nat /\ 1 \in 1..Len(s)
      /\ Len(Tail(s)) = Len(s) - 1 /\ \A i \in 1..Len(Tail(s)) : Tail(s)[i] = s[i + 1]
  OBVIOUS
<1>2. ASSUME NEW i \in Int, NEW op
      PROVE  i \in Of(Tail(s), op) <=> i >= 1 /\ i + 1 \in Of(s, op)
  <2>1. i \in 1..Len(Tail(s)) <=> i >= 1 /\ i + 1 \in 1..Len(s)
    BY <1>1
  <2>. QED
    BY <1>1, <2>1 DEF Of
<1>3. ASSUME NEW op PROVE Of(s, op) \subseteq Int /\ Of(Tail(s), op) \subseteq Int
  BY <1>1 DEF Of
<1>4. ASSUME NEW op PROVE 1 \in Of(s, op) <=> Head(s).op = op
  BY <1>1 DEF Of
<1>5. ASSUME NEW op, NEW i \in Of(s, op), i # 1 PROVE i - 1 \in Of(Tail(s), op)
  <2>1. i \in 1..Len(s) /\ s[i].op = op
    BY DEF Of
  <2>2. i - 1 \in 1..Len(Tail(s)) /\ Tail(s)[i - 1] = s[i]
    BY <1>1, <1>5, <2>1
  <2>. QED
    BY <2>1, <2>2 DEF Of
<1>. QED
  BY <1>1, <1>2, <1>3, <1>4, <1>5

LEMMA OfAppend ==
    ASSUME NEW s \in Seq(Tasks), NEW task \in Tasks
    PROVE  /\ Append(s, task) \in Seq(Tasks) /\ Len(s) \in Nat
           /\ \A op : Of(s, op) \subseteq 1..Len(s)
           /\ \A op : Of(Append(s, task), op) = Of(s, op) \cup (IF task.op = op THEN {Len(s) + 1} ELSE {})
           /\ \A i \in 1..Len(s) : Append(s, task)[i] = s[i]
           /\ Append(s, task)[Len(s) + 1] = task
<1>1. /\ Append(s, task) \in Seq(Tasks) /\ Len(s) \in Nat /\ Len(Append(s, task)) = Len(s) + 1
      /\ \A i \in 1..Len(s) : Append(s, task)[i] = s[i]
      /\ Append(s, task)[Len(s) + 1] = task
  OBVIOUS
<1>2. 1..(Len(s) + 1) = 1..Len(s) \cup {Len(s) + 1} /\ Len(s) + 1 \notin 1..Len(s)
  BY <1>1
<1>3. PICK n, a : n = Len(s) + 1 /\ a = Append(s, task)
  OBVIOUS
<1>4. 1..Len(a) = 1..Len(s) \cup {n} /\ a[n] = task /\ \A i \in 1..Len(s) : a[i] = s[i]
  BY <1>1, <1>2, <1>3
<1>5. ASSUME NEW op PROVE Of(a, op) = Of(s, op) \cup (IF task.op = op THEN {n} ELSE {})
  BY <1>4 DEF Of
<1>6. ASSUME NEW op PROVE Of(s, op) \subseteq 1..Len(s)
  BY DEF Of
<1>. QED
  BY <1>1, <1>3, <1>5, <1>6

LEMMA PausesTail ==
    ASSUME NEW s \in Seq(Tasks), s # <<>>, NEW v, NEW paused, NEW time, Pauses(s, v, paused, time),
           NEW w, w = IF Head(s).op = "pause" THEN Head(s).on ELSE v
    PROVE  Pauses(Tail(s), w, paused, time)
<1>. DEFINE P == Of(s, "pause")
            Q == Of(Tail(s), "pause")
<1>1. /\ Head(s) = s[1] /\ P \subseteq Int /\ Q \subseteq Int /\ (1 \in P <=> Head(s).op = "pause")
      /\ \A i \in P : i = 1 \/ i - 1 \in Q
      /\ \A i \in Int : i \in Q <=> i >= 1 /\ i + 1 \in P
  BY OfTail
<1>2. ASSUME NEW i \in Q PROVE Tail(s)[i] = s[i + 1] /\ i + 1 \in P /\ i \in Int /\ i >= 1
  <2>1. \A j \in 1..Len(Tail(s)) : Tail(s)[j] = s[j + 1]
    BY OfTail
  <2>2. i \in 1..Len(Tail(s))
    BY DEF Of
  <2>. QED
    BY <1>1, <2>1, <2>2
<1>3. /\ P = {} => v = paused
      /\ \A i \in P : (\A j \in P : j <= i) => s[i].on = paused
      /\ \A i \in P : s[i].on => s[i].time <= time
  BY DEF Pauses
<1>. HIDE DEF P, Q
<1>4. ASSUME Q = {} PROVE w = paused
  <2>1. CASE 1 \in P
    <3>1. \A j \in P : j <= 1
      BY <1>1, <1>4
    <3>. QED
      BY <1>1, <1>3, <2>1, <3>1
  <2>2. CASE 1 \notin P
    <3>1. P = {}
      BY <1>1, <1>4, <2>2
    <3>. QED
      BY <1>1, <1>3, <2>2, <3>1
  <2>. QED
    BY <2>1, <2>2
<1>5. ASSUME NEW i \in Q, \A j \in Q : j <= i PROVE Tail(s)[i].on = paused
  <2>1. ASSUME NEW j \in P PROVE j <= i + 1
    <3>1. j \in Int
      BY <1>1
    <3>2. CASE j = 1
      BY <1>2, <3>2
    <3>3. CASE j - 1 \in Q
      BY <1>2, <1>5, <3>1, <3>3
    <3>. QED
      BY <1>1, <3>2, <3>3
  <2>. QED
    BY <1>2, <1>3, <2>1
<1>6. ASSUME NEW i \in Q, Tail(s)[i].on PROVE Tail(s)[i].time <= time
  BY <1>2, <1>3, <1>6
<1>. QED
  BY <1>4, <1>5, <1>6 DEF Pauses, Q

LEMMA PausesAppend ==
    ASSUME NEW s \in Seq(Tasks), NEW v, NEW paused, NEW time \in Int, Pauses(s, v, paused, time),
           NEW task \in Tasks, NEW wanting, NEW later \in Int, time <= later,
           IF task.op = "pause" THEN task.on = wanting /\ (task.on => task.time = later)
           ELSE wanting = paused
    PROVE  Pauses(Append(s, task), v, wanting, later)
<1>. DEFINE P == Of(s, "pause")
            a == Append(s, task)
            n == Len(s) + 1
<1>1. /\ P \subseteq 1..Len(s) /\ Len(s) \in Nat
      /\ Of(a, "pause") = P \cup (IF task.op = "pause" THEN {n} ELSE {})
      /\ (\A i \in 1..Len(s) : a[i] = s[i]) /\ a[n] = task
  BY OfAppend
<1>2. /\ P = {} => v = paused
      /\ \A i \in P : (\A j \in P : j <= i) => s[i].on = paused
      /\ \A i \in P : s[i].on => s[i].time <= time
  BY DEF Pauses
<1>3. ASSUME NEW i \in P, s[i].on PROVE s[i].time <= later
  <2>1. s[i].time <= time
    BY <1>2, <1>3
  <2>2. s[i] \in Tasks /\ s[i].op = "pause"
    BY <1>1 DEF Of
  <2>3. s[i].time \in Int
    BY <2>2, TaskIs
  <2>. QED
    BY <2>1, <2>3
<1>. HIDE DEF a, P
<1>4. CASE task.op # "pause"
  <2>1. Of(a, "pause") = P /\ \A i \in P : a[i] = s[i]
    BY <1>1, <1>4
  <2>. QED
    BY <1>2, <1>3, <1>4, <2>1 DEF Pauses, a
<1>5. CASE task.op = "pause"
  <2>1. Of(a, "pause") = P \cup {n} /\ (\A i \in P : a[i] = s[i]) /\ a[n] = task
    BY <1>1, <1>5
  <2>2. \A i \in P : ~(n <= i)
    BY <1>1
  <2>3. ASSUME NEW i \in P \cup {n}, \A j \in P \cup {n} : j <= i PROVE a[i].on = wanting
    <3>1. i = n
      BY <2>2, <2>3
    <3>. QED
      BY <1>5, <2>1, <3>1
  <2>4. ASSUME NEW i \in P \cup {n}, a[i].on PROVE a[i].time <= later
    <3>1. CASE i = n
      <4>1. task.time = later
        BY <1>5, <2>1, <2>4, <3>1
      <4>. QED
        BY <2>1, <3>1, <4>1
    <3>2. CASE i \in P
      BY <1>3, <2>1, <2>4, <3>2
    <3>. QED
      BY <3>1, <3>2
  <2>. QED
    BY <2>1, <2>3, <2>4 DEF Pauses, a
<1>. QED
  BY <1>4, <1>5

LEMMA TransportsTail ==
    ASSUME NEW s \in Seq(Tasks), s # <<>>, NEW v, Transports(s, v),
           NEW w, w = IF Head(s).op = "transport" THEN Head(s).on ELSE v
    PROVE  Transports(Tail(s), w)
<1>. DEFINE P == Of(s, "transport")
            Q == Of(Tail(s), "transport")
<1>1. /\ Head(s) = s[1] /\ P \subseteq Int /\ Q \subseteq Int /\ (1 \in P <=> Head(s).op = "transport")
      /\ \A i \in P : i = 1 \/ i - 1 \in Q
      /\ \A i \in Int : i \in Q <=> i >= 1 /\ i + 1 \in P
  BY OfTail
<1>2. ASSUME NEW i \in Q PROVE Tail(s)[i] = s[i + 1] /\ i + 1 \in P /\ i \in Int /\ i >= 1
  <2>1. \A j \in 1..Len(Tail(s)) : Tail(s)[j] = s[j + 1]
    BY OfTail
  <2>2. i \in 1..Len(Tail(s))
    BY DEF Of
  <2>. QED
    BY <1>1, <2>1, <2>2
<1>3. \A i \in P : s[i].on /\ ~s[i].rises =>
          \/ v /\ \A j \in P : j >= i
          \/ \E j \in P : j < i /\ s[j].on /\ \A k \in P : k <= j \/ k >= i
  BY DEF Transports
<1>8. \A i \in P : i >= 1
  BY DEF Of
<1>. HIDE DEF P, Q
<1>4. SUFFICES ASSUME NEW i \in Q, Tail(s)[i].on, ~Tail(s)[i].rises
               PROVE  \/ w /\ \A j \in Q : j >= i
                      \/ \E j \in Q : j < i /\ Tail(s)[j].on /\ \A k \in Q : k <= j \/ k >= i
  BY DEF Transports, Q
<1>5. \/ v /\ \A j \in P : j >= i + 1
      \/ \E j \in P : j < i + 1 /\ s[j].on /\ \A k \in P : k <= j \/ k >= i + 1
  BY <1>2, <1>3, <1>4
<1>6. CASE v /\ \A j \in P : j >= i + 1
  <2>1. 1 \notin P
    BY <1>2, <1>6
  <2>2. \A j \in Q : j >= i
    BY <1>2, <1>6
  <2>. QED
    BY <1>1, <1>6, <2>1, <2>2
<1>7. CASE \E j \in P : j < i + 1 /\ s[j].on /\ \A k \in P : k <= j \/ k >= i + 1
  <2>1. PICK j \in P : j < i + 1 /\ s[j].on /\ \A k \in P : k <= j \/ k >= i + 1
    BY <1>7
  <2>2. CASE j = 1
    <3>1. ASSUME NEW k \in Q PROVE k >= i
      <4>1. k + 1 \in P /\ k >= 1 /\ k \in Int /\ i \in Int
        BY <1>2
      <4>. QED
        BY <2>1, <2>2, <4>1
    <3>2. w = s[1].on
      BY <1>1, <2>2
    <3>. QED
      BY <2>1, <2>2, <3>1, <3>2
  <2>3. CASE j # 1
    <3>1. j - 1 \in Q /\ j \in Int /\ i \in Int
      BY <1>1, <1>2, <2>3
    <3>2. Tail(s)[j - 1] = s[j]
      <4>1. Tail(s)[j - 1] = s[(j - 1) + 1]
        BY <1>2, <3>1
      <4>2. (j - 1) + 1 = j
        BY <3>1
      <4>. QED
        BY <4>1, <4>2, Zenon
    <3>3. ASSUME NEW k \in Q PROVE k <= j - 1 \/ k >= i
      <4>1. k + 1 \in P /\ k \in Int
        BY <1>2
      <4>. QED
        BY <2>1, <3>1, <4>1
    <3>4. j - 1 < i
      BY <2>1, <3>1
    <3>5. Tail(s)[j - 1].on
      BY <2>1, <3>2
    <3>. QED
      BY <3>1, <3>3, <3>4, <3>5
  <2>. QED
    BY <2>2, <2>3
<1>. QED
  BY <1>5, <1>6, <1>7

LEMMA TransportsAppend ==
    ASSUME NEW s \in Seq(Tasks), NEW v, Transports(s, v), NEW task \in Tasks,
           task.op = "transport" /\ task.on /\ ~task.rises =>
               IF Of(s, "transport") = {} THEN v
               ELSE \E i \in Of(s, "transport") : s[i].on /\ \A j \in Of(s, "transport") : j <= i
    PROVE  Transports(Append(s, task), v)
<1>. DEFINE P == Of(s, "transport")
            a == Append(s, task)
            n == Len(s) + 1
<1>1. /\ P \subseteq 1..Len(s) /\ Len(s) \in Nat
      /\ Of(a, "transport") = P \cup (IF task.op = "transport" THEN {n} ELSE {})
      /\ (\A i \in 1..Len(s) : a[i] = s[i]) /\ a[n] = task
  BY OfAppend
<1>2. \A i \in P : s[i].on /\ ~s[i].rises =>
          \/ v /\ \A j \in P : j >= i
          \/ \E j \in P : j < i /\ s[j].on /\ \A k \in P : k <= j \/ k >= i
  BY DEF Transports
<1>3. task.op = "transport" /\ task.on /\ ~task.rises =>
          IF P = {} THEN v ELSE \E i \in P : s[i].on /\ \A j \in P : j <= i
  OBVIOUS
<1>. HIDE DEF a, P
<1>4. (\A i \in P : a[i] = s[i] /\ i < n /\ n >= i) /\ n >= n
  BY <1>1
<1>. HIDE DEF n
<1>5. ASSUME NEW i \in P, a[i].on, ~a[i].rises, NEW R, R = P \/ R = P \cup {n}
      PROVE  \/ v /\ \A j \in R : j >= i
             \/ \E j \in R : j < i /\ a[j].on /\ \A k \in R : k <= j \/ k >= i
  <2>1. CASE v /\ \A j \in P : j >= i
    BY <1>4, <1>5, <2>1
  <2>2. CASE \E j \in P : j < i /\ s[j].on /\ \A k \in P : k <= j \/ k >= i
    BY <1>4, <1>5, <2>2
  <2>. QED
    BY <1>2, <1>4, <1>5, <2>1, <2>2
<1>6. CASE task.op # "transport"
  <2>1. Of(a, "transport") = P
    BY <1>1, <1>6
  <2>. QED
    BY <1>5, <2>1 DEF Transports, a
<1>7. CASE task.op = "transport"
  <2>1. Of(a, "transport") = P \cup {n} /\ a[n] = task
    BY <1>1, <1>7
  <2>2. ASSUME task.on, ~task.rises
        PROVE  \/ v /\ \A j \in P \cup {n} : j >= n
               \/ \E j \in P \cup {n} : j < n /\ a[j].on /\ \A k \in P \cup {n} : k <= j \/ k >= n
    <3>1. CASE P = {}
      BY <1>3, <1>4, <1>7, <2>2, <3>1
    <3>2. CASE P # {}
      <4>1. PICK i \in P : s[i].on /\ \A j \in P : j <= i
        BY <1>3, <1>7, <2>2, <3>2
      <4>. QED
        BY <1>4, <4>1
    <3>. QED
      BY <3>1, <3>2
  <2>3. PICK R : R = P \cup {n}
    OBVIOUS
  <2>4. ASSUME NEW i \in R, a[i].on, ~a[i].rises
        PROVE  \/ v /\ \A j \in R : j >= i
               \/ \E j \in R : j < i /\ a[j].on /\ \A k \in R : k <= j \/ k >= i
    <3>1. CASE i \in P
      BY <1>5, <2>3, <2>4, <3>1, SMTT(40)
    <3>2. CASE i = n
      BY <2>1, <2>2, <2>3, <2>4, <3>2, Zenon
    <3>. QED
      BY <2>3, <3>1, <3>2
  <2>. QED
    BY <2>1, <2>3, <2>4, Zenon DEF Transports, a
<1>. QED
  BY <1>6, <1>7

-----------------------------------------------------------------------------
(* The system. *)

\* The delayed task in flight is on its way, and in time if the pacer waits for it.
Awaited(p, d, t) ==
    /\ p.next # None => p.next \in d
    /\ p.at = "idle" /\ Running(p) => p.next \in d /\ p.next <= Most(NextSendTime(p), t + 1)

PsInv ==
    /\ wall \in Nat /\ posted \in Seq(Tasks) /\ delayed \in SUBSET Nat
    /\ wanted.paused \in BOOLEAN /\ wanted.time \in Int /\ wanted.time <= wall
    /\ Booked(pacer, wall) /\ Placed(pacer, wall)
    /\ pacer.pauseTime <= wanted.time
    /\ ~pacer.shutdown =>
          /\ Pauses(posted, pacer.videoPaused, wanted.paused, wanted.time)
          /\ Transports(posted, pacer.ready)
          /\ Awaited(pacer, delayed, wall)

\* The task that runs next, and the pacer as the task finds it.
LEMMA HeadTask ==
    ASSUME PsInv, ~pacer.shutdown, posted # <<>>
    PROVE  LET task == Head(posted)
           IN /\ task \in Tasks
              /\ task.op = "transport" /\ task.on /\ ~task.rises => pacer.ready
              /\ task.op = "pause" /\ task.on => task.time <= wanted.time
<1>0. posted \in Seq(Tasks)
  BY DEF PsInv
<1>1. Head(posted) = posted[1] /\ posted[1] \in Tasks /\ 1 \in Int
  BY <1>0
<1>2. \A op : 1 \in Of(posted, op) <=> Head(posted).op = op
  BY <1>0, OfTail
<1>3. \A op : \A i \in Of(posted, op) : ~(i < 1)
  BY <1>0 DEF Of
<1>4. ASSUME Head(posted).op = "transport", Head(posted).on, ~Head(posted).rises PROVE pacer.ready
  <2>1. Transports(posted, pacer.ready)
    BY DEF PsInv
  <2>2. 1 \in Of(posted, "transport") /\ posted[1].on /\ ~posted[1].rises
    BY <1>1, <1>2, <1>4
  <2>. QED
    BY <1>3, <2>1, <2>2 DEF Transports
<1>5. ASSUME Head(posted).op = "pause", Head(posted).on PROVE Head(posted).time <= wanted.time
  <2>1. Pauses(posted, pacer.videoPaused, wanted.paused, wanted.time)
    BY DEF PsInv
  <2>2. 1 \in Of(posted, "pause") /\ posted[1].on
    BY <1>1, <1>2, <1>5
  <2>. QED
    BY <1>1, <2>1, <2>2 DEF Pauses
<1>. QED
  BY <1>1, <1>4, <1>5

\* What a task that runs does to the pacer.
LEMMA TaskRuns ==
    ASSUME PsInv, ~pacer.shutdown, posted # <<>>, PacerIdle,
           NEW r, r = Perform([pacer EXCEPT !.out = <<>>], Head(posted), wall)
    PROVE  \E p : /\ Stays(p, pacer) /\ p.at = "idle" /\ NextSendTime(p) = NextSendTime(pacer)
                  /\ Performed(r, p, Head(posted), wall)
                  /\ Head(posted).op = "packet" /\ ~DropsVideoPacket(p, Head(posted).pkt) => r.q.size > 0
<1>1. PICK p : p = [pacer EXCEPT !.out = <<>>]
  OBVIOUS
<1>0. wall \in Nat /\ Booked(pacer, wall) /\ Placed(pacer, wall)
  BY DEF PsInv
<1>2. /\ Booked(p, wall) /\ Placed(p, wall) /\ Stays(p, pacer) /\ p.at = pacer.at
      /\ p.out = <<>> /\ NextSendTime(p) = NextSendTime(pacer)
  BY <1>0, <1>1, HandedOver
<1>3. PICK task : task = Head(posted)
  OBVIOUS
<1>4. task \in Tasks /\ (task.op = "transport" /\ task.on /\ ~task.rises => p.ready)
  BY <1>2, <1>3, HeadTask DEF Stays
<1>5. p.at = "idle"
  BY <1>2 DEF PacerIdle
<1>6. r = Perform(p, task, wall)
  BY <1>1, <1>3
<1>7. /\ Performed(r, p, task, wall)
      /\ task.op = "packet" /\ ~DropsVideoPacket(p, task.pkt) => r.q.size > 0
  BY <1>0, <1>2, <1>4, <1>5, <1>6, TaskPerformed
<1>. QED
  BY <1>2, <1>3, <1>5, <1>7

LEMMA RunPostedKeeps == PsInv /\ RunPosted => PsInv'
<1>0. SUFFICES ASSUME PsInv, RunPosted PROVE PsInv'
  OBVIOUS
<1>1. posted # <<>> /\ PacerIdle /\ posted' = Tail(posted) /\ wall' = wall /\ delayed' = delayed /\ wanted' = wanted
  BY <1>0 DEF RunPosted
<1>2. /\ wall \in Nat /\ posted \in Seq(Tasks) /\ delayed \in SUBSET Nat
      /\ wanted.paused \in BOOLEAN /\ wanted.time \in Int /\ wanted.time <= wall
      /\ pacer.pauseTime <= wanted.time
  BY <1>0 DEF PsInv
<1>3. posted' \in Seq(Tasks)
  BY <1>1, <1>2, OfTail
<1>4. CASE pacer.shutdown
  <2>1. pacer' = pacer
    BY <1>0, <1>4 DEF RunPosted
  <2>. QED
    BY <1>0, <1>1, <1>3, <1>4, <2>1 DEF PsInv
<1>5. CASE ~pacer.shutdown
  <2>1. pacer' = Perform([pacer EXCEPT !.out = <<>>], Head(posted), wall)
    BY <1>0, <1>5 DEF RunPosted
  <2>2. PICK p : /\ Stays(p, pacer) /\ p.at = "idle" /\ NextSendTime(p) = NextSendTime(pacer)
                 /\ Performed(pacer', p, Head(posted), wall)
    BY <1>0, <1>1, <1>5, <2>1, TaskRuns
  <2>3. PICK task : task = Head(posted)
    OBVIOUS
  <2>4. /\ Booked(pacer', wall) /\ Placed(pacer', wall) /\ pacer'.shutdown = p.shutdown
        /\ pacer'.ready = IF task.op = "transport" THEN task.on ELSE p.ready
        /\ pacer'.videoPaused = IF task.op = "pause" THEN task.on ELSE p.videoPaused
        /\ (pacer'.pauseTime = p.pauseTime \/ (task.op = "pause" /\ task.on /\ pacer'.pauseTime = task.time))
        /\ pacer'.next \in {p.next, None}
        /\ (pacer'.at = "idle" /\ Running(pacer') =>
              Running(p) /\ pacer'.next = p.next /\ NextSendTime(pacer') = NextSendTime(p))
    BY <2>2, <2>3 DEF Performed
  <2>5. p.ready = pacer.ready /\ p.videoPaused = pacer.videoPaused /\ p.next = pacer.next
        /\ p.pauseTime = pacer.pauseTime /\ p.shutdown = pacer.shutdown /\ (Running(p) <=> Running(pacer))
    BY <2>2 DEF Stays, Running
  <2>6. pacer'.pauseTime <= wanted.time
    BY <1>0, <1>1, <1>2, <1>5, <2>3, <2>4, <2>5, HeadTask
  <2>7. Pauses(posted, pacer.videoPaused, wanted.paused, wanted.time)
        /\ Transports(posted, pacer.ready) /\ Awaited(pacer, delayed, wall)
    BY <1>0, <1>5 DEF PsInv
  <2>8. Pauses(posted', pacer'.videoPaused, wanted.paused, wanted.time)
    BY <1>1, <1>2, <2>3, <2>4, <2>5, <2>7, PausesTail
  <2>9. Transports(posted', pacer'.ready)
    BY <1>1, <1>2, <2>3, <2>4, <2>5, <2>7, TransportsTail
  <2>10. Awaited(pacer', delayed, wall)
    BY <1>1, <2>2, <2>4, <2>5, <2>7 DEF Awaited, PacerIdle
  <2>. QED
    BY <1>1, <1>2, <1>3, <2>4, <2>6, <2>8, <2>9, <2>10 DEF PsInv
<1>. QED
  BY <1>4, <1>5

\* A step of the pacer that stays as it was for the tasks that wait.
LEMMA StaysKeeps ==
    ASSUME PsInv, UNCHANGED <<wall, posted, wanted>>, Booked(pacer', wall), Placed(pacer', wall),
           pacer'.videoPaused = pacer.videoPaused, pacer'.ready = pacer.ready,
           pacer'.pauseTime = pacer.pauseTime, pacer'.shutdown = pacer.shutdown,
           delayed' \in SUBSET Nat, ~pacer.shutdown => Awaited(pacer', delayed', wall)
    PROVE  PsInv'
BY DEF PsInv

LEMMA RunDelayedKeeps == PsInv /\ RunDelayed => PsInv'
<1>0. SUFFICES ASSUME PsInv, RunDelayed PROVE PsInv'
  OBVIOUS
<1>1. PICK t \in delayed :
          /\ PacerIdle /\ t <= wall /\ delayed' = delayed \ {t}
          /\ pacer' = IF t # pacer.next \/ ~pacer.ready \/ pacer.shutdown THEN pacer
                      ELSE MaybeProcessPackets([pacer EXCEPT !.next = None], wall)
          /\ UNCHANGED <<wall, posted, ops, wanted>>
  BY <1>0 DEF RunDelayed
<1>2. /\ wall \in Nat /\ delayed \in SUBSET Nat /\ Booked(pacer, wall) /\ Placed(pacer, wall)
      /\ (~pacer.shutdown => Awaited(pacer, delayed, wall)) /\ pacer \in PacerType
  BY <1>0 DEF PsInv, Booked
<1>3. delayed' \in SUBSET Nat /\ t # None
  BY <1>1, <1>2 DEF None
<1>4. CASE t # pacer.next \/ ~pacer.ready \/ pacer.shutdown
  <2>1. pacer' = pacer
    BY <1>1, <1>4
  <2>2. ~pacer.shutdown => t # pacer.next
    BY <1>2, <1>3, <1>4 DEF Placed
  <2>3. ~pacer.shutdown => Awaited(pacer', delayed', wall)
    BY <1>1, <1>2, <2>1, <2>2 DEF Awaited
  <2>. QED
    BY <1>0, <1>1, <1>2, <1>3, <2>1, <2>3, StaysKeeps
<1>5. CASE ~(t # pacer.next \/ ~pacer.ready \/ pacer.shutdown)
  <2>1. PICK none \in Int : none = None
    BY DEF None
  <2>2. PICK w : w = [pacer EXCEPT !.next = none]
    OBVIOUS
  <2>3. w \in PacerType
    BY <1>2, <2>2 DEF PacerType
  <2>4. /\ w.next = none /\ w.q = pacer.q /\ w.paused = pacer.paused /\ w.stood = pacer.stood
        /\ w.at = pacer.at /\ w.now = pacer.now /\ w.out = pacer.out /\ w.ready = pacer.ready
        /\ w.started = pacer.started /\ w.shutdown = pacer.shutdown
        /\ w.videoPaused = pacer.videoPaused /\ w.pauseTime = pacer.pauseTime
    BY <1>2, <2>2 DEF PacerType
  <2>5. Booked(w, wall)
    BY <1>2, <2>3, <2>4 DEF Booked
  <2>6. Placed(w, wall)
    BY <1>2, <2>1, <2>4 DEF Placed, Cut
  <2>7. pacer' = MaybeProcessPackets(w, wall)
    BY <1>1, <1>5, <2>1, <2>2
  <2>8. /\ Booked(pacer', wall) /\ Placed(pacer', wall) /\ Stays(pacer', w)
        /\ IF Running(w) THEN pacer'.at = "test" ELSE pacer' = w
    BY <1>2, <2>5, <2>6, <2>7, BeginKeeps
  <2>9. Running(pacer') <=> Running(w)
    BY <2>8 DEF Stays, Running
  <2>10. Awaited(pacer', delayed', wall)
    BY <2>1, <2>4, <2>8, <2>9 DEF Awaited, Stays
  <2>. QED
    BY <1>0, <1>1, <1>3, <2>4, <2>8, <2>10, StaysKeeps DEF Stays
<1>. QED
  BY <1>4, <1>5

LEMMA PurgeTurnKeeps == PsInv /\ PurgeTurn => PsInv'
<1>0. SUFFICES ASSUME PsInv, PurgeTurn PROVE PsInv'
  OBVIOUS
<1>1. PICK s \in pacer.left : pacer.at = "purge" /\ pacer' = Purge(pacer, s, wall)
  BY <1>0 DEF PurgeTurn
<1>2. UNCHANGED <<wall, posted, delayed, wanted>>
  BY <1>0 DEF PurgeTurn
<1>3. /\ wall \in Nat /\ delayed \in SUBSET Nat /\ Booked(pacer, wall) /\ Placed(pacer, wall)
      /\ (~pacer.shutdown => Awaited(pacer, delayed, wall))
  BY <1>0 DEF PsInv
<1>4. Booked(pacer', wall) /\ Placed(pacer', wall) /\ Stays(pacer', pacer) /\ (pacer'.at = "idle" => ~Running(pacer'))
  BY <1>1, <1>3, StreamPurged
<1>5. ~pacer.shutdown => Awaited(pacer', delayed', wall)
  BY <1>2, <1>3, <1>4 DEF Awaited, Stays
<1>. QED
  BY <1>0, <1>2, <1>3, <1>4, <1>5, StaysKeeps DEF Stays

\* A turn of the loops that send does not end them.
LEMMA TurnedKeeps ==
    ASSUME PsInv, UNCHANGED <<wall, posted, delayed, wanted>>, Turned(pacer', pacer, wall)
    PROVE  PsInv'
<1>1. delayed \in SUBSET Nat /\ (~pacer.shutdown => Awaited(pacer, delayed, wall))
  BY DEF PsInv
<1>2. ~pacer.shutdown => Awaited(pacer', delayed', wall)
  BY <1>1 DEF Awaited, Turned, Stays
<1>. QED
  BY <1>1, <1>2, StaysKeeps DEF Turned, Stays

LEMMA LoopTurnKeeps == PsInv /\ LoopTurn => PsInv'
<1>0. SUFFICES ASSUME PsInv, LoopTurn PROVE PsInv'
  OBVIOUS
<1>1. wall \in Nat /\ Booked(pacer, wall) /\ Placed(pacer, wall)
  BY <1>0 DEF PsInv
<1>2. /\ pacer.at = "test" /\ UNCHANGED <<wall, posted, delayed, wanted>>
      /\ pacer' = [ProcessPackets(pacer, wall) EXCEPT !.out = <<>>, !.turns = @ + 1]
  BY <1>0 DEF LoopTurn
<1>. QED
  BY <1>0, <1>1, <1>2, LoopTurns, TurnedKeeps

LEMMA SendTurnKeeps == PsInv /\ SendTurn => PsInv'
<1>0. SUFFICES ASSUME PsInv, SendTurn PROVE PsInv'
  OBVIOUS
<1>1. wall \in Nat /\ Booked(pacer, wall) /\ Placed(pacer, wall)
  BY <1>0 DEF PsInv
<1>2. /\ pacer.at = "send" /\ UNCHANGED <<wall, posted, delayed, wanted>>
      /\ pacer' = IF HasPending(pacer) THEN SendPacket(pacer, wall)
                  ELSE [AddPadding(pacer, wall) EXCEPT !.out = <<>>]
  BY <1>0 DEF SendTurn
<1>3. CASE HasPending(pacer)
  <2>1. pacer.q.size > 0
    BY <1>3 DEF HasPending
  <2>. QED
    BY <1>0, <1>1, <1>2, <1>3, <2>1, PacketSent, TurnedKeeps
<1>4. CASE ~HasPending(pacer)
  <2>1. PICK w : w = AddPadding(pacer, wall)
    OBVIOUS
  <2>2. Turned(w, pacer, wall)
    BY <1>1, <1>2, <2>1, PaddingSent
  <2>3. Booked(w, wall) /\ Placed(w, wall)
    BY <2>2 DEF Turned
  <2>4. pacer' = [w EXCEPT !.out = <<>>]
    BY <1>2, <1>4, <2>1
  <2>5. Booked(pacer', wall) /\ Placed(pacer', wall) /\ Stays(pacer', w) /\ pacer'.at = w.at
    BY <1>1, <2>3, <2>4, HandedOver
  <2>6. Turned(pacer', pacer, wall)
    BY <2>2, <2>5 DEF Turned, Stays
  <2>. QED
    BY <1>0, <1>2, <2>6, TurnedKeeps
<1>. QED
  BY <1>3, <1>4

LEMMA LoopEndKeeps == PsInv /\ LoopEnds => PsInv'
<1>0. SUFFICES ASSUME PsInv, LoopEnds PROVE PsInv'
  OBVIOUS
<1>1. /\ wall \in Nat /\ delayed \in SUBSET Nat /\ Booked(pacer, wall) /\ Placed(pacer, wall)
      /\ (~pacer.shutdown => Awaited(pacer, delayed, wall)) /\ pacer \in PacerType /\ QInv(pacer.q)
  BY <1>0 DEF PsInv, Booked
<1>2. PICK time : time = Most(NextSendTime(pacer), pacer.now + 1)
  OBVIOUS
<1>3. PICK next : next = IF ~pacer.shutdown /\ (pacer.next = None \/ pacer.next > time) THEN time ELSE pacer.next
  OBVIOUS
<1>4. /\ pacer.at = "test" /\ UNCHANGED <<wall, posted, wanted>>
      /\ pacer' = [pacer EXCEPT !.at = "idle", !.now = 0, !.turns = 0, !.out = <<>>, !.next = next]
      /\ delayed' = IF ~pacer.shutdown /\ (pacer.next = None \/ pacer.next > time)
                    THEN delayed \cup {time} ELSE delayed
  BY <1>0, <1>2, <1>3 DEF LoopEnds
<1>5. NextSendTime(pacer) \in Int /\ pacer.now \in 0..wall /\ pacer.next \in Int /\ pacer.started /\ pacer.ready
  BY <1>1, <1>4, SendTimeType DEF Placed, PacerType
<1>6. time \in Nat /\ time <= Most(NextSendTime(pacer), wall + 1) /\ Most(NextSendTime(pacer), wall + 1) \in Int
  BY <1>1, <1>2, <1>5 DEF Most
<1>7. PICK at \in {"idle", "purge", "test", "send"}, zero \in Int, none \in Seq(Packet) :
          at = "idle" /\ zero = 0 /\ none = <<>>
  <2>1. <<>> \in Seq(Packet) /\ 0 \in Int
    OBVIOUS
  <2>. QED
    BY <2>1, Zenon
<1>8. pacer' = [pacer EXCEPT !.at = at, !.now = zero, !.turns = zero, !.out = none, !.next = next]
  BY <1>4, <1>7, Zenon
<1>9. next \in Int
  BY <1>3, <1>5, <1>6
<1>10. pacer' \in PacerType
  BY <1>1, <1>8, <1>9 DEF PacerType
<1>11. /\ pacer'.at = at /\ pacer'.now = zero /\ pacer'.out = none /\ pacer'.next = next
       /\ pacer'.q = pacer.q /\ pacer'.paused = pacer.paused /\ pacer'.stood = pacer.stood
       /\ pacer'.ready = pacer.ready /\ pacer'.started = pacer.started /\ pacer'.shutdown = pacer.shutdown
       /\ pacer'.videoPaused = pacer.videoPaused /\ pacer'.pauseTime = pacer.pauseTime
  BY <1>1, <1>8 DEF PacerType
<1>12. /\ pacer'.sent = pacer.sent /\ pacer'.congested = pacer.congested /\ pacer'.seen = pacer.seen
       /\ pacer'.debt = pacer.debt /\ pacer'.padDebt = pacer.padDebt /\ pacer'.padRate = pacer.padRate
       /\ pacer'.processed = pacer.processed
  BY <1>1, <1>8 DEF PacerType
<1>13. NextSendTime(pacer') = NextSendTime(pacer)
  BY <1>11, <1>12 DEF NextSendTime
<1>14. Booked(pacer', wall)
  BY <1>1, <1>10, <1>11 DEF Booked
<1>15. Placed(pacer', wall)
  <2>1. Cut(pacer')
    BY <1>7, <1>11 DEF Cut, Range
  <2>2. 0 \in 0..wall
    BY <1>1
  <2>. QED
    BY <1>1, <1>5, <1>7, <1>11, <2>1, <2>2 DEF Placed
<1>16. delayed' \in SUBSET Nat
  BY <1>1, <1>4, <1>6
<1>17. ASSUME ~pacer.shutdown PROVE Awaited(pacer', delayed', wall)
  <2>1. next \in delayed' /\ next <= Most(NextSendTime(pacer), wall + 1)
    <3>1. CASE pacer.next = None \/ pacer.next > time
      BY <1>3, <1>4, <1>6, <1>17, <3>1
    <3>2. CASE ~(pacer.next = None \/ pacer.next > time)
      <4>1. next = pacer.next /\ delayed' = delayed /\ pacer.next \in delayed
        BY <1>1, <1>3, <1>4, <1>17, <3>2 DEF Awaited
      <4>2. pacer.next <= time
        BY <1>5, <1>6, <3>2
      <4>. QED
        BY <1>5, <1>6, <4>1, <4>2
    <3>. QED
      BY <3>1, <3>2
  <2>. QED
    BY <1>11, <1>13, <2>1 DEF Awaited
<1>. QED
  BY <1>0, <1>4, <1>11, <1>14, <1>15, <1>16, <1>17, StaysKeeps

\* A task is posted.
LEMMA Posts ==
    ASSUME PsInv, NEW task \in Tasks, Post(task), wanted' = wanted, task.op \notin {"pause", "transport"}
    PROVE  PsInv'
<1>1. /\ posted' = Append(posted, task) /\ pacer' = pacer /\ wall' = wall /\ delayed' = delayed
      /\ ~pacer.shutdown
  BY DEF Post
<1>2. /\ posted \in Seq(Tasks) /\ wanted.time \in Int
      /\ Pauses(posted, pacer.videoPaused, wanted.paused, wanted.time)
      /\ Transports(posted, pacer.ready)
  BY <1>1 DEF PsInv
<1>3. posted' \in Seq(Tasks)
  BY <1>1, <1>2, OfAppend
<1>4. wanted.time <= wanted.time
  BY <1>2
<1>5. Pauses(posted', pacer.videoPaused, wanted.paused, wanted.time)
  BY <1>1, <1>2, <1>4, PausesAppend
<1>6. Transports(posted', pacer.ready)
  BY <1>1, <1>2, TransportsAppend
<1>. QED
  BY <1>1, <1>3, <1>5, <1>6 DEF PsInv

LEMMA PostPacketKeeps == PsInv /\ PostPacket => PsInv'
<1>0. SUFFICES ASSUME PsInv, PostPacket PROVE PsInv'
  OBVIOUS
<1>1. PICK src \in Sources, cap \in 0..wall :
          /\ Post([op |-> "packet", pkt |-> [ssrc |-> src.ssrc, kind |-> src.kind, key |-> src.key,
                                             cap |-> cap, at |-> 0]])
          /\ wanted' = wanted
  BY <1>0 DEF PostPacket
<1>2. PICK pkt : pkt = [ssrc |-> src.ssrc, kind |-> src.kind, key |-> src.key, cap |-> cap, at |-> 0]
  OBVIOUS
<1>3. pkt \in Packet
  <2>1. src.ssrc \in Ssrcs /\ src.kind \in {"audio", "rtx", "video", "padding"} /\ src.key \in {"delta", "first", "rest"}
    BY PacerAssumption
  <2>2. cap \in Int /\ 0 \in Int
    OBVIOUS
  <2>. QED
    BY <1>2, <2>1, <2>2, Zenon DEF Packet
<1>4. PICK task : task = [op |-> "packet", pkt |-> pkt]
  OBVIOUS
<1>5. task \in [op : {"packet"}, pkt : Packet] /\ task.op = "packet"
  BY <1>3, <1>4
<1>6. task \in Tasks
  BY <1>5, Zenon DEF Tasks
<1>7. Post(task)
  BY <1>1, <1>2, <1>4
<1>. QED
  BY <1>0, <1>1, <1>5, <1>6, <1>7, Posts

LEMMA PostTransportKeeps == PsInv /\ PostTransport => PsInv'
<1>0. SUFFICES ASSUME PsInv, PostTransport PROVE PsInv'
  OBVIOUS
<1>1. PICK on \in BOOLEAN :
          /\ posted' = posted \o <<[op |-> "probes"], [op |-> "transport", on |-> on, rises |-> on /\ ~Ready]>>
          /\ UNCHANGED <<pacer, wall, delayed, wanted>> /\ ~pacer.shutdown
  BY <1>0 DEF PostTransport
<1>2. PICK rises \in BOOLEAN : rises = (on /\ ~Ready)
  OBVIOUS
<1>3. PICK first, task : first = [op |-> "probes"] /\ task = [op |-> "transport", on |-> on, rises |-> rises]
  OBVIOUS
<1>4. /\ first \in [op : {"probes"}] /\ first.op = "probes"
      /\ task \in [op : {"transport"}, on : BOOLEAN, rises : BOOLEAN] /\ task.op = "transport"
      /\ task.on = on /\ task.rises = rises
  BY <1>3
<1>5. first \in Tasks /\ task \in Tasks
  BY <1>4, Zenon DEF Tasks
<1>6. /\ posted \in Seq(Tasks) /\ wanted.time \in Int
      /\ Pauses(posted, pacer.videoPaused, wanted.paused, wanted.time)
      /\ Transports(posted, pacer.ready)
  BY <1>0, <1>1 DEF PsInv
<1>7. PICK half : half = Append(posted, first)
  OBVIOUS
<1>8. posted' = Append(half, task)
  <2>1. posted' = posted \o <<first, task>>
    BY <1>1, <1>2, <1>3, Zenon
  <2>2. <<first, task>> \in Seq(Tasks) /\ Len(<<first, task>>) = 2
    BY <1>5
  <2>3. posted \o <<first, task>> = Append(Append(posted, first), task)
    BY <1>5, <1>6, <2>2
  <2>. QED
    BY <1>7, <2>1, <2>3
<1>9. half \in Seq(Tasks) /\ Of(half, "transport") = Of(posted, "transport")
      /\ \A i \in Of(posted, "transport") : half[i] = posted[i]
  <2>1. /\ half \in Seq(Tasks) /\ Of(posted, "transport") \subseteq 1..Len(posted)
        /\ \A i \in 1..Len(posted) : half[i] = posted[i]
    BY <1>5, <1>6, <1>7, OfAppend
  <2>2. Of(half, "transport")
            = Of(posted, "transport") \cup (IF first.op = "transport" THEN {Len(posted) + 1} ELSE {})
    <3>1. \A op : Of(Append(posted, first), op)
                     = Of(posted, op) \cup (IF first.op = op THEN {Len(posted) + 1} ELSE {})
      BY <1>5, <1>6, OfAppend
    <3>. QED
      BY <1>7, <3>1, Zenon
  <2>3. first.op # "transport"
    BY <1>4
  <2>. QED
    BY <2>1, <2>2, <2>3
<1>10. posted' \in Seq(Tasks)
  BY <1>5, <1>8, <1>9, OfAppend
<1>11. wanted.time <= wanted.time
  BY <1>6
<1>12. Pauses(posted', pacer.videoPaused, wanted.paused, wanted.time)
  <2>1. Pauses(half, pacer.videoPaused, wanted.paused, wanted.time)
    BY <1>4, <1>5, <1>6, <1>7, <1>11, PausesAppend
  <2>. QED
    BY <1>4, <1>5, <1>6, <1>8, <1>9, <1>11, <2>1, PausesAppend
<1>13. Transports(posted', pacer.ready)
  <2>1. Transports(half, pacer.ready)
    BY <1>4, <1>5, <1>6, <1>7, TransportsAppend
  <2>2. Posted("transport") = Of(posted, "transport")
    BY DEF Posted, Of
  <2>3. task.op = "transport" /\ task.on /\ ~task.rises =>
            IF Of(posted, "transport") = {} THEN pacer.ready
            ELSE \E i \in Of(posted, "transport") : posted[i].on /\ \A j \in Of(posted, "transport") : j <= i
    <3>1. SUFFICES ASSUME task.on, ~task.rises PROVE Ready
      BY <2>2 DEF Ready
    <3>. QED
      BY <1>2, <1>4, <3>1
  <2>4. task.op = "transport" /\ task.on /\ ~task.rises =>
            IF Of(half, "transport") = {} THEN pacer.ready
            ELSE \E i \in Of(half, "transport") : half[i].on /\ \A j \in Of(half, "transport") : j <= i
    BY <1>9, <2>3
  <2>. QED
    BY <1>5, <1>8, <1>9, <2>1, <2>4, TransportsAppend
<1>. QED
  BY <1>0, <1>1, <1>10, <1>12, <1>13 DEF PsInv

LEMMA PostCongestedKeeps == PsInv /\ PostCongested => PsInv'
<1>0. SUFFICES ASSUME PsInv, PostCongested PROVE PsInv'
  OBVIOUS
<1>1. Post([op |-> "congested", on |-> ~pacer.congested]) /\ wanted' = wanted
  BY <1>0 DEF PostCongested
<1>2. PICK on \in BOOLEAN : on = ~pacer.congested
  OBVIOUS
<1>3. PICK task : task = [op |-> "congested", on |-> on]
  OBVIOUS
<1>4. task \in [op : {"congested", "rates"}, on : BOOLEAN] /\ task.op = "congested"
  BY <1>3
<1>5. task \in Tasks
  BY <1>4, Zenon DEF Tasks
<1>6. Post(task)
  BY <1>1, <1>2, <1>3, Zenon
<1>. QED
  BY <1>0, <1>1, <1>4, <1>5, <1>6, Posts

LEMMA PostRatesKeeps == PsInv /\ PostRates => PsInv'
<1>0. SUFFICES ASSUME PsInv, PostRates PROVE PsInv'
  OBVIOUS
<1>1. Post([op |-> "rates", on |-> ~pacer.padRate]) /\ wanted' = wanted
  BY <1>0 DEF PostRates
<1>2. PICK on \in BOOLEAN : on = ~pacer.padRate
  OBVIOUS
<1>3. PICK task : task = [op |-> "rates", on |-> on]
  OBVIOUS
<1>4. task \in [op : {"congested", "rates"}, on : BOOLEAN] /\ task.op = "rates"
  BY <1>3
<1>5. task \in Tasks
  BY <1>4, Zenon DEF Tasks
<1>6. Post(task)
  BY <1>1, <1>2, <1>3, Zenon
<1>. QED
  BY <1>0, <1>1, <1>4, <1>5, <1>6, Posts

LEMMA PostPauseKeeps == PsInv /\ PostPause => PsInv'
<1>0. SUFFICES ASSUME PsInv, PostPause PROVE PsInv'
  OBVIOUS
<1>1. /\ Post([op |-> "pause", on |-> ~wanted.paused, time |-> wall])
      /\ wanted' = [paused |-> ~wanted.paused, time |-> IF wanted.paused THEN wanted.time ELSE wall]
  BY <1>0 DEF PostPause
<1>2. PICK on \in BOOLEAN : on = ~wanted.paused
  OBVIOUS
<1>3. wall \in Nat /\ wanted.time \in Int /\ wanted.time <= wall /\ posted \in Seq(Tasks)
      /\ wanted.paused \in BOOLEAN /\ pacer.pauseTime <= wanted.time
  BY <1>0 DEF PsInv
<1>4. PICK task : task = [op |-> "pause", on |-> on, time |-> wall]
  OBVIOUS
<1>5. task \in [op : {"pause"}, on : BOOLEAN, time : Int] /\ task.op = "pause" /\ task.on = on /\ task.time = wall
  BY <1>3, <1>4
<1>6. task \in Tasks
  BY <1>5, Zenon DEF Tasks
<1>7. Post(task)
  BY <1>1, <1>2, <1>4, Zenon
<1>8. /\ posted' = Append(posted, task) /\ pacer' = pacer /\ wall' = wall /\ delayed' = delayed
      /\ ~pacer.shutdown
  BY <1>7 DEF Post
<1>9. /\ Pauses(posted, pacer.videoPaused, wanted.paused, wanted.time)
      /\ Transports(posted, pacer.ready)
  BY <1>0, <1>8 DEF PsInv
<1>10. posted' \in Seq(Tasks)
  BY <1>3, <1>6, <1>8, OfAppend
<1>11. Transports(posted', pacer.ready)
  BY <1>3, <1>5, <1>6, <1>8, <1>9, TransportsAppend
<1>12. wanted'.paused = on /\ wanted'.time = IF wanted.paused THEN wanted.time ELSE wall
  BY <1>1, <1>2
<1>13. wanted'.time \in Int /\ wanted.time <= wanted'.time /\ wanted'.time <= wall
       /\ (on => wanted'.time = wall)
  <2>1. CASE wanted.paused
    <3>1. wanted'.time = wanted.time /\ ~on
      BY <1>2, <1>12, <2>1
    <3>. QED
      BY <1>3, <3>1
  <2>2. CASE ~wanted.paused
    <3>1. wanted'.time = wall
      BY <1>12, <2>2
    <3>2. wanted'.time \in Int /\ wanted.time <= wanted'.time /\ wanted'.time <= wall
      BY <1>3, <3>1
    <3>. QED
      BY <3>1, <3>2
  <2>. QED
    BY <2>1, <2>2
<1>14. Pauses(posted', pacer.videoPaused, wanted'.paused, wanted'.time)
  <2>1. task.on = wanted'.paused /\ (task.on => task.time = wanted'.time)
    BY <1>5, <1>12, <1>13
  <2>. QED
    BY <1>3, <1>5, <1>6, <1>8, <1>9, <1>13, <2>1, PausesAppend
<1>15. pacer.pauseTime <= wanted'.time
  <2>1. pacer.pauseTime \in Int
    BY <1>0 DEF PsInv, Booked, PacerType
  <2>. QED
    BY <1>3, <1>13, <2>1
<1>16. wanted'.paused \in BOOLEAN
  BY <1>12
<1>. QED
  BY <1>0, <1>8, <1>10, <1>11, <1>13, <1>14, <1>15, <1>16 DEF PsInv

LEMMA ShutdownKeeps == PsInv /\ Shutdown => PsInv'
<1>0. SUFFICES ASSUME PsInv, Shutdown PROVE PsInv'
  OBVIOUS
<1>1. wall \in Nat /\ Booked(pacer, wall) /\ Placed(pacer, wall)
  BY <1>0 DEF PsInv
<1>2. /\ pacer' = [pacer EXCEPT !.shutdown = TRUE, !.out = <<>>]
      /\ UNCHANGED <<wall, posted, delayed, wanted>>
  BY <1>0 DEF Shutdown
<1>3. PICK w : w = [pacer EXCEPT !.out = <<>>]
  OBVIOUS
<1>4. Booked(w, wall) /\ Placed(w, wall) /\ Stays(w, pacer) /\ w.at = pacer.at
  BY <1>1, <1>3, HandedOver
<1>5. pacer \in PacerType /\ w \in PacerType
  BY <1>1, <1>4 DEF Booked
<1>6. pacer' = [w EXCEPT !.shutdown = TRUE]
  BY <1>2, <1>3, <1>5 DEF PacerType
<1>7. /\ pacer' \in PacerType /\ pacer'.shutdown = TRUE /\ pacer'.q = w.q /\ pacer'.paused = w.paused
      /\ pacer'.stood = w.stood /\ pacer'.at = w.at /\ pacer'.now = w.now /\ pacer'.out = w.out
      /\ pacer'.ready = w.ready /\ pacer'.started = w.started /\ pacer'.next = w.next
      /\ pacer'.pauseTime = w.pauseTime
  BY <1>5, <1>6 DEF PacerType
<1>8. Booked(pacer', wall) /\ Placed(pacer', wall)
  BY <1>4, <1>7 DEF Booked, Placed, Cut
<1>9. pacer'.pauseTime = pacer.pauseTime
  BY <1>4, <1>7 DEF Stays
<1>. QED
  BY <1>0, <1>2, <1>7, <1>8, <1>9 DEF PsInv

LEMMA PassTimeKeeps == PsInv /\ PsPassTime => PsInv'
<1>0. SUFFICES ASSUME PsInv, PsPassTime PROVE PsInv'
  OBVIOUS
<1>1. wall \in Nat /\ Booked(pacer, wall) /\ Placed(pacer, wall) /\ pacer \in PacerType
  BY <1>0 DEF PsInv, Booked
<1>2. /\ wall' = wall + 1 /\ ~pacer.shutdown /\ UNCHANGED <<posted, delayed, wanted>>
      /\ pacer' = [pacer EXCEPT !.out = <<>>, !.stood = IF pacer.paused THEN @ + 1 ELSE @]
  BY <1>0 DEF PsPassTime
<1>3. PICK w : w = [pacer EXCEPT !.out = <<>>]
  OBVIOUS
<1>4. /\ Booked(w, wall) /\ Placed(w, wall) /\ Stays(w, pacer) /\ w.at = pacer.at
      /\ NextSendTime(w) = NextSendTime(pacer) /\ w \in PacerType
  BY <1>1, <1>3, HandedOver DEF Booked
<1>5. PICK n \in Int : n = IF pacer.paused THEN pacer.stood + 1 ELSE pacer.stood
  BY <1>1 DEF PacerType
<1>6. pacer' = [w EXCEPT !.stood = n]
  <2>. DEFINE W(x) == [pacer EXCEPT !.out = <<>>, !.stood = x]
  <2>1. pacer' = W(IF pacer.paused THEN pacer.stood + 1 ELSE pacer.stood)
    BY <1>2, Zenon
  <2>2. W(n) = [w EXCEPT !.stood = n]
    BY <1>1, <1>3 DEF PacerType
  <2>. HIDE DEF W
  <2>. QED
    BY <1>5, <2>1, <2>2
<1>7. /\ pacer' \in PacerType /\ pacer'.stood = n /\ pacer'.q = w.q /\ pacer'.paused = w.paused
      /\ pacer'.at = w.at /\ pacer'.now = w.now /\ pacer'.out = w.out /\ Stays(pacer', w)
  BY <1>4, <1>6 DEF PacerType, Stays
<1>8. /\ pacer'.sent = w.sent /\ pacer'.congested = w.congested /\ pacer'.seen = w.seen
      /\ pacer'.debt = w.debt /\ pacer'.padDebt = w.padDebt /\ pacer'.padRate = w.padRate
      /\ pacer'.processed = w.processed
  BY <1>4, <1>6 DEF PacerType
<1>9. NextSendTime(pacer') = NextSendTime(pacer)
  <2>1. NextSendTime(pacer') = NextSendTime(w)
    BY <1>7, <1>8 DEF NextSendTime
  <2>. QED
    BY <1>4, <2>1
<1>10. Booked(pacer', wall + 1)
  <2>1. w.q = pacer.q /\ w.paused = pacer.paused /\ w.stood = pacer.stood
    BY <1>1, <1>3 DEF PacerType
  <2>2. w.q \in QueueType /\ w.stood \in Int
    BY <1>4 DEF PacerType
  <2>3. w.q.updated \in Int /\ w.q.pauseSum \in Int
    BY <2>2 DEF QueueType
  <2>4. /\ QInv(w.q) /\ w.q.updated <= wall /\ w.paused = w.q.paused
        /\ w.q.pauseSum + (IF w.q.paused THEN wall - w.q.updated ELSE 0) = w.stood
    BY <1>4 DEF Booked
  <2>5. w.q.updated <= wall + 1
    BY <1>1, <2>3, <2>4
  <2>6. w.q.pauseSum + (IF w.q.paused THEN (wall + 1) - w.q.updated ELSE 0) = n
    BY <1>1, <1>5, <2>1, <2>2, <2>3, <2>4
  <2>. QED
    BY <1>7, <2>4, <2>5, <2>6 DEF Booked
<1>11. Placed(pacer', wall + 1)
  <2>1. \A x : x \in 0..wall => x \in 0..(wall + 1)
    BY <1>1
  <2>. QED
    BY <1>4, <1>7, <2>1 DEF Placed, Stays, Cut
<1>12. Awaited(pacer', delayed, wall + 1)
  <2>1. Awaited(pacer, delayed, wall)
    BY <1>0, <1>2 DEF PsInv
  <2>2. pacer'.next = pacer.next /\ pacer'.at = pacer.at /\ (Running(pacer') <=> Running(pacer))
    BY <1>4, <1>7 DEF Stays, Running
  <2>3. pacer.next \in Int /\ NextSendTime(pacer) \in Int
    BY <1>1, SendTimeType DEF PacerType, Booked
  <2>4. pacer.next <= Most(NextSendTime(pacer), wall + 1) =>
            pacer.next <= Most(NextSendTime(pacer), (wall + 1) + 1)
    BY <1>1, <2>3 DEF Most
  <2>. QED
    BY <1>9, <2>1, <2>2, <2>4 DEF Awaited
<1>13. wanted.time <= wall + 1
  BY <1>0, <1>1 DEF PsInv
<1>14. /\ pacer'.pauseTime = pacer.pauseTime /\ pacer'.ready = pacer.ready
       /\ pacer'.videoPaused = pacer.videoPaused /\ pacer'.shutdown = pacer.shutdown
  BY <1>4, <1>7 DEF Stays
<1>15. wall + 1 \in Nat
  BY <1>1
<1>. QED
  BY <1>0, <1>2, <1>10, <1>11, <1>12, <1>13, <1>14, <1>15 DEF PsInv

LEMMA NewQueueBooks == QInv(NewQueue) /\ NewQueue.paused = FALSE /\ NewQueue.updated = 0 /\ NewQueue.pauseSum = 0
<1>1. PICK q : q = NewQueue
  OBVIOUS
<1>2. NoPackets \in [Levels -> Seq(Packet)] /\ \A l \in Levels : NoPackets[l] = <<>>
  BY DEF NoPackets
<1>3. PICK none \in Stream : none = NoStream
  <2>1. FALSE \in BOOLEAN /\ 0 \in Int
    OBVIOUS
  <2>. QED
    BY <1>2, <2>1, Zenon DEF NoStream, Stream
<1>4. none.here = FALSE /\ none.keys = 0 /\ none.at = NoPackets
  BY <1>3 DEF NoStream
<1>5. /\ q.streams = [s \in Ssrcs |-> none] /\ q.byPrio = [l \in Levels |-> <<>>] /\ q.top = -1
      /\ q.size = 0 /\ q.timeSum = 0 /\ q.pauseSum = 0 /\ q.updated = 0 /\ q.paused = FALSE /\ q.culled = 0
  BY <1>1, <1>3 DEF NewQueue
<1>6. q \in QueueType
  <2>1. [s \in Ssrcs |-> NoStream] \in [Ssrcs -> Stream]
    BY <1>3
  <2>2. [l \in Levels |-> <<>>] \in [Levels -> Seq(Ssrcs)]
    <3>1. <<>> \in Seq(Ssrcs)
      OBVIOUS
    <3>. QED
      BY <3>1
  <2>3. -1 \in Int /\ 0 \in Int /\ FALSE \in BOOLEAN
    OBVIOUS
  <2>. QED
    BY <1>1, <2>1, <2>2, <2>3, Zenon DEF NewQueue, QueueType
<1>7. \A s \in Ssrcs : q.streams[s] = none /\ \A l \in Levels : q.streams[s].at[l] = <<>>
  BY <1>2, <1>4, <1>5
<1>8. Filed(q)
  <2>1. \A s \in Ssrcs, l \in Levels : \A i \in 1..Len(q.streams[s].at[l]) : FALSE
    BY <1>7
  <2>. QED
    BY <1>4, <1>7, <2>1 DEF Filed
<1>9. \A l \in Levels : Busy(q, l) = {}
  BY <1>7 DEF Busy
<1>10. Lined(q)
  <2>1. \A l \in Levels : q.byPrio[l] = <<>>
    BY <1>5
  <2>2. LineOf(<<>>, {})
    BY DEF LineOf
  <2>. QED
    BY <1>9, <2>1, <2>2 DEF Lined
<1>11. Counted(Held(q), Age(q), q.size, KeyCounts(q), q.timeSum)
  <2>1. Held(q) \in Contents /\ Age(q) \in Int
        /\ \A s \in Ssrcs : Held(q)[s] = q.streams[s].at /\ KeyCounts(q)[s] = q.streams[s].keys
    BY <1>6, HeldType
  <2>2. \A s \in Ssrcs, l \in Levels : Held(q)[s][l] = <<>>
    BY <1>7, <2>1
  <2>3. \A s \in Ssrcs : KeyCounts(q)[s] = 0
    BY <1>4, <1>7, <2>1
  <2>4. Counted(Held(q), Age(q), 0, KeyCounts(q), 0)
    BY <2>1, <2>2, <2>3, PlacesNone
  <2>. QED
    BY <1>5, <2>4
<1>12. NoneBefore(q) /\ TopServed(q) /\ TopIdle(q)
  BY <1>5 DEF NoneBefore, TopServed, TopIdle
<1>13. QInv(q)
  BY <1>6, <1>8, <1>10, <1>11, <1>12 DEF QInv, QBooks
<1>. QED
  BY <1>1, <1>5, <1>13

LEMMA InitInv == PsInit => PsInv
<1>0. SUFFICES ASSUME PsInit PROVE PsInv
  OBVIOUS
<1>1. PICK q \in QueueType : q = NewQueue /\ QInv(q) /\ q.paused = FALSE /\ q.updated = 0 /\ q.pauseSum = 0
  BY NewQueueBooks DEF QInv, QBooks
<1>2. /\ pacer = NewPacer /\ wall = 0 /\ delayed = {}
      /\ posted = <<[op |-> "transport", on |-> TRUE, rises |-> TRUE]>>
      /\ wanted = [paused |-> FALSE, time |-> None]
  BY <1>0 DEF PsInit
<1>3. /\ pacer.q = q /\ pacer.paused = FALSE /\ pacer.stood = 0 /\ pacer.ready = FALSE /\ pacer.next = None
      /\ pacer.at = "idle" /\ pacer.now = 0 /\ pacer.out = <<>> /\ pacer.pauseTime = None
      /\ pacer.videoPaused = FALSE
  BY <1>1, <1>2 DEF NewPacer
<1>4. pacer \in PacerType
  <2>1. FALSE \in BOOLEAN /\ 0 \in Int /\ None \in Int /\ "idle" \in {"idle", "purge", "test", "send"}
        /\ {} \in SUBSET Ssrcs /\ <<>> \in Seq(Packet) /\ NewQueue \in QueueType
    BY <1>1 DEF None
  <2>. QED
    BY <1>2, <2>1, Zenon DEF NewPacer, PacerType
<1>5. Booked(pacer, wall)
  <2>1. q.updated <= 0 /\ q.pauseSum + 0 = 0
    BY <1>1
  <2>. QED
    BY <1>1, <1>2, <1>3, <1>4, <2>1 DEF Booked
<1>6. Placed(pacer, wall)
  <2>1. Cut(pacer)
    BY <1>3 DEF Cut, Range
  <2>. QED
    BY <1>2, <1>3, <2>1 DEF Placed
<1>7. PICK task : task = [op |-> "transport", on |-> TRUE, rises |-> TRUE]
  OBVIOUS
<1>8. task \in [op : {"transport"}, on : BOOLEAN, rises : BOOLEAN] /\ task.op = "transport" /\ task.rises = TRUE
  BY <1>7
<1>9. task \in Tasks
  BY <1>8, Zenon DEF Tasks
<1>10. posted \in Seq(Tasks) /\ Len(posted) = 1 /\ posted[1] = task
  BY <1>2, <1>7, <1>9
<1>11. Pauses(posted, pacer.videoPaused, wanted.paused, wanted.time)
  <2>1. Of(posted, "pause") = {}
    BY <1>8, <1>10 DEF Of
  <2>2. wanted.paused = FALSE
    BY <1>2
  <2>. QED
    BY <1>3, <2>1, <2>2 DEF Pauses
<1>12. Transports(posted, pacer.ready)
  <2>1. \A i \in Of(posted, "transport") : posted[i].rises
    BY <1>8, <1>10 DEF Of
  <2>. QED
    BY <2>1 DEF Transports
<1>13. Awaited(pacer, delayed, wall)
  BY <1>3 DEF Awaited, Running
<1>14. wanted.paused \in BOOLEAN /\ wanted.time = None /\ None \in Int /\ None <= 0 /\ None <= None
  BY <1>2 DEF None
<1>15. wall \in Nat /\ delayed \in SUBSET Nat
  BY <1>2
<1>. QED
  BY <1>2, <1>3, <1>5, <1>6, <1>10, <1>11, <1>12, <1>13, <1>14, <1>15 DEF PsInv

LEMMA Invariance == PsSpec => []PsInv
<1>1. PsInv /\ [PsNext]_psVars => PsInv'
  <2>1. CASE UNCHANGED psVars
    BY <2>1 DEF PsInv, psVars
  <2>. QED
    BY <2>1, RunPostedKeeps, RunDelayedKeeps, PurgeTurnKeeps, LoopTurnKeeps, SendTurnKeeps, LoopEndKeeps,
       PostPacketKeeps, PostTransportKeeps, PostCongestedKeeps, PostRatesKeeps, PostPauseKeeps,
       ShutdownKeeps, PassTimeKeeps DEF PsNext
<1>. QED
  BY <1>1, InitInv, PTL DEF PsSpec

-----------------------------------------------------------------------------
(* The theorems. *)

\* The level served is the first with packets.
LEMMA TopIsFirst ==
    ASSUME NEW q, QInv(q)
    PROVE  q.top = IF q.size = 0 THEN -1
                   ELSE Min({l \in Levels : \E s \in Ssrcs : q.streams[s].at[l] # <<>>})
<1>1. CASE q.size = 0
  BY <1>1 DEF QInv, TopIdle
<1>2. CASE q.size # 0
  <2>. DEFINE L == {l \in Levels : \E s \in Ssrcs : q.streams[s].at[l] # <<>>}
  <2>1. \A l \in Levels : l \in L <=> Busy(q, l) # {}
    BY DEF Busy
  <2>2. q.top \in L
    BY <1>2, <2>1 DEF QInv, TopServed
  <2>3. L \in SUBSET Levels /\ L # {}
    BY <2>2
  <2>4. Min(L) \in L /\ \A l \in L : Min(L) <= l
    BY <2>3, LeastLevel
  <2>5. \A l \in Levels : l < q.top => l \notin L
    BY <1>2, <2>1 DEF QInv, NoneBefore
  <2>6. q.top <= Min(L) /\ Min(L) <= q.top
    <3>1. q.top \in 0..4 /\ Min(L) \in 0..4
      BY <2>2, <2>4 DEF Levels
    <3>2. ~(Min(L) < q.top)
      BY <2>4, <2>5
    <3>. QED
      BY <2>2, <2>4, <3>1, <3>2
  <2>7. q.top \in Int /\ Min(L) \in Int
    BY <2>2, <2>4 DEF Levels
  <2>8. q.top = Min(L)
    BY <2>6, <2>7
  <2>. QED
    BY <1>2, <2>8
<1>. QED
  BY <1>1, <1>2

\* A line in which nobody stands twice, as the model says it.
LEMMA LineIsInjective ==
    ASSUME NEW line, NEW S, LineOf(line, S)
    PROVE  IsInjective(line) /\ Range(line) = S
<1>1. line \in Seq(Ssrcs) /\ DOMAIN line = 1..Len(line)
  BY DEF LineOf
<1>. QED
  BY <1>1 DEF LineOf, IsInjective, Range

LEMMA InvBooks == PsInv => QueueBooks
<1>0. SUFFICES ASSUME PsInv PROVE QueueBooks
  OBVIOUS
<1>1. PICK q : q = pacer.q
  OBVIOUS
<1>2. Booked(pacer, wall) /\ QInv(q)
  BY <1>0, <1>1 DEF PsInv, Booked
<1>3. q \in QueueType /\ Lined(q) /\ Counted(Held(q), Age(q), q.size, KeyCounts(q), q.timeSum)
  BY <1>2 DEF QInv, QBooks
<1>4. \A l \in Levels : IsInjective(q.byPrio[l]) /\ Range(q.byPrio[l]) = {s \in Ssrcs : q.streams[s].at[l] # <<>>}
  <2>1. SUFFICES ASSUME NEW l \in Levels
                 PROVE  IsInjective(q.byPrio[l]) /\ Range(q.byPrio[l]) = Busy(q, l)
    BY DEF Busy
  <2>2. LineOf(q.byPrio[l], Busy(q, l))
    BY <1>3 DEF Lined
  <2>. QED
    BY <2>2, LineIsInjective
<1>5. /\ Slots(q, Ssrcs) = Places(Held(q), Ssrcs)
      /\ \A x \in Slots(q, Ssrcs) : TimeInNonPausedState(q, PacketAt(q, x)) = Wait(Held(q), Age(q), x)
      /\ Waited(q, Ssrcs) = Units(Held(q), Age(q), Ssrcs)
  BY <1>3, Bridge
<1>6. /\ q.size = Cardinality(Slots(q, Ssrcs))
      /\ \A x \in Slots(q, Ssrcs) : TimeInNonPausedState(q, PacketAt(q, x)) >= 0
      /\ q.timeSum = Cardinality(Waited(q, Ssrcs))
  BY <1>3, <1>5 DEF Counted
<1>7. ASSUME NEW s \in Ssrcs
      PROVE  q.streams[s].keys = Cardinality({x \in Slots(q, {s}) : IsKey(PacketAt(q, x))})
  <2>1. {s} \in SUBSET Ssrcs
    OBVIOUS
  <2>2. Slots(q, {s}) = Places(Held(q), {s}) /\ \A x \in Slots(q, {s}) : PacketAt(q, x) = At(Held(q), x)
    BY <1>3, <2>1, Bridge
  <2>3. {x \in Slots(q, {s}) : IsKey(PacketAt(q, x))} = Keys(Held(q), s)
    BY <2>2 DEF Keys
  <2>4. q.streams[s].keys = KeyCounts(q)[s] /\ KeyCounts(q)[s] = Cardinality(Keys(Held(q), s))
    BY <1>3, HeldType DEF Counted
  <2>. QED
    BY <2>3, <2>4
<1>8. q.top = IF q.size = 0 THEN -1 ELSE Min({l \in Levels : \E s \in Ssrcs : q.streams[s].at[l] # <<>>})
  BY <1>2, TopIsFirst
<1>9. q.pauseSum + (IF q.paused THEN wall - q.updated ELSE 0) = pacer.stood
  BY <1>1, <1>2 DEF Booked
<1>. QED
  BY <1>1, <1>4, <1>6, <1>7, <1>8, <1>9, Zenon DEF QueueBooks

\* The books of PrioritizedPacketQueue agree with the packets in it after any
\* sequence of Push, Pop, SetPauseState, RemovePacketsForSsrc and culling, whatever
\* the streams, the packets and the times: the round robins, the level served, the
\* size, the counts of key frame packets by which the pacer decides to flush, and
\* the sum AverageQueueTime divides.
THEOREM QueueBooksHold == PsSpec => []QueueBooks
BY Invariance, InvBooks, PTL

\* MaybeProcessPackets always leaves a delayed task behind that is not later than
\* the pacer wants to send, and no task that then runs (losing and regaining the
\* path, a late delayed task, a pause) retires it without running the loop anew.
THEOREM TaskOnItsWay == PsSpec => []ProcessTaskOnItsWay
<1>1. PsInv => ProcessTaskOnItsWay
  <2>1. SUFFICES ASSUME PsInv, PacerIdle /\ pacer.started /\ pacer.ready /\ ~pacer.shutdown
                 PROVE  pacer.next \in delayed /\ pacer.next <= Most(NextSendTime(pacer), wall + 1)
    BY DEF ProcessTaskOnItsWay
  <2>2. Awaited(pacer, delayed, wall)
    BY <2>1 DEF PsInv
  <2>. QED
    BY <2>1, <2>2 DEF Awaited, Running, PacerIdle
<1>. QED
  BY <1>1, Invariance, PTL

\* The time of the pause changes only in a step that sends nothing.
LEMMA PauseTimeStands ==
    ASSUME PsInv, [PsNext]_psVars
    PROVE  pacer'.pauseTime = pacer.pauseTime \/ pacer'.out = <<>>
<1>0. wall \in Nat /\ Booked(pacer, wall) /\ Placed(pacer, wall) /\ pacer \in PacerType
  BY DEF PsInv, Booked
<1>1. CASE RunPosted
  <2>1. CASE pacer.shutdown
    BY <1>1, <2>1 DEF RunPosted
  <2>2. CASE ~pacer.shutdown
    <3>1. posted # <<>> /\ PacerIdle /\ pacer' = Perform([pacer EXCEPT !.out = <<>>], Head(posted), wall)
      BY <1>1, <2>2 DEF RunPosted
    <3>2. PICK p : Stays(p, pacer) /\ Performed(pacer', p, Head(posted), wall)
      BY <2>2, <3>1, TaskRuns
    <3>. QED
      BY <3>2 DEF Stays, Performed
  <2>. QED
    BY <2>1, <2>2
<1>2. CASE RunDelayed
  <2>1. PICK t \in delayed :
            pacer' = IF t # pacer.next \/ ~pacer.ready \/ pacer.shutdown THEN pacer
                     ELSE MaybeProcessPackets([pacer EXCEPT !.next = None], wall)
    BY <1>2 DEF RunDelayed
  <2>2. PICK w : w = [pacer EXCEPT !.next = None]
    OBVIOUS
  <2>3. w.pauseTime = pacer.pauseTime
    BY <1>0, <2>2 DEF PacerType
  <2>4. MaybeProcessPackets(w, wall).pauseTime = pacer.pauseTime
    <3>1. w \in [DOMAIN w -> {w[x] : x \in DOMAIN w}]
      BY <2>2
    <3>. QED
      BY <2>3, <3>1 DEF MaybeProcessPackets
  <2>. QED
    BY <2>1, <2>2, <2>4
<1>3. CASE PurgeTurn
  <2>1. PICK s \in pacer.left : pacer.at = "purge" /\ pacer' = Purge(pacer, s, wall)
    BY <1>3 DEF PurgeTurn
  <2>2. Stays(pacer', pacer)
    BY <1>0, <2>1, StreamPurged
  <2>. QED
    BY <2>2 DEF Stays
<1>4. CASE LoopTurn
  <2>1. Turned(pacer', pacer, wall)
    BY <1>0, <1>4, LoopTurns DEF LoopTurn
  <2>. QED
    BY <2>1 DEF Turned, Stays
<1>5. CASE SendTurn
  <2>1. CASE HasPending(pacer)
    <3>1. pacer.at = "send" /\ pacer.q.size > 0 /\ pacer' = SendPacket(pacer, wall)
      BY <1>5, <2>1 DEF SendTurn, HasPending
    <3>2. Turned(pacer', pacer, wall)
      BY <1>0, <3>1, PacketSent
    <3>. QED
      BY <3>2 DEF Turned, Stays
  <2>2. CASE ~HasPending(pacer)
    <3>1. PICK w : w = AddPadding(pacer, wall)
      OBVIOUS
    <3>2. pacer.at = "send" /\ pacer' = [w EXCEPT !.out = <<>>]
      BY <1>5, <2>2, <3>1 DEF SendTurn
    <3>3. Turned(w, pacer, wall)
      BY <1>0, <3>1, <3>2, PaddingSent
    <3>4. pacer'.out = <<>>
      BY <1>0, <3>2, <3>3, HandedOver DEF Turned
    <3>. QED
      BY <3>4
  <2>. QED
    BY <2>1, <2>2
<1>6. CASE LoopEnds
  <2>1. PICK x : pacer' = [pacer EXCEPT !.at = "idle", !.now = 0, !.turns = 0, !.out = <<>>, !.next = x]
    BY <1>6 DEF LoopEnds
  <2>2. pacer'.pauseTime = pacer.pauseTime
    BY <1>0, <2>1 DEF PacerType
  <2>. QED
    BY <2>2
<1>7. CASE PostPacket \/ PostTransport \/ PostCongested \/ PostRates \/ PostPause \/ UNCHANGED psVars
  <2>1. pacer' = pacer
    BY <1>7 DEF PostPacket, PostTransport, PostCongested, PostRates, PostPause, Post, psVars
  <2>. QED
    BY <2>1
<1>8. CASE Shutdown
  <2>1. pacer' = [pacer EXCEPT !.shutdown = TRUE, !.out = <<>>]
    BY <1>8 DEF Shutdown
  <2>2. pacer'.pauseTime = pacer.pauseTime
    BY <1>0, <2>1 DEF PacerType
  <2>. QED
    BY <2>2
<1>9. CASE PsPassTime
  <2>1. PICK x : pacer' = [pacer EXCEPT !.out = <<>>, !.stood = x]
    BY <1>9 DEF PsPassTime
  <2>2. pacer'.pauseTime = pacer.pauseTime
    BY <1>0, <2>1 DEF PacerType
  <2>. QED
    BY <2>2
<1>. QED
  BY <1>1, <1>2, <1>3, <1>4, <1>5, <1>6, <1>7, <1>8, <1>9 DEF PsNext

\* A packet that waits behind no pause, captured after the last one, is taken.
LEMMA CapturedAfterIsTaken ==
    ASSUME PsInv, RunPosted, Head(posted).op = "packet", ~pacer.shutdown, ~wanted.paused,
           Posted("pause") = {}, Head(posted).pkt.cap > wanted.time
    PROVE  pacer'.q.size > 0
<1>1. posted # <<>> /\ PacerIdle /\ pacer' = Perform([pacer EXCEPT !.out = <<>>], Head(posted), wall)
  BY DEF RunPosted
<1>2. PICK p : /\ Stays(p, pacer)
               /\ Head(posted).op = "packet" /\ ~DropsVideoPacket(p, Head(posted).pkt) => pacer'.q.size > 0
  BY <1>1, TaskRuns
<1>3. Pauses(posted, pacer.videoPaused, wanted.paused, wanted.time) /\ wanted.paused \in BOOLEAN
      /\ pacer.pauseTime <= wanted.time /\ wanted.time \in Int /\ pacer \in PacerType
  BY DEF PsInv, Booked
<1>4. Of(posted, "pause") = {}
  BY DEF Of, Posted
<1>5. ~pacer.videoPaused
  BY <1>3, <1>4 DEF Pauses
<1>6. Head(posted) \in Tasks
  BY <1>1, HeadTask
<1>7. Head(posted).pkt.cap \in Int
  BY <1>6, TaskIs DEF Packet
<1>8. pacer.pauseTime \in Int
  BY <1>3 DEF PacerType
<1>9. ~(Head(posted).pkt.cap <= pacer.pauseTime)
  BY <1>3, <1>7, <1>8
<1>10. ~DropsVideoPacket(p, Head(posted).pkt)
  BY <1>2, <1>5, <1>9 DEF DropsVideoPacket, Stays
<1>. QED
  BY <1>2, <1>10

\* Only running a task shortens the queue of tasks.
LEMMA ShortenedByRun ==
    ASSUME PsInv, [PsNext]_psVars, posted # <<>>, posted' = Tail(posted)
    PROVE  RunPosted
<1>1. posted \in Seq(Tasks)
  BY DEF PsInv
<1>2. Len(posted') = Len(posted) - 1 /\ Len(posted) \in Nat
  BY <1>1
<1>3. posted' # posted
  <2>1. SUFFICES ASSUME posted' = posted PROVE FALSE
    OBVIOUS
  <2>2. Len(posted') = Len(posted)
    BY <2>1, Zenon
  <2>. QED
    BY <1>2, <2>2
<1>4. ASSUME NEW task PROVE ~Post(task)
  <2>1. SUFFICES ASSUME Post(task) PROVE FALSE
    OBVIOUS
  <2>2. Len(posted') = Len(posted) + 1
    BY <1>1, <2>1 DEF Post
  <2>. QED
    BY <1>2, <2>2
<1>5. ~PostTransport
  <2>1. SUFFICES ASSUME PostTransport PROVE FALSE
    OBVIOUS
  <2>2. PICK on, rises : posted' = posted \o <<[op |-> "probes"], [op |-> "transport", on |-> on, rises |-> rises]>>
    BY <2>1 DEF PostTransport
  <2>3. PICK two : two = <<[op |-> "probes"], [op |-> "transport", on |-> on, rises |-> rises]>>
    OBVIOUS
  <2>4. two \in Seq(Range(two)) /\ Len(two) = 2
    BY <2>3 DEF Range
  <2>5. Len(posted') = Len(posted) + 2
    BY <1>1, <2>2, <2>3, <2>4
  <2>. QED
    BY <1>2, <2>5
<1>. QED
  BY <1>3, <1>4, <1>5 DEF PsNext, psVars, RunDelayed, PurgeTurn, LoopTurn, SendTurn, LoopEnds, PostPacket,
     PostCongested, PostRates, PostPause, Shutdown, PsPassTime

\* ShouldDropVideoPacket and the purge of SetVideoSendPaused cut video at the time
\* the controller asked for the pause, not at the time the task came to run: no
\* packet captured up to then is sent once it ran, and one captured later, posted
\* when no pause was pending, is queued, for any delay of the tasks in between.
THEOREM PauseCuts == PsSpec => PauseCutsExactly
<1>. DEFINE Exactly ==
        /\ \A pkt \in Range(pacer'.out) :
              pkt.kind # "audio" /\ pacer.pauseTime # None => pkt.cap > pacer.pauseTime
        /\ posted # <<>> /\ posted' = Tail(posted) /\ Head(posted).op = "packet"
              /\ ~pacer.shutdown /\ ~wanted.paused /\ Posted("pause") = {}
              /\ Head(posted).pkt.cap > wanted.time
           => pacer'.q.size > 0
<1>1. PsInv /\ PsInv' /\ [PsNext]_psVars => Exactly
  <2>0. SUFFICES ASSUME PsInv, PsInv', [PsNext]_psVars PROVE Exactly
    OBVIOUS
  <2>1. \A pkt \in Range(pacer'.out) :
            pkt.kind # "audio" /\ pacer.pauseTime # None => pkt.cap > pacer.pauseTime
    <3>1. CASE pacer'.pauseTime = pacer.pauseTime
      BY <2>0, <3>1 DEF PsInv, Placed, Cut
    <3>2. CASE pacer'.out = <<>>
      BY <3>2 DEF Range
    <3>. QED
      BY <2>0, <3>1, <3>2, PauseTimeStands
  <2>2. ASSUME posted # <<>>, posted' = Tail(posted), Head(posted).op = "packet",
               ~pacer.shutdown, ~wanted.paused, Posted("pause") = {},
               Head(posted).pkt.cap > wanted.time
        PROVE  pacer'.q.size > 0
    BY <2>0, <2>2, ShortenedByRun, CapturedAfterIsTaken
  <2>. QED
    BY <2>1, <2>2
<1>2. PsSpec => [][Exactly]_psVars
  BY <1>1, Invariance, PTL DEF PsSpec
<1>. QED
  BY <1>2 DEF PauseCutsExactly

=============================================================================
