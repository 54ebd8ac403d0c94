-------------------------- MODULE PunchRoundsProofs -------------------------
(***************************************************************************)
(* Proofs about PunchRounds, for any set of runtimes, even an infinite one,*)
(* any budgets and any limit of leases.                                    *)
(*                                                                         *)
(* A lease is taken in the step that leaves "idle" and given back in the   *)
(* step that enters "stopped", so LeasesAccountedFor is inductive together *)
(* with the types.  What needs an argument is the line: leaving it closes  *)
(* one gap, which is enough because nobody stands in it twice.             *)
(***************************************************************************)
EXTENDS PunchRounds, FiniteSetTheorems, TLAPS

Lives == {"allocating", "ready", "probing"}
Buckets == [tokens : Int, last : Int]
Waiters == [id : Runtimes, ack : BOOLEAN]
Schedules == [index : Int, pass : Int, start : Int]
Deadlines == [probe : Int, finish : Int]
Rounds ==
    [st : {"idle", "stopped"} \cup Lives, pool : BOOLEAN, retry : BOOLEAN, opened : Int,
     promoted : SUBSET Int, attempt : Int, draining : BOOLEAN, deadlines : Deadlines,
     schedule : Schedules, bucket : Buckets, attempts : Int, probes : Int, acks : Seq(Int),
     outstanding : SUBSET Int, turn : Int, at : Int]

Shareds == [active : SUBSET Runtimes, waiting : Seq(Waiters), limit : Nat, bucket : Buckets]

\* The runtimes that have to hold a lease.
Living == {r \in Runtimes : round[r].st \in Lives}

\* Nobody stands in the line twice, and only members of S do.
LineOf(line, S) ==
    \A i, j \in 1..Len(line) :
        /\ line[i].id \in S
        /\ line[i].id = line[j].id => i = j

\* The types of the state, and LeasesAccountedFor; only finitely many leases are out.
LInv ==
    /\ round \in [Runtimes -> Rounds] /\ shared \in Shareds /\ time \in Nat
    /\ IsFiniteSet(shared.active) /\ shared.active = Living
    /\ Cardinality(shared.active) <= shared.limit
    /\ LineOf(shared.waiting, shared.active)

-----------------------------------------------------------------------------
(***************************************************************************)
(* The line.                                                               *)
(***************************************************************************)

\* Two pieces of a line, joined.
LEMMA Joined ==
    ASSUME NEW a \in Seq(Waiters), NEW b \in Seq(Waiters)
    PROVE  /\ a \o b \in Seq(Waiters) /\ Len(a \o b) = Len(a) + Len(b)
           /\ \A k \in 1..(Len(a) + Len(b)) :
                (a \o b)[k] = IF k <= Len(a) THEN a[k] ELSE b[k - Len(a)]
OBVIOUS

\* Closing a gap leaves the others in the line, in their order.
LEMMA Gap ==
    ASSUME NEW line \in Seq(Waiters), NEW p \in 1..Len(line)
    PROVE  LET rest == SubSeq(line, 1, p - 1) \o SubSeq(line, p + 1, Len(line))
           IN  /\ rest \in Seq(Waiters) /\ Len(rest) = Len(line) - 1
               /\ \A k \in 1..Len(rest) : rest[k] = IF k < p THEN line[k] ELSE line[k + 1]
<1>1. PICK a : a = SubSeq(line, 1, p - 1)  OBVIOUS
<1>2. PICK b : b = SubSeq(line, p + 1, Len(line))  OBVIOUS
<1>3. a \in Seq(Waiters) /\ Len(a) = p - 1 /\ \A k \in 1..(p - 1) : a[k] = line[k]
  BY <1>1
<1>4. b \in Seq(Waiters) /\ Len(b) = Len(line) - p /\ \A k \in 1..(Len(line) - p) : b[k] = line[p + k]
  BY <1>2
<1>5. PICK rest : rest = a \o b  OBVIOUS
<1>6. Len(line) \in Nat /\ p \in Int
  OBVIOUS
<1>7. rest \in Seq(Waiters) /\ Len(rest) = Len(a) + Len(b)
  BY <1>3, <1>4, <1>5, Joined
<1>8. Len(rest) = Len(line) - 1
  BY <1>3, <1>4, <1>6, <1>7
<1>9. \A k \in 1..Len(rest) : rest[k] = IF k <= Len(a) THEN a[k] ELSE b[k - Len(a)]
  BY <1>3, <1>4, <1>5, <1>7, Joined
<1>10. ASSUME NEW k \in 1..Len(rest) PROVE rest[k] = IF k < p THEN line[k] ELSE line[k + 1]
  <2>1. CASE k < p
    BY <1>3, <1>6, <1>9, <2>1
  <2>2. CASE ~(k < p)
    <3>1. k - Len(a) \in 1..(Len(line) - p) /\ p + (k - Len(a)) = k + 1 /\ ~(k <= Len(a))
      BY <1>3, <1>6, <1>8, <2>2
    <3>. QED
      BY <1>4, <1>9, <2>2, <3>1
  <2>. QED
    BY <2>1, <2>2
<1>. QED
  BY <1>1, <1>2, <1>5, <1>7, <1>8, <1>10

\* Whoever leaves the line is no longer in it, and nobody else is touched.
LEMMA Leaving ==
    ASSUME NEW line \in Seq(Waiters), NEW S, LineOf(line, S), NEW r
    PROVE  Without(line, r) \in Seq(Waiters) /\ LineOf(Without(line, r), S \ {r})
<1>. DEFINE own == {i \in 1..Len(line) : line[i].id = r}
            rest == Without(line, r)
<1>1. CASE own = {}
  <2>1. rest = line
    BY <1>1 DEF Without
  <2>. QED
    BY <1>1, <2>1 DEF LineOf
<1>2. CASE own # {}
  <2>1. PICK p \in own : rest = SubSeq(line, 1, p - 1) \o SubSeq(line, p + 1, Len(line))
    BY <1>2 DEF Without
  <2>2. p \in 1..Len(line) /\ line[p].id = r
    BY <2>1
  <2>3. /\ rest \in Seq(Waiters) /\ Len(rest) = Len(line) - 1
        /\ \A k \in 1..Len(rest) : rest[k] = IF k < p THEN line[k] ELSE line[k + 1]
    BY <2>1, <2>2, Gap, ZenonT(40)
  <2>. HIDE DEF rest, own
  <2>. DEFINE Old(k) == IF k < p THEN k ELSE k + 1
  <2>4. Len(line) \in Nat /\ p \in Int
    BY <2>2
  <2>5. ASSUME NEW k \in 1..Len(rest)
        PROVE  Old(k) \in 1..Len(line) /\ Old(k) # p /\ rest[k] = line[Old(k)]
    BY <2>2, <2>3, <2>4
  <2>6. ASSUME NEW k \in 1..Len(rest) PROVE rest[k].id \in S \ {r}
    BY <2>2, <2>5 DEF LineOf
  <2>7. ASSUME NEW j \in 1..Len(rest), NEW k \in 1..Len(rest), rest[j].id = rest[k].id
        PROVE  j = k
    <3>1. Old(j) = Old(k)
      BY <2>5, <2>7 DEF LineOf
    <3>. QED
      BY <2>3, <2>4, <3>1
  <2>8. LineOf(rest, S \ {r})
    BY <2>6, <2>7 DEF LineOf
  <2>. QED
    BY <2>3, <2>8 DEF rest
<1>. QED
  BY <1>1, <1>2

\* Who asks stands in the line, once.
LEMMA Joining ==
    ASSUME NEW line \in Seq(Waiters), NEW S, LineOf(line, S), NEW r \in Runtimes, r \in S,
           NEW ack \in BOOLEAN
    PROVE  Queued(line, r, ack) \in Seq(Waiters) /\ LineOf(Queued(line, r, ack), S)
<1>0. [id |-> r, ack |-> ack] \in Waiters /\ [id |-> r, ack |-> ack].id = r
  BY Zenon DEF Waiters
<1>1. PICK w \in Waiters : w = [id |-> r, ack |-> ack] /\ w.id = r
  BY <1>0
<1>2. CASE \E i \in 1..Len(line) : line[i].id = r
  <2>1. PICK q : q = [i \in 1..Len(line) |-> IF line[i].id = r THEN w ELSE line[i]]
    OBVIOUS
  <2>2. Queued(line, r, ack) = q
    BY <1>1, <1>2, <2>1 DEF Queued
  <2>3. q \in Seq(Waiters) /\ Len(q) = Len(line)
    BY <1>1, <2>1
  <2>4. \A i \in 1..Len(q) : q[i].id = line[i].id
    BY <1>1, <2>1, <2>3
  <2>. QED
    BY <2>2, <2>3, <2>4 DEF LineOf
<1>3. CASE ~\E i \in 1..Len(line) : line[i].id = r
  <2>1. PICK q : q = Append(line, w)
    OBVIOUS
  <2>2. Queued(line, r, ack) = q
    BY <1>1, <1>3, <2>1 DEF Queued
  <2>3. /\ q \in Seq(Waiters) /\ Len(q) = Len(line) + 1
        /\ \A i \in 1..Len(line) : q[i] = line[i]
        /\ q[Len(line) + 1] = w
    BY <1>1, <2>1
  <2>. QED
    BY <1>1, <1>3, <2>2, <2>3 DEF LineOf
<1>. QED
  BY <1>2, <1>3

-----------------------------------------------------------------------------
(***************************************************************************)
(* The pieces of a runtime keep their types.                               *)
(***************************************************************************)
LEMMA Numbers ==
    /\ SharedBurst \in Nat /\ SharedRate \in Nat /\ Burst \in Nat /\ Rate \in Nat
    /\ PacketLimit \in Nat /\ AckReserve \in Nat /\ Endpoints \in Nat /\ Ports \in Nat
    /\ Passes \in Nat /\ PassGap \in Nat /\ PromotedLimit \in Nat /\ MaxAcks \in Nat
    /\ Duration \in Nat /\ FinishReserve \in Nat /\ RetrySlack \in Nat
    /\ Deadline \in Nat /\ MaxTicks \in Nat
BY RoundsCounts

\* A token is taken from a bucket that was refilled.
LEMMA TakenType ==
    ASSUME NEW b \in Buckets, NEW t \in Int, NEW rate \in Int, NEW burst \in Int
    PROVE  Taken(b, t, rate, burst) \in Buckets
<1>1. PICK n \in Int : n = Least(burst, b.tokens + (t - b.last) * rate)
  BY DEF Buckets, Least
<1>2. Refilled(b, t, rate, burst) = [tokens |-> n, last |-> t]
  BY <1>1 DEF Refilled
<1>3. Taken(b, t, rate, burst) = [tokens |-> n - 1, last |-> t]
  BY <1>2 DEF Taken
<1>. QED
  BY <1>1, <1>3 DEF Buckets

LEMMA DeadlinesType ==
    ASSUME NEW t \in Int
    PROVE  MakePunchDeadlines(t) \in Deadlines
BY Numbers DEF MakePunchDeadlines, Deadlines, NoDeadlines, Least

LEMMA IdleType ==
    ASSUME NEW b \in BOOLEAN
    PROVE  IdleRound(b) \in Rounds /\ IdleRound(b).st = "idle"
<1>1. NoSchedule \in Schedules /\ NoDeadlines \in Deadlines /\ [tokens |-> 0, last |-> 0] \in Buckets
  BY DEF NoSchedule, NoDeadlines, Schedules, Deadlines, Buckets
<1>2. 0 \in Int /\ {} \in SUBSET Int /\ <<>> \in Seq(Int) /\ FALSE \in BOOLEAN
  OBVIOUS
<1>. HIDE DEF NoSchedule, NoDeadlines
<1>. QED
  BY <1>1, <1>2, ZenonT(40) DEF IdleRound, Rounds

LEMMA HaltedType == Halted \in Rounds /\ Halted.st = "stopped"
<1>1. IdleRound(FALSE) \in Rounds
  BY IdleType
<1>. QED
  BY <1>1 DEF Halted, Rounds

\* Where a schedule stands after a target was served.
LEMMA CommittedType ==
    ASSUME NEW s \in Rounds
    PROVE  Committed(s) \in Rounds /\ Committed(s).st = s.st
<1>1. Targets(s) \in Int
  BY Numbers DEF Targets, Least, ProbeLimit, Rounds
<1>2. PICK begun \in Schedules :
        begun = [s.schedule EXCEPT !.start = IF s.schedule.index = 0 THEN s.at ELSE @]
  BY DEF Rounds, Schedules
<1>3. [begun EXCEPT !.index = @ + 1] \in Schedules
  BY DEF Schedules
<1>4. [index |-> 0, pass |-> begun.pass + 1, start |-> Greatest(begun.start + PassGap, s.at)]
         \in Schedules
  BY Numbers DEF Schedules, Greatest, Rounds
<1>5. PICK next \in Schedules : Committed(s) = [s EXCEPT !.schedule = next]
  BY <1>2, <1>3, <1>4 DEF Committed
<1>. QED
  BY <1>5 DEF Rounds

LEMMA EmittedType ==
    ASSUME NEW s \in Rounds, NEW ack \in BOOLEAN
    PROVE  Emitted(s, ack) \in Rounds /\ Emitted(s, ack).st = s.st /\ Emitted(s, ack).acks = s.acks
<1>1. s.bucket \in Buckets /\ s.at \in Int
  BY DEF Rounds
<1>2. PICK b \in Buckets : b = Taken(s.bucket, s.at, Rate, Burst)
  BY <1>1, TakenType, Numbers
<1>3. PICK n \in Int : n = IF ack THEN s.probes ELSE s.probes + 1
  BY DEF Rounds
<1>4. Emitted(s, ack) = [s EXCEPT !.bucket = b, !.attempts = @ + 1, !.probes = n]
  BY <1>2, <1>3 DEF Emitted, Rounds
<1>5. PICK m \in Int : m = s.attempts + 1
  BY DEF Rounds
<1>6. [s EXCEPT !.bucket = b, !.attempts = m, !.probes = n] \in Rounds
  BY ZenonT(40) DEF Rounds
<1>7. /\ [s EXCEPT !.bucket = b, !.attempts = m, !.probes = n].st = s.st
      /\ [s EXCEPT !.bucket = b, !.attempts = m, !.probes = n].acks = s.acks
  BY DEF Rounds
<1>. QED
  BY <1>4, <1>5, <1>6, <1>7

LEMMA PromotedType ==
    ASSUME NEW s \in Rounds, NEW e \in Int, NEW accepted \in BOOLEAN
    PROVE  Promoted(s, e, accepted) \in Rounds /\ Promoted(s, e, accepted).st = s.st
<1>1. [s EXCEPT !.promoted = @ \cup {e}] \in Rounds
      /\ [s EXCEPT !.promoted = @ \cup {e}].st = s.st
  BY DEF Rounds
<1>. QED
  BY <1>1, Zenon DEF Promoted

\* The loop of a Tick leaves everything but its turns alone.
LEMMA TurnsType ==
    ASSUME NEW s \in Rounds, NEW n \in Int, NEW t \in Int
    PROVE  [s EXCEPT !.turn = n, !.at = t] \in Rounds /\ [s EXCEPT !.turn = n, !.at = t].st = s.st
<1>1. [s EXCEPT !.turn = n, !.at = t] \in Rounds
  BY ZenonT(40) DEF Rounds
<1>2. [s EXCEPT !.turn = n, !.at = t].st = s.st
  BY DEF Rounds
<1>. QED
  BY <1>1, <1>2

LEMMA TurnedType ==
    ASSUME NEW s \in Rounds
    PROVE  /\ Rests(s) \in Rounds /\ Rests(s).st = s.st
           /\ Turned(s) \in Rounds /\ Turned(s).st = s.st
<1>1. Rests(s) \in Rounds /\ Rests(s).st = s.st
  <2>1. 0 \in Int
    OBVIOUS
  <2>. QED
    BY <2>1, TurnsType, Zenon DEF Rests
<1>2. PICK n \in Int : n = s.turn - 1
  BY DEF Rounds
<1>3. [s EXCEPT !.turn = n] \in Rounds /\ [s EXCEPT !.turn = n].st = s.st
  BY ZenonT(40) DEF Rounds
<1>4. Turned(s) = IF s.turn = 1 THEN Rests(s) ELSE [s EXCEPT !.turn = n]
  BY <1>2 DEF Turned
<1>. QED
  BY <1>1, <1>3, <1>4, Zenon

LEMMA TickingType ==
    ASSUME NEW s \in Rounds, NEW t \in Int
    PROVE  Ticking(s, t) \in Rounds /\ Ticking(s, t).st = s.st
<1>1. NoSchedule \in Schedules
  BY DEF NoSchedule, Schedules
<1>2. [s EXCEPT !.draining = TRUE, !.schedule = NoSchedule] \in Rounds
      /\ [s EXCEPT !.draining = TRUE, !.schedule = NoSchedule].st = s.st
  BY <1>1 DEF Rounds
<1>3. Drained(s, t) \in Rounds /\ Drained(s, t).st = s.st
  BY <1>2, Zenon DEF Drained
<1>4. Burst \in Int
  BY Numbers
<1>. QED
  BY <1>3, <1>4, TurnsType, Zenon DEF Ticking

LEMMA RetriedType ==
    ASSUME NEW s \in Rounds, NEW t \in Int
    PROVE  Retried(s, t) \in Rounds /\ Retried(s, t).st = s.st
<1>1. Schedule(t) \in Schedules /\ MakePunchDeadlines(t) \in Deadlines
  BY DeadlinesType DEF Schedule, Schedules
<1>0. 0 \in Int /\ 2 \in Int /\ FALSE \in BOOLEAN
  OBVIOUS
<1>2. Retried(s, t) \in Rounds
  BY <1>0, <1>1, ZenonT(60) DEF Retried, Rounds
<1>3. Retried(s, t).st = s.st
  BY DEF Retried, Rounds
<1>. QED
  BY <1>2, <1>3

-----------------------------------------------------------------------------
(***************************************************************************)
(* What a step does to a runtime and to the shared budget.                 *)
(***************************************************************************)
\* A runtime goes on in its life, or outside of it; the line changes as it may.
LEMMA GoesOn ==
    ASSUME LInv, NEW r \in Runtimes, NEW s \in Rounds,
           s.st \in Lives <=> round[r].st \in Lives,
           round' = [round EXCEPT ![r] = s], time' = time,
           shared' \in Shareds, shared'.active = shared.active, shared'.limit = shared.limit,
           LineOf(shared'.waiting, shared.active)
    PROVE  LInv'
<1>1. round' \in [Runtimes -> Rounds]
  BY DEF LInv
<1>2. Living' = Living
  BY DEF LInv, Living
<1>. QED
  BY <1>1, <1>2 DEF LInv

LEMMA BecomesKeeps ==
    ASSUME LInv, NEW r \in Runtimes, NEW s \in Rounds,
           s.st \in Lives <=> round[r].st \in Lives, Becomes(r, s)
    PROVE  LInv'
BY GoesOn DEF LInv, Becomes

\* A runtime that stops leaves no lease and no place behind.
LEMMA StopKeeps ==
    ASSUME LInv, NEW r \in Runtimes, RtStop(r)
    PROVE  LInv'
<1>1. /\ round' = [round EXCEPT ![r] = Halted] /\ time' = time
      /\ shared' = [shared EXCEPT !.active = @ \ {r}, !.waiting = Without(@, r)]
  BY DEF RtStop, Released
<1>2. /\ round \in [Runtimes -> Rounds] /\ shared \in Shareds /\ time \in Nat
      /\ IsFiniteSet(shared.active) /\ shared.active = Living
      /\ Cardinality(shared.active) <= shared.limit
      /\ LineOf(shared.waiting, shared.active)
  BY DEF LInv
<1>3. PICK line \in Seq(Waiters) :
        line = Without(shared.waiting, r) /\ LineOf(line, shared.active \ {r})
  BY <1>2, Leaving DEF Shareds
<1>4. /\ shared' \in Shareds /\ shared'.active = shared.active \ {r}
      /\ shared'.waiting = line /\ shared'.limit = shared.limit
  BY <1>1, <1>2, <1>3 DEF Shareds
<1>5. round' \in [Runtimes -> Rounds] /\ Living' = Living \ {r}
  BY <1>1, <1>2, HaltedType DEF Living, Lives
<1>6. IsFiniteSet(shared'.active) /\ Cardinality(shared'.active) <= shared'.limit
  <2>1. /\ IsFiniteSet(shared.active \ {r})
        /\ Cardinality(shared.active \ {r}) <= Cardinality(shared.active)
    BY <1>2, FS_Subset
  <2>2. Cardinality(shared.active \ {r}) \in Nat /\ Cardinality(shared.active) \in Nat
        /\ shared.limit \in Nat
    BY <1>2, <2>1, FS_CardinalityType DEF Shareds
  <2>. QED
    BY <1>2, <1>4, <2>1, <2>2
<1>. QED
  BY <1>1, <1>2, <1>3, <1>4, <1>5, <1>6
     DEF LInv

\* A packet is sent or has to wait: only the line and the tokens are touched.
LEMMA SendKeeps ==
    ASSUME LInv, NEW r \in Runtimes, NEW ack \in BOOLEAN, NEW sent \in Rounds,
           sent.st = round[r].st, Send(r, ack, sent)
    PROVE  LInv'
<1>0. /\ round \in [Runtimes -> Rounds] /\ shared \in Shareds /\ round[r] \in Rounds
      /\ shared.active = Living /\ LineOf(shared.waiting, shared.active)
      /\ shared.waiting \in Seq(Waiters) /\ shared.bucket \in Buckets
  BY DEF LInv, Shareds
<1>1. CASE ~MayEmit(round[r], ack)
  <2>1. Becomes(r, Rests(round[r]))
    BY <1>1 DEF Send
  <2>2. Rests(round[r]) \in Rounds /\ Rests(round[r]).st = round[r].st
    BY <1>0, TurnedType
  <2>. QED
    BY <2>1, <2>2, BecomesKeeps
<1>2. CASE MayEmit(round[r], ack)
  <2>0. r \in shared.active /\ time' = time /\ round[r].at \in Int
    BY <1>0, <1>2 DEF MayEmit, Living, Lives, Send, Rounds
  <2>1. CASE MayTake(r, ack, round[r].at)
    <3>1. /\ round' = [round EXCEPT ![r] = sent]
          /\ shared' = [shared EXCEPT !.waiting = Without(@, r),
                                      !.bucket = Taken(@, round[r].at, SharedRate, SharedBurst)]
      BY <1>2, <2>1 DEF Send, Take
    <3>2. PICK b \in Buckets : b = Taken(shared.bucket, round[r].at, SharedRate, SharedBurst)
      <4>1. SharedRate \in Int /\ SharedBurst \in Int
        BY Numbers
      <4>. QED
        BY <1>0, <2>0, <4>1, TakenType
    <3>3. PICK line \in Seq(Waiters) :
            line = Without(shared.waiting, r) /\ LineOf(line, shared.active \ {r})
      BY <1>0, Leaving
    <3>4. /\ shared' \in Shareds /\ shared'.active = shared.active
          /\ shared'.limit = shared.limit /\ shared'.waiting = line
      <4>1. shared' = [shared EXCEPT !.waiting = line, !.bucket = b]
        BY <3>1, <3>2, <3>3
      <4>2. [shared EXCEPT !.waiting = line, !.bucket = b] \in Shareds
        BY <1>0, ZenonT(40) DEF Shareds
      <4>. QED
        BY <1>0, <4>1, <4>2 DEF Shareds
    <3>5. LineOf(line, shared.active)
      BY <3>3 DEF LineOf
    <3>. QED
      BY <2>0, <3>1, <3>4, <3>5, GoesOn
  <2>2. CASE ~MayTake(r, ack, round[r].at)
    <3>1. /\ round' = [round EXCEPT ![r] = Rests(round[r])]
          /\ shared' = [shared EXCEPT !.waiting = Queued(@, r, ack)]
      BY <1>2, <2>2 DEF Send, Queue
    <3>2. PICK line \in Seq(Waiters) :
            line = Queued(shared.waiting, r, ack) /\ LineOf(line, shared.active)
      BY <1>0, <2>0, Joining
    <3>3. /\ shared' \in Shareds /\ shared'.active = shared.active
          /\ shared'.limit = shared.limit /\ shared'.waiting = line
      BY <1>0, <3>1, <3>2 DEF Shareds
    <3>4. Rests(round[r]) \in Rounds /\ Rests(round[r]).st = round[r].st
      BY <1>0, TurnedType
    <3>. QED
      BY <2>0, <3>1, <3>2, <3>3, <3>4, GoesOn
  <2>. QED
    BY <2>1, <2>2
<1>. QED
  BY <1>1, <1>2

-----------------------------------------------------------------------------
(***************************************************************************)
(* Every step.                                                             *)
(***************************************************************************)
LEMMA PrepareKeeps ==
    ASSUME LInv, NEW r \in Runtimes, NEW drawn \in BOOLEAN, RtPrepare(r, drawn)
    PROVE  LInv'
<1>1. CASE RtStop(r)
  BY <1>1, StopKeeps
<1>2. CASE /\ ~(Cardinality(shared.active) >= shared.limit)
           /\ shared' = [shared EXCEPT !.active = @ \cup {r}]
           /\ round' = [round EXCEPT ![r].st = "allocating", ![r].pool = r \in Pools]
           /\ UNCHANGED time
  <2>1. /\ round \in [Runtimes -> Rounds] /\ shared \in Shareds /\ time \in Nat
        /\ IsFiniteSet(shared.active) /\ shared.active = Living
        /\ LineOf(shared.waiting, shared.active) /\ round[r].st = "idle" /\ round[r] \in Rounds
    BY DEF LInv, RtPrepare, At
  <2>2. PICK s \in Rounds : s.st = "allocating" /\ round' = [round EXCEPT ![r] = s]
    <3>1. PICK s : s = [round[r] EXCEPT !.st = "allocating", !.pool = r \in Pools]
      OBVIOUS
    <3>2. s \in Rounds /\ s.st = "allocating"
      <4>1. (r \in Pools) \in BOOLEAN /\ "allocating" \in {"idle", "stopped"} \cup Lives
        BY DEF Lives
      <4>. QED
        BY <2>1, <3>1, <4>1, ZenonT(40) DEF Rounds
    <3>3. round' = [round EXCEPT ![r] = s]
      BY <1>2, <2>1, <3>1
    <3>. QED
      BY <3>2, <3>3
  <2>3. round' \in [Runtimes -> Rounds] /\ Living' = Living \cup {r} /\ r \notin Living
    BY <2>1, <2>2 DEF Living, Lives
  <2>4. /\ shared' \in Shareds /\ shared'.active = shared.active \cup {r}
        /\ shared'.waiting = shared.waiting /\ shared'.limit = shared.limit
    BY <1>2, <2>1 DEF Shareds
  <2>5. IsFiniteSet(shared'.active) /\ Cardinality(shared'.active) <= shared'.limit
    <3>1. Cardinality(shared.active) \in Nat /\ shared.limit \in Nat
      BY <2>1, FS_CardinalityType DEF Shareds
    <3>2. /\ IsFiniteSet(shared.active \cup {r})
          /\ Cardinality(shared.active \cup {r}) = Cardinality(shared.active) + 1
      BY <2>1, <2>3, FS_AddElement
    <3>. QED
      BY <1>2, <2>4, <3>1, <3>2
  <2>6. LineOf(shared'.waiting, shared'.active)
    BY <2>1, <2>4 DEF LineOf
  <2>. QED
    BY <1>2, <2>1, <2>3, <2>4, <2>5, <2>6
       DEF LInv
<1>. QED
  BY <1>1, <1>2 DEF RtPrepare

LEMMA PrepareBatchKeeps ==
    ASSUME LInv, NEW r \in Runtimes, NEW n \in 1..Endpoints, RtPrepareBatch(r, n)
    PROVE  LInv'
<1>1. round[r] \in Rounds /\ round[r].st = "allocating"
  BY DEF LInv, RtPrepareBatch, At
<1>2. PICK s : /\ s = [round[r] EXCEPT !.opened = round[r].opened + n,
                          !.st = IF round[r].opened + n = (IF round[r].pool THEN Endpoints ELSE 1)
                                 THEN "ready" ELSE "allocating"]
               /\ Becomes(r, s)
  BY DEF RtPrepareBatch
<1>3. n \in Int /\ round[r].opened + n \in Int
  BY <1>1, Numbers DEF Rounds
<1>4. s \in Rounds /\ s.st \in Lives
  BY <1>1, <1>2, <1>3 DEF Rounds, Lives
<1>. QED
  BY <1>1, <1>2, <1>4, BecomesKeeps DEF Lives

LEMMA StartKeeps ==
    ASSUME LInv, NEW r \in Runtimes, NEW valid \in BOOLEAN, RtStart(r, valid)
    PROVE  LInv'
<1>1. CASE RtStop(r)
  BY <1>1, StopKeeps
<1>2. CASE Becomes(r, [round[r] EXCEPT !.st = "probing", !.attempt = 1,
                         !.deadlines = MakePunchDeadlines(time), !.schedule = Schedule(time),
                         !.bucket = [tokens |-> Burst, last |-> time]])
  <2>1. round[r] \in Rounds /\ round[r].st = "ready" /\ time \in Int
    BY DEF LInv, RtStart, At
  <2>2. /\ MakePunchDeadlines(time) \in Deadlines /\ Schedule(time) \in Schedules
        /\ [tokens |-> Burst, last |-> time] \in Buckets
    BY <2>1, DeadlinesType, Numbers DEF Schedule, Schedules, Buckets
  <2>3. PICK d \in Deadlines, sch \in Schedules, b \in Buckets :
          Becomes(r, [round[r] EXCEPT !.st = "probing", !.attempt = 1, !.deadlines = d,
                                      !.schedule = sch, !.bucket = b])
    BY <1>2, <2>2
  <2>4. PICK s : s = [round[r] EXCEPT !.st = "probing", !.attempt = 1, !.deadlines = d,
                                      !.schedule = sch, !.bucket = b]
    OBVIOUS
  <2>5. s \in Rounds
    <3>1. 1 \in Int /\ "probing" \in {"idle", "stopped"} \cup Lives
      BY DEF Lives
    <3>. QED
      BY <2>1, <2>4, <3>1, ZenonT(60) DEF Rounds
  <2>6. s.st = "probing"
    BY <2>1, <2>4 DEF Rounds
  <2>. QED
    BY <2>1, <2>3, <2>4, <2>5, <2>6, BecomesKeeps DEF Lives
<1>. QED
  BY <1>1, <1>2 DEF RtStart

LEMMA TickKeeps ==
    ASSUME LInv, NEW r \in Runtimes, NEW retriable \in BOOLEAN, RtTick(r, retriable)
    PROVE  LInv'
<1>1. round[r] \in Rounds /\ time \in Int
  BY DEF LInv
<1>2. CASE RtStop(r)
  BY <1>2, StopKeeps
<1>3. CASE Becomes(r, Ticking(round[r], time))
  BY <1>1, <1>3, BecomesKeeps, TickingType
<1>4. CASE Becomes(r, Ticking(Retried(round[r], time), time))
  <2>1. Retried(round[r], time) \in Rounds /\ Retried(round[r], time).st = round[r].st
    BY <1>1, RetriedType
  <2>. QED
    BY <1>1, <1>4, <2>1, BecomesKeeps, TickingType
<1>. QED
  BY <1>2, <1>3, <1>4 DEF RtTick

LEMMA SendAckKeeps ==
    ASSUME LInv, NEW r \in Runtimes, NEW accepted \in BOOLEAN, RtSendAck(r, accepted)
    PROVE  LInv'
<1>1. round[r] \in Rounds /\ round[r].acks \in Seq(Int) /\ round[r].acks # <<>>
  BY DEF LInv, RtSendAck, Rounds
<1>2. PICK s \in Rounds : s = Emitted(round[r], TRUE) /\ s.st = round[r].st /\ s.acks = round[r].acks
  BY <1>1, EmittedType
<1>3. Tail(round[r].acks) \in Seq(Int) /\ Head(round[r].acks) \in Int
  BY <1>1
<1>4. PICK q \in Rounds : q = [s EXCEPT !.acks = Tail(@)] /\ q.st = s.st
  <2>1. PICK rest \in Seq(Int) : rest = Tail(s.acks)
    BY <1>2, <1>3
  <2>2. [s EXCEPT !.acks = rest] \in Rounds /\ [s EXCEPT !.acks = rest].st = s.st
    BY ZenonT(40) DEF Rounds
  <2>. QED
    BY <2>1, <2>2
<1>5. PICK u \in Rounds : u = Promoted(q, Head(round[r].acks), accepted) /\ u.st = q.st
  BY <1>3, <1>4, PromotedType
<1>6. PICK v \in Rounds : v = Turned(u) /\ v.st = u.st
  BY <1>5, TurnedType
<1>7. Send(r, TRUE, v)
  BY <1>2, <1>4, <1>5, <1>6 DEF RtSendAck
<1>. QED
  BY <1>2, <1>4, <1>5, <1>6, <1>7, SendKeeps

LEMMA SendProbeKeeps ==
    ASSUME LInv, NEW r \in Runtimes, RtSendProbe(r)
    PROVE  LInv'
<1>1. round[r] \in Rounds
  BY DEF LInv
<1>2. CASE Becomes(r, Rests(round[r]))
  BY <1>1, <1>2, BecomesKeeps, TurnedType
<1>3. CASE Becomes(r, Turned(Committed(round[r])))
  BY <1>1, <1>3, BecomesKeeps, TurnedType, CommittedType
<1>4. CASE Send(r, FALSE, Turned(Committed(
             [Emitted(round[r], FALSE) EXCEPT
                !.outstanding = IF round[r].pool THEN @ \cup {round[r].schedule.index + 1} ELSE @])))
  <2>1. PICK s \in Rounds : s = Emitted(round[r], FALSE) /\ s.st = round[r].st
    BY <1>1, EmittedType
  <2>2. round[r].schedule.index + 1 \in Int
    <3>1. round[r].schedule \in Schedules
      BY <1>1 DEF Rounds
    <3>2. round[r].schedule.index \in Int
      BY <3>1 DEF Schedules
    <3>. QED
      BY <3>2
  <2>3. PICK q : q = [s EXCEPT
           !.outstanding = IF round[r].pool THEN @ \cup {round[r].schedule.index + 1} ELSE @]
    OBVIOUS
  <2>4. q \in Rounds /\ q.st = s.st
    BY <2>1, <2>2, <2>3 DEF Rounds
  <2>5. PICK u \in Rounds : u = Turned(Committed(q)) /\ u.st = q.st
    BY <2>4, TurnedType, CommittedType
  <2>6. Send(r, FALSE, u)
    BY <1>4, <2>1, <2>3, <2>5
  <2>. QED
    BY <2>1, <2>4, <2>5, <2>6, SendKeeps
<1>. QED
  BY <1>2, <1>3, <1>4 DEF RtSendProbe

LEMMA ProbeArrivesKeeps ==
    ASSUME LInv, NEW r \in Runtimes, NEW e \in 1..Endpoints, RtProbeArrives(r, e)
    PROVE  LInv'
<1>1. round[r] \in Rounds /\ e \in Int
  BY Numbers DEF LInv
<1>2. PICK s : s = [round[r] EXCEPT !.acks = Append(@, e)] /\ Becomes(r, s)
  BY DEF RtProbeArrives
<1>3. s \in Rounds /\ s.st = round[r].st
  <2>0. round[r].acks \in Seq(Int)
    BY <1>1 DEF Rounds
  <2>1. \A a \in Seq(Int) : \A x \in Int : Append(a, x) \in Seq(Int)
    OBVIOUS
  <2>2. PICK q \in Seq(Int) : q = Append(round[r].acks, e)
    BY <1>1, <2>0, <2>1
  <2>3. [round[r] EXCEPT !.acks = q] \in Rounds /\ [round[r] EXCEPT !.acks = q].st = round[r].st
    BY <1>1, ZenonT(40) DEF Rounds
  <2>. QED
    BY <1>2, <2>2, <2>3
<1>. QED
  BY <1>2, <1>3, BecomesKeeps

LEMMA AckArrivesKeeps ==
    ASSUME LInv, NEW r \in Runtimes, NEW target \in 1..Endpoints, NEW accepted \in BOOLEAN,
           RtAckArrives(r, target, accepted)
    PROVE  LInv'
<1>1. round[r] \in Rounds /\ target \in Int
  BY Numbers DEF LInv
<1>2. PICK s : s = [round[r] EXCEPT !.outstanding = @ \ {target}]
               /\ Becomes(r, Promoted(s, target, accepted))
  BY DEF RtAckArrives
<1>3. s \in Rounds /\ s.st = round[r].st
  BY <1>1, <1>2 DEF Rounds
<1>. QED
  BY <1>1, <1>2, <1>3, BecomesKeeps, PromotedType

LEMMA LeasesInitially == PrInit => LInv
<1>. SUFFICES ASSUME PrInit PROVE LInv
  OBVIOUS
<1>1. PICK retry \in [Runtimes -> RetryModes] : round = [r \in Runtimes |-> IdleRound(retry[r])]
  BY DEF PrInit
<1>2. PICK limit \in LeaseLimits :
        shared = [active |-> {}, waiting |-> <<>>, limit |-> limit,
                  bucket |-> [tokens |-> SharedBurst, last |-> 0]]
  BY DEF PrInit
<1>3. \A r \in Runtimes : round[r] \in Rounds /\ round[r].st = "idle"
  BY <1>1, IdleType, RoundsCounts
<1>4. round \in [Runtimes -> Rounds] /\ Living = {}
  BY <1>1, <1>3 DEF Living, Lives
<1>5. shared \in Shareds /\ shared.active = {} /\ shared.waiting = <<>> /\ shared.limit \in Nat
  <2>1. [tokens |-> SharedBurst, last |-> 0] \in Buckets /\ <<>> \in Seq(Waiters) /\ limit \in Nat
    BY Numbers, RoundsCounts DEF Buckets
  <2>. QED
    BY <1>2, <2>1 DEF Shareds
<1>6. LineOf(shared.waiting, shared.active)
  BY <1>5 DEF LineOf
<1>. QED
  BY <1>4, <1>5, <1>6, FS_EmptySet DEF LInv, PrInit

LEMMA LeasesKept == LInv /\ [PrNext]_prVars => LInv'
<1>. SUFFICES ASSUME LInv, [PrNext]_prVars PROVE LInv'
  OBVIOUS
<1>1. CASE PrClock
  <2>1. round' = round /\ shared' = shared /\ time' \in Nat
    BY <1>1 DEF LInv, PrClock
  <2>. QED
    BY <2>1 DEF LInv, Living, LineOf
<1>2. CASE UNCHANGED prVars
  BY <1>2 DEF prVars, LInv, Living, LineOf
<1>3. ASSUME NEW r \in Runtimes, RtStep(r) PROVE LInv'
  <2>1. CASE RtPrepareFails(r) \/ RtPrepareBatchFails(r) \/ RtGone(r)
    BY <2>1, StopKeeps DEF RtPrepareFails, RtPrepareBatchFails, RtGone
  <2>2. CASE \E drawn \in BOOLEAN : RtPrepare(r, drawn)
    BY <2>2, PrepareKeeps
  <2>3. CASE \E n \in 1..Endpoints : RtPrepareBatch(r, n)
    BY <2>3, PrepareBatchKeeps
  <2>4. CASE \E valid \in BOOLEAN : RtStart(r, valid)
    BY <2>4, StartKeeps
  <2>5. CASE \E retriable \in BOOLEAN : RtTick(r, retriable)
    BY <2>5, TickKeeps
  <2>6. CASE RtSends(r)
    BY <2>6, SendAckKeeps, SendProbeKeeps DEF RtSends
  <2>7. CASE RtIdle(r)
    BY <1>2, <2>7 DEF RtIdle
  <2>8. CASE \E e \in 1..Endpoints : RtProbeArrives(r, e)
    BY <2>8, ProbeArrivesKeeps
  <2>9. CASE \E target \in 1..Endpoints, accepted \in BOOLEAN : RtAckArrives(r, target, accepted)
    BY <2>9, AckArrivesKeeps
  <2>. QED
    BY <1>3, <2>1, <2>2, <2>3, <2>4, <2>5, <2>6, <2>7, <2>8, <2>9 DEF RtStep
<1>. QED
  BY <1>1, <1>2, <1>3 DEF PrNext

\* However the preparations, ticks, retries and ends of the rounds of a process
\* interleave, the leases of the shared budget are those of the runtimes that
\* live, never more than the limit, and only their holders stand in the line of
\* PunchProcessBudget, each once.
THEOREM LeasesAreAccountedFor == PrSpec => []LeasesAccountedFor
<1>1. LInv => LeasesAccountedFor
  BY DEF LInv, LeasesAccountedFor, Living, Lives, LineOf
<1>. QED
  BY <1>1, LeasesInitially, LeasesKept, PTL DEF PrSpec
=============================================================================
