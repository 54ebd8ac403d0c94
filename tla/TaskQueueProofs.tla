-------------------------- MODULE TaskQueueProofs ---------------------------
(***************************************************************************)
(* Proofs about TaskQueue, for any posting threads, delays and bounds.     *)
(*                                                                         *)
(* NoLostWakeup is inductive given the types.  SamePosterInOrder is not:   *)
(* that a thread's undelayed tasks leave the queue in order rests on their *)
(* times being in order (InOrder), which rests on the clock having been    *)
(* read before each of them was queued (Past).                             *)
(***************************************************************************)
EXTENDS TaskQueue, TLAPS

\* An undelayed task is due, and no later than the one its thread is posting.
Past ==
    /\ \A t \in queue : t.delay = 0 =>
         /\ t.at <= now
         /\ poster[t.by].posting => t.at <= poster[t.by].at
    /\ \A p \in Posters :
         /\ started[p] <= next
         /\ poster[p].posting /\ poster[p].delay = 0 => poster[p].at <= now

\* The undelayed tasks of one thread are due in the order they were posted.
InOrder ==
    \A t, u \in queue :
        t.by = u.by /\ t.delay = 0 /\ u.delay = 0 /\ t.seq < u.seq => t.at <= u.at

IInv == TypeOK /\ NoLostWakeup /\ SamePosterInOrder /\ Past /\ InOrder

LEMMA TimesAreNat == Times \subseteq Nat /\ 0 \in Times
BY BoundsAssumption DEF Times

LEMMA TaskFacts ==
    ASSUME NEW t \in Tasks
    PROVE  t.at \in Nat /\ t.at \in Times /\ t.seq \in Nat /\ t.by \in Posters /\ t.delay \in Nat
BY TimesAreNat DEF Tasks

LEMMA PostFacts ==
    ASSUME TypeOK, NEW p \in Posters
    PROVE  /\ poster[p] \in Posts /\ poster[p].at \in Nat /\ poster[p].at \in Times
           /\ poster[p].delay \in Nat /\ poster[p].posting \in BOOLEAN
<1>1. poster[p] \in Posts
  BY DEF TypeOK
<1> QED BY <1>1, TimesAreNat DEF Posts

(***************************************************************************)
(* What the steps of the worker do to the queue: Look takes the first task *)
(* or sleeps until it is due.                                              *)
(***************************************************************************)
Takes(t) ==
    /\ \A u \in queue \ {t} : Before(t, u)
    /\ \/ /\ worker' = [at |-> "dozing", until |-> t.at]
          /\ queue' = queue /\ started' = started
       \/ /\ worker' = [at |-> "running", until |-> 0]
          /\ queue' = queue \ {t}
          /\ \/ started' = started
             \/ started' = [started EXCEPT ![t.by] = t.seq + 1] /\ t.delay = 0

LEMMA LookFacts ==
    ASSUME TypeOK, Look
    PROVE  \E t \in queue : Takes(t)
<1>1. \A t \in queue : t.delay \in Nat
  BY TaskFacts DEF TypeOK
<1> QED BY <1>1 DEF Look, Goes, Takes

LEMMA WokenFacts ==
    ASSUME TypeOK
    PROVE  Woken \in [at : Places, until : Times] /\ Woken.at \notin {"asleep", "dozing"}
<1>1. worker \in [at : Places, until : Times]
  BY DEF TypeOK
<1>2. CASE worker.at = "asleep"
  <2>1. Woken = [worker EXCEPT !.at = "enter"]
    BY <1>2 DEF Woken
  <2> QED BY <1>1, <2>1 DEF Places
<1>3. CASE worker.at = "dozing"
  <2>1. Woken = [worker EXCEPT !.at = "woken"]
    BY <1>3 DEF Woken
  <2> QED BY <1>1, <2>1 DEF Places
<1>4. CASE worker.at \notin {"asleep", "dozing"}
  <2>1. Woken = worker
    BY <1>4 DEF Woken
  <2> QED BY <1>1, <1>4, <2>1
<1> QED BY <1>2, <1>3, <1>4

(***************************************************************************)
(* Each step preserves the types.                                          *)
(***************************************************************************)
LEMMA LookKeepsTypes ==
    ASSUME TypeOK, Look, UNCHANGED <<now, next, stop, signals, poster, stopper>>
    PROVE  TypeOK'
<1>1. PICK t \in queue : Takes(t)
  BY LookFacts
<1>2. t \in Tasks
  BY DEF TypeOK
<1>3. worker' \in [at : Places, until : Times]
  BY <1>1, <1>2, TaskFacts, TimesAreNat DEF Takes, Places
<1>4. queue' \subseteq queue
  BY <1>1 DEF Takes
<1>5. started' \in [Posters -> Nat]
  BY <1>1, <1>2, TaskFacts DEF Takes, TypeOK
<1> QED BY <1>3, <1>4, <1>5 DEF TypeOK

LEMMA RestKeepsTypes ==
    ASSUME TypeOK, NEW where \in Places, Rest(where),
           UNCHANGED <<now, next, stop, signals, poster, stopper>>
    PROVE  TypeOK'
<1>1. worker' \in [at : Places, until : Times]
  BY TimesAreNat DEF Rest, Goes
<1> QED BY <1>1 DEF TypeOK, Rest

LEMMA PostKeepsTypes ==
    ASSUME TypeOK, NEW p \in Posters, PostDelayedTaskAt(p)
    PROVE  TypeOK'
<1> DEFINE new == [at |-> poster[p].at, seq |-> next, by |-> p, delay |-> poster[p].delay]
<1>1. poster' \in [Posters -> Posts]
  <2>1. Nothing \in Posts
    BY TimesAreNat DEF Nothing, Posts
  <2> QED BY <2>1 DEF PostDelayedTaskAt, TypeOK
<1>2. new \in Tasks /\ new.seq = next
  BY PostFacts DEF Tasks, TypeOK
<1>3. CASE stop
  BY <1>1, <1>3 DEF PostDelayedTaskAt, TypeOK
<1>4. CASE ~stop
  <2>1. queue' = queue \cup {new} /\ next' = next + 1 /\ signals' \in {signals, signals + 1}
    BY <1>4 DEF PostDelayedTaskAt
  <2> HIDE DEF new
  <2>2. queue' \subseteq Tasks
    BY <1>2, <2>1 DEF TypeOK
  <2>3. \A t \in queue : t.seq \in Nat /\ t.seq < next
    BY TaskFacts DEF TypeOK
  <2>4. \A t \in queue' : t.seq < next'
    BY <1>2, <2>1, <2>3 DEF TypeOK
  <2>5. \A t, u \in queue' : t.seq = u.seq => t = u
    BY <1>2, <2>1, <2>3 DEF TypeOK
  <2>6. next' \in Nat /\ signals' \in Nat
    BY <2>1 DEF TypeOK
  <2>7. UNCHANGED <<now, stop, worker, stopper, started>>
    BY DEF PostDelayedTaskAt
  <2> QED BY <1>1, <2>2, <2>4, <2>5, <2>6, <2>7 DEF TypeOK
<1> QED BY <1>3, <1>4

LEMMA TypesAreKept ==
    ASSUME TypeOK, [Next]_vars
    PROVE  TypeOK'
<1>1. ASSUME NEW p \in Posters, PostDelayedTask(p) PROVE TypeOK'
  <2>1. PICK d \in Delays :
          /\ now + d \in Times
          /\ poster' = [poster EXCEPT ![p] = [at |-> now + d, delay |-> d, posting |-> TRUE]]
    BY <1>1 DEF PostDelayedTask
  <2>2. poster' \in [Posters -> Posts]
    BY <2>1, DelaysAssumption DEF TypeOK, Posts
  <2> QED BY <1>1, <2>2 DEF PostDelayedTask, TypeOK
<1>2. ASSUME NEW p \in Posters, PostDelayedTaskAt(p) PROVE TypeOK'
  BY <1>2, PostKeepsTypes
<1>3. CASE ClearTasks
  BY <1>3 DEF ClearTasks, TypeOK
<1>4. CASE Notify
  BY <1>4, WokenFacts DEF Notify, TypeOK
<1>5. CASE Enter
  BY <1>5, LookKeepsTypes, RestKeepsTypes DEF Enter, Places
<1>6. CASE Resume
  BY <1>6, LookKeepsTypes, RestKeepsTypes DEF Resume, Places
<1>7. CASE Timeout \/ TaskReturns
  <2>1. worker' \in [at : Places, until : Times]
    BY <1>7, TimesAreNat DEF Timeout, TaskReturns, Goes, Places
  <2> QED BY <1>7, <2>1 DEF Timeout, TaskReturns, TypeOK
<1>8. CASE Spurious
  BY <1>8, WokenFacts DEF Spurious, TypeOK
<1>9. CASE Stop \/ StopStep
  <2>1. worker' \in [at : Places, until : Times]
    BY <1>9, WokenFacts DEF Stop, StopStep, StopNotifies, StopJoins, TypeOK
  <2>2. stopper' \in {"idle", "notify", "join", "done"} /\ stop' \in BOOLEAN
    BY <1>9 DEF Stop, StopStep, StopNotifies, StopJoins, TypeOK
  <2>3. UNCHANGED <<now, queue, next, signals, poster, started>>
    BY <1>9 DEF Stop, StopStep, StopNotifies, StopJoins
  <2> QED BY <2>1, <2>2, <2>3 DEF TypeOK
<1>10. CASE Tick
  <2>1. now' \in Times
    BY <1>10, BoundsAssumption DEF Tick, TypeOK, Times
  <2> QED BY <1>10, <2>1 DEF Tick, TypeOK
<1>11. CASE UNCHANGED vars
  BY <1>11 DEF vars, TypeOK
<1> QED BY <1>1, <1>2, <1>3, <1>4, <1>5, <1>6, <1>7, <1>8, <1>9, <1>10, <1>11
        DEF Next, WorkerStep, Over

(***************************************************************************)
(* Each step preserves NoLostWakeup.                                       *)
(***************************************************************************)
LEMMA LookNeverOversleeps ==
    ASSUME TypeOK, Look
    PROVE  /\ worker'.at # "asleep"
           /\ worker'.at = "dozing" => \A t \in queue' : worker'.until <= t.at
<1>1. PICK t \in queue : Takes(t)
  BY LookFacts
<1>2. \A u \in queue : u.at \in Nat
  BY TaskFacts DEF TypeOK
<1>3. \A u \in queue : t.at <= u.at
  BY <1>1, <1>2 DEF Takes, Before
<1> QED BY <1>1, <1>3 DEF Takes

LEMMA WakeupsAreKept ==
    ASSUME TypeOK, NoLostWakeup, [Next]_vars
    PROVE  NoLostWakeup'
<1>1. ASSUME NEW p \in Posters, PostDelayedTaskAt(p) PROVE NoLostWakeup'
  <2> DEFINE new == [at |-> poster[p].at, seq |-> next, by |-> p, delay |-> poster[p].delay]
  <2>1. CASE stop
    BY <1>1, <2>1 DEF PostDelayedTaskAt, NoLostWakeup
  <2>2. CASE ~stop /\ Notifies(poster[p].at)
    <3>1. signals' = signals + 1
      BY <1>1, <2>2 DEF PostDelayedTaskAt
    <3>2. signals' # 0
      BY <3>1 DEF TypeOK
    <3> QED BY <3>2 DEF NoLostWakeup
  <2>3. CASE ~stop /\ ~Notifies(poster[p].at)
    <3>1. queue' = queue \cup {new} /\ new.at = poster[p].at /\ signals' = signals
      BY <1>1, <2>3 DEF PostDelayedTaskAt
    <3>2. worker' = worker
      BY <1>1 DEF PostDelayedTaskAt
    <3>3. PICK t \in queue : ~(poster[p].at < t.at)
      BY <2>3 DEF Notifies
    <3>4. t.at \in Nat /\ poster[p].at \in Nat /\ worker.until \in Nat
      BY PostFacts, TaskFacts, TimesAreNat DEF TypeOK
    <3>5. t.at <= new.at
      BY <3>1, <3>3, <3>4
    <3> HIDE DEF new
    <3>6. ASSUME signals = 0, worker.at = "dozing" PROVE worker.until <= new.at
      BY <3>1, <3>3, <3>4, <3>5, <3>6 DEF NoLostWakeup
    <3>7. ASSUME signals = 0 PROVE worker.at # "asleep"
      BY <3>3, <3>7 DEF NoLostWakeup
    <3> QED BY <3>1, <3>2, <3>6, <3>7 DEF NoLostWakeup
  <2> QED BY <2>1, <2>2, <2>3
<1>2. CASE ClearTasks
  <2>1. signals' # 0
    BY <1>2 DEF ClearTasks, TypeOK
  <2> QED BY <2>1 DEF NoLostWakeup
<1>3. CASE Notify \/ Spurious
  BY <1>3, WokenFacts DEF Notify, Spurious, NoLostWakeup
<1>4. CASE Enter
  <2>1. CASE queue # {}
    BY <1>4, <2>1, LookNeverOversleeps DEF Enter, NoLostWakeup
  <2>2. CASE queue = {}
    BY <1>4, <2>2 DEF Enter, Rest, Goes, NoLostWakeup
  <2> QED BY <2>1, <2>2
<1>5. CASE Resume
  <2>1. CASE ~stop /\ queue # {}
    BY <1>5, <2>1, LookNeverOversleeps DEF Resume, NoLostWakeup
  <2>2. CASE stop \/ queue = {}
    BY <1>5, <2>2 DEF Resume, Rest, Goes, NoLostWakeup
  <2> QED BY <2>1, <2>2
<1>6. CASE Timeout \/ TaskReturns
  BY <1>6 DEF Timeout, TaskReturns, Goes, NoLostWakeup
<1>7. CASE StopNotifies
  BY <1>7, WokenFacts DEF StopNotifies, NoLostWakeup
<1>8. ASSUME UNCHANGED <<queue, signals, worker>> PROVE NoLostWakeup'
  BY <1>8 DEF NoLostWakeup
<1>9. ASSUME NEW p \in Posters, PostDelayedTask(p) PROVE NoLostWakeup'
  BY <1>8, <1>9 DEF PostDelayedTask
<1>10. CASE Stop \/ StopJoins \/ Tick \/ UNCHANGED vars
  BY <1>8, <1>10 DEF Stop, StopJoins, Tick, vars
<1> QED BY <1>1, <1>2, <1>3, <1>4, <1>5, <1>6, <1>7, <1>9, <1>10
        DEF Next, WorkerStep, StopStep, Over

(***************************************************************************)
(* Each step preserves the order of a thread's undelayed tasks.            *)
(***************************************************************************)
Ordered == SamePosterInOrder /\ Past /\ InOrder

LEMMA LookKeepsOrder ==
    ASSUME TypeOK, Ordered, Look, UNCHANGED <<now, next, poster>>
    PROVE  Ordered'
<1>1. PICK t \in queue : Takes(t)
  BY LookFacts
<1>2. queue' \subseteq queue
  BY <1>1 DEF Takes
<1>3. \A u \in queue : /\ u.at \in Nat /\ u.seq \in Nat /\ u.seq < next
                       /\ u.by \in Posters /\ u.delay \in Nat
  BY TaskFacts DEF TypeOK
<1>4. InOrder'
  BY <1>2 DEF Ordered, InOrder
<1>5. CASE started' = started
  BY <1>2, <1>4, <1>5 DEF Ordered, SamePosterInOrder, Past
<1>6. CASE started' = [started EXCEPT ![t.by] = t.seq + 1] /\ queue' = queue \ {t} /\ t.delay = 0
  <2>1. ASSUME NEW u \in queue', u.delay = 0 PROVE started'[u.by] <= u.seq
    <3>1. CASE u.by # t.by
      BY <1>3, <1>6, <2>1, <3>1 DEF TypeOK, Ordered, SamePosterInOrder
    <3>2. CASE u.by = t.by
      <4>1. Before(t, u) /\ u \in queue /\ u # t
        BY <1>1, <1>6 DEF Takes
      <4>2. ~(u.seq < t.seq)
        BY <1>3, <1>6, <2>1, <3>2, <4>1 DEF Before, Ordered, InOrder
      <4>3. u.seq # t.seq
        BY <4>1 DEF TypeOK
      <4>4. t.seq + 1 <= u.seq
        BY <1>3, <4>1, <4>2, <4>3
      <4>5. started'[u.by] = t.seq + 1
        BY <1>3, <1>6, <3>2 DEF TypeOK
      <4> QED BY <4>4, <4>5
    <3> QED BY <3>1, <3>2
  <2>2. ASSUME NEW p \in Posters PROVE started'[p] <= next
    <3>1. t.seq + 1 <= next
      BY <1>3 DEF TypeOK
    <3> QED BY <1>6, <3>1 DEF TypeOK, Ordered, Past
  <2>3. Past'
    BY <1>2, <2>2 DEF Ordered, Past
  <2> QED BY <1>4, <2>1, <2>3 DEF Ordered, SamePosterInOrder
<1> QED BY <1>1, <1>5, <1>6 DEF Takes

LEMMA PostKeepsOrder ==
    ASSUME TypeOK, Ordered, NEW p \in Posters, PostDelayedTaskAt(p)
    PROVE  Ordered'
<1> DEFINE new == [at |-> poster[p].at, seq |-> next, by |-> p, delay |-> poster[p].delay]
<1>1. poster' = [poster EXCEPT ![p] = Nothing] /\ ~Nothing.posting
  BY DEF PostDelayedTaskAt, Nothing
<1>2. UNCHANGED <<now, started>>
  BY DEF PostDelayedTaskAt
<1>3. \A u \in queue : /\ u.at \in Nat /\ u.seq \in Nat /\ u.seq < next
                       /\ u.by \in Posters /\ u.delay \in Nat
  BY TaskFacts DEF TypeOK
<1>4. \A u \in queue : u.delay = 0 /\ poster'[u.by].posting => u.at <= poster'[u.by].at
  BY <1>1, <1>3 DEF TypeOK, Ordered, Past
<1>4a. \A r \in Posters : poster'[r].posting /\ poster'[r].delay = 0 => poster'[r].at <= now
  BY <1>1 DEF TypeOK, Ordered, Past
<1>5. CASE stop
  <2>1. queue' = queue /\ next' = next
    BY <1>5 DEF PostDelayedTaskAt
  <2> QED BY <1>2, <1>4, <1>4a, <2>1 DEF Ordered, SamePosterInOrder, Past, InOrder
<1>6. CASE ~stop
  <2>1. queue' = queue \cup {new} /\ next' = next + 1
    BY <1>6 DEF PostDelayedTaskAt
  <2>2. new.by = p /\ new.seq = next /\ new.at = poster[p].at /\ new.delay = poster[p].delay
    OBVIOUS
  <2>3. poster[p].posting
    BY DEF PostDelayedTaskAt
  <2> HIDE DEF new
  <2>4. new.delay = 0 => new.at <= now
    BY <2>2, <2>3 DEF Ordered, Past
  <2>5. ~poster'[new.by].posting
    BY <1>1, <2>2 DEF TypeOK
  <2>6. \A q \in Posters : started[q] <= next /\ started[q] <= next + 1
    BY DEF TypeOK, Ordered, Past
  <2>7. Past'
    BY <1>2, <1>4, <1>4a, <2>1, <2>4, <2>5, <2>6 DEF Ordered, Past
  <2>8. SamePosterInOrder'
    BY <1>2, <2>1, <2>2, <2>6 DEF Ordered, SamePosterInOrder
  <2>9. \A u \in queue : u.by = new.by /\ u.delay = 0 /\ new.delay = 0 => u.at <= new.at
    BY <2>2, <2>3 DEF Ordered, Past
  <2>10. \A u \in queue : ~(new.seq < u.seq)
    BY <1>3, <2>2 DEF TypeOK
  <2>11. InOrder'
    BY <2>1, <2>9, <2>10, <2>2 DEF Ordered, InOrder, TypeOK
  <2> QED BY <2>7, <2>8, <2>11 DEF Ordered
<1> QED BY <1>5, <1>6

LEMMA OrderIsKept ==
    ASSUME TypeOK, Ordered, [Next]_vars
    PROVE  Ordered'
<1>1. ASSUME NEW p \in Posters, PostDelayedTask(p) PROVE Ordered'
  <2>1. PICK d \in Delays :
          poster' = [poster EXCEPT ![p] = [at |-> now + d, delay |-> d, posting |-> TRUE]]
    BY <1>1 DEF PostDelayedTask
  <2>2. UNCHANGED <<now, queue, next, started>>
    BY <1>1 DEF PostDelayedTask
  <2>3. d \in Nat /\ now \in Nat
    BY DelaysAssumption, TimesAreNat DEF TypeOK
  <2>4. poster'[p].at = now + d /\ poster'[p].delay = d
    BY <2>1 DEF TypeOK
  <2>5. \A r \in Posters : r # p => poster'[r] = poster[r]
    BY <2>1 DEF TypeOK
  <2>6. \A t \in queue : t.at \in Nat /\ t.by \in Posters
    BY TaskFacts DEF TypeOK
  <2>7. \A t \in queue : t.delay = 0 /\ poster'[t.by].posting => t.at <= poster'[t.by].at
    <3> SUFFICES ASSUME NEW t \in queue, t.delay = 0, poster'[t.by].posting
                 PROVE  t.at <= poster'[t.by].at
      OBVIOUS
    <3>1. t.at <= now
      BY DEF Ordered, Past
    <3>2. CASE t.by = p
      BY <2>3, <2>4, <2>6, <3>1, <3>2
    <3>3. CASE t.by # p
      BY <2>5, <2>6, <3>3 DEF Ordered, Past
    <3> QED BY <3>2, <3>3
  <2>8. \A r \in Posters : poster'[r].posting /\ poster'[r].delay = 0 => poster'[r].at <= now
    <3> SUFFICES ASSUME NEW r \in Posters, poster'[r].posting, poster'[r].delay = 0
                 PROVE  poster'[r].at <= now
      OBVIOUS
    <3>1. CASE r = p
      BY <2>3, <2>4, <3>1
    <3>2. CASE r # p
      BY <2>5, <3>2 DEF Ordered, Past
    <3> QED BY <3>1, <3>2
  <2> QED BY <2>2, <2>7, <2>8 DEF Ordered, SamePosterInOrder, Past, InOrder
<1>2. ASSUME NEW p \in Posters, PostDelayedTaskAt(p) PROVE Ordered'
  BY <1>2, PostKeepsOrder
<1>3. CASE ClearTasks
  BY <1>3 DEF ClearTasks, Ordered, SamePosterInOrder, Past, InOrder
<1>4. ASSUME UNCHANGED <<now, queue, next, poster, started>> PROVE Ordered'
  BY <1>4 DEF Ordered, SamePosterInOrder, Past, InOrder
<1>5. CASE Enter
  BY <1>4, <1>5, LookKeepsOrder DEF Enter, Rest
<1>6. CASE Resume
  BY <1>4, <1>6, LookKeepsOrder DEF Resume, Rest
<1>7. CASE Notify \/ Timeout \/ TaskReturns \/ Spurious
  BY <1>4, <1>7 DEF Notify, Timeout, TaskReturns, Spurious
<1>8. CASE Stop \/ StopStep \/ UNCHANGED vars
  BY <1>4, <1>8 DEF Stop, StopStep, StopNotifies, StopJoins, vars
<1>9. CASE Tick
  <2>1. now \in Nat /\ now' = now + 1 /\ UNCHANGED <<queue, next, poster, started>>
    BY <1>9, TimesAreNat DEF Tick, TypeOK
  <2>2. \A t \in queue : t.at \in Nat
    BY TaskFacts DEF TypeOK
  <2>3. \A p \in Posters : poster[p].at \in Nat
    BY PostFacts
  <2>4. Past'
    BY <2>1, <2>2, <2>3 DEF Ordered, Past
  <2> QED BY <2>1, <2>4 DEF Ordered, SamePosterInOrder, InOrder
<1> QED BY <1>1, <1>2, <1>3, <1>5, <1>6, <1>7, <1>8, <1>9 DEF Next, WorkerStep, Over

(***************************************************************************)
(* The theorems.                                                           *)
(***************************************************************************)

LEMMA InitHolds == Init => IInv
<1> SUFFICES ASSUME Init PROVE IInv
  OBVIOUS
<1>1. Nothing \in Posts /\ [at |-> "enter", until |-> 0] \in [at : Places, until : Times]
  BY TimesAreNat DEF Nothing, Posts, Places
<1>2. TypeOK
  BY <1>1, TimesAreNat DEF Init, TypeOK
<1>3. NoLostWakeup /\ SamePosterInOrder /\ InOrder
  BY DEF Init, NoLostWakeup, SamePosterInOrder, InOrder
<1>4. Past
  BY DEF Init, Past, Nothing
<1> QED BY <1>2, <1>3, <1>4 DEF IInv

LEMMA IInvIsInvariant == Spec => []IInv
<1>1. IInv /\ [Next]_vars => IInv'
  BY TypesAreKept, WakeupsAreKept, OrderIsKept DEF IInv, Ordered
<1> QED BY <1>1, InitHolds, PTL DEF Spec

\* The types hold, and sequence ids of queued tasks are unique.
THEOREM TypeCorrect == Spec => []TypeOK
<1>1. IInv => TypeOK
  BY DEF IInv
<1> QED BY <1>1, IInvIsInvariant, PTL

\* No order of posting, clearing and notifying outside the mutex makes the
\* worker sleep through a task.
THEOREM WakeupsAreNotLost == Spec => []NoLostWakeup
<1>1. IInv => NoLostWakeup
  BY DEF IInv
<1> QED BY <1>1, IInvIsInvariant, PTL

\* The undelayed tasks of one thread are started in the order it posted them.
THEOREM PostersAreServedInOrder == Spec => []SamePosterInOrder
<1>1. IInv => SamePosterInOrder
  BY DEF IInv
<1> QED BY <1>1, IInvIsInvariant, PTL
=============================================================================
