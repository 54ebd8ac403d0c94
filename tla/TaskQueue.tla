----------------------------- MODULE TaskQueue ------------------------------
(***************************************************************************)
(* The delayed-task queue (src/common/task_queue.h) that the congestion    *)
(* controller, the pacer and the packet history run on: posting threads,   *)
(* one worker, and the thread that stops the queue.  Every user starts it  *)
(* with one worker.                                                        *)
(*                                                                         *)
(* mutex_ is held within a step.  A thread that notifies the condition     *)
(* variable does so after it has released the mutex, so the notification   *)
(* is a step of its own, and it wakes only a worker that sleeps then.      *)
(***************************************************************************)
EXTENDS Naturals

CONSTANTS
    Posters,    \* threads that post tasks
    Delays,     \* the delays they ask for
    MaxTasks,   \* bound on next_sequence_id_ up to which tasks are posted
    MaxTime     \* bound on the clock

ASSUME DelaysAssumption == Delays \subseteq Nat
ASSUME BoundsAssumption == MaxTasks \in Nat /\ MaxTime \in Nat

VARIABLES
    now,        \* the steady clock
    queue,      \* taskQueue_
    next,       \* next_sequence_id_
    stop,       \* stop_
    signals,    \* number of threads about to notify after a post or a ClearTasks
    poster,     \* for each posting thread, the task it is about to post
    worker,     \* the worker: where it is, until when it sleeps
    stopper,    \* the thread that calls Stop
    started     \* for each poster, what follows the newest undelayed task started
vars == <<now, queue, next, stop, signals, poster, worker, stopper, started>>

Times   == 0..MaxTime
Tasks   == [at : Times, seq : Nat, by : Posters, delay : Nat]
Posts   == [at : Times, delay : Nat, posting : BOOLEAN]
Nothing == [at |-> 0, delay |-> 0, posting |-> FALSE]

\* Mutant of Before: tasks with the same time are executed last posted first.
BeforeLifo(t, u) == t.at < u.at \/ (t.at = u.at /\ t.seq > u.seq)

\* operator> of TaskItem: t is executed before u.
Before(t, u) == t.at < u.at \/ (t.at = u.at /\ t.seq < u.seq)

-----------------------------------------------------------------------------
(***************************************************************************)
(* Posting.  The clock is read before the mutex is taken.                  *)
(***************************************************************************)
PostDelayedTask(p) ==
    /\ ~poster[p].posting /\ next < MaxTasks
    /\ \E d \in Delays :
         /\ now + d \in Times
         /\ poster' = [poster EXCEPT ![p] = [at |-> now + d, delay |-> d, posting |-> TRUE]]
    /\ UNCHANGED <<now, queue, next, stop, signals, worker, stopper, started>>

\* Mutant of Notifies: only the first task wakes the worker.
NotifiesFirst(time) == queue = {}

\* Mutant of Notifies: the worker is woken when there are tasks already.
NotifiesMore(time) == queue # {}

\* Whether the worker has to be woken: the queue is empty, or its top is later.
Notifies(time) == \A t \in queue : time < t.at

PostDelayedTaskAt(p) ==
    /\ poster[p].posting
    /\ poster' = [poster EXCEPT ![p] = Nothing]
    /\ IF stop THEN UNCHANGED <<queue, next, signals>>
       ELSE /\ queue' = queue \cup
                 {[at |-> poster[p].at, seq |-> next, by |-> p, delay |-> poster[p].delay]}
            /\ next' = next + 1
            /\ signals' = IF Notifies(poster[p].at) THEN signals + 1 ELSE signals
    /\ UNCHANGED <<now, stop, worker, stopper, started>>

\* With nothing queued ClearTasks only notifies, which Spurious stands for.
ClearTasks ==
    /\ queue # {}
    /\ queue' = {}
    /\ signals' = signals + 1
    /\ UNCHANGED <<now, next, stop, poster, worker, stopper, started>>

Woken == CASE worker.at = "asleep" -> [worker EXCEPT !.at = "enter"]
           [] worker.at = "dozing" -> [worker EXCEPT !.at = "woken"]
           [] OTHER                -> worker

Notify ==
    /\ signals > 0
    /\ signals' = signals - 1
    /\ worker' = Woken
    /\ UNCHANGED <<now, queue, next, stop, poster, stopper, started>>

-----------------------------------------------------------------------------
(***************************************************************************)
(* The worker: "asleep" in the wait for a task, "dozing" in the wait_until *)
(* for the time of the first one.                                          *)
(***************************************************************************)
Goes(where, until) == worker' = [at |-> where, until |-> until]

\* The inner loop with a task queued: sleep until it is due or take it.
Look ==
    \E t \in queue :
        /\ \A u \in queue \ {t} : Before(t, u)
        /\ IF t.at > now
           THEN Goes("dozing", t.at) /\ UNCHANGED <<queue, started>>
           ELSE /\ Goes("running", 0)
                /\ queue' = queue \ {t}
                /\ started' = IF t.delay > 0 THEN started
                              ELSE [started EXCEPT ![t.by] = t.seq + 1]

Rest(where) == Goes(where, 0) /\ UNCHANGED <<queue, started>>

\* The top of the loop: a stopped queue is worked off.
Enter ==
    /\ worker.at = "enter"
    /\ IF queue # {} THEN Look ELSE Rest(IF stop THEN "exited" ELSE "asleep")
    /\ UNCHANGED <<now, next, stop, signals, poster, stopper>>

\* After wait_until: a stopped queue is left as it is.
Resume ==
    /\ worker.at = "woken"
    /\ IF stop THEN Rest("exited")
       ELSE IF queue # {} THEN Look ELSE Rest("asleep")
    /\ UNCHANGED <<now, next, stop, signals, poster, stopper>>

\* wait_until reaches its time.
Timeout ==
    /\ worker.at = "dozing" /\ worker.until <= now
    /\ Goes("woken", 0)
    /\ UNCHANGED <<now, queue, next, stop, signals, poster, stopper, started>>

TaskReturns ==
    /\ worker.at = "running"
    /\ Goes("enter", 0)
    /\ UNCHANGED <<now, queue, next, stop, signals, poster, stopper, started>>

WorkerStep == Enter \/ Resume \/ Timeout \/ TaskReturns

\* A condition variable may wake without reason.
Spurious ==
    /\ worker.at \in {"asleep", "dozing"}
    /\ worker' = Woken
    /\ UNCHANGED <<now, queue, next, stop, signals, poster, stopper, started>>

-----------------------------------------------------------------------------
(***************************************************************************)
(* Stop, by a thread that is not the worker.                               *)
(***************************************************************************)
Stop ==
    /\ stopper = "idle"
    /\ stop' = TRUE
    /\ stopper' = "notify"
    /\ UNCHANGED <<now, queue, next, signals, poster, worker, started>>

\* Mutant of StopNotifies: the worker is not woken.
StopWithoutNotify ==
    /\ stopper = "notify"
    /\ stopper' = "join"
    /\ UNCHANGED <<now, queue, next, stop, signals, poster, worker, started>>

StopNotifies ==
    /\ stopper = "notify"
    /\ worker' = Woken
    /\ stopper' = "join"
    /\ UNCHANGED <<now, queue, next, stop, signals, poster, started>>

StopJoins ==
    /\ stopper = "join" /\ worker.at = "exited"
    /\ stopper' = "done"
    /\ UNCHANGED <<now, queue, next, stop, signals, poster, worker, started>>

StopStep == StopNotifies \/ StopJoins

-----------------------------------------------------------------------------
Tick ==
    /\ now < MaxTime
    /\ now' = now + 1
    /\ UNCHANGED <<queue, next, stop, signals, poster, worker, stopper, started>>

Init ==
    /\ now = 0 /\ queue = {} /\ next = 0 /\ stop = FALSE /\ signals = 0
    /\ poster = [p \in Posters |-> Nothing]
    /\ worker = [at |-> "enter", until |-> 0]
    /\ stopper = "idle"
    /\ started = [p \in Posters |-> 0]

\* The queue has been stopped; it may be destroyed.
Over == stopper = "done" /\ UNCHANGED vars

Next ==
    \/ \E p \in Posters : PostDelayedTask(p) \/ PostDelayedTaskAt(p)
    \/ ClearTasks \/ Notify
    \/ WorkerStep \/ Spurious
    \/ Stop \/ StopStep
    \/ Tick \/ Over

Spec == Init /\ [][Next]_vars

\* Time passes, tasks return, the worker and the threads inside a call go on.
\* Nobody has to post, clear or stop, and no wake-up comes by itself.
FairSpec ==
    /\ Spec
    /\ \A p \in Posters : WF_vars(PostDelayedTaskAt(p))
    /\ WF_vars(Notify) /\ WF_vars(WorkerStep) /\ WF_vars(StopStep) /\ WF_vars(Tick)

-----------------------------------------------------------------------------
(***************************************************************************)
(* Properties.                                                             *)
(***************************************************************************)
Places == {"enter", "asleep", "dozing", "woken", "running", "exited"}

\* Types; no two queued tasks have the same sequence id.
TypeOK ==
    /\ now \in Times /\ next \in Nat /\ signals \in Nat /\ stop \in BOOLEAN
    /\ queue \subseteq Tasks
    /\ \A t, u \in queue : t.seq < next /\ (t.seq = u.seq => t = u)
    /\ poster \in [Posters -> Posts]
    /\ worker \in [at : Places, until : Times]
    /\ stopper \in {"idle", "notify", "join", "done"}
    /\ started \in [Posters -> Nat]

\* No wake-up is lost: unless a notification is on its way, a worker that
\* waits for a task has none to run, and a worker that waits for a time does
\* not sleep past a task that is due earlier.
NoLostWakeup ==
    signals = 0 =>
        /\ worker.at = "asleep" => queue = {}
        /\ worker.at = "dozing" => \A t \in queue : worker.until <= t.at

\* Tasks that one thread posts without delay are started in the order in
\* which it posted them, whatever other threads post in between.
SamePosterInOrder == \A t \in queue : t.delay = 0 => started[t.by] <= t.seq

\* A queued task is run, unless ClearTasks or Stop comes first.
Queued(s) == \E t \in queue : t.seq = s
TasksRun == \A s \in 0..MaxTasks : Queued(s) ~> (~Queued(s) \/ stop)

\* Stop returns: no order of notification and sleep leaves it in the join.
StopReturns == stopper = "notify" ~> stopper = "done"
=============================================================================
