----------------------------- MODULE ThreadPool -----------------------------
(***************************************************************************)
(* ThreadPool: a queue of tasks under a mutex, workers that sleep on a     *)
(* condition variable, and the two ways the server submits to it:          *)
(* try_enqueue with a bounded queue (m_threadPool), and enqueueDbTask or   *)
(* enqueueRedisTask, which bound the tasks in flight with an atomic        *)
(* counter in front of the unbounded enqueue.  Each critical section,      *)
(* atomic operation and notification is one step.                          *)
(*                                                                         *)
(* A task is the number of its acceptance.                                 *)
(***************************************************************************)
EXTENDS Integers, Sequences, FiniteSets

CONSTANTS
    Workers, Submitters,
    Limit,     \* max_queue_size (0: none) or kWorkerQueueLimit, by the kind of pool
    Destroyed, \* the kinds of pool that are destroyed
    MaxTasks   \* bound: tasks accepted

ASSUME ThreadPoolAssumption ==
    /\ IsFiniteSet(Workers) /\ IsFiniteSet(Submitters) /\ Workers # {}
    /\ Workers \cap Submitters = {}
    /\ Destroyed \subseteq {"bounded", "counted"}
    /\ Limit \in Nat /\ MaxTasks \in Nat

VARIABLES
    kind,      \* "bounded" by try_enqueue or "counted" by enqueueDbTask or
               \* enqueueRedisTask; never changes
    tasks,     \* the queue
    stop,      \* the pool is being destroyed
    worker,    \* per worker: "ready", "asleep", "running", "uncount" or "gone"
    cur,       \* per worker: the task it runs, 0 for none
    sub,       \* per submitter: its next step
    depth,     \* m_dbTaskQueueDepth or m_redisTaskQueueDepth
    toldAll,   \* the destructor has called notify_all
    accepted,  \* history: tasks put in the queue
    started,   \* history: tasks taken from it
    finished   \* history: tasks that have run

queueVars == <<tasks, stop, accepted, started, finished>>
poolVars == <<queueVars, worker, cur, sub, depth, toldAll, kind>>

Counted == kind = "counted"

-----------------------------------------------------------------------------
(* The worker loop.                                                        *)

\* Mutation: the pool's workers leave as soon as it is stopped.
LeavesAtOnce == stop

Leaves == stop /\ tasks = <<>>

\* condition.wait: the predicate is false, so the worker sleeps.
Sleep(w) ==
    /\ worker[w] = "ready"
    /\ ~stop /\ tasks = <<>>
    /\ worker' = [worker EXCEPT ![w] = "asleep"]
    /\ UNCHANGED <<queueVars, cur, sub, depth, toldAll, kind>>

\* A wait may return without a notification.
Spurious(w) ==
    /\ worker[w] = "asleep"
    /\ worker' = [worker EXCEPT ![w] = "ready"]
    /\ UNCHANGED <<queueVars, cur, sub, depth, toldAll, kind>>

Take(w) ==
    /\ worker[w] = "ready"
    /\ ~Leaves /\ tasks # <<>>
    /\ tasks' = Tail(tasks)
    /\ cur' = [cur EXCEPT ![w] = Head(tasks)]
    /\ started' = started + 1
    /\ worker' = [worker EXCEPT ![w] = "running"]
    /\ UNCHANGED <<stop, accepted, finished, sub, depth, toldAll, kind>>

\* Mutation: the worker keeps the task it has run.
RunHolding(w) ==
    /\ worker[w] = "running"
    /\ finished' = finished \cup {cur[w]}
    /\ worker' = [worker EXCEPT ![w] = IF Counted THEN "uncount" ELSE "ready"]
    /\ UNCHANGED <<tasks, stop, accepted, started, cur, sub, depth, toldAll, kind>>

\* The task returns; a counted one then lowers the counter.
Run(w) ==
    /\ worker[w] = "running"
    /\ finished' = finished \cup {cur[w]}
    /\ cur' = [cur EXCEPT ![w] = 0]
    /\ worker' = [worker EXCEPT ![w] = IF Counted THEN "uncount" ELSE "ready"]
    /\ UNCHANGED <<tasks, stop, accepted, started, sub, depth, toldAll, kind>>

Uncount(w) ==
    /\ worker[w] = "uncount"
    /\ depth' = depth - 1
    /\ worker' = [worker EXCEPT ![w] = "ready"]
    /\ UNCHANGED <<queueVars, cur, sub, toldAll, kind>>

Leave(w) ==
    /\ worker[w] = "ready"
    /\ Leaves
    /\ worker' = [worker EXCEPT ![w] = "gone"]
    /\ UNCHANGED <<queueVars, cur, sub, depth, toldAll, kind>>

-----------------------------------------------------------------------------
(* Submitting.                                                             *)

\* Mutation: the task goes to the wrong end of the queue.
PushFront ==
    /\ accepted < MaxTasks
    /\ tasks' = <<accepted + 1>> \o tasks
    /\ accepted' = accepted + 1
    /\ UNCHANGED <<stop, started, finished>>

Push ==
    /\ accepted < MaxTasks
    /\ tasks' = Append(tasks, accepted + 1)
    /\ accepted' = accepted + 1
    /\ UNCHANGED <<stop, started, finished>>

Full == Limit > 0 /\ Len(tasks) >= Limit

\* The critical section of try_enqueue; a refusal changes nothing.
TryEnqueue(s) ==
    /\ ~Counted /\ sub[s] = "idle"
    /\ ~stop /\ ~Full
    /\ Push
    /\ sub' = [sub EXCEPT ![s] = "notify"]
    /\ UNCHANGED <<worker, cur, depth, toldAll, kind>>

\* fetch_add and the comparison with the limit, on the value it returned.
Count(s) ==
    /\ Counted /\ sub[s] = "idle" /\ accepted < MaxTasks
    /\ depth' = depth + 1
    /\ sub' = [sub EXCEPT ![s] = IF depth + 1 > Limit THEN "undo" ELSE "push"]
    /\ UNCHANGED <<queueVars, worker, cur, toldAll, kind>>

\* Mutation: a refused task stays counted.
UndoNothing(s) ==
    /\ sub[s] = "undo"
    /\ sub' = [sub EXCEPT ![s] = "idle"]
    /\ UNCHANGED <<queueVars, worker, cur, depth, toldAll, kind>>

Undo(s) ==
    /\ sub[s] = "undo"
    /\ depth' = depth - 1
    /\ sub' = [sub EXCEPT ![s] = "idle"]
    /\ UNCHANGED <<queueVars, worker, cur, toldAll, kind>>

\* The critical section of enqueue.
Enqueue(s) ==
    /\ sub[s] = "push"
    /\ Push
    /\ sub' = [sub EXCEPT ![s] = "notify"]
    /\ UNCHANGED <<worker, cur, depth, toldAll, kind>>

\* Mutation: a notification is made only for a single task in the queue.
WakeIfFirst(w) == Len(tasks) = 1 /\ worker[w] = "asleep"

Wake(w) == worker[w] = "asleep"

\* condition.notify_one: one sleeper, if there is any.
NotifyOne(s) ==
    /\ sub[s] = "notify"
    /\ sub' = [sub EXCEPT ![s] = "idle"]
    /\ \/ \E w \in Workers : Wake(w) /\ worker' = [worker EXCEPT ![w] = "ready"]
       \/ ~(\E w \in Workers : Wake(w)) /\ UNCHANGED worker
    /\ UNCHANGED <<queueVars, cur, depth, toldAll, kind>>

-----------------------------------------------------------------------------
(* The destructor, up to the joins, which wait for every worker to be gone. *)

Stop ==
    /\ kind \in Destroyed /\ ~stop
    /\ stop' = TRUE
    /\ UNCHANGED <<tasks, accepted, started, finished, worker, cur, sub, depth, toldAll, kind>>

NotifyAll ==
    /\ stop /\ ~toldAll
    /\ toldAll' = TRUE
    /\ worker' = [w \in Workers |-> IF worker[w] = "asleep" THEN "ready" ELSE worker[w]]
    /\ UNCHANGED <<queueVars, cur, sub, depth, kind>>

-----------------------------------------------------------------------------
PoolInit ==
    /\ kind \in {"bounded", "counted"}
    /\ tasks = <<>> /\ stop = FALSE /\ depth = 0 /\ toldAll = FALSE
    /\ worker = [w \in Workers |-> "ready"] /\ cur = [w \in Workers |-> 0]
    /\ sub = [s \in Submitters |-> "idle"]
    /\ accepted = 0 /\ started = 0 /\ finished = {}

WorkerStep(w) == Sleep(w) \/ Take(w) \/ Run(w) \/ Uncount(w) \/ Leave(w)
SubmitterStep(s) == Undo(s) \/ Enqueue(s) \/ NotifyOne(s)

PoolNext ==
    \/ \E w \in Workers : WorkerStep(w) \/ Spurious(w)
    \/ \E s \in Submitters : TryEnqueue(s) \/ Count(s) \/ SubmitterStep(s)
    \/ Stop \/ NotifyAll

PoolSpec == PoolInit /\ [][PoolNext]_poolVars

\* Threads are scheduled and tasks return; nothing makes a wait return early.
PoolFair ==
    /\ PoolSpec
    /\ \A w \in Workers : WF_poolVars(WorkerStep(w))
    /\ \A s \in Submitters : WF_poolVars(SubmitterStep(s))
    /\ WF_poolVars(NotifyAll)

-----------------------------------------------------------------------------
(* Properties.                                                             *)

Running == {w \in Workers : worker[w] = "running"}

\* Every variable keeps its type, and a worker has a task exactly while it runs.
PoolTypeOK ==
    /\ kind \in {"bounded", "counted"}
    /\ tasks \in Seq(Nat \ {0}) /\ stop \in BOOLEAN /\ toldAll \in BOOLEAN
    /\ worker \in [Workers -> {"ready", "asleep", "running", "uncount", "gone"}]
    /\ cur \in [Workers -> Nat]
    /\ \A w \in Workers : (worker[w] = "running") <=> (cur[w] # 0)
    /\ sub \in [Submitters -> {"idle", "undo", "push", "notify"}]
    /\ depth \in Nat /\ accepted \in Nat /\ started \in Nat
    /\ finished \subseteq Nat

\* No task is lost, run twice or overtaken in the queue: the queue holds, in
\* order, the tasks accepted and not started, and a task that was started has
\* finished or is run by exactly one worker, but not both.
TasksAccounted ==
    /\ started \in 0..accepted
    /\ tasks = [i \in 1..(accepted - started) |-> started + i]
    /\ finished \cup {cur[w] : w \in Running} = 1..started
    /\ \A w \in Running : cur[w] \notin finished
    /\ \A v, w \in Running : cur[v] = cur[w] => v = w

\* The queue of try_enqueue keeps to max_queue_size.
QueueBounded == (~Counted /\ Limit > 0) => Len(tasks) <= Limit

\* The counter of enqueueDbTask and enqueueRedisTask is the number of tasks in
\* flight and of submitters that have counted one, whatever the order of their
\* steps, so it never drifts; and the tasks in flight never exceed the limit.
DepthExact ==
    Counted =>
        LET running == Cardinality({w \in Workers : worker[w] \in {"running", "uncount"}})
            pushing == Cardinality({s \in Submitters : sub[s] = "push"})
            undoing == Cardinality({s \in Submitters : sub[s] = "undo"})
        IN  /\ depth = Len(tasks) + running + pushing + undoing
            /\ Len(tasks) + running + pushing <= Limit

\* The destructor's joins return only when every task has run.
StoppedIsDrained ==
    (\A w \in Workers : worker[w] = "gone") => finished = 1..accepted

\* An accepted task is run: no notification is lost and no worker sleeps on a
\* queue that is not empty for ever.
AcceptedRuns == \A n \in 1..MaxTasks : accepted >= n ~> n \in finished
=============================================================================
