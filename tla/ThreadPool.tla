------------------------------ MODULE ThreadPool ------------------------------
(***************************************************************************)
(* nodec::concurrent::ThreadPoolExecutor                                   *)
(* (include/nodec/concurrent/thread_pool_executor.hpp).                    *)
(*                                                                         *)
(* The owner creates the pool, submits tasks and destroys it; tasks submit *)
(* tasks too, and may wait for the future of a task that was submitted     *)
(* before them. As in EventLoop each critical section of tasks_mutex is    *)
(* one action, and notify_one(), called after the unlock, is one of its    *)
(* own. Threads other than the owner and the workers submit as the owner   *)
(* does: their calls must be over before it destroys the pool.             *)
(***************************************************************************)
EXTENDS Integers, Sequences, FiniteSets

CONSTANTS
  Workers,   \* the thread_count_ threads of the pool
  Owner,     \* the thread that owns it
  Tasks,     \* the packaged tasks; each is submitted at most once
  NoTask     \* no task

\* hardware_concurrency() may be 0, and a pool without threads runs nothing.
ASSUME PoolAssumption ==
  /\ Workers # {} /\ IsFiniteSet(Workers)
  /\ Owner \notin Workers
  /\ NoTask \notin Tasks

Threads == Workers \union {Owner}

VARIABLES
  tasks,      \* the queue
  running,    \* false once the destructor has begun
  pc,         \* where each worker is
  task,       \* the task it runs
  goal,       \* the task whose future it waits for
  notifying,  \* threads between the unlock and notify_one() in push_task()
  notified,   \* sleeping workers that a notification has picked
  owner,      \* where the owner is
  done,       \* the tasks whose future is ready
  rank,       \* the place of a task in the order of submission, 0 before (history)
  pushes      \* how many tasks were pushed                            (history)

vars == <<tasks, running, pc, task, goal, notifying, notified, owner, done, rank, pushes>>
poolVars == <<running, notifying, owner, rank, pushes>>

Accepted == {x \in Tasks : rank[x] > 0}

-----------------------------------------------------------------------------
(* submit() *)

\* The owner before the destructor, or a worker inside a task.
MaySubmit(t) == /\ t \notin notifying
                /\ IF t = Owner THEN owner = "using" ELSE pc[t] = "run"

\* The queue after push().
PushFront(x) == <<x>> \o tasks                                 \* defect
Queued(x) == Append(tasks, x)

OweNothing(t) == notifying                                     \* defect
OweNotify(t) == notifying \union {t}

\* push_task: after the shutdown it throws and changes nothing; the exception
\* goes to the future of the task that called it.
Submit(t, x) ==
  /\ MaySubmit(t)
  /\ x \notin Accepted
  /\ running
  /\ tasks' = Queued(x)
  /\ rank' = [rank EXCEPT ![x] = pushes + 1]
  /\ pushes' = pushes + 1
  /\ notifying' = OweNotify(t)
  /\ UNCHANGED <<running, pc, task, goal, notified, owner, done>>

Unnotified == {w \in Workers : pc[w] = "asleep" /\ w \notin notified}

\* condition.notify_one(): one of the workers blocked in wait, if any.
Notify(t) ==
  /\ t \in notifying
  /\ notifying' = notifying \ {t}
  /\ IF Unnotified = {}
     THEN UNCHANGED notified
     ELSE \E w \in Unnotified : notified' = notified \union {w}
  /\ UNCHANGED <<tasks, running, pc, task, goal, owner, done, rank, pushes>>

-----------------------------------------------------------------------------
(* worker() *)

\* The predicate of condition.wait.
OnlyTasks == tasks # <<>>                                      \* defect
Ready == tasks # <<>> \/ ~running

\* After the shutdown a worker goes on until the queue is empty.
StopAtOnce == ~running                                         \* defect
MayExit == ~running /\ tasks = <<>>

\* With the predicate true: return, or take the first task.
Proceed(w) ==
  \/ /\ MayExit
     /\ pc' = [pc EXCEPT ![w] = "exited"]
     /\ UNCHANGED <<tasks, task>>
  \/ /\ ~MayExit
     /\ tasks' = Tail(tasks)
     /\ task' = [task EXCEPT ![w] = Head(tasks)]
     /\ pc' = [pc EXCEPT ![w] = "run"]

\* The lock, the first look at the predicate, and the block in wait.
Check(w) ==
  /\ pc[w] = "check"
  /\ \/ Ready /\ Proceed(w)
     \/ ~Ready /\ pc' = [pc EXCEPT ![w] = "asleep"] /\ UNCHANGED <<tasks, task>>
  /\ UNCHANGED <<poolVars, goal, notified, done>>

\* A wakeup, notified or spurious, that finds the predicate true.
Wake(w) ==
  /\ pc[w] = "asleep"
  /\ Ready
  /\ Proceed(w)
  /\ notified' = notified \ {w}
  /\ UNCHANGED <<poolVars, goal, done>>

\* Another worker took the task: wait blocks again.
SleepOn(w) ==
  /\ pc[w] = "asleep"
  /\ w \in notified
  /\ ~Ready
  /\ notified' = notified \ {w}
  /\ UNCHANGED <<poolVars, tasks, pc, task, goal, done>>

\* A task waits for the future of an earlier one. (Waiting for a later one may
\* leave every worker waiting; that is for the program to avoid.)
Await(w, x) ==
  /\ pc[w] = "run" /\ w \notin notifying
  /\ x \in Accepted \ done /\ rank[x] < rank[task[w]]
  /\ pc' = [pc EXCEPT ![w] = "await"]
  /\ goal' = [goal EXCEPT ![w] = x]
  /\ UNCHANGED <<poolVars, tasks, task, notified, done>>

Resume(w) ==
  /\ pc[w] = "await"
  /\ goal[w] \in done
  /\ pc' = [pc EXCEPT ![w] = "run"]
  /\ goal' = [goal EXCEPT ![w] = NoTask]
  /\ UNCHANGED <<poolVars, tasks, task, notified, done>>

\* The function object of the task is gone at the end of the loop's body.
HeldOn(w) == task                                              \* defect
Released(w) == [task EXCEPT ![w] = NoTask]

\* The task returns or throws: packaged_task makes its future ready.
Finish(w) ==
  /\ pc[w] = "run" /\ w \notin notifying
  /\ done' = done \union {task[w]}
  /\ task' = Released(w)
  /\ pc' = [pc EXCEPT ![w] = "check"]
  /\ UNCHANGED <<poolVars, tasks, goal, notified>>

-----------------------------------------------------------------------------
(* The destructor *)

Stop ==
  /\ owner = "using" /\ Owner \notin notifying
  /\ running' = FALSE
  /\ owner' = "stopping"
  /\ UNCHANGED <<tasks, pc, task, goal, notifying, notified, done, rank, pushes>>

WakeOne == {{w} : w \in Unnotified} \union {{}}                \* defect
WakeAll == {Unnotified}
NotifyAll ==
  /\ owner = "stopping"
  /\ \E woken \in WakeAll : notified' = notified \union woken
  /\ owner' = "joining"
  /\ UNCHANGED <<tasks, running, pc, task, goal, notifying, done, rank, pushes>>

\* The joins end when all the threads have.
Join ==
  /\ owner = "joining"
  /\ \A w \in Workers : pc[w] = "exited"
  /\ owner' = "gone"
  /\ UNCHANGED <<tasks, running, pc, task, goal, notifying, notified, done, rank, pushes>>

-----------------------------------------------------------------------------
Init ==
  /\ tasks = <<>> /\ running = TRUE /\ owner = "using"
  /\ pc = [w \in Workers |-> "check"]
  /\ task = [w \in Workers |-> NoTask] /\ goal = [w \in Workers |-> NoTask]
  /\ notifying = {} /\ notified = {}
  /\ done = {} /\ rank = [x \in Tasks |-> 0] /\ pushes = 0

Working(w) == Check(w) \/ Wake(w) \/ Resume(w) \/ Finish(w)

Next ==
  \/ \E t \in Threads : Notify(t) \/ \E x \in Tasks : Submit(t, x)
  \/ \E w \in Workers : Working(w) \/ SleepOn(w) \/ \E x \in Tasks : Await(w, x)
  \/ Stop \/ NotifyAll \/ Join

\* Every thread runs: a submit() that began completes, a task ends unless it
\* waits for ever, a notified worker wakes, a destructor that began goes on.
\* A spurious wakeup is possible and not promised.
AwakeWorking(w) == (pc[w] = "asleep" => w \in notified) /\ Working(w)
Fairness == /\ \A t \in Threads : WF_vars(Notify(t))
            /\ \A w \in Workers : WF_vars(AwakeWorking(w))
            /\ WF_vars(NotifyAll) /\ WF_vars(Join)

Spec == Init /\ [][Next]_vars
FairSpec == Spec /\ Fairness

-----------------------------------------------------------------------------
(* Properties *)

TypeOK ==
  /\ tasks \in Seq(Tasks)
  /\ running \in BOOLEAN
  /\ pc \in [Workers -> {"check", "asleep", "run", "await", "exited"}]
  /\ task \in [Workers -> Tasks \union {NoTask}]
  /\ goal \in [Workers -> Tasks \union {NoTask}]
  /\ notifying \subseteq Threads
  /\ notified \subseteq Workers
  /\ owner \in {"using", "stopping", "joining", "gone"}
  /\ done \subseteq Tasks
  /\ rank \in [Tasks -> Nat]
  /\ pushes \in Nat
  /\ \A w \in Workers : task[w] # NoTask <=> pc[w] \in {"run", "await"}
  /\ \A w \in Workers : goal[w] # NoTask <=> pc[w] = "await"

\* No worker sleeps on while more tasks are queued than wakeups are on their
\* way: the pool runs as many tasks at once as it can, though notify_one()
\* comes after the unlock and workers that are awake take tasks meant for
\* others.
NoIdleWorker ==
  Unnotified # {} => Len(tasks) <= Cardinality(notifying) + Cardinality(notified)

\* thread_pool_executor.hpp:38: when the destructor returns, every task that
\* submit() accepted has run to its end.
DestructorWaits == owner = "gone" => Accepted \subseteq done

\* Every task is run, and every future becomes ready, also when tasks wait for
\* the tasks submitted before them: the queue starts these first.
EveryTaskEnds == \A x \in Tasks : x \in Accepted ~> x \in done

\* The destructor returns.
DestructorReturns == owner = "stopping" ~> owner = "gone"
=============================================================================
