--------------------------- MODULE ThreadPoolProofs ---------------------------
(***************************************************************************)
(* Proofs about ThreadPool for any number of workers and tasks: the type   *)
(* invariant, that the destructor waits for every accepted task, and that  *)
(* no worker sleeps on while tasks wait for one.                           *)
(***************************************************************************)
EXTENDS ThreadPool, FiniteSetTheorems, TLAPS

LEMMA TypeInit == Init => TypeOK
BY PoolAssumption DEF Init, TypeOK

LEMMA ProceedType ==
  ASSUME TypeOK, NEW w \in Workers, Ready, Proceed(w)
  PROVE  /\ tasks' \in Seq(Tasks)
         /\ \/ /\ ~running /\ tasks = <<>> /\ UNCHANGED <<tasks, task>>
               /\ pc' = [pc EXCEPT ![w] = "exited"]
            \/ /\ tasks # <<>> /\ Len(tasks') = Len(tasks) - 1
               /\ tasks' = Tail(tasks) /\ Head(tasks) \in Tasks
               /\ task' = [task EXCEPT ![w] = Head(tasks)]
               /\ pc' = [pc EXCEPT ![w] = "run"]
<1>1. CASE MayExit
  BY <1>1 DEF Proceed, MayExit, TypeOK
<1>2. CASE ~MayExit
  <2>1. tasks # <<>>
    BY <1>2 DEF Ready, MayExit
  <2>2. /\ tasks' = Tail(tasks) /\ task' = [task EXCEPT ![w] = Head(tasks)]
        /\ pc' = [pc EXCEPT ![w] = "run"]
    BY <1>2 DEF Proceed
  <2>3. /\ Head(tasks) \in Tasks /\ Tail(tasks) \in Seq(Tasks)
        /\ Len(Tail(tasks)) = Len(tasks) - 1
    BY <2>1 DEF TypeOK
  <2>4. QED
    BY <2>1, <2>2, <2>3
<1>3. QED
  BY <1>1, <1>2

LEMMA TypeStep ==
  ASSUME TypeOK, [Next]_vars
  PROVE  TypeOK'
<1> USE PoolAssumption DEF TypeOK, Threads, poolVars
<1>1. ASSUME NEW t \in Threads, Notify(t)
      PROVE  TypeOK'
  BY <1>1 DEF Notify, Unnotified
<1>2. ASSUME NEW t \in Threads, NEW x \in Tasks, Submit(t, x)
      PROVE  TypeOK'
  <2>1. tasks' \in Seq(Tasks)
    BY <1>2 DEF Submit, Queued
  <2>2. QED
    BY <1>2, <2>1 DEF Submit, OweNotify
<1>3. ASSUME NEW w \in Workers, Check(w) \/ Wake(w)
      PROVE  TypeOK'
  <2>1. CASE Ready /\ Proceed(w)
    <3>1. pc[w] \in {"check", "asleep"} /\ task[w] = NoTask /\ goal[w] = NoTask
      BY <1>3 DEF Check, Wake
    <3>2. notified' \subseteq Workers /\ UNCHANGED <<poolVars, goal, done>>
      BY <1>3 DEF Check, Wake
    <3>3. CASE tasks' = tasks /\ task' = task /\ pc' = [pc EXCEPT ![w] = "exited"]
      BY <3>1, <3>2, <3>3
    <3>4. CASE /\ tasks' \in Seq(Tasks) /\ Head(tasks) \in Tasks
               /\ task' = [task EXCEPT ![w] = Head(tasks)]
               /\ pc' = [pc EXCEPT ![w] = "run"]
      BY <3>1, <3>2, <3>4
    <3>5. QED
      BY <2>1, <3>3, <3>4, ProceedType
  <2>2. CASE Check(w) /\ ~Ready
    BY <2>2 DEF Check
  <2>3. QED
    BY <1>3, <2>1, <2>2 DEF Check, Wake
<1>4. ASSUME NEW w \in Workers, SleepOn(w)
      PROVE  TypeOK'
  BY <1>4 DEF SleepOn
<1>5. ASSUME NEW w \in Workers, NEW x \in Tasks, Await(w, x)
      PROVE  TypeOK'
  BY <1>5 DEF Await
<1>6. ASSUME NEW w \in Workers, Resume(w)
      PROVE  TypeOK'
  BY <1>6 DEF Resume
<1>7. ASSUME NEW w \in Workers, Finish(w)
      PROVE  TypeOK'
  BY <1>7 DEF Finish, Released
<1>8. CASE Stop \/ NotifyAll \/ Join
  BY <1>8 DEF Stop, NotifyAll, WakeAll, Unnotified, Join
<1>9. CASE UNCHANGED vars
  BY <1>9 DEF vars
<1>10. QED
  BY <1>1, <1>2, <1>3, <1>4, <1>5, <1>6, <1>7, <1>8, <1>9 DEF Next, Working

\* Every variable of the pool keeps its type, and a worker holds a task, or
\* waits for one, exactly while it is in its body.
THEOREM TypeCorrect == Spec => []TypeOK
<1>1. Init => TypeOK
  BY TypeInit
<1>2. TypeOK /\ [Next]_vars => TypeOK'
  BY TypeStep
<1>3. QED
  BY <1>1, <1>2, PTL DEF Spec

-----------------------------------------------------------------------------
(* The destructor *)

\* An accepted task is queued, running or done; a worker has left only after
\* the shutdown and an empty queue; the destructor has returned only after all
\* of them have left.
Queueing(x) == \E i \in 1 .. Len(tasks) : tasks[i] = x
PlaceInv == \A x \in Accepted :
              x \in done \/ Queueing(x) \/ \E w \in Workers : task[w] = x
ExitInv == \A w \in Workers : pc[w] = "exited" => ~running /\ tasks = <<>>
OwnerInv == owner = "gone" => \A w \in Workers : pc[w] = "exited"
ShutdownInv == PlaceInv /\ ExitInv /\ OwnerInv

LEMMA SubmitShutdown ==
  ASSUME TypeOK, ShutdownInv, NEW t \in Threads, NEW x \in Tasks, Submit(t, x)
  PROVE  ShutdownInv'
<1> USE DEF TypeOK, ShutdownInv
<1>1. /\ running /\ tasks' = Append(tasks, x)
      /\ \A y \in Tasks : rank'[y] > 0 => rank[y] > 0 \/ y = x
      /\ UNCHANGED <<running, pc, task, owner, done>>
  BY DEF Submit, Queued
<1>2. \A y \in Tasks : Queueing(y) \/ y = x => Queueing(y)'
  <2>1. /\ Len(tasks') = Len(tasks) + 1 /\ tasks'[Len(tasks) + 1] = x
        /\ \A i \in 1 .. Len(tasks) : tasks'[i] = tasks[i]
    BY <1>1
  <2>2. QED
    BY <2>1 DEF Queueing
<1>3. PlaceInv'
  BY <1>1, <1>2 DEF PlaceInv, Accepted
<1>4. QED
  BY <1>1, <1>3 DEF ExitInv, OwnerInv

LEMMA ProceedShutdown ==
  ASSUME TypeOK, ShutdownInv, NEW w \in Workers, pc[w] \in {"check", "asleep"},
         Ready, Proceed(w), UNCHANGED <<poolVars, done>>
  PROVE  ShutdownInv'
<1> USE DEF TypeOK, ShutdownInv, poolVars
<1>1. task[w] = NoTask
  OBVIOUS
<1>2. OwnerInv'
  BY DEF OwnerInv
<1>3. CASE ~running /\ tasks = <<>> /\ UNCHANGED <<tasks, task>> /\ pc' = [pc EXCEPT ![w] = "exited"]
  <2>1. PlaceInv'
    BY <1>3 DEF PlaceInv, Accepted, Queueing
  <2>2. ExitInv'
    BY <1>3 DEF ExitInv
  <2>3. QED
    BY <1>2, <2>1, <2>2
<1>4. CASE /\ tasks # <<>> /\ tasks' = Tail(tasks)
           /\ task' = [task EXCEPT ![w] = Head(tasks)]
           /\ pc' = [pc EXCEPT ![w] = "run"]
  <2>1. ASSUME NEW x \in Tasks, Queueing(x)
        PROVE  Queueing(x)' \/ task'[w] = x
    <3>1. PICK i \in 1 .. Len(tasks) : tasks[i] = x
      BY <2>1 DEF Queueing
    <3>2. CASE i = 1
      BY <1>4, <3>1, <3>2
    <3>3. CASE i # 1
      <4>1. i - 1 \in 1 .. Len(tasks') /\ tasks'[i - 1] = x
        BY <1>4, <3>1, <3>3
      <4>2. QED
        BY <4>1 DEF Queueing
    <3>4. QED
      BY <3>2, <3>3
  <2>2. PlaceInv'
    <3>1. \A v \in Workers : task[v] # NoTask => task'[v] = task[v]
      BY <1>1, <1>4
    <3>2. QED
      BY <2>1, <3>1, PoolAssumption DEF PlaceInv, Accepted
  <2>3. ExitInv'
    BY <1>4 DEF ExitInv
  <2>4. QED
    BY <1>2, <2>2, <2>3
<1>5. QED
  <2>1. \/ ~running /\ tasks = <<>> /\ UNCHANGED <<tasks, task>> /\ pc' = [pc EXCEPT ![w] = "exited"]
        \/ /\ tasks # <<>> /\ tasks' = Tail(tasks)
           /\ task' = [task EXCEPT ![w] = Head(tasks)]
           /\ pc' = [pc EXCEPT ![w] = "run"]
    BY ProceedType
  <2>2. QED
    BY <1>3, <1>4, <2>1

\* A step that moves no task and lets no worker leave.
LEMMA ShutdownFrame ==
  ASSUME ShutdownInv, UNCHANGED <<tasks, running, task, owner, done, rank>>,
         \A v \in Workers : pc'[v] = "exited" <=> pc[v] = "exited"
  PROVE  ShutdownInv'
BY DEF ShutdownInv, PlaceInv, ExitInv, OwnerInv, Accepted, Queueing

LEMMA ShutdownStep ==
  ASSUME TypeOK, ShutdownInv, [Next]_vars
  PROVE  ShutdownInv'
<1> USE DEF TypeOK, ShutdownInv, PlaceInv, ExitInv, OwnerInv, Accepted, Queueing, poolVars
<1>1. ASSUME NEW w \in Workers, Check(w) \/ Wake(w)
      PROVE  ShutdownInv'
  <2>1. CASE Ready /\ Proceed(w)
    BY <1>1, <2>1, ProceedShutdown DEF Check, Wake
  <2>2. CASE Check(w) /\ ~Ready
    BY <2>2 DEF Check
  <2>3. QED
    BY <1>1, <2>1, <2>2 DEF Check, Wake
<1>2. ASSUME NEW w \in Workers, NEW x \in Tasks, Await(w, x)
      PROVE  ShutdownInv'
  BY <1>2 DEF Await
<1>3. ASSUME NEW w \in Workers, Resume(w) \/ SleepOn(w)
      PROVE  ShutdownInv'
  <2>1. /\ UNCHANGED <<tasks, running, task, owner, done, rank>>
        /\ \A v \in Workers : pc'[v] = "exited" <=> pc[v] = "exited"
    BY <1>3 DEF Resume, SleepOn
  <2>2. QED
    BY <2>1, ShutdownFrame
<1>4. ASSUME NEW w \in Workers, Finish(w)
      PROVE  ShutdownInv'
  <2>1. \A v \in Workers : task'[v] = task[v] \/ task[v] \in done'
    BY <1>4 DEF Finish, Released
  <2>2. PlaceInv'
    BY <1>4, <2>1 DEF Finish
  <2>3. QED
    BY <1>4, <2>2 DEF Finish
<1>5. ASSUME NEW t \in Threads, Notify(t)
      PROVE  ShutdownInv'
  BY <1>5 DEF Notify
<1>6. CASE Stop \/ NotifyAll \/ Join
  BY <1>6, SMTT(20) DEF Stop, NotifyAll, Join
<1>7. CASE UNCHANGED vars
  BY <1>7 DEF vars
<1>8. QED
  BY <1>1, <1>2, <1>3, <1>4, <1>5, <1>6, <1>7, SubmitShutdown DEF Next, Working

\* The destructor returns only after every task that submit() accepted has run
\* to its end, those submitted by other tasks during the shutdown race included.
THEOREM DestructorCorrect == Spec => []DestructorWaits
<1>1. Init => ShutdownInv
  BY DEF Init, ShutdownInv, PlaceInv, ExitInv, OwnerInv, Accepted
<1>2. TypeOK /\ ShutdownInv /\ [Next]_vars => ShutdownInv'
  BY ShutdownStep
<1>3. TypeOK /\ ShutdownInv => DestructorWaits
  <2> SUFFICES ASSUME TypeOK, ShutdownInv, owner = "gone"
               PROVE  Accepted \subseteq done
    BY DEF DestructorWaits
  <2>1. \A w \in Workers : pc[w] = "exited" /\ task[w] = NoTask
    BY DEF ShutdownInv, OwnerInv, TypeOK
  <2>2. tasks = <<>>
    BY <2>1, PoolAssumption DEF ShutdownInv, ExitInv
  <2>3. QED
    BY <2>1, <2>2, PoolAssumption DEF ShutdownInv, PlaceInv, Queueing, Accepted
<1>4. QED
  BY <1>1, <1>2, <1>3, TypeCorrect, PTL DEF Spec

-----------------------------------------------------------------------------
(* Idle workers *)

\* Both sets of wakeups are finite, so that adding or taking one counts.
LEMMA Finite ==
  ASSUME TypeOK
  PROVE  /\ IsFiniteSet(notifying) /\ Cardinality(notifying) \in Nat
         /\ IsFiniteSet(notified) /\ Cardinality(notified) \in Nat
<1>1. IsFiniteSet(Threads)
  BY PoolAssumption, FS_Singleton, FS_Union DEF Threads
<1>2. QED
  BY <1>1, PoolAssumption, FS_Subset, FS_CardinalityType DEF TypeOK

\* The wakeups on their way.
Wakeups == Cardinality(notifying) + Cardinality(notified)

LEMMA SubmitIdle ==
  ASSUME TypeOK, NoIdleWorker, NEW t \in Threads, NEW x \in Tasks, Submit(t, x)
  PROVE  NoIdleWorker'
<1>1. t \notin notifying /\ notifying' = notifying \union {t} /\ UNCHANGED <<pc, notified>>
  BY DEF Submit, MaySubmit, OweNotify
<1>2. Cardinality(notifying') = Cardinality(notifying) + 1
  BY <1>1, Finite, FS_AddElement
<1>3. Len(tasks') = Len(tasks) + 1
  BY DEF Submit, Queued, TypeOK
<1>4. QED
  BY <1>1, <1>2, <1>3, Finite DEF NoIdleWorker, Unnotified, TypeOK

LEMMA NotifyIdle ==
  ASSUME TypeOK, NoIdleWorker, NEW t \in Threads, Notify(t)
  PROVE  NoIdleWorker'
<1>1. /\ t \in notifying /\ notifying' = notifying \ {t}
      /\ UNCHANGED <<pc, tasks>>
  BY DEF Notify
<1>2. CASE Unnotified = {} /\ notified' = notified
  BY <1>1, <1>2 DEF NoIdleWorker, Unnotified
<1>3. CASE \E w \in Unnotified : notified' = notified \union {w}
  <2>1. PICK w \in Unnotified : notified' = notified \union {w}
    BY <1>3
  <2>2. Cardinality(notifying') = Cardinality(notifying) - 1
    BY <1>1, Finite, FS_RemoveElement
  <2>3. Cardinality(notified') = Cardinality(notified) + 1
    BY <2>1, Finite, FS_AddElement DEF Unnotified
  <2>4. Len(tasks) <= Wakeups
    BY <2>1 DEF NoIdleWorker, Wakeups
  <2>5. QED
    BY <1>1, <2>2, <2>3, <2>4, Finite DEF NoIdleWorker, Wakeups, TypeOK
<1>4. QED
  BY <1>2, <1>3 DEF Notify

\* A worker that takes a task takes one wakeup with it at most; with an empty
\* queue there is nothing to show.
LEMMA ProceedIdle ==
  ASSUME TypeOK, NoIdleWorker, NEW w \in Workers, pc[w] \in {"check", "asleep"},
         Ready, Proceed(w), UNCHANGED notifying,
         notified' \in {notified, notified \ {w}}
  PROVE  NoIdleWorker'
<1>1. CASE tasks = <<>> /\ tasks' = tasks
  <2>1. Len(tasks') = 0
    BY <1>1
  <2>2. Cardinality(notified') \in Nat
    BY Finite, FS_Subset, FS_CardinalityType
  <2>3. QED
    BY <2>1, <2>2, Finite DEF NoIdleWorker
<1>2. CASE Len(tasks') = Len(tasks) - 1 /\ pc' = [pc EXCEPT ![w] = "run"]
  <2>1. Unnotified' \subseteq Unnotified
    BY <1>2 DEF Unnotified, TypeOK
  <2>2. Cardinality(notified') \in Nat /\ Cardinality(notified') >= Cardinality(notified) - 1
    <3>1. CASE notified' = notified \ {w}
      <4>1. IsFiniteSet(notified \ {w})
        BY Finite, FS_RemoveElement
      <4>2. Cardinality(notified \ {w}) \in {Cardinality(notified) - 1, Cardinality(notified)}
        BY Finite, FS_RemoveElement
      <4>3. Cardinality(notified \ {w}) \in Nat
        BY <4>1, FS_CardinalityType
      <4>4. QED
        BY <3>1, <4>2, <4>3, Finite
    <3>2. CASE notified' = notified
      BY <3>2, Finite
    <3>3. QED
      BY <3>1, <3>2
  <2>3. QED
    BY <1>2, <2>1, <2>2, Finite DEF NoIdleWorker, TypeOK
<1>3. QED
  BY <1>1, <1>2, ProceedType

LEMMA IdleStep ==
  ASSUME TypeOK, NoIdleWorker, [Next]_vars
  PROVE  NoIdleWorker'
<1>1. (UNCHANGED <<tasks, notifying, notified>> /\ Unnotified' \subseteq Unnotified)
      => NoIdleWorker'
  BY DEF NoIdleWorker
<1>2. ASSUME NEW w \in Workers, Check(w) \/ Wake(w)
      PROVE  NoIdleWorker'
  <2>1. CASE Ready /\ Proceed(w)
    BY <1>2, <2>1, ProceedIdle DEF Check, Wake, poolVars
  <2>2. CASE Check(w) /\ ~Ready
    <3>1. tasks' = <<>> /\ UNCHANGED <<notifying, notified>>
      BY <2>2 DEF Check, Ready, poolVars
    <3>2. QED
      BY <3>1, Finite DEF NoIdleWorker
  <2>3. QED
    BY <1>2, <2>1, <2>2 DEF Check, Wake
<1>3. ASSUME NEW w \in Workers, SleepOn(w)
      PROVE  NoIdleWorker'
  <2>1. /\ tasks' = <<>> /\ UNCHANGED notifying
        /\ notified' = notified \ {w}
    BY <1>3 DEF SleepOn, Ready, poolVars
  <2>2. Cardinality(notified') \in Nat
    BY <2>1, Finite, FS_Subset, FS_CardinalityType
  <2>3. QED
    BY <2>1, <2>2, Finite DEF NoIdleWorker
<1>4. ASSUME NEW w \in Workers,
             Resume(w) \/ Finish(w) \/ \E x \in Tasks : Await(w, x)
      PROVE  NoIdleWorker'
  <2>1. /\ UNCHANGED <<tasks, notifying, notified>>
        /\ \E step \in {"run", "check", "await"} : pc' = [pc EXCEPT ![w] = step]
    BY <1>4 DEF Resume, Finish, Await, poolVars
  <2>2. Unnotified' \subseteq Unnotified
    BY <2>1 DEF Unnotified, TypeOK
  <2>3. QED
    BY <1>1, <2>1, <2>2
<1>5. CASE Stop \/ Join
  BY <1>1, <1>5 DEF Stop, Join, Unnotified
<1>6. CASE NotifyAll
  <2>1. Unnotified' = {}
    BY <1>6 DEF NotifyAll, WakeAll, Unnotified
  <2>2. QED
    BY <2>1 DEF NoIdleWorker
<1>7. CASE UNCHANGED vars
  BY <1>1, <1>7 DEF vars, Unnotified
<1>8. QED
  BY <1>2, <1>3, <1>4, <1>5, <1>6, <1>7, SubmitIdle, NotifyIdle DEF Next, Working

\* No worker sleeps on while more tasks are queued than wakeups are on their
\* way, for any number of workers, submitters and tasks.
THEOREM NoIdleWorkerCorrect == Spec => []NoIdleWorker
<1>1. Init => NoIdleWorker
  BY DEF Init, NoIdleWorker, Unnotified
<1>2. TypeOK /\ NoIdleWorker /\ [Next]_vars => NoIdleWorker'
  BY IdleStep
<1>3. QED
  BY <1>1, <1>2, TypeCorrect, PTL DEF Spec
=============================================================================
