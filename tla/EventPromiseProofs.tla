-------------------------- MODULE EventPromiseProofs --------------------------
(***************************************************************************)
(* EventPromise for any number of promises and values: what is settled     *)
(* stays settled, no callback is called twice, nothing hangs, adoption and *)
(* finally() pass outcomes on. All of it rests on each promise having one  *)
(* cause that will settle it.                                              *)
(***************************************************************************)
EXTENDS EventPromise, TLAPS

-----------------------------------------------------------------------------
(* Types *)

States == Settled \union {"Unborn", "Pending"}

\* A settled promise has a value, and only a settled one calls its slot; a
\* promise before its constructor has nothing.
Unborn(p) == slot[p] = NoReaction /\ source[p] = NoPromise /\ p \notin closers

TypeInv ==
  /\ TypeOK
  /\ firing # NoPromise => state[firing] \in Settled
  /\ \A p \in Promises : state[p] \in Settled => value[p] \in Values
  /\ \A p \in Promises : state[p] = "Unborn" => Unborn(p)

LEMMA TypeInit == Init => TypeInv
BY PromiseAssumption DEF Init, TypeInv, TypeOK, Settled, Unborn

\* A task for q, as AddTask makes it.
LEMMA TaskTypes ==
  ASSUME TypeOK, NEW kind \in Kinds \cup {"resolve"}, NEW q \in Promises,
         NEW s \in Settled, NEW v \in Values, AddTask(kind, q, s, v)
  PROVE  /\ tasks' \subseteq Tasks /\ handed' \in [Promises -> Nat]
         /\ \A p \in Promises : handed'[p] = IF p = q THEN handed[q] + 1 ELSE handed[p]
BY DEF TypeOK, AddTask, TaskFor, Tasks

LEMMA StoreTypes ==
  ASSUME TypeInv, NEW p \in Promises, NEW s \in Settled, NEW v \in Values, Store(p, s, v)
  PROVE  /\ state' \in [Promises -> States] /\ value' \in [Promises -> Values \cup {NoValue}]
         /\ firing' = p /\ firing' # NoPromise
         /\ \A x \in Promises : state'[x] = IF x = p THEN s ELSE state[x]
         /\ \A x \in Promises : value'[x] = IF x = p THEN v ELSE value[x]
BY PromiseAssumption DEF TypeInv, TypeOK, Store, States

LEMMA FireTypes == ASSUME TypeInv, Fire PROVE TypeInv'
<1> DEFINE p == firing
           r == slot[p]
<1>1. /\ p \in Promises /\ state[p] \in Settled /\ value[p] \in Values
      /\ r \in Reactions \cup {NoReaction}
      /\ UNCHANGED <<slot, source, closers, cleanups, replaced>>
  BY PromiseAssumption DEF Fire, TypeInv, TypeOK, history
<1>2. CASE Silent(p) /\ firing' = NoPromise /\ UNCHANGED <<state, value, tasks, handed>>
  BY <1>1, <1>2 DEF TypeInv, TypeOK, Unborn
<1>3. CASE /\ ~ Silent(p) /\ r.kind = "adopt" /\ Store(r.next, AdopterState(p), value[p])
           /\ UNCHANGED <<tasks, handed>>
  <2>1. r.next \in Promises /\ AdopterState(p) \in Settled
    BY <1>1, <1>3 DEF Silent, Reactions, AdopterState
  <2>2. QED
    BY <1>1, <1>3, <2>1, StoreTypes DEF TypeInv, TypeOK, Unborn, States, Settled
<1>4. CASE /\ ~ Silent(p) /\ r.kind # "adopt" /\ firing' = NoPromise
           /\ AddTask(r.kind, r.next, state[p], Captured(p)) /\ UNCHANGED <<state, value>>
  <2>1. r.next \in Promises /\ r.kind \in Kinds
    BY <1>1, <1>4 DEF Silent, Reactions
  <2>2. QED
    BY <1>1, <1>4, <2>1, TaskTypes DEF TypeInv, TypeOK, Captured, Unborn, Settled
<1>5. QED
  BY <1>1, <1>2, <1>3, <1>4 DEF Fire

LEMMA ConstructTypes ==
  ASSUME TypeInv, NEW p \in Promises, Construct(p)  PROVE TypeInv'
<1>1. CASE state' = [state EXCEPT ![p] = "Pending"] /\ UNCHANGED <<value, firing>>
  BY <1>1 DEF Construct, Quiet, TypeInv, TypeOK, Unborn, Settled, history
<1>2. CASE \E s \in Settled, v \in Values : Store(p, s, v)
  <2>1. PICK s \in Settled, v \in Values : Store(p, s, v)
    BY <1>2
  <2>2. QED
    BY <2>1, StoreTypes DEF Construct, TypeInv, TypeOK, Unborn, States, Settled, history
<1>3. QED
  BY <1>1, <1>2 DEF Construct

LEMMA SettleTypes ==
  ASSUME TypeInv, NEW p \in Promises, NEW s \in Settled, NEW v \in Values, Settle(p, s, v)
  PROVE  TypeInv'
BY StoreTypes DEF Settle, TypeInv, TypeOK, Unborn, States, Settled, history

LEMMA DelayTypes ==
  ASSUME TypeInv, NEW p \in Promises, Delay(p) PROVE TypeInv'
<1>1. PICK v \in Values : AddTask("resolve", p, "Fulfilled", v)
  BY DEF Delay
<1>2. "Fulfilled" \in Settled /\ TypeOK
  BY DEF Settled, TypeInv
<1>3. tasks' \subseteq Tasks /\ handed' \in [Promises -> Nat]
  BY <1>1, <1>2, TaskTypes
<1>4. QED
  BY <1>3 DEF Delay, Quiet, TypeInv, TypeOK, Unborn, Settled, history

\* A reaction r attached to p.
LEMMA AttachTypes ==
  ASSUME TypeInv, NEW p \in Promises, NEW kind \in Kinds, NEW q \in Promises,
         Attach(p, [kind |-> kind, next |-> q])
  PROVE  /\ tasks' \subseteq Tasks /\ handed' \in [Promises -> Nat] /\ replaced' \subseteq Promises
         /\ slot' \in [Promises -> Reactions \union {NoReaction}]
         /\ \A x \in Promises : state[x] = "Unborn" => slot'[x] = slot[x]
<1> DEFINE r == [kind |-> kind, next |-> q]
<1>1. r \in Reactions /\ r.kind = kind /\ r.next = q
  BY DEF Reactions
<1>2. CASE state[p] = "Pending" /\ slot' = [slot EXCEPT ![p] = r] /\ Replace(p)
           /\ UNCHANGED <<tasks, handed>>
  BY <1>1, <1>2 DEF Replace, TypeInv, TypeOK, Reactions, NoReaction
<1>3. CASE state[p] \in Settled /\ AddTask(r.kind, r.next, state[p], Captured(p))
           /\ UNCHANGED <<slot, replaced>>
  BY <1>1, <1>3, TaskTypes DEF TypeInv, TypeOK, Captured
<1>4. QED
  BY <1>2, <1>3 DEF Attach

LEMMA ReactTypes ==
  ASSUME TypeInv, NEW kind \in {"then", "catch_error"}, NEW p \in Promises, NEW q \in Promises,
         React(kind, p, q)
  PROVE  TypeInv'
<1>1. kind \in Kinds /\ Attach(p, [kind |-> kind, next |-> q])
  BY DEF React, Kinds
<1>2. QED
  BY <1>1, AttachTypes DEF React, Quiet, TypeInv, TypeOK, Unborn, Settled

LEMMA FinallyTypes ==
  ASSUME TypeInv, NEW p \in Promises, NEW q \in Promises, NEW r \in Promises, Finally(p, q, r)
  PROVE  TypeInv'
<1>1. /\ [kind |-> "finally_then", next |-> q] \in Reactions
      /\ [kind |-> "finally_catch", next |-> r] \in Reactions
      /\ "finally_then" \in Kinds
  BY DEF Reactions, Kinds
<1>2. /\ slot' \in [Promises -> Reactions \union {NoReaction}]
      /\ \A x \in Promises : state[x] = "Unborn" /\ x # q => slot'[x] = slot[x]
      /\ tasks' \subseteq Tasks /\ handed' \in [Promises -> Nat] /\ replaced' \subseteq Promises
  <2>1. CASE state[p] = "Pending"
    BY <1>1, <2>1 DEF Finally, Replace, TypeInv, TypeOK, Reactions, NoReaction, Settled
  <2>2. CASE state[p] \in Settled
    BY <1>1, <2>2, TaskTypes DEF Finally, TypeInv, TypeOK, Captured, Settled
  <2>3. QED
    BY <2>1, <2>2 DEF Finally
<1>3. QED
  BY <1>2 DEF Finally, Quiet, TypeInv, TypeOK, Unborn, Settled

-----------------------------------------------------------------------------
(* What a task does *)

\* The task settles its promise, whatever runs in it.
TaskStores(t) ==
  /\ \E s \in Settled, v \in Values : Store(t.next, s, v)
  /\ Done(t)
  /\ UNCHANGED <<slot, handed, source, closers, replaced>>
  /\ cleanups' \in [Promises -> Nat]

\* The task of delay() finds its promise settled.
Ignored(t) ==
  /\ t.kind = "resolve" /\ ~ MaySettle(t.next)
  /\ Done(t)
  /\ UNCHANGED <<state, value, firing, slot, handed, history>>

\* The task's promise waits for a pending one.
Adopted(t, inner) ==
  /\ t.kind \in {"then", "catch_error"}
  /\ Held(inner) /\ state[inner] = "Pending"
  /\ slot' = [slot EXCEPT ![inner] = [kind |-> "adopt", next |-> t.next]]
  /\ Replace(inner)
  /\ Done(t)
  /\ UNCHANGED <<state, value, firing, handed, source, closers, cleanups>>

LEMMA TaskCases ==
  ASSUME TypeInv, NEW t \in tasks, RunTask(t)
  PROVE  \/ Ignored(t)
         \/ TaskStores(t) /\ (t.kind = "resolve" => MaySettle(t.next))
         \/ \E inner \in Promises : Adopted(t, inner)
<1>1. /\ t.next \in Promises /\ t.state \in Settled /\ t.value \in Values
      /\ t.kind \in Kinds \cup {"resolve"} /\ cleanups \in [Promises -> Nat]
  BY DEF TypeInv, TypeOK, Tasks
<1>2. CASE PassOn(t)
  BY <1>1, <1>2 DEF PassOn, Ignored, TaskStores, history
<1>3. CASE CallbackEnds(t)
  BY <1>1, <1>3 DEF CallbackEnds, TaskStores, history
<1>4. CASE RunFinally(t)
  <2>1. cleanups' \in [Promises -> Nat] /\ t.kind # "resolve"
    <3> DEFINE c == Closer(t)
    <3>1. cleanups' = [cleanups EXCEPT ![c] = @ + 1] /\ t.kind # "resolve"
      BY <1>4 DEF RunFinally
    <3> HIDE DEF c
    <3>2. CASE c \in Promises
      BY <1>1, <3>1, <3>2
    <3>3. CASE c \notin Promises
      BY <1>1, <3>1, <3>3
    <3>4. QED
      BY <3>1, <3>2, <3>3
  <2>2. \E s \in Settled, v \in Values : Store(t.next, s, v)
    BY <1>1, <1>4 DEF RunFinally, Settled
  <2>3. QED
    BY <1>4, <2>1, <2>2 DEF RunFinally, TaskStores
<1>5. ASSUME NEW inner \in Promises, CallbackReturnsPromise(t, inner)
      PROVE  (TaskStores(t) /\ t.kind # "resolve") \/ Adopted(t, inner)
  BY <1>1, <1>5 DEF CallbackReturnsPromise, TaskStores, Adopted, TypeInv
<1>6. QED
  BY <1>2, <1>3, <1>4, <1>5 DEF RunTask

LEMMA TaskTypesKept ==
  ASSUME TypeInv, Quiet, NEW t \in tasks, RunTask(t)  PROVE TypeInv'
<1>1. t.next \in Promises /\ tasks \subseteq Tasks
  BY DEF TypeInv, TypeOK, Tasks
<1>2. CASE Ignored(t)
  BY <1>1, <1>2 DEF Ignored, Done, history, TypeInv, TypeOK, Unborn
<1>3. CASE TaskStores(t)
  <2>1. PICK s \in Settled, v \in Values : Store(t.next, s, v)
    BY <1>3 DEF TaskStores
  <2>2. QED
    BY <1>1, <1>3, <2>1, StoreTypes DEF TaskStores, Done, TypeInv, TypeOK, Unborn, States, Settled
<1>4. ASSUME NEW inner \in Promises, Adopted(t, inner)  PROVE TypeInv'
  <2>1. [kind |-> "adopt", next |-> t.next] \in Reactions
    BY <1>1 DEF Reactions
  <2>2. slot' \in [Promises -> Reactions \union {NoReaction}]
    BY <1>4, <2>1 DEF Adopted, TypeInv, TypeOK
  <2>3. replaced' \subseteq Promises
    BY <1>4 DEF Adopted, Replace, TypeInv, TypeOK, Reactions, NoReaction
  <2>4. \A x \in Promises : state[x] = "Unborn" => slot'[x] = slot[x]
    BY <1>4 DEF Adopted, TypeInv, TypeOK
  <2>5. QED
    BY <1>1, <1>4, <2>2, <2>3, <2>4 DEF Adopted, Done, TypeInv, TypeOK, Unborn
<1>5. QED
  BY <1>2, <1>3, <1>4, TaskCases

\* The cases of Next, with the kinds of reactions spelled out.
LEMMA TypeStep == ASSUME TypeInv, [Next]_vars PROVE TypeInv'
<1>1. CASE UNCHANGED vars
  BY <1>1 DEF vars, TypeInv, TypeOK, Unborn
<1>2. ASSUME NEW p \in Promises, NEW q \in Promises, Then(p, q) \/ CatchError(p, q)
      PROVE  TypeInv'
  BY <1>2, ReactTypes DEF Then, CatchError
<1>3. QED
  BY <1>1, <1>2, FireTypes, ConstructTypes, DelayTypes, SettleTypes, FinallyTypes,
     TaskTypesKept DEF Next

\* The state has the types of the code, whatever the program does: every task
\* takes a value with it, since only settled promises make one.
THEOREM TypeCorrect == Spec => []TypeOK
<1>1. TypeInv => TypeOK
  BY DEF TypeInv
<1>2. QED
  BY <1>1, TypeInit, TypeStep, PTL DEF Spec

-----------------------------------------------------------------------------
(* One cause for each derived promise *)

\* The slot of p will still settle a promise.
Active(p) == slot[p] # NoReaction /\ (state[p] = "Pending" \/ firing = p)

\* A promise that only a slot or a task settles, which it has not.
Waiting(q) == q \in Promises /\ source[q] # NoPromise /\ state[q] = "Pending"

SlotTargets == \A p \in Promises : Active(p) => Waiting(slot[p].next)

TaskTargets ==
  \A t \in tasks :
    IF t.kind = "resolve" THEN state[t.next] # "Unborn" /\ source[t.next] = NoPromise
    ELSE Waiting(t.next)

SlotsApart ==
  \A p, x \in Promises : Active(p) /\ Active(x) /\ slot[p].next = slot[x].next => p = x

TasksApart ==
  \A t, u \in tasks :
    t.kind # "resolve" /\ u.kind # "resolve" /\ t.next = u.next => t = u

SlotsTasksApart ==
  \A p \in Promises, t \in tasks : Active(p) => slot[p].next # t.next

CauseInv == SlotTargets /\ TaskTargets /\ SlotsApart /\ TasksApart /\ SlotsTasksApart

\* The program settles no promise that it got from then() and the like.
SettlesOwn == "settle_derived" \notin Usage

SameActive == \A x \in Promises : Active(x)' <=> Active(x)

LEMMA CauseInit == Init => CauseInv
BY DEF Init, CauseInv, SlotTargets, TaskTargets, SlotsApart, TasksApart, SlotsTasksApart, Active

\* Slots and promises of tasks, as the types have them.
LEMMA Facts ==
  ASSUME TypeInv
  PROVE  /\ \A p \in Promises : slot[p] # NoReaction => slot[p].next \in Promises /\ slot[p].kind \in Kinds \cup {"adopt"}
         /\ \A t \in tasks : t.next \in Promises /\ t.kind \in Kinds \cup {"resolve"}
         /\ firing # NoPromise => firing \in Promises /\ state[firing] \in Settled
         /\ \A p \in Promises : state[p] \in States
         /\ NoPromise \notin Promises
         /\ NoReaction.next = NoPromise /\ NoReaction.kind = "none"
BY PromiseAssumption DEF TypeInv, TypeOK, Reactions, Tasks, NoReaction, States

\* The promise firing stores into the one that adopted it.
LEMMA FireAdopts ==
  ASSUME TypeInv, CauseInv, Fire, ~ Silent(firing), slot[firing].kind = "adopt"
  PROVE  /\ Active(firing) /\ Waiting(slot[firing].next) /\ firing \in Promises
         /\ state[firing] \in Settled
         /\ Store(slot[firing].next, state[firing], value[firing])
         /\ \A x \in Promises : Active(x)' <=> Active(x) /\ x # firing
         /\ UNCHANGED <<slot, tasks, handed, history>>
<1> DEFINE p == firing
           q == slot[p].next
<1>1. /\ p \in Promises /\ state[p] \in Settled /\ slot[p] # NoReaction /\ Active(p)
      /\ UNCHANGED <<slot, tasks, handed, history>> /\ Store(q, state[p], value[p])
  BY Facts DEF Fire, Silent, Active, AdopterState
<1>2. Waiting(q)
  BY <1>1 DEF CauseInv, SlotTargets
<1>3. q # p
  BY <1>1, <1>2 DEF Waiting, Settled
<1>4. /\ firing' = q /\ state'[q] \in Settled
      /\ \A x \in Promises : x # q => state'[x] = state[x]
  BY <1>1, <1>2 DEF Store, Waiting, TypeInv, TypeOK
<1>5. \A x \in Promises : Active(x)' <=> Active(x) /\ x # p
  BY <1>1, <1>2, <1>3, <1>4 DEF Active, Waiting, Settled
<1>6. QED
  BY <1>1, <1>2, <1>5

\* The promise firing schedules its reaction.
LEMMA FireSchedules ==
  ASSUME TypeInv, CauseInv, Fire, ~ Silent(firing), slot[firing].kind # "adopt"
  PROVE  /\ Active(firing) /\ Waiting(slot[firing].next) /\ firing \in Promises
         /\ state[firing] \in Settled /\ slot[firing].kind \in Kinds
         /\ AddTask(slot[firing].kind, slot[firing].next, state[firing], value[firing])
         /\ \A x \in Promises : Active(x)' <=> Active(x) /\ x # firing
         /\ UNCHANGED <<state, value, slot, history>> /\ firing' = NoPromise
<1> DEFINE p == firing
<1>1. /\ p \in Promises /\ state[p] \in Settled /\ slot[p] # NoReaction /\ Active(p)
      /\ UNCHANGED <<state, value, slot, history>> /\ firing' = NoPromise
      /\ AddTask(slot[p].kind, slot[p].next, state[p], value[p]) /\ slot[p].kind \in Kinds
  BY Facts DEF Fire, Silent, Active, Captured
<1>2. Waiting(slot[p].next)
  BY <1>1 DEF CauseInv, SlotTargets
<1>3. \A x \in Promises : Active(x)' <=> Active(x) /\ x # p
  BY <1>1, PromiseAssumption DEF Active, Settled
<1>4. QED
  BY <1>1, <1>2, <1>3

LEMMA FireSilent ==
  ASSUME TypeInv, Fire, Silent(firing)
  PROVE  /\ UNCHANGED <<state, value, slot, tasks, handed, history>> /\ firing' = NoPromise
         /\ \A x \in Promises : Active(x)' <=> Active(x)
BY Facts DEF Fire, Silent, Active, Settled

LEMMA FireCauses == ASSUME TypeInv, CauseInv, Fire PROVE CauseInv'
<1> USE DEF CauseInv, SlotTargets, TaskTargets, SlotsApart, TasksApart, SlotsTasksApart
<1>1. CASE Silent(firing)
  BY <1>1, FireSilent DEF Waiting, history
<1>2. CASE ~ Silent(firing) /\ slot[firing].kind = "adopt"
  <2> DEFINE q == slot[firing].next
  <2>1. \A x \in Promises : x # q /\ Waiting(x) => Waiting(x)'
    BY <1>2, FireAdopts DEF Store, Waiting, TypeInv, TypeOK, history
  <2>2. UNCHANGED <<slot, tasks, source>> /\ state' = [state EXCEPT ![q] = state[firing]]
    BY <1>2, FireAdopts DEF Store, history
  <2>3. SlotTargets' /\ SlotsApart' /\ TasksApart' /\ SlotsTasksApart'
    BY <1>2, <2>1, <2>2, FireAdopts, Facts DEF Active
  <2>4. TaskTargets'
    BY <1>2, <2>1, <2>2, FireAdopts, Facts DEF Waiting, Settled, TypeInv, TypeOK
  <2>5. QED
    BY <2>3, <2>4
<1>3. CASE ~ Silent(firing) /\ slot[firing].kind # "adopt"
  <2> DEFINE q == slot[firing].next
             t == TaskFor(slot[firing].kind, q, state[firing], value[firing])
  <2>1. tasks' = tasks \cup {t} /\ t.next = q /\ t.kind # "resolve" /\ Waiting(q)
    BY <1>3, FireSchedules DEF AddTask, TaskFor, Kinds
  <2>2. UNCHANGED <<slot, source, state>>
    BY <1>3, FireSchedules DEF history
  <2>3. \A u \in tasks : u.next # q
    BY <1>3, FireSchedules
  <2> HIDE DEF t
  <2>4. SlotTargets' /\ TaskTargets' /\ SlotsApart' /\ TasksApart' /\ SlotsTasksApart'
    BY <1>3, <2>1, <2>2, <2>3, FireSchedules DEF Waiting
  <2>5. QED
    BY <2>4
<1>4. QED
  BY <1>1, <1>2, <1>3

\* Nothing waits for a promise that is not there yet.
LEMMA UnbornFree ==
  ASSUME TypeInv, CauseInv, NEW q \in Promises, state[q] = "Unborn"
  PROVE  /\ \A x \in Promises : Active(x) => slot[x].next # q
         /\ \A t \in tasks : t.next # q
         /\ ~ Active(q) /\ source[q] = NoPromise /\ firing # q /\ slot[q] = NoReaction
<1>1. \A x \in Promises : Active(x) => slot[x].next # q
  BY DEF CauseInv, SlotTargets, Waiting
<1>2. \A t \in tasks : t.next # q
  BY DEF CauseInv, TaskTargets, Waiting
<1>3. slot[q] = NoReaction /\ source[q] = NoPromise
  BY DEF TypeInv, Unborn
<1>4. firing # q
  BY Facts, PromiseAssumption DEF Settled
<1>5. QED
  BY <1>1, <1>2, <1>3, <1>4 DEF Active

\* What still waits does, and what the program settles stays its own.
Steady ==
  /\ \A x \in Promises : Waiting(x) => Waiting(x)'
  /\ \A x \in Promises : source[x] = NoPromise /\ state[x] # "Unborn"
                           => source'[x] = NoPromise /\ state'[x] # "Unborn"

\* No slot and no task is added.
LEMMA CausesKept ==
  ASSUME TypeInv, CauseInv, Steady, slot' = slot, tasks' \subseteq tasks,
         \A x \in Promises : Active(x)' <=> Active(x)
  PROVE  CauseInv'
<1>1. SlotTargets' /\ SlotsApart'
  BY Facts DEF CauseInv, SlotTargets, SlotsApart, Steady, Active
<1>2. TaskTargets'
  <2> SUFFICES ASSUME NEW t \in tasks'
               PROVE  IF t.kind = "resolve" THEN state'[t.next] # "Unborn" /\ source'[t.next] = NoPromise
                      ELSE Waiting(t.next)'
    BY DEF TaskTargets
  <2>1. t \in tasks /\ t.next \in Promises
    BY Facts
  <2>2. QED
    BY <2>1 DEF CauseInv, TaskTargets, Steady
<1>3. TasksApart' /\ SlotsTasksApart'
  BY DEF CauseInv, TasksApart, SlotsTasksApart
<1>4. QED
  BY <1>1, <1>2, <1>3 DEF CauseInv

\* The slot of p gets a reaction for q, and so q a cause, of which it has none.
LEMMA SlotCauses ==
  ASSUME TypeInv, CauseInv, Steady, NEW p \in Promises, NEW q \in Promises,
         \A x \in Promises : Active(x)' <=> Active(x) \/ x = p,
         \A x \in Promises : x # p => slot'[x] = slot[x],
         slot'[p].next = q,
         tasks' \subseteq tasks,
         \A x \in Promises : Active(x) => slot[x].next # q,
         \A t \in tasks' : t.next # q,
         Waiting(q)'
  PROVE  CauseInv'
<1>1. SlotTargets'
  BY Facts DEF CauseInv, SlotTargets, Steady, Active
<1>2. TaskTargets'
  <2> SUFFICES ASSUME NEW t \in tasks'
               PROVE  IF t.kind = "resolve" THEN state'[t.next] # "Unborn" /\ source'[t.next] = NoPromise
                      ELSE Waiting(t.next)'
    BY DEF TaskTargets
  <2>1. t \in tasks /\ t.next \in Promises
    BY Facts
  <2>2. QED
    BY <2>1 DEF CauseInv, TaskTargets, Steady
<1>3. SlotsApart'
  BY DEF CauseInv, SlotsApart
<1>4. TasksApart'
  BY DEF CauseInv, TasksApart
<1>5. SlotsTasksApart'
  BY DEF CauseInv, SlotsTasksApart
<1>6. QED
  BY <1>1, <1>2, <1>3, <1>4, <1>5 DEF CauseInv

\* The loop gets a task t for q, which had no cause.
LEMMA TaskCauses ==
  ASSUME TypeInv, CauseInv, Steady, NEW q \in Promises, NEW t,
         \A x \in Promises : Active(x)' => Active(x),
         slot' = slot,
         tasks' = tasks \cup {t}, t.next = q,
         \A x \in Promises : Active(x)' => slot[x].next # q,
         \A u \in tasks : u.next # q,
         IF t.kind = "resolve" THEN state'[q] # "Unborn" /\ source'[q] = NoPromise
         ELSE Waiting(q)'
  PROVE  CauseInv'
<1>1. SlotTargets' /\ SlotsApart'
  BY Facts DEF CauseInv, SlotTargets, SlotsApart, Steady, Active
<1>2. TaskTargets'
  <2> SUFFICES ASSUME NEW u \in tasks, u # t
               PROVE  IF u.kind = "resolve" THEN state'[u.next] # "Unborn" /\ source'[u.next] = NoPromise
                      ELSE Waiting(u.next)'
    BY DEF TaskTargets
  <2>1. u.next \in Promises
    BY Facts
  <2>2. QED
    BY <2>1 DEF CauseInv, TaskTargets, Steady
<1>3. TasksApart'
  BY DEF CauseInv, TasksApart
<1>4. SlotsTasksApart'
  BY DEF CauseInv, SlotsTasksApart
<1>5. QED
  BY <1>1, <1>2, <1>3, <1>4 DEF CauseInv

LEMMA ConstructCauses ==
  ASSUME TypeInv, CauseInv, NEW p \in Promises, Construct(p)  PROVE CauseInv' /\ SameActive
<1>1. /\ state[p] = "Unborn" /\ slot[p] = NoReaction /\ firing = NoPromise
      /\ UNCHANGED <<slot, tasks, source>>
  BY DEF Construct, Quiet, TypeInv, Unborn, history
<1>2. /\ state'[p] # "Unborn" /\ \A x \in Promises : x # p => state'[x] = state[x]
      /\ firing' \in {NoPromise, p}
  <2>1. CASE state' = [state EXCEPT ![p] = "Pending"] /\ UNCHANGED <<value, firing>>
    BY <1>1, <2>1 DEF TypeInv, TypeOK
  <2>2. CASE \E s \in Settled, v \in Values : Store(p, s, v)
    BY <1>1, <2>2 DEF TypeInv, TypeOK, Store, Settled
  <2>3. QED
    BY <2>1, <2>2 DEF Construct
<1>3. \A x \in Promises : Active(x)' <=> Active(x)
  BY <1>1, <1>2, PromiseAssumption DEF Active
<1>4. Steady
  BY <1>1, <1>2 DEF Waiting, Steady
<1>5. QED
  BY <1>1, <1>3, <1>4, CausesKept DEF SameActive

LEMMA SettleCauses ==
  ASSUME SettlesOwn, TypeInv, CauseInv, NEW p \in Promises, NEW s \in Settled, NEW v \in Values,
         Settle(p, s, v)
  PROVE  CauseInv' /\ SameActive
<1>1. /\ state[p] = "Pending" /\ source[p] = NoPromise /\ firing = NoPromise
      /\ UNCHANGED <<slot, tasks, source>>
  BY DEF Settle, Quiet, MaySettle, Derived, SettlesOwn, history
<1>2. /\ state'[p] \in Settled /\ \A x \in Promises : x # p => state'[x] = state[x]
      /\ firing' = p
  BY <1>1 DEF Settle, Store, TypeInv, TypeOK
<1>3. \A x \in Promises : Active(x)' <=> Active(x)
  BY <1>1, <1>2, PromiseAssumption DEF Active
<1>4. Steady
  BY <1>1, <1>2 DEF Waiting, Steady, Settled
<1>5. QED
  BY <1>1, <1>3, <1>4, CausesKept DEF SameActive

LEMMA DelayCauses ==
  ASSUME TypeInv, CauseInv, NEW p \in Promises, Delay(p)  PROVE CauseInv' /\ SameActive
<1>1. /\ state[p] = "Unborn" /\ slot[p] = NoReaction /\ source[p] = NoPromise /\ firing = NoPromise
      /\ UNCHANGED <<slot, source, firing>>
      /\ state'[p] = "Pending" /\ \A x \in Promises : x # p => state'[x] = state[x]
  BY DEF Delay, Quiet, TypeInv, TypeOK, Unborn, history
<1>2. PICK v \in Values : AddTask("resolve", p, "Fulfilled", v)
  BY DEF Delay
<1> DEFINE t == TaskFor("resolve", p, "Fulfilled", v)
<1>3. tasks' = tasks \cup {t} /\ t.kind = "resolve" /\ t.next = p
  BY <1>2 DEF AddTask, TaskFor
<1> HIDE DEF t
<1>4. \A x \in Promises : Active(x)' <=> Active(x)
  BY <1>1, PromiseAssumption DEF Active
<1>5. Steady
  BY <1>1 DEF Waiting, Steady
<1>6. QED
  BY <1>1, <1>3, <1>4, <1>5, UnbornFree, TaskCauses DEF SameActive

\* What then() and catch_error() do: q waits for p through its slot, or for a task.
Attached(kind, p, q) ==
  /\ state[q] = "Unborn" /\ state[p] # "Unborn" /\ p # q /\ Quiet /\ Held(p)
  /\ state'[q] = "Pending" /\ source'[q] = p /\ Steady /\ Waiting(q)'
  /\ \A x \in Promises : x # q => state'[x] = state[x] /\ source'[x] = source[x]
  /\ UNCHANGED <<value, firing, closers, cleanups>>
  /\ \/ /\ state[p] = "Pending" /\ slot'[p] = [kind |-> kind, next |-> q]
        /\ slot'[p] # NoReaction
        /\ \A x \in Promises : x # p => slot'[x] = slot[x]
        /\ \A x \in Promises : Active(x)' <=> Active(x) \/ x = p
        /\ Replace(p) /\ UNCHANGED <<tasks, handed>>
     \/ /\ state[p] \in Settled /\ SameActive
        /\ AddTask(kind, q, state[p], value[p]) /\ UNCHANGED <<slot, replaced>>

LEMMA Reacts ==
  ASSUME TypeInv, CauseInv, NEW kind \in {"then", "catch_error"}, NEW p \in Promises,
         NEW q \in Promises, React(kind, p, q)
  PROVE  Attached(kind, p, q)
<1> DEFINE r == [kind |-> kind, next |-> q]
<1>1. /\ state[q] = "Unborn" /\ state[p] # "Unborn" /\ p # q /\ firing = NoPromise /\ firing' = NoPromise
      /\ state'[q] = "Pending" /\ source'[q] = p /\ Held(p) /\ Quiet
      /\ \A x \in Promises : x # q => state'[x] = state[x] /\ source'[x] = source[x]
      /\ UNCHANGED <<value, firing, closers, cleanups>>
  BY DEF React, Held, Quiet, TypeInv, TypeOK
<1>2. Steady /\ Waiting(q)'
  BY <1>1, PromiseAssumption DEF Steady, Waiting
<1>3. CASE state[p] = "Pending" /\ slot' = [slot EXCEPT ![p] = r] /\ Replace(p)
           /\ UNCHANGED <<tasks, handed>>
  <2>1. /\ slot'[p] = r /\ slot'[p] # NoReaction
        /\ \A x \in Promises : x # p => slot'[x] = slot[x]
    BY <1>3 DEF TypeInv, TypeOK, NoReaction
  <2>2. \A x \in Promises : Active(x)' <=> Active(x) \/ x = p
    BY <1>1, <1>3, <2>1, UnbornFree, PromiseAssumption DEF Active, TypeInv, Unborn
  <2>3. QED
    BY <1>1, <1>2, <1>3, <2>1, <2>2 DEF Attached
<1>4. CASE state[p] \in Settled /\ AddTask(r.kind, r.next, state[p], Captured(p))
           /\ UNCHANGED <<slot, replaced>>
  <2>1. SameActive
    BY <1>1, <1>4, UnbornFree, PromiseAssumption DEF Active, TypeInv, Unborn, SameActive
  <2>2. QED
    BY <1>1, <1>2, <1>4, <2>1 DEF Captured, Attached
<1>5. QED
  BY <1>3, <1>4 DEF React, Attach

LEMMA ReactCauses ==
  ASSUME TypeInv, CauseInv, NEW kind \in {"then", "catch_error"}, NEW p \in Promises,
         NEW q \in Promises, React(kind, p, q)
  PROVE  CauseInv'
<1> Attached(kind, p, q)
  BY Reacts
<1>1. state[q] = "Unborn" /\ Steady /\ Waiting(q)'
  BY DEF Attached
<1>2. CASE /\ slot'[p] = [kind |-> kind, next |-> q] /\ \A x \in Promises : x # p => slot'[x] = slot[x]
           /\ \A x \in Promises : Active(x)' <=> Active(x) \/ x = p
           /\ UNCHANGED tasks
  <2>1. slot'[p].next = q
    BY <1>2
  <2>2. QED
    BY <1>1, <1>2, <2>1, UnbornFree, SlotCauses
<1>3. CASE SameActive /\ AddTask(kind, q, state[p], value[p]) /\ UNCHANGED slot
  <2> DEFINE t == TaskFor(kind, q, state[p], value[p])
  <2>1. tasks' = tasks \cup {t} /\ t.kind # "resolve" /\ t.next = q
    BY <1>3 DEF AddTask, TaskFor
  <2> HIDE DEF t
  <2>2. QED
    BY <1>1, <1>3, <2>1, UnbornFree, TaskCauses DEF SameActive
<1>4. QED
  BY <1>2, <1>3 DEF Attached

\* What finally() on p does: q, between its two parts, waits for p, and r for q.
Closed(p, q, r) ==
  /\ state[q] = "Unborn" /\ state[r] = "Unborn" /\ state[p] # "Unborn"
  /\ p # q /\ p # r /\ q # r /\ Quiet /\ Held(p)
  /\ state'[q] = "Pending" /\ source'[q] = p /\ state'[r] = "Pending" /\ source'[r] = q
  /\ \A x \in Promises : x # q /\ x # r => state'[x] = state[x] /\ source'[x] = source[x]
  /\ UNCHANGED <<value, firing, cleanups>> /\ closers' = closers \cup {r}
  /\ Steady /\ Waiting(q)' /\ Waiting(r)'
  /\ slot'[q] = [kind |-> "finally_catch", next |-> r] /\ slot'[q] # NoReaction
  /\ \A x \in Promises : x # p /\ x # q => slot'[x] = slot[x] /\ (Active(x)' <=> Active(x))
  /\ Active(q)' /\ ~ Active(q) /\ slot[r] = NoReaction
  /\ \/ /\ state[p] = "Pending" /\ slot'[p] = [kind |-> "finally_then", next |-> q]
        /\ slot'[p] # NoReaction /\ Active(p)'
        /\ Replace(p) /\ UNCHANGED <<tasks, handed>>
     \/ /\ state[p] \in Settled /\ slot'[p] = slot[p] /\ (Active(p)' <=> Active(p))
        /\ AddTask("finally_then", q, state[p], value[p]) /\ UNCHANGED replaced

LEMMA Closes ==
  ASSUME TypeInv, CauseInv, NEW p \in Promises, NEW q \in Promises, NEW r \in Promises,
         Finally(p, q, r)
  PROVE  Closed(p, q, r)
<1> DEFINE then == [kind |-> "finally_then", next |-> q]
           catch == [kind |-> "finally_catch", next |-> r]
<1>1. /\ state[q] = "Unborn" /\ state[r] = "Unborn" /\ state[p] # "Unborn"
      /\ p # q /\ p # r /\ q # r /\ firing = NoPromise /\ firing' = NoPromise
      /\ state'[q] = "Pending" /\ source'[q] = p /\ state'[r] = "Pending" /\ source'[r] = q
      /\ \A x \in Promises : x # q /\ x # r => state'[x] = state[x] /\ source'[x] = source[x]
      /\ UNCHANGED <<value, firing, cleanups>> /\ closers' = closers \cup {r} /\ Quiet /\ Held(p)
  BY DEF Finally, Held, Quiet, TypeInv, TypeOK
<1>2. Steady /\ Waiting(q)' /\ Waiting(r)'
  BY <1>1, PromiseAssumption DEF Steady, Waiting
<1>3. ~ Active(q) /\ ~ Active(r) /\ slot[r] = NoReaction
  BY <1>1, UnbornFree
<1>4. /\ slot'[q] = catch /\ slot'[q] # NoReaction
      /\ \A x \in Promises : x # p /\ x # q => slot'[x] = slot[x]
      /\ \/ /\ state[p] = "Pending" /\ slot'[p] = then /\ slot'[p] # NoReaction
            /\ Replace(p) /\ UNCHANGED <<tasks, handed>>
         \/ /\ state[p] \in Settled /\ slot'[p] = slot[p] /\ UNCHANGED replaced
            /\ AddTask("finally_then", q, state[p], value[p])
  <2>1. /\ NoReaction.kind = "none"
        /\ then.kind = "finally_then" /\ catch.kind = "finally_catch"
    BY DEF NoReaction
  <2>2. slot \in [Promises -> Reactions \cup {NoReaction}]
    BY DEF TypeInv, TypeOK
  <2>3. CASE state[p] = "Pending" /\ slot' = [slot EXCEPT ![p] = then, ![q] = catch]
             /\ Replace(p) /\ UNCHANGED <<tasks, handed>>
    BY <1>1, <2>1, <2>2, <2>3
  <2>4. CASE state[p] \in Settled /\ slot' = [slot EXCEPT ![q] = catch]
             /\ AddTask("finally_then", q, state[p], Captured(p)) /\ UNCHANGED replaced
    BY <1>1, <2>1, <2>2, <2>4 DEF Captured
  <2>5. QED
    BY <2>3, <2>4 DEF Finally
<1>5. \A x \in Promises : x # p /\ x # q => (Active(x)' <=> Active(x))
  BY <1>1, <1>3, <1>4, PromiseAssumption DEF Active
<1>6. Active(q)'
  BY <1>1, <1>4 DEF Active
<1>7. slot'[p] = slot[p] => (Active(p)' <=> Active(p))
  BY <1>1, PromiseAssumption DEF Active
<1>8. state[p] = "Pending" /\ slot'[p] # NoReaction => Active(p)'
  BY <1>1 DEF Active
<1>9. QED
  BY <1>1, <1>2, <1>3, <1>4, <1>5, <1>6, <1>7, <1>8 DEF Closed

LEMMA FinallyCauses ==
  ASSUME TypeInv, CauseInv, NEW p \in Promises, NEW q \in Promises, NEW r \in Promises,
         Finally(p, q, r)
  PROVE  CauseInv'
<1> Closed(p, q, r)
  BY Closes
<1>1. /\ p # q /\ p # r /\ q # r /\ Steady /\ Waiting(q)' /\ Waiting(r)'
      /\ slot'[q].next = r
      /\ \A x \in Promises : x # p /\ x # q =>
           slot'[x] = slot[x] /\ (Active(x)' <=> Active(x))
  BY DEF Closed
<1>2. /\ \A x \in Promises : Active(x) => slot[x].next # q /\ slot[x].next # r
      /\ \A t \in tasks : t.next # q /\ t.next # r
  BY UnbornFree DEF Closed
<1>3. CASE slot'[p].next = q /\ tasks' = tasks
  <2>1. SlotTargets'
    BY <1>1, <1>3, Facts DEF CauseInv, SlotTargets, Steady, Active
  <2>2. SlotsApart'
    BY <1>1, <1>2, <1>3 DEF CauseInv, SlotsApart
  <2>3. SlotsTasksApart'
    BY <1>1, <1>2, <1>3 DEF CauseInv, SlotsTasksApart
  <2>4. TasksApart'
    BY <1>3 DEF CauseInv, TasksApart
  <2>5. TaskTargets'
    BY <1>1, <1>3, Facts DEF CauseInv, TaskTargets, Steady
  <2>6. QED
    BY <2>1, <2>2, <2>3, <2>4, <2>5 DEF CauseInv
<1>4. CASE /\ slot'[p] = slot[p] /\ (Active(p)' <=> Active(p))
           /\ AddTask("finally_then", q, state[p], value[p])
  <2> DEFINE t == TaskFor("finally_then", q, state[p], value[p])
  <2>1. tasks' = tasks \cup {t} /\ t.kind # "resolve" /\ t.next = q
    BY <1>4 DEF AddTask, TaskFor
  <2> HIDE DEF t
  <2>2. SlotTargets'
    BY <1>1, <1>4, Facts DEF CauseInv, SlotTargets, Steady, Active
  <2>3. SlotsApart'
    BY <1>1, <1>2, <1>4 DEF CauseInv, SlotsApart
  <2>4. SlotsTasksApart'
    BY <1>1, <1>2, <1>4, <2>1 DEF CauseInv, SlotsTasksApart
  <2>5. TasksApart'
    BY <1>2, <2>1 DEF CauseInv, TasksApart
  <2>6. TaskTargets'
    BY <1>1, <2>1, Facts DEF CauseInv, TaskTargets, Steady
  <2>7. QED
    BY <2>2, <2>3, <2>4, <2>5, <2>6 DEF CauseInv
<1>5. QED
  BY <1>3, <1>4 DEF Closed

\* What is left of the causes once a task has run.
LEMMA TaskNext ==
  ASSUME TypeInv, CauseInv, NEW t \in tasks, t.kind # "resolve"
  PROVE  /\ Waiting(t.next)
         /\ \A x \in Promises : Active(x) => slot[x].next # t.next
         /\ \A u \in tasks \ {t} : u.next # t.next
BY DEF CauseInv, TaskTargets, TasksApart, SlotsTasksApart, Waiting

LEMMA TaskStoresCauses ==
  ASSUME TypeInv, CauseInv, Quiet, NEW t \in tasks, TaskStores(t),
         t.kind = "resolve" => MaySettle(t.next)
  PROVE  /\ CauseInv' /\ state[t.next] = "Pending" /\ t.next \in Promises
         /\ \A x \in Promises : Active(x)' <=> Active(x)
<1> DEFINE q == t.next
<1>1. q \in Promises /\ firing = NoPromise /\ UNCHANGED <<slot, source>> /\ tasks' = tasks \ {t}
  BY Facts DEF Quiet, TaskStores, Done
<1>2. state[q] = "Pending"
  BY TaskNext DEF Waiting, MaySettle
<1>3. /\ state'[q] \in Settled /\ \A x \in Promises : x # q => state'[x] = state[x]
      /\ firing' = q
  BY <1>1 DEF TaskStores, Store, TypeInv, TypeOK
<1>4. \A x \in Promises : Active(x)' <=> Active(x)
  BY <1>1, <1>2, <1>3, PromiseAssumption DEF Active
<1>5. \A x \in Promises : x # q => (Waiting(x) => Waiting(x)')
  BY <1>1, <1>3 DEF Waiting
<1>6. \A x \in Promises : source[x] = NoPromise /\ state[x] # "Unborn"
                            => source'[x] = NoPromise /\ state'[x] # "Unborn"
  BY <1>1, <1>3 DEF Settled
<1>7. \A x \in Promises : Active(x) => slot[x].next # q
  BY DEF CauseInv, SlotsTasksApart
<1>8. SlotTargets'
  BY <1>1, <1>4, <1>5, <1>7, Facts DEF CauseInv, SlotTargets, Active
<1>9. TaskTargets'
  <2> SUFFICES ASSUME NEW u \in tasks, u # t
               PROVE  IF u.kind = "resolve" THEN state'[u.next] # "Unborn" /\ source'[u.next] = NoPromise
                      ELSE Waiting(u.next)'
    BY <1>1 DEF TaskTargets
  <2>1. u.next \in Promises
    BY Facts
  <2>2. CASE u.kind = "resolve"
    BY <1>6, <2>1, <2>2 DEF CauseInv, TaskTargets
  <2>3. CASE u.kind # "resolve" /\ t.kind # "resolve"
    BY <1>5, <2>1, <2>3, TaskNext DEF CauseInv, TaskTargets
  <2>4. CASE u.kind # "resolve" /\ t.kind = "resolve"
    BY <1>5, <2>1, <2>4 DEF CauseInv, TaskTargets, Waiting
  <2>5. QED
    BY <2>2, <2>3, <2>4
<1>10. SlotsApart' /\ TasksApart' /\ SlotsTasksApart'
  BY <1>1, <1>4 DEF CauseInv, SlotsApart, TasksApart, SlotsTasksApart
<1>11. QED
  BY <1>1, <1>2, <1>4, <1>8, <1>9, <1>10 DEF CauseInv

LEMMA AdoptedCauses ==
  ASSUME TypeInv, CauseInv, Quiet, NEW t \in tasks, NEW inner \in Promises, Adopted(t, inner)
  PROVE  /\ CauseInv'
         /\ \A x \in Promises : Active(x)' <=> Active(x) \/ x = inner
<1> DEFINE q == t.next
<1>1. /\ q \in Promises /\ t.kind # "resolve" /\ UNCHANGED <<state, firing, source>>
      /\ state[inner] = "Pending" /\ tasks' = tasks \ {t}
  BY Facts DEF Adopted, Done
<1>2. /\ slot'[inner].next = q /\ slot'[inner] # NoReaction
      /\ \A x \in Promises : x # inner => slot'[x] = slot[x]
  BY DEF Adopted, TypeInv, TypeOK, NoReaction
<1>3. \A x \in Promises : Active(x)' <=> Active(x) \/ x = inner
  BY <1>1, <1>2 DEF Active
<1>4. Steady /\ Waiting(q)'
  BY <1>1, TaskNext DEF Steady, Waiting
<1>5. QED
  BY <1>1, <1>2, <1>3, <1>4, TaskNext, SlotCauses

LEMMA IgnoredCauses ==
  ASSUME TypeInv, CauseInv, NEW t \in tasks, Ignored(t)
  PROVE  /\ CauseInv'
         /\ \A x \in Promises : Active(x)' <=> Active(x)
<1>1. UNCHANGED <<state, value, firing, slot, handed, source>> /\ tasks' \subseteq tasks
  BY DEF Ignored, Done, history
<1>2. Steady /\ \A x \in Promises : Active(x)' <=> Active(x)
  BY <1>1 DEF Steady, Waiting, Active
<1>3. QED
  BY <1>1, <1>2, CausesKept

LEMMA CauseStep ==
  ASSUME SettlesOwn, TypeInv, CauseInv, [Next]_vars  PROVE CauseInv'
<1>1. CASE UNCHANGED vars
  <2>1. Steady /\ slot' = slot /\ tasks' \subseteq tasks /\ \A x \in Promises : Active(x)' <=> Active(x)
    BY <1>1 DEF vars, Steady, Waiting, Active
  <2>2. QED
    BY <2>1, CausesKept
<1>2. ASSUME NEW p \in Promises, NEW q \in Promises, Then(p, q) \/ CatchError(p, q)
      PROVE  CauseInv'
  BY <1>2, ReactCauses DEF Then, CatchError
<1>3. ASSUME Quiet, NEW t \in tasks, RunTask(t)  PROVE CauseInv'
  BY <1>3, TaskCases, TaskStoresCauses, AdoptedCauses, IgnoredCauses
<1>4. QED
  BY <1>1, <1>2, <1>3, FireCauses, ConstructCauses, DelayCauses, SettleCauses, FinallyCauses
  DEF Next

-----------------------------------------------------------------------------
(* Settled is final *)

SettledStays ==
  \A p \in Promises : state[p] \in Settled => state'[p] = state[p] /\ value'[p] = value[p]

\* A store into a promise that has not settled.
LEMMA StoreStays ==
  ASSUME TypeInv, NEW p \in Promises, state[p] \notin Settled, NEW s, NEW v, Store(p, s, v)
  PROVE  SettledStays
BY DEF TypeInv, TypeOK, Store, SettledStays

LEMMA NoStoreStays ==
  ASSUME TypeInv, NEW Q \in SUBSET Promises, \A q \in Q : state[q] = "Unborn", UNCHANGED value,
         \A x \in Promises \ Q : state'[x] = state[x]
  PROVE  SettledStays
BY DEF SettledStays, Settled

LEMMA Stays ==
  ASSUME SettlesOwn, TypeInv, CauseInv, [Next]_vars  PROVE SettledStays
<1> USE DEF Settled
<1>1. CASE UNCHANGED vars
  BY <1>1 DEF vars, SettledStays
<1>2. CASE Fire
  <2>1. CASE Silent(firing)
    BY <1>2, <2>1, FireSilent DEF SettledStays
  <2>2. CASE ~ Silent(firing) /\ slot[firing].kind = "adopt"
    BY <1>2, <2>2, FireAdopts, StoreStays DEF Waiting
  <2>3. CASE ~ Silent(firing) /\ slot[firing].kind # "adopt"
    BY <1>2, <2>3, FireSchedules DEF SettledStays
  <2>4. QED
    BY <2>1, <2>2, <2>3
<1>3. ASSUME NEW p \in Promises, Construct(p)  PROVE SettledStays
  <2>1. CASE state' = [state EXCEPT ![p] = "Pending"] /\ UNCHANGED <<value, firing>>
    BY <1>3, <2>1 DEF Construct, SettledStays, TypeInv, TypeOK
  <2>2. CASE \E s \in Settled, v \in Values : Store(p, s, v)
    BY <1>3, <2>2, StoreStays DEF Construct
  <2>3. QED
    BY <1>3, <2>1, <2>2 DEF Construct
<1>4. ASSUME NEW p \in Promises, Delay(p)  PROVE SettledStays
  BY <1>4 DEF Delay, SettledStays, TypeInv, TypeOK
<1>5. ASSUME NEW p \in Promises, NEW s \in Settled, NEW v \in Values, Settle(p, s, v)
      PROVE  SettledStays
  BY <1>5, StoreStays DEF Settle, MaySettle
<1>6. ASSUME NEW p \in Promises, NEW q \in Promises, Then(p, q) \/ CatchError(p, q)
      PROVE  SettledStays
  <2>1. state[q] = "Unborn" /\ state' = [state EXCEPT ![q] = "Pending"] /\ UNCHANGED value
    BY <1>6 DEF Then, CatchError, React
  <2>2. QED
    BY <2>1 DEF SettledStays, TypeInv, TypeOK
<1>7. ASSUME NEW p \in Promises, NEW q \in Promises, NEW r \in Promises, Finally(p, q, r)
      PROVE  SettledStays
  BY <1>7 DEF Finally, SettledStays, TypeInv, TypeOK
<1>8. ASSUME Quiet, NEW t \in tasks, RunTask(t)  PROVE SettledStays
  <2>1. CASE Ignored(t) \/ \E inner \in Promises : Adopted(t, inner)
    BY <2>1 DEF Ignored, Adopted, SettledStays
  <2>2. CASE TaskStores(t) /\ (t.kind = "resolve" => MaySettle(t.next))
    <3>1. PICK s \in Settled, v \in Values : Store(t.next, s, v)
      BY <2>2 DEF TaskStores
    <3>2. QED
      BY <1>8, <2>2, <3>1, TaskStoresCauses, StoreStays
  <2>3. QED
    BY <1>8, <2>1, <2>2, TaskCases
<1>9. QED
  BY <1>1, <1>2, <1>3, <1>4, <1>5, <1>6, <1>7, <1>8 DEF Next

\* event_promise.hpp:51 and :59: a promise once settled stays as it is, with its
\* value, although reactions store without a look at the state, in any program
\* that settles no promise it got from then(), catch_error() or finally().
THEOREM ImmutableCorrect ==
  ASSUME SettlesOwn
  PROVE  Spec => Immutable
<1>1. TypeInv /\ CauseInv /\ [Next]_vars
      => [\A p \in Promises : state[p] \in Settled =>
            state'[p] = state[p] /\ value'[p] = value[p]]_vars
  BY Stays DEF SettledStays
<1>2. TypeInv /\ CauseInv /\ [Next]_vars => TypeInv' /\ CauseInv'
  BY TypeStep, CauseStep
<1>3. Init => TypeInv /\ CauseInv
  BY TypeInit, CauseInit
<1>4. QED
  BY <1>1, <1>2, <1>3, PTL DEF Spec, Immutable

-----------------------------------------------------------------------------
(* No callback is handed to the loop twice *)

HandedInv ==
  /\ HandedOnce
  /\ \A q \in Promises : state[q] = "Unborn" => handed[q] = 0
  /\ \A p \in Promises :
       Active(p) /\ slot[p].kind # "adopt" => handed[slot[p].next] = 0

\* No task is made.
LEMMA HandedKept ==
  ASSUME TypeInv, HandedInv, handed' = handed,
         \A x \in Promises : state'[x] = "Unborn" => state[x] = "Unborn",
         \A x \in Promises : Active(x)' /\ slot'[x].kind # "adopt" =>
           \/ Active(x) /\ slot'[x] = slot[x]
           \/ handed[slot'[x].next] = 0
  PROVE  HandedInv'
BY DEF HandedInv, HandedOnce

\* A task is made for q, which had none.
LEMMA HandedMore ==
  ASSUME TypeInv, HandedInv, NEW q \in Promises, handed[q] = 0,
         handed' = [handed EXCEPT ![q] = @ + 1],
         \A x \in Promises : state'[x] = "Unborn" => state[x] = "Unborn" /\ x # q,
         \A x \in Promises : Active(x)' /\ slot'[x].kind # "adopt" =>
           /\ slot'[x].next \in Promises /\ slot'[x].next # q
           /\ (Active(x) /\ slot'[x] = slot[x]) \/ handed[slot'[x].next] = 0
  PROVE  HandedInv'
<1>1. /\ handed \in [Promises -> Nat] /\ handed'[q] = 1
      /\ \A x \in Promises : x # q => handed'[x] = handed[x]
  BY DEF TypeInv, TypeOK
<1>2. HandedOnce'
  BY <1>1 DEF HandedInv, HandedOnce
<1>3. QED
  BY <1>1, <1>2 DEF HandedInv

LEMMA HandedStep ==
  ASSUME SettlesOwn, TypeInv, CauseInv, HandedInv, [Next]_vars  PROVE HandedInv'
<1>1. CASE UNCHANGED vars
  BY <1>1 DEF vars, HandedInv, HandedOnce, Active
<1>2. CASE Fire
  <2>1. CASE Silent(firing)
    BY <1>2, <2>1, FireSilent, HandedKept
  <2>2. CASE ~ Silent(firing) /\ slot[firing].kind = "adopt"
    <3>1. \A x \in Promises : state'[x] = "Unborn" => state[x] = "Unborn"
      BY <1>2, <2>2, FireAdopts DEF Store, Waiting, Settled, TypeInv, TypeOK
    <3>2. QED
      BY <1>2, <2>2, <3>1, FireAdopts, HandedKept
  <2>3. CASE ~ Silent(firing) /\ slot[firing].kind # "adopt"
    <3> DEFINE q == slot[firing].next
    <3>1. q \in Promises /\ handed[q] = 0 /\ state[q] = "Pending"
          /\ handed' = [handed EXCEPT ![q] = @ + 1] /\ UNCHANGED <<state, slot>>
      BY <1>2, <2>3, FireSchedules DEF Waiting, HandedInv, AddTask
    <3>2. \A x \in Promises : Active(x)' =>
            slot[x].next \in Promises /\ slot[x].next # q /\ Active(x)
      BY <1>2, <2>3, FireSchedules, Facts DEF CauseInv, SlotsApart, Active
    <3>3. QED
      BY <3>1, <3>2, HandedMore
  <2>4. QED
    BY <2>1, <2>2, <2>3
<1>3. ASSUME NEW p \in Promises, Construct(p)  PROVE HandedInv'
  <2>1. handed' = handed /\ slot' = slot /\ SameActive
    BY <1>3, ConstructCauses DEF Construct
  <2>2. \A x \in Promises : state'[x] = "Unborn" => state[x] = "Unborn"
    BY <1>3 DEF Construct, Store, TypeInv, TypeOK
  <2>3. QED
    BY <2>1, <2>2, HandedKept DEF SameActive
<1>4. ASSUME NEW p \in Promises, Delay(p)  PROVE HandedInv'
  <2>1. /\ state[p] = "Unborn" /\ slot' = slot /\ SameActive
        /\ handed' = [handed EXCEPT ![p] = @ + 1]
        /\ \A x \in Promises : state'[x] = "Unborn" => state[x] = "Unborn" /\ x # p
    BY <1>4, DelayCauses DEF Delay, AddTask, TypeInv, TypeOK
  <2>2. \A x \in Promises : Active(x) => slot[x].next \in Promises /\ slot[x].next # p
    BY <2>1, UnbornFree, Facts DEF Active
  <2>3. handed[p] = 0
    BY <2>1 DEF HandedInv
  <2>4. QED
    BY <2>1, <2>2, <2>3, HandedMore DEF SameActive
<1>5. ASSUME NEW p \in Promises, NEW s \in Settled, NEW v \in Values, Settle(p, s, v)
      PROVE  HandedInv'
  <2>1. handed' = handed /\ slot' = slot /\ SameActive
    BY <1>5, SettleCauses DEF Settle
  <2>2. \A x \in Promises : state'[x] = "Unborn" => state[x] = "Unborn"
    BY <1>5 DEF Settle, Store, TypeInv, TypeOK, Settled
  <2>3. QED
    BY <2>1, <2>2, HandedKept DEF SameActive
<1>6. ASSUME NEW kind \in {"then", "catch_error"}, NEW p \in Promises, NEW q \in Promises,
             React(kind, p, q)
      PROVE  HandedInv'
  <2> Attached(kind, p, q)
    BY <1>6, Reacts
  <2>1. /\ handed[q] = 0
        /\ \A x \in Promises : state'[x] = "Unborn" => state[x] = "Unborn" /\ x # q
    BY DEF HandedInv, Attached
  <2>2. CASE /\ slot'[p] = [kind |-> kind, next |-> q] /\ \A x \in Promises : x # p => slot'[x] = slot[x]
             /\ \A x \in Promises : Active(x)' <=> Active(x) \/ x = p
             /\ UNCHANGED handed
    <3>1. slot'[p].next = q
      BY <2>2
    <3>2. QED
      BY <2>1, <2>2, <3>1, HandedKept
  <2>3. CASE SameActive /\ AddTask(kind, q, state[p], value[p]) /\ UNCHANGED slot
    <3>1. \A x \in Promises : Active(x) => slot[x].next \in Promises /\ slot[x].next # q
      BY UnbornFree, Facts DEF Active, Attached
    <3>2. handed' = [handed EXCEPT ![q] = @ + 1]
      BY <2>3 DEF AddTask
    <3>3. QED
      BY <2>1, <2>3, <3>1, <3>2, HandedMore DEF SameActive
  <2>4. QED
    BY <2>2, <2>3 DEF Attached
<1>7. ASSUME NEW p \in Promises, NEW q \in Promises, NEW r \in Promises, Finally(p, q, r)
      PROVE  HandedInv'
  <2> Closed(p, q, r)
    BY <1>7, Closes
  <2>1. /\ handed[q] = 0 /\ handed[r] = 0 /\ q # r
        /\ \A x \in Promises : state'[x] = "Unborn" => state[x] = "Unborn" /\ x # q
        /\ slot'[q].next = r
        /\ \A x \in Promises : x # p /\ x # q =>
             slot'[x] = slot[x] /\ (Active(x)' <=> Active(x))
    BY DEF HandedInv, Closed
  <2>2. CASE slot'[p].next = q /\ UNCHANGED handed
    BY <2>1, <2>2, HandedKept
  <2>3. CASE /\ slot'[p] = slot[p] /\ (Active(p)' <=> Active(p))
             /\ AddTask("finally_then", q, state[p], value[p])
    <3>1. \A x \in Promises : Active(x) => slot[x].next \in Promises /\ slot[x].next # q
      BY UnbornFree, Facts DEF Active, Closed
    <3>2. handed' = [handed EXCEPT ![q] = @ + 1]
      BY <2>3 DEF AddTask
    <3>3. \A x \in Promises : x # q /\ Active(x)' =>
            Active(x) /\ slot'[x] = slot[x] /\ slot'[x].next \in Promises /\ slot'[x].next # q
      BY <2>1, <2>3, <3>1
    <3>4. slot'[q].next \in Promises /\ slot'[q].next # q /\ handed[slot'[q].next] = 0
      BY <2>1
    <3>5. QED
      BY <2>1, <3>2, <3>3, <3>4, HandedMore
  <2>4. QED
    BY <2>2, <2>3 DEF Closed
<1>8. ASSUME Quiet, NEW t \in tasks, RunTask(t)  PROVE HandedInv'
  <2>1. CASE Ignored(t)
    <3>1. UNCHANGED <<state, slot, handed>> /\ SameActive
      BY <2>1, IgnoredCauses DEF Ignored, SameActive
    <3>2. QED
      BY <3>1, HandedKept DEF SameActive
  <2>2. ASSUME NEW inner \in Promises, Adopted(t, inner)  PROVE HandedInv'
    <3>1. /\ UNCHANGED <<state, handed>> /\ slot'[inner].kind = "adopt"
          /\ \A x \in Promises : x # inner => slot'[x] = slot[x]
          /\ \A x \in Promises : Active(x)' <=> Active(x) \/ x = inner
      BY <1>8, <2>2, AdoptedCauses DEF Adopted, TypeInv, TypeOK
    <3>2. QED
      BY <3>1, HandedKept
  <2>3. CASE TaskStores(t) /\ (t.kind = "resolve" => MaySettle(t.next))
    <3>1. UNCHANGED <<slot, handed>> /\ SameActive
      BY <1>8, <2>3, TaskStoresCauses DEF TaskStores, SameActive
    <3>2. \A x \in Promises : state'[x] = "Unborn" => state[x] = "Unborn"
      BY <2>3, Facts DEF TaskStores, Store, TypeInv, TypeOK, Settled
    <3>3. QED
      BY <3>1, <3>2, HandedKept DEF SameActive
  <2>4. QED
    BY <1>8, <2>1, <2>2, <2>3, TaskCases
<1>9. QED
  BY <1>1, <1>2, <1>3, <1>4, <1>5, <1>6, <1>7, <1>8 DEF Next, Then, CatchError

\* No callback is handed to the loop twice, although slots are never cleared.
THEOREM HandedCorrect ==
  ASSUME SettlesOwn
  PROVE  Spec => []HandedOnce
<1>1. Init => TypeInv /\ CauseInv /\ HandedInv
  BY TypeInit, CauseInit DEF Init, HandedInv, HandedOnce, Active
<1>2. TypeInv /\ CauseInv /\ HandedInv /\ [Next]_vars => TypeInv' /\ CauseInv' /\ HandedInv'
  BY TypeStep, CauseStep, HandedStep
<1>3. HandedInv => HandedOnce
  BY DEF HandedInv
<1>4. QED
  BY <1>1, <1>2, <1>3, PTL DEF Spec

-----------------------------------------------------------------------------
(* Adoption passes outcomes on *)

\* The slots of settled promises stay as they are.
SlotsStay == \A p \in Promises : state[p] \in Settled => slot'[p] = slot[p]

\* Who settles in a step calls its slot next.
SettlersFire ==
  \A p \in Promises : state[p] \notin Settled /\ state'[p] \in Settled => firing' = p

LEMMA AdoptionStep ==
  ASSUME SettlesOwn, TypeInv, CauseInv, AdoptionAgrees, [Next]_vars  PROVE AdoptionAgrees'
<1>1. SettledStays
  BY Stays
<1>2. SlotsStay /\ SettlersFire
      /\ (firing = NoPromise \/ firing' = firing \/ Fire)
  <2> USE DEF SlotsStay, SettlersFire
  <2>1. CASE UNCHANGED vars
    BY <2>1 DEF vars
  <2>2. CASE Fire
    <3>1. UNCHANGED slot
      BY <2>2 DEF Fire
    <3>2. CASE UNCHANGED state
      BY <2>2, <3>1, <3>2
    <3>3. CASE Store(slot[firing].next, AdopterState(firing), value[firing])
      BY <2>2, <3>1, <3>3 DEF Store, TypeInv, TypeOK
    <3>4. QED
      BY <2>2, <3>2, <3>3 DEF Fire
  <2>3. ASSUME NEW p \in Promises, Construct(p)
        PROVE  SlotsStay /\ SettlersFire /\ firing = NoPromise
    BY <2>3 DEF Construct, Quiet, Store, TypeInv, TypeOK, Settled
  <2>4. ASSUME NEW p \in Promises, Delay(p)  PROVE SlotsStay /\ SettlersFire /\ firing = NoPromise
    BY <2>4 DEF Delay, Quiet, TypeInv, TypeOK, Settled
  <2>5. ASSUME NEW p \in Promises, NEW s \in Settled, NEW v \in Values, Settle(p, s, v)
        PROVE  SlotsStay /\ SettlersFire /\ firing = NoPromise
    BY <2>5 DEF Settle, Quiet, Store, TypeInv, TypeOK
  <2>6. ASSUME NEW kind \in {"then", "catch_error"}, NEW p \in Promises, NEW q \in Promises,
               React(kind, p, q)
        PROVE  SlotsStay /\ SettlersFire /\ firing = NoPromise
    <3> Attached(kind, p, q)
      BY <2>6, Reacts
    <3>1. SettlersFire /\ firing = NoPromise
      BY DEF Attached, Quiet, Settled
    <3>2. SlotsStay
      BY DEF Attached, Settled
    <3>3. QED
      BY <3>1, <3>2
  <2>7. ASSUME NEW p \in Promises, NEW q \in Promises, NEW r \in Promises, Finally(p, q, r)
        PROVE  SlotsStay /\ SettlersFire /\ firing = NoPromise
    <3> Closed(p, q, r)
      BY <2>7, Closes
    <3>1. SettlersFire /\ firing = NoPromise
      BY DEF Closed, Quiet, Settled
    <3>2. SlotsStay
      BY DEF Closed, Settled
    <3>3. QED
      BY <3>1, <3>2
  <2>8. ASSUME Quiet, NEW t \in tasks, RunTask(t)
        PROVE  SlotsStay /\ SettlersFire /\ firing = NoPromise
    <3>1. CASE Ignored(t)
      BY <2>8, <3>1 DEF Ignored, Quiet
    <3>2. ASSUME NEW inner \in Promises, Adopted(t, inner)  PROVE SlotsStay /\ SettlersFire
      BY <3>2 DEF Adopted, TypeInv, TypeOK, Settled
    <3>3. ASSUME TaskStores(t)  PROVE SlotsStay /\ SettlersFire
      BY <3>3, Facts DEF TaskStores, Store, TypeInv, TypeOK
    <3>4. QED
      BY <2>8, <3>1, <3>2, <3>3, TaskCases DEF Quiet
  <2>9. QED
    BY <2>1, <2>2, <2>3, <2>4, <2>5, <2>6, <2>7, <2>8 DEF Next, Then, CatchError
<1>3. Fire => \A p \in Promises :
        firing = p /\ firing' # p /\ slot[p].kind = "adopt" =>
          /\ state'[slot[p].next] = state'[p]
          /\ value'[slot[p].next] = value'[p]
  <2> SUFFICES ASSUME Fire, firing \in Promises, slot[firing].kind = "adopt"
               PROVE  /\ state'[slot[firing].next] = state'[firing]
                      /\ value'[slot[firing].next] = value'[firing]
    OBVIOUS
  <2>1. ~ Silent(firing)
    BY DEF Silent, NoReaction
  <2>2. Waiting(slot[firing].next) /\ state[firing] \in Settled
        /\ Store(slot[firing].next, state[firing], value[firing])
    BY <2>1, FireAdopts
  <2>3. QED
    BY <1>1, <2>2 DEF Store, Waiting, SettledStays, TypeInv, TypeOK
<1>4. SUFFICES ASSUME NEW p \in Promises, slot'[p].kind = "adopt", state'[p] \in Settled,
                      firing' # p
               PROVE  state'[slot'[p].next] = state'[p] /\ value'[slot'[p].next] = value'[p]
  BY DEF AdoptionAgrees
<1>5. state[p] \in Settled /\ slot'[p] = slot[p]
  BY <1>2, <1>4 DEF SettlersFire, SlotsStay
<1>6. slot[p].next \in Promises
  BY <1>4, <1>5, Facts
<1>7. CASE firing = p
  BY <1>2, <1>3, <1>4, <1>5, <1>7, PromiseAssumption
<1>8. CASE firing # p
  BY <1>1, <1>4, <1>5, <1>6, <1>8 DEF AdoptionAgrees, SettledStays
<1>9. QED
  BY <1>7, <1>8

\* An adopted promise and its adopter end with the same outcome, whatever else
\* is chained to either.
THEOREM AdoptionCorrect ==
  ASSUME SettlesOwn
  PROVE  Spec => []AdoptionAgrees
<1>1. Init => TypeInv /\ CauseInv /\ AdoptionAgrees
  BY TypeInit, CauseInit DEF Init, AdoptionAgrees, NoReaction
<1>2. TypeInv /\ CauseInv /\ AdoptionAgrees /\ [Next]_vars => TypeInv' /\ CauseInv' /\ AdoptionAgrees'
  BY TypeStep, CauseStep, AdoptionStep
<1>3. QED
  BY <1>1, <1>2, PTL DEF Spec

-----------------------------------------------------------------------------
(* Nothing hangs without a cause *)

\* Whether something is left that settles q.
Caused(q) ==
  \/ \E p \in Promises : Active(p) /\ slot[p].next = q
  \/ \E t \in tasks : t.next = q

CausedInv == \A q \in Promises \ replaced : Waiting(q) => Caused(q)

LEMMA CausedIs == TypeInv => (CausedInv <=> PendingHasCause)
BY DEF CausedInv, PendingHasCause, Caused, Causes, Active, Waiting, Derived, TypeInv, TypeOK

\* A cause is lost only with what it settles.
LEMMA CausedKept ==
  ASSUME CausedInv, replaced \subseteq replaced',
         \A x \in Promises \ replaced' : Waiting(x)' =>
           \/ Caused(x)'
           \/ /\ Waiting(x)
              /\ \A p \in Promises : Active(p) /\ slot[p].next = x =>
                   Active(p)' /\ slot'[p].next = x
              /\ \A t \in tasks : t.next = x => t \in tasks'
  PROVE  CausedInv'
<1> SUFFICES ASSUME NEW x \in Promises \ replaced', Waiting(x)'  PROVE Caused(x)'
  BY DEF CausedInv
<1>1. SUFFICES ASSUME /\ Waiting(x)
                      /\ \A p \in Promises : Active(p) /\ slot[p].next = x =>
                           Active(p)' /\ slot'[p].next = x
                      /\ \A t \in tasks : t.next = x => t \in tasks'
               PROVE  Caused(x)'
  OBVIOUS
<1>2. Caused(x)
  BY <1>1 DEF CausedInv
<1>3. CASE \E p \in Promises : Active(p) /\ slot[p].next = x
  BY <1>1, <1>3 DEF Caused
<1>4. CASE \E t \in tasks : t.next = x
  BY <1>1, <1>4 DEF Caused
<1>5. QED
  BY <1>2, <1>3, <1>4 DEF Caused

LEMMA CausedStep ==
  ASSUME SettlesOwn, TypeInv, CauseInv, CausedInv, [Next]_vars  PROVE CausedInv'
<1>1. CASE UNCHANGED vars
  BY <1>1 DEF vars, CausedInv, Caused, Waiting, Active
<1>2. CASE Fire
  <2>1. CASE Silent(firing)
    <3>1. UNCHANGED <<slot, tasks, replaced>> /\ SameActive
          /\ \A x \in Promises : Waiting(x)' => Waiting(x)
      BY <1>2, <2>1, FireSilent DEF history, SameActive, Waiting
    <3>2. QED
      BY <3>1, CausedKept DEF SameActive
  <2>2. CASE ~ Silent(firing) /\ slot[firing].kind = "adopt"
    <3> DEFINE q == slot[firing].next
    <3>1. UNCHANGED <<slot, tasks, replaced, source>>
          /\ \A x \in Promises : Active(x)' <=> Active(x) /\ x # firing
      BY <1>2, <2>2, FireAdopts DEF history
    <3>2. \A x \in Promises : Waiting(x)' => Waiting(x) /\ x # q
      BY <1>2, <2>2, <3>1, FireAdopts DEF Store, Waiting, Settled, TypeInv, TypeOK
    <3>3. QED
      BY <3>1, <3>2, CausedKept
  <2>3. CASE ~ Silent(firing) /\ slot[firing].kind # "adopt"
    <3>q. PICK q : q = slot[firing].next
      OBVIOUS
    <3>t. PICK t : t = TaskFor(slot[firing].kind, q, state[firing], value[firing])
      OBVIOUS
    <3>1. UNCHANGED <<slot, replaced, source, state>> /\ tasks' = tasks \cup {t} /\ t.next = q
          /\ \A x \in Promises : Active(x)' <=> Active(x) /\ x # firing
      BY <1>2, <2>3, <3>q, <3>t, FireSchedules DEF history, AddTask, TaskFor
    <3>2. \A x \in Promises : Waiting(x)' => Waiting(x)
      BY <3>1 DEF Waiting
    <3>3. Caused(q)'
      BY <3>1 DEF Caused
    <3>4. \A p \in Promises : Active(p) /\ slot[p].next # q => Active(p)'
      BY <3>q, <3>1
    <3>5. QED
      BY <3>1, <3>2, <3>3, <3>4, CausedKept
  <2>4. QED
    BY <2>1, <2>2, <2>3
<1>3. ASSUME NEW p \in Promises, Construct(p)  PROVE CausedInv'
  <2>1. UNCHANGED <<slot, tasks, replaced, source>> /\ SameActive /\ state[p] = "Unborn"
    BY <1>3, ConstructCauses DEF Construct, history
  <2>2. \A x \in Promises : x # p => state'[x] = state[x]
    BY <1>3 DEF Construct, Store, TypeInv, TypeOK
  <2>3. \A x \in Promises : Waiting(x)' => Waiting(x)
    BY <2>1, <2>2, UnbornFree DEF Waiting
  <2>4. QED
    BY <2>1, <2>3, CausedKept DEF SameActive
<1>4. ASSUME NEW p \in Promises, Delay(p)  PROVE CausedInv'
  <2>1. UNCHANGED <<slot, replaced, source>> /\ SameActive /\ state[p] = "Unborn"
        /\ tasks \subseteq tasks'
    BY <1>4, DelayCauses DEF Delay, history, AddTask
  <2>2. \A x \in Promises : x # p => state'[x] = state[x]
    BY <1>4 DEF Delay, TypeInv, TypeOK
  <2>3. \A x \in Promises : Waiting(x)' => Waiting(x)
    BY <2>1, <2>2, UnbornFree DEF Waiting
  <2>4. QED
    BY <2>1, <2>3, CausedKept DEF SameActive
<1>5. ASSUME NEW p \in Promises, NEW s \in Settled, NEW v \in Values, Settle(p, s, v)
      PROVE  CausedInv'
  <2>1. UNCHANGED <<slot, tasks, replaced, source>> /\ SameActive
    BY <1>5, SettleCauses DEF Settle, history
  <2>2. \A x \in Promises : state'[x] = "Pending" => state[x] = "Pending"
    BY <1>5 DEF Settle, Store, Settled, TypeInv, TypeOK
  <2>3. \A x \in Promises : Waiting(x)' => Waiting(x)
    BY <2>1, <2>2 DEF Waiting
  <2>4. QED
    BY <2>1, <2>3, CausedKept DEF SameActive
<1>6. ASSUME NEW kind \in {"then", "catch_error"}, NEW p \in Promises, NEW q \in Promises,
             React(kind, p, q)
      PROVE  CausedInv'
  <2> Attached(kind, p, q)
    BY <1>6, Reacts
  <2>1. \A x \in Promises : x # q /\ Waiting(x)' => Waiting(x)
    BY DEF Attached, Waiting
  <2>2. CASE /\ slot'[p] = [kind |-> kind, next |-> q] /\ \A x \in Promises : x # p => slot'[x] = slot[x]
             /\ \A x \in Promises : Active(x)' <=> Active(x) \/ x = p
             /\ Replace(p) /\ UNCHANGED tasks
    <3>1. slot'[p].next = q /\ Active(p)'
      BY <2>2
    <3>2. Caused(q)'
      BY <3>1 DEF Caused
    <3>3. replaced \subseteq replaced' /\ \A x \in Promises : slot[p].next = x => x \in replaced'
      BY <2>2, PromiseAssumption DEF Replace
    <3>4. QED
      BY <2>1, <2>2, <3>2, <3>3, CausedKept
  <2>3. CASE SameActive /\ AddTask(kind, q, state[p], value[p]) /\ UNCHANGED <<slot, replaced>>
    <3> DEFINE t == TaskFor(kind, q, state[p], value[p])
    <3>1. tasks' = tasks \cup {t} /\ t.next = q
      BY <2>3 DEF AddTask, TaskFor
    <3> HIDE DEF t
    <3>2. Caused(q)'
      BY <3>1 DEF Caused
    <3>3. QED
      BY <2>1, <2>3, <3>1, <3>2, CausedKept DEF SameActive
  <2>4. QED
    BY <2>2, <2>3 DEF Attached
<1>7. ASSUME NEW p \in Promises, NEW q \in Promises, NEW r \in Promises, Finally(p, q, r)
      PROVE  CausedInv'
  <2> Closed(p, q, r)
    BY <1>7, Closes
  <2>1. \A x \in Promises : x # q /\ x # r /\ Waiting(x)' => Waiting(x)
    BY DEF Closed, Waiting
  <2>2. p # q /\ Active(q)' /\ ~ Active(q) /\ slot'[q].next = r
        /\ \A x \in Promises : x # p /\ x # q => slot'[x] = slot[x] /\ (Active(x)' <=> Active(x))
    BY DEF Closed
  <2>3. Caused(r)'
    BY <2>2 DEF Caused
  <2>4. CASE slot'[p] = [kind |-> "finally_then", next |-> q] /\ Active(p)'
             /\ Replace(p) /\ UNCHANGED tasks
    <3>1. slot'[p].next = q
      BY <2>4
    <3>2. Caused(q)'
      BY <2>4, <3>1 DEF Caused
    <3>3. replaced \subseteq replaced' /\ \A x \in Promises : slot[p].next = x => x \in replaced'
      BY <2>4, PromiseAssumption DEF Replace
    <3>4. QED
      BY <2>1, <2>2, <2>3, <2>4, <3>2, <3>3, CausedKept
  <2>5. CASE slot'[p] = slot[p] /\ (Active(p)' <=> Active(p)) /\ UNCHANGED replaced
             /\ AddTask("finally_then", q, state[p], value[p])
    <3> DEFINE t == TaskFor("finally_then", q, state[p], value[p])
    <3>1. tasks' = tasks \cup {t} /\ t.next = q
      BY <2>5 DEF AddTask, TaskFor
    <3> HIDE DEF t
    <3>2. Caused(q)'
      BY <3>1 DEF Caused
    <3>3. \A x \in Promises : Active(x) => Active(x)' /\ slot'[x] = slot[x]
      BY <2>2, <2>5
    <3>4. QED
      BY <2>1, <2>3, <2>5, <3>1, <3>2, <3>3, CausedKept
  <2>6. QED
    BY <2>4, <2>5 DEF Closed
<1>8. ASSUME Quiet, NEW t \in tasks, RunTask(t)  PROVE CausedInv'
  <2>1. CASE Ignored(t)
    <3>1. UNCHANGED <<slot, state, source, replaced>> /\ SameActive /\ tasks' = tasks \ {t}
          /\ t.kind = "resolve"
      BY <2>1, IgnoredCauses DEF Ignored, SameActive, history, Done
    <3>2. \A x \in Promises : Waiting(x)' => Waiting(x) /\ x # t.next
      BY <3>1 DEF Waiting, CauseInv, TaskTargets
    <3>3. QED
      BY <3>1, <3>2, CausedKept DEF SameActive
  <2>2. ASSUME NEW inner \in Promises, Adopted(t, inner)  PROVE CausedInv'
    <3>1. /\ UNCHANGED <<state, source>> /\ slot'[inner].next = t.next /\ tasks' = tasks \ {t}
          /\ Replace(inner)
          /\ \A x \in Promises : x # inner => slot'[x] = slot[x]
          /\ \A x \in Promises : Active(x)' <=> Active(x) \/ x = inner
      BY <1>8, <2>2, AdoptedCauses DEF Adopted, TypeInv, TypeOK, Done
    <3>2. \A x \in Promises : Waiting(x)' => Waiting(x)
      BY <3>1 DEF Waiting
    <3>3. Caused(t.next)'
      BY <3>1 DEF Caused
    <3>4. replaced \subseteq replaced' /\ \A x \in Promises : slot[inner].next = x => x \in replaced'
      BY <3>1, PromiseAssumption DEF Replace
    <3>5. QED
      BY <3>1, <3>2, <3>3, <3>4, CausedKept
  <2>3. CASE TaskStores(t) /\ (t.kind = "resolve" => MaySettle(t.next))
    <3>1. UNCHANGED <<slot, source, replaced>> /\ SameActive /\ tasks' = tasks \ {t}
      BY <1>8, <2>3, TaskStoresCauses DEF TaskStores, SameActive, Done
    <3>2. \A x \in Promises : state'[x] = "Pending" => state[x] = "Pending" /\ x # t.next
      BY <2>3, Facts DEF TaskStores, Store, TypeInv, TypeOK, Settled
    <3>3. \A x \in Promises : Waiting(x)' => Waiting(x) /\ x # t.next
      BY <3>1, <3>2 DEF Waiting
    <3>4. QED
      BY <3>1, <3>3, CausedKept DEF SameActive
  <2>4. QED
    BY <1>8, <2>1, <2>2, <2>3, TaskCases
<1>9. QED
  BY <1>1, <1>2, <1>3, <1>4, <1>5, <1>6, <1>7, <1>8 DEF Next, Then, CatchError

\* A derived promise that is pending has a task, or the slot of a promise that
\* can still settle, to settle it, unless a later reaction replaced its own.
THEOREM CauseCorrect ==
  ASSUME SettlesOwn
  PROVE  Spec => []PendingHasCause
<1>1. Init => TypeInv /\ CauseInv /\ CausedInv
  BY TypeInit, CauseInit DEF Init, CausedInv, Waiting
<1>2. TypeInv /\ CauseInv /\ CausedInv /\ [Next]_vars => TypeInv' /\ CauseInv' /\ CausedInv'
  BY TypeStep, CauseStep, CausedStep
<1>3. TypeInv /\ CausedInv => PendingHasCause
  BY CausedIs
<1>4. QED
  BY <1>1, <1>2, <1>3, PTL DEF Spec

-----------------------------------------------------------------------------
(* finally() passes outcomes on *)

\* The function of finally() does not throw.
FinallyKeeps == "finally_throws" \notin Usage

FinallyKinds == {"finally_then", "finally_catch"}

\* The promise between the two parts of a finally(), and the one it returns.
Between(q) == q \in Promises /\ slot[q].kind = "finally_catch"
Link(x) == Between(x) \/ x \in closers

Wired ==
  /\ \A r \in closers : Between(source[r]) /\ slot[source[r]].next = r
  /\ \A q \in Promises : Between(q) =>
       slot[q].next \in closers /\ source[slot[q].next] = q /\ source[q] \in Promises

\* Only the parts of a finally() settle its promises, each for the promise
\* before it, and a task of a part takes along the outcome of that promise.
LinkSlots ==
  \A x \in Promises : Active(x) =>
    /\ slot[x].kind = "finally_then" <=> Between(slot[x].next)
    /\ slot[x].kind = "finally_catch" <=> slot[x].next \in closers
    /\ Link(slot[x].next) => source[slot[x].next] = x
LinkTasks ==
  \A t \in tasks :
    /\ t.kind = "finally_then" <=> Between(t.next)
    /\ t.kind = "finally_catch" <=> t.next \in closers
    /\ Link(t.next) => t.state = state[source[t.next]] /\ t.value = value[source[t.next]]

LinkOutcomes ==
  \A x \in Promises : Link(x) /\ state[x] \in Settled =>
    state[x] = state[source[x]] /\ value[x] = value[source[x]]

Ran(q) == state[q] \in Settled /\ (state[q] = "Fulfilled" \/ state[slot[q].next] \in Settled)
LinkCleanups ==
  /\ \A q \in Promises : Between(q) => cleanups[slot[q].next] = IF Ran(q) THEN 1 ELSE 0
  /\ \A x \in Promises \ closers : cleanups[x] = 0

FinallyInv == Wired /\ LinkSlots /\ LinkTasks /\ LinkOutcomes /\ LinkCleanups

LEMMA FinallyIs == TypeInv /\ FinallyInv => FinallyTransparent
<1> SUFFICES ASSUME TypeInv, FinallyInv, NEW r \in closers, state[r] \in Settled
             PROVE  /\ cleanups[r] = 1 /\ state[r] = state[source[source[r]]]
                    /\ value[r] = value[source[source[r]]]
  BY DEF FinallyTransparent
<1> r \in Promises
  BY DEF TypeInv, TypeOK
<1>1. PICK q \in Promises : q = source[r] /\ Between(q) /\ slot[q].next = r
  BY DEF FinallyInv, Wired, Between
<1>2. state[r] = state[q] /\ value[r] = value[q]
  BY <1>1 DEF FinallyInv, LinkOutcomes, Link
<1>3. state[q] = state[source[q]] /\ value[q] = value[source[q]]
  BY <1>1, <1>2 DEF FinallyInv, LinkOutcomes, Link
<1>4. Ran(q)
  BY <1>1, <1>2 DEF Ran
<1>5. QED
  BY <1>1, <1>2, <1>3, <1>4 DEF FinallyInv, LinkCleanups

LEMMA FinallyInit == Init => FinallyInv
BY DEF Init, FinallyInv, Wired, LinkSlots, LinkTasks, LinkOutcomes, LinkCleanups, Between, Link,
       Active, NoReaction, Settled

\* What is not there yet, or has no promise before it, is no link.
LEMMA NoLink ==
  ASSUME TypeInv, FinallyInv, NEW x \in Promises, source[x] = NoPromise \/ state[x] = "Unborn"
  PROVE  ~ Link(x)
BY Facts DEF TypeInv, Unborn, FinallyInv, Wired, Link, Between

\* A step that leaves the promises of finally() alone.
LEMMA LinksKept ==
  ASSUME TypeInv, FinallyInv, SettledStays, closers' = closers, cleanups' = cleanups,
         \A x \in Promises : Link(x) => state'[x] = state[x] /\ source'[x] = source[x],
         \A x \in Promises : Between(x)' <=> Between(x),
         \A x \in Promises : Between(x) => slot'[x] = slot[x],
         \A x \in Promises : Active(x)' =>
           \/ Active(x) /\ slot'[x] = slot[x]
           \/ slot'[x].kind \notin FinallyKinds /\ ~ Link(slot'[x].next),
         \A t \in tasks' : t \in tasks \/ (t.kind \notin FinallyKinds /\ ~ Link(t.next))
  PROVE  FinallyInv'
<1>0. \A x : Link(x)' <=> Link(x)
  BY DEF Link, Between
<1>1. \A x : Link(x) => x \in Promises /\ source'[x] = source[x] /\ source[x] \in Promises
  BY DEF FinallyInv, Wired, Link, Between, TypeInv, TypeOK
<1>2. Wired'
  BY <1>1 DEF FinallyInv, Wired, Link, Between
<1>3. LinkSlots'
  <2> SUFFICES ASSUME NEW x \in Promises, Active(x)', NEW y, y = slot'[x].next
               PROVE  /\ slot'[x].kind = "finally_then" <=> Between(y)'
                      /\ slot'[x].kind = "finally_catch" <=> y \in closers'
                      /\ Link(y)' => source'[y] = x
    BY DEF LinkSlots, Link, Between
  <2>1. Between(y)' <=> Between(y)
    BY DEF Between
  <2>2. CASE Active(x) /\ slot'[x] = slot[x]
    BY <1>0, <1>1, <2>1, <2>2 DEF FinallyInv, LinkSlots
  <2>3. CASE slot'[x].kind \notin FinallyKinds /\ ~ Link(y)
    BY <1>0, <2>1, <2>3 DEF Link, FinallyKinds
  <2>4. QED
    BY <2>2, <2>3
<1>4. LinkTasks'
  <2> SUFFICES ASSUME NEW t \in tasks'
               PROVE  /\ t.kind = "finally_then" <=> Between(t.next)'
                      /\ t.kind = "finally_catch" <=> t.next \in closers'
                      /\ Link(t.next)' => /\ t.state = state'[source'[t.next]]
                                          /\ t.value = value'[source'[t.next]]
    BY DEF LinkTasks
  <2>1. Between(t.next)' <=> Between(t.next)
    BY DEF Between
  <2>2. CASE t \in tasks
    <3>1. t.state \in Settled
      BY <2>2 DEF TypeInv, TypeOK, Tasks
    <3>2. QED
      BY <1>0, <1>1, <2>1, <2>2, <3>1 DEF FinallyInv, LinkTasks, SettledStays
  <2>3. CASE t.kind \notin FinallyKinds /\ ~ Link(t.next)
    BY <1>0, <2>1, <2>3 DEF Link, FinallyKinds
  <2>4. QED
    BY <2>2, <2>3
<1>5. LinkOutcomes'
  BY <1>0, <1>1 DEF FinallyInv, LinkOutcomes, SettledStays
<1>6. LinkCleanups'
  <2> SUFFICES ASSUME NEW q \in Promises, Between(q)
               PROVE  cleanups'[slot'[q].next] = IF Ran(q)' THEN 1 ELSE 0
    BY DEF LinkCleanups, FinallyInv
  <2>1. slot'[q] = slot[q] /\ Link(q) /\ Link(slot[q].next)
    BY DEF FinallyInv, Wired, Link
  <2>2. state'[q] = state[q] /\ state'[slot[q].next] = state[slot[q].next]
    BY <1>1, <2>1
  <2>3. QED
    BY <2>1, <2>2 DEF FinallyInv, LinkCleanups, Ran
<1>7. QED
  BY <1>2, <1>3, <1>4, <1>5, <1>6 DEF FinallyInv

LEMMA FireFinally ==
  ASSUME SettlesOwn, TypeInv, CauseInv, FinallyInv, Fire  PROVE FinallyInv'
<1>1. SettledStays
  BY Stays DEF Next
<1>2. CASE Silent(firing)
  <2>1. UNCHANGED <<state, value, slot, tasks, closers, cleanups, source>>
        /\ \A x \in Promises : Active(x)' <=> Active(x)
    BY <1>2, FireSilent DEF history
  <2>2. QED
    BY <1>1, <2>1, LinksKept DEF Between
<1>3. CASE ~ Silent(firing) /\ slot[firing].kind = "adopt"
  <2>1. PICK q : q = slot[firing].next
    OBVIOUS
  <2>2. /\ firing \in Promises /\ Active(firing) /\ Waiting(q) /\ Store(q, state[firing], value[firing])
        /\ UNCHANGED <<slot, tasks, closers, cleanups, source>>
        /\ \A x \in Promises : Active(x)' => Active(x)
    BY <1>3, <2>1, FireAdopts DEF history
  <2>3. ~ Link(q)
    BY <1>3, <2>1, <2>2 DEF FinallyInv, LinkSlots, Link
  <2>4. \A x \in Promises : Link(x) => state'[x] = state[x]
    BY <2>2, <2>3 DEF Store, TypeInv, TypeOK
  <2>5. QED
    BY <1>1, <2>2, <2>4, LinksKept DEF Between
<1>4. CASE ~ Silent(firing) /\ slot[firing].kind # "adopt"
  <2>1. PICK q, t : q = slot[firing].next
                    /\ t = TaskFor(slot[firing].kind, q, state[firing], value[firing])
    OBVIOUS
  <2>2. /\ firing \in Promises /\ Active(firing) /\ tasks' = tasks \cup {t}
        /\ t.next = q /\ t.kind = slot[firing].kind
        /\ t.state = state[firing] /\ t.value = value[firing]
        /\ UNCHANGED <<state, value, slot, closers, cleanups, source>>
        /\ \A x \in Promises : Active(x)' => Active(x)
    BY <1>4, <2>1, FireSchedules DEF history, AddTask, TaskFor
  <2>3. /\ t.kind = "finally_then" <=> Between(q)
        /\ t.kind = "finally_catch" <=> q \in closers
        /\ Link(q) => source[q] = firing
    BY <2>1, <2>2 DEF FinallyInv, LinkSlots
  <2>4. LinkTasks'
    BY <2>2, <2>3 DEF FinallyInv, LinkTasks, Link, Between
  <2>5. Wired' /\ LinkSlots' /\ LinkOutcomes' /\ LinkCleanups'
    BY <2>2 DEF FinallyInv, Wired, LinkSlots, LinkOutcomes, LinkCleanups, Ran, Link, Between
  <2>6. QED
    BY <2>4, <2>5 DEF FinallyInv
<1>5. QED
  BY <1>2, <1>3, <1>4

LEMMA ReactFinally ==
  ASSUME TypeInv, CauseInv, FinallyInv, SettledStays, NEW kind \in {"then", "catch_error"},
         NEW p \in Promises, NEW q \in Promises, React(kind, p, q)
  PROVE  FinallyInv'
<1> Attached(kind, p, q)
  BY Reacts
<1>1. ~ Link(q) /\ ~ Between(p) /\ kind \notin FinallyKinds /\ kind # "finally_catch"
  BY NoLink DEF Attached, Held, Between, FinallyKinds
<1>2. /\ closers' = closers /\ cleanups' = cleanups
      /\ \A x \in Promises : Link(x) => state'[x] = state[x] /\ source'[x] = source[x]
  BY <1>1 DEF Attached
<1>3. CASE /\ slot'[p] = [kind |-> kind, next |-> q] /\ \A x \in Promises : x # p => slot'[x] = slot[x]
           /\ \A x \in Promises : Active(x)' <=> Active(x) \/ x = p
           /\ UNCHANGED tasks
  <2>1. slot'[p].kind = kind /\ slot'[p].next = q
    BY <1>3
  <2>2. \A x \in Promises : Between(x)' <=> Between(x)
    BY <1>1, <1>3, <2>1 DEF Between
  <2>3. QED
    BY <1>1, <1>2, <1>3, <2>1, <2>2, LinksKept
<1>4. CASE SameActive /\ AddTask(kind, q, state[p], value[p]) /\ UNCHANGED slot
  <2>1. PICK t : t = TaskFor(kind, q, state[p], value[p])
    OBVIOUS
  <2>2. tasks' = tasks \cup {t} /\ t.kind = kind /\ t.next = q
    BY <1>4, <2>1 DEF AddTask, TaskFor
  <2>3. QED
    BY <1>1, <1>2, <1>4, <2>2, LinksKept DEF SameActive, Between
<1>5. QED
  BY <1>3, <1>4 DEF Attached

\* A finally() makes two links of promises that were not there.
LEMMA FinallyFinally ==
  ASSUME TypeInv, CauseInv, FinallyInv, SettledStays,
         NEW p \in Promises, NEW q \in Promises, NEW r \in Promises, Finally(p, q, r)
  PROVE  FinallyInv'
<1> Closed(p, q, r)
  BY Closes
<1>1. ~ Link(q) /\ ~ Link(r) /\ ~ Between(p)
  BY NoLink DEF Closed, Held, Between
<1>2. /\ p # q /\ p # r /\ q # r /\ state'[q] = "Pending" /\ state'[r] = "Pending"
      /\ source'[q] = p /\ source'[r] = q
      /\ \A x \in Promises : x # q /\ x # r => state'[x] = state[x] /\ source'[x] = source[x]
      /\ UNCHANGED <<value, cleanups>> /\ closers' = closers \cup {r}
      /\ slot'[q] = [kind |-> "finally_catch", next |-> r]
      /\ slot'[q].kind = "finally_catch" /\ slot'[q].next = r
      /\ \A x \in Promises : x # p /\ x # q => slot'[x] = slot[x] /\ (Active(x)' <=> Active(x))
  BY DEF Closed
<1>3. slot'[p] = slot[p] \/ (slot'[p].kind = "finally_then" /\ slot'[p].next = q)
  BY DEF Closed
<1>4. \A x : Between(x)' <=> Between(x) \/ x = q
  BY <1>1, <1>2, <1>3 DEF Between
<1>5. \A x : Link(x)' <=> Link(x) \/ x \in {q, r}
  BY <1>2, <1>4 DEF Link
<1>6. /\ \A x : Link(x) => x \in Promises /\ x # q /\ x # r /\ source[x] \in Promises
      /\ \A x \in Promises : Link(x) => state'[x] = state[x] /\ source'[x] = source[x]
      /\ \A x : Between(x) => slot'[x] = slot[x]
  BY <1>1, <1>2 DEF FinallyInv, Wired, Link, Between, TypeInv, TypeOK
<1>7. Wired'
  BY <1>1, <1>2, <1>4, <1>6 DEF FinallyInv, Wired, Link
<1>8. /\ \A x \in Promises : Active(x) => slot[x].next # q /\ slot[x].next # r
      /\ \A t \in tasks : t.next # q /\ t.next # r
  BY UnbornFree DEF Closed
<1>9. \A x \in Promises : Active(x)' =>
        \/ Active(x) /\ slot'[x] = slot[x]
        \/ x = q
        \/ x = p /\ slot'[p].kind = "finally_then" /\ slot'[p].next = q
  BY <1>2 DEF Closed
<1>10. LinkSlots'
  <2> SUFFICES ASSUME NEW x \in Promises, Active(x)', NEW y, y = slot'[x].next
               PROVE  /\ slot'[x].kind = "finally_then" <=> Between(y)'
                      /\ slot'[x].kind = "finally_catch" <=> y \in closers'
                      /\ Link(y)' => source'[y] = x
    BY DEF LinkSlots, Link, Between
  <2>1. CASE Active(x) /\ slot'[x] = slot[x]
    <3>1. /\ slot[x].kind = "finally_then" <=> Between(y)
          /\ slot[x].kind = "finally_catch" <=> y \in closers
          /\ Link(y) => source[y] = x
          /\ y # q /\ y # r
      BY <1>8, <2>1 DEF FinallyInv, LinkSlots
    <3>2. QED
      BY <1>2, <1>4, <1>5, <1>6, <2>1, <3>1
  <2>2. CASE x = q
    BY <1>1, <1>2, <1>4, <2>2 DEF Link
  <2>3. CASE x = p /\ slot'[p].kind = "finally_then" /\ y = q
    BY <1>1, <1>2, <1>4, <2>3 DEF Link
  <2>4. QED
    BY <1>9, <2>1, <2>2, <2>3
<1>11. \A t \in tasks' :
         \/ t \in tasks
         \/ t.kind = "finally_then" /\ t.next = q /\ t.state = state[p] /\ t.value = value[p]
  BY DEF Closed, AddTask, TaskFor
<1>12. LinkTasks'
  <2> SUFFICES ASSUME NEW t \in tasks'
               PROVE  /\ t.kind = "finally_then" <=> Between(t.next)'
                      /\ t.kind = "finally_catch" <=> t.next \in closers'
                      /\ Link(t.next)' => /\ t.state = state'[source'[t.next]]
                                          /\ t.value = value'[source'[t.next]]
    BY DEF LinkTasks, Link, Between
  <2>1. CASE t \in tasks
    <3>1. /\ t.kind = "finally_then" <=> Between(t.next)
          /\ t.kind = "finally_catch" <=> t.next \in closers
          /\ Link(t.next) => t.state = state[source[t.next]] /\ t.value = value[source[t.next]]
          /\ t.next # q /\ t.next # r /\ t.state \in Settled
      BY <1>8, <2>1 DEF FinallyInv, LinkTasks, TypeInv, TypeOK, Tasks
    <3>2. QED
      BY <1>2, <1>4, <1>5, <1>6, <3>1 DEF SettledStays
  <2>2. CASE t.kind = "finally_then" /\ t.next = q /\ t.state = state[p] /\ t.value = value[p]
    BY <1>1, <1>2, <1>4, <2>2 DEF Link
  <2>3. QED
    BY <1>11, <2>1, <2>2
<1>13. LinkOutcomes'
  <2> SUFFICES ASSUME NEW x \in Promises, Link(x)', state'[x] \in Settled
               PROVE  state'[x] = state'[source'[x]] /\ value'[x] = value'[source'[x]]
    BY DEF LinkOutcomes
  <2>1. x # q /\ x # r
    BY <1>2 DEF Settled
  <2>2. QED
    BY <1>2, <1>5, <1>6, <2>1 DEF FinallyInv, LinkOutcomes, SettledStays
<1>14. LinkCleanups'
  <2>1. cleanups[r] = 0
    BY <1>1 DEF FinallyInv, LinkCleanups, Link
  <2>2. \A x \in Promises \ closers' : cleanups'[x] = 0
    BY <1>2 DEF FinallyInv, LinkCleanups
  <2>3. ASSUME NEW x \in Promises, Between(x)
        PROVE  cleanups'[slot'[x].next] = IF Ran(x)' THEN 1 ELSE 0
    <3>1. Link(x) /\ Link(slot[x].next) /\ slot'[x] = slot[x]
      BY <1>6, <2>3 DEF FinallyInv, Wired, Link
    <3>2. state'[x] = state[x] /\ state'[slot[x].next] = state[slot[x].next]
      BY <1>6, <3>1
    <3>3. QED
      BY <1>2, <2>3, <3>1, <3>2 DEF FinallyInv, LinkCleanups, Ran
  <2>4. cleanups'[slot'[q].next] = IF Ran(q)' THEN 1 ELSE 0
    BY <1>2, <2>1 DEF Ran, Settled
  <2>5. QED
    BY <1>4, <2>2, <2>3, <2>4 DEF LinkCleanups
<1>15. QED
  BY <1>7, <1>10, <1>12, <1>13, <1>14 DEF FinallyInv

\* What a task does to cleanups, and what it stores for a finally().
LEMMA TaskCleanups ==
  ASSUME FinallyKeeps, NEW t \in tasks, RunTask(t)
  PROVE  /\ t.kind \notin FinallyKinds => cleanups' = cleanups
         /\ t.kind \in FinallyKinds =>
              /\ Store(t.next, t.state, t.value) /\ Done(t)
              /\ UNCHANGED <<slot, source, closers>>
              /\ cleanups' = IF Handles(t) THEN [cleanups EXCEPT ![Closer(t)] = @ + 1]
                             ELSE cleanups
<1>1. CASE PassOn(t)
  BY <1>1 DEF PassOn, FinallyKinds, history
<1>2. CASE CallbackEnds(t)
  BY <1>2 DEF CallbackEnds, FinallyKinds, history
<1>3. CASE RunFinally(t)
  BY <1>3 DEF RunFinally, FinallyKeeps, FinallyKinds
<1>4. ASSUME NEW inner \in Promises, CallbackReturnsPromise(t, inner)
      PROVE  cleanups' = cleanups /\ t.kind \notin FinallyKinds
  BY <1>4 DEF CallbackReturnsPromise, FinallyKinds
<1>5. QED
  BY <1>1, <1>2, <1>3, <1>4 DEF RunTask

\* A part of a finally() runs: x settles as the promise before it.
LEMMA PartFinally ==
  ASSUME FinallyKeeps, TypeInv, CauseInv, FinallyInv, SettledStays, Quiet,
         NEW t \in tasks, RunTask(t), t.kind \in FinallyKinds
  PROVE  FinallyInv'
<1> DEFINE x == t.next
<1>1. /\ x \in Promises /\ t.state \in Settled /\ Link(x) /\ tasks' = tasks \ {t}
      /\ t.kind = "finally_then" <=> Between(x)
      /\ t.kind = "finally_catch" <=> x \in closers
      /\ t.state = state[source[x]] /\ t.value = value[source[x]]
  BY TaskCleanups, Facts DEF FinallyInv, LinkTasks, Link, FinallyKinds, Done, TypeInv, TypeOK, Tasks
<1>2. state[x] = "Pending"
  BY TaskNext DEF Waiting, FinallyKinds
<1>3. /\ state'[x] = t.state /\ value'[x] = t.value
      /\ \A y \in Promises : y # x => state'[y] = state[y] /\ value'[y] = value[y]
      /\ UNCHANGED <<slot, source, closers>> /\ firing' = x
  BY <1>1, TaskCleanups DEF Store, TypeInv, TypeOK
<1>4. \A y : Link(y) => y \in Promises /\ source[y] \in Promises
  BY DEF FinallyInv, Wired, Link, Between, TypeInv, TypeOK
<1>5. \A y \in Promises : Active(y)' => Active(y)
  BY <1>2, <1>3 DEF Quiet, Active
<1>6. Wired'
  BY <1>3 DEF FinallyInv, Wired, Between
<1>7. LinkSlots'
  BY <1>3, <1>5 DEF FinallyInv, LinkSlots, Link, Between
<1>8. LinkTasks'
  <2> SUFFICES ASSUME NEW u \in tasks
               PROVE  /\ u.kind = "finally_then" <=> Between(u.next)
                      /\ u.kind = "finally_catch" <=> u.next \in closers
                      /\ Link(u.next) => /\ u.state = state'[source[u.next]]
                                         /\ u.value = value'[source[u.next]]
    BY <1>1, <1>3 DEF LinkTasks, Link, Between
  <2>1. u.state \in Settled
    BY DEF TypeInv, TypeOK, Tasks
  <2>2. QED
    BY <1>4, <2>1 DEF FinallyInv, LinkTasks, SettledStays
<1>9. source[x] # x
  BY <1>1, <1>2 DEF Settled
<1>10. LinkOutcomes'
  <2> SUFFICES ASSUME NEW y \in Promises, Link(y), state'[y] \in Settled
               PROVE  state'[y] = state'[source[y]] /\ value'[y] = value'[source[y]]
    BY <1>3 DEF LinkOutcomes, Link, Between
  <2>1. CASE y = x
    BY <1>1, <1>3, <1>4, <1>9, <2>1
  <2>2. CASE y # x
    BY <1>3, <1>4, <2>2 DEF FinallyInv, LinkOutcomes, SettledStays
  <2>3. QED
    BY <2>1, <2>2
<1>11. cleanups \in [Promises -> Nat] /\ closers \subseteq Promises
  BY DEF TypeInv, TypeOK
<1>12. CASE t.kind = "finally_then"
  <2>1. PICK r \in closers : r = slot[x].next /\ source[r] = x /\ r \in Promises /\ r # x
    BY <1>1, <1>11, <1>12 DEF FinallyInv, Wired
  <2>2. cleanups[r] = 0 /\ state[r] \notin Settled
    BY <1>1, <1>2, <1>12, <2>1 DEF FinallyInv, LinkCleanups, LinkOutcomes, Ran, Link, Settled
  <2>3. /\ cleanups'[r] = IF t.state = "Fulfilled" THEN 1 ELSE 0
        /\ \A y \in Promises : y # r => cleanups'[y] = cleanups[y]
    BY <1>11, <1>12, <2>1, <2>2, TaskCleanups DEF Closer, Handles, FinallyKinds
  <2>4. \A y \in Promises \ closers' : cleanups'[y] = 0
    BY <1>3, <2>1, <2>3 DEF FinallyInv, LinkCleanups
  <2>5. cleanups'[slot'[x].next] = IF Ran(x)' THEN 1 ELSE 0
    BY <1>1, <1>3, <2>1, <2>2, <2>3 DEF Ran
  <2>6. ASSUME NEW q \in Promises, Between(q), q # x
        PROVE  cleanups'[slot'[q].next] = IF Ran(q)' THEN 1 ELSE 0
    <3>1. slot[q].next \in Promises /\ slot[q].next # r /\ slot[q].next # x
      BY <1>1, <1>11, <1>12, <2>1, <2>6 DEF FinallyInv, Wired
    <3>2. QED
      BY <1>3, <2>3, <2>6, <3>1 DEF FinallyInv, LinkCleanups, Ran
  <2>7. QED
    BY <1>3, <1>6, <1>7, <1>8, <1>10, <2>4, <2>5, <2>6 DEF FinallyInv, LinkCleanups, Between
<1>13. CASE t.kind = "finally_catch"
  <2>1. PICK q \in Promises : q = source[x] /\ Between(q) /\ slot[q].next = x /\ q # x
    BY <1>1, <1>9, <1>13 DEF FinallyInv, Wired, Between
  <2>2. cleanups[x] = IF t.state = "Fulfilled" THEN 1 ELSE 0
    BY <1>1, <1>2, <2>1 DEF FinallyInv, LinkCleanups, Ran, Settled
  <2>3. cleanups'[x] = 1 /\ \A y \in Promises : y # x => cleanups'[y] = cleanups[y]
    BY <1>1, <1>11, <1>13, <2>2, TaskCleanups DEF Closer, Handles, FinallyKinds, Settled
  <2>4. \A y \in Promises \ closers' : cleanups'[y] = 0
    BY <1>1, <1>3, <1>13, <2>3 DEF FinallyInv, LinkCleanups
  <2>5. cleanups'[slot'[q].next] = IF Ran(q)' THEN 1 ELSE 0
    BY <1>1, <1>3, <2>1, <2>3 DEF Ran
  <2>6. ASSUME NEW y \in Promises, Between(y), y # q
        PROVE  cleanups'[slot'[y].next] = IF Ran(y)' THEN 1 ELSE 0
    <3>1. slot[y].next \in Promises /\ slot[y].next # x /\ y # x
      BY <1>1, <1>11, <1>13, <2>1, <2>6 DEF FinallyInv, Wired
    <3>2. QED
      BY <1>3, <2>3, <2>6, <3>1 DEF FinallyInv, LinkCleanups, Ran
  <2>7. QED
    BY <1>3, <1>6, <1>7, <1>8, <1>10, <2>4, <2>5, <2>6 DEF FinallyInv, LinkCleanups, Between
<1>14. QED
  BY <1>12, <1>13 DEF FinallyKinds

\* Any other task leaves the promises of finally() alone.
LEMMA OtherTaskFinally ==
  ASSUME FinallyKeeps, TypeInv, CauseInv, FinallyInv, SettledStays, Quiet,
         NEW t \in tasks, RunTask(t), t.kind \notin FinallyKinds
  PROVE  FinallyInv'
<1>1. ~ Link(t.next) /\ cleanups' = cleanups /\ t.next \in Promises
  BY TaskCleanups, Facts DEF FinallyInv, LinkTasks, Link, FinallyKinds
<1>2. CASE Ignored(t)
  <2>1. UNCHANGED <<state, slot, source, closers>> /\ tasks' \subseteq tasks
        /\ \A x \in Promises : Active(x)' <=> Active(x)
    BY <1>2, IgnoredCauses DEF Ignored, Done, history
  <2>2. QED
    BY <1>1, <2>1, LinksKept DEF Between
<1>3. ASSUME NEW inner \in Promises, Adopted(t, inner)  PROVE FinallyInv'
  <2>1. /\ UNCHANGED <<state, source, closers>> /\ tasks' \subseteq tasks
        /\ slot'[inner].kind = "adopt" /\ slot'[inner].next = t.next
        /\ slot[inner].kind # "finally_catch"
        /\ \A x \in Promises : x # inner => slot'[x] = slot[x]
        /\ \A x \in Promises : Active(x)' <=> Active(x) \/ x = inner
    BY <1>3, AdoptedCauses DEF Adopted, Done, Held, TypeInv, TypeOK
  <2>2. \A x \in Promises : Between(x)' <=> Between(x)
    BY <2>1 DEF Between
  <2>3. QED
    BY <1>1, <2>1, <2>2, LinksKept DEF Between, FinallyKinds
<1>4. CASE TaskStores(t) /\ (t.kind = "resolve" => MaySettle(t.next))
  <2>1. /\ UNCHANGED <<slot, source, closers>> /\ tasks' \subseteq tasks
        /\ \A x \in Promises : x # t.next => state'[x] = state[x]
        /\ \A x \in Promises : Active(x)' <=> Active(x)
    BY <1>1, <1>4, TaskStoresCauses DEF TaskStores, Done, Store, TypeInv, TypeOK
  <2>2. QED
    BY <1>1, <2>1, LinksKept DEF Between
<1>5. QED
  BY <1>2, <1>3, <1>4, TaskCases

LEMMA FinallyStep ==
  ASSUME SettlesOwn, FinallyKeeps, TypeInv, CauseInv, FinallyInv, [Next]_vars  PROVE FinallyInv'
<1>0. SettledStays
  BY Stays
<1>1. CASE UNCHANGED vars
  BY <1>1 DEF vars, FinallyInv, Wired, LinkSlots, LinkTasks, LinkOutcomes, LinkCleanups, Ran,
              Between, Link, Active
<1>2. ASSUME NEW p \in Promises, Construct(p)  PROVE FinallyInv'
  <2>1. UNCHANGED <<slot, tasks, source, closers, cleanups>> /\ SameActive /\ ~ Link(p)
    BY <1>2, ConstructCauses, NoLink DEF Construct, history
  <2>2. \A x \in Promises : x # p => state'[x] = state[x]
    BY <1>2 DEF Construct, Store, TypeInv, TypeOK
  <2>3. QED
    BY <1>0, <2>1, <2>2, LinksKept DEF SameActive, Between
<1>3. ASSUME NEW p \in Promises, Delay(p)  PROVE FinallyInv'
  <2>1. UNCHANGED <<slot, source, closers, cleanups>> /\ SameActive /\ ~ Link(p)
    BY <1>3, DelayCauses, NoLink DEF Delay, history
  <2>2. \A t \in tasks' : t \in tasks \/ (t.kind = "resolve" /\ t.next = p)
    BY <1>3 DEF Delay, AddTask, TaskFor
  <2>3. \A x \in Promises : x # p => state'[x] = state[x]
    BY <1>3 DEF Delay, TypeInv, TypeOK
  <2>4. QED
    BY <1>0, <2>1, <2>2, <2>3, LinksKept DEF SameActive, Between, FinallyKinds
<1>4. ASSUME NEW p \in Promises, NEW s \in Settled, NEW v \in Values, Settle(p, s, v)
      PROVE  FinallyInv'
  <2>1. UNCHANGED <<slot, tasks, source, closers, cleanups>> /\ SameActive /\ source[p] = NoPromise
    BY <1>4, SettleCauses DEF Settle, Derived, SettlesOwn, history
  <2>2. \A x \in Promises : x # p => state'[x] = state[x]
    BY <1>4 DEF Settle, Store, TypeInv, TypeOK
  <2>3. QED
    BY <1>0, <2>1, <2>2, NoLink, LinksKept DEF SameActive, Between
<1>5. QED
  BY <1>0, <1>1, <1>2, <1>3, <1>4, FireFinally, ReactFinally, FinallyFinally, PartFinally,
     OtherTaskFinally DEF Next, Then, CatchError

\* The promise that finally() returns ends as the promise it was called on, and
\* has then called the function once, in a program whose functions given to
\* finally() do not throw.
THEOREM FinallyCorrect ==
  ASSUME SettlesOwn, FinallyKeeps
  PROVE  Spec => []FinallyTransparent
<1>1. Init => TypeInv /\ CauseInv /\ FinallyInv
  BY TypeInit, CauseInit, FinallyInit
<1>2. TypeInv /\ CauseInv /\ FinallyInv /\ [Next]_vars => TypeInv' /\ CauseInv' /\ FinallyInv'
  BY TypeStep, CauseStep, FinallyStep
<1>3. TypeInv /\ FinallyInv => FinallyTransparent
  BY FinallyIs
<1>4. QED
  BY <1>1, <1>2, <1>3, PTL DEF Spec
=============================================================================
