----------------------------- MODULE EventPromise -----------------------------
(***************************************************************************)
(* nodec::asyncio::EventPromise and EventPromiseFactory                    *)
(* (include/nodec/asyncio/event_promise.hpp), on the thread of the event   *)
(* loop they are bound to: they have no lock, and a resolver called from   *)
(* another thread goes through EventLoop::schedule.                        *)
(*                                                                         *)
(* A promise has one on_fulfill and one on_reject slot. The two are always *)
(* assigned together, so slot[p] is the reaction both stand for. Settling  *)
(* a promise calls its slot at once; the slot of then() and catch_error()  *)
(* schedules a task on the loop, the slot of an adopted promise settles    *)
(* the adopter and calls its slot in turn. `firing` is the promise whose   *)
(* slot is being called; nothing else runs until that cascade ends.        *)
(*                                                                         *)
(* The tasks of the loop are a set, run in any order: EventLoop orders     *)
(* them by time and leaves equal times open. A task runs its callback      *)
(* atomically; what a callback does to promises before it returns, the     *)
(* program may as well do just before the task.                            *)
(***************************************************************************)
EXTENDS Integers, FiniteSets

CONSTANTS
  Promises,   \* the PromiseData objects a program creates
  NoPromise,  \* none of them
  Values,     \* what a promise is resolved or rejected with
  NoValue,    \* std::monostate
  Usage       \* what the program does besides chaining, see below

ASSUME PromiseAssumption ==
  /\ NoPromise \notin Promises
  /\ NoValue \notin Values
  /\ Usage \subseteq {"fan_out",         \* two reactions on one pending promise
                      "settle_derived",  \* resolves what then() returned
                      "finally_throws",  \* throws from the function of finally
                      "cycle"}           \* a callback returns what waits for it

VARIABLES
  state,    \* PromiseData::state, "Unborn" before the constructor
  value,    \* PromiseData::value
  slot,     \* PromiseData::on_fulfill and on_reject
  firing,   \* the promise whose slot is being called
  tasks,    \* the callbacks in the EventLoop
  source,   \* the promise whose then or catch_error made this one  (history)
  closers,  \* promises returned by finally               (history)
  handed,   \* tasks made so far to settle a promise      (history)
  cleanups, \* calls of the function given to finally     (history)
  replaced  \* promises whose reaction was overwritten     (history)

vars == <<state, value, slot, firing, tasks, source, closers, handed, cleanups,
          replaced>>
history == <<source, closers, cleanups, replaced>>

Settled == {"Fulfilled", "Rejected"}
Kinds == {"then", "catch_error", "finally_then", "finally_catch"}
Reactions == [kind : Kinds \union {"adopt"}, next : Promises]
NoReaction == [kind |-> "none", next |-> NoPromise]
Tasks == [kind : Kinds \union {"resolve"}, next : Promises,
          state : Settled, value : Values, turn : Nat]

-----------------------------------------------------------------------------
(* Settling *)

\* Store the state and the value, then call the slot. The reactions do this
\* without a look at the state; resolve() and reject() check it first.
Store(p, s, v) ==
  /\ state' = [state EXCEPT ![p] = s]
  /\ value' = [value EXCEPT ![p] = v]
  /\ firing' = p

Unguarded(p) == TRUE                                           \* defect
MaySettle(p) == state[p] = "Pending"

Derived == {q \in Promises : source[q] # NoPromise}

\* The outcome a task takes with it: a copy, made when the slot is called.
\* (On a settled promise the task reads the value when it runs, which is the
\* same value as long as settled promises are Immutable.)
NotYetStored(p) == NoValue                                     \* defect
Captured(p) == value[p]

\* A task of the loop that settles q when it runs.
TaskFor(kind, q, s, v) ==
  [kind |-> kind, next |-> q, state |-> s, value |-> v, turn |-> handed[q]]
AddTask(kind, q, s, v) ==
  /\ tasks' = tasks \union {TaskFor(kind, q, s, v)}
  /\ handed' = [handed EXCEPT ![q] = @ + 1]

\* The slot of the promise being settled is called.
SilentOnReject(p) ==                                            \* defect
  slot[p] = NoReaction \/ (slot[p].kind = "then" /\ state[p] = "Rejected")
Silent(p) == slot[p] = NoReaction

AdopterFulfilled(p) == "Fulfilled"                             \* defect
AdopterState(p) == state[p]

Fire ==
  /\ firing # NoPromise
  /\ LET p == firing
         r == slot[p]
     IN \/ /\ Silent(p)
           /\ firing' = NoPromise
           /\ UNCHANGED <<state, value, tasks, handed>>
        \/ /\ ~Silent(p)
           /\ r.kind = "adopt"
           /\ Store(r.next, AdopterState(p), value[p])
           /\ UNCHANGED <<tasks, handed>>
        \/ /\ ~Silent(p)
           /\ r.kind # "adopt"
           /\ AddTask(r.kind, r.next, state[p], Captured(p))
           /\ firing' = NoPromise
           /\ UNCHANGED <<state, value>>
  /\ UNCHANGED <<slot, history>>

-----------------------------------------------------------------------------
(* The program's calls *)

Quiet == firing = NoPromise

\* What the program holds: every promise but the one inside finally().
Held(p) == state[p] # "Unborn" /\ slot[p].kind # "finally_catch"

\* The constructor, with or without an executor: of the resolve and reject
\* calls and the exception of the executor the first one settles the promise.
Construct(p) ==
  /\ Quiet /\ state[p] = "Unborn"
  /\ \/ state' = [state EXCEPT ![p] = "Pending"] /\ UNCHANGED <<value, firing>>
     \/ \E s \in Settled, v \in Values : Store(p, s, v)
  /\ UNCHANGED <<slot, tasks, handed, history>>

\* resolve(), reject(), or the resolver functions given to an executor.
Settle(p, s, v) ==
  /\ Quiet /\ Held(p)
  /\ p \in Derived => "settle_derived" \in Usage
  /\ MaySettle(p)
  /\ Store(p, s, v)
  /\ UNCHANGED <<slot, tasks, handed, history>>

\* EventPromiseFactory::delay: a promise that a task of the loop resolves.
Delay(p) ==
  /\ Quiet /\ state[p] = "Unborn"
  /\ state' = [state EXCEPT ![p] = "Pending"]
  /\ \E v \in Values : AddTask("resolve", p, "Fulfilled", v)
  /\ UNCHANGED <<value, slot, firing, history>>

MayReact(p) == slot[p] = NoReaction \/ "fan_out" \in Usage

\* The slot of a pending promise takes a new reaction, in place of the one it
\* may hold.
Replace(p) == replaced' = replaced \union ({slot[p].next} \ {NoPromise})

\* then(f) and catch_error(f) on p, which return q. A pending p keeps the
\* reaction in its slot, in place of the one it held.
Attach(p, r) ==
  \/ /\ state[p] = "Pending" /\ MayReact(p)
     /\ slot' = [slot EXCEPT ![p] = r]
     /\ Replace(p)
     /\ UNCHANGED <<tasks, handed>>
  \/ /\ state[p] \in Settled
     /\ AddTask(r.kind, r.next, state[p], Captured(p))
     /\ UNCHANGED <<slot, replaced>>

React(kind, p, q) ==
  /\ Quiet /\ Held(p) /\ state[q] = "Unborn"
  /\ state' = [state EXCEPT ![q] = "Pending"]
  /\ Attach(p, [kind |-> kind, next |-> q])
  /\ source' = [source EXCEPT ![q] = p]
  /\ UNCHANGED <<value, firing, closers, cleanups>>

Then(p, q) == React("then", p, q)
CatchError(p, q) == React("catch_error", p, q)

\* finally(f) on p: then(f; the same value).catch_error(f; the same error).
\* The promise q between the two is not handed out. It compiles for
\* EventPromise<void> only (the general catch_error calls on_fulfill() without
\* the value of its T), where the value of a fulfilled promise has no content.
Finally(p, q, r) ==
  /\ Quiet /\ Held(p) /\ state[q] = "Unborn" /\ state[r] = "Unborn"
  /\ q # r
  /\ state' = [state EXCEPT ![q] = "Pending", ![r] = "Pending"]
  /\ \/ /\ state[p] = "Pending" /\ MayReact(p)
        /\ slot' = [slot EXCEPT ![p] = [kind |-> "finally_then", next |-> q],
                                ![q] = [kind |-> "finally_catch", next |-> r]]
        /\ Replace(p)
        /\ UNCHANGED <<tasks, handed>>
     \/ /\ state[p] \in Settled
        /\ AddTask("finally_then", q, state[p], Captured(p))
        /\ slot' = [slot EXCEPT ![q] = [kind |-> "finally_catch", next |-> r]]
        /\ UNCHANGED replaced
  /\ source' = [source EXCEPT ![q] = p, ![r] = q]
  /\ closers' = closers \union {r}
  /\ UNCHANGED <<value, firing, cleanups>>

-----------------------------------------------------------------------------
(* The tasks of the loop *)

ThenAlways(t) == \/ t.kind \in {"then", "finally_then"}         \* defect
                 \/ t.kind \in {"catch_error", "finally_catch"} /\ t.state = "Rejected"
Handles(t) == \/ t.kind \in {"then", "finally_then"} /\ t.state = "Fulfilled"
              \/ t.kind \in {"catch_error", "finally_catch"} /\ t.state = "Rejected"

Done(t) == tasks' = tasks \ {t}

\* No callback for this outcome: it goes on to the next promise. The task of
\* delay() calls a resolver, which a settled promise ignores.
PassOn(t) ==
  /\ ~Handles(t)
  /\ IF t.kind = "resolve" /\ ~MaySettle(t.next)
     THEN UNCHANGED <<state, value, firing>>
     ELSE Store(t.next, t.state, t.value)
  /\ Done(t)
  /\ UNCHANGED <<slot, handed, history>>

\* The callback returns a value or throws.
CallbackEnds(t) ==
  /\ Handles(t) /\ t.kind \in {"then", "catch_error"}
  /\ \E s \in Settled, v \in Values : Store(t.next, s, v)
  /\ Done(t)
  /\ UNCHANGED <<slot, handed, history>>

\* The promises that wait for p, through the slots of pending promises.
Downstream(p) ==
  {q \in Promises : \A S \in SUBSET Promises :
     /\ p \in S
     /\ \A x \in S : state[x] = "Pending" /\ slot[x] # NoReaction => slot[x].next \in S
     => q \in S}

\* The callback returns a promise: a settled one passes its outcome on, a
\* pending one is adopted, its slot now settles the next promise.
CallbackReturnsPromise(t, inner) ==
  /\ Handles(t) /\ t.kind \in {"then", "catch_error"}
  /\ Held(inner)
  /\ inner \in Downstream(t.next) => "cycle" \in Usage
  /\ \/ /\ state[inner] \in Settled
        /\ Store(t.next, state[inner], value[inner])
        /\ UNCHANGED <<slot, replaced>>
     \/ /\ state[inner] = "Pending" /\ MayReact(inner)
        /\ slot' = [slot EXCEPT ![inner] = [kind |-> "adopt", next |-> t.next]]
        /\ Replace(inner)
        /\ UNCHANGED <<state, value, firing>>
  /\ Done(t)
  /\ UNCHANGED <<handed, source, closers, cleanups>>

\* The function of finally, in the then or in the catch_error part; its
\* outcome is that of the promise before, unless it throws itself.
Closer(t) == IF t.kind = "finally_then" THEN slot[t.next].next ELSE t.next
RunFinally(t) ==
  /\ Handles(t) /\ t.kind \in {"finally_then", "finally_catch"}
  /\ cleanups' = [cleanups EXCEPT ![Closer(t)] = @ + 1]
  /\ \/ Store(t.next, t.state, t.value)
     \/ "finally_throws" \in Usage /\ \E v \in Values : Store(t.next, "Rejected", v)
  /\ Done(t)
  /\ UNCHANGED <<slot, handed, source, closers, replaced>>

RunTask(t) == \/ PassOn(t) \/ CallbackEnds(t) \/ RunFinally(t)
              \/ \E inner \in Promises : CallbackReturnsPromise(t, inner)

-----------------------------------------------------------------------------
Init ==
  /\ state = [p \in Promises |-> "Unborn"]
  /\ value = [p \in Promises |-> NoValue]
  /\ slot = [p \in Promises |-> NoReaction]
  /\ firing = NoPromise
  /\ tasks = {}
  /\ source = [p \in Promises |-> NoPromise] /\ closers = {}
  /\ handed = [p \in Promises |-> 0] /\ cleanups = [p \in Promises |-> 0]
  /\ replaced = {}

Next ==
  \/ Fire
  \/ \E p \in Promises : Construct(p) \/ Delay(p)
  \/ \E p \in Promises, s \in Settled, v \in Values : Settle(p, s, v)
  \/ \E p, q \in Promises : Then(p, q) \/ CatchError(p, q)
  \/ \E p, q, r \in Promises : Finally(p, q, r)
  \/ Quiet /\ \E t \in tasks : RunTask(t)

\* The loop is spun; each task in it is run, which EventLoop promises.
LoopFairness ==
  /\ WF_vars(Fire)
  /\ \A q \in Promises : WF_vars(Quiet /\ \E t \in tasks : t.next = q /\ RunTask(t))

\* A program that settles each promise it has constructed itself.
RootFairness ==
  \A p \in Promises :
    WF_vars(p \notin Derived /\ \E s \in Settled, v \in Values : Settle(p, s, v))

Spec == Init /\ [][Next]_vars
FairSpec == Spec /\ LoopFairness /\ RootFairness

-----------------------------------------------------------------------------
(* Properties *)

TypeOK ==
  /\ state \in [Promises -> Settled \union {"Unborn", "Pending"}]
  /\ value \in [Promises -> Values \union {NoValue}]
  /\ slot \in [Promises -> Reactions \union {NoReaction}]
  /\ firing \in Promises \union {NoPromise}
  /\ tasks \subseteq Tasks
  /\ source \in [Promises -> Promises \union {NoPromise}]
  /\ closers \subseteq Promises
  /\ handed \in [Promises -> Nat]
  /\ cleanups \in [Promises -> Nat]
  /\ replaced \subseteq Promises

\* event_promise.hpp:51 and :59: once fulfilled or rejected, a promise stays so,
\* with its value. The reactions store without looking at the state, so this
\* rests on each derived promise having one reaction or adoption to settle it.
Immutable ==
  [][\A p \in Promises : state[p] \in Settled =>
       state'[p] = state[p] /\ value'[p] = value[p]]_vars

\* No callback is handed to the loop twice: the slots are never cleared, so a
\* promise settled a second time would call its reaction again.
HandedOnce == \A q \in Promises : handed[q] <= 1

\* Nothing hangs: a derived promise that is pending has something left that
\* will settle it, a task or the slot of a promise that can still fire, unless
\* its reaction was overwritten by a later one on the same promise.
Causes(q) ==
  {p \in Promises : slot[p] # NoReaction /\ slot[p].next = q
                      /\ (state[p] = "Pending" \/ firing = p)}
PendingHasCause ==
  \A q \in Derived \ replaced : state[q] = "Pending" =>
    Causes(q) # {} \/ \E t \in tasks : t.next = q

\* An adopted promise and its adopter end with the same outcome.
AdoptionAgrees ==
  \A p \in Promises :
    slot[p].kind = "adopt" /\ state[p] \in Settled /\ firing # p =>
      state[slot[p].next] = state[p] /\ value[slot[p].next] = value[p]

\* The promise of finally() has the outcome of the promise it was called on,
\* and has it only after its function was called exactly once, in the then or
\* in the catch_error part.
FinallyTransparent ==
  \A r \in closers : state[r] \in Settled =>
    LET p == source[source[r]]
    IN cleanups[r] = 1 /\ state[r] = state[p] /\ value[r] = value[p]

\* No promise hangs in a program that settles the promises it constructs.
EverySettles ==
  \A p \in Promises : state[p] = "Pending" ~> state[p] \in Settled

\* What event_promise.hpp says of then() and catch_error(): the function is
\* called when the promise is resolved; so a settled promise hands every
\* reaction attached to it to the loop.
EveryReactionHanded ==
  \A p, q \in Promises :
    source[q] = p /\ state[p] \in Settled ~> handed[q] > 0
=============================================================================
