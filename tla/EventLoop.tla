------------------------------ MODULE EventLoop ------------------------------
(***************************************************************************)
(* nodec::asyncio::EventLoop (include/nodec/asyncio/event_loop.hpp).       *)
(*                                                                         *)
(* Producers call schedule() from any thread; consumers call spin(),       *)
(* spin_once() or wait_for_events(), and call schedule() too, from their   *)
(* own code between two calls and from inside the callbacks they run.      *)
(*                                                                         *)
(* The mutex protects the queue alone and is never held across a callback, *)
(* so each critical section is one action and the mutex has no variable.   *)
(* What the code does outside the mutex is an action of its own: schedule  *)
(* reads the clock before it locks and notifies after it unlocks;          *)
(* spin_once reads the clock once and then takes the mutex per event.      *)
(***************************************************************************)
EXTENDS Integers, FiniteSets

CONSTANTS
  Producers,   \* threads that only schedule
  Consumers,   \* threads that run the loop
  Events,      \* the Event objects; each is scheduled at most once
  NoEvent,     \* no Event
  Delays,      \* the delays given to schedule()
  Waits,       \* the max_wait values given to spin() and wait_for_events()
  Batches,     \* the max_events values given to spin_once(); 0 is unlimited
  Throwing,    \* the Events whose callback may throw
  Calls,       \* the member functions the consumers call
  MaxTime      \* the last reading of the clock (bound)

Threads == Producers \union Consumers
Times   == 0 .. MaxTime

\* Duration::max(): no interval of a behaviour is as long.
DurationMax == MaxTime + 1

ASSUME LoopAssumption ==
  /\ Producers \cap Consumers = {}
  /\ NoEvent \notin Events
  /\ MaxTime \in Nat
  /\ Delays \subseteq Nat
  /\ Waits \subseteq 0 .. DurationMax
  /\ Batches \subseteq Nat
  /\ Calls \subseteq {"spin", "spin_once", "wait_for_events"}

VARIABLES
  clock,       \* steady_clock::now()
  queue,       \* event_queue_: the Events pushed and not popped
  due,         \* Event::scheduled_time
  fresh,       \* Events not yet handed to schedule()
  posting,     \* the Event a thread has stamped and not yet pushed
  notifying,   \* threads between the unlock and notify_one() in schedule()
  notified,    \* sleeping consumers that notify_one() has picked
  pc,          \* where each consumer is
  call,        \* the member function it is in, "none" outside the loop
  maxWait,     \* its max_wait
  next,        \* next_event_time in wait_for_events()
  deadline,    \* when its cv_.wait_for() times out
  now,         \* now in spin_once()
  left,        \* events spin_once() may still process, -1 for unlimited
  running,     \* the Event whose callback it runs
  rank,        \* the place of an Event in the push order  (history)
  pushes       \* how many Events were pushed              (history)

queueVars == <<queue, due, fresh, rank, pushes>>
postVars  == <<posting, notifying>>
waitVars  == <<maxWait, next, deadline, notified>>
spinVars  == <<now, left, running>>
vars == <<clock, queueVars, postVars, waitVars, spinVars, pc, call>>

-----------------------------------------------------------------------------
(* The queue *)

\* The Events top() may return: std::priority_queue leaves the order of
\* equal times open.
UnorderedTops == queue                                         \* defect
Tops == {e \in queue : \A f \in queue : due[e] <= due[f]}

CopyTop(e) == queue                                            \* defect
Pop(e) == queue \ {e}

\* A thread outside schedule(): the only one that can go on with its own code.
Quiet(t) == posting[t] = NoEvent /\ t \notin notifying

\* A consumer runs code of its own only outside the loop or in a callback.
MaySchedule(t) == /\ Quiet(t)
                  /\ t \in Consumers => pc[t] \in {"idle", "callback"}

-----------------------------------------------------------------------------
(* schedule(callback, delay) *)

\* Clock::now() + delay, read before the mutex is taken.
Stamp(t, e, d) ==
  /\ MaySchedule(t)
  /\ e \in fresh
  /\ clock + d <= MaxTime
  /\ fresh' = fresh \ {e}
  /\ due' = [due EXCEPT ![e] = clock + d]
  /\ posting' = [posting EXCEPT ![t] = e]
  /\ UNCHANGED <<clock, queue, rank, pushes, notifying, waitVars, spinVars, pc, call>>

\* The notify_one() a push owes to the sleeping consumers.
OweNothing(t) == notifying                                     \* defect
OweNotify(t) == notifying \union {t}

\* The critical section: event_queue_.push.
Push(t) ==
  /\ posting[t] # NoEvent
  /\ queue' = queue \union {posting[t]}
  /\ rank' = [rank EXCEPT ![posting[t]] = pushes + 1]
  /\ pushes' = pushes + 1
  /\ posting' = [posting EXCEPT ![t] = NoEvent]
  /\ notifying' = OweNotify(t)
  /\ UNCHANGED <<clock, due, fresh, waitVars, spinVars, pc, call>>

\* cv_.notify_one(): one of the threads blocked in wait_for, if any.
Asleep == {c \in Consumers : pc[c] = "asleep"}
Notify(t) ==
  /\ t \in notifying
  /\ notifying' = notifying \ {t}
  /\ IF Asleep \ notified = {}
     THEN UNCHANGED notified
     ELSE \E c \in Asleep \ notified : notified' = notified \union {c}
  /\ UNCHANGED <<clock, queueVars, posting, maxWait, next, deadline, spinVars, pc, call>>

-----------------------------------------------------------------------------
(* The calls of a consumer *)

Enter(c, f, step) ==
  /\ pc[c] = "idle"
  /\ Quiet(c)
  /\ f \in Calls
  /\ pc' = [pc EXCEPT ![c] = step]
  /\ call' = [call EXCEPT ![c] = f]
  /\ UNCHANGED <<clock, queueVars, postVars, next, deadline, notified, now, running>>

CallSpin(c, w) ==
  /\ Enter(c, "spin", "check")
  /\ maxWait' = [maxWait EXCEPT ![c] = w]
  /\ left' = [left EXCEPT ![c] = -1]

CallWaitForEvents(c, w) ==
  /\ Enter(c, "wait_for_events", "check")
  /\ maxWait' = [maxWait EXCEPT ![c] = w]
  /\ UNCHANGED left

\* Events left to process: max_events = 0 stands for no limit.
LiteralLimit(n) == n                                           \* defect
Limit(n) == IF n = 0 THEN -1 ELSE n

CallSpinOnce(c, n) ==
  /\ Enter(c, "spin_once", "start")
  /\ left' = [left EXCEPT ![c] = Limit(n)]
  /\ UNCHANGED maxWait

\* Control leaves the loop, by return or by exception.
Leave(c) == /\ pc' = [pc EXCEPT ![c] = "idle"]
            /\ call' = [call EXCEPT ![c] = "none"]

-----------------------------------------------------------------------------
(* wait_for_events(max_wait) *)

\* Its return: spin() goes round its loop on true and ends on false.
WaitReturns(c, ready) ==
  IF call[c] = "spin" /\ ready
  THEN pc' = [pc EXCEPT ![c] = "start"] /\ UNCHANGED call
  ELSE Leave(c)

\* From the lock to the first return or to the blocking of cv_.wait_for.
Sleep(c, e) ==
  LET wake == clock + maxWait[c] IN
  /\ due[e] > clock
  /\ pc' = [pc EXCEPT ![c] = "asleep"]
  /\ next' = [next EXCEPT ![c] = due[e]]
  /\ deadline' = [deadline EXCEPT ![c] = IF wake < due[e] THEN wake ELSE due[e]]
  /\ UNCHANGED call

Check(c) ==
  /\ pc[c] = "check"
  /\ \/ /\ queue = {}
        /\ WaitReturns(c, FALSE)
        /\ UNCHANGED <<next, deadline>>
     \/ \E e \in Tops :
          \/ due[e] <= clock /\ WaitReturns(c, TRUE) /\ UNCHANGED <<next, deadline>>
          \/ Sleep(c, e)
  /\ UNCHANGED <<clock, queueVars, postVars, maxWait, notified, spinVars>>

\* The predicate of cv_.wait_for. (The top is earlier than a time, or due, when
\* some event in the queue is.)
NewTop(c) == queue = {} \/ \E e \in queue : due[e] < next[c]

UntimedWait(c) == FALSE                                        \* defect
TimedOut(c) == clock >= deadline[c]

\* The value wait_for_events returns after cv_.wait_for.
ReadyOnlyIfDue(c) == \E e \in queue : due[e] <= clock           \* defect
Ready(c) == queue # {} /\ (NewTop(c) \/ \E e \in queue : due[e] <= clock)

\* A wakeup that finds the predicate false before the deadline blocks again.
SleepOn(c) ==
  /\ pc[c] = "asleep"
  /\ c \in notified
  /\ ~NewTop(c) /\ ~TimedOut(c)
  /\ notified' = notified \ {c}
  /\ UNCHANGED <<clock, queueVars, postVars, maxWait, next, deadline, spinVars, pc, call>>

\* A wakeup (notified, timed out, or spurious) that ends cv_.wait_for.
Wake(c) ==
  /\ pc[c] = "asleep"
  /\ NewTop(c) \/ TimedOut(c)
  /\ notified' = notified \ {c}
  /\ WaitReturns(c, Ready(c))
  /\ UNCHANGED <<clock, queueVars, postVars, maxWait, next, deadline, spinVars>>

-----------------------------------------------------------------------------
(* spin_once(max_events) *)

Start(c) ==
  /\ pc[c] = "start"
  /\ now' = [now EXCEPT ![c] = clock]
  /\ pc' = [pc EXCEPT ![c] = "extract"]
  /\ UNCHANGED <<clock, queueVars, postVars, waitVars, left, running, call>>

RipeSoon(c, e) == due[e] <= now[c] + 1                         \* defect
Ripe(c, e) == due[e] <= now[c]

\* The critical section that pops one due event; its callback starts next,
\* with the mutex released.
Extract(c) ==
  /\ pc[c] = "extract" /\ left[c] # 0
  /\ \E e \in Tops :
       /\ Ripe(c, e)
       /\ queue' = Pop(e)
       /\ running' = [running EXCEPT ![c] = e]
  /\ pc' = [pc EXCEPT ![c] = "callback"]
  /\ UNCHANGED <<clock, due, fresh, rank, pushes, postVars, waitVars, now, left, call>>

\* spin_once returns; spin() waits again.
SpinOnceReturns(c) ==
  /\ pc[c] = "extract"
  /\ left[c] = 0 \/ ~\E e \in Tops : Ripe(c, e)
  /\ IF call[c] = "spin"
     THEN pc' = [pc EXCEPT ![c] = "check"] /\ UNCHANGED call
     ELSE Leave(c)
  /\ UNCHANGED <<clock, queueVars, postVars, waitVars, spinVars>>

CountAlways(n) == n - 1                                        \* defect
CountDown(n) == IF n > 0 THEN n - 1 ELSE n

CallbackReturns(c) ==
  /\ pc[c] = "callback"
  /\ Quiet(c)
  /\ running' = [running EXCEPT ![c] = NoEvent]
  /\ left' = [left EXCEPT ![c] = CountDown(@)]
  /\ pc' = [pc EXCEPT ![c] = "extract"]
  /\ UNCHANGED <<clock, queueVars, postVars, waitVars, now, call>>

\* Nothing catches the exception: it leaves spin_once() and spin().
CallbackThrows(c) ==
  /\ pc[c] = "callback"
  /\ Quiet(c)
  /\ running[c] \in Throwing
  /\ running' = [running EXCEPT ![c] = NoEvent]
  /\ Leave(c)
  /\ UNCHANGED <<clock, queueVars, postVars, waitVars, now, left>>

-----------------------------------------------------------------------------
Init ==
  /\ clock = 0
  /\ queue = {} /\ fresh = Events
  /\ due = [e \in Events |-> 0] /\ rank = [e \in Events |-> 0] /\ pushes = 0
  /\ posting = [t \in Threads |-> NoEvent] /\ notifying = {}
  /\ maxWait = [c \in Consumers |-> 0] /\ notified = {}
  /\ next = [c \in Consumers |-> 0] /\ deadline = [c \in Consumers |-> 0]
  /\ now = [c \in Consumers |-> 0] /\ left = [c \in Consumers |-> -1]
  /\ running = [c \in Consumers |-> NoEvent]
  /\ pc = [c \in Consumers |-> "idle"] /\ call = [c \in Consumers |-> "none"]

Tick == /\ clock < MaxTime
        /\ clock' = clock + 1
        /\ UNCHANGED <<queueVars, postVars, waitVars, spinVars, pc, call>>

Posting(t) == Push(t) \/ Notify(t)

Calling(c) == \/ \E w \in Waits : CallSpin(c, w) \/ CallWaitForEvents(c, w)
              \/ \E n \in Batches : CallSpinOnce(c, n)

\* The steps of a consumer inside the loop.
Looping(c) == \/ Check(c) \/ Wake(c)
              \/ Start(c) \/ Extract(c) \/ SpinOnceReturns(c)
              \/ CallbackReturns(c)

Next ==
  \/ Tick
  \/ \E t \in Threads : Posting(t) \/ \E e \in Events, d \in Delays : Stamp(t, e, d)
  \/ \E c \in Consumers : Calling(c) \/ Looping(c) \/ SleepOn(c) \/ CallbackThrows(c)

\* Time passes, a schedule() that began completes, and a consumer inside the
\* loop keeps running: a callback returns or throws, a wait_for that was notified
\* or whose time is up wakes. A spurious wakeup is possible and not promised.
AwakeLooping(c) == /\ pc[c] = "asleep" => c \in notified \/ TimedOut(c)
                   /\ Looping(c) \/ CallbackThrows(c)
Fairness == /\ WF_vars(Tick)
            /\ \A t \in Threads : WF_vars(Posting(t))
            /\ \A c \in Consumers : WF_vars(AwakeLooping(c))

\* The main loop of an application polls: it keeps calling spin_once().
Polling == \A c \in Consumers : SF_vars(\E n \in Batches : CallSpinOnce(c, n))

Spec == Init /\ [][Next]_vars
FairSpec == Spec /\ Fairness
PolledSpec == FairSpec /\ Polling

-----------------------------------------------------------------------------
(* Properties *)

TypeOK ==
  /\ clock \in Times
  /\ queue \subseteq Events /\ fresh \subseteq Events
  /\ due \in [Events -> Times]
  /\ posting \in [Threads -> Events \union {NoEvent}]
  /\ notifying \subseteq Threads
  /\ notified \subseteq Consumers
  /\ pc \in [Consumers -> {"idle", "check", "asleep", "start", "extract", "callback"}]
  /\ call \in [Consumers -> {"none", "spin", "spin_once", "wait_for_events"}]
  /\ maxWait \in [Consumers -> 0 .. DurationMax]
  /\ next \in [Consumers -> Times]
  /\ deadline \in [Consumers -> Times]
  /\ now \in [Consumers -> Times]
  /\ left \in [Consumers -> Nat \union {-1}]
  /\ running \in [Consumers -> Events \union {NoEvent}]
  /\ rank \in [Events -> Nat]
  /\ pushes \in Nat

\* An event is in one place at a time, whatever the threads do: not queued
\* while it runs, not run by two consumers, not pushed by two threads.
OneHolder ==
  /\ \A c \in Consumers : running[c] \notin queue
  /\ \A c, d \in Consumers :
       running[c] = running[d] /\ running[c] # NoEvent => c = d
  /\ \A t, u \in Threads :
       posting[t] = posting[u] /\ posting[t] # NoEvent => t = u

\* Two events that are in the queue together are started in the order of
\* their times: while e waits, no later event pushed after e has been popped,
\* though consumers pop concurrently and push order is not time order.
DueOrder ==
  \A e \in queue, f \in Events :
    rank[e] < rank[f] /\ due[e] < due[f] => f \in queue

\* Event loop as its callers see it: each callback at most once, none lost,
\* none before its time.
Status(e) == IF e \in fresh THEN "unscheduled"
             ELSE IF \E c \in Consumers : running[c] = e THEN "running"
             ELSE IF e \in queue \/ \E t \in Threads : posting[t] = e THEN "scheduled"
             ELSE "done"
Delivery == INSTANCE EventDelivery WITH status <- [e \in Events |-> Status(e)]
ImplementsDelivery == Delivery!Spec

Spinning == {c \in Consumers : call[c] = "spin"}

\* No lost wakeup: when every consumer in spin() sleeps, then one of them wakes
\* in time for the earliest event, by its own deadline or by a notify_one()
\* that is on its way (wait_for_events picks the deadline before it sleeps, and
\* schedule notifies a single thread, after it has released the mutex). This
\* is the waiting that event_loop.hpp:167 describes; it holds of one consumer,
\* not of two: a consumer whose wait is over can take the notify_one() that the
\* other one needed.
EarliestCovered ==
  queue # {} /\ Spinning # {} =>
    \/ notifying # {}
    \/ \E c \in Spinning :
         \/ pc[c] # "asleep"
         \/ c \in notified
         \/ \A e \in queue : deadline[c] <= due[e]

\* What event_loop.hpp:125 and :170 say of Duration::max(): it waits
\* indefinitely. A spin() without a time limit then ends only when the queue is
\* empty, or by the exception of a callback. It holds of one consumer, not of
\* two: the event whose time the wait is for may be popped by the other one.
SpinEndsDrained ==
  \A c \in Spinning \ Spinning' : pc[c] = "callback" \/ queue' = {}
SpinDrains == [][SpinEndsDrained]_vars

\* An event in the queue of a loop that somebody spins is run.
EventuallyRun ==
  \A e \in Events : (e \in queue /\ Spinning # {}) ~> e \notin queue

\* An application that keeps polling runs every event, also after a callback
\* has thrown through spin_once() and whatever max_events it gives.
EventuallyPolled == \A e \in Events : e \in queue ~> e \notin queue
=============================================================================
