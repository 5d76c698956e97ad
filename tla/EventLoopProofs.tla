--------------------------- MODULE EventLoopProofs ---------------------------
(***************************************************************************)
(* Proofs about EventLoop for any threads, events, delays and clock bound: *)
(* the type invariant; an event has one holder; due order; and that the    *)
(* loop implements EventDelivery. Then what spin() guarantees when one     *)
(* thread runs the loop: no wakeup is lost, and a spin() without a time    *)
(* limit ends only with an empty queue or by the exception of a callback.  *)
(* Both are false of two consumers.                                        *)
(***************************************************************************)
EXTENDS EventLoop, TLAPS

LEMMA TypeInit == Init => TypeOK
BY LoopAssumption DEF Init, TypeOK, Threads, Times, DurationMax

LEMMA StampType ==
  ASSUME TypeOK, NEW t \in Threads, NEW e \in Events, NEW d \in Delays, Stamp(t, e, d)
  PROVE  TypeOK'
<1>1. clock + d \in Times
  BY LoopAssumption DEF Stamp, TypeOK, Times
<1>2. QED
  BY <1>1 DEF Stamp, TypeOK, waitVars, spinVars

LEMMA PushType ==
  ASSUME TypeOK, NEW t \in Threads, Push(t)
  PROVE  TypeOK'
<1>1. posting[t] \in Events
  BY DEF Push, TypeOK
<1>2. QED
  BY <1>1 DEF Push, OweNotify, TypeOK, waitVars, spinVars

LEMMA NotifyType ==
  ASSUME TypeOK, NEW t \in Threads, Notify(t)
  PROVE  TypeOK'
<1>1. notified' \subseteq Consumers
  BY DEF Notify, Asleep, TypeOK
<1>2. notifying' \subseteq Threads
  BY DEF Notify, TypeOK
<1>3. QED
  BY <1>1, <1>2 DEF Notify, TypeOK, queueVars, spinVars

LEMMA CallingType ==
  ASSUME TypeOK, NEW c \in Consumers, Calling(c)
  PROVE  TypeOK'
<1>1. CASE \E w \in Waits : CallSpin(c, w)
  BY <1>1, LoopAssumption DEF CallSpin, Enter, TypeOK, queueVars, postVars, DurationMax
<1>2. CASE \E w \in Waits : CallWaitForEvents(c, w)
  BY <1>2, LoopAssumption DEF CallWaitForEvents, Enter, TypeOK, queueVars, postVars, DurationMax
<1>3. CASE \E n \in Batches : CallSpinOnce(c, n)
  <2>1. PICK n \in Batches : CallSpinOnce(c, n)
    BY <1>3
  <2>2. Limit(n) \in Nat \union {-1}
    BY LoopAssumption DEF Limit
  <2>3. QED
    BY <2>1, <2>2 DEF CallSpinOnce, Enter, TypeOK, queueVars, postVars
<1>4. QED
  BY <1>1, <1>2, <1>3 DEF Calling

LEMMA WaitReturnsType ==
  ASSUME TypeOK, NEW c \in Consumers, NEW ready, WaitReturns(c, ready)
  PROVE  /\ pc' \in [Consumers -> {"idle", "check", "asleep", "start", "extract", "callback"}]
         /\ call' \in [Consumers -> {"none", "spin", "spin_once", "wait_for_events"}]
BY DEF WaitReturns, Leave, TypeOK

LEMMA CheckType ==
  ASSUME TypeOK, NEW c \in Consumers, Check(c)
  PROVE  TypeOK'
<1>1. CASE UNCHANGED <<next, deadline>> /\ \E ready \in BOOLEAN : WaitReturns(c, ready)
  <2>1. PICK ready \in BOOLEAN : WaitReturns(c, ready)
    BY <1>1
  <2>2. QED
    BY <1>1, <2>1, WaitReturnsType DEF Check, TypeOK, queueVars, postVars, spinVars
<1>2. CASE \E e \in Tops : Sleep(c, e)
  <2>1. PICK e \in Tops : Sleep(c, e)
    BY <1>2
  <2>2. due[e] \in Times
    BY DEF Tops, TypeOK
  <2>3. clock + maxWait[c] < due[e] => clock + maxWait[c] \in Times
    BY <2>2, LoopAssumption DEF TypeOK, Times, DurationMax
  <2>4. QED
    BY <2>1, <2>2, <2>3 DEF Check, Sleep, TypeOK, queueVars, postVars, spinVars
<1>3. QED
  BY <1>1, <1>2 DEF Check

LEMMA WakeType ==
  ASSUME TypeOK, NEW c \in Consumers, Wake(c)
  PROVE  TypeOK'
<1>1. WaitReturns(c, Ready(c))
  BY DEF Wake
<1>2. QED
  BY <1>1, WaitReturnsType DEF Wake, TypeOK, queueVars, postVars, spinVars

LEMMA ExtractType ==
  ASSUME TypeOK, NEW c \in Consumers, Extract(c)
  PROVE  TypeOK'
<1>1. PICK e \in Tops : /\ queue' = Pop(e)
                        /\ running' = [running EXCEPT ![c] = e]
  BY DEF Extract
<1>2. e \in Events
  BY DEF Tops, TypeOK
<1>3. QED
  BY <1>1, <1>2 DEF Extract, Pop, TypeOK, postVars, waitVars

LEMMA CallbackReturnsType ==
  ASSUME TypeOK, NEW c \in Consumers, CallbackReturns(c)
  PROVE  TypeOK'
<1>1. CountDown(left[c]) \in Nat \union {-1}
  BY DEF CountDown, TypeOK
<1>2. QED
  BY <1>1 DEF CallbackReturns, TypeOK, queueVars, postVars, waitVars

\* Every variable keeps its type: queue and events, the clock within its
\* bound, the counters of spin_once and the steps of the consumers.
THEOREM TypeCorrect == Spec => []TypeOK
<1>1. Init => TypeOK
  BY TypeInit
<1>2. TypeOK /\ [Next]_vars => TypeOK'
  <2> SUFFICES ASSUME TypeOK, [Next]_vars
               PROVE  TypeOK'
    OBVIOUS
  <2>1. CASE Tick
    BY <2>1, LoopAssumption
       DEF Tick, TypeOK, Times, queueVars, postVars, waitVars, spinVars
  <2>2. ASSUME NEW t \in Threads, Posting(t)
        PROVE  TypeOK'
    BY <2>2, PushType, NotifyType DEF Posting
  <2>3. ASSUME NEW t \in Threads, NEW e \in Events, NEW d \in Delays, Stamp(t, e, d)
        PROVE  TypeOK'
    BY <2>3, StampType
  <2>4. ASSUME NEW c \in Consumers, Calling(c)
        PROVE  TypeOK'
    BY <2>4, CallingType
  <2>5. ASSUME NEW c \in Consumers, Looping(c)
        PROVE  TypeOK'
    <3>1. CASE Check(c)
      BY <3>1, CheckType
    <3>2. CASE Wake(c)
      BY <3>2, WakeType
    <3>3. CASE Start(c)
      BY <3>3 DEF Start, TypeOK, queueVars, postVars, waitVars
    <3>4. CASE Extract(c)
      BY <3>4, ExtractType
    <3>5. CASE SpinOnceReturns(c)
      BY <3>5 DEF SpinOnceReturns, Leave, TypeOK, queueVars, postVars, waitVars, spinVars
    <3>6. CASE CallbackReturns(c)
      BY <3>6, CallbackReturnsType
    <3>7. QED
      BY <2>5, <3>1, <3>2, <3>3, <3>4, <3>5, <3>6 DEF Looping
  <2>6. ASSUME NEW c \in Consumers, SleepOn(c)
        PROVE  TypeOK'
    BY <2>6 DEF SleepOn, TypeOK, queueVars, postVars, spinVars
  <2>7. ASSUME NEW c \in Consumers, CallbackThrows(c)
        PROVE  TypeOK'
    BY <2>7 DEF CallbackThrows, Leave, TypeOK, queueVars, postVars, waitVars
  <2>8. CASE UNCHANGED vars
    BY <2>8 DEF vars, TypeOK, queueVars, postVars, waitVars, spinVars
  <2>9. QED
    BY <2>1, <2>2, <2>3, <2>4, <2>5, <2>6, <2>7, <2>8 DEF Next
<1>3. QED
  BY <1>1, <1>2, PTL DEF Spec
-----------------------------------------------------------------------------
(* The steps of a consumer that move no event *)

LocalStep(c) == \/ Calling(c) \/ Check(c) \/ Wake(c) \/ SleepOn(c)
                \/ Start(c) \/ SpinOnceReturns(c)

\* Calls, waits and returns leave the queue and the callbacks alone, and
\* neither begin nor end one.
LEMMA LocalFrame ==
  ASSUME TypeOK, NEW c \in Consumers, LocalStep(c)
  PROVE  /\ UNCHANGED <<clock, queueVars, posting, notifying, running>>
         /\ \A d \in Consumers : pc'[d] = "callback" <=> pc[d] = "callback"
<1> USE DEF TypeOK, queueVars, postVars, spinVars
<1>1. CASE Calling(c)
  BY <1>1 DEF Calling, CallSpin, CallWaitForEvents, CallSpinOnce, Enter
<1>2. CASE Check(c)
  BY <1>2 DEF Check, WaitReturns, Leave, Sleep
<1>3. CASE Wake(c)
  BY <1>3 DEF Wake, WaitReturns, Leave
<1>4. CASE SleepOn(c)
  BY <1>4 DEF SleepOn
<1>5. CASE Start(c)
  BY <1>5 DEF Start
<1>6. CASE SpinOnceReturns(c)
  BY <1>6 DEF SpinOnceReturns, Leave
<1>7. QED
  BY <1>1, <1>2, <1>3, <1>4, <1>5, <1>6 DEF LocalStep

\* Next, with the steps that move no event put together.
LEMMA NextCases ==
  ASSUME [Next]_vars
  PROVE  \/ Tick
         \/ \E t \in Threads : Push(t) \/ Notify(t)
         \/ \E t \in Threads, e \in Events, d \in Delays : Stamp(t, e, d)
         \/ \E c \in Consumers : LocalStep(c)
         \/ \E c \in Consumers : Extract(c) \/ CallbackReturns(c) \/ CallbackThrows(c)
         \/ UNCHANGED vars
BY DEF Next, Posting, Looping, LocalStep

-----------------------------------------------------------------------------
(* An event has one holder *)

\* OneHolder alone is not inductive: it needs that a fresh event is nowhere
\* else, that the threads in schedule() hold events of their own, and that a
\* consumer holds an event exactly while it is in a callback.
HolderInv ==
  /\ OneHolder
  /\ \A c \in Consumers : running[c] # NoEvent <=> pc[c] = "callback"
  /\ \A c \in Consumers : running[c] \notin fresh
  /\ \A t \in Threads : posting[t] \notin fresh \union queue
  /\ \A t \in Threads, c \in Consumers :
       posting[t] # NoEvent => posting[t] # running[c]
  /\ queue \cap fresh = {}

LEMMA HolderInit == Init => HolderInv
BY LoopAssumption DEF Init, HolderInv, OneHolder, Threads

LEMMA StampHolder ==
  ASSUME TypeOK, HolderInv, NEW t \in Threads, NEW e \in Events, NEW d \in Delays,
         Stamp(t, e, d)
  PROVE  HolderInv'
<1>1. /\ e \in fresh /\ fresh' = fresh \ {e}
      /\ posting' = [posting EXCEPT ![t] = e]
      /\ UNCHANGED <<queue, running, pc>>
  BY DEF Stamp, spinVars
<1>2. e # NoEvent
  BY LoopAssumption
<1>3. QED
  BY <1>1, <1>2 DEF HolderInv, OneHolder, TypeOK

LEMMA PushHolder ==
  ASSUME TypeOK, HolderInv, NEW t \in Threads, Push(t)
  PROVE  HolderInv'
<1>1. /\ posting[t] # NoEvent
      /\ queue' = queue \union {posting[t]}
      /\ posting' = [posting EXCEPT ![t] = NoEvent]
      /\ UNCHANGED <<fresh, running, pc>>
  BY DEF Push, spinVars
<1>2. NoEvent \notin queue' /\ NoEvent \notin fresh
  BY <1>1, LoopAssumption DEF TypeOK
<1>3. QED
  BY <1>1, <1>2 DEF HolderInv, OneHolder, TypeOK

LEMMA ExtractHolder ==
  ASSUME TypeOK, HolderInv, NEW c \in Consumers, Extract(c)
  PROVE  HolderInv'
<1>1. PICK e \in queue : /\ queue' = queue \ {e}
                         /\ running' = [running EXCEPT ![c] = e]
                         /\ pc' = [pc EXCEPT ![c] = "callback"]
                         /\ UNCHANGED <<fresh, posting>>
  BY DEF Extract, Tops, Pop, postVars
<1>2. e # NoEvent /\ e \in Events
  BY LoopAssumption DEF TypeOK
<1>3. QED
  BY <1>1, <1>2 DEF HolderInv, OneHolder, TypeOK

LEMMA CallbackHolder ==
  ASSUME TypeOK, HolderInv, NEW c \in Consumers,
         CallbackReturns(c) \/ CallbackThrows(c)
  PROVE  HolderInv'
<1>1. /\ running' = [running EXCEPT ![c] = NoEvent]
      /\ \E step \in {"extract", "idle"} : pc' = [pc EXCEPT ![c] = step]
      /\ UNCHANGED <<queue, fresh, posting>>
  BY DEF CallbackReturns, CallbackThrows, Leave, queueVars, postVars
<1>2. NoEvent \notin queue /\ NoEvent \notin fresh
  BY LoopAssumption DEF TypeOK
<1>3. QED
  BY <1>1, <1>2 DEF HolderInv, OneHolder, TypeOK

LEMMA HolderStep ==
  ASSUME TypeOK, HolderInv, [Next]_vars
  PROVE  HolderInv'
<1>1. CASE Tick
  BY <1>1 DEF Tick, HolderInv, OneHolder, queueVars, postVars, spinVars
<1>2. ASSUME NEW t \in Threads, Push(t) \/ Notify(t)
      PROVE  HolderInv'
  <2>1. CASE Push(t)
    BY <2>1, PushHolder
  <2>2. CASE Notify(t)
    BY <2>2 DEF Notify, HolderInv, OneHolder, queueVars, spinVars
  <2>3. QED
    BY <1>2, <2>1, <2>2
<1>3. ASSUME NEW c \in Consumers, LocalStep(c)
      PROVE  HolderInv'
  BY <1>3, LocalFrame DEF HolderInv, OneHolder, queueVars
<1>4. CASE UNCHANGED vars
  BY <1>4 DEF vars, HolderInv, OneHolder, queueVars, postVars, spinVars
<1>5. QED
  BY <1>1, <1>2, <1>3, <1>4, StampHolder, ExtractHolder, CallbackHolder, NextCases

\* No event is queued while it runs, run by two consumers or pushed by two
\* threads, for any number of producers and consumers of the loop.
THEOREM HolderCorrect == Spec => []OneHolder
<1>1. Init => HolderInv
  BY HolderInit
<1>2. TypeOK /\ HolderInv /\ [Next]_vars => HolderInv'
  BY HolderStep
<1>3. HolderInv => OneHolder
  BY DEF HolderInv
<1>4. QED
  BY <1>1, <1>2, <1>3, TypeCorrect, PTL DEF Spec

-----------------------------------------------------------------------------
(* Due order *)

\* The push order numbers the pushed events; an unpushed one has no number.
RankInv ==
  /\ \A e \in Events : rank[e] <= pushes
  /\ \A e \in fresh : rank[e] = 0
OrderInv == RankInv /\ DueOrder

LEMMA OrderInit == Init => OrderInv
BY DEF Init, OrderInv, RankInv, DueOrder

LEMMA StampOrder ==
  ASSUME TypeOK, HolderInv, OrderInv, NEW t \in Threads, NEW x \in Events,
         NEW d \in Delays, Stamp(t, x, d)
  PROVE  OrderInv'
<1>1. /\ x \in fresh /\ fresh' = fresh \ {x}
      /\ \A e \in Events : e # x => due'[e] = due[e]
      /\ UNCHANGED <<queue, rank, pushes>>
  BY DEF Stamp, TypeOK
<1>2. RankInv'
  BY <1>1 DEF OrderInv, RankInv
<1>3. ASSUME NEW e \in queue, NEW f \in Events, rank[e] < rank[f], due'[e] < due'[f]
      PROVE  f \in queue
  <2>1. e # x
    BY <1>1 DEF HolderInv
  <2>2. f # x
    BY <1>1, <1>3 DEF OrderInv, RankInv, TypeOK
  <2>3. QED
    BY <1>1, <1>3, <2>1, <2>2 DEF OrderInv, DueOrder, TypeOK
<1>4. QED
  BY <1>1, <1>2, <1>3 DEF OrderInv, DueOrder

LEMMA PushOrder ==
  ASSUME TypeOK, HolderInv, OrderInv, NEW t \in Threads, Push(t)
  PROVE  OrderInv'
<1> DEFINE x == posting[t]
<1>1. /\ x \in Events /\ x \notin fresh
      /\ queue' = queue \union {x}
      /\ rank' = [rank EXCEPT ![x] = pushes + 1] /\ pushes' = pushes + 1
      /\ UNCHANGED <<due, fresh>>
  BY DEF Push, TypeOK, HolderInv
<1>2. RankInv'
  BY <1>1 DEF OrderInv, RankInv, TypeOK
<1>3. ASSUME NEW e \in queue', NEW f \in Events, rank'[e] < rank'[f], due[e] < due[f]
      PROVE  f \in queue'
  <2>1. CASE f = x
    BY <1>1, <2>1
  <2>2. CASE f # x
    <3>1. rank'[f] = rank[f] /\ rank[f] <= pushes /\ rank[f] \in Nat /\ pushes \in Nat
      BY <1>1, <2>2 DEF OrderInv, RankInv, TypeOK
    <3>2. e # x
      BY <1>1, <1>3, <3>1 DEF TypeOK
    <3>3. QED
      BY <1>1, <1>3, <3>1, <3>2 DEF OrderInv, DueOrder, TypeOK
  <2>3. QED
    BY <2>1, <2>2
<1>4. QED
  BY <1>1, <1>2, <1>3 DEF OrderInv, DueOrder

LEMMA ExtractOrder ==
  ASSUME TypeOK, OrderInv, NEW c \in Consumers, Extract(c)
  PROVE  OrderInv'
<1>1. PICK x \in Tops : queue' = queue \ {x} /\ UNCHANGED <<due, fresh, rank, pushes>>
  BY DEF Extract, Pop
<1>2. ASSUME NEW e \in queue', NEW f \in Events, rank[e] < rank[f], due[e] < due[f]
      PROVE  f \in queue'
  <2>1. f \in queue
    BY <1>1, <1>2 DEF OrderInv, DueOrder
  <2>2. due[x] <= due[e]
    BY <1>1 DEF Tops
  <2>3. f # x
    BY <1>1, <1>2, <2>2 DEF Tops, TypeOK, Times
  <2>4. QED
    BY <1>1, <2>1, <2>3
<1>3. QED
  BY <1>1, <1>2 DEF OrderInv, RankInv, DueOrder

LEMMA OrderStep ==
  ASSUME TypeOK, HolderInv, OrderInv, [Next]_vars
  PROVE  OrderInv'
<1> DEFINE Frame == UNCHANGED queueVars
<1>1. Frame => OrderInv'
  BY DEF OrderInv, RankInv, DueOrder, queueVars
<1>2. CASE Tick
  BY <1>1, <1>2 DEF Tick
<1>3. ASSUME NEW t \in Threads, Push(t) \/ Notify(t)
      PROVE  OrderInv'
  BY <1>1, <1>3, PushOrder DEF Notify
<1>4. ASSUME NEW c \in Consumers, LocalStep(c)
      PROVE  OrderInv'
  BY <1>1, <1>4, LocalFrame
<1>5. ASSUME NEW c \in Consumers, CallbackReturns(c) \/ CallbackThrows(c)
      PROVE  OrderInv'
  BY <1>1, <1>5 DEF CallbackReturns, CallbackThrows
<1>6. CASE UNCHANGED vars
  BY <1>1, <1>6 DEF vars
<1>7. QED
  BY <1>2, <1>3, <1>4, <1>5, <1>6, StampOrder, ExtractOrder, NextCases

\* An event that waits is never overtaken by a later one pushed after it,
\* though producers push out of time order and consumers pop concurrently.
THEOREM DueOrderCorrect == Spec => []DueOrder
<1>1. Init => HolderInv /\ OrderInv
  BY HolderInit, OrderInit
<1>2. TypeOK /\ HolderInv /\ OrderInv /\ [Next]_vars => HolderInv' /\ OrderInv'
  BY HolderStep, OrderStep
<1>3. OrderInv => DueOrder
  BY DEF OrderInv
<1>4. QED
  BY <1>1, <1>2, <1>3, TypeCorrect, PTL DEF Spec
-----------------------------------------------------------------------------
(* The loop implements EventDelivery *)

\* spin_once works with a reading of the clock that is not ahead of it.
NowInv == \A c \in Consumers : now[c] <= clock

LEMMA NowInit == Init => NowInv
BY DEF Init, NowInv

LEMMA NowStep ==
  ASSUME TypeOK, NowInv, [Next]_vars
  PROVE  NowInv'
<1> USE DEF NowInv, queueVars, postVars, waitVars, spinVars
<1>1. CASE Tick
  BY <1>1 DEF Tick, TypeOK, Times
<1>2. ASSUME NEW t \in Threads, Push(t) \/ Notify(t)
      PROVE  NowInv'
  BY <1>2 DEF Push, Notify
<1>3. ASSUME NEW t \in Threads, NEW e \in Events, NEW d \in Delays, Stamp(t, e, d)
      PROVE  NowInv'
  BY <1>3 DEF Stamp
<1>4. ASSUME NEW c \in Consumers, LocalStep(c)
      PROVE  NowInv'
  <2>1. CASE Start(c)
    BY <2>1 DEF Start, TypeOK, Times
  <2>2. CASE Calling(c)
    BY <2>2 DEF Calling, CallSpin, CallWaitForEvents, CallSpinOnce, Enter
  <2>3. CASE Check(c) \/ Wake(c) \/ SleepOn(c) \/ SpinOnceReturns(c)
    BY <2>3 DEF Check, Wake, SleepOn, SpinOnceReturns
  <2>4. QED
    BY <1>4, <2>1, <2>2, <2>3 DEF LocalStep
<1>5. ASSUME NEW c \in Consumers,
             Extract(c) \/ CallbackReturns(c) \/ CallbackThrows(c)
      PROVE  NowInv'
  BY <1>5 DEF Extract, CallbackReturns, CallbackThrows
<1>6. CASE UNCHANGED vars
  BY <1>6 DEF vars
<1>7. QED
  BY <1>1, <1>2, <1>3, <1>4, <1>5, <1>6, NextCases

LoopInv == TypeOK /\ HolderInv /\ NowInv

\* A step that leaves the places of all events as they are is a stutter.
LEMMA SamePlaces ==
  ASSUME UNCHANGED <<clock, queue, fresh, due, posting, running>>
  PROVE  UNCHANGED Delivery!vars
<1>1. \A e \in Events : Status(e)' = Status(e)
  BY DEF Status
<1>2. QED
  BY <1>1 DEF Delivery!vars

LEMMA InitDelivery == Init => Delivery!Init
<1> SUFFICES ASSUME Init
             PROVE  Delivery!Init
  OBVIOUS
<1>1. \A e \in Events : Status(e) = "unscheduled"
  BY DEF Init, Status
<1>2. QED
  BY <1>1 DEF Init, Delivery!Init

LEMMA StampDelivers ==
  ASSUME LoopInv, NEW t \in Threads, NEW x \in Events, NEW d \in Delays, Stamp(t, x, d)
  PROVE  Delivery!Schedule(x)
<1> USE DEF LoopInv, TypeOK
<1>1. /\ x \in fresh /\ fresh' = fresh \ {x}
      /\ posting' = [posting EXCEPT ![t] = x] /\ posting[t] = NoEvent
      /\ due' = [due EXCEPT ![x] = clock + d]
      /\ UNCHANGED <<clock, queue, running>>
  BY DEF Stamp, MaySchedule, Quiet, spinVars
<1>2. clock + d \in clock .. MaxTime
  BY LoopAssumption DEF Stamp, Times
<1>3. Status(x) = "unscheduled" /\ Status(x)' = "scheduled"
  BY <1>1 DEF Status, HolderInv
<1>4. \A e \in Events \ {x} : Status(e)' = Status(e)
  <2>1. ASSUME NEW e \in Events \ {x}
        PROVE  (\E u \in Threads : posting'[u] = e) <=> (\E u \in Threads : posting[u] = e)
    BY <1>1, LoopAssumption
  <2>2. QED
    BY <1>1, <2>1 DEF Status
<1>5. QED
  BY <1>1, <1>2, <1>3, <1>4 DEF Delivery!Schedule

LEMMA PushDelivers ==
  ASSUME LoopInv, NEW t \in Threads, Push(t)
  PROVE  UNCHANGED Delivery!vars
<1> DEFINE x == posting[t]
<1> USE DEF LoopInv, TypeOK
<1>1. /\ x # NoEvent /\ queue' = queue \union {x}
      /\ posting' = [posting EXCEPT ![t] = NoEvent]
      /\ UNCHANGED <<clock, due, fresh, running>>
  BY DEF Push, spinVars
<1>2. ASSUME NEW e \in Events
      PROVE  (e \in queue' \/ \E u \in Threads : posting'[u] = e)
             <=> (e \in queue \/ \E u \in Threads : posting[u] = e)
  BY <1>1, LoopAssumption
<1>3. \A e \in Events : Status(e)' = Status(e)
  BY <1>1, <1>2 DEF Status
<1>4. QED
  BY <1>1, <1>3 DEF Delivery!vars

LEMMA ExtractDelivers ==
  ASSUME LoopInv, NEW c \in Consumers, Extract(c)
  PROVE  \E x \in Events : Delivery!Run(x)
<1> USE DEF LoopInv, TypeOK
<1>1. PICK x \in Tops :
        /\ Ripe(c, x) /\ queue' = queue \ {x}
        /\ running' = [running EXCEPT ![c] = x]
        /\ UNCHANGED <<clock, due, fresh, posting>>
  BY DEF Extract, Pop, postVars
<1>2. x \in queue /\ x \in Events /\ x # NoEvent
  BY LoopAssumption DEF Tops
<1>3. due[x] <= clock
  BY <1>1, <1>2 DEF Ripe, NowInv, Times
<1>4. running[c] = NoEvent
  BY DEF Extract, HolderInv
<1>5. Status(x) = "scheduled" /\ Status(x)' = "running"
  BY <1>1, <1>2 DEF Status, HolderInv, OneHolder
<1>6. \A e \in Events \ {x} : Status(e)' = Status(e)
  <2>1. ASSUME NEW e \in Events \ {x}
        PROVE  (\E d \in Consumers : running'[d] = e) <=> (\E d \in Consumers : running[d] = e)
    BY <1>1, <1>4, LoopAssumption
  <2>2. QED
    BY <1>1, <2>1 DEF Status
<1>7. QED
  BY <1>1, <1>2, <1>3, <1>5, <1>6 DEF Delivery!Run

LEMMA CallbackDelivers ==
  ASSUME LoopInv, NEW c \in Consumers, CallbackReturns(c) \/ CallbackThrows(c)
  PROVE  \E x \in Events : Delivery!Finish(x)
<1> USE DEF LoopInv, TypeOK
<1>1. /\ pc[c] = "callback"
      /\ running' = [running EXCEPT ![c] = NoEvent]
      /\ UNCHANGED <<clock, queue, due, fresh, posting>>
  BY DEF CallbackReturns, CallbackThrows, queueVars, postVars
<1>2. PICK x \in Events : x = running[c] /\ x # NoEvent
  BY <1>1 DEF HolderInv
<1>3. Status(x) = "running" /\ Status(x)' = "done"
  <2>1. x \notin fresh /\ x \notin queue /\ \A t \in Threads : posting[t] # x
    BY <1>2 DEF HolderInv, OneHolder
  <2>2. \A d \in Consumers : running'[d] # x
    BY <1>1, <1>2 DEF HolderInv, OneHolder
  <2>3. QED
    BY <1>1, <1>2, <2>1, <2>2 DEF Status
<1>4. \A e \in Events \ {x} : Status(e)' = Status(e)
  <2>1. ASSUME NEW e \in Events \ {x}
        PROVE  (\E d \in Consumers : running'[d] = e) <=> (\E d \in Consumers : running[d] = e)
    BY <1>1, <1>2, LoopAssumption
  <2>2. QED
    BY <1>1, <2>1 DEF Status
<1>5. QED
  BY <1>1, <1>2, <1>3, <1>4 DEF Delivery!Finish

LEMMA StepDelivers ==
  ASSUME LoopInv, [Next]_vars
  PROVE  [Delivery!Next]_(Delivery!vars)
<1>1. CASE Tick
  <2>1. \A e \in Events : Status(e)' = Status(e)
    BY <1>1 DEF Tick, Status, queueVars, postVars, spinVars
  <2>2. Delivery!Tick
    BY <1>1, <2>1 DEF Tick, Delivery!Tick, queueVars
  <2>3. QED
    BY <2>2 DEF Delivery!Next
<1>2. ASSUME NEW t \in Threads, Push(t) \/ Notify(t)
      PROVE  UNCHANGED Delivery!vars
  <2>1. CASE Push(t)
    BY <2>1, PushDelivers
  <2>2. CASE Notify(t)
    BY <2>2, SamePlaces DEF Notify, queueVars, spinVars
  <2>3. QED
    BY <1>2, <2>1, <2>2
<1>3. ASSUME NEW t \in Threads, NEW e \in Events, NEW d \in Delays, Stamp(t, e, d)
      PROVE  Delivery!Next
  BY <1>3, StampDelivers DEF Delivery!Next
<1>4. ASSUME NEW c \in Consumers, LocalStep(c)
      PROVE  UNCHANGED Delivery!vars
  BY <1>4, LocalFrame, SamePlaces DEF LoopInv, queueVars
<1>5. ASSUME NEW c \in Consumers,
             Extract(c) \/ CallbackReturns(c) \/ CallbackThrows(c)
      PROVE  Delivery!Next
  BY <1>5, ExtractDelivers, CallbackDelivers DEF Delivery!Next
<1>6. CASE UNCHANGED vars
  BY <1>6, SamePlaces DEF vars, queueVars, postVars, spinVars
<1>7. QED
  BY <1>1, <1>2, <1>3, <1>4, <1>5, <1>6, NextCases

\* The loop runs each callback at most once, loses none and runs none before
\* its time: every step is a step of EventDelivery or leaves it unchanged.
THEOREM DeliveryCorrect == Spec => ImplementsDelivery
<1>1. Init => HolderInv /\ NowInv /\ Delivery!Init
  BY HolderInit, NowInit, InitDelivery
<1>2. TypeOK /\ HolderInv /\ NowInv /\ [Next]_vars => HolderInv' /\ NowInv'
  BY HolderStep, NowStep
<1>3. TypeOK /\ HolderInv /\ NowInv /\ [Next]_vars => [Delivery!Next]_(Delivery!vars)
  BY StepDelivers DEF LoopInv
<1>4. QED
  BY <1>1, <1>2, <1>3, TypeCorrect, PTL DEF Spec, ImplementsDelivery, Delivery!Spec

-----------------------------------------------------------------------------
(* No lost wakeup: one thread runs the loop *)

\* While the consumer sleeps, the queue holds nothing earlier than the event
\* it waits for, unless it is about to be told.
Told(c) == c \in notified \/ notifying # {}
WaitInv(c) ==
  pc[c] = "asleep" =>
    /\ deadline[c] <= next[c]
    /\ Told(c) \/ \A e \in queue : next[c] <= due[e]

\* A step that leaves alone all that WaitInv speaks of.
LEMMA WaitFrame ==
  ASSUME NEW c \in Consumers, WaitInv(c),
         UNCHANGED <<queue, next, deadline>>,
         \A e \in queue : due'[e] = due[e],
         pc'[c] = "asleep" => pc[c] = "asleep",
         pc'[c] = "asleep" /\ Told(c) => Told(c)'
  PROVE  WaitInv(c)'
BY DEF WaitInv

LEMMA WaitPush ==
  ASSUME TypeOK, NEW c \in Consumers, WaitInv(c), NEW t \in Threads, Push(t)
  PROVE  WaitInv(c)'
<1>1. notifying' # {}
  BY DEF Push, OweNotify
<1>2. UNCHANGED <<pc, next, deadline>>
  BY DEF Push, waitVars
<1>3. QED
  BY <1>1, <1>2 DEF WaitInv, Told

\* The one thread that notify_one() can pick is c.
LEMMA WaitNotify ==
  ASSUME TypeOK, NEW c \in Consumers, Consumers = {c}, WaitInv(c),
         NEW t \in Threads, Notify(t)
  PROVE  WaitInv(c)'
<1>1. UNCHANGED <<queue, due, pc, next, deadline>>
  BY DEF Notify, queueVars
<1>2. pc[c] = "asleep" => c \in notified'
  BY DEF Notify, Asleep
<1>3. QED
  BY <1>1, <1>2 DEF WaitInv, Told

LEMMA WaitCheck ==
  ASSUME TypeOK, NEW c \in Consumers, WaitInv(c), Check(c)
  PROVE  WaitInv(c)'
<1>1. UNCHANGED <<queue, due>>
  BY DEF Check, queueVars
<1>2. CASE \E ready \in BOOLEAN : WaitReturns(c, ready)
  BY <1>2 DEF WaitReturns, Leave, WaitInv, TypeOK
<1>3. CASE \E e \in Tops : Sleep(c, e)
  <2>1. PICK e \in Tops : Sleep(c, e)
    BY <1>3
  <2>2. next'[c] = due[e] /\ \A f \in queue : due[e] <= due[f]
    BY <2>1 DEF Sleep, Tops, TypeOK
  <2>3. deadline'[c] <= due[e]
    BY <2>1, LoopAssumption DEF Sleep, Tops, TypeOK, Times, DurationMax
  <2>4. QED
    BY <1>1, <2>2, <2>3 DEF WaitInv
<1>4. QED
  BY <1>2, <1>3 DEF Check

LEMMA WaitSleepOn ==
  ASSUME TypeOK, NEW c \in Consumers, WaitInv(c), SleepOn(c)
  PROVE  WaitInv(c)'
<1>1. UNCHANGED <<queue, due, pc, next, deadline>>
  BY DEF SleepOn, queueVars
<1>2. \A e \in queue : next[c] <= due[e]
  BY DEF SleepOn, NewTop, TypeOK, Times
<1>3. QED
  BY <1>1, <1>2 DEF WaitInv, SleepOn

LEMMA WaitStep ==
  ASSUME TypeOK, HolderInv, NEW c \in Consumers, Consumers = {c}, WaitInv(c),
         [Next]_vars
  PROVE  WaitInv(c)'
<1> USE DEF Told, TypeOK, queueVars, postVars, waitVars, spinVars
<1>1. CASE Tick
  BY <1>1, WaitFrame DEF Tick
<1>2. ASSUME NEW t \in Threads, Push(t) \/ Notify(t)
      PROVE  WaitInv(c)'
  BY <1>2, WaitPush, WaitNotify
<1>3. ASSUME NEW t \in Threads, NEW x \in Events, NEW d \in Delays, Stamp(t, x, d)
      PROVE  WaitInv(c)'
  <2>1. \A e \in queue : due'[e] = due[e]
    BY <1>3 DEF Stamp, HolderInv
  <2>2. QED
    BY <1>3, <2>1, WaitFrame DEF Stamp
<1>4. ASSUME LocalStep(c)
      PROVE  WaitInv(c)'
  <2>1. CASE Check(c)
    BY <2>1, WaitCheck
  <2>2. CASE SleepOn(c)
    BY <2>2, WaitSleepOn
  <2>3. CASE Calling(c)
    BY <2>3 DEF Calling, CallSpin, CallWaitForEvents, CallSpinOnce, Enter, WaitInv
  <2>4. CASE Wake(c) \/ Start(c) \/ SpinOnceReturns(c)
    BY <2>4 DEF Wake, WaitReturns, Leave, Start, SpinOnceReturns, WaitInv
  <2>5. QED
    BY <1>4, <2>1, <2>2, <2>3, <2>4 DEF LocalStep
<1>5. ASSUME Extract(c) \/ CallbackReturns(c) \/ CallbackThrows(c)
      PROVE  WaitInv(c)'
  BY <1>5 DEF Extract, CallbackReturns, CallbackThrows, Leave, WaitInv
<1>6. CASE UNCHANGED vars
  BY <1>6, WaitFrame DEF vars
<1>7. QED
  BY <1>1, <1>2, <1>3, <1>4, <1>5, <1>6, NextCases

\* No wakeup is lost to a single consumer: when spin() sleeps and the queue
\* holds an event, it wakes by the time of the earliest one or is being told.
THEOREM NoLostWakeup ==
  ASSUME NEW c \in Consumers, Consumers = {c}
  PROVE  Spec => []EarliestCovered
<1>1. Init => HolderInv /\ WaitInv(c)
  BY HolderInit DEF Init, WaitInv
<1>2. TypeOK /\ HolderInv /\ WaitInv(c) /\ [Next]_vars => HolderInv' /\ WaitInv(c)'
  BY HolderStep, WaitStep
<1>3. TypeOK /\ WaitInv(c) => EarliestCovered
  BY DEF WaitInv, Told, EarliestCovered, Spinning, TypeOK, Times
<1>4. QED
  BY <1>1, <1>2, <1>3, TypeCorrect, PTL DEF Spec

-----------------------------------------------------------------------------
(* spin() without a time limit *)

\* The event whose time spin() sleeps to is still in the queue, and nothing
\* shortens the sleep.
SleepInv(c) ==
  call[c] = "spin" =>
    /\ pc[c] # "idle" /\ maxWait[c] = DurationMax
    /\ pc[c] = "asleep" =>
         deadline[c] = next[c] /\ \E e \in queue : due[e] = next[c]

LEMMA SleepCheck ==
  ASSUME TypeOK, NEW c \in Consumers, SleepInv(c), Check(c)
  PROVE  SleepInv(c)'
<1>1. UNCHANGED <<queue, due, maxWait>>
  BY DEF Check, queueVars
<1>2. CASE \E ready \in BOOLEAN : WaitReturns(c, ready)
  BY <1>1, <1>2 DEF WaitReturns, Leave, SleepInv, TypeOK
<1>3. CASE \E e \in Tops : Sleep(c, e)
  <2>1. PICK e \in Tops : Sleep(c, e)
    BY <1>3
  <2>2. e \in queue /\ next'[c] = due[e] /\ call' = call
    BY <2>1 DEF Sleep, Tops, TypeOK
  <2>3. maxWait[c] = DurationMax => deadline'[c] = due[e]
    BY <2>1, <2>2, LoopAssumption DEF Sleep, TypeOK, Times, DurationMax
  <2>4. pc'[c] = "asleep"
    BY <2>1 DEF Sleep, TypeOK
  <2>5. QED
    BY <1>1, <2>2, <2>3, <2>4 DEF SleepInv
<1>4. QED
  BY <1>2, <1>3 DEF Check

LEMMA SleepStep ==
  ASSUME TypeOK, HolderInv, NEW c \in Consumers, Consumers = {c},
         Waits = {DurationMax}, SleepInv(c), [Next]_vars
  PROVE  SleepInv(c)'
<1> USE DEF SleepInv, TypeOK, queueVars, postVars, waitVars, spinVars
<1>1. CASE Tick
  BY <1>1 DEF Tick
<1>2. ASSUME NEW t \in Threads, Push(t) \/ Notify(t)
      PROVE  SleepInv(c)'
  BY <1>2 DEF Push, Notify
<1>3. ASSUME NEW t \in Threads, NEW x \in Events, NEW d \in Delays, Stamp(t, x, d)
      PROVE  SleepInv(c)'
  <2>1. \A e \in queue : due'[e] = due[e]
    BY <1>3 DEF Stamp, HolderInv
  <2>2. QED
    BY <1>3, <2>1 DEF Stamp
<1>4. ASSUME LocalStep(c)
      PROVE  SleepInv(c)'
  <2>1. CASE Check(c)
    BY <2>1, SleepCheck
  <2>2. CASE Calling(c)
    BY <2>2 DEF Calling, CallSpin, CallWaitForEvents, CallSpinOnce, Enter
  <2>3. CASE Wake(c) \/ SleepOn(c)
    BY <2>3 DEF Wake, SleepOn, WaitReturns, Leave
  <2>4. CASE Start(c) \/ SpinOnceReturns(c)
    BY <2>4 DEF Start, SpinOnceReturns, Leave
  <2>5. QED
    BY <1>4, <2>1, <2>2, <2>3, <2>4 DEF LocalStep
<1>5. ASSUME Extract(c) \/ CallbackReturns(c) \/ CallbackThrows(c)
      PROVE  SleepInv(c)'
  BY <1>5 DEF Extract, CallbackReturns, CallbackThrows, Leave
<1>6. CASE UNCHANGED vars
  BY <1>6 DEF vars
<1>7. QED
  BY <1>1, <1>2, <1>3, <1>4, <1>5, <1>6, NextCases

\* Besides an exception, only a wait_for_events that finds the queue empty ends
\* spin().
LEMMA SpinEnds ==
  ASSUME TypeOK, NEW c \in Consumers, Consumers = {c}, SleepInv(c),
         [Next]_vars, c \in Spinning, c \notin Spinning'
  PROVE  pc[c] = "callback" \/ queue' = {}
<1> USE DEF TypeOK, queueVars, postVars, waitVars, spinVars
<1>1. call[c] = "spin" /\ call'[c] # "spin"
  BY DEF Spinning
<1>2. CASE Check(c)
  BY <1>1, <1>2 DEF Check, WaitReturns, Sleep
<1>3. CASE Wake(c)
  <2>1. ~Ready(c) /\ queue' = queue
    BY <1>1, <1>3 DEF Wake, WaitReturns
  <2>2. ~NewTop(c) => \E e \in queue : due[e] <= clock
    BY <1>1, <1>3 DEF Wake, TimedOut, SleepInv, Times
  <2>3. QED
    BY <2>1, <2>2 DEF Ready
<1>4. ~Calling(c)
  BY <1>1 DEF Calling, CallSpin, CallWaitForEvents, CallSpinOnce, Enter, SleepInv
<1>5. CASE SleepOn(c) \/ Start(c) \/ SpinOnceReturns(c)
  BY <1>1, <1>5 DEF SleepOn, Start, SpinOnceReturns
<1>6. CASE Extract(c) \/ CallbackReturns(c) \/ CallbackThrows(c)
  BY <1>1, <1>6 DEF Extract, CallbackReturns, CallbackThrows
<1>7. ~Tick /\ (\A t \in Threads : ~Push(t) /\ ~Notify(t)) /\ call' # call
  BY <1>1 DEF Tick, Push, Notify
<1>8. \A t \in Threads, e \in Events, d \in Delays : ~Stamp(t, e, d)
  BY <1>1 DEF Stamp
<1>9. QED
  BY <1>2, <1>3, <1>4, <1>5, <1>6, <1>7, <1>8, NextCases DEF LocalStep, vars

\* Without a time limit the spin() of a single consumer ends only when the queue
\* is empty, unless a callback throws through it.
THEOREM SpinDrainsAlone ==
  ASSUME NEW one \in Consumers, Consumers = {one}, Waits = {DurationMax}
  PROVE  Spec => SpinDrains
<1>1. Init => HolderInv /\ SleepInv(one)
  BY HolderInit DEF Init, SleepInv
<1>2. TypeOK /\ HolderInv /\ SleepInv(one) /\ [Next]_vars => HolderInv' /\ SleepInv(one)'
  BY HolderStep, SleepStep
<1>3. TypeOK /\ SleepInv(one) /\ [Next]_vars
      => [SpinEndsDrained]_vars
  BY SpinEnds DEF SpinEndsDrained, Spinning
<1>4. QED
  BY <1>1, <1>2, <1>3, TypeCorrect, PTL DEF Spec, SpinDrains
=============================================================================
