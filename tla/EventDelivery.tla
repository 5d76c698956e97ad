---------------------------- MODULE EventDelivery ----------------------------
(***************************************************************************)
(* What nodec::asyncio::EventLoop promises about one scheduled callback,    *)
(* without its queue, its mutex, its condition variable or its threads:    *)
(* the callback is run at most once, and never before the delay given to   *)
(* schedule() has elapsed on the steady clock.                             *)
(***************************************************************************)
EXTENDS Integers

CONSTANTS Events,    \* the callbacks handed to schedule()
          MaxTime    \* the last reading of the clock (bound)

VARIABLES status,    \* where each callback is in its life
          due,       \* the earliest time each callback may run
          clock      \* Clock::now()

vars == <<status, due, clock>>

Status == {"unscheduled", "scheduled", "running", "done"}

Init == /\ status = [e \in Events |-> "unscheduled"]
        /\ due = [e \in Events |-> 0]
        /\ clock = 0

Tick == /\ clock < MaxTime
        /\ clock' = clock + 1
        /\ UNCHANGED <<status, due>>

Schedule(e) == /\ status[e] = "unscheduled"
               /\ status' = [status EXCEPT ![e] = "scheduled"]
               /\ \E t \in clock .. MaxTime : due' = [due EXCEPT ![e] = t]
               /\ UNCHANGED clock

Run(e) == /\ status[e] = "scheduled"
          /\ due[e] <= clock
          /\ status' = [status EXCEPT ![e] = "running"]
          /\ UNCHANGED <<due, clock>>

Finish(e) == /\ status[e] = "running"
             /\ status' = [status EXCEPT ![e] = "done"]
             /\ UNCHANGED <<due, clock>>

Next == Tick \/ \E e \in Events : Schedule(e) \/ Run(e) \/ Finish(e)

Spec == Init /\ [][Next]_vars
=============================================================================
