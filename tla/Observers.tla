------------------------------ MODULE Observers ------------------------------
(***************************************************************************)
(* nodec::Observers (observers.hpp): a list of observers and the walk that *)
(* notifies them. Its mutex is recursive: other threads wait until a walk  *)
(* is over, while the observers it notifies add, remove and clear, and     *)
(* start walks of their own.                                               *)
(***************************************************************************)
EXTENDS Naturals, Sequences, FiniteSets

CONSTANTS
  Observer,  \* observers
  Nobody,    \* an empty slot (nullptr)
  MaxSlots,  \* length of the list (bound)
  MaxWalks   \* how deep walks are nested (bound)

\* A pointer to an observer is not null.
ObserversAssumption == Nobody \notin Observer /\ MaxSlots \in Nat /\ MaxWalks \in Nat

VARIABLES
  observers,         \* observers_: slots, from 1
  observer_indices,  \* observer_indices_: slot of each observer, or 0
  walks              \* the calls of each() in progress, outermost first

vars == <<observers, observer_indices, walks>>

\* n, i: the locals of each(); due: there since the walk began and not yet
\* notified; moved: a walk or a clear() inside of this one has moved or
\* dropped slots.  (the last two: history)
Walk(n, due) == [n |-> n, i |-> 0, due |-> due, moved |-> FALSE]

Registered == {o \in Observer : observer_indices[o] # 0}

Top == walks[Len(walks)]

\* What the history of the walks ws says when slots move or observers leave.
Disturbed(ws) == [k \in DOMAIN ws |-> [ws[k] EXCEPT !.moved = TRUE]]
Without(o) == [k \in DOMAIN walks |-> [walks[k] EXCEPT !.due = @ \ {o}]]

\* The program has control: outside of all walks or in an observer.
InProgram == walks # <<>> => Top.i # 0

-----------------------------------------------------------------------------
add_observer(o) ==
  /\ InProgram
  /\ observer_indices[o] = 0 /\ Len(observers) < MaxSlots
  /\ observers' = Append(observers, o)
  /\ observer_indices' = [observer_indices EXCEPT ![o] = Len(observers) + 1]
  /\ UNCHANGED walks

remove_observer(o) ==
  /\ InProgram
  /\ observer_indices[o] # 0
  /\ observers' = [observers EXCEPT ![observer_indices[o]] = Nobody]
  /\ observer_indices' = [observer_indices EXCEPT ![o] = 0]
  /\ walks' = Without(o)

clear ==
  /\ InProgram /\ observers # <<>>
  /\ observers' = <<>>
  /\ observer_indices' = [o \in Observer |-> 0]
  /\ walks' = Disturbed(walks)

each ==
  /\ InProgram /\ Len(walks) < MaxWalks
  /\ walks' = Append(walks, Walk(Len(observers), Registered))
  /\ UNCHANGED <<observers, observer_indices>>

\* The walk goes on to the next observer: after the end of a list that became
\* shorter it reads memory that may hold anything.
Notify(i) ==
  /\ walks # <<>> /\ i \in Top.i + 1 .. Top.n
  /\ \A j \in Top.i + 1 .. i - 1 : j \in DOMAIN observers => observers[j] = Nobody
  /\ \E o \in IF i \in DOMAIN observers THEN {observers[i]} \ {Nobody} ELSE Observer :
       walks' = [walks EXCEPT ![Len(walks)].i = i, ![Len(walks)].due = @ \ {o}]
  /\ UNCHANGED <<observers, observer_indices>>

\* The slots that are filled move to the front, each behind those before it.
Filled == {k \in DOMAIN observers : observers[k] # Nobody}

NewSlot(k) == Cardinality({j \in Filled : j < k}) + 1

Compacted ==
  [s \in 1 .. Cardinality(Filled) |-> observers[CHOOSE k \in Filled : NewSlot(k) = s]]

NotReindexed == observer_indices                                   \* defect
Reindexed ==
  [o \in Observer |-> IF \E k \in Filled : observers[k] = o
                      THEN NewSlot(CHOOSE k \in Filled : observers[k] = o)
                      ELSE observer_indices[o]]

\* After the last observer the empty slots are removed.
Compact ==
  /\ walks # <<>>
  /\ \A j \in Top.i + 1 .. Top.n : j \in DOMAIN observers => observers[j] = Nobody
  /\ observers' = Compacted
  /\ observer_indices' = Reindexed
  /\ LET outer == SubSeq(walks, 1, Len(walks) - 1)
     IN walks' = IF Compacted = observers THEN outer ELSE Disturbed(outer)

-----------------------------------------------------------------------------
Init ==
  /\ observers = <<>> /\ walks = <<>>
  /\ observer_indices = [o \in Observer |-> 0]

Next ==
  \/ \E o \in Observer : add_observer(o) \/ remove_observer(o)
  \/ clear \/ each \/ Compact
  \/ \E i \in 1 .. MaxSlots : Notify(i)

Spec == Init /\ [][Next]_vars

-----------------------------------------------------------------------------
\* The index of an observer is its slot, and every other slot is empty.
IndicesExact ==
  /\ \A o \in Registered :
       observer_indices[o] \in DOMAIN observers /\ observers[observer_indices[o]] = o
  /\ \A k \in DOMAIN observers :
       observers[k] # Nobody => observer_indices[observers[k]] = k

\* A walk notifies each observer that is there from its start to its end:
\* adding and removing observers in the middle of it does not disturb that,
\* only moving the slots does.
WalkComplete ==
  \A k \in DOMAIN walks :
    ~ walks[k].moved =>
      walks[k].due \subseteq {observers[j] : j \in walks[k].i + 1 .. walks[k].n}

\* Both: an observer is notified once, and none that was removed.
NotifiedExactly == IndicesExact /\ WalkComplete
=============================================================================
