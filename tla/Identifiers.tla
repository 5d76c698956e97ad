----------------------------- MODULE Identifiers -----------------------------
(***************************************************************************)
(* What a registry promises about identifiers: one is in use from its      *)
(* creation to its destruction, no two in use have the same number, and    *)
(* one that was destroyed names no other entity until its number has been  *)
(* used as often as there are versions.                                    *)
(***************************************************************************)
EXTENDS Naturals

CONSTANTS Numbers, Cycle  \* versions before the first comes again

VARIABLES
  used,  \* the identifiers in use
  lives  \* how often each number was used

vars == <<used, lives>>

Create(n) ==
  /\ \A e \in used : e.number # n
  /\ used' = used \cup {[number |-> n, version |-> lives[n] % Cycle]}
  /\ lives' = [lives EXCEPT ![n] = @ + 1]

Destroy(e) == used' = used \ {e} /\ UNCHANGED lives

Init == used = {} /\ lives = [n \in Numbers |-> 0]

Next == (\E n \in Numbers : Create(n)) \/ (\E e \in used : Destroy(e))

Spec == Init /\ [][Next]_vars
=============================================================================
