---------------------------- MODULE MCEventPromise ----------------------------
(***************************************************************************)
(* Instances of EventPromise for TLC.                                      *)
(***************************************************************************)
EXTENDS EventPromise, TLC

CONSTANTS p1, p2, p3, p4, a, b, none, novalue

ThreePromises == {p1, p2, p3}
FourPromises  == {p1, p2, p3, p4}
OneValue == {a}
TwoValues == {a, b}
Symmetry == Permutations(FourPromises) \union Permutations(TwoValues)
=============================================================================
