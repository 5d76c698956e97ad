-------------------------- MODULE MCResourceRegistry --------------------------
(***************************************************************************)
(* An instance of ResourceRegistry for TLC. Two callers race for a name;   *)
(* two loads are a needless one beside the first, one for what the first   *)
(* needs, or one after it at its address; the loader of m needs n.         *)
(***************************************************************************)
EXTENDS ResourceRegistry, TLC

CONSTANTS c1, c2, m, n, l1, l2, x1, x2, none

TwoCallers == {c1, c2}
TwoNames == {m, n}
TwoLoads == {l1, l2}
TwoAddresses == {x1, x2}
MNeedsN == (m :> n) @@ (n :> none)
=============================================================================
