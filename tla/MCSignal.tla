------------------------------- MODULE MCSignal -------------------------------
(***************************************************************************)
(* An instance of Signal for TLC: three connections, one of which can be   *)
(* made or cut while the others are called, and calls in a call.           *)
(***************************************************************************)
EXTENDS Signal

CONSTANTS c1, c2, c3, none

ThreeConns == {c1, c2, c3}

=============================================================================
