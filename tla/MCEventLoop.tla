----------------------------- MODULE MCEventLoop -----------------------------
(***************************************************************************)
(* Instances of EventLoop for TLC. The bounds: two consumers (two threads  *)
(* in wait_for and a notify_one that wakes the wrong one), one producer    *)
(* beside them and the callbacks, which schedule too, and two events: one  *)
(* to wait for and one to be pushed under it.                              *)
(***************************************************************************)
EXTENDS EventLoop, TLC

CONSTANTS p1, c1, c2, e1, e2, none

OneProducer  == {p1}
TwoConsumers == {c1, c2}
OneConsumer  == {c1}
TwoEvents    == {e1, e2}
OneThrower   == {e1}
\* Unlimited waits only, and a mix with limited ones.
WaitForever  == {DurationMax}
MixedWaits   == {0, DurationMax}

\* Consumers are interchangeable; events are not, one of them may throw.
ConsumerSymmetry == Permutations(TwoConsumers)
=============================================================================
