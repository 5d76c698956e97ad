----------------------------- MODULE MCThreadPool -----------------------------
(***************************************************************************)
(* An instance of ThreadPool for TLC: two workers, so that one can take    *)
(* what the other was woken for, and four tasks, so that both workers can  *)
(* wait for tasks while tasks are queued behind them in more than one      *)
(* order.                                                                  *)
(***************************************************************************)
EXTENDS ThreadPool

CONSTANTS main, w1, w2, t1, t2, t3, t4, none

TwoWorkers == {w1, w2}
FourTasks == {t1, t2, t3, t4}
=============================================================================
