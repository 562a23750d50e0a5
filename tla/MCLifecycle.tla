---------------------------- MODULE MCLifecycle ----------------------------
(* One worker thread beside main, one task thread. *)
EXTENDS Lifecycle
CONSTANTS w1, k1
MCWorkers == {w1}
MCTasks   == {k1}
=============================================================================
