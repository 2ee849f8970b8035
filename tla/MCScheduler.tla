---------------------------- MODULE MCScheduler ----------------------------
(***************************************************************************)
(* Instances of Scheduler for TLC.                                         *)
(***************************************************************************)
EXTENDS Scheduler, TLC

CONSTANTS w1, w2, main, c1, c2, c3

\* Callbacks are interchangeable; only runs without liveness properties use this.
CallbackSymmetry == Permutations(Callbacks)
============================================================================
