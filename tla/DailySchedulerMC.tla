-------------------------- MODULE DailySchedulerMC --------------------------
(***************************************************************************)
(* Small instances of DailyScheduler for TLC: days of a few ticks.         *)
(***************************************************************************)
EXTENDS DailyScheduler, TLC

Symmetry == Permutations(Ticks)
=============================================================================
