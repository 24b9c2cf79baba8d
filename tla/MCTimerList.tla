---------------------------- MODULE MCTimerList ----------------------------
(***************************************************************************)
(* Instances of TimerList with three or four timers and a clock that gets  *)
(* past the lifetime of the first ones.                                    *)
(***************************************************************************)
EXTENDS TimerList, TLC

Symmetry == Permutations(Timers)
=============================================================================
