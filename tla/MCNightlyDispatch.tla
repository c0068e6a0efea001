-------------------------- MODULE MCNightlyDispatch --------------------------
(* Small instances of NightlyDispatch for TLC. *)
EXTENDS NightlyDispatch, TLC
CONSTANTS m1, t1, t2

TickSymmetry == Permutations(Ticks)
=============================================================================
