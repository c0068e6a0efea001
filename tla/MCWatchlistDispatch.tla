------------------------- MODULE MCWatchlistDispatch -------------------------
(* Small instances of WatchlistDispatch for TLC. *)
EXTENDS WatchlistDispatch, TLC
CONSTANTS m1, s1, s2

SchedulerSymmetry == Permutations(Schedulers)
=============================================================================
