--------------------------- MODULE MCRunSupervisor ---------------------------
(***************************************************************************)
(* RunSupervisor for TLC.  Workers are interchangeable; the actions that   *)
(* depend on Modes are only reachable in the runs that allow their mode.   *)
(***************************************************************************)
EXTENDS RunSupervisor, TLC

WorkerSymmetry == Permutations(Workers)
=============================================================================
