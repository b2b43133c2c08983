------------------------- MODULE MCRunExecutionLease -------------------------
(* Lease for TLC.  Its liveness rules out the symmetry of the workers. *)
EXTENDS RunExecutionLease, TLC
=============================================================================
