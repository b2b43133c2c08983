----------------------------- MODULE MCRunWake -----------------------------
(***************************************************************************)
(* RunWake for TLC.                                                        *)
(***************************************************************************)
EXTENDS RunWake, TLC

CONSTANTS c1, c2, r1, r2

RunSymmetry == Permutations({r1, r2})
=============================================================================
