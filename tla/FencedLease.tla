----------------------------- MODULE FencedLease -----------------------------
(***************************************************************************)
(* What the execution lease of one Run promises to everything written      *)
(* under it, with no workers, no heartbeats and no clock: a generation is  *)
(* granted only when nobody holds the lease, its authority may lapse, and  *)
(* once it is released or superseded it never writes again.                *)
(* RunExecutionLease implements this module.                               *)
(***************************************************************************)
EXTENDS Naturals

CONSTANT ClockMayStepBack   \* BOOLEAN: may the wall clock revive a lapsed lease?

VARIABLES
    generation,   \* generation of the last grant; 0 before the first one
    authority,    \* what that generation may still do
    written       \* generation of the last fenced write; 0 before the first

fencedVars == <<generation, authority, written>>

FencedInit ==
    /\ generation = 0
    /\ authority = "released"
    /\ written = 0

Grant ==
    /\ authority # "live"
    /\ generation' = generation + 1
    /\ authority' = "live"
    /\ UNCHANGED written

Lapse ==
    /\ authority = "live"
    /\ authority' = "lapsed"
    /\ UNCHANGED <<generation, written>>

Revive ==
    /\ ClockMayStepBack
    /\ authority = "lapsed"
    /\ authority' = "live"
    /\ UNCHANGED <<generation, written>>

GiveUp ==
    /\ authority # "released"
    /\ authority' = "released"
    /\ UNCHANGED <<generation, written>>

FencedWrite ==
    /\ authority = "live"
    /\ written' = generation
    /\ UNCHANGED <<generation, authority>>

FencedNext == Grant \/ Lapse \/ Revive \/ GiveUp \/ FencedWrite

FencedSpec == FencedInit /\ [][FencedNext]_fencedVars
=============================================================================
