-------------------------- MODULE MCMonetaryBudget --------------------------
(***************************************************************************)
(* MonetaryBudget for TLC.                                                 *)
(***************************************************************************)
EXTENDS MonetaryBudget

AllScopes  == [c \in Callers |-> c]
OneModel   == [c \in Callers |-> "m"]
=============================================================================
