------------------------- MODULE MonetaryPromises -------------------------
(***************************************************************************)
(* The reservations of a Run, and what is promised of them.                *)
(***************************************************************************)
EXTENDS Integers, FiniteSetsExt

CONSTANT
    Cap           \* of the Run, positive: a Run without a cap has no ledger

VARIABLE
    reservation   \* rows of run_monetary_reservations, by scope and attempt number

\* What is reserved and neither settled nor released never exceeds the cap,
\* by the rows themselves and not only by the totals that are compared with
\* it: settlements, releases, reconciliations and the end of the Run close
\* every row once, in whatever order they meet.
OpenIsCapped ==
    MapThenSumSet(LAMBDA k : reservation[k].amount,
                  {k \in DOMAIN reservation : reservation[k].status = "reserved"}) <= Cap
===========================================================================
