------------------------- MODULE RunWakePromises --------------------------
(***************************************************************************)
(* The tables of wakes, and what is promised of them.                      *)
(***************************************************************************)

VARIABLES
    intent,       \* rows of run_wake_intents
    lease,        \* the latest row of run_wake_leases of each intent
    consumption,  \* rows of run_wake_consumptions, by intent and generation
    handoff       \* rows of the hand-off ledger, by the same key

\* A prepared generation owns its intent: whatever operators, clocks and
\* other consumers do, nobody cancels the intent or takes the next
\* generation before this one has settled.
PreparedIsOwned ==
    \A i \in DOMAIN consumption : \A g \in DOMAIN consumption[i] :
        consumption[i][g] = "prepared" =>
            /\ intent[i].status = "leased" /\ intent[i].attempts = g
            /\ lease[i].active /\ lease[i].gen = g

\* What a settled generation says of its hand-off is what the hand-off ledger says, and a
\* generation that completed is the last one: its intent is never queued or claimed again.
ResultsAreDurable ==
    \A i \in DOMAIN consumption : \A g \in DOMAIN consumption[i] :
        /\ consumption[i][g] \in {"completed", "failed"} =>
               handoff[i][g].status = consumption[i][g]
        /\ consumption[i][g] = "completed" =>
               intent[i].status = "exhausted" /\ intent[i].attempts = g
=============================================================================
