----------------------------- MODULE RunLifecycle -----------------------------
(***************************************************************************)
(* The life of a Run and of the root Agent that executes it, as pure       *)
(* operators: which statuses there are, which moves the domain allows, and *)
(* what the root Agent has to look like for a Run and its checkpoint.      *)
(***************************************************************************)

RunStatuses == {"created", "preparing", "running", "waiting_approval", "paused",
                "completed", "failed", "cancelled"}

Terminal(s) == s \in {"completed", "failed", "cancelled"}

AllowedMoves ==
    [created          |-> {"preparing", "cancelled"},
     preparing        |-> {"running", "failed", "cancelled"},
     running          |-> {"waiting_approval", "paused", "completed", "failed", "cancelled"},
     waiting_approval |-> {"running", "paused", "failed", "cancelled"},
     paused           |-> {"running", "failed", "cancelled"},
     completed        |-> {},
     failed           |-> {},
     cancelled        |-> {}]

CanTransition(from, to) == from = to \/ to \in AllowedMoves[from]

AgentStatuses == {"ready", "running", "waiting", "completed", "failed", "cancelled"}

AllowedAgentMoves ==
    [ready     |-> {"running", "waiting", "completed", "failed", "cancelled"},
     running   |-> {"ready", "waiting", "completed", "failed", "cancelled"},
     waiting   |-> {"ready", "running", "failed", "cancelled"},
     completed |-> {},
     failed    |-> {},
     cancelled |-> {}]

AgentCanTransition(from, to) == from = to \/ to \in AllowedAgentMoves[from]

\* The root Agent as Run status and checkpoint phase dictate it; 0 is no attempt.
RootProjection(runStatus, phase, attempt) ==
    LET executing == runStatus = "running" /\ phase = "turn_started"
    IN  [status  |-> CASE runStatus \in {"created", "preparing"}         -> "ready"
                       [] runStatus = "running"                           ->
                              IF executing THEN "running" ELSE "ready"
                       [] runStatus \in {"waiting_approval", "paused"}   -> "waiting"
                       [] OTHER                                           -> runStatus,
         attempt |-> IF executing THEN attempt ELSE 0]
=============================================================================
