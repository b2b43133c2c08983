-------------------------- MODULE SpecialistPromises --------------------------
(***************************************************************************)
(* The ledger of Specialist attempts and their schedules, and what is      *)
(* promised of them.                                                       *)
(***************************************************************************)
EXTENDS Naturals, Sequences, FiniteSets

VARIABLES
    child,        \* agent_nodes of the Specialists
    attempt,      \* agent_attempts of each child, by turn
    instruction,  \* what the root sent to each child, in order
    delivery,     \* the prepared deliveries of each child
    inbox,        \* the messages to the root, in order
    schedule      \* specialist_schedules, in order

ledger == <<child, attempt, instruction, delivery, inbox>>

\* What the model calls of attempts have cost.
Used(rows) ==
    LET used[t \in 0 .. Len(rows)] == IF t = 0 THEN 0 ELSE used[t - 1] + rows[t].tokens
    IN  used[Len(rows)]

\* The attempts that were begun under a lease.
TurnsUnder(g) ==
    UNION {{c} \X {t \in DOMAIN attempt[c] : attempt[c][t].generation = g} : c \in DOMAIN attempt}

RunningRows == {k \in DOMAIN schedule : schedule[k].status = "running"}

-----------------------------------------------------------------------------
\* A child is running exactly while its last attempt is, no other attempt
\* runs, and what it has used up is what its attempts say; a completed child
\* ends with a finished one.  A snapshot of the graph is refused otherwise.
AttemptsAgree ==
    \A c \in DOMAIN attempt :
        LET last == Len(attempt[c])
        IN  /\ child[c].turns = last /\ child[c].tokens = Used(attempt[c])
            /\ \A t \in 1 .. last : attempt[c][t].status = "running"
                                    <=> t = last /\ child[c].status = "running"
            /\ child[c].active = (IF child[c].status = "running" THEN last ELSE 0)
            /\ child[c].status = "completed" => attempt[c][last].status = "finished"

\* An instruction is consumed by one attempt, which continued or finished,
\* and none of them overtakes another; those of an attempt that crashed or
\* was interrupted are pending again, for its successor.
InstructionsAreRead ==
    \A c \in DOMAIN instruction :
        /\ \A i \in DOMAIN instruction[c] :
             instruction[c][i] # 0 =>
                 /\ attempt[c][instruction[c][i]].status \in {"continued", "finished"}
                 /\ \A j \in 1 .. i : instruction[c][j] # 0 /\ instruction[c][j] <= instruction[c][i]
        /\ delivery[c].turn # 0 =>
             /\ attempt[c][delivery[c].turn].status = "running"
             /\ \A i \in delivery[c].items : instruction[c][i] = 0

\* The root is told of every attempt that finished or crashed, once, and of
\* no other.
ParentIsTold ==
    \A c \in DOMAIN attempt : \A t \in DOMAIN attempt[c] :
        Cardinality({n \in DOMAIN inbox : inbox[n].from = c /\ inbox[n].turn = t})
            = IF attempt[c][t].status \in {"finished", "crashed"} THEN 1 ELSE 0

\* A Run has one running schedule at most, the last one, and a schedule that
\* has ended counts the attempts that its lease began, whether it ended by
\* itself or was found abandoned.
SchedulesCount ==
    /\ \A k \in RunningRows : k = Len(schedule)
    /\ \A k \in DOMAIN schedule \ RunningRows :
           schedule[k].turns = Cardinality(TurnsUnder(schedule[k].generation))
=============================================================================
