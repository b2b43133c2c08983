-------------------------- MODULE RunProgressGuard --------------------------
(***************************************************************************)
(* The guard that stops a Run whose turns go on without getting anywhere.  *)
(* It is evaluated in the transaction that completes a turn (CompleteTurn  *)
(* of RunSupervisor, which leaves its verdict open), against the row that  *)
(* the turn before left.  Here a turn is one step; what happens between    *)
(* turns is that the Run's structured state changes and that an operator   *)
(* pauses and resumes.                                                     *)
(***************************************************************************)
EXTENDS RunProgressPromises

CONSTANTS
    States,              \* fingerprints of the Run's structured state
    Actions,             \* fingerprints of what a turn that continues says
    MaxTurns             \* bound: turns completed

GuardConstants ==
    /\ RepeatThreshold \in Nat /\ StagnantThreshold \in Nat
    /\ 1 < RepeatThreshold /\ RepeatThreshold <= StagnantThreshold
    /\ MaxTurns \in Nat

None == "none"

VARIABLES
    runStatus,   \* runs.status
    state,       \* fingerprint of the structured state as it is now
    guard,       \* the row of run_progress_guards
    resumed      \* is there a paused -> running event dated after the detection?

vars == <<runStatus, state, guard, resumed, log>>

Turn == [continues : BOOLEAN, state : States \cup {None}, action : Actions \cup {None},
         stopped   : BOOLEAN]

\* The row, the Run's status and the history keep their types; the counters never
\* exceed the thresholds the table's CHECK compares them with.
TypeOK ==
    /\ runStatus \in {"running", "paused", "completed"}
    /\ state \in States
    /\ guard \in [status   : {"missing", "observing", "livelock_detected"},
                  state    : States \cup {None},
                  action   : Actions \cup {None},
                  repeated : 0 .. RepeatThreshold,
                  stagnant : 0 .. StagnantThreshold]
    /\ resumed \in BOOLEAN
    /\ log \in Seq(Turn)

Empty(status) ==
    [status |-> status, state |-> None, action |-> None, repeated |-> 0, stagnant |-> 0]

Init ==
    /\ runStatus = "running"
    /\ state \in States
    /\ guard = Empty("missing")
    /\ resumed = FALSE
    /\ log = <<>>

-----------------------------------------------------------------------------

\* n + 1, or the threshold if that is less.
Saturated(n, threshold) == IF n < threshold THEN n + 1 ELSE threshold

\* Is the turn that now says something in state s compared with the one before?
Comparable(s) == guard.status = "observing" /\ guard.state = s

\* How often action a was said in a row, with this turn.
Repeated(a) ==
    IF Comparable(state) /\ guard.action = a
    THEN Saturated(guard.repeated, RepeatThreshold) ELSE 1

\* For how many turns in a row the state has been the same, with this turn.
Stagnant == IF Comparable(state) THEN Saturated(guard.stagnant, StagnantThreshold) ELSE 1

Detected(repeated, stagnant) == repeated >= RepeatThreshold \/ stagnant >= StagnantThreshold

\* A trigger of the table: a detection is only overwritten after a resume.
MayOverwrite(new) ==
    guard.status = "livelock_detected" /\ new.status = "observing" => resumed

\* A turn whose requested and effective action is continue.
CompleteContinuing(a) ==
    /\ runStatus = "running"
    /\ Len(log) < MaxTurns
    /\ LET stops == Detected(Repeated(a), Stagnant)
           new   == [status   |-> IF stops THEN "livelock_detected" ELSE "observing",
                     state    |-> state,
                     action   |-> a,
                     repeated |-> Repeated(a),
                     stagnant |-> Stagnant]
       IN  /\ MayOverwrite(new)
           /\ guard' = new
           /\ runStatus' = IF stops THEN "paused" ELSE "running"
           /\ resumed' = (resumed /\ ~stops)
           /\ log' = Append(log, [continues |-> TRUE, state |-> state, action |-> a,
                                  stopped |-> stops])
    /\ UNCHANGED state

\* Faulty: the row is kept.
ResetGuard == UNCHANGED guard

\* A Run without a row gets none.
ClearGuard == guard' = IF guard.status = "missing" THEN guard ELSE Empty("observing")

\* A turn that asks to wait or to finish; if it is made to continue because
\* steering waits, that does not count.
CompleteOtherwise(outcome) ==
    /\ runStatus = "running"
    /\ Len(log) < MaxTurns
    /\ MayOverwrite(Empty("observing"))
    /\ ClearGuard
    /\ runStatus' = outcome
    /\ log' = Append(log, [continues |-> FALSE, state |-> None, action |-> None,
                           stopped |-> FALSE])
    /\ UNCHANGED <<state, resumed>>

\* A work item, a note, a plan, the mode or a specialist changes, whoever does it.
StateChanges ==
    /\ runStatus # "completed"
    /\ state' \in States \ {state}
    /\ UNCHANGED <<runStatus, guard, resumed, log>>

Pause ==
    /\ runStatus = "running"
    /\ runStatus' = "paused"
    /\ UNCHANGED <<state, guard, resumed, log>>

\* The clock may be set back: then the resume is dated before the detection.
Resume ==
    /\ runStatus = "paused"
    /\ runStatus' = "running"
    /\ resumed' \in {resumed, TRUE}
    /\ UNCHANGED <<state, guard, log>>

Next ==
    \/ \E a \in Actions : CompleteContinuing(a)
    \/ \E outcome \in {"running", "paused", "completed"} : CompleteOtherwise(outcome)
    \/ StateChanges \/ Pause \/ Resume

Spec == Init /\ [][Next]_vars
=============================================================================
