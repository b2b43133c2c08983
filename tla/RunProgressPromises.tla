----------------------- MODULE RunProgressPromises ------------------------
(***************************************************************************)
(* The turns of a Run that go on, and what is promised of their guard.     *)
(***************************************************************************)
EXTENDS Naturals, Sequences, FiniteSets

CONSTANTS
    RepeatThreshold,     \* domain.RunProgressRepeatThreshold
    StagnantThreshold    \* domain.RunProgressStagnantThreshold

VARIABLE
    log          \* history: the completed turns

(* What the guard should do, said of the whole history and not of one row. *)

SameState(i, j) == log[i].continues /\ log[j].continues /\ log[i].state = log[j].state

SameTurn(i, j) == SameState(i, j) /\ log[i].action = log[j].action

\* Turns i .. j went on one after the other, none but the last of them stopped,
\* and each is related to the last one.
Stretch(R(_, _), i, j) ==
    /\ \A k \in i .. j : R(k, j)
    /\ \A k \in i .. j - 1 : ~log[k].stopped

\* The length of the longest stretch that ends with turn j.
Longest(R(_, _), j) == Cardinality({i \in 1 .. j : Stretch(R, i, j)})

\* A Run that goes on has not just said the same in the same state three times, or stayed
\* in one state for six turns, however turns, pauses and changes of state are interleaved
\* (ADR 0049).  And the guard stops nobody who has not been in such a stretch since the
\* last change of state, the last other action or the last stop: a resumed Run gets a
\* whole new window, and a Run that gets somewhere is left alone.
OnlyLoopsAreStopped ==
    \A j \in DOMAIN log :
        LET said   == Longest(SameTurn, j)
            stayed == Longest(SameState, j)
        IN  /\ said >= RepeatThreshold \/ stayed >= StagnantThreshold => log[j].stopped
            /\ log[j].stopped => said = RepeatThreshold \/ stayed = StagnantThreshold
===========================================================================
