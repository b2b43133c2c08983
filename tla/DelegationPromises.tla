------------------------ MODULE DelegationPromises ------------------------
(***************************************************************************)
(* The turns that Specialists take of a Run, the applications that admit   *)
(* and instruct them, and what is promised of these.                       *)
(***************************************************************************)
EXTENDS Integers, FiniteSets, Sequences, SequencesExt

CONSTANTS
    TurnsOf,        \* the turns each assignment of a proposal asks for
    MaxTurns,       \* of the Run
    MaxChildren

VARIABLES
    run, root, used,  \* the Run, its root Agent, and the root's finished turns
    proposal,     \* proposals and their reviews
    application,  \* of each proposal
    agents,       \* the Specialists, each with the key of its admission
    messages      \* their instructions, each with the key it was sent under

SumOf(turns) == FoldSeq(+, 0, turns)

\* specialistReservationsTx: a Specialist keeps what it was admitted with,
\* whatever becomes of it.
ReservedTurns == SumOf([n \in DOMAIN agents |-> agents[n].turns])

\* n more Specialists with these turns leave the root a turn of its own.
Fits(n, turns) == /\ Len(agents) + n <= MaxChildren
                  /\ MaxTurns - used - ReservedTurns - turns >= 1

Applying == {p \in DOMAIN application : application[p].status = "applying"}

Instructed(p) == {i \in DOMAIN application[p].assignment :
                      application[p].assignment[i].status = "instructed"}

WithKey(rows, key) == {n \in DOMAIN rows : rows[n].key = key}

\* The root and its Specialists never have more turns between them than the
\* Run.  An application that was begun can be brought to its end: what it
\* has yet to admit still fits, and no Specialist has read an instruction
\* before the application noted it as sent; only the end of the Run stops it.
ApplicationsFit ==
    \A p \in DOMAIN application :
        /\ used + ReservedTurns + (IF root = "running" THEN 1 ELSE 0) <= MaxTurns
        /\ p \in Applying =>
             LET missing == {i \in DOMAIN TurnsOf[p] : WithKey(agents, <<p, i>>) = {}}
             IN  /\ run # "ended" /\ root = "ready"
                 /\ Fits(Cardinality(missing),
                         SumOf([i \in DOMAIN TurnsOf[p] |->
                                    IF i \in missing THEN TurnsOf[p][i] ELSE 0]))
                 /\ \A i \in DOMAIN TurnsOf[p] \ Instructed(p) :
                        \A m \in WithKey(messages, <<p, i>>) : ~messages[m].read

\* However often an application is repeated, at once or after a crash, each
\* assignment of an approved proposal gets at most one Specialist, which has
\* the turns it asks for and is sent one instruction; once it is applied,
\* exactly one.
TeamsAreExact ==
    \A p \in DOMAIN application : \A i \in DOMAIN TurnsOf[p] :
        LET team == WithKey(agents, <<p, i>>)
            told == WithKey(messages, <<p, i>>)
        IN  /\ team # {} => proposal[p] = "approved" /\ application[p].status # "none"
            /\ Cardinality(team) <= 1 /\ Cardinality(told) <= 1
            /\ \A n \in team : agents[n].turns = TurnsOf[p][i]
            /\ \A m \in told : messages[m].to \in team
            /\ application[p].status = "applied" =>
                 /\ team = {application[p].assignment[i].agent}
                 /\ told = {application[p].assignment[i].message}
===========================================================================
