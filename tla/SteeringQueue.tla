---------------------------- MODULE SteeringQueue ----------------------------
(***************************************************************************)
(* What an operator who steers a Run is promised, with no turns, attempts, *)
(* leases or crashes: guidance waits in the order it was given, at most    *)
(* one piece is being worked on, it is always the oldest, it is answered   *)
(* at most once, and only guidance nobody works on can be withdrawn.       *)
(* RunSupervisor implements this module.                                   *)
(***************************************************************************)
EXTENDS Naturals, Sequences

VARIABLES
    given,     \* how many messages were given; they are numbered from 1
    waiting,   \* the messages that wait
    taken,     \* the message being worked on; 0: none
    answered   \* the messages answered, in the order of their answers

queueVars == <<given, waiting, taken, answered>>

QueueInit ==
    /\ given = 0
    /\ waiting = {}
    /\ taken = 0
    /\ answered = <<>>

Give ==
    /\ given' = given + 1
    /\ waiting' = waiting \cup {given + 1}
    /\ UNCHANGED <<taken, answered>>

Withdraw ==
    /\ \E m \in waiting : waiting' = waiting \ {m}
    /\ UNCHANGED <<given, taken, answered>>

Take ==
    /\ taken = 0
    /\ \E m \in waiting :
          /\ \A n \in waiting : m <= n
          /\ taken' = m
          /\ waiting' = waiting \ {m}
    /\ UNCHANGED <<given, answered>>

PutBack ==
    /\ taken # 0
    /\ waiting' = waiting \cup {taken}
    /\ taken' = 0
    /\ UNCHANGED <<given, answered>>

Answer ==
    /\ taken # 0
    /\ answered' = Append(answered, taken)
    /\ taken' = 0
    /\ UNCHANGED <<given, waiting>>

\* The Run ends without having answered.
Close ==
    /\ waiting' = {}
    /\ taken' = 0
    /\ UNCHANGED <<given, answered>>

QueueNext == Give \/ Withdraw \/ Take \/ PutBack \/ Answer \/ Close

QueueSpec == QueueInit /\ [][QueueNext]_queueVars
=============================================================================
