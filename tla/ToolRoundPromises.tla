------------------------ MODULE ToolRoundPromises -------------------------
(***************************************************************************)
(* What is stored of tool calls, and what is promised of it.               *)
(***************************************************************************)
EXTENDS Naturals, Sequences, FiniteSets

VARIABLES
    attempts,      \* the attempts, with their rounds and the model's last answer
    consumed,      \* run_tool_usage.consumed
    entities       \* how many entities each intent of each turn has created

\* Each intent of a turn creates one entity at most, however often rounds, attempts and
\* workers repeat it; each entity was charged; and a call that is recorded as completed
\* has its entity (CreateWorkItemToolOperation, ChargeToolCall, RecordSupervisorToolResult).
EffectsMatchResults ==
    /\ \A e \in DOMAIN entities : entities[e] <= 1
    /\ Cardinality({e \in DOMAIN entities : entities[e] > 0}) <= consumed
    /\ \A a \in DOMAIN attempts : \A r \in DOMAIN attempts[a].rounds :
           \A p \in DOMAIN attempts[a].rounds[r] :
               LET call == attempts[a].rounds[r][p]
               IN  call.status = "completed" =>
                       entities[attempts[a].turn, call.intent] = 1

\* A model is asked for the next round only when it has been given the results of the
\* rounds before, whoever takes the turn over, and a committed turn has left no call
\* unresolved (resumeSupervisorTools, requireSupervisorToolsReadyTx).
RoundsAreResolved ==
    \A a \in DOMAIN attempts :
        LET rounds == attempts[a].rounds
            pending(r) == \E p \in DOMAIN rounds[r] : rounds[r][p].status = "pending"
        IN  \A r \in DOMAIN rounds :
                pending(r) => /\ r = Len(rounds)
                              /\ attempts[a].answer = "tools"
                              /\ ~attempts[a].committed
=============================================================================
