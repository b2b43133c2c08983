-------------------------- MODULE FanoutPromises --------------------------
(***************************************************************************)
(* The ledgers of a read-only fan-out, and what is promised of them.       *)
(***************************************************************************)
EXTENDS Naturals, Sequences, FiniteSets, SequencesExt, FiniteSetsExt

CONSTANTS
    ShardTokens, \* tokens reserved for the call of a shard
    Budget       \* Run.Budget.MaxTokens

VARIABLES
    execution,   \* the row of the execution: status, and the generation that owns it
    shard,       \* its shards: status and current attempt
    calls,       \* the model calls of each shard, in the order of their attempts
    spent        \* tokens that the Agents of the Run have used

\* A shard runs exactly while its last call does, one that is completed has the report of
\* that call, and an execution that has ended leaves no call open, also when requests
\* that lost their lease still write: so a recovery never finds the two ledgers at odds.
ShardsAgree ==
    \A s \in DOMAIN shard :
        /\ \A n \in DOMAIN calls[s] :
               /\ calls[s][n].status = "started" <=>
                      shard[s] = [status |-> "running", current |-> n]
               /\ calls[s][n].status = "completed" <=>
                      shard[s] = [status |-> "completed", current |-> n]
        /\ shard[s].current \in {0, Len(calls[s])}
        /\ execution.status \in {"completed", "failed", "cancelled"} =>
               shard[s].status \in {"completed", "failed", "cancelled"}

\* The calls of the fan-out never take more of the budget of the Run than there was, but
\* for what a provider took beyond its reservation: whoever has the lease in between, and
\* however many calls were lost and made again.  And the shards agree with their calls.
CallsAreAdmitted ==
    /\ ShardsAgree
    /\ spent + MapThenSumSet(LAMBDA s :
           FoldLeft(LAMBDA sum, c : sum + IF c.charge < ShardTokens THEN c.charge ELSE ShardTokens,
                    0, calls[s]), DOMAIN shard) <= Budget
===========================================================================
