--------------------------- MODULE ReadOnlyFanout ---------------------------
(***************************************************************************)
(* One execution of a read-only fan-out: the shards of a plan are audited  *)
(* by model calls side by side, under the execution lease of the Run.      *)
(*                                                                         *)
(* The request may be repeated, by anyone who has its operation key and at *)
(* any time: while another one works on it, after that one has died, or    *)
(* while it still works without knowing that its lease has lapsed.  A new  *)
(* holder of the lease resets the shards that were running and takes the   *)
(* execution over; what a call that nobody saw the end of was to cost      *)
(* stays charged to the Run.                                               *)
(***************************************************************************)
EXTENDS FanoutPromises

CONSTANTS
    Workers,         \* requests in flight, all with the operation key of the plan
    Shards,
    Usages,          \* tokens a provider may report for a call
    MaxAttempts,     \* domain.MaxReadOnlyFanoutAttemptsPerShard
    MaxGeneration,   \* bound: grants of the lease
    MaxFaults        \* bound: deaths, cancelled requests and writes that fail

FanoutConstants ==
    /\ IsFiniteSet(Shards)
    /\ Usages \subseteq Nat \ {0}
    /\ {ShardTokens, MaxAttempts, MaxGeneration} \subseteq Nat \ {0}
    /\ {Budget, MaxFaults} \subseteq Nat

VARIABLES
    lease,       \* the execution lease of the Run: its generation, is it active?
    worker,      \* what each request has read and does next
    faults

vars == <<lease, execution, shard, calls, spent, worker, faults>>

Terminal == {"completed", "failed", "cancelled"}
NoTask   == [state |-> "none", attempt |-> 0]
Idle     == [pc |-> "idle", found |-> FALSE, generation |-> 0, stopped |-> FALSE,
             failed |-> FALSE, task |-> [s \in Shards |-> NoTask]]

\* Rows and copies keep their types.
TypeOK ==
    /\ lease \in [generation : 0 .. MaxGeneration, active : BOOLEAN]
    /\ execution \in [status : Terminal \cup {"none", "running"}, fence : 0 .. MaxGeneration]
    /\ shard \in [Shards -> [status : Terminal \cup {"pending", "running"},
                             current : 0 .. MaxAttempts]]
    /\ \A s \in Shards :
           /\ Len(calls[s]) <= MaxAttempts
           /\ \A n \in DOMAIN calls[s] :
                  calls[s][n] \in [status : Terminal \cup {"started", "abandoned"},
                                   charge : Usages \cup {ShardTokens}]
    /\ spent \in 0 .. Budget /\ faults \in 0 .. MaxFaults
    /\ worker \in [Workers -> [pc : {"idle", "acquire", "recover", "verify", "create", "run",
                                     "finalize", "drop", "fail", "release"},
                               found : BOOLEAN, generation : 0 .. MaxGeneration,
                               stopped : BOOLEAN, failed : BOOLEAN,
                               task : [Shards -> [state : {"none", "todo", "calling", "done"},
                                                  attempt : 0 .. MaxAttempts]]]]

Init ==
    /\ lease = [generation |-> 0, active |-> FALSE]
    /\ execution = [status |-> "none", fence |-> 0]
    /\ shard = [s \in Shards |-> [status |-> "pending", current |-> 0]]
    /\ calls = [s \in Shards |-> <<>>]
    /\ spent = 0 /\ worker = [w \in Workers |-> Idle] /\ faults = 0

-----------------------------------------------------------------------------
(* The ledgers *)

ShardsThat(status) == {s \in Shards : shard[s].status = status}

\* Faulty: calls whose end nobody saw are free.
FaultyCharged(s) ==
    FoldLeft(LAMBDA sum, c : sum + IF c.status \in {"completed", "failed"} THEN c.charge ELSE 0,
             0, calls[s])

\* A call is charged what the provider reported, or else what was reserved.
Charged(s) == FoldLeft(LAMBDA sum, c : sum + c.charge, 0, calls[s])
Usage == spent + MapThenSumSet(Charged, Shards)

\* The tokens that are left admit calls for all of these shards.
Admits(pending) == Usage + ShardTokens * Cardinality(pending) <= Budget

\* The transactions of a request are fenced: first by the lease, those on the shards
\* also by the generation that owns the execution.
Holds(w) == lease.active /\ lease.generation = worker[w].generation
Owns(w)  == Holds(w) /\ execution.fence = worker[w].generation

Goto(w, pc) == worker' = [worker EXCEPT ![w].pc = pc]
Fault == faults < MaxFaults /\ faults' = faults + 1

\* The last call of a shard ends.
Ended(s, status, charge) ==
    [calls[s] EXCEPT ![Len(calls[s])] = [status |-> status, charge |-> charge]]

\* The calls of running shards end without their usage being known.
Unknown(status) ==
    [s \in Shards |-> IF shard[s].status = "running" THEN Ended(s, status, ShardTokens)
                      ELSE calls[s]]

\* What has not ended is cancelled; a shard that waits has no attempt.
CancelRemainder ==
    /\ shard' = [s \in Shards |-> IF shard[s].status \in Terminal THEN shard[s]
                                  ELSE [shard[s] EXCEPT !.status = "cancelled"]]
    /\ calls' = Unknown("cancelled")

\* The final status has to agree with the shards.
Finalize(status) ==
    /\ \A s \in Shards : shard[s].status \in Terminal
    /\ status = "completed" <=> ShardsThat("completed") = Shards
    /\ execution' = [execution EXCEPT !.status = status]

-----------------------------------------------------------------------------
(* A request *)

\* The operation is read before the lease is acquired; an execution that has ended is
\* answered as it is.
Ask(w) ==
    /\ worker[w].pc = "idle" /\ execution.status \notin Terminal
    /\ worker' = [worker EXCEPT ![w].pc = "acquire",
                                ![w].found = execution.status # "none"]
    /\ UNCHANGED <<lease, execution, shard, calls, spent, faults>>

Acquire(w) ==
    /\ worker[w].pc = "acquire"
    /\ \/ /\ ~lease.active /\ lease.generation < MaxGeneration
          /\ lease' = [generation |-> lease.generation + 1, active |-> TRUE]
          /\ worker' = [worker EXCEPT ![w].pc = IF worker[w].found THEN "recover"
                                                ELSE "verify",
                                      ![w].generation = lease.generation + 1]
       \/ /\ lease.active
          /\ worker' = [worker EXCEPT ![w] = Idle]
          /\ UNCHANGED lease
    /\ UNCHANGED <<execution, shard, calls, spent, faults>>

\* The work that a request finds for its goroutines when it starts them.
Tasks(status) ==
    [s \in Shards |-> IF status[s].status = "pending" THEN [NoTask EXCEPT !.state = "todo"]
                      ELSE NoTask]

\* The execution is taken over from the generation that owned it.  Each request has a
\* lease of its own, so it never finds that it is the owner already.  A request that
\* found the operation has its files to verify next, one that was to create it did.
Recover(w) ==
    /\ worker[w].pc = "recover"
    /\ IF Holds(w) /\ execution.status = "running"
       THEN /\ execution' = [execution EXCEPT !.fence = worker[w].generation]
            /\ shard' = [s \in Shards |-> IF shard[s].status = "running"
                                          THEN [status |-> "pending", current |-> 0]
                                          ELSE shard[s]]
            /\ calls' = Unknown("abandoned")
            /\ worker' = [worker EXCEPT
                   ![w].pc = IF worker[w].found THEN "verify" ELSE "run",
                   ![w].task = IF worker[w].found THEN @ ELSE Tasks(shard')]
       ELSE Goto(w, "release") /\ UNCHANGED <<execution, shard, calls>>
    /\ UNCHANGED <<lease, spent, faults>>

\* The files are compared with the plan and the usage of the Run is read, outside of any
\* transaction.  An execution that exists is dropped when either has changed too much.
Verify(w) ==
    LET found == worker[w].found
        pending == IF found THEN ShardsThat("pending") ELSE Shards
    IN  /\ worker[w].pc = "verify"
        /\ \/ /\ Admits(pending)
              /\ worker' = [worker EXCEPT ![w].pc = IF found THEN "run" ELSE "create",
                                          ![w].task = IF found THEN Tasks(shard) ELSE @]
           \/ Goto(w, IF found THEN "drop" ELSE "release")
        /\ UNCHANGED <<lease, execution, shard, calls, spent, faults>>

\* The operation key is looked up again in the transaction that creates the execution.
Create(w) ==
    /\ worker[w].pc = "create"
    /\ IF Holds(w) /\ execution.status = "none"
       THEN /\ execution' = [status |-> "running", fence |-> worker[w].generation]
            /\ worker' = [worker EXCEPT ![w].pc = "run", ![w].task = Tasks(shard)]
       ELSE /\ Goto(w, IF Holds(w) THEN "recover" ELSE "release")
            /\ UNCHANGED execution
    /\ UNCHANGED <<lease, shard, calls, spent, faults>>

\* An execution that was taken over in vain: what is left is cancelled ...
Drop(w) ==
    /\ worker[w].pc = "drop"
    /\ IF Owns(w) THEN CancelRemainder /\ Goto(w, "fail")
       ELSE Goto(w, "release") /\ UNCHANGED <<shard, calls>>
    /\ UNCHANGED <<lease, execution, spent, faults>>

\* ... and the execution fails, unless no shard was left to cancel.
FailDropped(w) ==
    /\ worker[w].pc = "fail" /\ Goto(w, "release")
    /\ IF Owns(w) /\ ShardsThat("completed") # Shards THEN Finalize("failed")
       ELSE UNCHANGED execution
    /\ UNCHANGED <<lease, shard, calls, spent, faults>>

\* A request is cancelled by who made it, or by the renewal of its lease when that was
\* lost.  The transactions that end its calls and the execution go on.
Interrupt(w) ==
    /\ \/ /\ worker[w].pc \in {"recover", "verify", "create"}
          /\ Goto(w, "release")
       \/ /\ worker[w].pc \in {"run", "finalize"} /\ ~worker[w].stopped
          /\ worker' = [worker EXCEPT ![w].stopped = TRUE]
    /\ IF Holds(w) THEN Fault ELSE UNCHANGED faults
    /\ UNCHANGED <<lease, execution, shard, calls, spent>>

Release(w) ==
    /\ worker[w].pc = "release"
    /\ lease' = [lease EXCEPT !.active = @ /\ ~Holds(w)]
    /\ worker' = [worker EXCEPT ![w] = Idle]
    /\ UNCHANGED <<execution, shard, calls, spent, faults>>

-----------------------------------------------------------------------------
(* Its goroutines, one for each shard that is to be audited *)

InTask(w, s, state) == worker[w].pc = "run" /\ worker[w].task[s].state = state

\* A goroutine returns; its error cancels the others as soon as it is seen.
Return(w, s, failed) ==
    worker' = [worker EXCEPT ![w].task[s].state = "done", ![w].failed = @ \/ failed]

Startable(w, s) ==
    Owns(w) /\ shard[s].status = "pending" /\ Len(calls[s]) < MaxAttempts

\* A goroutine that has seen no cancellation starts its shard and the call of it.
Start(w, s) ==
    /\ InTask(w, s, "todo")
    /\ \/ /\ ~worker[w].stopped /\ Startable(w, s)
          /\ shard' = [shard EXCEPT ![s] = [status |-> "running",
                                            current |-> Len(calls[s]) + 1]]
          /\ calls' = [calls EXCEPT ![s] =
                 Append(@, [status |-> "started", charge |-> ShardTokens])]
          /\ worker' = [worker EXCEPT ![w].task[s] =
                 [state |-> "calling", attempt |-> Len(calls[s]) + 1]]
       \/ /\ worker[w].stopped \/ worker[w].failed \/ ~Startable(w, s)
          /\ Return(w, s, TRUE)
          /\ UNCHANGED <<shard, calls>>
    /\ UNCHANGED <<lease, execution, spent, faults>>

\* The outcome of a call is written if the call is still the current one of its shard.
Current(w, s) ==
    /\ Owns(w) /\ execution.status = "running"
    /\ shard[s] = [status |-> "running", current |-> worker[w].task[s].attempt]

Outcome(s, status, charge) ==
    /\ shard' = [shard EXCEPT ![s].status = status]
    /\ calls' = [calls EXCEPT ![s] = Ended(s, status, charge)]

\* The call answers with a report, or with something that is not one, in both cases with
\* its usage; it fails without any; or it is cancelled.  A report that took more than was
\* reserved is refused and the shard fails.  A write that fails leaves all as it is.
Answer(w, s) ==
    /\ InTask(w, s, "calling")
    /\ \/ /\ Current(w, s) /\ UNCHANGED faults
          /\ \/ /\ \E u \in Usages : u <= ShardTokens /\ Outcome(s, "completed", u)
                /\ Return(w, s, FALSE)
             \/ /\ \E u \in Usages \cup {ShardTokens} : Outcome(s, "failed", u)
                /\ Return(w, s, TRUE)
             \/ /\ worker[w].stopped \/ worker[w].failed
                /\ Outcome(s, "cancelled", ShardTokens)
                /\ Return(w, s, TRUE)
       \/ /\ IF Current(w, s) THEN Fault ELSE UNCHANGED faults
          /\ Return(w, s, TRUE)
          /\ UNCHANGED <<shard, calls>>
    /\ UNCHANGED <<lease, execution, spent>>

\* When all have returned, an error or a cancellation cancels what is left.
Gather(w) ==
    /\ worker[w].pc = "run"
    /\ \A s \in Shards : worker[w].task[s].state \in {"none", "done"}
    /\ IF Owns(w) /\ (worker[w].failed \/ worker[w].stopped) THEN CancelRemainder
       ELSE UNCHANGED <<shard, calls>>
    /\ Goto(w, "finalize")
    /\ UNCHANGED <<lease, execution, spent, faults>>

\* readOnlyFanoutFinalStatus
FinalStatus(w) ==
    IF ShardsThat("completed") = Shards THEN "completed"
    ELSE IF worker[w].stopped /\ ShardsThat("failed") = {} THEN "cancelled" ELSE "failed"

Conclude(w) ==
    /\ worker[w].pc = "finalize" /\ Goto(w, "release")
    /\ IF Owns(w) /\ \A s \in Shards : shard[s].status \in Terminal
       THEN Finalize(FinalStatus(w))
       ELSE UNCHANGED execution
    /\ UNCHANGED <<lease, shard, calls, spent, faults>>

-----------------------------------------------------------------------------
(* The others *)

\* The process of a request dies; its lease lapses later.
Die(w) ==
    /\ worker[w].pc # "idle" /\ Fault
    /\ worker' = [worker EXCEPT ![w] = Idle]
    /\ UNCHANGED <<lease, execution, shard, calls, spent>>

\* A lease that is not renewed in time lapses, whether or not its holder is alive.
Lapse ==
    /\ lease.active
    /\ lease' = [lease EXCEPT !.active = FALSE]
    /\ UNCHANGED <<execution, shard, calls, spent, worker, faults>>

\* An Agent of the Run has a turn under a lease of its own.
Turn ==
    /\ ~lease.active /\ lease.generation < MaxGeneration /\ Usage < Budget
    /\ lease' = [lease EXCEPT !.generation = @ + 1]
    /\ spent' = spent + 1
    /\ UNCHANGED <<execution, shard, calls, worker, faults>>

\* An operator cancels the execution: under a lease that is not the one that owns it, so
\* the fence refuses the cancellation and only the lease has changed hands.
Cancel ==
    /\ ~lease.active /\ lease.generation < MaxGeneration /\ execution.status = "running"
    /\ lease' = [lease EXCEPT !.generation = @ + 1]
    /\ UNCHANGED <<execution, shard, calls, spent, worker, faults>>

Next ==
    \/ \E w \in Workers :
           \/ Ask(w) \/ Acquire(w) \/ Recover(w) \/ Verify(w) \/ Create(w) \/ Drop(w)
           \/ FailDropped(w) \/ Gather(w) \/ Conclude(w) \/ Interrupt(w) \/ Release(w)
           \/ Die(w)
           \/ \E s \in Shards : Start(w, s) \/ Answer(w, s)
    \/ Lapse \/ Turn \/ Cancel

Spec == Init /\ [][Next]_vars

-----------------------------------------------------------------------------
(* Properties *)

\* The list of plans can show the latest execution of each: the summary of an execution
\* is valid in every state.  It is not when a shard was reset, and stays so when that shard
\* is cancelled: attempts are counted that the summary has no place for.
SummaryIsReadable ==
    execution.status # "none" =>
        \A s \in Shards :
            /\ shard[s].status = "pending" => calls[s] = <<>>
            /\ shard[s].status = "cancelled" => shard[s].current = Len(calls[s])
=============================================================================
