------------------------------ MODULE ToolRounds ------------------------------
(***************************************************************************)
(* The structured tool calls of a root turn.  A model answers with a batch *)
(* of calls, which is stored with the answer; the worker charges, executes *)
(* and records them one by one, and calls the model again with their       *)
(* results, until it answers with an action.  Between any two of these     *)
(* transactions the worker may die, lose its lease, or find the Run paused *)
(* or ended, and another worker goes on with what is stored.               *)
(*                                                                         *)
(* What a call does is to create an entity (a work item, a note, a         *)
(* proposal) once under the operation key of its intent.                   *)
(***************************************************************************)
EXTENDS ToolRoundPromises

CONSTANTS
    Workers,         \* processes that may execute the Run
    Intents,         \* tool and canonical arguments of a call
    MaxCalls,        \* domain.MaxSupervisorToolCallsPerRound
    MaxRounds,       \* domain.MaxSupervisorToolRounds
    MaxTurns,        \* run.Budget.MaxTurns
    MaxToolCalls,    \* run.Budget.MaxToolCalls
    MaxAttempts,     \* bound: attempts ever started
    MaxGeneration    \* bound: leases ever granted

ToolConstants ==
    {MaxCalls, MaxRounds, MaxTurns, MaxToolCalls, MaxAttempts, MaxGeneration}
        \subseteq Nat \ {0}

VARIABLES
    status,        \* runs.status
    generation,    \* run_execution_leases.generation
    authority,     \* whether that lease is live, lapsed or released
    ck,            \* the row of run_supervisor_checkpoints
    worker         \* what each worker remembers

vars == <<status, generation, authority, ck, attempts, consumed, entities, worker>>

leaseVars == <<generation, authority>>

Turns == 1 .. MaxTurns

Call == [intent : Intents, status : {"pending", "completed", "failed"}]

\* The place of a call: its round and its position.
Places == (1 .. MaxRounds) \X (1 .. MaxCalls)

Idle == [pc |-> "idle", generation |-> 0, attempt |-> 0, round |-> 0, todo |-> {},
         result |-> "none"]

TypeOK ==
    /\ status \in {"running", "paused", "ended"}
    /\ generation \in 0 .. MaxGeneration
    /\ authority \in {"live", "lapsed", "released"}
    /\ ck \in [generation : 0 .. MaxGeneration, turn : 1 .. MaxTurns + 1,
               phase : {"idle", "turn_started", "turn_failed"}, attempt : 0 .. MaxAttempts]
    /\ Len(attempts) <= MaxAttempts
    /\ \A a \in DOMAIN attempts :
           /\ attempts[a].turn \in Turns
           /\ attempts[a].answer \in {"none", "tools", "action"}
           /\ attempts[a].committed \in BOOLEAN
           /\ Len(attempts[a].rounds) <= MaxRounds
           /\ \A r \in DOMAIN attempts[a].rounds :
                  /\ attempts[a].rounds[r] \in Seq(Call)
                  /\ Len(attempts[a].rounds[r]) \in 1 .. MaxCalls
    /\ consumed \in 0 .. MaxToolCalls
    /\ entities \in [Turns \X Intents -> Nat]
    /\ \A w \in Workers :
           /\ worker[w].pc \in {"idle", "holding", "reading", "resuming", "executing",
                                "recording", "calling", "answered"}
           /\ worker[w].generation \in 0 .. MaxGeneration
           /\ worker[w].attempt \in 0 .. MaxAttempts
           /\ worker[w].round \in 0 .. MaxRounds
           /\ worker[w].todo \subseteq Places
           /\ worker[w].result \in {"none", "completed", "failed"}

Init ==
    /\ status = "running"
    /\ generation = 0
    /\ authority = "released"
    /\ ck = [generation |-> 0, turn |-> 1, phase |-> "idle", attempt |-> 0]
    /\ attempts = <<>>
    /\ consumed = 0
    /\ entities = [e \in Turns \X Intents |-> 0]
    /\ worker = [w \in Workers |-> Idle]

-----------------------------------------------------------------------------
(* Reading the database.                                                   *)

Holds(w) == authority = "live" /\ worker[w].generation = generation

\* The fence of every operation on the started attempt.
HoldsAttempt(w) ==
    /\ Holds(w)
    /\ ck.generation = worker[w].generation
    /\ ck.phase = "turn_started" /\ ck.attempt = worker[w].attempt
    /\ status = "running"

\* The unresolved calls of an attempt.
PendingOf(a) ==
    LET rounds == attempts[a].rounds
    IN  {c \in Places : /\ c[1] \in DOMAIN rounds /\ c[2] \in DOMAIN rounds[c[1]]
                        /\ rounds[c[1]][c[2]].status = "pending"}

\* They are resumed round by round, in the order of their positions.
First(todo) ==
    CHOOSE c \in todo : \A d \in todo : c[1] < d[1] \/ (c[1] = d[1] /\ c[2] <= d[2])

\* The operation key of a worker's current call is its turn and its intent, whatever
\* attempt and round it is of.
Key(w) ==
    LET a == attempts[worker[w].attempt]
        place == First(worker[w].todo)
    IN  <<a.turn, a.rounds[place[1]][place[2]].intent>>

\* Batches name no intent twice.
Batches == {b \in UNION {[1 .. n -> Intents] : n \in 1 .. MaxCalls} :
                \A i, j \in DOMAIN b : b[i] = b[j] => i = j}

-----------------------------------------------------------------------------
(* The lease and the turn.                                                 *)

Acquire(w) ==
    /\ worker[w].pc = "idle"
    /\ authority # "live" /\ generation < MaxGeneration
    /\ status # "ended"
    /\ generation' = generation + 1
    /\ authority' = "live"
    /\ worker' = [worker EXCEPT ![w] = [Idle EXCEPT !.pc = "holding",
                                                    !.generation = generation + 1]]
    /\ UNCHANGED <<status, ck, attempts, consumed, entities>>

\* A started turn is taken over with its attempt; an idle or failed one begins a new one.
BeginTurn(w) ==
    /\ worker[w].pc = "holding" /\ Holds(w)
    /\ status = "running" /\ ck.turn <= MaxTurns
    /\ \/ /\ ck.phase = "turn_started"
          /\ ck' = [ck EXCEPT !.generation = generation]
          /\ UNCHANGED attempts
       \/ /\ ck.phase # "turn_started" /\ Len(attempts) < MaxAttempts
          /\ ck' = [ck EXCEPT !.generation = generation, !.phase = "turn_started",
                              !.attempt = Len(attempts) + 1]
          /\ attempts' = Append(attempts, [turn |-> ck.turn, rounds |-> <<>>,
                                           answer |-> "none", committed |-> FALSE])
    /\ worker' = [worker EXCEPT ![w].pc = "reading", ![w].attempt = ck'.attempt]
    /\ UNCHANGED <<status, leaseVars, consumed, entities>>

\* An error of a call, a cancelled context, a fence: the turn stays started.
Leave(w) ==
    /\ worker[w].pc # "idle"
    /\ worker' = [worker EXCEPT ![w] = Idle]
    /\ authority' = IF Holds(w) THEN "released" ELSE authority
    /\ UNCHANGED <<status, generation, ck, attempts, consumed, entities>>

Crash(w) ==
    /\ worker[w].pc # "idle"
    /\ worker' = [worker EXCEPT ![w] = Idle]
    /\ UNCHANGED <<status, leaseVars, ck, attempts, consumed, entities>>

Lapse ==
    /\ authority = "live"
    /\ authority' = "lapsed"
    /\ UNCHANGED <<status, generation, ck, attempts, consumed, entities, worker>>

-----------------------------------------------------------------------------
(* One round.                                                              *)

\* Faulty: a worker reads the rounds of the turn it took over and calls the model,
\* without resuming them.
ReadOnly(w) ==
    /\ worker[w].pc = "reading"
    /\ worker' = [worker EXCEPT ![w].round = Len(attempts[worker[w].attempt].rounds),
                                ![w].pc = "calling"]
    /\ UNCHANGED <<status, leaseVars, ck, attempts, consumed, entities>>

\* The rounds are read; what is unresolved is resumed before the model is called.
ReadRounds(w) ==
    LET pending == PendingOf(worker[w].attempt)
    IN  /\ worker[w].pc = "reading"
        /\ worker' = [worker EXCEPT ![w].round = Len(attempts[worker[w].attempt].rounds),
                                    ![w].todo = pending,
                                    ![w].pc = IF pending = {} THEN "calling" ELSE "resuming"]
        /\ UNCHANGED <<status, leaseVars, ck, attempts, consumed, entities>>

\* Every execution is charged, also a repeated one.
Charge(w) ==
    /\ worker[w].pc = "resuming" /\ Holds(w)
    /\ status # "ended" /\ consumed < MaxToolCalls
    /\ consumed' = consumed + 1
    /\ worker' = [worker EXCEPT ![w].pc = "executing"]
    /\ UNCHANGED <<status, leaseVars, ck, attempts, entities>>

\* Faulty: each attempt of a turn has operation keys of its own.
CreatePerAttempt(w) ==
    /\ worker[w].pc = "executing" /\ Holds(w)
    /\ \/ /\ \E a \in DOMAIN attempts \ {worker[w].attempt} :
                 attempts[a].turn = attempts[worker[w].attempt].turn
          /\ status # "ended"
          /\ entities' = [entities EXCEPT ![Key(w)] = @ + 1]
       \/ /\ entities[Key(w)] = 0 /\ status # "ended"
          /\ entities' = [entities EXCEPT ![Key(w)] = 1]
    /\ worker' = [worker EXCEPT ![w].pc = "recording", ![w].result = "completed"]
    /\ UNCHANGED <<status, leaseVars, ck, attempts, consumed>>

\* The entity is created with its key, or found under it.  The time-out of the call may
\* pass although the transaction was committed.
CreateEntity(w) ==
    /\ worker[w].pc = "executing" /\ Holds(w)
    /\ \/ entities[Key(w)] > 0 /\ UNCHANGED entities
       \/ /\ entities[Key(w)] = 0 /\ status # "ended"
          /\ entities' = [entities EXCEPT ![Key(w)] = 1]
    /\ \E result \in {"completed", "failed"} :
           worker' = [worker EXCEPT ![w].pc = "recording", ![w].result = result]
    /\ UNCHANGED <<status, leaseVars, ck, attempts, consumed>>

\* A hook or the policy denies the call, or it meets an error that becomes its result: an
\* exhausted budget, invalid arguments, a conflict (also that of a lost lease), the
\* time-out.  It may have been charged by then.
RefuseCall(w) ==
    /\ worker[w].pc \in {"resuming", "executing"}
    /\ worker' = [worker EXCEPT ![w].pc = "recording", ![w].result = "failed"]
    /\ UNCHANGED <<status, leaseVars, ck, attempts, consumed, entities>>

\* The next call is resumed; after the last one the rounds are read again.
RecordResult(w) ==
    LET a == worker[w].attempt
        place == First(worker[w].todo)
        rest == worker[w].todo \ {place}
    IN  /\ worker[w].pc = "recording" /\ HoldsAttempt(w)
        /\ attempts[a].rounds[place[1]][place[2]].status = "pending"
        /\ attempts' = [attempts EXCEPT
               ![a].rounds[place[1]][place[2]].status = worker[w].result]
        /\ worker' = [worker EXCEPT
               ![w].todo = rest, ![w].result = "none",
               ![w].pc = IF rest = {} THEN "reading" ELSE "resuming"]
        /\ UNCHANGED <<status, leaseVars, ck, consumed, entities>>

-----------------------------------------------------------------------------
(* The model and the end of the turn.                                      *)

\* The answer, its usage and its batch of calls are one transaction.
AnswerTools(w) ==
    LET a == worker[w].attempt
    IN  /\ worker[w].pc = "calling" /\ HoldsAttempt(w)
        /\ worker[w].round < MaxRounds /\ worker[w].round = Len(attempts[a].rounds)
        /\ \E b \in Batches :
               attempts' = [attempts EXCEPT
                   ![a].answer = "tools",
                   ![a].rounds = Append(@, [p \in DOMAIN b |->
                                                [intent |-> b[p], status |-> "pending"]])]
        /\ worker' = [worker EXCEPT ![w].pc = "reading"]
        /\ UNCHANGED <<status, leaseVars, ck, consumed, entities>>

AnswerAction(w) ==
    /\ worker[w].pc = "calling" /\ HoldsAttempt(w)
    /\ attempts' = [attempts EXCEPT ![worker[w].attempt].answer = "action"]
    /\ worker' = [worker EXCEPT ![w].pc = "answered"]
    /\ UNCHANGED <<status, leaseVars, ck, consumed, entities>>

\* The turn is committed only when its calls are resolved and the model's last answer was
\* an action; a finish ends the Run.
CompleteTurn(w) ==
    LET a == worker[w].attempt
    IN  /\ worker[w].pc = "answered" /\ HoldsAttempt(w)
        /\ PendingOf(a) = {} /\ attempts[a].answer = "action"
        /\ attempts' = [attempts EXCEPT ![a].committed = TRUE]
        /\ ck' = [ck EXCEPT !.turn = @ + 1, !.phase = "idle", !.attempt = 0]
        /\ status' \in {"running", "paused", "ended"}
        /\ worker' = [worker EXCEPT ![w] = [Idle EXCEPT !.pc = "holding",
                                                        !.generation = generation]]
        /\ UNCHANGED <<leaseVars, consumed, entities>>

\* The rounds cannot be read, a stored answer cannot be paid for, the model fails for good,
\* or it asks for more rounds than there may be.
FailTurn(w) ==
    /\ worker[w].pc \in {"reading", "calling"} /\ HoldsAttempt(w)
    /\ ck' = [ck EXCEPT !.phase = "turn_failed", !.attempt = 0]
    /\ worker' = [worker EXCEPT ![w] = [Idle EXCEPT !.pc = "holding",
                                                    !.generation = generation]]
    /\ UNCHANGED <<status, leaseVars, attempts, consumed, entities>>

\* The operator moves the Run.
MoveRun ==
    /\ \/ status = "running" /\ status' \in {"paused", "ended"}
       \/ status = "paused" /\ status' \in {"running", "ended"}
    /\ UNCHANGED <<leaseVars, ck, attempts, consumed, entities, worker>>

-----------------------------------------------------------------------------
Next ==
    \/ \E w \in Workers :
          \/ Acquire(w) \/ BeginTurn(w) \/ Leave(w) \/ Crash(w)
          \/ ReadRounds(w) \/ Charge(w) \/ CreateEntity(w) \/ RefuseCall(w) \/ RecordResult(w)
          \/ AnswerTools(w) \/ AnswerAction(w) \/ CompleteTurn(w) \/ FailTurn(w)
    \/ Lapse \/ MoveRun

Spec == Init /\ [][Next]_vars
=============================================================================
