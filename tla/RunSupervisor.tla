---------------------------- MODULE RunSupervisor ----------------------------
(***************************************************************************)
(* The supervisor of one Run: workers take the Run's execution lease, turn *)
(* the durable checkpoint into a started turn, call a model, and commit or *)
(* fail the turn, while operators queue and withdraw steering messages and *)
(* move the Run through its life cycle, and while workers crash and lose   *)
(* their lease at any point.                                               *)
(*                                                                         *)
(* Every store operation is one SQLite transaction and hence one action;   *)
(* what a worker keeps in memory between transactions is its record in     *)
(* `worker`.  A refused operation changes nothing and is not a step; what  *)
(* the worker then does is one of Derail, Abandon or StopLoop.             *)
(***************************************************************************)
EXTENDS RunLifecycle, Naturals, Sequences, FiniteSets

CONSTANTS
    Workers,            \* processes that may execute the Run
    Modes,              \* how they do: a subset of AllModes
    Interactive,        \* run.Config.Interactive
    ClockMayStepBack,   \* may a lapsed lease become live again?
    MaxTurns,           \* run.Budget.MaxTurns
    MaxCalls,           \* policy.MaxAttempts: model calls per phase of a turn
    MaxToolRounds,      \* domain.MaxSupervisorToolRounds
    MaxPending,         \* domain.MaxPendingOperatorSteering
    MaxMessages,        \* bound: steering messages ever queued
    MaxAttempts,        \* bound: attempts ever started
    MaxGeneration       \* bound: leases ever granted

AllModes == {"step", "execute", "drain", "handoff", "finalize"}

ASSUME SupervisorConstants ==
    /\ Modes \subseteq AllModes
    /\ Interactive \in BOOLEAN
    /\ ClockMayStepBack \in BOOLEAN
    /\ {MaxTurns, MaxCalls, MaxPending, MaxMessages, MaxAttempts, MaxGeneration}
           \subseteq Nat \ {0}
    /\ MaxToolRounds \in Nat

VARIABLES
    runStatus,    \* runs.status
    generation,   \* run_execution_leases.generation
    authority,    \* whether that lease is live, lapsed or released
    ck,           \* the row of run_supervisor_checkpoints
    root,         \* status and active attempt of the root Agent
    message,      \* operator_steering_messages, by sequence
    delivery,     \* operator_steering_deliveries, by attempt
    attempts,     \* attempts started so far; they are numbered from 1
    call,         \* durable model events of the current attempt
    transcript,   \* the user messages of the Session, one per committed turn
    handoffs,     \* the handoff operations without a result, by what they selected
    worker        \* what each worker remembers

vars == <<runStatus, generation, authority, ck, root, message, delivery, attempts,
          call, transcript, handoffs, worker>>

leaseVars == <<generation, authority>>
turnVars  == <<ck, attempts, call, transcript>>
queueVars == <<message, delivery>>

Messages == 1 .. MaxMessages
Attempts == 1 .. MaxAttempts

\* Turn input: none, the text of a steering message, or any other text.
NoInput == 0
OwnText == MaxMessages + 1
Inputs  == 0 .. OwnText

Phases == {"idle", "waiting", "turn_started", "turn_failed", "run_completed", "run_failed"}

Checkpoint == [generation : 0 .. MaxGeneration, turn : 1 .. MaxTurns + 1, phase : Phases,
               attempt : 0 .. MaxAttempts, input : Inputs,
               repair : {"none", "pending", "exhausted"}]

Delivery == [message : 0 .. MaxMessages,
             status  : {"absent", "prepared", "superseded", "committed", "cancelled"}]

InTurn == {"binding", "prompting", "calling", "answered", "failing"}

Worker == [pc         : {"idle", "waiting", "waking", "holding", "reporting", "closing"}
                            \cup InTurn,
           mode       : {"none"} \cup Modes,
           generation : 0 .. MaxGeneration,
           turn       : 0 .. MaxTurns + 1,
           attempt    : 0 .. MaxAttempts,
           answer     : {"none", "continue", "wait", "finish"},
           sawPaused  : BOOLEAN,
           selection  : SUBSET Messages]

Idle == [pc |-> "idle", mode |-> "none", generation |-> 0, turn |-> 0, attempt |-> 0,
         answer |-> "none", sawPaused |-> FALSE, selection |-> {}]

\* An attempt that has called no model yet, and what is kept of an ended one.
NoCall == [event |-> "none", count |-> 0, rounds |-> 0]

TypeOK ==
    /\ runStatus \in RunStatuses
    /\ generation \in 0 .. MaxGeneration
    /\ authority \in {"live", "lapsed", "released"}
    /\ ck \in Checkpoint
    /\ root \in [status : AgentStatuses, attempt : 0 .. MaxAttempts]
    /\ message \in [Messages -> {"absent", "pending", "committed", "withdrawn", "closed"}]
    /\ delivery \in [Attempts -> Delivery]
    /\ attempts \in 0 .. MaxAttempts
    /\ call \in [event  : {"none", "started", "completed", "failed"},
                 count  : 0 .. MaxCalls,
                 rounds : 0 .. MaxToolRounds]
    /\ transcript \in Seq([turn : 1 .. MaxTurns, input : Inputs, message : 0 .. MaxMessages])
    /\ handoffs \in SUBSET SUBSET Messages
    /\ worker \in [Workers -> Worker]

Init ==
    /\ runStatus = "created"
    /\ generation = 0
    /\ authority = "released"
    /\ ck = [generation |-> 0, turn |-> 1, phase |-> "idle", attempt |-> 0,
             input |-> NoInput, repair |-> "none"]
    /\ root = [status |-> "ready", attempt |-> 0]
    /\ message = [m \in Messages |-> "absent"]
    /\ delivery = [a \in Attempts |-> [message |-> 0, status |-> "absent"]]
    /\ attempts = 0
    /\ call = NoCall
    /\ transcript = <<>>
    /\ handoffs = {}
    /\ worker = [w \in Workers |-> Idle]

-----------------------------------------------------------------------------
(* Reading the database.                                                   *)

\* Faulty: any live lease will do.
SomebodyHolds(w) == authority = "live"

Holds(w) == authority = "live" /\ worker[w].generation = generation

\* The fence of every operation on a started turn: the checkpoint was last
\* written under this worker's lease, which is live, and is still its turn.
HoldsCheckpoint(w) == Holds(w) /\ ck.generation = worker[w].generation

HoldsTurn(w) ==
    /\ HoldsCheckpoint(w)
    /\ ck.phase = "turn_started"
    /\ ck.turn = worker[w].turn
    /\ ck.attempt = worker[w].attempt

ActiveAttempt(w) == HoldsTurn(w) /\ runStatus = "running"

Pending == {m \in Messages : message[m] = "pending"}

\* The oldest message of a set, if it has one.
Oldest(set) == {m \in set : \A n \in set : m <= n}

\* The message whose delivery to attempt a is prepared; 0: none.
Prepared(a) ==
    IF a # 0 /\ delivery[a].status = "prepared" THEN delivery[a].message ELSE 0

-----------------------------------------------------------------------------
(* Writes that several operations share.                                   *)

\* Binds the root Agent to a projection of status and attempt.
SyncRoot(projection) ==
    /\ AgentCanTransition(root.status, projection.status)
    /\ root.status = "running" /\ projection.status = "running" =>
           root.attempt = projection.attempt
    /\ root' = projection

\* Faulty: the delivery in progress survives.
CloseMessages ==
    /\ message' = [m \in Messages |-> IF m \in Pending THEN "closed" ELSE message[m]]
    /\ UNCHANGED delivery

\* A failed or cancelled Run closes its queue in the same transaction.
CloseSteering ==
    IF Pending = {} THEN UNCHANGED queueVars
    ELSE /\ message' = [m \in Messages |-> IF m \in Pending THEN "closed" ELSE message[m]]
         /\ delivery' = [a \in Attempts |->
                IF delivery[a].status = "prepared"
                THEN [delivery[a] EXCEPT !.status = "cancelled"] ELSE delivery[a]]

\* Faulty: completion does not look at the queue.
SteeringFollowsFailure(s) ==
    IF s \in {"failed", "cancelled"} THEN CloseSteering ELSE UNCHANGED queueVars

\* The queue's part of moving the Run to status s.
SteeringFollows(s) ==
    /\ s = "completed" => Pending = {}
    /\ IF s \in {"failed", "cancelled"} THEN CloseSteering ELSE UNCHANGED queueVars

\* Faulty: the message stays in the queue.
CommitDelivery(m) ==
    /\ delivery' = IF m = 0 THEN delivery
                   ELSE [delivery EXCEPT ![ck.attempt].status = "committed"]
    /\ UNCHANGED message

\* The queue's part of completing a turn that answers message m; 0: none.
CommitSteering(m) ==
    IF m = 0 THEN UNCHANGED queueVars
    ELSE /\ message' = [message EXCEPT ![m] = "committed"]
         /\ delivery' = [delivery EXCEPT ![ck.attempt].status = "committed"]

\* The worker moves on to pc and forgets the turn it was in.
Goto(w, pc) ==
    worker' = [worker EXCEPT ![w] = [@ EXCEPT !.pc = pc, !.turn = 0, !.attempt = 0,
                                              !.answer = "none"]]

\* As Goto, within a turn.
Stage(w, pc) == worker' = [worker EXCEPT ![w] = [@ EXCEPT !.pc = pc]]

\* Where a worker goes when its loop ends.
LoopEnd(w) == IF worker[w].mode = "handoff" THEN "reporting" ELSE "closing"

-----------------------------------------------------------------------------
(* The lease, as withRunExecutionLease uses it, in the terms of            *)
(* FencedLease.  Its row, clock and heartbeat are RunExecutionLease's.     *)

Enter(w, mode, pc) ==
    /\ ~Terminal(runStatus)
    /\ generation < MaxGeneration
    /\ authority # "live"
    /\ generation' = generation + 1
    /\ authority' = "live"
    /\ worker' = [worker EXCEPT ![w] = [@ EXCEPT !.mode = mode, !.pc = pc,
                                                 !.generation = generation']]
    /\ UNCHANGED <<runStatus, ck, root, message, delivery, attempts, call, transcript, handoffs>>

Acquire(w) ==
    /\ worker[w].pc = "idle"
    /\ \E mode \in Modes \cap {"step", "execute", "finalize"} : Enter(w, mode, "holding")

\* Drain and handoff look at the database before they ask for the lease.
AcquireAfterReading(w) ==
    /\ worker[w].pc = "waiting"
    /\ Enter(w, worker[w].mode, IF worker[w].sawPaused THEN "waking" ELSE "holding")

Release(w) ==
    /\ worker[w].pc = "closing"
    /\ worker[w].generation = generation
    /\ authority # "released"
    /\ authority' = "released"
    /\ worker' = [worker EXCEPT ![w] = Idle]
    /\ UNCHANGED <<runStatus, generation, ck, root, message, delivery, attempts, call, transcript,
                   handoffs>>

Vanish(w) ==
    /\ worker' = [worker EXCEPT ![w] = Idle]
    /\ UNCHANGED <<runStatus, generation, authority, ck, root, message, delivery, attempts,
                   call, transcript, handoffs>>

\* A worker that cannot get the lease, or cannot give it back, returns all the
\* same; so does a process that dies anywhere, with its memory gone and the lease
\* as it was.
Return(w) ==
    /\ worker[w].pc \in {"waiting", "closing"}
    /\ Vanish(w)

Crash(w) ==
    /\ worker[w].pc \notin {"idle", "waiting", "closing"}
    /\ Vanish(w)

LeaseTime ==
    /\ \/ authority = "live" /\ authority' = "lapsed"
       \/ authority = "lapsed" /\ authority' = "live" /\ ClockMayStepBack
    /\ UNCHANGED <<runStatus, generation, ck, root, message, delivery, attempts, call, transcript,
                   handoffs, worker>>

-----------------------------------------------------------------------------
(* Beginning a turn: beginSupervisorTurn.                                  *)

\* What a worker's call of it asks for: the input it brings, whether it must be
\* steering, and the one message it must be (0: any).
BeginRequests(w) ==
    LET selected == worker[w].selection \cap Pending
    IN  CASE worker[w].mode = "step" ->
                 [input : {NoInput, OwnText, ck.input}, steering : {FALSE}, required : {0}]
          [] worker[w].mode = "execute" ->
                 [input : {NoInput}, steering : {FALSE}, required : {0}]
          [] worker[w].mode = "drain" ->
                 [input : {NoInput}, steering : {TRUE}, required : {0}]
          [] worker[w].mode = "handoff" ->
                 [input : {NoInput}, steering : {TRUE}, required : Oldest(selected)]
          [] OTHER -> {}

\* Faulty: the lease is not looked at again.
BeginUnfenced(w) ==
    /\ worker[w].pc = "holding"
    /\ runStatus = "running"

BeginGuard(w) ==
    /\ worker[w].pc = "holding"
    /\ Holds(w)
    /\ runStatus = "running"

EnterTurn(w) ==
    worker' = [worker EXCEPT ![w] =
        [@ EXCEPT !.pc = IF ck'.input = NoInput THEN "binding" ELSE "prompting",
                  !.turn = ck'.turn, !.attempt = ck'.attempt]]

\* Faulty: whatever turn is started will do.
RecoverAnyTurn(r) == r.input \in {NoInput, ck.input} \/ ck.input = NoInput

\* Faulty: the new input wins.
RecoverWithNewInput(r) ==
    r.steering => Prepared(ck.attempt) # 0 /\ r.required \in {0, Prepared(ck.attempt)}

\* May request r go on with the started turn?
MayRecover(r) ==
    /\ r.steering => Prepared(ck.attempt) # 0 /\ r.required \in {0, Prepared(ck.attempt)}
    /\ r.input \in {NoInput, ck.input} \/ ck.input = NoInput

\* A started turn survives its worker: the next one rebinds it to its own lease
\* and goes on with the same attempt, input and model events.
RecoverTurn(w) ==
    /\ BeginGuard(w)
    /\ ck.phase = "turn_started"
    /\ \E r \in BeginRequests(w) :
          /\ MayRecover(r)
          /\ ck' = [ck EXCEPT !.generation = worker[w].generation,
                              !.input = IF r.input = NoInput THEN @ ELSE r.input]
    /\ SyncRoot([status |-> "running", attempt |-> ck.attempt])
    /\ EnterTurn(w)
    /\ UNCHANGED <<runStatus, generation, authority, message, delivery, attempts, call,
                   transcript, handoffs>>

\* The message whose delivery failed with the last turn; 0: none.
FailedMessage == IF ck.phase = "turn_failed" THEN Prepared(ck.attempt) ELSE 0

\* Faulty: the failed delivery stays prepared.
Untouched == delivery

\* The deliveries once the failed one is superseded.
Superseded ==
    IF FailedMessage = 0 THEN delivery
    ELSE [delivery EXCEPT ![ck.attempt].status = "superseded"]

\* Faulty: what failed is forgotten.
RequestedInput(r) == r.input

\* The input of a new attempt before the queue is asked for one: that of a failed
\* turn is taken up unless the request brings its own.
InputFor(r) == IF ck.phase = "turn_failed" /\ r.input = NoInput THEN ck.input ELSE r.input

\* The messages no delivery is prepared for, or the preferred one of them.
Eligible(preferred) ==
    {m \in Pending : /\ preferred \in {0, m}
                     /\ \A a \in Attempts :
                          Superseded[a] # [message |-> m, status |-> "prepared"]}

\* Faulty: the latest message goes first.
NewestEligible(preferred) ==
    {m \in Eligible(preferred) : \A n \in Eligible(preferred) : n <= m}

\* The message that goes first; none if nothing is eligible.
NextSteering(preferred) == Oldest(Eligible(preferred))

\* A new attempt, with an input, with a message of the queue, or with neither.
StartTurn(w) ==
    /\ BeginGuard(w)
    /\ ck.phase \in {"idle", "waiting", "turn_failed"}
    /\ ck.turn <= MaxTurns
    /\ attempts < MaxAttempts
    /\ attempts' = attempts + 1
    /\ \E r \in BeginRequests(w) :
          LET preferred  == IF r.required # 0 THEN r.required ELSE FailedMessage
              selects    == \/ InputFor(r) = NoInput
                            \/ preferred # 0 /\ InputFor(r) = InputFor([r EXCEPT !.input = NoInput])
              candidates == IF selects THEN NextSteering(preferred) ELSE {}
          IN  \E chosen \in IF candidates = {} THEN {0} ELSE candidates :
              /\ r.required # 0 => FailedMessage \in {0, r.required}
              /\ preferred # 0 /\ selects => chosen # 0
              /\ r.steering => chosen # 0
              /\ ck' = [ck EXCEPT !.generation = worker[w].generation, !.phase = "turn_started",
                                  !.attempt = attempts', !.repair = "none",
                                  !.input = IF chosen # 0 THEN chosen ELSE InputFor(r)]
              /\ delivery' = IF chosen = 0 THEN Superseded
                             ELSE [Superseded EXCEPT ![attempts'] =
                                      [message |-> chosen, status |-> "prepared"]]
    /\ call' = NoCall
    /\ SyncRoot([status |-> "running", attempt |-> attempts'])
    /\ EnterTurn(w)
    /\ UNCHANGED <<runStatus, generation, authority, message, transcript, handoffs>>

\* A turn nobody gave an input runs on the mission's goal.
BindInput(w) ==
    /\ worker[w].pc = "binding"
    /\ HoldsTurn(w)
    /\ ck.input \in {NoInput, OwnText}
    /\ ck' = [ck EXCEPT !.input = OwnText]
    /\ Stage(w, "prompting")
    /\ UNCHANGED <<runStatus, generation, authority, root, message, delivery, attempts, call,
                   transcript, handoffs>>

-----------------------------------------------------------------------------
(* The model calls of a turn.                                              *)

\* Faulty: one call too many.
CallsNotOver == call.count <= MaxCalls

CallsLeft == call.count < MaxCalls

StartCall(w) ==
    /\ worker[w].pc = "prompting"
    /\ ActiveAttempt(w)
    /\ ck.repair # "exhausted"
    /\ CallsLeft
    /\ call' = [call EXCEPT !.event = "started", !.count = @ + 1]
    /\ Stage(w, "calling")
    /\ UNCHANGED <<runStatus, generation, authority, ck, root, message, delivery, attempts,
                   transcript, handoffs>>

\* The terminal event of a call that is still the open one.
EndCall(w) ==
    /\ worker[w].pc = "calling"
    /\ ActiveAttempt(w)
    /\ call.event = "started"
    /\ UNCHANGED <<runStatus, generation, authority, root, message, delivery, attempts,
                   transcript, handoffs>>

\* The model decides the turn; whether finish is open to it is decided later.
CallCompletes(w) ==
    /\ EndCall(w)
    /\ call' = [call EXCEPT !.event = "completed"]
    /\ \E answer \in {"continue", "wait", "finish"} :
          worker' = [worker EXCEPT ![w] = [@ EXCEPT !.pc = "answered", !.answer = answer]]
    /\ UNCHANGED ck

\* The model asks for tools; they run, and the next call is of a new round.
CallRequestsTools(w) ==
    /\ EndCall(w)
    /\ ck.repair = "none"
    /\ call.rounds < MaxToolRounds
    /\ call' = [event |-> "completed", count |-> 0, rounds |-> call.rounds + 1]
    /\ Stage(w, "prompting")
    /\ UNCHANGED ck

CallFails(w) ==
    /\ EndCall(w)
    /\ call' = [call EXCEPT !.event = "failed"]
    /\ \/ CallsLeft /\ Stage(w, "prompting")
       \/ Stage(w, "failing")
    /\ UNCHANGED ck

\* Faulty: the repair is repaired.
CallIsRepaired(w) ==
    /\ EndCall(w)
    /\ ck' = [ck EXCEPT !.repair = "pending"]
    /\ call' = [call EXCEPT !.event = "failed", !.count = 0]
    /\ Stage(w, "prompting")

\* An answer that breaks the protocol is repaired once per attempt.
CallBreaksProtocol(w) ==
    /\ EndCall(w)
    /\ \/ /\ ck.repair = "none"
          /\ ck' = [ck EXCEPT !.repair = "pending"]
          /\ call' = [call EXCEPT !.event = "failed", !.count = 0]
          /\ Stage(w, "prompting")
       \/ /\ ck.repair = "pending"
          /\ ck' = [ck EXCEPT !.repair = "exhausted"]
          /\ call' = [call EXCEPT !.event = "failed"]
          /\ Stage(w, "failing")

\* Something before, between or after the calls goes wrong: a context that
\* cannot be prepared, a budget or call limit, a store error, a policy denial.
Derail(w) ==
    /\ worker[w].pc \in {"binding", "prompting", "calling", "answered"}
    /\ Stage(w, "failing")
    /\ UNCHANGED <<runStatus, generation, authority, ck, root, message, delivery, attempts,
                   call, transcript, handoffs>>

\* A cancelled context, a conflict, and any error of the operations that end a
\* turn are returned as they are: the turn stays as the database has it.
Abandon(w) ==
    /\ worker[w].pc \in InTurn
    /\ Goto(w, LoopEnd(w))
    /\ UNCHANGED <<runStatus, generation, authority, ck, root, message, delivery, attempts,
                   call, transcript, handoffs>>

-----------------------------------------------------------------------------
(* Ending a turn.                                                          *)

\* What becomes of the answer: an interactive Run does not finish on a steered
\* turn, steering that waits defers finish and wait, and a Run that makes no
\* progress is made to wait.
Effective(answer, m, stalled) ==
    LET softened == IF answer = "finish" /\ Interactive /\ m # 0 THEN "continue" ELSE answer
    IN  CASE softened # "continue" /\ Pending \ {m} # {} -> "continue"
          [] stalled /\ answer = "continue"               -> "wait"
          [] OTHER                                        -> softened

\* The turn's messages, its delivery, the checkpoint, the Run and the root Agent
\* change in one transaction.
CompleteTurn(w) ==
    LET m == Prepared(ck.attempt)
    IN  /\ worker[w].pc = "answered"
        /\ ActiveAttempt(w)
        /\ root = [status |-> "running", attempt |-> ck.attempt]
        /\ ck.repair # "exhausted"
        /\ call.event = "completed"
        /\ ck.input # NoInput
        /\ m # 0 => message[m] = "pending" /\ ck.input = m
        /\ \E stalled \in BOOLEAN :
              LET action == Effective(worker[w].answer, m, stalled)
                  ended  == CASE action = "finish" -> <<"completed", "run_completed", "completed">>
                              [] action = "wait"   -> <<"paused", "waiting", "waiting">>
                              [] OTHER             -> <<"running", "idle", "ready">>
              IN  /\ action = "finish" => Pending \subseteq {m}
                  /\ runStatus' = ended[1]
                  /\ ck' = [ck EXCEPT !.turn = @ + 1, !.phase = ended[2], !.attempt = 0,
                                      !.input = NoInput, !.repair = "none"]
                  /\ SyncRoot([status |-> ended[3], attempt |-> 0])
                  /\ Goto(w, IF worker[w].mode = "step" \/ action # "continue"
                             THEN LoopEnd(w) ELSE "holding")
        /\ transcript' = Append(transcript, [turn |-> ck.turn, input |-> ck.input, message |-> m])
        /\ CommitSteering(m)
        /\ call' = NoCall
        /\ UNCHANGED <<generation, authority, attempts, handoffs>>

\* The failed turn keeps its number, its attempt, its input and its delivery.
FailTurn(w) ==
    /\ worker[w].pc = "failing"
    /\ HoldsTurn(w)
    /\ runStatus = "running" => root = [status |-> "running", attempt |-> ck.attempt]
    /\ ck' = [ck EXCEPT !.phase = "turn_failed", !.repair = "none"]
    /\ SyncRoot(RootProjection(runStatus, "turn_failed", ck.attempt))
    /\ call' = NoCall
    /\ Goto(w, LoopEnd(w))
    /\ UNCHANGED <<runStatus, generation, authority, message, delivery, attempts, transcript,
                   handoffs>>

\* The step limit, a Run that is no longer running, an empty queue, or a turn
\* that could not begin.
StopLoop(w) ==
    /\ worker[w].pc = "holding"
    /\ Goto(w, LoopEnd(w))
    /\ UNCHANGED <<runStatus, generation, authority, ck, root, message, delivery, attempts,
                   call, transcript, handoffs>>

Finalize(w, target) ==
    /\ worker[w].pc = "holding"
    /\ worker[w].mode = "finalize"
    /\ Holds(w)
    /\ runStatus # target
    /\ CanTransition(runStatus, target)
    /\ ck.phase # "turn_started"
    /\ target = "completed" => ck.phase = "idle" /\ runStatus = "running"
    /\ SteeringFollows(target)
    /\ runStatus' = target
    /\ ck' = [ck EXCEPT !.generation = generation, !.attempt = 0, !.input = NoInput,
                        !.repair = "none",
                        !.phase = IF target = "completed" THEN "run_completed" ELSE "run_failed"]
    /\ SyncRoot([status |-> target, attempt |-> 0])
    /\ Goto(w, "closing")
    /\ UNCHANGED <<generation, authority, attempts, call, transcript, handoffs>>

-----------------------------------------------------------------------------
(* Draining the queue, and handing part of it to a worker.                 *)

\* Drain decides whether to wake the Run before it has the lease.
DrainReads(w) ==
    /\ "drain" \in Modes
    /\ worker[w].pc = "idle"
    /\ runStatus \in {"running", "paused"}
    /\ Pending # {}
    /\ worker' = [worker EXCEPT ![w] = [@ EXCEPT !.pc = "waiting", !.mode = "drain",
                                                 !.sawPaused = (runStatus = "paused")]]
    /\ UNCHANGED <<runStatus, generation, authority, ck, root, message, delivery, attempts,
                   call, transcript, handoffs>>

\* RunService.Resume, under the drain's lease but without its fence.
DrainWakes(w) ==
    /\ worker[w].pc = "waking"
    /\ \/ /\ runStatus # "running"
          /\ CanTransition(runStatus, "running")
          /\ runStatus' = "running"
          /\ SyncRoot(RootProjection("running", ck.phase, ck.attempt))
          /\ Goto(w, "holding")
       \/ /\ runStatus = "running"
          /\ Goto(w, "holding")
          /\ UNCHANGED <<runStatus, root>>
       \/ /\ Goto(w, "closing")
          /\ UNCHANGED <<runStatus, root>>
    /\ UNCHANGED <<generation, authority, ck, message, delivery, attempts, call, transcript,
                   handoffs>>

\* The selection is the front of the queue.  Two operations that select the same
\* messages are one here.
HandoffPrepare(w) ==
    /\ "handoff" \in Modes
    /\ worker[w].pc = "idle"
    /\ runStatus = "running"
    /\ authority # "live"
    /\ \E limit \in Pending :
          LET selection == {m \in Pending : m <= limit}
          IN  /\ handoffs' = handoffs \cup {selection}
              /\ worker' = [worker EXCEPT ![w] = [@ EXCEPT !.pc = "waiting", !.mode = "handoff",
                                                           !.selection = selection]]
    /\ UNCHANGED <<runStatus, generation, authority, ck, root, message, delivery, attempts,
                   call, transcript>>

\* The same operation again, after a crash or beside its first caller.
HandoffRetry(w) ==
    /\ "handoff" \in Modes
    /\ worker[w].pc = "idle"
    /\ \E selection \in handoffs :
          worker' = [worker EXCEPT ![w] = [@ EXCEPT !.pc = "waiting", !.mode = "handoff",
                                                    !.selection = selection]]
    /\ UNCHANGED <<runStatus, generation, authority, ck, root, message, delivery, attempts,
                   call, transcript, handoffs>>

\* The operation's one result, written under the lease; or its result is there
\* already, or the lease is not, and the worker only returns.
ReportHandoff(w) ==
    /\ worker[w].pc = "reporting"
    /\ \/ /\ Holds(w)
          /\ worker[w].selection \in handoffs
          /\ handoffs' = handoffs \ {worker[w].selection}
       \/ /\ ~Holds(w) \/ worker[w].selection \notin handoffs
          /\ UNCHANGED handoffs
    /\ Goto(w, "closing")
    /\ UNCHANGED <<runStatus, generation, authority, ck, root, message, delivery, attempts,
                   call, transcript>>

-----------------------------------------------------------------------------
(* The operator.                                                           *)

\* Faulty: the root Agent is left as it was.
MoveRunAlone(to) ==
    /\ CanTransition(runStatus, to)
    /\ runStatus' = to
    /\ UNCHANGED root

MoveRun(to) ==
    /\ CanTransition(runStatus, to)
    /\ runStatus' = to
    /\ SyncRoot(RootProjection(to, ck.phase, ck.attempt))

\* RunService: whatever the life cycle allows, whoever executes the Run.
TransitionRun(to) ==
    /\ to # runStatus
    /\ MoveRun(to)
    /\ SteeringFollows(to)
    /\ UNCHANGED <<generation, authority, ck, attempts, call, transcript, handoffs, worker>>

\* A Run lifecycle operation: start, pause or resume a Run nobody executes, and
\* pause it only between turns.
LifecycleOperation ==
    /\ authority # "live"
    /\ \/ runStatus = "created" /\ runStatus' = "running"
             /\ SyncRoot(RootProjection("running", ck.phase, ck.attempt))
       \/ /\ runStatus = "running"
          /\ root.status # "running"
          /\ ck.phase # "turn_started"
          /\ \A a \in Attempts : delivery[a].status # "prepared"
          /\ MoveRun("paused")
       \/ runStatus = "paused" /\ MoveRun("running")
    /\ UNCHANGED <<generation, authority, ck, message, delivery, attempts, call, transcript,
                   handoffs, worker>>

Enqueue ==
    /\ runStatus \in {"running", "paused"}
    /\ Cardinality(Pending) < MaxPending
    /\ \E m \in Messages :
          /\ \A n \in Messages : message[n] = "absent" <=> m <= n
          /\ message' = [message EXCEPT ![m] = "pending"]
    /\ UNCHANGED <<runStatus, generation, authority, ck, root, delivery, attempts, call,
                   transcript, handoffs, worker>>

Withdraw(m) ==
    /\ runStatus \in {"running", "paused"}
    /\ message[m] = "pending"
    /\ \A a \in Attempts : Prepared(a) # m
    /\ message' = [message EXCEPT ![m] = "withdrawn"]
    /\ UNCHANGED <<runStatus, generation, authority, ck, root, delivery, attempts, call,
                   transcript, handoffs, worker>>

-----------------------------------------------------------------------------

\* What a worker that has something to do does next.
Progress(w) ==
    \/ AcquireAfterReading(w) \/ Release(w) \/ Return(w)
    \/ RecoverTurn(w) \/ StartTurn(w) \/ BindInput(w)
    \/ StartCall(w) \/ CallCompletes(w) \/ CallRequestsTools(w)
    \/ CallFails(w) \/ CallBreaksProtocol(w)
    \/ CompleteTurn(w) \/ FailTurn(w) \/ Derail(w) \/ Abandon(w)
    \/ StopLoop(w) \/ Finalize(w, "completed") \/ Finalize(w, "failed")
    \/ DrainWakes(w) \/ ReportHandoff(w)

\* What only happens if somebody asks for it, or something breaks.
Arrival(w) ==
    Acquire(w) \/ DrainReads(w) \/ HandoffPrepare(w) \/ HandoffRetry(w) \/ Crash(w)

Operator ==
    \/ \E to \in {"preparing", "running", "paused", "completed", "failed", "cancelled"} :
           TransitionRun(to)
    \/ LifecycleOperation
    \/ Enqueue
    \/ \E m \in Messages : Withdraw(m)

Next ==
    \/ \E w \in Workers : Progress(w) \/ Arrival(w)
    \/ Operator
    \/ LeaseTime

Spec == Init /\ [][Next]_vars

\* A live process goes on with what it is doing; nobody has to ask for anything,
\* and no process has to crash.
FairSpec == Spec /\ \A w \in Workers : WF_vars(Progress(w))

-----------------------------------------------------------------------------
(* Properties.                                                             *)

\* The root Agent is executing exactly while the Run is running and its
\* checkpoint has a started turn, and then that very attempt: three tables that
\* a dozen transactions write agree after each of them.
AgentMirrorsTurn == root = RootProjection(runStatus, ck.phase, ck.attempt)

\* At most one delivery is prepared, for the attempt of a started or failed turn
\* whose input is the delivered message, which still waits for its answer and is
\* the oldest that does (ADR 0005): no crash, retry, takeover, hand-picked
\* message or pause in between separates the four.
PreparedIsBound ==
    \A a \in Attempts : delivery[a].status = "prepared" =>
        /\ a = ck.attempt
        /\ ck.phase \in {"turn_started", "turn_failed"}
        /\ ck.input = delivery[a].message
        /\ delivery[a].message \in Pending
        /\ delivery[a].message \in Oldest(Pending)

\* The Session holds one user message per completed turn, in turn order, and a
\* steering message is committed exactly if one of those is it: none is
\* answered twice by two attempts, or marked answered without having been.
TurnsAnswerOnce ==
    /\ Len(transcript) = ck.turn - 1
    /\ \A i \in DOMAIN transcript : transcript[i].turn = i
    /\ \A m \in Messages :
          LET answers    == {i \in DOMAIN transcript : transcript[i].message = m}
              deliveries == {a \in Attempts : delivery[a] = [message |-> m,
                                                            status  |-> "committed"]}
          IN  /\ Cardinality(answers) = IF message[m] = "committed" THEN 1 ELSE 0
              /\ Cardinality(deliveries) = Cardinality(answers)
              /\ \A i \in answers : transcript[i].input = m

\* A Run that has ended leaves nobody waiting, and one that completed never did so
\* by discarding what an operator had queued.
EndedRunsOweNothing ==
    Terminal(runStatus) =>
        /\ Pending = {}
        /\ \A a \in Attempts : delivery[a].status # "prepared"
        /\ runStatus = "completed" => \A m \in Messages : message[m] # "closed"

\* Whoever takes a started turn over takes it as it is: until it is completed or
\* failed, its number and attempt stay, and so does its input once it has one.
StartedTurnIsKept ==
    [][ck.phase = "turn_started" /\ ck'.phase = "turn_started" =>
           /\ ck'.turn = ck.turn
           /\ ck'.attempt = ck.attempt
           /\ ck.input \in {NoInput, ck'.input}]_vars

\* The checkpoint is a document written under the fence of the lease.
Lease == INSTANCE FencedLease WITH written <- ck.generation

CheckpointIsFenced == Lease!FencedSpec

\* The input of a failed turn comes back with the next attempt, unless an operator
\* gives the turn another text or hands a message over that is to be next.
FailedInputSurvives ==
    [][ck.phase = "turn_failed" /\ ck.input # NoInput /\ ck'.phase = "turn_started" =>
           \/ ck'.input = ck.input
           \/ \E w \in Workers : worker[w].mode \in {"step", "handoff"} /\ worker'[w] # worker[w]]_vars

\* Draining the queue completes only turns that answer the queue, and a handed
\* over selection only turns that answer the selection (ADR 0006, ADR 0038): no
\* turn that somebody else started or failed is completed in their stead.
SteeringStaysSteering ==
    [][\A w \in Workers :
          worker[w].mode \in {"drain", "handoff"} /\ worker'[w] # worker[w]
              /\ Len(transcript') > Len(transcript) =>
              LET m == transcript'[Len(transcript')].message
              IN  /\ m # 0
                  /\ worker[w].mode = "handoff" => m \in worker[w].selection]_vars

\* A worker that lost its lease, however late it wakes up, changes neither the
\* checkpoint nor the Session nor a delivery of the attempt it was executing.
OutdatedWorkersAreFenced ==
    [][\A w \in Workers :
          worker'[w] # worker[w] /\ worker[w].generation # generation
              /\ generation' = generation =>
              UNCHANGED <<ck, transcript, delivery, call>>]_vars

\* The steering messages that a transcript answers, in the order of its turns.
Answered(turns) ==
    LET upTo[n \in 0 .. Len(turns)] ==
            IF n = 0 THEN <<>>
            ELSE IF turns[n].message = 0 THEN upTo[n - 1]
            ELSE Append(upTo[n - 1], turns[n].message)
    IN  upTo[Len(turns)]

\* The operator's view of all this is a queue served in order, one message at a
\* time, with at most one answer each.
Queue == INSTANCE SteeringQueue WITH
    given    <- Cardinality({m \in Messages : message[m] # "absent"}),
    waiting  <- Pending \ {Prepared(ck.attempt)},
    taken    <- Prepared(ck.attempt),
    answered <- Answered(transcript)

ImplementsSteeringQueue == Queue!QueueSpec

\* A worker always gets out of what it started: neither retries, nor tool rounds,
\* nor the repair of answers, nor losing the lease keep it in a turn for ever.
WorkersReturn == \A w \in Workers : worker[w].pc # "idle" ~> worker[w].pc = "idle"

\* ADR 0006 of drain: "An empty queue does not wake" a paused Run.
EmptyQueueDoesNotWake ==
    [][\A w \in Workers :
          worker[w].pc = "waking" /\ worker'[w].pc = "holding" /\ runStatus = "paused" =>
              Pending # {}]_vars
=============================================================================
