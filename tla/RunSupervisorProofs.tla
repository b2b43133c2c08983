------------------------- MODULE RunSupervisorProofs -------------------------
(***************************************************************************)
(* Theorems about RunSupervisor, for any number of workers, messages,      *)
(* attempts, turns and calls: types, the fences of the lease, the queue of *)
(* steering messages, and then the answers: which turns are committed, and *)
(* for which messages of the queue.                                        *)
(***************************************************************************)
EXTENDS RunSupervisor, FiniteSetTheorems, SequenceTheorems, TLAPS

(***************************************************************************)
(* Types.                                                                  *)
(***************************************************************************)

Places  == {"idle", "waiting", "waking", "holding", "reporting", "closing"} \cup InTurn
Answers == {"none", "continue", "wait", "finish"}
Repairs == {"none", "pending", "exhausted"}
ModesOrNone    == {"none"} \cup Modes
Generations    == 0 .. MaxGeneration
Turns          == 0 .. MaxTurns + 1
TurnNumbers    == 1 .. MaxTurns + 1
AttemptsOrNone == 0 .. MaxAttempts
CallEvents     == {"none", "started", "completed", "failed"}
CallCounts     == 0 .. MaxCalls
Rounds         == 0 .. MaxToolRounds
Calls          == [event : CallEvents, count : CallCounts, rounds : Rounds]
MessageStatuses  == {"absent", "pending", "committed", "withdrawn", "closed"}
DeliveryStatuses == {"absent", "prepared", "superseded", "committed", "cancelled"}

\* A turn is only started within the Run's budget.
StartedWithinBudget == ck.phase = "turn_started" => ck.turn <= MaxTurns

TypeInv == TypeOK /\ StartedWithinBudget

\* A worker's record, with the sets of its fields named.
LEMMA WorkerShape ==
    Worker = [pc : Places, mode : ModesOrNone, generation : Generations, turn : Turns,
              attempt : AttemptsOrNone, answer : Answers, sawPaused : BOOLEAN,
              selection : SUBSET Messages]
  BY DEF Worker, Places, Answers, ModesOrNone, Generations, Turns, AttemptsOrNone

LEMMA CheckpointShape ==
    Checkpoint = [generation : Generations, turn : TurnNumbers, phase : Phases,
                  attempt : AttemptsOrNone, input : Inputs, repair : Repairs]
  BY DEF Checkpoint, Generations, TurnNumbers, AttemptsOrNone, Repairs

LEMMA SmallValues ==
    0 \in Generations /\ 0 \in Turns /\ 0 \in AttemptsOrNone /\ NoInput \in Inputs
  BY SupervisorConstants DEF Generations, Turns, AttemptsOrNone, NoInput, Inputs, OwnText

\* What the updates that the actions make of a worker's record leave it.
LEMMA WorkerUpdates ==
    ASSUME NEW r \in Worker
    PROVE  /\ \A p \in Places : [r EXCEPT !.pc = p] \in Worker
           /\ \A p \in Places, n \in Answers : [r EXCEPT !.pc = p, !.answer = n] \in Worker
           /\ \A p \in Places, t \in Turns, a \in AttemptsOrNone :
                  [r EXCEPT !.pc = p, !.turn = t, !.attempt = a] \in Worker
           /\ \A p \in Places, t \in Turns, a \in AttemptsOrNone, n \in Answers :
                  [r EXCEPT !.pc = p, !.turn = t, !.attempt = a, !.answer = n] \in Worker
           /\ \A p \in Places, o \in ModesOrNone, g \in Generations :
                  [r EXCEPT !.mode = o, !.pc = p, !.generation = g] \in Worker
           /\ \A p \in Places, o \in ModesOrNone, b \in BOOLEAN :
                  [r EXCEPT !.pc = p, !.mode = o, !.sawPaused = b] \in Worker
           /\ \A p \in Places, o \in ModesOrNone, s \in SUBSET Messages :
                  [r EXCEPT !.pc = p, !.mode = o, !.selection = s] \in Worker
  BY WorkerShape

\* And those they make of the checkpoint.
LEMMA CheckpointUpdates ==
    ASSUME NEW c \in Checkpoint
    PROVE  /\ \A q \in Repairs : [c EXCEPT !.repair = q] \in Checkpoint
           /\ \A i \in Inputs : [c EXCEPT !.input = i] \in Checkpoint
           /\ \A g \in Generations, i \in Inputs :
                  [c EXCEPT !.generation = g, !.input = i] \in Checkpoint
           /\ \A p \in Phases, q \in Repairs :
                  [c EXCEPT !.phase = p, !.repair = q] \in Checkpoint
  BY CheckpointShape

\* And those they make of the record of an attempt's calls and of a delivery.
LEMMA CallUpdates ==
    ASSUME NEW c \in Calls
    PROVE  /\ \A e \in CallEvents : [c EXCEPT !.event = e] \in Calls
           /\ \A e \in CallEvents, n \in CallCounts :
                  [c EXCEPT !.event = e, !.count = n] \in Calls
  BY DEF Calls

LEMMA DeliveryUpdates ==
    ASSUME NEW d \in Delivery
    PROVE  \A s \in DeliveryStatuses : [d EXCEPT !.status = s] \in Delivery
  BY DEF Delivery, DeliveryStatuses

\* Writing one worker's record.
LEMMA WorkerWrite ==
    ASSUME worker \in [Workers -> Worker], NEW w \in Workers, NEW r \in Worker
    PROVE  [worker EXCEPT ![w] = r] \in [Workers -> Worker]
  OBVIOUS

LEMMA IdleType == Idle \in Worker
  BY SmallValues, WorkerShape DEF Idle, Places, Answers, ModesOrNone

\* The worker's record after Goto and Stage.
LEMMA GotoType ==
    ASSUME worker \in [Workers -> Worker], NEW w \in Workers, NEW p \in Places, Goto(w, p)
    PROVE  worker' \in [Workers -> Worker]
<1> DEFINE r == [worker[w] EXCEPT !.pc = p, !.turn = 0, !.attempt = 0, !.answer = "none"]
<1>1. r \in Worker
  <2>1. \A t \in Turns, a \in AttemptsOrNone, n \in Answers :
            [worker[w] EXCEPT !.pc = p, !.turn = t, !.attempt = a, !.answer = n] \in Worker
    BY WorkerUpdates, worker[w] \in Worker
  <2>2. "none" \in Answers
    BY DEF Answers
  <2> QED BY <2>1, <2>2, SmallValues, Zenon
<1>2. worker' = [worker EXCEPT ![w] = r]
  BY DEF Goto
<1> QED BY <1>1, <1>2, WorkerWrite

LEMMA StageType ==
    ASSUME worker \in [Workers -> Worker], NEW w \in Workers, NEW p \in Places, Stage(w, p)
    PROVE  worker' \in [Workers -> Worker]
<1> DEFINE r == [worker[w] EXCEPT !.pc = p]
<1>1. r \in Worker
  BY WorkerUpdates, worker[w] \in Worker
<1>2. worker' = [worker EXCEPT ![w] = r]
  BY DEF Stage
<1> QED BY <1>1, <1>2, WorkerWrite

\* What the root Agent is made to look like is something it can look like.
LEMMA ProjectionType ==
    ASSUME NEW s \in RunStatuses, NEW p \in Phases, NEW a \in 0 .. MaxAttempts
    PROVE  RootProjection(s, p, a) \in [status : AgentStatuses, attempt : 0 .. MaxAttempts]
  BY SupervisorConstants DEF RootProjection, RunStatuses, AgentStatuses

LEMMA TypeInit == Init => TypeInv
<1> SUFFICES ASSUME Init PROVE TypeInv
  OBVIOUS
<1>1. ck \in Checkpoint /\ StartedWithinBudget
  BY SmallValues, CheckpointShape, SupervisorConstants
  DEF Init, StartedWithinBudget, Phases, Repairs, TurnNumbers
<1>2. worker \in [Workers -> Worker]
  BY IdleType DEF Init
<1>3. QED
  BY <1>1, <1>2, SupervisorConstants
  DEF Init, TypeInv, TypeOK, RunStatuses, AgentStatuses, NoCall, Delivery, Messages, Attempts

\* The steps that change at most a worker's record, the lease or the handoffs.
LEMMA TypeWorkers ==
    ASSUME TypeInv, NEW w \in Workers,
           \/ Acquire(w) \/ AcquireAfterReading(w) \/ Release(w) \/ Return(w) \/ Crash(w)
           \/ Derail(w) \/ Abandon(w) \/ StopLoop(w) \/ DrainReads(w) \/ HandoffPrepare(w)
           \/ HandoffRetry(w) \/ ReportHandoff(w)
    PROVE  TypeInv'
<1> USE SupervisorConstants DEF TypeInv, TypeOK, StartedWithinBudget
<1>1. ASSUME NEW mode \in ModesOrNone, NEW p \in Places, Enter(w, mode, p) PROVE TypeInv'
  <2>1. generation + 1 \in Generations
    BY <1>1 DEF Enter, Generations
  <2>2. worker' \in [Workers -> Worker]
    <3>1. [worker[w] EXCEPT !.mode = mode, !.pc = p, !.generation = generation + 1] \in Worker
      BY WorkerUpdates, worker[w] \in Worker, <2>1, <1>1
    <3>2. worker' = [worker EXCEPT ![w] =
              [worker[w] EXCEPT !.mode = mode, !.pc = p, !.generation = generation + 1]]
      BY <1>1 DEF Enter
    <3> QED BY <3>1, <3>2, WorkerWrite
  <2>3. QED
    BY <1>1, <2>1, <2>2 DEF Enter, Generations
<1>2. ASSUME Vanish(w) PROVE TypeInv'
  <2>1. worker' \in [Workers -> Worker]
    BY <1>2, IdleType, WorkerWrite DEF Vanish
  <2>2. QED
    BY <1>2, <2>1 DEF Vanish
<1>3. LoopEnd(w) \in Places
  BY DEF LoopEnd, Places
<1>4. CASE Acquire(w)
  BY <1>1, <1>4 DEF Acquire, ModesOrNone, Places
<1>5. CASE AcquireAfterReading(w)
  <2>1. worker[w].mode \in ModesOrNone
    BY WorkerShape, worker[w] \in Worker
  <2>2. "waking" \in Places /\ "holding" \in Places
    BY DEF Places
  <2>3. QED
    BY <1>1, <1>5, <2>1, <2>2 DEF AcquireAfterReading
<1>6. CASE Release(w)
  <2>1. worker' \in [Workers -> Worker]
    BY <1>6, IdleType, WorkerWrite DEF Release
  <2>2. QED
    BY <1>6, <2>1 DEF Release
<1>7. CASE Return(w)
  BY <1>2, <1>7 DEF Return
<1>8. CASE Crash(w)
  BY <1>2, <1>8 DEF Crash
<1>9. CASE Derail(w)
  <2>1. worker' \in [Workers -> Worker]
    BY <1>9, StageType DEF Derail, Places, InTurn
  <2>2. QED
    BY <1>9, <2>1 DEF Derail
<1>10. CASE Abandon(w)
  <2>1. worker' \in [Workers -> Worker]
    BY <1>10, <1>3, GotoType DEF Abandon
  <2>2. QED
    BY <1>10, <2>1 DEF Abandon
<1>11. CASE StopLoop(w)
  <2>1. worker' \in [Workers -> Worker]
    BY <1>11, <1>3, GotoType DEF StopLoop
  <2>2. QED
    BY <1>11, <2>1 DEF StopLoop
<1>12. CASE DrainReads(w)
  <2>1. [worker[w] EXCEPT !.pc = "waiting", !.mode = "drain",
                          !.sawPaused = (runStatus = "paused")] \in Worker
    BY WorkerUpdates, worker[w] \in Worker, <1>12 DEF DrainReads, Places, ModesOrNone
  <2>2. worker' \in [Workers -> Worker]
    BY <1>12, <2>1, WorkerWrite DEF DrainReads
  <2>3. QED
    BY <1>12, <2>2 DEF DrainReads
<1>13. ASSUME NEW s \in SUBSET Messages, "handoff" \in Modes,
              worker' = [worker EXCEPT ![w] = [@ EXCEPT !.pc = "waiting", !.mode = "handoff",
                                                        !.selection = s]]
       PROVE  worker' \in [Workers -> Worker]
  <2>1. [worker[w] EXCEPT !.pc = "waiting", !.mode = "handoff", !.selection = s] \in Worker
    BY WorkerUpdates, worker[w] \in Worker, <1>13 DEF Places, ModesOrNone
  <2>2. QED
    BY <1>13, <2>1, WorkerWrite
<1>14. CASE HandoffPrepare(w)
  <2>1. PICK limit \in Pending :
            /\ handoffs' = handoffs \cup {{m \in Pending : m <= limit}}
            /\ worker' = [worker EXCEPT ![w] = [@ EXCEPT !.pc = "waiting", !.mode = "handoff",
                              !.selection = {m \in Pending : m <= limit}]]
    BY <1>14 DEF HandoffPrepare
  <2>2. {m \in Pending : m <= limit} \in SUBSET Messages
    BY DEF Pending
  <2>3. worker' \in [Workers -> Worker]
    BY <1>13, <1>14, <2>1, <2>2 DEF HandoffPrepare
  <2>4. QED
    BY <1>14, <2>1, <2>2, <2>3 DEF HandoffPrepare
<1>15. CASE HandoffRetry(w)
  <2>1. PICK s \in handoffs :
            worker' = [worker EXCEPT ![w] = [@ EXCEPT !.pc = "waiting", !.mode = "handoff",
                                                      !.selection = s]]
    BY <1>15 DEF HandoffRetry
  <2>2. worker' \in [Workers -> Worker]
    BY <1>13, <1>15, <2>1 DEF HandoffRetry
  <2>3. QED
    BY <1>15, <2>2 DEF HandoffRetry
<1>16. CASE ReportHandoff(w)
  <2>1. worker' \in [Workers -> Worker]
    BY <1>16, GotoType DEF ReportHandoff, Places
  <2>2. handoffs' \in SUBSET SUBSET Messages
    BY <1>16 DEF ReportHandoff
  <2>3. QED
    BY <1>16, <2>1, <2>2 DEF ReportHandoff
<1>17. QED
  BY <1>4, <1>5, <1>6, <1>7, <1>8, <1>9, <1>10, <1>11, <1>12, <1>14, <1>15, <1>16

\* SyncRoot leaves the root Agent in a state it can be in.
LEMMA SyncRootType ==
    ASSUME TypeInv, NEW s \in AgentStatuses, NEW a \in AttemptsOrNone,
           SyncRoot([status |-> s, attempt |-> a])
    PROVE  root' \in [status : AgentStatuses, attempt : 0 .. MaxAttempts]
  BY DEF SyncRoot, AttemptsOrNone

\* The steps of a worker within a turn it has begun.
LEMMA TypeCalls ==
    ASSUME TypeInv, NEW w \in Workers,
           \/ BindInput(w) \/ StartCall(w) \/ CallCompletes(w) \/ CallRequestsTools(w)
           \/ CallFails(w) \/ CallBreaksProtocol(w)
    PROVE  TypeInv'
<1> USE SupervisorConstants DEF TypeInv, TypeOK, StartedWithinBudget
<1> DEFINE CallType == call' \in Calls
<1>a. call \in Calls
  BY DEF Calls, CallEvents, CallCounts, Rounds
<1>b. CallType => call' \in [event  : {"none", "started", "completed", "failed"},
                             count  : 0 .. MaxCalls,
                             rounds : 0 .. MaxToolRounds]
  BY DEF Calls, CallEvents, CallCounts, Rounds
<1>1. "prompting" \in Places /\ "calling" \in Places /\ "failing" \in Places
  BY DEF Places, InTurn
<1>2. CASE BindInput(w)
  <2>1. ck' \in Checkpoint /\ StartedWithinBudget'
    <3>1. OwnText \in Inputs
      BY DEF OwnText, Inputs
    <3>2. ck' \in Checkpoint
      BY <1>2, <3>1, CheckpointUpdates DEF BindInput
    <3>3. ck'.turn = ck.turn /\ ck'.phase = ck.phase
      BY <1>2, CheckpointShape DEF BindInput
    <3> QED BY <3>2, <3>3
  <2>2. worker' \in [Workers -> Worker]
    BY <1>1, <1>2, StageType DEF BindInput
  <2>3. QED
    BY <1>2, <2>1, <2>2 DEF BindInput
<1>3. CASE StartCall(w)
  <2>1. CallType
    <3>1. call.count + 1 \in CallCounts
      BY <1>3 DEF StartCall, CallsLeft, CallCounts
    <3> QED BY <1>3, <1>a, <3>1, CallUpdates DEF StartCall, CallEvents
  <2>2. worker' \in [Workers -> Worker]
    BY <1>1, <1>3, StageType DEF StartCall
  <2>3. QED
    BY <1>3, <1>b, <2>1, <2>2 DEF StartCall
<1>4. CASE CallCompletes(w)
  <2>1. CallType
    BY <1>4, <1>a, CallUpdates DEF CallCompletes, CallEvents
  <2>2. worker' \in [Workers -> Worker]
    <3>1. PICK n \in Answers :
              worker' = [worker EXCEPT ![w] = [@ EXCEPT !.pc = "answered", !.answer = n]]
      BY <1>4 DEF CallCompletes, Answers
    <3>2. [worker[w] EXCEPT !.pc = "answered", !.answer = n] \in Worker
      BY WorkerUpdates, worker[w] \in Worker DEF Places, InTurn
    <3> QED BY <3>1, <3>2, WorkerWrite
  <2>3. QED
    BY <1>4, <1>b, <2>1, <2>2 DEF CallCompletes, EndCall
<1>5. CASE CallRequestsTools(w)
  <2>1. CallType
    BY <1>5 DEF CallRequestsTools, Calls, CallEvents, CallCounts, Rounds
  <2>2. worker' \in [Workers -> Worker]
    BY <1>1, <1>5, StageType DEF CallRequestsTools
  <2>3. QED
    BY <1>5, <1>b, <2>1, <2>2 DEF CallRequestsTools, EndCall
<1>6. CASE CallFails(w)
  <2>1. CallType
    BY <1>6, <1>a, CallUpdates DEF CallFails, CallEvents
  <2>2. worker' \in [Workers -> Worker]
    BY <1>1, <1>6, StageType DEF CallFails
  <2>3. QED
    BY <1>6, <1>b, <2>1, <2>2 DEF CallFails, EndCall
<1>7. CASE CallBreaksProtocol(w)
  <2>1. CallType
    <3>1. 0 \in CallCounts
      BY DEF CallCounts
    <3>2. /\ [call EXCEPT !.event = "failed", !.count = 0] \in Calls
          /\ [call EXCEPT !.event = "failed"] \in Calls
      BY <1>a, <3>1, CallUpdates DEF CallEvents
    <3> QED BY <1>7, <3>2 DEF CallBreaksProtocol
  <2>2. worker' \in [Workers -> Worker]
    BY <1>1, <1>7, StageType DEF CallBreaksProtocol
  <2>3. PICK q \in Repairs : ck' = [ck EXCEPT !.repair = q]
    BY <1>7 DEF CallBreaksProtocol, Repairs
  <2>4. ck' \in Checkpoint /\ ck'.turn = ck.turn /\ ck'.phase = ck.phase
    BY <2>3, CheckpointUpdates, CheckpointShape
  <2>5. QED
    BY <1>7, <1>b, <2>1, <2>2, <2>4 DEF CallBreaksProtocol, EndCall
<1>8. QED
  BY <1>2, <1>3, <1>4, <1>5, <1>6, <1>7

\* Closing or committing messages, or leaving them alone.
LEMMA QueueTypes ==
    ASSUME TypeInv
    PROVE  /\ CloseSteering =>
                  /\ message' \in [Messages -> MessageStatuses]
                  /\ delivery' \in [Attempts -> Delivery]
           /\ \A s : SteeringFollows(s) =>
                  /\ message' \in [Messages -> MessageStatuses]
                  /\ delivery' \in [Attempts -> Delivery]
           /\ \A m \in Messages \cup {0} : CommitSteering(m) =>
                  /\ message' \in [Messages -> MessageStatuses]
                  /\ delivery' \in [Attempts -> Delivery]
<1> USE DEF TypeInv, TypeOK, MessageStatuses
<1>a. \A a \in Attempts, s \in DeliveryStatuses : [delivery[a] EXCEPT !.status = s] \in Delivery
  BY DeliveryUpdates
<1>b. "cancelled" \in DeliveryStatuses /\ "committed" \in DeliveryStatuses
  BY DEF DeliveryStatuses
<1>1. CloseSteering =>
          /\ message' \in [Messages -> MessageStatuses]
          /\ delivery' \in [Attempts -> Delivery]
  BY <1>a, <1>b DEF CloseSteering, queueVars
<1>2. \A s : SteeringFollows(s) =>
          /\ message' \in [Messages -> MessageStatuses]
          /\ delivery' \in [Attempts -> Delivery]
  BY <1>1 DEF SteeringFollows, queueVars
<1>3. \A m \in Messages \cup {0} : CommitSteering(m) =>
          /\ message' \in [Messages -> MessageStatuses]
          /\ delivery' \in [Attempts -> Delivery]
  <2> SUFFICES ASSUME NEW m \in Messages \cup {0}, CommitSteering(m)
               PROVE  /\ message' \in [Messages -> MessageStatuses]
                      /\ delivery' \in [Attempts -> Delivery]
    OBVIOUS
  <2>1. CASE m = 0
    BY <2>1 DEF CommitSteering, queueVars
  <2>2. CASE m # 0
    <3>1. message' \in [Messages -> MessageStatuses]
      BY <2>2 DEF CommitSteering
    <3>2. delivery' = [delivery EXCEPT ![ck.attempt] =
                          [delivery[ck.attempt] EXCEPT !.status = "committed"]]
      BY <2>2 DEF CommitSteering
    <3>3. QED
      BY <1>a, <1>b, <3>1, <3>2
  <2>3. QED
    BY <2>1, <2>2
<1>4. QED
  BY <1>1, <1>2, <1>3

LEMMA PreparedType ==
    ASSUME TypeInv, NEW a \in AttemptsOrNone
    PROVE  Prepared(a) \in Messages \cup {0}
<1>1. CASE a = 0
  BY <1>1 DEF Prepared
<1>2. CASE a # 0
  <2>1. a \in Attempts
    BY <1>2, SupervisorConstants DEF AttemptsOrNone, Attempts
  <2>2. delivery[a] \in Delivery
    BY <2>1 DEF TypeInv, TypeOK
  <2>3. delivery[a].message \in 0 .. MaxMessages
    BY <2>2 DEF Delivery
  <2> QED
    BY <2>3, SupervisorConstants DEF Prepared, Messages
<1> QED
  BY <1>1, <1>2

LEMMA EnterTurnType ==
    ASSUME worker \in [Workers -> Worker], NEW w \in Workers, EnterTurn(w), ck' \in Checkpoint
    PROVE  worker' \in [Workers -> Worker]
<1> DEFINE p == IF ck'.input = NoInput THEN "binding" ELSE "prompting"
           r == [worker[w] EXCEPT !.pc = p, !.turn = ck'.turn, !.attempt = ck'.attempt]
<1>1. p \in Places
  BY DEF Places, InTurn
<1>2. ck'.turn \in Turns /\ ck'.attempt \in AttemptsOrNone
  <2>1. ck'.turn \in TurnNumbers /\ ck'.attempt \in AttemptsOrNone
    BY CheckpointShape
  <2> QED BY <2>1, SupervisorConstants DEF Turns, TurnNumbers
<1>3. worker' = [worker EXCEPT ![w] = r]
  BY DEF EnterTurn
<1> HIDE DEF p
<1>4. r \in Worker
  BY <1>1, <1>2, WorkerUpdates, worker[w] \in Worker
<1> QED BY <1>3, <1>4, WorkerWrite

LEMMA RequestType ==
    ASSUME TypeInv, NEW w \in Workers, NEW r \in BeginRequests(w)
    PROVE  r.input \in Inputs
<1>1. ck.input \in Inputs /\ OwnText \in Inputs /\ NoInput \in Inputs
  BY SmallValues, CheckpointShape, SupervisorConstants DEF TypeInv, TypeOK, OwnText, Inputs
<1>2. QED
  BY <1>1 DEF BeginRequests

\* A message that is chosen for a new attempt is a message.
LEMMA ChosenType ==
    ASSUME NEW p, NEW m \in NextSteering(p)
    PROVE  m \in Messages
  BY DEF NextSteering, Oldest, Eligible, Pending

LEMMA TypeRecover ==
    ASSUME TypeInv, NEW w \in Workers, RecoverTurn(w)
    PROVE  TypeInv'
<1> USE DEF TypeInv, TypeOK
<1>1. PICK i \in Inputs : ck' = [ck EXCEPT !.generation = worker[w].generation, !.input = i]
  <2>1. PICK r \in BeginRequests(w) :
            ck' = [ck EXCEPT !.generation = worker[w].generation,
                             !.input = IF r.input = NoInput THEN @ ELSE r.input]
    BY DEF RecoverTurn
  <2>2. (IF r.input = NoInput THEN ck.input ELSE r.input) \in Inputs
    BY RequestType, CheckpointShape
  <2> QED BY <2>1, <2>2
<1>2. worker[w].generation \in Generations
  BY WorkerShape, worker[w] \in Worker
<1>3. /\ ck' \in Checkpoint
      /\ ck'.phase = ck.phase
      /\ ck'.turn = ck.turn
  BY <1>1, <1>2, CheckpointUpdates, CheckpointShape
<1>4. worker' \in [Workers -> Worker]
  BY <1>3, EnterTurnType DEF RecoverTurn
<1>5. root' \in [status : AgentStatuses, attempt : 0 .. MaxAttempts]
  BY CheckpointShape, SyncRootType DEF RecoverTurn, AgentStatuses
<1>6. QED
  BY <1>3, <1>4, <1>5 DEF RecoverTurn, StartedWithinBudget

LEMMA TypeStart ==
    ASSUME TypeInv, NEW w \in Workers, StartTurn(w)
    PROVE  TypeInv'
<1> USE DEF TypeInv, TypeOK
<1>1. /\ attempts' \in Attempts
      /\ attempts' \in AttemptsOrNone
  BY SupervisorConstants DEF StartTurn, Attempts, AttemptsOrNone
<1>2. PICK i \in Inputs, m \in Messages \cup {0} :
          /\ ck' = [ck EXCEPT !.generation = worker[w].generation, !.phase = "turn_started",
                              !.attempt = attempts', !.repair = "none", !.input = i]
          /\ delivery' = IF m = 0 THEN Superseded
                         ELSE [Superseded EXCEPT ![attempts'] =
                                  [message |-> m, status |-> "prepared"]]
  <2>1. PICK r \in BeginRequests(w), m \in Messages \cup {0} :
            /\ ck' = [ck EXCEPT !.generation = worker[w].generation, !.phase = "turn_started",
                                !.attempt = attempts', !.repair = "none",
                                !.input = IF m # 0 THEN m ELSE InputFor(r)]
            /\ delivery' = IF m = 0 THEN Superseded
                           ELSE [Superseded EXCEPT ![attempts'] =
                                    [message |-> m, status |-> "prepared"]]
    BY ChosenType DEF StartTurn
  <2>2. InputFor(r) \in Inputs
    BY RequestType, CheckpointShape DEF InputFor
  <2>3. (IF m # 0 THEN m ELSE InputFor(r)) \in Inputs
    BY <2>2, SupervisorConstants DEF Messages, Inputs, OwnText
  <2> QED BY <2>1, <2>3
<1>3. worker[w].generation \in Generations
  BY WorkerShape, worker[w] \in Worker
<1>4. /\ ck' \in Checkpoint
      /\ ck'.turn = ck.turn
  <2>1. ck \in Checkpoint
    OBVIOUS
  <2> DEFINE p == "turn_started"
             q == "none"
  <2>2. p \in Phases /\ q \in Repairs
    BY DEF Phases, Repairs
  <2>3. ck' = [ck EXCEPT !.generation = worker[w].generation, !.phase = p,
                         !.attempt = attempts', !.repair = q, !.input = i]
    BY <1>2
  <2> HIDE DEF p, q, TypeInv, TypeOK
  <2> QED BY <1>1, <1>3, <2>1, <2>2, <2>3, CheckpointShape
<1>5. Superseded \in [Attempts -> Delivery]
  BY DeliveryUpdates DEF Superseded, DeliveryStatuses
<1>6. delivery' \in [Attempts -> Delivery]
  <2>1. ASSUME m # 0 PROVE [message |-> m, status |-> "prepared"] \in Delivery
    BY <2>1, SupervisorConstants DEF Delivery, Messages
  <2> QED BY <1>1, <1>2, <1>5, <2>1
<1>7. worker' \in [Workers -> Worker]
  BY <1>4, EnterTurnType DEF StartTurn
<1>8. root' \in [status : AgentStatuses, attempt : 0 .. MaxAttempts]
  BY <1>1, SyncRootType DEF StartTurn, AgentStatuses
<1>9. call' \in [event  : {"none", "started", "completed", "failed"},
                 count  : 0 .. MaxCalls,
                 rounds : 0 .. MaxToolRounds]
  <2>1. call' = NoCall
    BY DEF StartTurn
  <2> QED
    BY <2>1, SupervisorConstants DEF NoCall
<1>10. UNCHANGED <<runStatus, generation, authority, message, transcript, handoffs>>
  BY DEF StartTurn
<1>11. TypeOK'
  BY <1>1, <1>4, <1>6, <1>7, <1>8, <1>9, <1>10 DEF AttemptsOrNone
<1>12. StartedWithinBudget'
  BY <1>4 DEF StartTurn, StartedWithinBudget
<1>13. QED
  BY <1>11, <1>12

LEMMA TypeComplete ==
    ASSUME TypeInv, NEW w \in Workers, CompleteTurn(w)
    PROVE  TypeInv'
<1> USE DEF TypeInv, TypeOK
<1>1. PICK s \in {"completed", "paused", "running"}, p \in Phases \ {"turn_started"},
           a \in AgentStatuses, q \in Places :
          /\ runStatus' = s
          /\ ck' = [ck EXCEPT !.turn = @ + 1, !.phase = p, !.attempt = 0,
                              !.input = NoInput, !.repair = "none"]
          /\ SyncRoot([status |-> a, attempt |-> 0])
          /\ Goto(w, q)
  <2>1. LoopEnd(w) \in Places /\ "holding" \in Places
    BY DEF LoopEnd, Places
  <2> QED BY <2>1 DEF CompleteTurn, Phases, AgentStatuses
<1>2. ck.turn + 1 \in TurnNumbers /\ ck.turn \in 1 .. MaxTurns
  <2>1. ck.phase = "turn_started" /\ ck.turn \in TurnNumbers
    BY CheckpointShape DEF CompleteTurn, ActiveAttempt, HoldsTurn
  <2>2. ck.turn <= MaxTurns
    BY <2>1 DEF StartedWithinBudget
  <2> HIDE DEF TypeInv, TypeOK
  <2> QED
    BY <2>1, <2>2, SupervisorConstants DEF TurnNumbers
<1>3. ck' \in Checkpoint /\ ck'.phase # "turn_started"
  <2>1. ck \in Checkpoint
    OBVIOUS
  <2> DEFINE t == ck.turn + 1
             z == 0
             n == "none"
  <2>2. t \in TurnNumbers /\ z \in AttemptsOrNone /\ n \in Repairs /\ NoInput \in Inputs
    BY <1>2, SmallValues DEF Repairs
  <2>3. ck' = [ck EXCEPT !.turn = t, !.phase = p, !.attempt = z, !.input = NoInput, !.repair = n]
    BY <1>1
  <2> HIDE DEF t, z, n, TypeInv, TypeOK
  <2> QED BY <2>1, <2>2, <2>3, CheckpointShape
<1>4. root' \in [status : AgentStatuses, attempt : 0 .. MaxAttempts]
  BY <1>1, SmallValues, SyncRootType
<1>5. worker' \in [Workers -> Worker]
  BY <1>1, GotoType
<1>6. Prepared(ck.attempt) \in Messages \cup {0}
  BY PreparedType, CheckpointShape
<1>7. /\ message' \in [Messages -> MessageStatuses]
      /\ delivery' \in [Attempts -> Delivery]
  BY <1>6, QueueTypes DEF CompleteTurn
<1>8. transcript' \in Seq([turn : 1 .. MaxTurns, input : Inputs, message : 0 .. MaxMessages])
  <2>1. Prepared(ck.attempt) \in 0 .. MaxMessages
    BY <1>6, SupervisorConstants DEF Messages
  <2>2. [turn |-> ck.turn, input |-> ck.input, message |-> Prepared(ck.attempt)]
            \in [turn : 1 .. MaxTurns, input : Inputs, message : 0 .. MaxMessages]
    BY <1>2, <2>1, CheckpointShape
  <2>3. QED
    BY <2>2 DEF CompleteTurn
<1>9. QED
  BY <1>1, <1>3, <1>4, <1>5, <1>7, <1>8, SupervisorConstants
  DEF CompleteTurn, StartedWithinBudget, NoCall, RunStatuses, MessageStatuses

LEMMA TypeFail ==
    ASSUME TypeInv, NEW w \in Workers, FailTurn(w)
    PROVE  TypeInv'
<1> USE DEF TypeInv, TypeOK
<1>1. ck' \in Checkpoint /\ ck'.phase = "turn_failed"
  <2>1. \A p \in Phases, q \in Repairs :
            /\ [ck EXCEPT !.phase = p, !.repair = q] \in Checkpoint
            /\ [ck EXCEPT !.phase = p, !.repair = q].phase = p
    BY CheckpointUpdates, CheckpointShape
  <2>2. "turn_failed" \in Phases /\ "none" \in Repairs
    BY DEF Phases, Repairs
  <2>3. ck' = [ck EXCEPT !.phase = "turn_failed", !.repair = "none"]
    BY DEF FailTurn
  <2> HIDE DEF TypeInv, TypeOK
  <2> QED BY <2>1, <2>2, <2>3, Zenon
<1>2. worker' \in [Workers -> Worker]
  BY GotoType DEF FailTurn, LoopEnd, Places
<1>3. root' \in [status : AgentStatuses, attempt : 0 .. MaxAttempts]
  <2>1. RootProjection(runStatus, "turn_failed", ck.attempt)
            \in [status : AgentStatuses, attempt : 0 .. MaxAttempts]
    BY ProjectionType, CheckpointShape DEF Phases, AttemptsOrNone
  <2> QED BY <2>1 DEF FailTurn, SyncRoot
<1>4. QED
  BY <1>1, <1>2, <1>3, SupervisorConstants DEF FailTurn, StartedWithinBudget, NoCall

LEMMA TypeFinalize ==
    ASSUME TypeInv, NEW w \in Workers, NEW target \in {"completed", "failed"},
           Finalize(w, target)
    PROVE  TypeInv'
<1> USE DEF TypeInv, TypeOK
<1>1. PICK p \in Phases \ {"turn_started"} :
          ck' = [ck EXCEPT !.generation = generation, !.attempt = 0, !.input = NoInput,
                           !.repair = "none", !.phase = p]
  BY DEF Finalize, Phases
<1>2. ck' \in Checkpoint /\ ck'.phase # "turn_started"
  <2>1. ck \in Checkpoint
    OBVIOUS
  <2> DEFINE z == 0
             n == "none"
  <2>2. generation \in Generations /\ z \in AttemptsOrNone /\ n \in Repairs /\ NoInput \in Inputs
    BY SmallValues DEF Repairs, Generations
  <2>3. ck' = [ck EXCEPT !.generation = generation, !.attempt = z, !.input = NoInput,
                         !.repair = n, !.phase = p]
    BY <1>1
  <2> HIDE DEF z, n, TypeInv, TypeOK
  <2> QED BY <2>1, <2>2, <2>3, CheckpointShape
<1>3. worker' \in [Workers -> Worker]
  BY GotoType DEF Finalize, Places
<1>4. root' \in [status : AgentStatuses, attempt : 0 .. MaxAttempts]
  BY SmallValues, SyncRootType DEF Finalize, AgentStatuses
<1>5. /\ message' \in [Messages -> MessageStatuses]
      /\ delivery' \in [Attempts -> Delivery]
  BY QueueTypes DEF Finalize
<1>6. QED
  BY <1>2, <1>3, <1>4, <1>5 DEF Finalize, StartedWithinBudget, RunStatuses, MessageStatuses

\* What the operator does, and a drain in the operator's name.
LEMMA MoveType ==
    ASSUME TypeInv, NEW s \in RunStatuses, SyncRoot(RootProjection(s, ck.phase, ck.attempt))
    PROVE  root' \in [status : AgentStatuses, attempt : 0 .. MaxAttempts]
<1>1. RootProjection(s, ck.phase, ck.attempt)
          \in [status : AgentStatuses, attempt : 0 .. MaxAttempts]
  BY ProjectionType, CheckpointShape DEF TypeInv, TypeOK, AttemptsOrNone
<1>2. QED
  BY <1>1 DEF SyncRoot

LEMMA TypeOperator ==
    ASSUME TypeInv, Operator \/ LeaseTime \/ \E w \in Workers : DrainWakes(w)
    PROVE  TypeInv'
<1> USE DEF TypeInv, TypeOK, StartedWithinBudget
<1>1. ASSUME NEW to \in RunStatuses, TransitionRun(to) PROVE TypeInv'
  <2>1. root' \in [status : AgentStatuses, attempt : 0 .. MaxAttempts]
    BY <1>1, MoveType DEF TransitionRun, MoveRun
  <2>2. /\ message' \in [Messages -> MessageStatuses]
        /\ delivery' \in [Attempts -> Delivery]
    BY <1>1, QueueTypes DEF TransitionRun
  <2>3. QED
    BY <1>1, <2>1, <2>2 DEF TransitionRun, MoveRun, MessageStatuses
<1>2. CASE LifecycleOperation
  <2>1. PICK s \in RunStatuses :
            runStatus' = s /\ SyncRoot(RootProjection(s, ck.phase, ck.attempt))
    BY <1>2 DEF LifecycleOperation, MoveRun, RunStatuses
  <2>2. root' \in [status : AgentStatuses, attempt : 0 .. MaxAttempts]
    BY <2>1, MoveType
  <2>3. QED
    BY <1>2, <2>1, <2>2 DEF LifecycleOperation
<1>3. CASE Enqueue
  BY <1>3 DEF Enqueue
<1>4. ASSUME NEW m \in Messages, Withdraw(m) PROVE TypeInv'
  BY <1>4 DEF Withdraw
<1>5. CASE LeaseTime
  BY <1>5 DEF LeaseTime
<1>6. ASSUME NEW w \in Workers, DrainWakes(w) PROVE TypeInv'
  <2>1. worker' \in [Workers -> Worker]
    BY <1>6, GotoType DEF DrainWakes, Places
  <2>2. CASE runStatus' = "running" /\ SyncRoot(RootProjection("running", ck.phase, ck.attempt))
    <3>1. root' \in [status : AgentStatuses, attempt : 0 .. MaxAttempts]
      BY <2>2, MoveType DEF RunStatuses
    <3> QED BY <1>6, <2>1, <2>2, <3>1 DEF DrainWakes, RunStatuses
  <2>3. CASE UNCHANGED <<runStatus, root>>
    BY <1>6, <2>1, <2>3 DEF DrainWakes
  <2>4. QED
    BY <1>6, <2>2, <2>3 DEF DrainWakes
<1>7. QED
  BY <1>1, <1>2, <1>3, <1>4, <1>5, <1>6 DEF Operator, RunStatuses

LEMMA TypeNext == TypeInv /\ [Next]_vars => TypeInv'
<1> SUFFICES ASSUME TypeInv, [Next]_vars PROVE TypeInv'
  OBVIOUS
<1>1. CASE UNCHANGED vars
  BY <1>1 DEF vars, TypeInv, TypeOK, StartedWithinBudget
<1>2. ASSUME NEW w \in Workers, Progress(w) \/ Arrival(w) PROVE TypeInv'
  BY <1>2, TypeWorkers, TypeCalls, TypeRecover, TypeStart, TypeComplete, TypeFail,
     TypeFinalize, TypeOperator
  DEF Progress, Arrival
<1>3. CASE Operator \/ LeaseTime
  BY <1>3, TypeOperator
<1>4. QED
  BY <1>1, <1>2, <1>3 DEF Next

\* Every variable keeps its type; in particular no turn beyond the Run's budget
\* is started or recorded, and no attempt makes more calls than the policy has.
THEOREM SupervisorTypeCorrect == Spec => []TypeOK
<1>1. TypeInv => TypeOK
  BY DEF TypeInv
<1>2. QED
  BY TypeInit, TypeNext, <1>1, PTL DEF Spec

(***************************************************************************)
(* The root Agent.                                                         *)
(***************************************************************************)

\* The steps that look at neither the Run, the checkpoint's phase and attempt,
\* nor the root Agent.
MirrorKept ==
    UNCHANGED <<runStatus, root>> /\ ck'.phase = ck.phase /\ ck'.attempt = ck.attempt

LEMMA MirrorWorkers ==
    ASSUME TypeInv, NEW w \in Workers,
           \/ Acquire(w) \/ AcquireAfterReading(w) \/ Release(w) \/ Return(w) \/ Crash(w)
           \/ Derail(w) \/ Abandon(w) \/ StopLoop(w) \/ DrainReads(w) \/ HandoffPrepare(w)
           \/ HandoffRetry(w) \/ ReportHandoff(w)
           \/ BindInput(w) \/ StartCall(w) \/ CallCompletes(w) \/ CallRequestsTools(w)
           \/ CallFails(w) \/ CallBreaksProtocol(w)
    PROVE  MirrorKept
<1> USE DEF MirrorKept
<1>1. CASE \/ Acquire(w) \/ AcquireAfterReading(w) \/ Release(w) \/ Return(w) \/ Crash(w)
           \/ Derail(w) \/ Abandon(w) \/ StopLoop(w) \/ DrainReads(w) \/ HandoffPrepare(w)
           \/ HandoffRetry(w) \/ ReportHandoff(w)
  BY <1>1 DEF Acquire, AcquireAfterReading, Enter, Release, Return, Crash, Vanish, Derail,
     Abandon, StopLoop, DrainReads, HandoffPrepare, HandoffRetry, ReportHandoff
<1>2. CASE StartCall(w) \/ CallCompletes(w) \/ CallRequestsTools(w) \/ CallFails(w)
  BY <1>2 DEF StartCall, CallCompletes, CallRequestsTools, CallFails, EndCall
<1>3. CASE BindInput(w)
  BY <1>3, CheckpointShape DEF BindInput, TypeInv, TypeOK
<1>4. CASE CallBreaksProtocol(w)
  BY <1>4, CheckpointShape DEF CallBreaksProtocol, EndCall, TypeInv, TypeOK
<1>5. QED
  BY <1>1, <1>2, <1>3, <1>4

LEMMA MirrorNext == TypeInv /\ AgentMirrorsTurn /\ [Next]_vars => AgentMirrorsTurn'
<1> SUFFICES ASSUME TypeInv, AgentMirrorsTurn, [Next]_vars PROVE AgentMirrorsTurn'
  OBVIOUS
<1> USE DEF AgentMirrorsTurn
<1>1. ASSUME MirrorKept PROVE AgentMirrorsTurn'
  BY <1>1 DEF MirrorKept
<1>2. CASE UNCHANGED vars \/ LeaseTime \/ Enqueue \/ \E m \in Messages : Withdraw(m)
  BY <1>1, <1>2 DEF MirrorKept, vars, LeaseTime, Enqueue, Withdraw
<1>3. ASSUME NEW w \in Workers, Progress(w) \/ Arrival(w) PROVE AgentMirrorsTurn'
  <2>1. CASE RecoverTurn(w)
    <3>1. ck'.phase = "turn_started" /\ ck'.attempt = ck.attempt
      BY <2>1, CheckpointShape DEF RecoverTurn, TypeInv, TypeOK
    <3> QED BY <2>1, <3>1 DEF RecoverTurn, BeginGuard, SyncRoot, RootProjection
  <2>2. CASE StartTurn(w)
    <3>1. ck'.phase = "turn_started" /\ ck'.attempt = attempts'
      BY <2>2, CheckpointShape DEF StartTurn, TypeInv, TypeOK
    <3> QED BY <2>2, <3>1 DEF StartTurn, BeginGuard, SyncRoot, RootProjection
  <2>3. CASE CompleteTurn(w)
    <3>1. PICK ended \in {<<"completed", "run_completed", "completed">>,
                          <<"paused", "waiting", "waiting">>,
                          <<"running", "idle", "ready">>} :
              /\ runStatus' = ended[1]
              /\ ck' = [ck EXCEPT !.turn = @ + 1, !.phase = ended[2], !.attempt = 0,
                                  !.input = NoInput, !.repair = "none"]
              /\ root' = [status |-> ended[3], attempt |-> 0]
      BY <2>3 DEF CompleteTurn, SyncRoot
    <3>2. ck'.phase = ended[2]
      BY <3>1, CheckpointShape DEF TypeInv, TypeOK
    <3> QED BY <3>1, <3>2 DEF RootProjection
  <2>4. CASE FailTurn(w)
    <3>1. ck'.phase = "turn_failed" /\ ck'.attempt = ck.attempt
      BY <2>4, CheckpointShape DEF FailTurn, TypeInv, TypeOK
    <3> QED BY <2>4, <3>1 DEF FailTurn, SyncRoot
  <2>5. ASSUME NEW target \in {"completed", "failed"}, Finalize(w, target)
        PROVE  AgentMirrorsTurn'
    BY <2>5 DEF Finalize, SyncRoot, RootProjection
  <2>6. CASE DrainWakes(w)
    BY <2>6 DEF DrainWakes, SyncRoot
  <2>7. QED
    BY <1>1, <1>3, <2>1, <2>2, <2>3, <2>4, <2>5, <2>6, MirrorWorkers DEF Progress, Arrival
<1>4. ASSUME NEW to, TransitionRun(to) PROVE AgentMirrorsTurn'
  BY <1>4 DEF TransitionRun, MoveRun, SyncRoot
<1>5. CASE LifecycleOperation
  BY <1>5 DEF LifecycleOperation, MoveRun, SyncRoot
<1>6. QED
  BY <1>2, <1>3, <1>4, <1>5 DEF Next, Operator

\* However the Run, its checkpoint and its root Agent are moved, and by whom, the
\* three tables agree after every transaction.
THEOREM AgentAlwaysMirrorsTurn == Spec => []AgentMirrorsTurn
<1>1. Init => AgentMirrorsTurn
  BY DEF Init, AgentMirrorsTurn, RootProjection
<1>2. QED
  BY <1>1, TypeInit, TypeNext, MirrorNext, PTL DEF Spec

(***************************************************************************)
(* The fence.                                                              *)
(***************************************************************************)

\* The Run's documents and the checkpoint stay as they are.
TurnKept == UNCHANGED <<ck, transcript, delivery, call>>

\* A worker's step writes its own record only, and touches the turn only while it
\* holds the lease.
LEMMA WorkerStep ==
    ASSUME TypeInv, NEW w \in Workers, Progress(w) \/ Arrival(w)
    PROVE  /\ \A v \in Workers : v # w => worker'[v] = worker[v]
           /\ TurnKept \/ (Holds(w) /\ UNCHANGED leaseVars)
<1>0. worker \in [Workers -> Worker]
  BY DEF TypeInv, TypeOK
<1> USE <1>0 DEF TurnKept, leaseVars
<1>1. CASE Acquire(w) \/ AcquireAfterReading(w)
  <2>1. PICK mode, p : Enter(w, mode, p)
    BY <1>1 DEF Acquire, AcquireAfterReading
  <2>2. QED
    BY <2>1 DEF Enter
<1>2. CASE Release(w) \/ Return(w) \/ Crash(w)
  <2>1. PICK r : worker' = [worker EXCEPT ![w] = r] /\ TurnKept
    BY <1>2 DEF Release, Return, Crash, Vanish
  <2>2. QED
    BY <2>1
<1>3. CASE Derail(w) \/ Abandon(w) \/ StopLoop(w) \/ ReportHandoff(w) \/ DrainWakes(w)
  BY <1>3 DEF Derail, Abandon, StopLoop, ReportHandoff, DrainWakes, Goto, Stage
<1>4. CASE DrainReads(w) \/ HandoffPrepare(w) \/ HandoffRetry(w)
  BY <1>4 DEF DrainReads, HandoffPrepare, HandoffRetry
<1>5. CASE RecoverTurn(w) \/ StartTurn(w)
  BY <1>5 DEF RecoverTurn, StartTurn, BeginGuard, EnterTurn
<1>6. CASE BindInput(w) \/ FailTurn(w)
  BY <1>6 DEF BindInput, FailTurn, HoldsTurn, HoldsCheckpoint, Goto, Stage
<1>7. CASE StartCall(w)
  BY <1>7 DEF StartCall, ActiveAttempt, HoldsTurn, HoldsCheckpoint, Stage
<1>8. ASSUME EndCall(w) PROVE Holds(w) /\ UNCHANGED leaseVars
  BY <1>8 DEF EndCall, ActiveAttempt, HoldsTurn, HoldsCheckpoint
<1>9. CASE CallCompletes(w) \/ CallRequestsTools(w) \/ CallFails(w) \/ CallBreaksProtocol(w)
  <2>1. Holds(w) /\ UNCHANGED leaseVars
    BY <1>8, <1>9 DEF CallCompletes, CallRequestsTools, CallFails, CallBreaksProtocol
  <2>2. \A v \in Workers : v # w => worker'[v] = worker[v]
    BY <1>9 DEF CallCompletes, CallRequestsTools, CallFails, CallBreaksProtocol, Stage
  <2>3. QED
    BY <2>1, <2>2
<1>10. CASE CompleteTurn(w)
  <2>1. Holds(w) /\ UNCHANGED leaseVars
    BY <1>10 DEF CompleteTurn, ActiveAttempt, HoldsTurn, HoldsCheckpoint
  <2>2. \A v \in Workers : v # w => worker'[v] = worker[v]
    BY <1>10 DEF CompleteTurn, Goto
  <2>3. QED
    BY <2>1, <2>2
<1>11. ASSUME NEW target, Finalize(w, target)
       PROVE  /\ \A v \in Workers : v # w => worker'[v] = worker[v]
              /\ Holds(w) /\ UNCHANGED leaseVars
  BY <1>11 DEF Finalize, Goto
<1>12. QED
  BY <1>1, <1>2, <1>3, <1>4, <1>5, <1>6, <1>7, <1>9, <1>10, <1>11 DEF Progress, Arrival

\* A worker without the current lease leaves the checkpoint, the transcript, the
\* calls and the deliveries alone, however late it goes on.
THEOREM OutdatedWorkersCannotWrite == Spec => OutdatedWorkersAreFenced
<1> DEFINE Fenced == \A w \in Workers :
                         worker'[w] # worker[w] /\ worker[w].generation # generation
                             /\ generation' = generation =>
                             UNCHANGED <<ck, transcript, delivery, call>>
<1>1. ASSUME TypeInv, [Next]_vars PROVE Fenced
  <2>1. CASE UNCHANGED worker
    BY <2>1
  <2>2. ASSUME NEW w \in Workers, Progress(w) \/ Arrival(w) PROVE Fenced
    BY <1>1, <2>2, WorkerStep DEF TurnKept, Holds
  <2>3. QED
    BY <1>1, <2>1, <2>2
    DEF Next, vars, Operator, TransitionRun, LifecycleOperation, Enqueue, Withdraw, LeaseTime
<1>2. TypeInv /\ [Next]_vars => [Fenced]_vars
  BY <1>1
<1>3. QED
  BY TypeInit, TypeNext, <1>2, PTL DEF Spec, OutdatedWorkersAreFenced

\* What the checkpoint's generation is written from.
LEMMA CheckpointStep ==
    ASSUME TypeInv, NEW w \in Workers, Progress(w) \/ Arrival(w), ck' # ck
    PROVE  ck'.generation \in {ck.generation, generation}
<1> USE DEF TypeInv, TypeOK
<1>1. Holds(w) /\ UNCHANGED leaseVars
  BY WorkerStep DEF TurnKept
<1>2. CASE RecoverTurn(w)
  <2>1. PICK i : ck' = [ck EXCEPT !.generation = worker[w].generation, !.input = i]
    BY <1>2 DEF RecoverTurn
  <2>2. QED
    BY <1>1, <2>1, CheckpointShape DEF Holds
<1>3. CASE StartTurn(w)
  <2>1. PICK i : ck' = [ck EXCEPT !.generation = worker[w].generation,
                                  !.phase = "turn_started", !.attempt = attempts',
                                  !.repair = "none", !.input = i]
    BY <1>3 DEF StartTurn
  <2>2. QED
    BY <1>1, <2>1, CheckpointShape DEF Holds
<1>4. CASE BindInput(w)
  BY <1>4, CheckpointShape DEF BindInput
<1>5. CASE CallBreaksProtocol(w)
  BY <1>5, CheckpointShape DEF CallBreaksProtocol
<1>6. CASE CompleteTurn(w)
  <2>1. PICK p : ck' = [ck EXCEPT !.turn = @ + 1, !.phase = p, !.attempt = 0,
                                  !.input = NoInput, !.repair = "none"]
    BY <1>6 DEF CompleteTurn
  <2>2. QED
    BY <2>1, CheckpointShape
<1>7. CASE FailTurn(w)
  BY <1>7, CheckpointShape DEF FailTurn
<1>8. ASSUME NEW target, Finalize(w, target)
      PROVE  ck'.generation \in {ck.generation, generation}
  BY <1>8, CheckpointShape DEF Finalize
<1>9. QED
  BY <1>2, <1>3, <1>4, <1>5, <1>6, <1>7, <1>8
  DEF Progress, Arrival, Acquire, AcquireAfterReading, Enter, Release, Return, Crash, Vanish,
      Derail, Abandon, StopLoop, DrainReads, HandoffPrepare, HandoffRetry, ReportHandoff,
      DrainWakes, StartCall, CallCompletes, CallRequestsTools, CallFails

\* Every step keeps the promise of the abstract lease, with the checkpoint as the
\* document that is written under it.
LEMMA FencedStep ==
    ASSUME TypeInv, [Next]_vars
    PROVE  [Lease!FencedNext]_(Lease!fencedVars)
<1> USE DEF Lease!FencedNext, Lease!fencedVars, Lease!Grant, Lease!Lapse, Lease!Revive,
        Lease!GiveUp, Lease!FencedWrite
<1>1. CASE UNCHANGED vars
  BY <1>1 DEF vars
<1>2. ASSUME NEW w \in Workers, Progress(w) \/ Arrival(w)
      PROVE  [Lease!FencedNext]_(Lease!fencedVars)
  <2>1. CASE ck' # ck
    <3>1. Holds(w) /\ UNCHANGED leaseVars
      BY <1>2, <2>1, WorkerStep DEF TurnKept
    <3>2. ck'.generation \in {ck.generation, generation}
      BY <1>2, <2>1, CheckpointStep
    <3>3. QED
      BY <3>1, <3>2 DEF leaseVars, Holds
  <2>2. CASE ck' = ck /\ UNCHANGED leaseVars
    BY <2>2 DEF leaseVars
  <2>3. CASE ck' = ck /\ ~UNCHANGED leaseVars
    <3>1. Acquire(w) \/ AcquireAfterReading(w) \/ Release(w)
      BY <1>2, <2>3
      DEF Progress, Arrival, leaseVars, Return, Crash, Vanish, RecoverTurn, StartTurn, BindInput,
          StartCall, CallCompletes, CallRequestsTools, CallFails, CallBreaksProtocol, EndCall,
          CompleteTurn, FailTurn, Derail, Abandon, StopLoop, Finalize, DrainWakes,
          ReportHandoff, DrainReads, HandoffPrepare, HandoffRetry
    <3>2. CASE Acquire(w) \/ AcquireAfterReading(w)
      BY <3>2 DEF Acquire, AcquireAfterReading, Enter
    <3>3. CASE Release(w)
      BY <3>3 DEF Release
    <3>4. QED
      BY <3>1, <3>2, <3>3
  <2>4. QED
    BY <2>1, <2>2, <2>3
<1>3. CASE LeaseTime
  BY <1>3 DEF LeaseTime
<1>4. CASE Operator
  BY <1>4 DEF Operator, TransitionRun, LifecycleOperation, Enqueue, Withdraw
<1>5. QED
  BY <1>1, <1>2, <1>3, <1>4 DEF Next

\* The checkpoint is only ever written under a live lease and in the order of the
\* leases, through every takeover, crash and clock step.
THEOREM CheckpointRefinesFencedLease == Spec => CheckpointIsFenced
<1>1. Init => Lease!FencedInit
  BY DEF Init, Lease!FencedInit
<1>2. TypeInv /\ [Next]_vars => [Lease!FencedNext]_(Lease!fencedVars)
  BY FencedStep
<1>3. QED
  BY TypeInit, TypeNext, <1>1, <1>2, PTL DEF Spec, CheckpointIsFenced, Lease!FencedSpec

(***************************************************************************)
(* The started turn.                                                       *)
(***************************************************************************)

\* A started turn that a step leaves started keeps its number and its attempt, and
\* its input once it has one, whoever takes it over.
THEOREM StartedTurnIsAlwaysKept == Spec => StartedTurnIsKept
<1> DEFINE Kept == ck.phase = "turn_started" /\ ck'.phase = "turn_started" =>
                       /\ ck'.turn = ck.turn
                       /\ ck'.attempt = ck.attempt
                       /\ ck.input \in {NoInput, ck'.input}
<1>1. ASSUME TypeInv, [Next]_vars PROVE Kept
  <2> USE <1>1, CheckpointShape DEF TypeInv, TypeOK
  <2>1. CASE UNCHANGED ck
    BY <2>1
  <2>2. ASSUME NEW w \in Workers, Progress(w) \/ Arrival(w), ck' # ck PROVE Kept
    <3>1. CASE RecoverTurn(w)
      <4>1. PICK i : /\ ck' = [ck EXCEPT !.generation = worker[w].generation, !.input = i]
                     /\ ck.input \in {NoInput, i}
        BY <3>1 DEF RecoverTurn, MayRecover
      <4>2. QED
        BY <4>1
    <3>2. CASE StartTurn(w)
      BY <3>2 DEF StartTurn
    <3>3. CASE BindInput(w)
      BY <3>3 DEF BindInput
    <3>4. CASE CallBreaksProtocol(w)
      BY <3>4 DEF CallBreaksProtocol
    <3>5. CASE CompleteTurn(w)
      <4>1. PICK p \in Phases \ {"turn_started"} :
                ck' = [ck EXCEPT !.turn = @ + 1, !.phase = p, !.attempt = 0,
                                 !.input = NoInput, !.repair = "none"]
        BY <3>5 DEF CompleteTurn, Phases
      <4>2. QED
        BY <4>1
    <3>6. CASE FailTurn(w)
      BY <3>6 DEF FailTurn
    <3>7. ASSUME NEW target, Finalize(w, target) PROVE Kept
      BY <3>7 DEF Finalize
    <3>8. QED
      BY <2>2, <3>1, <3>2, <3>3, <3>4, <3>5, <3>6, <3>7
      DEF Progress, Arrival, Acquire, AcquireAfterReading, Enter, Release, Return, Crash, Vanish,
          Derail, Abandon, StopLoop, DrainReads, HandoffPrepare, HandoffRetry, ReportHandoff,
          DrainWakes, StartCall, CallCompletes, CallRequestsTools, CallFails
  <2>3. QED
    BY <2>1, <2>2
    DEF Next, vars, Operator, TransitionRun, LifecycleOperation, Enqueue, Withdraw, LeaseTime
<1>2. TypeInv /\ [Next]_vars => [Kept]_vars
  BY <1>1
<1>3. QED
  BY TypeInit, TypeNext, <1>2, PTL DEF Spec, StartedTurnIsKept

(***************************************************************************)
(* The queue and the turn that answers it.                                 *)
(***************************************************************************)

\* A selection is a front of the queue: what is queued before one of its messages
\* is in it as well.
Front(s) ==
    /\ \A m \in s : message[m] # "absent"
    /\ \A m \in s : \A n \in Pending : n < m => n \in s

\* Every selection that a worker or an open handoff operation holds was a front of
\* the queue when it was made, and is one still.
SelectionsAreFronts ==
    /\ \A s \in handoffs : Front(s)
    /\ \A w \in Workers : Front(worker[w].selection)

\* Messages are only closed with the Run.
ClosedWithTheRun ==
    (\E m \in Messages : message[m] = "closed") => runStatus \in {"failed", "cancelled"}

QueueInv ==
    /\ PreparedIsBound
    /\ EndedRunsOweNothing
    /\ SelectionsAreFronts
    /\ ClosedWithTheRun

\* Messages join the queue at its end and, once they have, never become absent.
MessagesMoveOn ==
    \A m \in Messages :
        /\ message[m] # "absent" => message'[m] # "absent"
        /\ m \in Pending' => \/ m \in Pending
                             \/ \A n \in Messages : message[n] # "absent" => n < m

LEMMA MessagesStep ==
    ASSUME TypeInv, [Next]_vars
    PROVE  MessagesMoveOn
<1> USE DEF MessagesMoveOn, Pending
<1>0. message \in [Messages -> MessageStatuses]
  BY DEF TypeInv, TypeOK, MessageStatuses
<1>1. CASE UNCHANGED message
  BY <1>1
<1>2. ASSUME CloseSteering PROVE MessagesMoveOn
  BY <1>0, <1>2 DEF CloseSteering, queueVars
<1>3. ASSUME NEW s, SteeringFollows(s) PROVE MessagesMoveOn
  BY <1>1, <1>2, <1>3 DEF SteeringFollows, queueVars
<1>4. ASSUME NEW m, CommitSteering(m) PROVE MessagesMoveOn
  BY <1>0, <1>4 DEF CommitSteering, queueVars
<1>5. CASE Enqueue
  <2>1. PICK m \in Messages :
            /\ \A n \in Messages : message[n] = "absent" <=> m <= n
            /\ message' = [message EXCEPT ![m] = "pending"]
    BY <1>5 DEF Enqueue
  <2>2. \A n \in Messages : message[n] # "absent" => n < m
    BY <2>1 DEF Messages
  <2>3. QED
    BY <1>0, <2>1, <2>2
<1>6. ASSUME NEW m \in Messages, Withdraw(m) PROVE MessagesMoveOn
  BY <1>0, <1>6 DEF Withdraw
<1>7. ASSUME NEW w \in Workers, Progress(w) \/ Arrival(w) PROVE MessagesMoveOn
  <2>1. CASE CompleteTurn(w)
    BY <1>4, <2>1 DEF CompleteTurn
  <2>2. ASSUME NEW target, Finalize(w, target) PROVE MessagesMoveOn
    BY <1>3, <2>2 DEF Finalize
  <2>3. QED
    BY <1>1, <1>7, <2>1, <2>2
    DEF Progress, Arrival, Acquire, AcquireAfterReading, Enter, Release, Return, Crash, Vanish,
        Derail, Abandon, StopLoop, DrainReads, HandoffPrepare, HandoffRetry, ReportHandoff,
        DrainWakes, StartCall, CallCompletes, CallRequestsTools, CallFails, CallBreaksProtocol,
        EndCall, BindInput, RecoverTurn, StartTurn, FailTurn
<1>8. QED
  BY <1>1, <1>3, <1>5, <1>6, <1>7 DEF Next, vars, Operator, TransitionRun, LifecycleOperation, LeaseTime

LEMMA FrontKept ==
    ASSUME MessagesMoveOn, NEW s \in SUBSET Messages, Front(s)
    PROVE  Front(s)'
<1>1. ASSUME NEW m \in s PROVE message'[m] # "absent"
  BY <1>1 DEF Front, MessagesMoveOn
<1>2. ASSUME NEW m \in s, NEW n \in Pending', n < m PROVE n \in s
  <2>1. n \in Messages
    BY DEF Pending
  <2>2. n \in Pending
    BY <1>2, <2>1 DEF Front, MessagesMoveOn, Messages
  <2>3. QED
    BY <1>2, <2>2 DEF Front
<1>3. QED
  BY <1>1, <1>2 DEF Front

\* Where the selections that a worker's step leaves come from.
SelectionsMoveOn(w) ==
    /\ \A s \in handoffs' : s \in handoffs \/ Front(s)
    /\ \/ worker'[w].selection = worker[w].selection
       \/ \E s \in SUBSET Messages : worker'[w].selection = s /\ (s \in handoffs \/ Front(s))

LEMMA SelectionStep ==
    ASSUME TypeInv, NEW w \in Workers, Progress(w) \/ Arrival(w)
    PROVE  SelectionsMoveOn(w)
<1> USE DEF SelectionsMoveOn
<1>0. /\ worker \in [Workers -> Worker]
      /\ worker[w] \in Worker
      /\ handoffs \in SUBSET SUBSET Messages
  BY DEF TypeInv, TypeOK
<1>1. ASSUME NEW p, Goto(w, p) \/ Stage(w, p)
      PROVE  worker'[w].selection = worker[w].selection
  BY <1>0, <1>1, WorkerShape DEF Goto, Stage
<1>2. ASSUME NEW mode, NEW p, Enter(w, mode, p)
      PROVE  worker'[w].selection = worker[w].selection /\ handoffs' = handoffs
  BY <1>0, <1>2, WorkerShape DEF Enter
<1>3. ASSUME worker' = [worker EXCEPT ![w] = Idle], handoffs' = handoffs
      PROVE  SelectionsMoveOn(w)
  <2>1. worker'[w].selection = {} /\ Front({}) /\ {} \in SUBSET Messages
    BY <1>0, <1>3 DEF Idle, Front
  <2>2. QED
    BY <1>3, <2>1
<1>4. CASE Acquire(w) \/ AcquireAfterReading(w)
  BY <1>2, <1>4 DEF Acquire, AcquireAfterReading
<1>5. CASE Release(w) \/ Return(w) \/ Crash(w)
  BY <1>3, <1>5 DEF Release, Return, Crash, Vanish
<1>6. CASE RecoverTurn(w) \/ StartTurn(w)
  BY <1>0, <1>6, WorkerShape DEF RecoverTurn, StartTurn, EnterTurn
<1>7. CASE CallCompletes(w)
  BY <1>0, <1>7, WorkerShape DEF CallCompletes, EndCall
<1>8. CASE DrainReads(w)
  BY <1>0, <1>8, WorkerShape DEF DrainReads
<1>9. CASE HandoffPrepare(w)
  <2>1. PICK limit \in Pending :
            /\ handoffs' = handoffs \cup {{m \in Pending : m <= limit}}
            /\ worker' = [worker EXCEPT ![w] = [@ EXCEPT !.pc = "waiting", !.mode = "handoff",
                              !.selection = {m \in Pending : m <= limit}]]
    BY <1>9 DEF HandoffPrepare
  <2> DEFINE s == {m \in Pending : m <= limit}
  <2>2. s \in SUBSET Messages /\ Front(s)
    BY DEF Front, Pending, Messages
  <2>3. worker'[w].selection = s
    BY <1>0, <2>1, WorkerShape
  <2>4. QED
    BY <2>1, <2>2, <2>3
<1>10. CASE HandoffRetry(w)
  BY <1>0, <1>10, WorkerShape DEF HandoffRetry
<1>11. CASE CompleteTurn(w)
  BY <1>1, <1>11 DEF CompleteTurn
<1>12. QED
  BY <1>1, <1>4, <1>5, <1>6, <1>7, <1>8, <1>9, <1>10, <1>11
  DEF Progress, Arrival, Derail, Abandon, StopLoop, ReportHandoff, DrainWakes, StartCall,
      CallRequestsTools, CallFails, CallBreaksProtocol, EndCall, BindInput, FailTurn, Finalize

LEMMA SelectionsNext ==
    ASSUME TypeInv, TypeInv', SelectionsAreFronts, [Next]_vars
    PROVE  SelectionsAreFronts'
<1>0. /\ handoffs \in SUBSET SUBSET Messages
      /\ handoffs' \in SUBSET SUBSET Messages
      /\ \A v \in Workers : worker[v].selection \in SUBSET Messages
  <2>1. \A v \in Workers : worker[v] \in Worker
    BY DEF TypeInv, TypeOK
  <2>2. QED
    BY <2>1, WorkerShape DEF TypeInv, TypeOK
<1>1. ASSUME NEW s \in SUBSET Messages, Front(s) \/ s \in handoffs PROVE Front(s)'
  BY <1>1, MessagesStep, FrontKept DEF SelectionsAreFronts
<1>2. ASSUME NEW v \in Workers, worker'[v].selection = worker[v].selection
      PROVE  Front(worker[v].selection)'
  <2>1. PICK s \in SUBSET Messages : worker[v].selection = s /\ Front(s)
    BY <1>0 DEF SelectionsAreFronts
  <2>2. Front(s)'
    BY <1>1, <2>1
  <2>3. QED
    BY <1>2, <2>1, <2>2
<1>3. CASE UNCHANGED <<worker, handoffs>>
  BY <1>0, <1>1, <1>2, <1>3 DEF SelectionsAreFronts
<1>4. ASSUME NEW w \in Workers, Progress(w) \/ Arrival(w) PROVE SelectionsAreFronts'
  <2>1. ASSUME NEW s \in handoffs' PROVE Front(s)'
    BY <1>0, <1>1, <1>4, <2>1, SelectionStep DEF SelectionsMoveOn
  <2>2. ASSUME NEW v \in Workers PROVE Front(worker[v].selection)'
    <3>1. CASE worker'[v].selection = worker[v].selection
      BY <1>2, <3>1
    <3>2. CASE worker'[v].selection # worker[v].selection
      <4>1. v = w
        BY <1>4, <3>2, WorkerStep
      <4>2. PICK s \in SUBSET Messages :
                worker'[v].selection = s /\ (s \in handoffs \/ Front(s))
        BY <1>4, <3>2, <4>1, SelectionStep DEF SelectionsMoveOn
      <4>3. Front(s)'
        BY <1>1, <4>2
      <4>4. QED
        BY <4>2, <4>3
    <3>3. QED
      BY <3>1, <3>2
  <2>3. QED
    BY <2>1, <2>2 DEF SelectionsAreFronts
<1>5. QED
  BY <1>3, <1>4 DEF Next, vars, Operator, TransitionRun, LifecycleOperation, Enqueue, Withdraw, LeaseTime

NothingPrepared == \A a \in Attempts : delivery[a].status # "prepared"

\* What a prepared delivery is bound to.
LEMMA PreparedMessage ==
    ASSUME TypeInv, PreparedIsBound
    PROVE  /\ \A a \in Attempts : delivery[a].status = "prepared" =>
                  /\ a = ck.attempt
                  /\ Prepared(ck.attempt) = delivery[a].message
                  /\ Prepared(ck.attempt) # 0
           /\ Prepared(ck.attempt) # 0 =>
                  /\ ck.attempt \in Attempts
                  /\ delivery[ck.attempt].status = "prepared"
                  /\ Prepared(ck.attempt) \in Oldest(Pending)
<1>1. ck.attempt \in AttemptsOrNone
  BY CheckpointShape DEF TypeInv, TypeOK
<1>2. ck.attempt # 0 => ck.attempt \in Attempts
  BY <1>1, SupervisorConstants DEF Attempts, AttemptsOrNone
<1>3. QED
  BY <1>2 DEF PreparedIsBound, Prepared, Pending, Messages, Attempts

\* A step that leaves a prepared delivery, its attempt and its input alone, and
\* withdraws no message from under it.
LEMMA BoundKept ==
    ASSUME TypeInv, PreparedIsBound, MessagesMoveOn,
           UNCHANGED delivery,
           Prepared(ck.attempt) # 0 =>
               /\ ck'.attempt = ck.attempt
               /\ ck'.input = ck.input
               /\ ck'.phase \in {"turn_started", "turn_failed"}
               /\ message'[Prepared(ck.attempt)] = "pending"
    PROVE  PreparedIsBound'
<1> SUFFICES ASSUME NEW a \in Attempts, delivery[a].status = "prepared"
             PROVE  /\ a = ck'.attempt
                    /\ ck'.phase \in {"turn_started", "turn_failed"}
                    /\ ck'.input = delivery[a].message
                    /\ delivery[a].message \in Pending'
                    /\ delivery[a].message \in Oldest(Pending')
  BY DEF PreparedIsBound, Oldest, Pending
<1> DEFINE m == delivery[a].message
<1>1. /\ a = ck.attempt /\ Prepared(ck.attempt) = m /\ m # 0
      /\ ck.input = m
      /\ m \in Pending /\ m \in Messages
      /\ \A n \in Pending : m <= n
  BY PreparedMessage DEF PreparedIsBound, Pending, Oldest
<1>2. m \in Pending'
  BY <1>1 DEF Pending
<1>3. \A n \in Pending' : m <= n
  <2>1. message[m] # "absent"
    BY <1>1 DEF Pending
  <2>2. ASSUME NEW n \in Pending' PROVE m <= n
    <3>1. n \in Messages /\ (n \in Pending \/ m < n)
      BY <1>1, <2>1 DEF MessagesMoveOn, Pending
    <3>2. QED
      BY <1>1, <3>1 DEF Messages
  <2>3. QED
    BY <2>2
<1>4. QED
  BY <1>1, <1>2, <1>3 DEF Oldest

\* Once the failed delivery is superseded, none is left in progress.
LEMMA SupersededNothingPrepared ==
    ASSUME TypeInv, PreparedIsBound, ck.phase \in {"idle", "waiting", "turn_failed"}
    PROVE  \A a \in Attempts : Superseded[a].status # "prepared"
<1>1. delivery \in [Attempts -> Delivery]
  BY DEF TypeInv, TypeOK
<1>2. \A a \in Attempts : [delivery[a] EXCEPT !.status = "superseded"].status = "superseded"
  BY <1>1 DEF Delivery
<1>3. ASSUME NEW a \in Attempts, delivery[a].status = "prepared"
      PROVE  a = ck.attempt /\ FailedMessage # 0
  BY <1>3, PreparedMessage DEF FailedMessage, PreparedIsBound
<1>4. QED
  BY <1>1, <1>2, <1>3 DEF Superseded

\* The message a new attempt takes from the queue is the oldest, whether the failed
\* delivery, a handed over selection or nobody prefers it.
LEMMA ChosenIsOldest ==
    ASSUME TypeInv, PreparedIsBound, SelectionsAreFronts, NEW w \in Workers,
           NEW r \in BeginRequests(w), ck.phase \in {"idle", "waiting", "turn_failed"},
           NEW m \in NextSteering(IF r.required # 0 THEN r.required ELSE FailedMessage)
    PROVE  m \in Oldest(Pending)
<1> DEFINE preferred == IF r.required # 0 THEN r.required ELSE FailedMessage
<1>1. \A a \in Attempts : Superseded[a].status # "prepared"
  BY SupersededNothingPrepared
<1>2. m \in Oldest(Eligible(preferred)) /\ m \in Pending /\ m \in Messages
  BY DEF NextSteering, Oldest, Eligible, Pending
<1>3. CASE preferred = 0
  <2>1. Eligible(preferred) = Pending
    BY <1>1, <1>3 DEF Eligible
  <2>2. QED
    BY <1>1, <1>2, <2>1
<1>4. CASE r.required = 0 /\ preferred # 0
  <2>1. m = FailedMessage /\ FailedMessage # 0
    BY <1>2, <1>4 DEF Oldest, Eligible
  <2>2. QED
    BY <1>1, <2>1, PreparedMessage DEF FailedMessage
<1>5. CASE r.required # 0
  <2>1. m = r.required
    BY <1>2, <1>5 DEF Oldest, Eligible
  <2>2. m \in Oldest(worker[w].selection \cap Pending)
    BY <1>5, <2>1 DEF BeginRequests
  <2>3. ASSUME NEW n \in Pending PROVE m <= n
    <3>1. n \in Messages /\ m \in Messages
      BY <1>2 DEF Pending
    <3>2. CASE n < m
      BY <2>2, <2>3, <3>2 DEF SelectionsAreFronts, Front, Oldest
    <3>3. QED
      BY <3>1, <3>2 DEF Messages
  <2>4. QED
    BY <1>1, <1>2, <2>3 DEF Oldest
<1>6. QED
  BY <1>3, <1>4, <1>5

\* A Run that fails or is cancelled leaves neither a message nor a delivery.
LEMMA CloseSteeringEffect ==
    ASSUME TypeInv, PreparedIsBound, CloseSteering
    PROVE  /\ NothingPrepared'
           /\ Pending' = {}
<1>0. /\ delivery \in [Attempts -> Delivery]
      /\ message \in [Messages -> MessageStatuses]
  BY DEF TypeInv, TypeOK, MessageStatuses
<1>1. CASE Pending = {}
  BY <1>1 DEF CloseSteering, PreparedIsBound, NothingPrepared, queueVars, Pending
<1>2. CASE Pending # {}
  <2>1. \A a \in Attempts : [delivery[a] EXCEPT !.status = "cancelled"].status = "cancelled"
    BY <1>0 DEF Delivery
  <2>2. NothingPrepared'
    BY <1>0, <1>2, <2>1 DEF CloseSteering, NothingPrepared
  <2>3. Pending' = {}
    BY <1>0, <1>2 DEF CloseSteering, Pending
  <2>4. QED
    BY <2>2, <2>3
<1>3. QED
  BY <1>1, <1>2

\* A completed turn leaves no delivery, and of its message nothing in the queue.
LEMMA CommitSteeringEffect ==
    ASSUME TypeInv, PreparedIsBound, CommitSteering(Prepared(ck.attempt))
    PROVE  /\ NothingPrepared'
           /\ Pending' = Pending \ {Prepared(ck.attempt)}
<1>0. /\ delivery \in [Attempts -> Delivery]
      /\ message \in [Messages -> MessageStatuses]
  BY DEF TypeInv, TypeOK, MessageStatuses
<1> DEFINE m == Prepared(ck.attempt)
<1>1. CASE m = 0
  BY <1>1, PreparedMessage DEF CommitSteering, queueVars, NothingPrepared, Pending, Messages
<1>2. CASE m # 0
  <2>1. ck.attempt \in Attempts /\ m \in Messages
    BY <1>2, PreparedMessage DEF Oldest, Pending
  <2>2. delivery' = [delivery EXCEPT ![ck.attempt] =
                         [delivery[ck.attempt] EXCEPT !.status = "committed"]]
    BY <1>2 DEF CommitSteering
  <2>3. [delivery[ck.attempt] EXCEPT !.status = "committed"].status = "committed"
    BY <1>0, <2>1 DEF Delivery
  <2>4. NothingPrepared'
    BY <1>0, <2>1, <2>2, <2>3, PreparedMessage DEF NothingPrepared
  <2>5. Pending' = Pending \ {m}
    BY <1>0, <1>2, <2>1 DEF CommitSteering, Pending
  <2>6. QED
    BY <2>4, <2>5
<1>3. QED
  BY <1>1, <1>2

LEMMA NothingIsBound ==
    ASSUME NothingPrepared'
    PROVE  PreparedIsBound'
  BY DEF NothingPrepared, PreparedIsBound

LEMMA StartIsBound ==
    ASSUME TypeInv, QueueInv, NEW w \in Workers, StartTurn(w)
    PROVE  PreparedIsBound'
<1>1. attempts' \in Attempts /\ message' = message
  BY SupervisorConstants DEF StartTurn, TypeInv, TypeOK, Attempts
<1>2. PICK r \in BeginRequests(w), m \in Messages \cup {0} :
          /\ m # 0 => m \in NextSteering(IF r.required # 0 THEN r.required ELSE FailedMessage)
          /\ ck' = [ck EXCEPT !.generation = worker[w].generation, !.phase = "turn_started",
                              !.attempt = attempts', !.repair = "none",
                              !.input = IF m # 0 THEN m ELSE InputFor(r)]
          /\ delivery' = IF m = 0 THEN Superseded
                         ELSE [Superseded EXCEPT ![attempts'] =
                                  [message |-> m, status |-> "prepared"]]
  BY ChosenType DEF StartTurn
<1>3. \A a \in Attempts : Superseded[a].status # "prepared"
  BY SupersededNothingPrepared DEF StartTurn, QueueInv
<1>4. CASE m = 0
  BY <1>2, <1>3, <1>4, NothingIsBound DEF NothingPrepared
<1>5. CASE m # 0
  <2>1. m \in Oldest(Pending) /\ m \in Pending
    BY <1>2, <1>5, ChosenIsOldest DEF StartTurn, QueueInv, Oldest
  <2>2. /\ ck'.attempt = attempts'
        /\ ck'.phase = "turn_started"
        /\ ck'.input = m
    BY <1>2, <1>5, CheckpointShape DEF TypeInv, TypeOK
  <2>3. Superseded \in [Attempts -> Delivery]
    BY DeliveryUpdates DEF Superseded, DeliveryStatuses, TypeInv, TypeOK
  <2>4. /\ delivery'[attempts'] = [message |-> m, status |-> "prepared"]
        /\ \A a \in Attempts : a # attempts' => delivery'[a] = Superseded[a]
    BY <1>1, <1>2, <1>5, <2>3
  <2>5. QED
    BY <1>1, <1>3, <2>1, <2>2, <2>4 DEF PreparedIsBound, Oldest, Pending
<1>6. QED
  BY <1>4, <1>5

LEMMA BoundNext ==
    ASSUME TypeInv, QueueInv, [Next]_vars
    PROVE  PreparedIsBound'
<1>0. /\ PreparedIsBound
      /\ MessagesMoveOn
      /\ ck \in Checkpoint
      /\ message \in [Messages -> MessageStatuses]
  BY MessagesStep DEF QueueInv, TypeInv, TypeOK, MessageStatuses
<1>1. Prepared(ck.attempt) # 0 =>
          /\ Prepared(ck.attempt) \in Messages
          /\ message[Prepared(ck.attempt)] = "pending"
          /\ ck.input = Prepared(ck.attempt)
          /\ ck.phase \in {"turn_started", "turn_failed"}
  BY <1>0, PreparedMessage DEF PreparedIsBound, Pending, Oldest
<1>2. ASSUME UNCHANGED <<ck, message, delivery>> PROVE PreparedIsBound'
  BY <1>0, <1>1, <1>2, BoundKept
<1>3. ASSUME NEW s, SteeringFollows(s), UNCHANGED ck PROVE PreparedIsBound'
  <2>1. CASE s \in {"failed", "cancelled"}
    BY <1>0, <1>3, <2>1, CloseSteeringEffect, NothingIsBound DEF SteeringFollows
  <2>2. CASE s \notin {"failed", "cancelled"}
    BY <1>2, <1>3, <2>2 DEF SteeringFollows, queueVars
  <2>3. QED
    BY <2>1, <2>2
<1>4. CASE Enqueue
  <2>1. PICK m \in Messages : message' = [message EXCEPT ![m] = "pending"]
    BY <1>4 DEF Enqueue
  <2>2. Prepared(ck.attempt) # 0 => message'[Prepared(ck.attempt)] = "pending"
    BY <1>0, <1>1, <2>1
  <2>3. QED
    BY <1>0, <1>1, <1>4, <2>2, BoundKept DEF Enqueue
<1>5. ASSUME NEW m \in Messages, Withdraw(m) PROVE PreparedIsBound'
  <2>1. Prepared(ck.attempt) # 0 => m # Prepared(ck.attempt)
    BY <1>0, <1>5, PreparedMessage DEF Withdraw
  <2>2. QED
    BY <1>0, <1>1, <1>5, <2>1, BoundKept DEF Withdraw
<1>6. ASSUME NEW w \in Workers, RecoverTurn(w) PROVE PreparedIsBound'
  <2>1. PICK i : /\ ck' = [ck EXCEPT !.generation = worker[w].generation, !.input = i]
                 /\ ck.input # NoInput => i = ck.input
    BY <1>6 DEF RecoverTurn, MayRecover
  <2>2. /\ ck'.attempt = ck.attempt /\ ck'.phase = ck.phase
        /\ ck.input # NoInput => ck'.input = ck.input
    BY <1>0, <2>1, CheckpointShape
  <2>3. UNCHANGED <<message, delivery>>
    BY <1>6 DEF RecoverTurn
  <2>4. QED
    BY <1>0, <1>1, <2>2, <2>3, BoundKept DEF NoInput
<1>7. ASSUME NEW w \in Workers, BindInput(w) PROVE PreparedIsBound'
  <2>1. Prepared(ck.attempt) = 0
    BY <1>1, <1>7, SupervisorConstants DEF BindInput, NoInput, OwnText, Messages
  <2>2. QED
    BY <1>0, <1>7, <2>1, BoundKept DEF BindInput
<1>8. ASSUME NEW w \in Workers, CallBreaksProtocol(w) PROVE PreparedIsBound'
  <2>1. PICK q : ck' = [ck EXCEPT !.repair = q]
    BY <1>8 DEF CallBreaksProtocol
  <2>2. ck'.attempt = ck.attempt /\ ck'.phase = ck.phase /\ ck'.input = ck.input
    BY <1>0, <2>1, CheckpointShape
  <2>3. UNCHANGED <<message, delivery>>
    BY <1>8 DEF CallBreaksProtocol, EndCall
  <2>4. QED
    BY <1>0, <1>1, <2>2, <2>3, BoundKept
<1>9. ASSUME NEW w \in Workers, CompleteTurn(w) PROVE PreparedIsBound'
  BY <1>0, <1>9, CommitSteeringEffect, NothingIsBound DEF CompleteTurn
<1>10. ASSUME NEW w \in Workers, FailTurn(w) PROVE PreparedIsBound'
  <2>1. ck'.attempt = ck.attempt /\ ck'.phase = "turn_failed" /\ ck'.input = ck.input
    BY <1>0, <1>10, CheckpointShape DEF FailTurn
  <2>2. UNCHANGED <<message, delivery>>
    BY <1>10 DEF FailTurn
  <2>3. QED
    BY <1>0, <1>1, <2>1, <2>2, BoundKept
<1>11. ASSUME NEW w \in Workers, NEW target \in {"completed", "failed"}, Finalize(w, target)
       PROVE  PreparedIsBound'
  <2>1. CASE target = "failed"
    BY <1>0, <1>11, <2>1, CloseSteeringEffect, NothingIsBound DEF Finalize, SteeringFollows
  <2>2. CASE target = "completed"
    <3>1. NothingPrepared /\ UNCHANGED delivery
      BY <1>0, <1>11, <2>2
      DEF Finalize, SteeringFollows, queueVars, PreparedIsBound, NothingPrepared
    <3>2. QED
      BY <3>1, NothingIsBound DEF NothingPrepared
  <2>3. QED
    BY <2>1, <2>2
<1>12. ASSUME NEW w \in Workers, Progress(w) \/ Arrival(w) PROVE PreparedIsBound'
  BY <1>2, <1>6, <1>7, <1>8, <1>9, <1>10, <1>11, <1>12, StartIsBound
  DEF Progress, Arrival, Acquire, AcquireAfterReading, Enter, Release, Return, Crash, Vanish,
      Derail, Abandon, StopLoop, DrainReads, HandoffPrepare, HandoffRetry, ReportHandoff,
      DrainWakes, StartCall, CallCompletes, CallRequestsTools, CallFails, EndCall
<1>13. QED
  BY <1>2, <1>3, <1>4, <1>5, <1>12
  DEF Next, vars, Operator, TransitionRun, LifecycleOperation, LeaseTime

\* A Run that has ended stays as it ended.
LEMMA EndedStaysEnded ==
    ASSUME [Next]_vars, Terminal(runStatus)
    PROVE  runStatus' = runStatus
<1> USE DEF Terminal
<1>1. ASSUME NEW to, to # runStatus, CanTransition(runStatus, to) PROVE FALSE
  BY <1>1 DEF CanTransition, AllowedMoves
<1>2. ASSUME NEW w \in Workers, Progress(w) \/ Arrival(w) PROVE runStatus' = runStatus
  <2>1. CASE CompleteTurn(w)
    BY <2>1 DEF CompleteTurn, ActiveAttempt
  <2>2. ASSUME NEW target, Finalize(w, target) PROVE FALSE
    BY <1>1, <2>2 DEF Finalize
  <2>3. CASE DrainWakes(w)
    BY <1>1, <2>3 DEF DrainWakes
  <2>4. QED
    BY <1>2, <2>1, <2>2, <2>3
    DEF Progress, Arrival, Acquire, AcquireAfterReading, Enter, Release, Return, Crash, Vanish,
        Derail, Abandon, StopLoop, DrainReads, HandoffPrepare, HandoffRetry, ReportHandoff,
        StartCall, CallCompletes, CallRequestsTools, CallFails, CallBreaksProtocol, EndCall,
        BindInput, RecoverTurn, StartTurn, FailTurn
<1>3. ASSUME NEW to, TransitionRun(to) PROVE FALSE
  BY <1>1, <1>3 DEF TransitionRun, MoveRun
<1>4. QED
  BY <1>2, <1>3 DEF Next, vars, Operator, LifecycleOperation, Enqueue, Withdraw, LeaseTime

LEMMA EndedNext ==
    ASSUME TypeInv, QueueInv, [Next]_vars
    PROVE  EndedRunsOweNothing' /\ ClosedWithTheRun'
<1> DEFINE Settled == Pending = {} /\ NothingPrepared
           Closed  == \E m \in Messages : message[m] = "closed"
           Goal    == /\ Terminal(runStatus') => Settled'
                      /\ Closed' => runStatus' \in {"failed", "cancelled"}
<1>0. /\ PreparedIsBound
      /\ Terminal(runStatus) => Settled
      /\ Closed => runStatus \in {"failed", "cancelled"}
      /\ message \in [Messages -> MessageStatuses]
  BY DEF QueueInv, EndedRunsOweNothing, ClosedWithTheRun, NothingPrepared, TypeInv, TypeOK,
         MessageStatuses
<1>1. Pending = {} => NothingPrepared
  BY <1>0 DEF PreparedIsBound, NothingPrepared
<1>2. UNCHANGED queueVars /\ (Terminal(runStatus') => Terminal(runStatus)) => Goal
  BY <1>0, EndedStaysEnded DEF queueVars, Terminal, Pending, NothingPrepared
<1>3. ASSUME NEW s, SteeringFollows(s), runStatus' = s, ~Terminal(runStatus) PROVE Goal
  <2>1. CASE s \in {"failed", "cancelled"}
    BY <1>0, <1>3, <2>1, CloseSteeringEffect DEF SteeringFollows
  <2>2. CASE s = "completed"
    BY <1>0, <1>1, <1>3, <2>2
    DEF SteeringFollows, queueVars, Terminal, Pending, NothingPrepared
  <2>3. CASE s \notin {"failed", "cancelled", "completed"}
    BY <1>0, <1>3, <2>3 DEF SteeringFollows, queueVars, Terminal
  <2>4. QED
    BY <2>1, <2>2, <2>3
<1>4. ASSUME NEW to, to # runStatus, CanTransition(runStatus, to) PROVE ~Terminal(runStatus)
  BY <1>4 DEF CanTransition, AllowedMoves, Terminal
<1>5. ASSUME Enqueue \/ \E m \in Messages : Withdraw(m) PROVE Goal
  <2>1. PICK m \in Messages, s \in {"pending", "withdrawn"} :
            message' = [message EXCEPT ![m] = s]
    BY <1>5 DEF Enqueue, Withdraw
  <2>2. Closed' => Closed
    BY <1>0, <2>1
  <2>3. runStatus' = runStatus /\ ~Terminal(runStatus)
    BY <1>5 DEF Enqueue, Withdraw, Terminal
  <2>4. QED
    BY <1>0, <2>2, <2>3 DEF Terminal
<1>6. ASSUME NEW w \in Workers, CompleteTurn(w) PROVE Goal
  <2>1. /\ NothingPrepared'
        /\ Pending' = Pending \ {Prepared(ck.attempt)}
    BY <1>0, <1>6, CommitSteeringEffect DEF CompleteTurn
  <2>2. ~Terminal(runStatus)
    BY <1>6 DEF CompleteTurn, ActiveAttempt, Terminal
  <2>3. Terminal(runStatus') => Pending \subseteq {Prepared(ck.attempt)}
    BY <1>6 DEF CompleteTurn, Terminal
  <2>4. Closed' => Closed
    BY <1>0, <1>6 DEF CompleteTurn, CommitSteering, queueVars
  <2>5. QED
    BY <1>0, <2>1, <2>2, <2>3, <2>4 DEF Terminal
<1>7. ASSUME NEW w \in Workers, NEW target \in {"completed", "failed"}, Finalize(w, target)
      PROVE  Goal
  BY <1>3, <1>4, <1>7 DEF Finalize
<1> HIDE DEF Goal
<1>8. ASSUME NEW w \in Workers, Progress(w) \/ Arrival(w) PROVE Goal
  <2>1. ASSUME StartTurn(w) PROVE Goal
    <3>1. runStatus = "running" /\ runStatus' = runStatus /\ message' = message
      BY <2>1 DEF StartTurn, BeginGuard
    <3>2. QED
      BY <1>0, <3>1 DEF Goal, Terminal
  <2>2. ASSUME RecoverTurn(w) PROVE Goal
    <3>1. UNCHANGED queueVars /\ runStatus' = runStatus
      BY <2>2 DEF RecoverTurn, queueVars
    <3>2. QED
      BY <1>2, <3>1
  <2>3. ASSUME ~CompleteTurn(w), ~Finalize(w, "completed"), ~Finalize(w, "failed"),
               ~StartTurn(w), ~RecoverTurn(w)
        PROVE  UNCHANGED queueVars /\ (Terminal(runStatus') => Terminal(runStatus))
    BY <1>8, <2>3
    DEF Progress, Arrival, Acquire, AcquireAfterReading, Enter, Release, Return, Crash, Vanish,
        Derail, Abandon, StopLoop, DrainReads, HandoffPrepare, HandoffRetry, ReportHandoff,
        DrainWakes, StartCall, CallCompletes, CallRequestsTools, CallFails, CallBreaksProtocol,
        EndCall, BindInput, FailTurn, queueVars, Terminal
  <2>4. QED
    BY <1>2, <1>6, <1>7, <2>1, <2>2, <2>3
<1>9. ASSUME NEW to, TransitionRun(to) PROVE Goal
  BY <1>3, <1>4, <1>9 DEF TransitionRun, MoveRun
<1>10. ASSUME LifecycleOperation \/ LeaseTime \/ UNCHANGED vars PROVE Goal
  BY <1>2, <1>10 DEF LifecycleOperation, MoveRun, LeaseTime, vars, queueVars, Terminal
<1>11. Goal
  BY <1>5, <1>8, <1>9, <1>10 DEF Next, Operator
<1>12. QED
  BY <1>11 DEF Goal, EndedRunsOweNothing, ClosedWithTheRun, NothingPrepared, Terminal

\* The inductive invariant of the queue.
LEMMA QueueInvariant == Spec => [](TypeInv /\ QueueInv)
<1>1. Init => QueueInv
  BY DEF Init, QueueInv, PreparedIsBound, EndedRunsOweNothing, SelectionsAreFronts,
         ClosedWithTheRun, Front, Idle, Terminal
<1>2. ASSUME TypeInv, QueueInv, [Next]_vars PROVE QueueInv'
  <2>1. TypeInv'
    BY <1>2, TypeNext
  <2>2. SelectionsAreFronts'
    BY <1>2, <2>1, SelectionsNext DEF QueueInv
  <2>3. QED
    BY <1>2, <2>2, BoundNext, EndedNext DEF QueueInv
<1>3. TypeInv /\ QueueInv /\ [Next]_vars => QueueInv'
  BY <1>2
<1>4. QED
  BY TypeInit, TypeNext, <1>1, <1>3, PTL DEF Spec

\* At any number of messages, attempts and workers: the one delivery in progress
\* is that of the checkpoint's attempt, is its input, and is the oldest message.
THEOREM PreparedIsAlwaysBound == Spec => []PreparedIsBound
<1>1. QueueInv => PreparedIsBound
  BY DEF QueueInv
<1>2. QED
  BY QueueInvariant, <1>1, PTL

\* However a Run ends, nobody is left waiting; if it completed, nobody was turned
\* away.
THEOREM EndedRunsNeverOwe == Spec => []EndedRunsOweNothing
<1>1. QueueInv => EndedRunsOweNothing
  BY DEF QueueInv
<1>2. QED
  BY QueueInvariant, <1>1, PTL

(***************************************************************************)
(* Attempts.                                                               *)
(***************************************************************************)

\* Attempts are numbered as they are started: neither the checkpoint, nor a worker,
\* nor a delivery knows one that has not been.
AttemptsAreCounted ==
    /\ ck.attempt <= attempts
    /\ \A w \in Workers : worker[w].attempt <= attempts
    /\ \A a \in Attempts : delivery[a].status # "absent" => a <= attempts

\* Who is in a turn after a worker's step, and with what.
LEMMA AttemptStep ==
    ASSUME TypeInv, NEW w \in Workers, Progress(w) \/ Arrival(w)
    PROVE  \/ worker'[w].attempt \in {0, worker[w].attempt}
           \/ (RecoverTurn(w) \/ StartTurn(w)) /\ worker'[w].attempt = ck'.attempt
<1>0. worker \in [Workers -> Worker] /\ worker[w] \in Worker
  BY DEF TypeInv, TypeOK
<1>1. ASSUME NEW p, Goto(w, p) \/ Stage(w, p)
      PROVE  worker'[w].attempt \in {0, worker[w].attempt}
  BY <1>0, <1>1, WorkerShape DEF Goto, Stage
<1>2. ASSUME NEW mode, NEW p, Enter(w, mode, p)
      PROVE  worker'[w].attempt = worker[w].attempt
  BY <1>0, <1>2, WorkerShape DEF Enter
<1>3. CASE Acquire(w) \/ AcquireAfterReading(w)
  BY <1>2, <1>3 DEF Acquire, AcquireAfterReading
<1>4. CASE Release(w) \/ Return(w) \/ Crash(w)
  BY <1>0, <1>4 DEF Release, Return, Crash, Vanish, Idle
<1>5. CASE RecoverTurn(w) \/ StartTurn(w)
  BY <1>0, <1>5, WorkerShape DEF RecoverTurn, StartTurn, EnterTurn
<1>6. CASE CallCompletes(w)
  BY <1>0, <1>6, WorkerShape DEF CallCompletes
<1>7. CASE DrainReads(w) \/ HandoffPrepare(w) \/ HandoffRetry(w)
  <2>1. CASE DrainReads(w)
    BY <1>0, <2>1, WorkerShape DEF DrainReads
  <2>2. CASE HandoffPrepare(w)
    BY <1>0, <2>2, WorkerShape DEF HandoffPrepare
  <2>3. CASE HandoffRetry(w)
    BY <1>0, <2>3, WorkerShape DEF HandoffRetry
  <2> QED
    BY <1>7, <2>1, <2>2, <2>3
<1>8. CASE CompleteTurn(w)
  BY <1>1, <1>8 DEF CompleteTurn
<1>9. QED
  BY <1>1, <1>3, <1>4, <1>5, <1>6, <1>7, <1>8
  DEF Progress, Arrival, Derail, Abandon, StopLoop, ReportHandoff, DrainWakes, StartCall,
      CallRequestsTools, CallFails, CallBreaksProtocol, EndCall, BindInput, FailTurn, Finalize

\* What the steps leave of the checkpoint's attempt.
LEMMA CheckpointAttempt ==
    ASSUME TypeInv, [Next]_vars
    PROVE  /\ attempts <= attempts'
           /\ ck'.attempt \in {0, ck.attempt, attempts'}
<1>0. ck \in Checkpoint /\ attempts \in AttemptsOrNone /\ attempts <= attempts
  BY SupervisorConstants DEF TypeInv, TypeOK, AttemptsOrNone
<1>1. ASSUME NEW w \in Workers, Progress(w) \/ Arrival(w), ck' # ck \/ attempts' # attempts
      PROVE  attempts <= attempts' /\ ck'.attempt \in {0, ck.attempt, attempts'}
  <2>1. CASE StartTurn(w)
    <3>1. PICK i : ck' = [ck EXCEPT !.generation = worker[w].generation,
                                    !.phase = "turn_started", !.attempt = attempts',
                                    !.repair = "none", !.input = i]
      BY <2>1 DEF StartTurn
    <3>2. attempts' = attempts + 1
      BY <2>1 DEF StartTurn
    <3>3. ck'.attempt = attempts' /\ attempts <= attempts + 1
      BY <1>0, <3>1, CheckpointShape, SupervisorConstants DEF AttemptsOrNone
    <3> QED
      BY <3>2, <3>3
  <2>2. CASE RecoverTurn(w)
    <3>1. PICK i : ck' = [ck EXCEPT !.generation = worker[w].generation, !.input = i]
      BY <2>2 DEF RecoverTurn
    <3> QED
      BY <1>0, <2>2, <3>1, CheckpointShape DEF RecoverTurn
  <2>3. CASE CompleteTurn(w)
    <3>1. PICK p : ck' = [ck EXCEPT !.turn = @ + 1, !.phase = p, !.attempt = 0,
                                    !.input = NoInput, !.repair = "none"]
      BY <2>3 DEF CompleteTurn
    <3> QED
      BY <1>0, <2>3, <3>1, CheckpointShape DEF CompleteTurn
  <2>4. CASE BindInput(w) \/ CallBreaksProtocol(w) \/ FailTurn(w)
    BY <1>0, <2>4, CheckpointShape DEF BindInput, CallBreaksProtocol, EndCall, FailTurn
  <2>5. ASSUME NEW target, Finalize(w, target)
        PROVE  attempts <= attempts' /\ ck'.attempt \in {0, ck.attempt, attempts'}
    BY <1>0, <2>5, CheckpointShape DEF Finalize
  <2>6. QED
    BY <1>1, <2>1, <2>2, <2>3, <2>4, <2>5
    DEF Progress, Arrival, Acquire, AcquireAfterReading, Enter, Release, Return, Crash, Vanish,
        Derail, Abandon, StopLoop, DrainReads, HandoffPrepare, HandoffRetry, ReportHandoff,
        DrainWakes, StartCall, CallCompletes, CallRequestsTools, CallFails, EndCall
<1>2. CASE UNCHANGED <<ck, attempts>>
  BY <1>0, <1>2
<1>3. QED
  BY <1>1, <1>2
  DEF Next, vars, Operator, TransitionRun, LifecycleOperation, Enqueue, Withdraw, LeaseTime

\* The deliveries that a step may touch: those in progress, and that of a new attempt.
DeliveriesMoveOn ==
    \A a \in Attempts :
        \/ delivery'[a] = delivery[a]
        \/ delivery[a].status = "prepared" /\ delivery'[a].status # "absent"
        \/ attempts' = attempts + 1 /\ a = attempts' /\ delivery'[a].status = "prepared"

LEMMA DeliveriesStep ==
    ASSUME TypeInv, PreparedIsBound, [Next]_vars
    PROVE  DeliveriesMoveOn
<1> USE DEF DeliveriesMoveOn
<1>0. delivery \in [Attempts -> Delivery]
  BY DEF TypeInv, TypeOK
<1>1. CASE UNCHANGED delivery
  BY <1>1
<1>2. ASSUME CloseSteering PROVE DeliveriesMoveOn
  BY <1>0, <1>2 DEF CloseSteering, queueVars, Delivery
<1>3. ASSUME NEW s, SteeringFollows(s) PROVE DeliveriesMoveOn
  BY <1>1, <1>2, <1>3 DEF SteeringFollows, queueVars
<1>4. ASSUME NEW w \in Workers, CompleteTurn(w) PROVE DeliveriesMoveOn
  <2>1. CASE Prepared(ck.attempt) = 0
    BY <1>1, <1>4, <2>1 DEF CompleteTurn, CommitSteering, queueVars
  <2>2. CASE Prepared(ck.attempt) # 0
    <3>1. ck.attempt \in Attempts /\ delivery[ck.attempt].status = "prepared"
      BY <2>2, PreparedMessage
    <3>2. delivery' = [delivery EXCEPT ![ck.attempt] =
                           [delivery[ck.attempt] EXCEPT !.status = "committed"]]
      BY <1>4, <2>2 DEF CompleteTurn, CommitSteering
    <3>3. [delivery[ck.attempt] EXCEPT !.status = "committed"].status = "committed"
      BY <1>0, <3>1 DEF Delivery
    <3> QED
      BY <1>0, <3>1, <3>2, <3>3
  <2> QED
    BY <2>1, <2>2
<1>5. ASSUME NEW w \in Workers, StartTurn(w) PROVE DeliveriesMoveOn
  <2>1. attempts' = attempts + 1
    BY <1>5 DEF StartTurn
  <2>2. PICK m : delivery' = IF m = 0 THEN Superseded
                             ELSE [Superseded EXCEPT ![attempts'] =
                                      [message |-> m, status |-> "prepared"]]
    BY <1>5 DEF StartTurn
  <2>3. /\ Superseded \in [Attempts -> Delivery]
        /\ \A a \in Attempts : \/ Superseded[a] = delivery[a]
                               \/ /\ delivery[a].status = "prepared"
                                  /\ Superseded[a].status = "superseded"
    <3>1. CASE FailedMessage = 0
      BY <1>0, <3>1 DEF Superseded
    <3>2. CASE FailedMessage # 0
      <4>1. ck.attempt \in Attempts /\ delivery[ck.attempt].status = "prepared"
        BY <3>2, PreparedMessage DEF FailedMessage
      <4>2. Superseded = [delivery EXCEPT ![ck.attempt] =
                              [delivery[ck.attempt] EXCEPT !.status = "superseded"]]
        BY <3>2 DEF Superseded
      <4>3. /\ [delivery[ck.attempt] EXCEPT !.status = "superseded"] \in Delivery
            /\ [delivery[ck.attempt] EXCEPT !.status = "superseded"].status = "superseded"
        BY <1>0, <4>1 DEF Delivery
      <4> QED
        BY <1>0, <4>1, <4>2, <4>3
    <3> QED
      BY <3>1, <3>2
  <2> QED
    BY <2>1, <2>2, <2>3
<1>6. ASSUME NEW w \in Workers, Progress(w) \/ Arrival(w) PROVE DeliveriesMoveOn
  <2>1. ASSUME NEW target, Finalize(w, target) PROVE DeliveriesMoveOn
    BY <1>3, <2>1 DEF Finalize
  <2> QED
    BY <1>1, <1>4, <1>5, <1>6, <2>1
    DEF Progress, Arrival, Acquire, AcquireAfterReading, Enter, Release, Return, Crash, Vanish,
        Derail, Abandon, StopLoop, DrainReads, HandoffPrepare, HandoffRetry, ReportHandoff,
        DrainWakes, StartCall, CallCompletes, CallRequestsTools, CallFails, CallBreaksProtocol,
        EndCall, BindInput, RecoverTurn, FailTurn
<1>7. ASSUME NEW to, TransitionRun(to) PROVE DeliveriesMoveOn
  BY <1>3, <1>7 DEF TransitionRun
<1>8. QED
  BY <1>1, <1>6, <1>7 DEF Next, vars, Operator, LifecycleOperation, Enqueue, Withdraw, LeaseTime

LEMMA AttemptsCountedNext ==
    ASSUME TypeInv, TypeInv', PreparedIsBound, AttemptsAreCounted, [Next]_vars
    PROVE  AttemptsAreCounted'
<1>0. /\ attempts \in AttemptsOrNone /\ attempts' \in AttemptsOrNone
      /\ attempts <= attempts' /\ ck.attempt <= attempts
      /\ ck'.attempt \in {0, ck.attempt, attempts'}
      /\ ck.attempt \in AttemptsOrNone
  BY CheckpointAttempt, CheckpointShape
  DEF TypeInv, TypeOK, AttemptsOrNone, AttemptsAreCounted
<1>1. ck'.attempt <= attempts'
  BY <1>0, SupervisorConstants DEF AttemptsOrNone
<1>2. ASSUME NEW v \in Workers PROVE worker'[v].attempt <= attempts'
  <2>0. worker[v].attempt \in AttemptsOrNone /\ worker[v].attempt <= attempts
    <3>1. worker[v] \in Worker
      BY DEF TypeInv, TypeOK
    <3> QED
      BY <3>1, WorkerShape DEF AttemptsAreCounted
  <2>1. CASE worker'[v] = worker[v]
    BY <1>0, <2>0, <2>1, SupervisorConstants DEF AttemptsOrNone
  <2>2. ASSUME NEW w \in Workers, Progress(w) \/ Arrival(w) PROVE worker'[v].attempt <= attempts'
    <3>1. CASE v = w
      <4>1. worker'[v].attempt \in {0, worker[v].attempt, ck'.attempt}
        BY <2>2, <3>1, AttemptStep
      <4> QED
        BY <1>0, <1>1, <2>0, <4>1, SupervisorConstants DEF AttemptsOrNone
    <3> QED
      BY <2>1, <2>2, <3>1, WorkerStep
  <2> QED
    BY <2>1, <2>2
    DEF Next, vars, Operator, TransitionRun, LifecycleOperation, Enqueue, Withdraw, LeaseTime
<1>3. ASSUME NEW a \in Attempts, delivery'[a].status # "absent" PROVE a <= attempts'
  <2>1. delivery[a].status # "absent" => a <= attempts
    BY DEF AttemptsAreCounted
  <2>2. delivery[a].status # "absent" \/ a = attempts'
    BY <1>3, DeliveriesStep DEF DeliveriesMoveOn
  <2> QED
    BY <1>0, <2>1, <2>2, SupervisorConstants DEF Attempts, AttemptsOrNone
<1>4. QED
  BY <1>1, <1>2, <1>3 DEF AttemptsAreCounted

(***************************************************************************)
(* One answer for each committed message.                                  *)
(***************************************************************************)

\* The Session and the queue agree: the turns are numbered in order, one that
\* answers a message answers a committed one, and no two answer the same.
AnswersAreCommitted ==
    /\ Len(transcript) = ck.turn - 1
    /\ \A i \in DOMAIN transcript : transcript[i].turn = i
    /\ \A i \in DOMAIN transcript : transcript[i].message # 0 =>
           /\ message[transcript[i].message] = "committed"
           /\ transcript[i].input = transcript[i].message
    /\ \A i, j \in DOMAIN transcript :
           transcript[i].message # 0 /\ transcript[i].message = transcript[j].message => i = j
    /\ \A m \in Messages : message[m] = "committed" =>
           \E i \in DOMAIN transcript : transcript[i].message = m

\* So do the deliveries and the queue.
DeliveriesAreCommitted ==
    /\ \A a \in Attempts : delivery[a].status = "committed" =>
           /\ delivery[a].message \in Messages
           /\ message[delivery[a].message] = "committed"
    /\ \A a, b \in Attempts :
           /\ delivery[a].status = "committed" /\ delivery[b].status = "committed"
           /\ delivery[a].message = delivery[b].message
           => a = b
    /\ \A m \in Messages : message[m] = "committed" =>
           \E a \in Attempts : delivery[a].status = "committed" /\ delivery[a].message = m

AnswerInv == AttemptsAreCounted /\ AnswersAreCommitted /\ DeliveriesAreCommitted

\* A step that commits nothing.
CommitsNothing ==
    /\ transcript' = transcript /\ ck'.turn = ck.turn
    /\ \A m \in Messages : message'[m] = "committed" <=> message[m] = "committed"
    /\ \A a \in Attempts :
           delivery[a].status = "committed" \/ delivery'[a].status = "committed" =>
               delivery'[a] = delivery[a]

\* What a turn of the Session is.
LEMMA TranscriptType ==
    ASSUME TypeInv, NEW i \in DOMAIN transcript
    PROVE  /\ i \in 1 .. Len(transcript)
           /\ transcript[i].message # 0 => transcript[i].message \in Messages
<1> DEFINE Turn == [turn : 1 .. MaxTurns, input : Inputs, message : 0 .. MaxMessages]
<1>1. transcript \in Seq(Turn)
  BY DEF TypeInv, TypeOK
<1> HIDE DEF Turn
<1>2. i \in 1 .. Len(transcript) /\ transcript[i] \in Turn
  BY <1>1, LenProperties, ElementOfSeq
<1> USE DEF Turn
<1>3. QED
  BY <1>2, SupervisorConstants DEF Messages

LEMMA NothingCommitted ==
    ASSUME TypeInv, AnswersAreCommitted, DeliveriesAreCommitted, CommitsNothing
    PROVE  AnswersAreCommitted' /\ DeliveriesAreCommitted'
<1>1. \A i \in DOMAIN transcript : transcript[i].message # 0 => transcript[i].message \in Messages
  BY TranscriptType
<1>2. AnswersAreCommitted'
  BY <1>1 DEF AnswersAreCommitted, CommitsNothing
<1>3. DeliveriesAreCommitted'
  BY DEF DeliveriesAreCommitted, CommitsNothing
<1>4. QED
  BY <1>2, <1>3

\* Only the completion of a turn commits anything.
LEMMA OthersCommitNothing ==
    ASSUME TypeInv, PreparedIsBound, AttemptsAreCounted, [Next]_vars,
           \A w \in Workers : ~CompleteTurn(w)
    PROVE  CommitsNothing
<1>0. /\ message \in [Messages -> MessageStatuses]
      /\ delivery \in [Attempts -> Delivery]
      /\ ck \in Checkpoint
  BY DEF TypeInv, TypeOK, MessageStatuses
<1> DEFINE SameMessages == \A m \in Messages : message'[m] = "committed" <=> message[m] = "committed"
           SameDeliveries ==
               \A a \in Attempts :
                   delivery[a].status = "committed" \/ delivery'[a].status = "committed" =>
                       delivery'[a] = delivery[a]
<1>1. ASSUME NEW s, SteeringFollows(s) PROVE SameMessages /\ SameDeliveries
  <2>1. \A a \in Attempts : [delivery[a] EXCEPT !.status = "cancelled"].status = "cancelled"
    BY <1>0 DEF Delivery
  <2> QED
    BY <1>0, <1>1, <2>1 DEF SteeringFollows, CloseSteering, queueVars, Pending
<1>2. ASSUME NEW w \in Workers, StartTurn(w) PROVE SameDeliveries
  <2>1. attempts' = attempts + 1 /\ attempts' \in Attempts
    BY <1>2, SupervisorConstants DEF StartTurn, TypeInv, TypeOK, Attempts
  <2>2. delivery[attempts'].status = "absent"
    BY <2>1, SupervisorConstants DEF AttemptsAreCounted, TypeInv, TypeOK
  <2>3. PICK m : delivery' = IF m = 0 THEN Superseded
                             ELSE [Superseded EXCEPT ![attempts'] =
                                      [message |-> m, status |-> "prepared"]]
    BY <1>2 DEF StartTurn
  <2>4. CASE FailedMessage = 0
    BY <1>0, <2>1, <2>2, <2>3, <2>4 DEF Superseded
  <2>5. CASE FailedMessage # 0
    <3>1. ck.attempt \in Attempts /\ delivery[ck.attempt].status = "prepared"
      BY <2>5, PreparedMessage DEF FailedMessage
    <3>2. [delivery[ck.attempt] EXCEPT !.status = "superseded"].status = "superseded"
      BY <1>0, <3>1 DEF Delivery
    <3>3. Superseded = [delivery EXCEPT ![ck.attempt] =
                            [delivery[ck.attempt] EXCEPT !.status = "superseded"]]
      BY <2>5 DEF Superseded
    <3> QED
      BY <1>0, <2>1, <2>2, <2>3, <3>1, <3>2, <3>3
  <2> QED
    BY <2>4, <2>5
<1>3. ASSUME NEW w \in Workers, Progress(w) \/ Arrival(w) PROVE ck'.turn = ck.turn
  <2>1. ASSUME StartTurn(w) PROVE ck'.turn = ck.turn
    <3>1. PICK i : ck' = [ck EXCEPT !.generation = worker[w].generation,
                                    !.phase = "turn_started", !.attempt = attempts',
                                    !.repair = "none", !.input = i]
      BY <2>1 DEF StartTurn
    <3> QED
      BY <1>0, <3>1, CheckpointShape
  <2>2. ASSUME RecoverTurn(w) PROVE ck'.turn = ck.turn
    <3>1. PICK i : ck' = [ck EXCEPT !.generation = worker[w].generation, !.input = i]
      BY <2>2 DEF RecoverTurn
    <3> QED
      BY <1>0, <3>1, CheckpointShape
  <2>3. ASSUME BindInput(w) \/ CallBreaksProtocol(w) \/ FailTurn(w) PROVE ck'.turn = ck.turn
    BY <1>0, <2>3, CheckpointShape DEF BindInput, CallBreaksProtocol, FailTurn
  <2>4. ASSUME NEW target, Finalize(w, target) PROVE ck'.turn = ck.turn
    BY <1>0, <2>4, CheckpointShape DEF Finalize
  <2> QED
    BY <1>3, <2>1, <2>2, <2>3, <2>4
    DEF Progress, Arrival, Acquire, AcquireAfterReading, Enter, Release, Return, Crash, Vanish,
        Derail, Abandon, StopLoop, DrainReads, HandoffPrepare, HandoffRetry, ReportHandoff,
        DrainWakes, StartCall, CallCompletes, CallRequestsTools, CallFails
<1>4. ASSUME NEW w \in Workers, Progress(w) \/ Arrival(w) PROVE SameDeliveries
  <2>1. ASSUME NEW target, Finalize(w, target) PROVE SameDeliveries
    BY <1>1, <2>1 DEF Finalize
  <2>2. ASSUME UNCHANGED delivery PROVE SameDeliveries
    BY <2>2
  <2> HIDE DEF SameDeliveries
  <2> QED
    BY <1>2, <1>4, <2>1, <2>2
    DEF Progress, Arrival, Acquire, AcquireAfterReading, Enter, Release, Return, Crash, Vanish,
        Derail, Abandon, StopLoop, DrainReads, HandoffPrepare, HandoffRetry, ReportHandoff,
        DrainWakes, StartCall, CallCompletes, CallRequestsTools, CallFails, CallBreaksProtocol,
        EndCall, BindInput, RecoverTurn, FailTurn
<1>5. ASSUME NEW w \in Workers, Progress(w) \/ Arrival(w) PROVE SameMessages /\ transcript' = transcript
  <2>1. ASSUME NEW target, Finalize(w, target) PROVE SameMessages /\ transcript' = transcript
    BY <1>1, <2>1 DEF Finalize
  <2>2. ASSUME UNCHANGED message PROVE SameMessages
    BY <2>2
  <2> HIDE DEF SameMessages
  <2> QED
    BY <1>5, <2>1, <2>2
    DEF Progress, Arrival, Acquire, AcquireAfterReading, Enter, Release, Return, Crash, Vanish,
        Derail, Abandon, StopLoop, DrainReads, HandoffPrepare, HandoffRetry, ReportHandoff,
        DrainWakes, StartCall, CallCompletes, CallRequestsTools, CallFails, CallBreaksProtocol,
        EndCall, BindInput, RecoverTurn, FailTurn, StartTurn
<1>6. ASSUME NEW to, TransitionRun(to) PROVE CommitsNothing
  BY <1>1, <1>6 DEF TransitionRun, CommitsNothing
<1>7. ASSUME Enqueue \/ \E m \in Messages : Withdraw(m) PROVE CommitsNothing
  <2>1. PICK m \in Messages, s \in {"pending", "withdrawn"} :
            message' = [message EXCEPT ![m] = s] /\ message[m] \in {"absent", "pending"}
    BY <1>7 DEF Enqueue, Withdraw, Messages
  <2>2. UNCHANGED <<transcript, ck, delivery>>
    BY <1>7 DEF Enqueue, Withdraw
  <2> QED
    BY <1>0, <2>1, <2>2 DEF CommitsNothing
<1>8. CASE LifecycleOperation \/ LeaseTime \/ UNCHANGED vars
  BY <1>8 DEF LifecycleOperation, LeaseTime, vars, CommitsNothing
<1>9. QED
  BY <1>3, <1>4, <1>5, <1>6, <1>7, <1>8 DEF Next, Operator, CommitsNothing

\* What a completed turn adds to the Session and takes from the queue.
LEMMA CompletionEffect ==
    ASSUME TypeInv, PreparedIsBound, NEW w \in Workers, CompleteTurn(w)
    PROVE  LET m == Prepared(ck.attempt)
           IN  /\ ck'.turn = ck.turn + 1
               /\ transcript' = Append(transcript, [turn |-> ck.turn, input |-> ck.input,
                                                    message |-> m])
               /\ m = 0 => UNCHANGED <<message, delivery>>
               /\ m # 0 =>
                      /\ m \in Messages /\ message[m] = "pending" /\ ck.input = m
                      /\ message' = [message EXCEPT ![m] = "committed"]
                      /\ ck.attempt \in Attempts
                      /\ delivery[ck.attempt].status = "prepared"
                      /\ delivery' = [delivery EXCEPT ![ck.attempt] =
                                         [message |-> m, status |-> "committed"]]
<1> DEFINE m == Prepared(ck.attempt)
<1>0. ck \in Checkpoint /\ delivery \in [Attempts -> Delivery]
  BY DEF TypeInv, TypeOK
<1>1. ck'.turn = ck.turn + 1
  <2>1. PICK p : ck' = [ck EXCEPT !.turn = @ + 1, !.phase = p, !.attempt = 0,
                                  !.input = NoInput, !.repair = "none"]
    BY DEF CompleteTurn
  <2> QED
    BY <1>0, <2>1, CheckpointShape
<1>2. transcript' = Append(transcript, [turn |-> ck.turn, input |-> ck.input, message |-> m])
  BY DEF CompleteTurn
<1>3. m = 0 => UNCHANGED <<message, delivery>>
  BY DEF CompleteTurn, CommitSteering, queueVars
<1>4. ASSUME m # 0
      PROVE  /\ m \in Messages /\ message[m] = "pending" /\ ck.input = m
             /\ message' = [message EXCEPT ![m] = "committed"]
             /\ ck.attempt \in Attempts
             /\ delivery[ck.attempt].status = "prepared"
             /\ delivery' = [delivery EXCEPT ![ck.attempt] =
                                [message |-> m, status |-> "committed"]]
  <2>1. /\ ck.attempt \in Attempts /\ delivery[ck.attempt].status = "prepared"
        /\ m \in Messages /\ m = delivery[ck.attempt].message
    BY <1>4, PreparedMessage DEF Oldest, Pending
  <2>2. message[m] = "pending" /\ ck.input = m
    BY <1>4 DEF CompleteTurn
  <2>3. /\ message' = [message EXCEPT ![m] = "committed"]
        /\ delivery' = [delivery EXCEPT ![ck.attempt] =
                            [delivery[ck.attempt] EXCEPT !.status = "committed"]]
    BY <1>4 DEF CompleteTurn, CommitSteering
  <2>4. [delivery[ck.attempt] EXCEPT !.status = "committed"] =
            [message |-> m, status |-> "committed"]
    BY <1>0, <2>1 DEF Delivery
  <2> QED
    BY <2>1, <2>2, <2>3, <2>4
<1>5. QED
  BY <1>1, <1>2, <1>3, <1>4

LEMMA CompletionCommits ==
    ASSUME TypeInv, PreparedIsBound, AnswersAreCommitted, DeliveriesAreCommitted,
           NEW w \in Workers, CompleteTurn(w)
    PROVE  AnswersAreCommitted' /\ DeliveriesAreCommitted'
<1> DEFINE m == Prepared(ck.attempt)
           t == [turn |-> ck.turn, input |-> ck.input, message |-> m]
           n == Len(transcript)
<1>0. /\ message \in [Messages -> MessageStatuses]
      /\ delivery \in [Attempts -> Delivery]
      /\ ck.turn \in Nat
  <2>1. ck \in Checkpoint
    BY DEF TypeInv, TypeOK
  <2>2. ck.turn \in Nat
    BY <2>1, CheckpointShape, SupervisorConstants DEF TurnNumbers
  <2> QED
    BY <2>2 DEF TypeInv, TypeOK, MessageStatuses
<1>1. /\ ck'.turn = ck.turn + 1
      /\ transcript' = Append(transcript, t)
      /\ m = 0 => UNCHANGED <<message, delivery>>
      /\ m # 0 => /\ m \in Messages /\ message[m] = "pending" /\ ck.input = m
                  /\ message' = [message EXCEPT ![m] = "committed"]
                  /\ ck.attempt \in Attempts
                  /\ delivery[ck.attempt].status = "prepared"
                  /\ delivery' = [delivery EXCEPT ![ck.attempt] =
                                     [message |-> m, status |-> "committed"]]
  BY CompletionEffect
<1>2. PICK T : transcript \in Seq(T)
  BY DEF TypeInv, TypeOK
<1> HIDE DEF m
<1>3. /\ n \in Nat /\ n = ck.turn - 1
      /\ DOMAIN transcript = 1 .. n
      /\ Len(transcript') = n + 1
      /\ DOMAIN transcript' = 1 .. n + 1
      /\ \A i \in 1 .. n : transcript'[i] = transcript[i]
      /\ transcript'[n + 1] = t
  BY <1>1, <1>2, LenProperties DEF AnswersAreCommitted
<1>4. /\ t.turn = n + 1 /\ t.message = m /\ (m # 0 => t.input = m)
  BY <1>0, <1>1, <1>3
<1> HIDE DEF t, n
<1>5. \A i \in 1 .. n :
          /\ transcript[i].turn = i
          /\ transcript[i].message # 0 => /\ transcript[i].message \in Messages
                                          /\ message[transcript[i].message] = "committed"
                                          /\ transcript[i].input = transcript[i].message
                                          /\ transcript[i].message # m
  BY <1>1, <1>3, TranscriptType DEF AnswersAreCommitted
<1>6. \A k \in Messages : message'[k] = "committed" <=> message[k] = "committed" \/ k = m
  BY <1>0, <1>1, SupervisorConstants DEF Messages
<1>7. AnswersAreCommitted'
  <2>1. Len(transcript') = ck'.turn - 1
    BY <1>0, <1>1, <1>3
  <2>2. \A i \in DOMAIN transcript' : transcript'[i].turn = i
    BY <1>3, <1>4, <1>5
  <2>3. ASSUME NEW i \in DOMAIN transcript', transcript'[i].message # 0
        PROVE  /\ message'[transcript'[i].message] = "committed"
               /\ transcript'[i].input = transcript'[i].message
    BY <1>1, <1>3, <1>4, <1>5, <1>6, <2>3
  <2>4. ASSUME NEW i \in DOMAIN transcript', NEW j \in DOMAIN transcript',
               transcript'[i].message # 0, transcript'[i].message = transcript'[j].message
        PROVE  i = j
    BY <1>3, <1>4, <1>5, <2>4 DEF AnswersAreCommitted
  <2>5. ASSUME NEW k \in Messages, message'[k] = "committed"
        PROVE  \E i \in DOMAIN transcript' : transcript'[i].message = k
    <3>1. CASE k = m
      BY <1>3, <1>4, <3>1
    <3>2. CASE k # m
      <4>1. PICK i \in 1 .. n : transcript[i].message = k
        BY <1>3, <1>6, <2>5, <3>2 DEF AnswersAreCommitted
      <4>2. i \in DOMAIN transcript' /\ transcript'[i] = transcript[i]
        BY <1>3, <4>1
      <4> QED
        BY <4>1, <4>2
    <3> QED
      BY <3>1, <3>2
  <2> QED
    BY <2>1, <2>2, <2>3, <2>4, <2>5 DEF AnswersAreCommitted
<1>8. DeliveriesAreCommitted'
  <2>1. CASE m = 0
    BY <1>1, <2>1 DEF DeliveriesAreCommitted
  <2>2. CASE m # 0
    <3>1. \A a \in Attempts : delivery'[a] =
              IF a = ck.attempt THEN [message |-> m, status |-> "committed"] ELSE delivery[a]
      BY <1>0, <1>1, <2>2
    <3>2. \A a \in Attempts : delivery[a].status = "committed" =>
              a # ck.attempt /\ delivery[a].message # m
      BY <1>1, <2>2 DEF DeliveriesAreCommitted
    <3>3. \A a \in Attempts : delivery'[a].status = "committed" =>
              /\ delivery'[a].message \in Messages
              /\ message'[delivery'[a].message] = "committed"
      BY <1>1, <1>6, <2>2, <3>1 DEF DeliveriesAreCommitted
    <3>4. \A a, b \in Attempts :
              /\ delivery'[a].status = "committed" /\ delivery'[b].status = "committed"
              /\ delivery'[a].message = delivery'[b].message
              => a = b
      BY <3>1, <3>2 DEF DeliveriesAreCommitted
    <3>5. \A k \in Messages : message'[k] = "committed" =>
              \E a \in Attempts : delivery'[a].status = "committed" /\ delivery'[a].message = k
      BY <1>1, <1>6, <2>2, <3>1, <3>2 DEF DeliveriesAreCommitted
    <3> QED
      BY <3>3, <3>4, <3>5 DEF DeliveriesAreCommitted
  <2> QED
    BY <2>1, <2>2
<1>9. QED
  BY <1>7, <1>8

LEMMA AnswerInvariant == Spec => [](TypeInv /\ QueueInv /\ AnswerInv)
<1>1. Init => AnswerInv
  <2> SUFFICES ASSUME Init PROVE AnswerInv
    OBVIOUS
  <2>1. AttemptsAreCounted
    BY DEF Init, AttemptsAreCounted, Idle
  <2>2. Len(transcript) = 0 /\ DOMAIN transcript = {} /\ ck.turn = 1
    BY DEF Init
  <2>3. /\ \A m \in Messages : message[m] = "absent"
        /\ \A a \in Attempts : delivery[a].status = "absent"
    BY DEF Init
  <2> QED
    BY <2>1, <2>2, <2>3 DEF AnswerInv, AnswersAreCommitted, DeliveriesAreCommitted
<1>2. ASSUME TypeInv, QueueInv, AnswerInv, [Next]_vars PROVE AnswerInv'
  <2>1. TypeInv' /\ PreparedIsBound
    BY <1>2, TypeNext DEF QueueInv
  <2>2. AttemptsAreCounted'
    BY <1>2, <2>1, AttemptsCountedNext DEF AnswerInv
  <2>3. AnswersAreCommitted' /\ DeliveriesAreCommitted'
    BY <1>2, <2>1, CompletionCommits, OthersCommitNothing, NothingCommitted DEF AnswerInv
  <2> QED
    BY <2>2, <2>3 DEF AnswerInv
<1>3. TypeInv /\ QueueInv /\ AnswerInv /\ [Next]_vars => AnswerInv'
  BY <1>2
<1>4. QED
  BY <1>1, <1>3, TypeNext, QueueInvariant, PTL DEF Spec

\* However many workers, attempts and takeovers there are, the Session has one user
\* message per completed turn, and a steering message is committed by exactly one of
\* them and one delivery, or not at all.
THEOREM TurnsAlwaysAnswerOnce == Spec => []TurnsAnswerOnce
<1>1. ASSUME TypeInv, AnswerInv PROVE TurnsAnswerOnce
  <2>1. ASSUME NEW m \in Messages
        PROVE  LET answers    == {i \in DOMAIN transcript : transcript[i].message = m}
                   deliveries == {a \in Attempts : delivery[a] = [message |-> m,
                                                                 status  |-> "committed"]}
               IN  /\ Cardinality(answers) = IF message[m] = "committed" THEN 1 ELSE 0
                   /\ Cardinality(deliveries) = Cardinality(answers)
                   /\ \A i \in answers : transcript[i].input = m
    <3> DEFINE answers    == {i \in DOMAIN transcript : transcript[i].message = m}
               deliveries == {a \in Attempts : delivery[a] = [message |-> m,
                                                              status  |-> "committed"]}
    <3>0. m # 0
      BY SupervisorConstants DEF Messages
    <3>1. \A a \in Attempts : a \in deliveries <=>
              delivery[a].status = "committed" /\ delivery[a].message = m
      <4>1. \A a \in Attempts : delivery[a] \in Delivery
        BY <1>1 DEF TypeInv, TypeOK
      <4> QED
        BY <4>1 DEF Delivery
    <3>2. CASE message[m] = "committed"
      <4>1. PICK i : i \in answers
        BY <1>1, <3>2 DEF AnswerInv, AnswersAreCommitted
      <4>2. answers = {i}
        BY <1>1, <3>0, <4>1 DEF AnswerInv, AnswersAreCommitted
      <4>3. PICK a \in Attempts : a \in deliveries
        BY <1>1, <3>1, <3>2 DEF AnswerInv, DeliveriesAreCommitted
      <4>4. deliveries = {a}
        BY <1>1, <3>1, <4>3 DEF AnswerInv, DeliveriesAreCommitted
      <4>5. Cardinality(answers) = 1 /\ Cardinality(deliveries) = 1
        BY <4>2, <4>4, FS_Singleton
      <4> QED
        BY <1>1, <3>0, <3>2, <4>5 DEF AnswerInv, AnswersAreCommitted
    <3>3. CASE message[m] # "committed"
      <4>1. answers = {}
        BY <1>1, <3>0, <3>3 DEF AnswerInv, AnswersAreCommitted
      <4>2. deliveries = {}
        BY <1>1, <3>1, <3>3 DEF AnswerInv, DeliveriesAreCommitted
      <4>3. Cardinality(answers) = 0 /\ Cardinality(deliveries) = 0
        BY <4>1, <4>2, FS_EmptySet
      <4> QED
        BY <3>3, <4>1, <4>3
    <3> QED
      BY <3>2, <3>3
  <2> QED
    BY <1>1, <2>1 DEF TurnsAnswerOnce, AnswerInv, AnswersAreCommitted
<1>2. TypeInv /\ AnswerInv => TurnsAnswerOnce
  BY <1>1
<1>3. QED
  BY <1>2, AnswerInvariant, PTL

(***************************************************************************)
(* Turns that are steered.                                                 *)
(***************************************************************************)

\* A worker that drains the queue, or was handed a selection of it, is in a started
\* turn only if that has a delivery in progress, and of the selection.  Nobody else
\* takes the delivery away, unless the Run has ended.
SteeredTurns ==
    \A w \in Workers :
        /\ worker[w].mode \in {"drain", "handoff"} /\ worker[w].pc \in InTurn
        /\ ck.phase = "turn_started" /\ worker[w].attempt = ck.attempt
        /\ ~Terminal(runStatus)
        => /\ Prepared(ck.attempt) # 0
           /\ worker[w].mode = "handoff" => Prepared(ck.attempt) \in worker[w].selection

\* Within a turn a worker keeps its mode, its attempt and its selection; it enters one
\* by beginning it.
LEMMA InTurnStep ==
    ASSUME TypeInv, NEW w \in Workers, Progress(w) \/ Arrival(w), worker'[w].pc \in InTurn
    PROVE  /\ worker'[w].mode = worker[w].mode
           /\ worker'[w].selection = worker[w].selection
           /\ \/ RecoverTurn(w) \/ StartTurn(w)
              \/ worker[w].pc \in InTurn /\ worker'[w].attempt = worker[w].attempt
<1>0. worker \in [Workers -> Worker] /\ worker[w] \in Worker
  BY DEF TypeInv, TypeOK
<1> USE DEF InTurn
<1>1. ASSUME NEW p, Goto(w, p) PROVE worker'[w].pc = p
  BY <1>0, <1>1, WorkerShape DEF Goto
<1>2. ASSUME NEW p, Stage(w, p)
      PROVE  /\ worker'[w].mode = worker[w].mode
             /\ worker'[w].selection = worker[w].selection
             /\ worker'[w].attempt = worker[w].attempt
  BY <1>0, <1>2, WorkerShape DEF Stage
<1>3. ASSUME NEW mode, NEW p, Enter(w, mode, p) PROVE worker'[w].pc = p
  BY <1>0, <1>3, WorkerShape DEF Enter
<1>4. ~Acquire(w) /\ ~AcquireAfterReading(w)
  BY <1>3 DEF Acquire, AcquireAfterReading
<1>5. ~Release(w) /\ ~Return(w) /\ ~Crash(w)
  BY <1>0 DEF Release, Return, Crash, Vanish, Idle
<1>6. ~DrainReads(w) /\ ~HandoffPrepare(w) /\ ~HandoffRetry(w)
  <2>1. ASSUME DrainReads(w) \/ HandoffPrepare(w) \/ HandoffRetry(w)
        PROVE  worker'[w].pc = "waiting"
    <3>1. CASE DrainReads(w)
      BY <1>0, <3>1, WorkerShape DEF DrainReads
    <3>2. CASE HandoffPrepare(w)
      <4>1. PICK s : worker' = [worker EXCEPT ![w] = [@ EXCEPT !.pc = "waiting",
                                                      !.mode = "handoff", !.selection = s]]
        BY <3>2 DEF HandoffPrepare
      <4> QED
        BY <1>0, <4>1, WorkerShape
    <3>3. CASE HandoffRetry(w)
      <4>1. PICK s : worker' = [worker EXCEPT ![w] = [@ EXCEPT !.pc = "waiting",
                                                      !.mode = "handoff", !.selection = s]]
        BY <3>3 DEF HandoffRetry
      <4> QED
        BY <1>0, <4>1, WorkerShape
    <3> QED
      BY <2>1, <3>1, <3>2, <3>3
  <2> QED
    BY <2>1
<1>7. ~Abandon(w) /\ ~StopLoop(w) /\ ~FailTurn(w)
  BY <1>1 DEF Abandon, StopLoop, FailTurn, LoopEnd
<1>8. ~CompleteTurn(w)
  BY <1>1 DEF CompleteTurn, LoopEnd
<1>9. ~DrainWakes(w) /\ ~ReportHandoff(w) /\ \A target : ~Finalize(w, target)
  BY <1>1 DEF DrainWakes, ReportHandoff, Finalize
<1>10. CASE RecoverTurn(w) \/ StartTurn(w)
  <2>1. EnterTurn(w)
    BY <1>10 DEF RecoverTurn, StartTurn
  <2>2. /\ worker'[w].mode = worker[w].mode
        /\ worker'[w].selection = worker[w].selection
    BY <1>0, <2>1, WorkerShape DEF EnterTurn
  <2> QED
    BY <1>10, <2>2
<1>11. CASE CallCompletes(w)
  BY <1>0, <1>11, WorkerShape DEF CallCompletes, EndCall
<1>12. CASE BindInput(w) \/ StartCall(w) \/ CallRequestsTools(w) \/ CallFails(w)
            \/ CallBreaksProtocol(w) \/ Derail(w)
  BY <1>2, <1>12
  DEF BindInput, StartCall, CallRequestsTools, CallFails, CallBreaksProtocol, EndCall, Derail
<1>13. QED
  BY <1>4, <1>5, <1>6, <1>7, <1>8, <1>9, <1>10, <1>11, <1>12 DEF Progress, Arrival

\* The delivery of a started turn stays in progress as long as the turn stays started
\* and the Run has not ended.
LEMMA PreparedStays ==
    ASSUME TypeInv, TypeInv', PreparedIsBound, [Next]_vars,
           ck.phase = "turn_started", ck'.phase = "turn_started", ~Terminal(runStatus')
    PROVE  ck'.attempt = ck.attempt /\ Prepared(ck.attempt)' = Prepared(ck.attempt)
<1>0. ck \in Checkpoint
  BY DEF TypeInv, TypeOK
<1>1. ASSUME UNCHANGED <<delivery, ck>> PROVE Prepared(ck.attempt)' = Prepared(ck.attempt)
  BY <1>1 DEF Prepared
<1>2. ASSUME NEW s, SteeringFollows(s), runStatus' = s PROVE UNCHANGED delivery
  BY <1>2 DEF SteeringFollows, queueVars, Terminal
<1>3. ASSUME NEW w \in Workers, Progress(w) \/ Arrival(w) PROVE UNCHANGED delivery
  <2>1. ~StartTurn(w)
    BY DEF StartTurn
  <2>2. ~CompleteTurn(w)
    <3>1. ASSUME CompleteTurn(w) PROVE ck'.phase # "turn_started"
      <4>1. PICK p \in {"run_completed", "waiting", "idle"} :
                ck' = [ck EXCEPT !.turn = @ + 1, !.phase = p, !.attempt = 0,
                                 !.input = NoInput, !.repair = "none"]
        BY <3>1 DEF CompleteTurn
      <4> QED
        BY <1>0, <4>1, CheckpointShape
    <3> QED
      BY <3>1
  <2>3. \A target : ~Finalize(w, target)
    BY DEF Finalize
  <2> QED
    BY <1>3, <2>1, <2>2, <2>3
    DEF Progress, Arrival, Acquire, AcquireAfterReading, Enter, Release, Return, Crash, Vanish,
        Derail, Abandon, StopLoop, DrainReads, HandoffPrepare, HandoffRetry, ReportHandoff,
        DrainWakes, StartCall, CallCompletes, CallRequestsTools, CallFails, CallBreaksProtocol,
        EndCall, BindInput, RecoverTurn, FailTurn
<1>4. UNCHANGED delivery
  <2>1. ASSUME NEW to, TransitionRun(to) PROVE UNCHANGED delivery
    BY <1>2, <2>1 DEF TransitionRun, MoveRun
  <2> QED
    BY <1>3, <2>1 DEF Next, vars, Operator, LifecycleOperation, Enqueue, Withdraw, LeaseTime
<1>5. ck'.attempt = ck.attempt
  <2>1. ASSUME NEW w \in Workers, Progress(w) \/ Arrival(w) PROVE ck'.attempt = ck.attempt
    <3>1. ASSUME RecoverTurn(w) PROVE ck'.attempt = ck.attempt
      <4>1. PICK i : ck' = [ck EXCEPT !.generation = worker[w].generation, !.input = i]
        BY <3>1 DEF RecoverTurn
      <4> QED
        BY <1>0, <4>1, CheckpointShape
    <3>2. ASSUME BindInput(w) \/ CallBreaksProtocol(w) \/ FailTurn(w) PROVE ck'.attempt = ck.attempt
      BY <1>0, <3>2, CheckpointShape DEF BindInput, CallBreaksProtocol, FailTurn
    <3>3. ~StartTurn(w) /\ \A target : ~Finalize(w, target)
      BY DEF StartTurn, Finalize
    <3>4. ASSUME CompleteTurn(w) PROVE ck'.phase # "turn_started"
      <4>1. PICK p \in {"run_completed", "waiting", "idle"} :
                ck' = [ck EXCEPT !.turn = @ + 1, !.phase = p, !.attempt = 0,
                                 !.input = NoInput, !.repair = "none"]
        BY <3>4 DEF CompleteTurn
      <4> QED
        BY <1>0, <4>1, CheckpointShape
    <3> QED
      BY <2>1, <3>1, <3>2, <3>3, <3>4
      DEF Progress, Arrival, Acquire, AcquireAfterReading, Enter, Release, Return, Crash, Vanish,
          Derail, Abandon, StopLoop, DrainReads, HandoffPrepare, HandoffRetry, ReportHandoff,
          DrainWakes, StartCall, CallCompletes, CallRequestsTools, CallFails, EndCall
  <2> QED
    BY <2>1 DEF Next, vars, Operator, TransitionRun, LifecycleOperation, Enqueue, Withdraw, LeaseTime
<1>6. QED
  BY <1>4, <1>5 DEF Prepared

\* Only StartTurn starts a turn.
LEMMA TurnStarts ==
    ASSUME TypeInv, [Next]_vars, ck.phase # "turn_started", ck'.phase = "turn_started"
    PROVE  \E w \in Workers : StartTurn(w)
<1>0. ck \in Checkpoint
  BY DEF TypeInv, TypeOK
<1>1. PICK w \in Workers : Progress(w) \/ Arrival(w)
  BY DEF Next, vars, Operator, TransitionRun, LifecycleOperation, Enqueue, Withdraw, LeaseTime
<1>2. ASSUME CompleteTurn(w) PROVE ck'.phase # "turn_started"
  <2>1. PICK p \in {"run_completed", "waiting", "idle"} :
            ck' = [ck EXCEPT !.turn = @ + 1, !.phase = p, !.attempt = 0,
                             !.input = NoInput, !.repair = "none"]
    BY <1>2 DEF CompleteTurn
  <2> QED
    BY <1>0, <2>1, CheckpointShape
<1>3. ASSUME BindInput(w) \/ CallBreaksProtocol(w) \/ FailTurn(w) PROVE ck'.phase # "turn_started"
  BY <1>0, <1>3, CheckpointShape DEF BindInput, CallBreaksProtocol, FailTurn, HoldsTurn, EndCall,
     ActiveAttempt
<1>4. ASSUME NEW target, Finalize(w, target) PROVE ck'.phase # "turn_started"
  BY <1>0, <1>4, CheckpointShape DEF Finalize
<1>5. ~RecoverTurn(w)
  BY DEF RecoverTurn
<1>6. QED
  BY <1>1, <1>2, <1>3, <1>4, <1>5
  DEF Progress, Arrival, Acquire, AcquireAfterReading, Enter, Release, Return, Crash, Vanish,
      Derail, Abandon, StopLoop, DrainReads, HandoffPrepare, HandoffRetry, ReportHandoff,
      DrainWakes, StartCall, CallCompletes, CallRequestsTools, CallFails, EndCall

\* What a worker that drains the queue or was handed a selection asks for.
LEMMA SteeredRequest ==
    ASSUME NEW w \in Workers, NEW r \in BeginRequests(w), worker[w].mode \in {"drain", "handoff"}
    PROVE  /\ r.steering = TRUE
           /\ r.input = NoInput
           /\ worker[w].mode = "handoff" =>
                  r.required \in worker[w].selection \cap Messages /\ r.required # 0
<1>1. CASE worker[w].mode = "drain"
  BY <1>1 DEF BeginRequests
<1>2. CASE worker[w].mode = "handoff"
  <2>1. r \in [input : {NoInput}, steering : {TRUE},
               required : Oldest(worker[w].selection \cap Pending)]
    BY <1>2 DEF BeginRequests
  <2>2. r.required \in worker[w].selection \cap Messages
    BY <2>1 DEF Oldest, Pending
  <2>3. r.required # 0
    BY <2>2, SupervisorConstants DEF Messages
  <2> QED
    BY <2>1, <2>2, <2>3
<1>3. QED
  BY <1>1, <1>2

\* A turn that such a worker begins has the delivery that it is to answer.
LEMMA BeginsSteered ==
    ASSUME TypeInv, QueueInv, NEW w \in Workers, worker[w].mode \in {"drain", "handoff"},
           RecoverTurn(w) \/ StartTurn(w)
    PROVE  /\ Prepared(ck.attempt)' # 0
           /\ worker[w].mode = "handoff" => Prepared(ck.attempt)' \in worker[w].selection
<1>0. ck \in Checkpoint /\ delivery \in [Attempts -> Delivery]
  BY DEF TypeInv, TypeOK
<1>1. CASE RecoverTurn(w)
  <2>1. PICK r \in BeginRequests(w) :
            /\ MayRecover(r)
            /\ ck' = [ck EXCEPT !.generation = worker[w].generation,
                                !.input = IF r.input = NoInput THEN @ ELSE r.input]
    BY <1>1 DEF RecoverTurn
  <2>2. Prepared(ck.attempt)' = Prepared(ck.attempt)
    BY <1>0, <1>1, <2>1, CheckpointShape DEF RecoverTurn, Prepared
  <2>3. Prepared(ck.attempt) # 0 /\ r.required \in {0, Prepared(ck.attempt)}
    BY <2>1, SteeredRequest DEF MayRecover
  <2> QED
    BY <2>2, <2>3, SteeredRequest
<1>2. CASE StartTurn(w)
  <2>1. PICK r \in BeginRequests(w), m \in Messages \cup {0} :
            /\ m # 0 => m \in NextSteering(IF r.required # 0 THEN r.required ELSE FailedMessage)
            /\ r.steering => m # 0
            /\ ck' = [ck EXCEPT !.generation = worker[w].generation, !.phase = "turn_started",
                                !.attempt = attempts', !.repair = "none",
                                !.input = IF m # 0 THEN m ELSE InputFor(r)]
            /\ delivery' = IF m = 0 THEN Superseded
                           ELSE [Superseded EXCEPT ![attempts'] =
                                    [message |-> m, status |-> "prepared"]]
    BY <1>2, ChosenType DEF StartTurn
  <2>2. m # 0 /\ (r.required # 0 => m = r.required)
    BY <2>1, SteeredRequest DEF NextSteering, Oldest, Eligible
  <2>3. attempts' \in Attempts /\ attempts' # 0
    <3>1. attempts' = attempts + 1 /\ attempts < MaxAttempts
      BY <1>2 DEF StartTurn
    <3>2. attempts \in 0 .. MaxAttempts
      BY DEF TypeInv, TypeOK
    <3> QED
      BY <3>1, <3>2, SupervisorConstants DEF Attempts
  <2>4. ck'.attempt = attempts'
    BY <1>0, <2>1, CheckpointShape
  <2>5. Superseded \in [Attempts -> Delivery]
    BY <1>0, DeliveryUpdates DEF Superseded, DeliveryStatuses
  <2>6. delivery'[attempts'] = [message |-> m, status |-> "prepared"]
    BY <2>1, <2>2, <2>3, <2>5
  <2>7. Prepared(ck.attempt)' = m
    BY <2>3, <2>4, <2>6 DEF Prepared
  <2> QED
    BY <2>2, <2>7, SteeredRequest
<1>3. QED
  BY <1>1, <1>2

LEMMA SteeredNext ==
    ASSUME TypeInv, TypeInv', QueueInv, AttemptsAreCounted, SteeredTurns, [Next]_vars
    PROVE  SteeredTurns'
<1> SUFFICES ASSUME NEW v \in Workers,
                    worker'[v].mode \in {"drain", "handoff"}, worker'[v].pc \in InTurn,
                    ck'.phase = "turn_started", worker'[v].attempt = ck'.attempt,
                    ~Terminal(runStatus')
             PROVE  /\ Prepared(ck.attempt)' # 0
                    /\ worker'[v].mode = "handoff" =>
                           Prepared(ck.attempt)' \in worker'[v].selection
  BY DEF SteeredTurns
<1>0. worker \in [Workers -> Worker] /\ PreparedIsBound
  BY DEF TypeInv, TypeOK, QueueInv
<1>1. ASSUME NEW w \in Workers, Progress(w) \/ Arrival(w), worker'[v] # worker[v]
      PROVE  v = w
  BY <1>1, WorkerStep
<1>2. CASE RecoverTurn(v) \/ StartTurn(v)
  <2>1. worker'[v].mode = worker[v].mode /\ worker'[v].selection = worker[v].selection
    BY <1>2, InTurnStep DEF Progress
  <2> QED
    BY <1>2, <2>1, BeginsSteered
<1>3. CASE ~RecoverTurn(v) /\ ~StartTurn(v)
  <2>1. /\ worker'[v].mode = worker[v].mode
        /\ worker'[v].selection = worker[v].selection
        /\ worker[v].pc \in InTurn
        /\ worker'[v].attempt = worker[v].attempt
    <3>1. CASE worker'[v] = worker[v]
      BY <3>1
    <3>2. CASE worker'[v] # worker[v]
      <4>1. Progress(v) \/ Arrival(v)
        BY <1>1, <3>2
        DEF Next, vars, Operator, TransitionRun, LifecycleOperation, Enqueue, Withdraw, LeaseTime
      <4> QED
        BY <1>3, <4>1, InTurnStep
    <3> QED
      BY <3>1, <3>2
  <2>2. ck.phase = "turn_started"
    <3>1. ASSUME ck.phase # "turn_started" PROVE FALSE
      <4>1. PICK w \in Workers : StartTurn(w)
        BY <3>1, TurnStarts
      <4>2. attempts' = attempts + 1 /\ attempts \in Nat
        BY <4>1, SupervisorConstants DEF StartTurn, TypeInv, TypeOK
      <4>3. ck'.attempt = attempts'
        <5>1. PICK i : ck' = [ck EXCEPT !.generation = worker[w].generation,
                                        !.phase = "turn_started", !.attempt = attempts',
                                        !.repair = "none", !.input = i]
          BY <4>1 DEF StartTurn
        <5> QED
          BY <5>1, CheckpointShape DEF TypeInv, TypeOK
      <4>4. worker[v].attempt <= attempts
        BY DEF AttemptsAreCounted
      <4>5. worker[v].attempt = attempts + 1
        BY <2>1, <4>2, <4>3
      <4>6. ~(attempts + 1 <= attempts)
        BY <4>2
      <4> QED
        BY <4>4, <4>5, <4>6
    <3> QED
      BY <3>1
  <2>3. ck'.attempt = ck.attempt /\ Prepared(ck.attempt)' = Prepared(ck.attempt)
    BY <1>0, <2>2, PreparedStays
  <2>4. ~Terminal(runStatus)
    BY EndedStaysEnded
  <2> QED
    BY <2>1, <2>2, <2>3, <2>4 DEF SteeredTurns
<1>4. QED
  BY <1>2, <1>3

LEMMA SteeredInvariant == Spec => [](TypeInv /\ QueueInv /\ AnswerInv /\ SteeredTurns)
<1>1. Init => SteeredTurns
  BY DEF Init, SteeredTurns, Idle
<1>2. ASSUME TypeInv, QueueInv, AnswerInv, SteeredTurns, [Next]_vars PROVE SteeredTurns'
  BY <1>2, TypeNext, SteeredNext DEF AnswerInv
<1>3. TypeInv /\ QueueInv /\ AnswerInv /\ SteeredTurns /\ [Next]_vars => SteeredTurns'
  BY <1>2
<1>4. QED
  BY <1>1, <1>3, AnswerInvariant, PTL DEF Spec

\* Whoever drains the queue completes only turns that answer it, and whoever was handed
\* a selection only turns that answer that, however turns were recovered from others.
THEOREM SteeringAlwaysStaysSteering == Spec => SteeringStaysSteering
<1> DEFINE Steers == \A w \in Workers :
                         worker[w].mode \in {"drain", "handoff"} /\ worker'[w] # worker[w]
                             /\ Len(transcript') > Len(transcript) =>
                             LET m == transcript'[Len(transcript')].message
                             IN  /\ m # 0
                                 /\ worker[w].mode = "handoff" => m \in worker[w].selection
<1>1. ASSUME TypeInv, QueueInv, AnswerInv, SteeredTurns, [Next]_vars PROVE Steers
  <2>1. SUFFICES ASSUME NEW w \in Workers, worker[w].mode \in {"drain", "handoff"},
                        worker'[w] # worker[w], Len(transcript') > Len(transcript)
                 PROVE  LET m == transcript'[Len(transcript')].message
                        IN  /\ m # 0
                            /\ worker[w].mode = "handoff" => m \in worker[w].selection
    OBVIOUS
  <2>2. PICK v \in Workers : CompleteTurn(v)
    <3>1. CASE \A v \in Workers : ~CompleteTurn(v)
      <4>1. transcript' = transcript
        BY <1>1, <3>1, OthersCommitNothing DEF AnswerInv, QueueInv, CommitsNothing
      <4>2. Len(transcript) \in Nat
        BY <1>1, LenProperties DEF TypeInv, TypeOK
      <4> QED
        BY <2>1, <4>1, <4>2
    <3> QED
      BY <3>1
  <2>3. v = w
    BY <1>1, <2>1, <2>2, WorkerStep DEF Progress
  <2> DEFINE m == Prepared(ck.attempt)
  <2>4. transcript'[Len(transcript')].message = m
    <3>1. PICK T : transcript \in Seq(T)
      BY <1>1 DEF TypeInv, TypeOK
    <3>2. transcript' = Append(transcript, [turn |-> ck.turn, input |-> ck.input, message |-> m])
      BY <2>2 DEF CompleteTurn
    <3> HIDE DEF m
    <3> QED
      BY <3>1, <3>2
  <2>5. /\ worker[w].pc \in InTurn /\ ck.phase = "turn_started"
        /\ worker[w].attempt = ck.attempt /\ ~Terminal(runStatus)
    BY <2>2, <2>3 DEF CompleteTurn, ActiveAttempt, HoldsTurn, InTurn, Terminal
  <2> QED
    BY <1>1, <2>1, <2>4, <2>5 DEF SteeredTurns
<1>2. TypeInv /\ QueueInv /\ AnswerInv /\ SteeredTurns /\ [Next]_vars => [Steers]_vars
  BY <1>1
<1>3. QED
  BY <1>2, SteeredInvariant, PTL DEF Spec, SteeringStaysSteering

\* What a failed turn was asked comes back with the next attempt, through every restart,
\* unless an operator's step or selection asks for something else.
THEOREM FailedInputAlwaysSurvives == Spec => FailedInputSurvives
<1> DEFINE Survives ==
        ck.phase = "turn_failed" /\ ck.input # NoInput /\ ck'.phase = "turn_started" =>
            \/ ck'.input = ck.input
            \/ \E w \in Workers : worker[w].mode \in {"step", "handoff"} /\ worker'[w] # worker[w]
<1>1. ASSUME TypeInv, QueueInv, [Next]_vars PROVE Survives
  <2> SUFFICES ASSUME ck.phase = "turn_failed", ck.input # NoInput, ck'.phase = "turn_started",
                      \A w \in Workers : worker[w].mode \in {"step", "handoff"} =>
                          worker'[w] = worker[w]
               PROVE  ck'.input = ck.input
    OBVIOUS
  <2>0. ck \in Checkpoint /\ worker \in [Workers -> Worker]
    BY <1>1 DEF TypeInv, TypeOK
  <2>1. PICK w \in Workers : StartTurn(w)
    BY <1>1, TurnStarts
  <2>2. worker[w].mode \notin {"step", "handoff"}
    <3>1. worker[w].pc = "holding" /\ worker'[w].pc \in {"binding", "prompting"}
      BY <2>0, <2>1, WorkerShape DEF StartTurn, BeginGuard, EnterTurn
    <3> QED
      BY <3>1
  <2>3. PICK r \in BeginRequests(w), m \in Messages \cup {0} :
            LET preferred  == IF r.required # 0 THEN r.required ELSE FailedMessage
                selects    == \/ InputFor(r) = NoInput
                              \/ preferred # 0 /\ InputFor(r) = InputFor([r EXCEPT !.input = NoInput])
                candidates == IF selects THEN NextSteering(preferred) ELSE {}
            IN  /\ m \in IF candidates = {} THEN {0} ELSE candidates
                /\ preferred # 0 /\ selects => m # 0
                /\ ck' = [ck EXCEPT !.generation = worker[w].generation, !.phase = "turn_started",
                                    !.attempt = attempts', !.repair = "none",
                                    !.input = IF m # 0 THEN m ELSE InputFor(r)]
    BY <2>1, ChosenType DEF StartTurn
  <2>4. r.input = NoInput /\ r.required = 0
    BY <2>2 DEF BeginRequests
  <2>5. InputFor(r) = ck.input
    BY <2>4 DEF InputFor
  <2>6. ck'.input = IF m # 0 THEN m ELSE ck.input
    BY <2>0, <2>3, <2>5, CheckpointShape
  <2>7. m # 0 => m = ck.input
    <3>1. m # 0 => FailedMessage # 0 /\ m \in NextSteering(FailedMessage)
      BY <2>3, <2>4, <2>5
    <3>2. m # 0 => m = FailedMessage
      BY <3>1 DEF NextSteering, Oldest, Eligible
    <3>3. FailedMessage # 0 => FailedMessage = ck.input
      BY <1>1, PreparedMessage DEF FailedMessage, QueueInv, PreparedIsBound
    <3> QED
      BY <3>1, <3>2, <3>3
  <2> QED
    BY <2>6, <2>7
<1>2. TypeInv /\ QueueInv /\ [Next]_vars => [Survives]_vars
  BY <1>1
<1>3. QED
  BY <1>2, QueueInvariant, PTL DEF Spec, FailedInputSurvives

(***************************************************************************)
(* What a transcript answers.                                              *)
(***************************************************************************)

\* Induction over the numbers, for a set of them.
LEMMA NaturalsByInduction ==
    ASSUME NEW S, 0 \in S, \A n \in Nat : n \in S => n + 1 \in S
    PROVE  Nat \subseteq S
<1> DEFINE R == OpToRel(<, Nat)
           T == Nat \ S
<1>1. IsWellFoundedOn(R, Nat)
  BY NatLessThanWellFounded
<1>2. \A x, y \in Nat : y < x => <<y, x>> \in R
  BY DEF OpToRel
<1> HIDE DEF R
<1>3. ASSUME T # {} PROVE FALSE
  <2>1. PICK x \in T : \A y \in T : ~(<<y, x>> \in R)
    BY <1>1, <1>3, WFMin
  <2>2. x \in Nat /\ x # 0
    OBVIOUS
  <2>3. x - 1 \in Nat /\ x - 1 < x /\ (x - 1) + 1 = x
    BY <2>2
  <2>4. x - 1 \in S
    BY <1>2, <2>1, <2>2, <2>3
  <2> QED
    BY <2>2, <2>3, <2>4
<1> QED
  BY <1>3

\* f is the function by which Answered computes what the first n turns answer.
AnsweredUpTo(f, turns, n) ==
    f = [i \in 0 .. n |-> IF i = 0 THEN <<>>
                          ELSE IF turns[i].message = 0 THEN f[i - 1]
                          ELSE Append(f[i - 1], turns[i].message)]

LEMMA AnsweredUpToExists ==
    ASSUME NEW t, NEW m \in Nat
    PROVE  \E f : AnsweredUpTo(f, t, m)
<1> DEFINE S == {n \in Nat : \E f : AnsweredUpTo(f, t, n)}
<1>1. 0 \in S
  <2>1. AnsweredUpTo([i \in 0 .. 0 |-> <<>>], t, 0)
    BY DEF AnsweredUpTo
  <2> QED
    BY <2>1
<1>2. ASSUME NEW n \in Nat, n \in S PROVE n + 1 \in S
  <2>1. PICK f : AnsweredUpTo(f, t, n)
    BY <1>2
  <2> DEFINE e == IF t[n + 1].message = 0 THEN f[n] ELSE Append(f[n], t[n + 1].message)
             g == [i \in 0 .. n + 1 |-> IF i = n + 1 THEN e ELSE f[i]]
  <2>2. /\ g[n + 1] = e
        /\ \A i \in 0 .. n : g[i] = f[i]
    OBVIOUS
  <2>3. \A i \in 0 .. n : f[i] = IF i = 0 THEN <<>>
                          ELSE IF t[i].message = 0 THEN f[i - 1]
                          ELSE Append(f[i - 1], t[i].message)
    BY <2>1 DEF AnsweredUpTo
  <2>4. \A i \in 0 .. n + 1 : g[i] = IF i = 0 THEN <<>>
                          ELSE IF t[i].message = 0 THEN g[i - 1]
                          ELSE Append(g[i - 1], t[i].message)
    <3> SUFFICES ASSUME NEW i \in 0 .. n + 1
                 PROVE  g[i] = IF i = 0 THEN <<>>
                          ELSE IF t[i].message = 0 THEN g[i - 1]
                          ELSE Append(g[i - 1], t[i].message)
      OBVIOUS
    <3> HIDE DEF g
    <3>1. CASE i = n + 1
      BY <2>2, <3>1
    <3>2. CASE i # n + 1
      <4>1. i \in 0 .. n /\ (i # 0 => i - 1 \in 0 .. n)
        BY <3>2
      <4> QED
       BY <2>2, <2>3, <4>1
    <3> QED
      BY <3>1, <3>2
  <2>5. AnsweredUpTo(g, t, n + 1)
    BY <2>4 DEF AnsweredUpTo
  <2> QED
    BY <2>5
<1> HIDE DEF S
<1>3. Nat \subseteq S
  BY <1>1, <1>2, NaturalsByInduction
<1>4. m \in S
  BY <1>3
<1> QED
  BY <1>4 DEF S

\* It is determined by the turns.
LEMMA AnsweredUpToAgrees ==
    ASSUME NEW t, NEW u, NEW n \in Nat, NEW m \in Nat, n <= m, NEW f, NEW g,
           AnsweredUpTo(f, t, n), AnsweredUpTo(g, u, m), \A i \in 1 .. n : t[i] = u[i]
    PROVE  f[n] = g[n]
<1> DEFINE S == {k \in Nat : k <= n => f[k] = g[k]}
<1>0. /\ \A i \in 0 .. n : f[i] = IF i = 0 THEN <<>>
                          ELSE IF t[i].message = 0 THEN f[i - 1]
                          ELSE Append(f[i - 1], t[i].message)
      /\ \A i \in 0 .. m : g[i] = IF i = 0 THEN <<>>
                          ELSE IF u[i].message = 0 THEN g[i - 1]
                          ELSE Append(g[i - 1], u[i].message)
  BY DEF AnsweredUpTo
<1>1. 0 \in S
  BY <1>0
<1>2. ASSUME NEW k \in Nat, k \in S PROVE k + 1 \in S
  <2>1. CASE k + 1 <= n
    <3>1. k + 1 \in 0 .. n /\ k + 1 \in 0 .. m /\ k + 1 \in 1 .. n /\ k + 1 # 0 /\ (k + 1) - 1 = k /\ k <= n
      BY <2>1
    <3>2. f[k] = g[k]
      BY <3>1, <1>2
    <3> QED
      BY <1>0, <3>1, <3>2
  <2> QED
    BY <2>1
<1> HIDE DEF S
<1>3. Nat \subseteq S
  BY <1>1, <1>2, NaturalsByInduction
<1>4. n \in S
  BY <1>3
<1> QED
  BY <1>4 DEF S

LEMMA AnsweredIs ==
    ASSUME NEW t, Len(t) \in Nat
    PROVE  \E f : AnsweredUpTo(f, t, Len(t)) /\ Answered(t) = f[Len(t)]
<1> DEFINE f == CHOOSE f : AnsweredUpTo(f, t, Len(t))
<1>1. AnsweredUpTo(f, t, Len(t))
  BY AnsweredUpToExists
<1>2. Answered(t) = f[Len(t)]
  BY DEF Answered, AnsweredUpTo
<1> QED
  BY <1>1, <1>2

\* One turn more answers one message more, or none.
LEMMA AnsweredAppend ==
    ASSUME NEW T, NEW t \in Seq(T), NEW e \in T
    PROVE  Answered(Append(t, e)) = IF e.message = 0 THEN Answered(t)
                                    ELSE Append(Answered(t), e.message)
<1> DEFINE u == Append(t, e)
           n == Len(t)
<1>1. n \in Nat /\ Len(u) = n + 1 /\ u[n + 1] = e /\ \A i \in 1 .. n : t[i] = u[i]
  OBVIOUS
<1> HIDE DEF u, n
<1>2. PICK f : AnsweredUpTo(f, t, n) /\ Answered(t) = f[n]
  BY <1>1, AnsweredIs DEF n
<1>3. PICK g : AnsweredUpTo(g, u, n + 1) /\ Answered(u) = g[n + 1]
  BY <1>1, AnsweredIs
<1>4. f[n] = g[n]
  BY <1>1, <1>2, <1>3, AnsweredUpToAgrees
<1>5. g[n + 1] = IF e.message = 0 THEN g[n] ELSE Append(g[n], e.message)
  <2>1. n + 1 \in 0 .. n + 1 /\ n + 1 # 0 /\ (n + 1) - 1 = n
    BY <1>1
  <2>2. \A i \in 0 .. n + 1 : g[i] = IF i = 0 THEN <<>>
                          ELSE IF u[i].message = 0 THEN g[i - 1]
                          ELSE Append(g[i - 1], u[i].message)
    BY <1>3 DEF AnsweredUpTo
  <2> QED
    BY <1>1, <2>1, <2>2
<1> QED
  BY <1>2, <1>3, <1>4, <1>5 DEF u

(***************************************************************************)
(* The queue that the operator sees.                                       *)
(***************************************************************************)

\* A step that keeps the messages known, the delivery in progress and the answers.
KeepsProgress ==
    /\ Prepared(ck.attempt)' = Prepared(ck.attempt)
    /\ transcript' = transcript
    /\ \A m \in Messages : message'[m] = "absent" <=> message[m] = "absent"

\* Such a step that leaves the queue alone as well is none for the operator.
LEMMA OperatorSeesNothing ==
    ASSUME KeepsProgress, Pending' \ {Prepared(ck.attempt)} = Pending \ {Prepared(ck.attempt)}
    PROVE  UNCHANGED Queue!queueVars
<1>1. {m \in Messages : message[m] # "absent"}' = {m \in Messages : message[m] # "absent"}
  BY DEF KeepsProgress
<1>2. UNCHANGED Cardinality({m \in Messages : message[m] # "absent"})
  BY <1>1
<1>3. UNCHANGED Answered(transcript)
  BY DEF KeepsProgress
<1>4. UNCHANGED (Pending \ {Prepared(ck.attempt)})
  BY DEF KeepsProgress
<1>5. UNCHANGED Prepared(ck.attempt)
  BY DEF KeepsProgress
<1>6. QED
  BY <1>2, <1>3, <1>4, <1>5 DEF Queue!queueVars

LEMMA UnchangedIsUnseen ==
    ASSUME UNCHANGED <<message, delivery, transcript>>, ck'.attempt = ck.attempt
    PROVE  UNCHANGED Queue!queueVars
<1>1. Prepared(ck.attempt)' = Prepared(ck.attempt) /\ Pending' = Pending
  BY DEF Prepared, Pending
<1>2. QED
  BY <1>1, OperatorSeesNothing DEF KeepsProgress

\* No delivery, no message being worked on.
LEMMA NothingTaken ==
    ASSUME TypeInv, NothingPrepared
    PROVE  Prepared(ck.attempt) = 0
<1>1. ck.attempt \in AttemptsOrNone
  BY CheckpointShape DEF TypeInv, TypeOK
<1>2. QED
  BY <1>1, SupervisorConstants DEF NothingPrepared, Prepared, Attempts, AttemptsOrNone

LEMMA NothingTakenNext ==
    ASSUME TypeInv', NothingPrepared'
    PROVE  Prepared(ck.attempt)' = 0
<1>1. ck'.attempt \in AttemptsOrNone
  BY CheckpointShape DEF TypeInv, TypeOK
<1>2. QED
  BY <1>1, SupervisorConstants DEF NothingPrepared, Prepared, Attempts, AttemptsOrNone

LEMMA EnqueueGives ==
    ASSUME TypeInv, PreparedIsBound, Enqueue
    PROVE  Queue!Give
<1>0. message \in [Messages -> MessageStatuses]
  BY DEF TypeInv, TypeOK, MessageStatuses
<1> DEFINE Known == {m \in Messages : message[m] # "absent"}
           P     == Prepared(ck.attempt)
<1>1. PICK m \in Messages :
          /\ \A n \in Messages : message[n] = "absent" <=> m <= n
          /\ message' = [message EXCEPT ![m] = "pending"]
  BY DEF Enqueue
<1>2. m \in Nat /\ m # 0 /\ m <= MaxMessages
  BY <1>1, SupervisorConstants DEF Messages
<1>3. Known = 1 .. (m - 1)
  BY <1>1, <1>2, SupervisorConstants DEF Messages
<1>4. Known' = 1 .. m
  BY <1>0, <1>1, <1>2, SupervisorConstants DEF Messages
<1>5. Cardinality(Known) = m - 1 /\ Cardinality(Known') = m
  <2>1. Cardinality(1 .. (m - 1)) = IF 1 > m - 1 THEN 0 ELSE (m - 1) - 1 + 1
    BY <1>2, FS_Interval
  <2>2. Cardinality(1 .. m) = IF 1 > m THEN 0 ELSE m - 1 + 1
    BY <1>2, FS_Interval
  <2>3. Cardinality(1 .. (m - 1)) = m - 1 /\ Cardinality(1 .. m) = m
    BY <1>2, <2>1, <2>2
  <2> HIDE DEF Known
  <2> QED
    BY <1>3, <1>4, <2>3
<1>6. UNCHANGED P
  BY DEF Enqueue, Prepared
<1>7. P # m
  <2>1. P # 0 => P \in Pending
    BY PreparedMessage DEF Oldest
  <2> QED
    BY <1>1, <1>2, <2>1 DEF Pending
<1>8. Pending' \ {P'} = (Pending \ {P}) \cup {m}
  BY <1>0, <1>1, <1>6, <1>7 DEF Pending
<1>9. UNCHANGED Answered(transcript)
  BY DEF Enqueue
<1>10. Cardinality(Known') = Cardinality(Known) + 1 /\ m = Cardinality(Known) + 1
  BY <1>2, <1>5
<1> HIDE DEF P
<1>11. QED
  <2>1. Cardinality(Known)' = Cardinality(Known) + 1
    BY <1>10
  <2>2. (Pending \ {P})' = (Pending \ {P}) \cup {Cardinality(Known) + 1}
    BY <1>8, <1>10
  <2> QED
    BY <1>6, <1>9, <2>1, <2>2 DEF Queue!Give, P

LEMMA WithdrawWithdraws ==
    ASSUME TypeInv, PreparedIsBound, NEW m \in Messages, Withdraw(m)
    PROVE  Queue!Withdraw
<1>0. message \in [Messages -> MessageStatuses]
  BY DEF TypeInv, TypeOK, MessageStatuses
<1> DEFINE Known == {n \in Messages : message[n] # "absent"}
           P     == Prepared(ck.attempt)
<1>1. UNCHANGED P /\ UNCHANGED Answered(transcript)
  BY DEF Withdraw, Prepared
<1>2. m # P
  BY PreparedMessage, SupervisorConstants DEF Withdraw, Messages
<1>3. Known' = Known
  BY <1>0 DEF Withdraw
<1>4. m \in Pending \ {P} /\ Pending' \ {P'} = (Pending \ {P}) \ {m}
  BY <1>0, <1>1, <1>2 DEF Withdraw, Pending
<1> HIDE DEF P, Known
<1>5. UNCHANGED Cardinality(Known)
  BY <1>3
<1> QED
  BY <1>1, <1>4, <1>5 DEF Queue!Withdraw, P, Known

\* Closing the queue with the Run.
LEMMA CloseCloses ==
    ASSUME TypeInv, TypeInv', PreparedIsBound, CloseSteering, UNCHANGED transcript
    PROVE  Queue!Close
<1>0. message \in [Messages -> MessageStatuses]
  BY DEF TypeInv, TypeOK, MessageStatuses
<1> DEFINE Known == {n \in Messages : message[n] # "absent"}
<1>1. NothingPrepared' /\ Pending' = {}
  BY CloseSteeringEffect
<1>2. Prepared(ck.attempt)' = 0
  BY <1>1, NothingTakenNext
<1>3. Known' = Known
  BY <1>0 DEF CloseSteering, queueVars, Pending
<1>4. UNCHANGED Answered(transcript)
  OBVIOUS
<1> HIDE DEF Known
<1>5. UNCHANGED Cardinality(Known)
  BY <1>3
<1> QED
  BY <1>1, <1>2, <1>4, <1>5 DEF Queue!Close, Known

\* So does the completion of the Run, of which nothing is left to close.
LEMMA FollowsCloses ==
    ASSUME TypeInv, TypeInv', PreparedIsBound, NEW s, SteeringFollows(s), UNCHANGED transcript,
           s \notin {"failed", "cancelled"} => s = "completed" \/ ck'.attempt = ck.attempt
    PROVE  Queue!Close \/ UNCHANGED Queue!queueVars
<1>1. CASE s \in {"failed", "cancelled"}
  BY <1>1, CloseCloses DEF SteeringFollows
<1>2. CASE s \notin {"failed", "cancelled"} /\ ck'.attempt = ck.attempt
  BY <1>2, UnchangedIsUnseen DEF SteeringFollows, queueVars
<1>3. CASE s = "completed"
  <2>1. NothingPrepared /\ UNCHANGED <<message, delivery>> /\ Pending = {}
    BY <1>3 DEF SteeringFollows, queueVars, PreparedIsBound, NothingPrepared
  <2>2. NothingPrepared'
    BY <2>1 DEF NothingPrepared
  <2>3. Prepared(ck.attempt) = 0
    BY <2>1, NothingTaken
  <2>4. Prepared(ck.attempt)' = 0
    BY <2>2, NothingTakenNext
  <2>5. Pending' = Pending
    BY <2>1 DEF Pending
  <2> QED
    BY <2>1, <2>3, <2>4, <2>5, OperatorSeesNothing DEF KeepsProgress
<1>4. QED
  BY <1>1, <1>2, <1>3

\* A new attempt takes up the oldest message, or the one that failed, or gives that back.
LEMMA StartTakes ==
    ASSUME TypeInv, TypeInv', QueueInv, NEW w \in Workers, StartTurn(w)
    PROVE  Queue!Take \/ Queue!PutBack \/ UNCHANGED Queue!queueVars
<1> DEFINE Known == {n \in Messages : message[n] # "absent"}
           P     == Prepared(ck.attempt)
<1>0. /\ ck \in Checkpoint /\ delivery \in [Attempts -> Delivery] /\ PreparedIsBound
      /\ message' = message /\ transcript' = transcript
  BY DEF TypeInv, TypeOK, QueueInv, StartTurn
<1>1. PICK r \in BeginRequests(w), m \in Messages \cup {0} :
          /\ m # 0 => m \in NextSteering(IF r.required # 0 THEN r.required ELSE FailedMessage)
          /\ ck' = [ck EXCEPT !.generation = worker[w].generation, !.phase = "turn_started",
                              !.attempt = attempts', !.repair = "none",
                              !.input = IF m # 0 THEN m ELSE InputFor(r)]
          /\ delivery' = IF m = 0 THEN Superseded
                         ELSE [Superseded EXCEPT ![attempts'] =
                                  [message |-> m, status |-> "prepared"]]
  BY ChosenType DEF StartTurn
<1>2. attempts' \in Attempts /\ attempts' # 0
  <2>1. attempts' = attempts + 1 /\ attempts < MaxAttempts
    BY DEF StartTurn
  <2>2. attempts \in 0 .. MaxAttempts
    BY DEF TypeInv, TypeOK
  <2> QED
    BY <2>1, <2>2, SupervisorConstants DEF Attempts
<1>3. ck'.attempt = attempts'
  BY <1>0, <1>1, CheckpointShape
<1>4. Prepared(ck.attempt)' = m
  <2>1. Superseded \in [Attempts -> Delivery]
    BY <1>0, DeliveryUpdates DEF Superseded, DeliveryStatuses
  <2>2. CASE m # 0
    BY <1>1, <1>2, <1>3, <2>1, <2>2 DEF Prepared
  <2>3. CASE m = 0
    <3>1. NothingPrepared'
      BY <1>0, <1>1, <2>3, SupersededNothingPrepared DEF StartTurn, NothingPrepared
    <3> QED
      BY <2>3, <3>1, NothingTakenNext
  <2> QED
    BY <2>2, <2>3
<1>5. m # 0 => m \in Oldest(Pending)
  BY <1>0, <1>1, ChosenIsOldest DEF StartTurn, QueueInv
<1>6. P # 0 => P \in Oldest(Pending)
  BY <1>0, PreparedMessage
<1>7. Pending' = Pending /\ Known' = Known /\ UNCHANGED Answered(transcript)
  BY <1>0 DEF Pending
<1> HIDE DEF P, Known
<1>8. UNCHANGED Cardinality(Known)
  BY <1>7
<1>9. 0 \notin Pending /\ Pending \subseteq Nat
  BY SupervisorConstants DEF Pending, Messages
<1>10. CASE m = P
  BY <1>0, <1>4, <1>7, <1>10, OperatorSeesNothing DEF KeepsProgress, P
<1>11. CASE m # 0 /\ P = 0
  <2>1. /\ m \in Pending \ {P} /\ \A n \in Pending \ {P} : m <= n
        /\ Pending' \ {m} = (Pending \ {P}) \ {m}
    BY <1>5, <1>7, <1>9, <1>11 DEF Oldest
  <2> QED
    BY <1>4, <1>7, <1>8, <1>11, <2>1 DEF Queue!Take, P, Known
<1>12. CASE m = 0 /\ P # 0
  <2>1. Pending' \ {m} = (Pending \ {P}) \cup {P}
    BY <1>6, <1>7, <1>9, <1>12 DEF Oldest
  <2> QED
    BY <1>4, <1>7, <1>8, <1>12, <2>1 DEF Queue!PutBack, P, Known
<1>13. m # 0 /\ P # 0 => m = P
  <2>1. ASSUME m # 0, P # 0 PROVE m <= P /\ P <= m /\ m \in Nat /\ P \in Nat
    BY <1>5, <1>6, <1>9, <2>1 DEF Oldest
  <2> QED
    BY <2>1
<1>14. QED
  BY <1>10, <1>11, <1>12, <1>13

\* A completed turn answers the message it was given, if any.
LEMMA CompleteAnswers ==
    ASSUME TypeInv, TypeInv', QueueInv, NEW w \in Workers, CompleteTurn(w)
    PROVE  Queue!Answer \/ UNCHANGED Queue!queueVars
<1> DEFINE Known == {n \in Messages : message[n] # "absent"}
           P     == Prepared(ck.attempt)
           turn  == [turn |-> ck.turn, input |-> ck.input, message |-> P]
<1>0. /\ message \in [Messages -> MessageStatuses] /\ PreparedIsBound
      /\ transcript' = Append(transcript, turn)
      /\ CommitSteering(P)
  BY DEF TypeInv, TypeOK, QueueInv, CompleteTurn, MessageStatuses
<1>1. NothingPrepared' /\ Pending' = Pending \ {P}
  BY <1>0, CommitSteeringEffect
<1>2. Prepared(ck.attempt)' = 0
  BY <1>1, NothingTakenNext
<1>3. P # 0 => P \in Pending
  BY <1>0, PreparedMessage DEF Oldest
<1>4. Known' = Known
  BY <1>0, <1>3 DEF CommitSteering, queueVars, Pending
<1>5. Answered(transcript)' = IF P = 0 THEN Answered(transcript) ELSE Append(Answered(transcript), P)
  <2> DEFINE Turn == [turn : 1 .. MaxTurns, input : Inputs, message : 0 .. MaxMessages]
  <2>1. transcript \in Seq(Turn)
    BY DEF TypeInv, TypeOK
  <2>2. turn \in Turn
    <3>1. ck \in Checkpoint /\ ck.phase = "turn_started" /\ StartedWithinBudget
      BY DEF TypeInv, TypeOK, CompleteTurn, ActiveAttempt, HoldsTurn
    <3>2. ck.turn \in 1 .. MaxTurns /\ ck.input \in Inputs
      BY <3>1, CheckpointShape, SupervisorConstants DEF StartedWithinBudget, TurnNumbers
    <3>3. P \in 0 .. MaxMessages
      BY <1>3, SupervisorConstants DEF Pending, Messages
    <3> HIDE DEF P
    <3> QED
      BY <3>2, <3>3
  <2>3. turn.message = P
    OBVIOUS
  <2> HIDE DEF turn, Turn, P
  <2>4. Answered(Append(transcript, turn)) =
            IF turn.message = 0 THEN Answered(transcript)
            ELSE Append(Answered(transcript), turn.message)
    BY <2>1, <2>2, AnsweredAppend
  <2> QED
    BY <1>0, <2>3, <2>4
<1>6. 0 \notin Pending
  BY SupervisorConstants DEF Pending, Messages
<1> HIDE DEF P, Known
<1>7. UNCHANGED Cardinality(Known)
  BY <1>4
<1>8. Pending' \ {0} = Pending \ {P}
  BY <1>1, <1>6
<1>9. CASE P = 0
  BY <1>2, <1>5, <1>7, <1>8, <1>9 DEF Queue!queueVars, P, Known
<1>10. CASE P # 0
  BY <1>2, <1>5, <1>7, <1>8, <1>10 DEF Queue!Answer, P, Known
<1>11. QED
  BY <1>9, <1>10

\* Every step is one of the operator's queue, or none of its business.
LEMMA QueueStep ==
    ASSUME TypeInv, TypeInv', QueueInv, [Next]_vars
    PROVE  [Queue!QueueNext]_(Queue!queueVars)
<1> DEFINE Seen == [Queue!QueueNext]_(Queue!queueVars)
<1>0. PreparedIsBound /\ ck \in Checkpoint
  BY DEF QueueInv, TypeInv, TypeOK
<1>1. ASSUME Queue!Give \/ Queue!Withdraw \/ Queue!Take \/ Queue!PutBack \/ Queue!Answer
                 \/ Queue!Close \/ UNCHANGED Queue!queueVars
      PROVE  Seen
  BY <1>1 DEF Queue!QueueNext
<1> HIDE DEF Seen
<1>2. ASSUME UNCHANGED <<message, delivery, transcript>>, ck'.attempt = ck.attempt
      PROVE  Seen
  BY <1>1, <1>2, UnchangedIsUnseen
<1>3. ASSUME NEW w \in Workers, Progress(w) \/ Arrival(w) PROVE Seen
  <2>1. ASSUME StartTurn(w) PROVE Seen
    BY <1>1, <2>1, StartTakes
  <2>2. ASSUME CompleteTurn(w) PROVE Seen
    BY <1>1, <2>2, CompleteAnswers
  <2>3. ASSUME NEW target \in {"completed", "failed"}, Finalize(w, target) PROVE Seen
    <3>1. SteeringFollows(target) /\ UNCHANGED transcript
      BY <2>3 DEF Finalize
    <3> QED
      BY <1>0, <1>1, <2>3, <3>1, FollowsCloses
  <2>4. ASSUME RecoverTurn(w) PROVE Seen
    <3>1. PICK i : ck' = [ck EXCEPT !.generation = worker[w].generation, !.input = i]
      BY <2>4 DEF RecoverTurn
    <3>2. ck'.attempt = ck.attempt
      BY <1>0, <3>1, CheckpointShape
    <3> QED
      BY <1>2, <2>4, <3>2 DEF RecoverTurn
  <2>5. ASSUME BindInput(w) \/ CallBreaksProtocol(w) \/ FailTurn(w) PROVE Seen
    <3>1. ck'.attempt = ck.attempt
      BY <1>0, <2>5, CheckpointShape DEF BindInput, CallBreaksProtocol, FailTurn
    <3> QED
      BY <1>2, <2>5, <3>1 DEF BindInput, CallBreaksProtocol, EndCall, FailTurn
  <2>6. ASSUME UNCHANGED <<ck, message, delivery, transcript>> PROVE Seen
    BY <1>2, <2>6
  <2> QED
    BY <1>3, <2>1, <2>2, <2>3, <2>4, <2>5, <2>6
    DEF Progress, Arrival, Acquire, AcquireAfterReading, Enter, Release, Return, Crash, Vanish,
        Derail, Abandon, StopLoop, DrainReads, HandoffPrepare, HandoffRetry, ReportHandoff,
        DrainWakes, StartCall, CallCompletes, CallRequestsTools, CallFails, EndCall
<1>4. ASSUME NEW to, TransitionRun(to) PROVE Seen
  <2>1. SteeringFollows(to) /\ UNCHANGED <<ck, transcript>>
    BY <1>4 DEF TransitionRun
  <2> QED
    BY <1>0, <1>1, <2>1, FollowsCloses
<1>5. ASSUME Enqueue PROVE Seen
  BY <1>0, <1>1, <1>5, EnqueueGives
<1>6. ASSUME NEW m \in Messages, Withdraw(m) PROVE Seen
  BY <1>0, <1>1, <1>6, WithdrawWithdraws
<1>7. Seen
  BY <1>2, <1>3, <1>4, <1>5, <1>6 DEF Next, vars, Operator, LifecycleOperation, LeaseTime
<1>8. QED
  BY <1>7 DEF Seen

LEMMA QueueStarts == Init => Queue!QueueInit
<1> SUFFICES ASSUME Init PROVE Queue!QueueInit
  OBVIOUS
<1>1. {m \in Messages : message[m] # "absent"} = {} /\ Pending = {} /\ Prepared(ck.attempt) = 0
  BY DEF Init, Pending, Prepared
<1>2. Cardinality({}) = 0
  BY FS_EmptySet
<1>3. Answered(<<>>) = <<>>
  <2>1. Len(<<>>) = 0
    OBVIOUS
  <2>2. PICK f : AnsweredUpTo(f, <<>>, 0) /\ Answered(<<>>) = f[0]
    BY <2>1, AnsweredIs
  <2> QED
    BY <2>2 DEF AnsweredUpTo
<1>4. transcript = <<>>
  BY DEF Init
<1>5. QED
  BY <1>1, <1>2, <1>3, <1>4 DEF Queue!QueueInit

\* All that happens to the steering of a Run, with its attempts, leases, crashes and
\* retries, is to the operator a queue served in order, one message at a time, of which
\* each is answered at most once.
THEOREM SupervisorRefinesSteeringQueue == Spec => ImplementsSteeringQueue
<1>1. TypeInv /\ TypeInv' /\ QueueInv /\ [Next]_vars => [Queue!QueueNext]_(Queue!queueVars)
  BY QueueStep
<1>2. QED
  BY <1>1, QueueStarts, QueueInvariant, PTL DEF Spec, ImplementsSteeringQueue, Queue!QueueSpec
=============================================================================
