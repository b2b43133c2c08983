----------------------------- MODULE Specialists -----------------------------
(***************************************************************************)
(* The Specialist Agents of one Run: their turns (attempts), the           *)
(* instructions their parent, the root Agent, sends them, the messages     *)
(* they send back, and the schedules that run them.                        *)
(*                                                                         *)
(* A scheduler takes the execution lease of the Run and runs its children  *)
(* in rounds, one goroutine per child.  Goroutines outlive a lost lease:   *)
(* what they still write is fenced by the generation of their attempt.     *)
(* What a dead process leaves behind is recovered by the next schedule.    *)
(***************************************************************************)
EXTENDS SpecialistPromises, Integers, SequencesExt

CONSTANTS
    Children,
    Schedulers,     \* processes that execute schedules
    Requests,       \* operator requests; other schedules have the request "none"
    RequestOf,      \* the request each scheduler executes
    TargetsOf,      \* the children of each request
    TurnLimit, TokenLimit,     \* of every child
    Tokens,         \* what one model call may cost
    Batch,          \* instructions, or messages to the root, that one turn reads
    InboxLimit,     \* pending messages of the root's inbox
    HistoryLimit,   \* messages the root's inbox takes in all
    MaxInstructions, MaxRounds, MaxLeases, MaxFaults     \* bounds

SpecialistConstants ==
    /\ IsFiniteSet(Children) /\ {"none", "root"} \intersect Schedulers = {}
    /\ RequestOf \in [Schedulers -> Requests \cup {"none"}]
    /\ TargetsOf \in [Requests \cup {"none"} -> (SUBSET Children) \ {{}}]
    /\ Tokens \subseteq Nat
    /\ {TurnLimit, TokenLimit, Batch, InboxLimit, HistoryLimit, MaxRounds} \subseteq Nat \ {0}
    /\ {MaxInstructions, MaxLeases, MaxFaults} \subseteq Nat

VARIABLES
    run,          \* the status of the Run
    root,         \* the root Agent: "ready", or "running" a turn
    lease,        \* of the Run: who holds it, and its generation
    read,         \* how many messages of its inbox the root has consumed
    requested,    \* operator requests that exist
    scheduler,    \* what each process remembers
    worker,       \* its goroutines
    faults

vars == <<run, root, lease, child, attempt, instruction, delivery, inbox, read, requested,
          schedule, scheduler, worker, faults>>

NoDelivery == [turn |-> 0, items |-> {}]
NoWorker == [step |-> "idle", turn |-> 0, failed |-> FALSE]
NoScheduler == [pc |-> "idle", row |-> 0, rounds |-> 0, turns |-> 0, recovered |-> 0,
                failed |-> FALSE]

Ended == {"continued", "finished", "crashed", "interrupted"}
Terminal == {"completed", "failed", "cancelled"}

\* Rows, messages and memories keep their types.
TypeOK ==
    /\ run \in {"running", "paused", "ended"} /\ root \in {"ready", "running"}
    /\ lease \in [holder : Schedulers \cup {"none", "root"}, generation : Nat]
    /\ child \in [Children -> [status : {"ready", "running", "waiting"} \cup Terminal,
                               turns : 0 .. TurnLimit, tokens : Nat, active : 0 .. TurnLimit]]
    /\ \A c \in Children :
         /\ \A t \in DOMAIN attempt[c] :
              attempt[c][t] \in
                  [status : {"running"} \cup Ended, generation : Nat, usage : BOOLEAN,
                   tokens : Nat,
                   repair : {"none", "pending", "completed", "exhausted", "aborted"}]
         /\ \A i \in DOMAIN instruction[c] :
              instruction[c][i] \in 0 .. TurnLimit
         /\ delivery[c] \in [turn : 0 .. TurnLimit, items : SUBSET (1 .. MaxInstructions)]
    /\ inbox \in Seq([from : Children, turn : 1 .. TurnLimit, kind : {"result", "failure"}])
    /\ read \in 0 .. Len(inbox) /\ requested \subseteq Requests
    /\ \A k \in DOMAIN schedule :
         schedule[k] \in
             [status : {"running", "completed", "failed", "abandoned"}, generation : Nat,
              request : Requests \cup {"none"}, rounds : 0 .. MaxRounds, turns : Nat,
              recovered : Nat]
    /\ \A p \in Schedulers :
         /\ scheduler[p].pc \in {"idle", "start", "recover", "round", "wait", "finish",
                                 "release"}
         /\ scheduler[p].row \in 0 .. MaxLeases /\ scheduler[p].rounds \in 0 .. MaxRounds
         /\ \A c \in Children :
              worker[p][c] \in
                  [step : {"idle", "begin", "prepare", "call", "continue", "finish", "fail",
                           "done"},
                   turn : 0 .. TurnLimit, failed : BOOLEAN]
    /\ faults \in 0 .. MaxFaults

Init ==
    /\ run = "running" /\ root = "ready" /\ lease = [holder |-> "none", generation |-> 0]
    /\ child = [c \in Children |-> [status |-> "ready", turns |-> 0, tokens |-> 0,
                                    active |-> 0]]
    /\ attempt = [c \in Children |-> << >>]
    /\ instruction = [c \in Children |-> << >>]
    /\ delivery = [c \in Children |-> NoDelivery]
    /\ inbox = << >> /\ read = 0 /\ requested = {} /\ schedule = << >>
    /\ scheduler = [p \in Schedulers |-> NoScheduler]
    /\ worker = [p \in Schedulers |-> [c \in Children |-> NoWorker]]
    /\ faults = 0

-----------------------------------------------------------------------------
(* The ledger of attempts *)

BudgetLeft(node) == node.turns < TurnLimit /\ node.tokens < TokenLimit

\* insertBoundedAgentMessageTx, for n messages.
Room(n) == /\ Len(inbox) - read + n <= InboxLimit
           /\ Len(inbox) + n <= HistoryLimit

Message(c, kind) == [from |-> c, turn |-> child[c].active, kind |-> kind]

\* loadActiveAgentAttemptTx: the attempt is running, under the lease it was
\* begun with, and is what its child is doing.
Active(c, t) ==
    /\ t # 0 /\ attempt[c][t].status = "running"
    /\ lease.holder # "none" /\ attempt[c][t].generation = lease.generation
    /\ child[c].status = "running" /\ child[c].active = t
    /\ run = "running"

\* The attempts of the children in S end; a pending repair is given up with
\* an attempt that fails.
EndAttempts(S, status) ==
    attempt' = [c \in Children |->
        IF c \in S
        THEN [attempt[c] EXCEPT ![child[c].active].status = status,
                                ![child[c].active].repair =
                                    IF @ = "pending" THEN "aborted" ELSE @]
        ELSE attempt[c]]

\* Faulty: prepared deliveries outlive their attempt.
KeepDeliveries(S) == UNCHANGED delivery

\* Prepared deliveries are superseded with the attempt; what they deliver
\* stays pending.
Supersede(S) == delivery' = [c \in Children |-> IF c \in S THEN NoDelivery ELSE delivery[c]]

\* crashAgentAttemptTx: the parent is told, and the child may have another
\* turn if its budget allows.  A full inbox of the parent undoes all of it.
Crash(S) ==
    /\ Room(Cardinality(S))
    /\ inbox' = inbox \o SetToSeq({Message(c, "failure") : c \in S})
    /\ EndAttempts(S, "crashed") /\ Supersede(S)
    /\ child' = [c \in Children |->
           IF c \in S
           THEN [child[c] EXCEPT !.active = 0,
                                 !.status = IF BudgetLeft(child[c]) THEN "ready" ELSE "failed"]
           ELSE child[c]]
    /\ UNCHANGED instruction

\* Faulty: lifecycle changes leave attempts to their workers.
InterruptChildren(from, to) ==
    /\ child' = [c \in Children |-> IF child[c].status \in from
                                   THEN [child[c] EXCEPT !.status = to, !.active = 0]
                                   ELSE child[c]]
    /\ UNCHANGED <<attempt, delivery>>

\* syncSpecialistLifecycleTx: running attempts are interrupted, of which
\* nobody is told.
Interrupt(from, to) ==
    LET changed == {c \in Children : child[c].status \in from}
        running == {c \in changed : child[c].status = "running"}
    IN  /\ child' = [c \in Children |-> IF c \in changed
                                        THEN [child[c] EXCEPT !.status = to, !.active = 0]
                                        ELSE child[c]]
        /\ EndAttempts(running, "interrupted") /\ Supersede(running)

\* commitSpecialistContextTx: what was prepared for turn t is consumed by it.
CommitContext(c, t) ==
    /\ instruction' = [instruction EXCEPT ![c] =
           [i \in DOMAIN @ |-> IF delivery[c].turn = t /\ i \in delivery[c].items THEN t
                               ELSE @[i]]]
    /\ Supersede({c})

Resolved(c, t) == attempt[c][t].repair \in {"none", "completed"}

-----------------------------------------------------------------------------
(* The goroutine of a child *)

Goto(p, c, step) == worker' = [worker EXCEPT ![p][c].step = step]
Done(p, c, failed) ==
    worker' = [worker EXCEPT ![p][c].step = "done", ![p][c].failed = failed]

Local == <<run, root, lease, read, requested, schedule, scheduler, faults>>

\* BeginSpecialistAttempt.
Begin(p, c) ==
    /\ worker[p][c].step = "begin"
    /\ IF /\ lease.holder = p /\ run = "running"
          /\ child[c].status = "ready" /\ BudgetLeft(child[c])
       THEN LET t == child[c].turns + 1 IN
            /\ attempt' = [attempt EXCEPT ![c] = Append(@,
                   [status |-> "running", generation |-> lease.generation, usage |-> FALSE,
                    tokens |-> 0, repair |-> "none"])]
            /\ child' = [child EXCEPT ![c].status = "running", ![c].active = t, ![c].turns = t]
            /\ worker' = [worker EXCEPT ![p][c].step = "prepare", ![p][c].turn = t]
            /\ UNCHANGED <<instruction, delivery, inbox>>
       ELSE Done(p, c, TRUE) /\ UNCHANGED ledger
    /\ UNCHANGED Local

\* Instructions that are pending, the oldest first.
Pending(c) == {i \in DOMAIN instruction[c] : instruction[c][i] = 0}
Oldest(c) == {i \in Pending(c) : Cardinality({j \in Pending(c) : j < i}) < Batch}

\* PrepareSpecialistContext.
Prepare(p, c) ==
    LET t == worker[p][c].turn IN
    /\ worker[p][c].step = "prepare"
    /\ IF Active(c, t) /\ ~attempt[c][t].usage
       THEN /\ delivery' = [delivery EXCEPT ![c] = [turn |-> t, items |-> Oldest(c)]]
            /\ Goto(p, c, "call")
       ELSE Goto(p, c, "fail") /\ UNCHANGED delivery
    /\ UNCHANGED <<Local, child, attempt, instruction, inbox>>

\* The model answers: an action, or something the protocol refuses, which it
\* may repair once; the answer is charged with its terminal record.
Answer(p, c) ==
    LET t == worker[p][c].turn
        repair == attempt[c][t].repair
        charge(cost, outcome) ==
            /\ attempt' = [attempt EXCEPT ![c][t].usage = TRUE, ![c][t].tokens = @ + cost,
                                          ![c][t].repair = outcome]
            /\ child' = [child EXCEPT ![c].tokens = @ + cost]
    IN  /\ worker[p][c].step = "call" /\ Active(c, t)
        /\ \E cost \in Tokens :
             \/ /\ charge(cost, IF repair = "pending" THEN "completed" ELSE repair)
                /\ \E action \in {"continue", "finish", "fail"} : Goto(p, c, action)
             \/ /\ repair = "none" /\ charge(cost, "pending") /\ UNCHANGED worker
             \/ /\ repair = "pending" /\ charge(cost, "exhausted") /\ Goto(p, c, "fail")
        /\ UNCHANGED <<Local, instruction, delivery, inbox>>

\* ContinueSpecialistAttempt.
Continue(p, c) ==
    LET t == worker[p][c].turn IN
    /\ worker[p][c].step = "continue"
    /\ IF Active(c, t) /\ Resolved(c, t) /\ attempt[c][t].usage /\ BudgetLeft(child[c])
       THEN /\ CommitContext(c, t)
            /\ attempt' = [attempt EXCEPT ![c][t].status = "continued"]
            /\ child' = [child EXCEPT ![c].status = "ready", ![c].active = 0]
            /\ Done(p, c, FALSE) /\ UNCHANGED inbox
       ELSE Goto(p, c, "fail") /\ UNCHANGED ledger
    /\ UNCHANGED Local

\* Faulty: the child completes although its parent cannot be told.
FinishUntold(p, c) ==
    LET t == worker[p][c].turn IN
    /\ worker[p][c].step = "finish"
    /\ IF Active(c, t) /\ Resolved(c, t) /\ attempt[c][t].usage
       THEN /\ CommitContext(c, t)
            /\ inbox' = IF Room(1) THEN Append(inbox, Message(c, "result")) ELSE inbox
            /\ attempt' = [attempt EXCEPT ![c][t].status = "finished"]
            /\ child' = [child EXCEPT ![c].status = "completed", ![c].active = 0]
            /\ Done(p, c, FALSE)
       ELSE Goto(p, c, "fail") /\ UNCHANGED ledger
    /\ UNCHANGED Local

\* FinishSpecialist.
Finish(p, c) ==
    LET t == worker[p][c].turn IN
    /\ worker[p][c].step = "finish"
    /\ IF Active(c, t) /\ Resolved(c, t) /\ attempt[c][t].usage /\ Room(1)
       THEN /\ CommitContext(c, t)
            /\ inbox' = Append(inbox, Message(c, "result"))
            /\ attempt' = [attempt EXCEPT ![c][t].status = "finished"]
            /\ child' = [child EXCEPT ![c].status = "completed", ![c].active = 0]
            /\ Done(p, c, FALSE)
       ELSE Goto(p, c, "fail") /\ UNCHANGED ledger
    /\ UNCHANGED Local

\* Whatever goes wrong after the attempt has begun, or a cancellation, ends
\* in failAttempt; before that it only ends the goroutine.
Fails(p, c) ==
    /\ \/ worker[p][c].step = "begin" /\ Done(p, c, TRUE)
       \/ worker[p][c].step \in {"prepare", "call", "continue", "finish"} /\ Goto(p, c, "fail")
    /\ UNCHANGED <<Local, ledger>>

\* CrashSpecialistAttempt; when it is refused the attempt stays as it is.
FailAttempt(p, c) ==
    /\ worker[p][c].step = "fail"
    /\ IF Active(c, worker[p][c].turn) /\ Room(1) THEN Crash({c}) ELSE UNCHANGED ledger
    /\ Done(p, c, TRUE)
    /\ UNCHANGED Local

-----------------------------------------------------------------------------
(* Schedules *)

StatusOf(r) == LET rows == {k \in DOMAIN schedule : schedule[k].request = r}
           IN  IF rows = {} THEN "none"
               ELSE schedule[CHOOSE k \in rows : \A j \in rows : j <= k].status

\* A request that has not come to an end keeps its children to itself.
Reserved(c, except) ==
    \E q \in requested \ {except} :
        c \in TargetsOf[q] /\ StatusOf(q) \in {"none", "running", "abandoned"}

\* CreateSpecialistOperatorScheduleRequest.
Ask(q) ==
    /\ q \notin requested /\ run = "running" /\ root = "ready" /\ RunningRows = {}
    /\ \A c \in TargetsOf[q] : child[c].status = "ready" /\ ~Reserved(c, "none")
    /\ requested' = requested \cup {q}
    /\ UNCHANGED <<run, root, lease, ledger, read, schedule, scheduler, worker, faults>>

Step(p, pc) == scheduler' = [scheduler EXCEPT ![p].pc = pc]
Stop(p, failed) == scheduler' = [scheduler EXCEPT ![p].pc = "finish", ![p].failed = failed]

\* A request that has ended is answered from its row; a running one is
\* joined while somebody holds the lease.
Acquire(p) ==
    LET q == RequestOf[p] IN
    /\ scheduler[p].pc = "idle" /\ run = "running"
    /\ q # "none" => q \in requested /\ StatusOf(q) \in {"none", "running", "abandoned"}
    /\ lease.holder = "none" /\ lease.generation < MaxLeases
    /\ lease' = [holder |-> p, generation |-> lease.generation + 1]
    /\ Step(p, "start")
    /\ UNCHANGED <<run, root, ledger, read, requested, schedule, worker, faults>>

StillRunning(g) == {u \in TurnsUnder(g) : attempt[u[1]][u[2]].status = "running"}

\* Faulty: a lost row keeps the counts its worker never wrote.
AbandonedAsIs(row) == [row EXCEPT !.status = "abandoned"]

\* The row of a lost worker, as its successor finds it.
Abandoned(row) == [row EXCEPT !.status = "abandoned",
                              !.turns = Cardinality(TurnsUnder(row.generation)),
                              !.recovered = Cardinality(StillRunning(row.generation))]

\* StartSpecialistSchedule: a running row of an older lease is abandoned,
\* but only by a schedule of the same request.
Start(p) ==
    LET q == RequestOf[p]
        rows == [k \in DOMAIN schedule |->
                     IF k \in RunningRows THEN Abandoned(schedule[k]) ELSE schedule[k]]
    IN  /\ scheduler[p].pc = "start"
        /\ IF /\ lease.holder = p /\ run = "running"
              /\ \A k \in RunningRows : /\ schedule[k].request = q
                                        /\ schedule[k].generation < lease.generation
              /\ \A c \in TargetsOf[q] : ~Reserved(c, q)
              /\ q # "none" => StatusOf(q) \in {"none", "running", "abandoned"}
           THEN /\ schedule' = Append(rows,
                       [status |-> "running", generation |-> lease.generation, request |-> q,
                        rounds |-> 0, turns |-> 0, recovered |-> 0])
                /\ scheduler' = [scheduler EXCEPT ![p].pc = "recover",
                                                  ![p].row = Len(schedule) + 1]
           ELSE Step(p, "release") /\ UNCHANGED schedule
        /\ UNCHANGED <<run, root, lease, ledger, read, requested, worker, faults>>

\* Children whose attempt belongs to another lease.
Stale == {c \in Children : /\ child[c].active # 0
                           /\ attempt[c][child[c].active].generation # lease.generation}

\* RecoverSpecialistAttempts, in one transaction.
Recover(p) ==
    /\ scheduler[p].pc = "recover"
    /\ IF lease.holder = p /\ run = "running" /\ Room(Cardinality(Stale))
       THEN /\ Crash(Stale)
            /\ scheduler' = [scheduler EXCEPT ![p].pc = "round",
                                              ![p].recovered = Cardinality(Stale)]
       ELSE Stop(p, TRUE) /\ UNCHANGED ledger
    /\ UNCHANGED <<run, root, lease, read, requested, schedule, worker, faults>>

\* Every ready child of the schedule gets a turn; children that are still
\* running, or a root that is, end the schedule.
Round(p) ==
    LET targets == TargetsOf[RequestOf[p]]
        ready == {c \in targets : child[c].status = "ready"}
    IN  /\ scheduler[p].pc = "round"
        /\ IF scheduler[p].rounds = MaxRounds THEN Stop(p, FALSE) /\ UNCHANGED worker
           ELSE IF root = "running" \/ run = "ended"
                   \/ \E c \in targets : child[c].status = "running"
           THEN Stop(p, TRUE) /\ UNCHANGED worker
           ELSE IF ready = {} THEN Stop(p, FALSE) /\ UNCHANGED worker
           ELSE /\ worker' = [worker EXCEPT ![p] = [c \in Children |->
                       IF c \in ready THEN [NoWorker EXCEPT !.step = "begin"] ELSE NoWorker]]
                /\ Step(p, "wait")
        /\ UNCHANGED <<run, root, lease, ledger, read, requested, schedule, faults>>

\* The round is over when every goroutine of it is.
Gather(p) ==
    LET workers == {c \in Children : worker[p][c].step # "idle"} IN
    /\ scheduler[p].pc = "wait" /\ \A c \in workers : worker[p][c].step = "done"
    /\ scheduler' = [scheduler EXCEPT
           ![p].rounds = @ + 1,
           ![p].turns = @ + Cardinality({c \in workers : worker[p][c].turn # 0}),
           ![p].failed = \E c \in workers : worker[p][c].failed,
           ![p].pc = IF \E c \in workers : worker[p][c].failed THEN "finish" ELSE "round"]
    /\ worker' = [worker EXCEPT ![p] = [c \in Children |-> NoWorker]]
    /\ UNCHANGED <<run, root, lease, ledger, read, requested, schedule, faults>>

\* The process is told to stop; a schedule that has not failed is cancelled.
Cancelled(p) ==
    /\ scheduler[p].pc \in {"recover", "round"}
    /\ Stop(p, TRUE)
    /\ UNCHANGED <<run, root, lease, ledger, read, requested, schedule, worker, faults>>

\* FinishSpecialistSchedule; without the lease the row stays running.
FinishSchedule(p) ==
    LET s == scheduler[p] IN
    /\ s.pc = "finish"
    /\ IF lease.holder = p /\ schedule[s.row].status = "running"
       THEN schedule' = [schedule EXCEPT ![s.row].status = IF s.failed THEN "failed"
                                                            ELSE "completed",
                                         ![s.row].rounds = s.rounds, ![s.row].turns = s.turns,
                                         ![s.row].recovered = s.recovered]
       ELSE UNCHANGED schedule
    /\ Step(p, "release")
    /\ UNCHANGED <<run, root, lease, ledger, read, requested, worker, faults>>

Release(p) ==
    /\ scheduler[p].pc = "release"
    /\ lease' = IF lease.holder = p THEN [lease EXCEPT !.holder = "none"] ELSE lease
    /\ scheduler' = [scheduler EXCEPT ![p] = NoScheduler]
    /\ UNCHANGED <<run, root, ledger, read, requested, schedule, worker, faults>>

-----------------------------------------------------------------------------
(* The root Agent, operators and faults *)

\* A turn of the root needs the lease too; one that was cut off is resumed.
RootBegins ==
    /\ run = "running" /\ lease.holder = "none" /\ lease.generation < MaxLeases
    /\ (root = "running" \/ read < Len(inbox))
    /\ root' = "running"
    /\ lease' = [holder |-> "root", generation |-> lease.generation + 1]
    /\ UNCHANGED <<run, ledger, read, requested, schedule, scheduler, worker, faults>>

\* It consumes the oldest messages of the inbox when it commits.
RootEnds ==
    /\ lease.holder = "root"
    /\ root' = "ready" /\ lease' = [lease EXCEPT !.holder = "none"]
    /\ read' = IF run # "running" THEN read
               ELSE IF read + Batch < Len(inbox) THEN read + Batch ELSE Len(inbox)
    /\ UNCHANGED <<run, ledger, requested, schedule, scheduler, worker, faults>>

Instruct(c) ==
    /\ child[c].status \notin Terminal /\ Len(instruction[c]) < MaxInstructions
    /\ instruction' = [instruction EXCEPT ![c] = Append(@, 0)]
    /\ UNCHANGED <<run, root, lease, child, attempt, delivery, inbox, read, requested, schedule,
                   scheduler, worker, faults>>

Fault == faults < MaxFaults /\ faults' = faults + 1

Pause ==
    /\ run = "running" /\ root = "ready" /\ Fault
    /\ run' = "paused" /\ Interrupt({"ready", "running"}, "waiting")
    /\ UNCHANGED <<root, lease, instruction, inbox, read, requested, schedule, scheduler,
                   worker>>

Resume ==
    /\ run = "paused" /\ run' = "running"
    /\ Interrupt({"waiting"}, "ready")
    /\ UNCHANGED <<root, lease, instruction, inbox, read, requested, schedule, scheduler,
                   worker, faults>>

EndRun ==
    /\ run # "ended" /\ Fault
    /\ run' = "ended" /\ root' = "ready" /\ Interrupt({"ready", "running", "waiting"}, "cancelled")
    /\ UNCHANGED <<lease, instruction, inbox, read, requested, schedule, scheduler, worker>>

\* The lease expires although its holder goes on.
Lapse ==
    /\ lease.holder # "none" /\ Fault
    /\ lease' = [lease EXCEPT !.holder = "none"]
    /\ UNCHANGED <<run, root, ledger, read, requested, schedule, scheduler, worker>>

\* A process dies, and the lease it had expires.
Die(p) ==
    /\ scheduler[p].pc # "idle" /\ Fault
    /\ scheduler' = [scheduler EXCEPT ![p] = NoScheduler]
    /\ worker' = [worker EXCEPT ![p] = [c \in Children |-> NoWorker]]
    /\ lease' = IF lease.holder = p THEN [lease EXCEPT !.holder = "none"] ELSE lease
    /\ UNCHANGED <<run, root, ledger, read, requested, schedule>>

Turn(p, c) == \/ Begin(p, c) \/ Prepare(p, c) \/ Answer(p, c) \/ Continue(p, c)
              \/ Finish(p, c) \/ Fails(p, c) \/ FailAttempt(p, c)

Next ==
    \/ \E p \in Schedulers :
         \/ Acquire(p) \/ Start(p) \/ Recover(p) \/ Round(p) \/ Gather(p) \/ Cancelled(p)
         \/ FinishSchedule(p) \/ Release(p) \/ Die(p)
         \/ \E c \in Children : Turn(p, c)
    \/ \E q \in Requests : Ask(q)
    \/ \E c \in Children : Instruct(c)
    \/ RootBegins \/ RootEnds \/ Pause \/ Resume \/ EndRun \/ Lapse

Spec == Init /\ [][Next]_vars
=============================================================================
