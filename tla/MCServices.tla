-------------------------------- MODULE MCServices ---------------------------------
(***************************************************************************)
(* The components that share no state with one another, for TLC.  The      *)
(* initial state chooses the part that is checked; the variables of the    *)
(* others rest at 0 and their tables are empty.  So one run checks each    *)
(* component by itself, and its states are the sum of theirs, not the      *)
(* product.  What it checks of them is what the modules it extends promise *)
(* of their tables, beside the types.                                      *)
(***************************************************************************)
EXTENDS RunWakePromises, ScheduledJobPromises, FileEditPromises, ToolRoundPromises,
        SpecialistPromises, RunProgressPromises, MonetaryPromises, FanoutPromises,
        DelegationPromises, TLC

CONSTANTS
    Parts,    \* the parts to check
    c1, c2, r1, w1, w2, m1, s1, s2, a1, a2, p1, p2, k1, k2, q1, d1, d2, t1, t2, t3, e1, e2,
    v1, v2, h1, h2, i1, i2, u1, u2     \* model values

VARIABLES part,
    now, consumer, faults, setbacks, target, spec, worker, crashes, ended, table, usage,
    event, caller, runStatus, state, guard, resumed, read, requested, scheduler, busy,
    applier, file, reviewer, status, generation, authority, ck, running, source, plan, row,
    tree, receipt, review, queue, integration, handler

\* What each assignment of the two proposals asks for.
Teamwork == [d \in {d1, d2} |-> IF d = d1 THEN <<1, 1>> ELSE <<2>>]

\* A polling worker and a command, and a wake with two attempts.
Wake == INSTANCE RunWake WITH
    Consumers <- {c1, c2}, Pollers <- {c1}, Runs <- {r1}, MaxIntents <- 1, MaxAttempts <- 2,
    Lease <- 1, Elapsed <- 3, BaseBackoff <- 1, MaxBackoff <- 1, MaxMessages <- 1,
    RunsMayEnd <- TRUE, MaxTime <- 4, MaxFaults <- 1

\* Two workers on one periodic job; one of them may be slower than its lease, and the
\* clock may be set back.
JobRounds == INSTANCE ScheduledJobs WITH
    Workers <- {w1, w2}, Jobs <- {1}, Kinds <- {"periodic"}, Misfires <- {"run_once"},
    Modes <- {"read_only"}, StopOnTerminal <- TRUE, Executor <- TRUE, Anchor <- 0,
    Interval <- 1, Deadline <- 3, MaxElapsed <- 3, Lease <- 1, InitialBackoff <- 1,
    MaxBackoff <- 2, IdleCap <- 2, MaxRounds <- 2, MaxModelCalls <- 0,
    MaxAttempts <- MaxAttempts, PageSize <- 1, MaxTime <- 3, MaxSetbacks <- 1,
    MaxEvents <- 1, MaxCrashes <- 0

\* Every kind of job and both misfire policies, repairs that lose their authority,
\* crashes.
JobSpecs == INSTANCE ScheduledJobs WITH
    Workers <- {w1}, Jobs <- {1}, Kinds <- {"once", "periodic"},
    Misfires <- {"run_once", "skip"}, Modes <- {"approved_repair"}, StopOnTerminal <- TRUE,
    Executor <- TRUE, Anchor <- 0, Interval <- 1, Deadline <- 3, MaxElapsed <- 3,
    Lease <- 1, InitialBackoff <- 1, MaxBackoff <- 2, IdleCap <- 2, MaxRounds <- 2,
    MaxModelCalls <- 1, MaxAttempts <- MaxAttempts, PageSize <- 1, MaxTime <- 3,
    MaxSetbacks <- 0, MaxEvents <- 1, MaxCrashes <- 1

\* The root and a shard of a fan-out, with two turns each.
Money == INSTANCE MonetaryBudget WITH
    Callers <- {"root", "readonly_fanout"},
    Scope <- [c \in {"root", "readonly_fanout"} |-> c],
    Model <- [c \in {"root", "readonly_fanout"} |-> m1], Cap <- Cap, Costs <- {1, 2},
    MaxCalls <- 1, MaxTurns <- 2, MaxTables <- 2, MaxFaults <- 1

\* The thresholds of the code, and enough turns for a second repetition after a first.
Guard == INSTANCE RunProgressGuard WITH
    States <- {s1, s2}, Actions <- {a1, a2}, RepeatThreshold <- RepeatThreshold,
    StagnantThreshold <- StagnantThreshold, MaxTurns <- 6

\* Two children of one schedule, and a root inbox that fills up.
Agents == INSTANCE Specialists WITH
    Children <- {k1, k2}, Schedulers <- {p1}, Requests <- {},
    RequestOf <- [p \in {p1} |-> "none"], TargetsOf <- [q \in {"none"} |-> {k1, k2}],
    TurnLimit <- 2, TokenLimit <- 2, Tokens <- {1}, Batch <- 1, InboxLimit <- 1,
    HistoryLimit <- 2, MaxInstructions <- 0, MaxRounds <- 1, MaxLeases <- 2, MaxFaults <- 1

\* A schedule and an operator request that compete for one child, which has instructions
\* to read.
AgentRequests == INSTANCE Specialists WITH
    Children <- {k1}, Schedulers <- {p1, p2}, Requests <- {q1},
    RequestOf <- [p \in {p1, p2} |-> IF p = p1 THEN "none" ELSE q1],
    TargetsOf <- [q \in {"none", q1} |-> {k1}], TurnLimit <- 2, TokenLimit <- 2,
    Tokens <- {1}, Batch <- 1, InboxLimit <- 2, HistoryLimit <- 2, MaxInstructions <- 2,
    MaxRounds <- 2, MaxLeases <- 2, MaxFaults <- 1

\* Two proposals, of which one is applied by two requests at a time, and a child task.
Teams == INSTANCE Delegation WITH
    Proposals <- {d1, d2}, TurnsOf <- TurnsOf, Appliers <- {t1, t2, t3},
    ProposalOf <- [t \in {t1, t2, t3} |-> IF t = t3 THEN d2 ELSE d1],
    KeyOf <- [t \in {t1, t2, t3} |-> IF t = t3 THEN "key2" ELSE "key1"], TaskTurns <- {1},
    MaxTurns <- MaxTurns, MaxChildren <- MaxChildren

\* Two edits of one file and the boundaries of their applications, of which one dies at
\* any step.
Files == INSTANCE FileEdits WITH
    Edits <- {e1, e2}, Reviewers <- {v1}, Appliers <- {h1}, UserTexts <- {"base"},
    MaxFaults <- 1

\* Two reviews of one edit at a time, while it is applied and the user writes.
Reviews == INSTANCE FileEdits WITH
    Edits <- {e1}, Reviewers <- {v1, v2}, Appliers <- {h1}, UserTexts <- {"base", "user"},
    MaxFaults <- 2

\* Two requests to apply one edit at a time.
Repeats == INSTANCE FileEdits WITH
    Edits <- {e1}, Reviewers <- {v1}, Appliers <- {h1, h2}, UserTexts <- {"base"},
    MaxFaults <- 0

\* Batches of two calls in two turns, and a budget that repetitions use up.
Calls == INSTANCE ToolRounds WITH
    Workers <- {w1}, Intents <- {i1, i2}, MaxCalls <- 2, MaxRounds <- 1, MaxTurns <- 2,
    MaxToolCalls <- 2, MaxAttempts <- 2, MaxGeneration <- 2

\* Two workers and two rounds of a turn, with the same call each time.
Rounds == INSTANCE ToolRounds WITH
    Workers <- {w1, w2}, Intents <- {i1}, MaxCalls <- 1, MaxRounds <- 2, MaxTurns <- 1,
    MaxToolCalls <- 2, MaxAttempts <- 2, MaxGeneration <- 2

\* Two children, one of which waits for the other.
Batches == INSTANCE BatchDelivery WITH
    Count <- 2, Deps <- {<<2, 1>>}, Handlers <- {w1}, Reviewed <- FALSE, MaxGeneration <- 1,
    MaxCommits <- 1, MaxQueues <- 1, MaxDrift <- 0

\* Two requests for one fan-out of two shards.
Fanout == INSTANCE ReadOnlyFanout WITH
    Workers <- {w1, w2}, Shards <- {u1, u2}, ShardTokens <- ShardTokens, Usages <- {1, 3},
    Budget <- Budget, MaxAttempts <- 2, MaxGeneration <- 2, MaxFaults <- 1

\* One shard, which fails more often than it may be tried.
FanoutRetries == INSTANCE ReadOnlyFanout WITH
    Workers <- {w1, w2}, Shards <- {u1}, ShardTokens <- ShardTokens, Usages <- {1, 3},
    Budget <- Budget, MaxAttempts <- 2, MaxGeneration <- 3, MaxFaults <- 1

ASSUME ServicesConstants ==
    /\ Wake!WakeConstants
    /\ JobRounds!JobConstants
    /\ JobSpecs!JobConstants
    /\ Money!MoneyConstants
    /\ Guard!GuardConstants
    /\ Agents!SpecialistConstants
    /\ AgentRequests!SpecialistConstants
    /\ Teams!DelegationConstants
    /\ Files!FileEditsConstants
    /\ Reviews!FileEditsConstants
    /\ Repeats!FileEditsConstants
    /\ Calls!ToolConstants
    /\ Rounds!ToolConstants
    /\ Batches!BatchConstants
    /\ Fanout!FanoutConstants
    /\ FanoutRetries!FanoutConstants

wakeVars == <<intent, consumption, handoff, consumer>>
jobsKindsVars == <<setbacks, target, spec, job, round, reported, runs>>
moneyVars == <<ended, table, usage, reservation, event, caller>>
progressVars == <<runStatus, state, guard, resumed, log>>
childrenRequestsVars == <<child, attempt, instruction, delivery, inbox, read, requested,
                          schedule, scheduler>>
delegationVars == <<used, busy, proposal, application, agents, messages>>
filesReviewsRepeatsVars == <<file, edit, approval, operation, result, boundary, cursor,
                             reviewer, written>>
callsRoundsVars == <<status, generation, authority, ck, attempts, consumed, entities>>
batchesVars == <<running, source, plan, row, tree, receipt, review, queue, integration,
                 handler>>
fanoutRetriesVars == <<shard, calls, spent>>

vars == <<part, now, run, execution, wakeVars, lease, faults, jobsKindsVars, worker, crashes,
          moneyVars, progressVars, root, childrenRequestsVars, delegationVars, applier,
          filesReviewsRepeatsVars, callsRoundsVars, batchesVars, fanoutRetriesVars>>

\* What a part is while another one is checked.
WakeRests ==
    /\ intent = 0 /\ consumption = <<>> /\ handoff = 0 /\ consumer = 0
JobsKindsRests ==
    /\ setbacks = 0 /\ target = 0 /\ spec = 0 /\ job = <<>> /\ round = 0 /\ reported = 0
    /\ runs = <<>>
MoneyRests ==
    /\ ended = 0 /\ table = 0 /\ usage = 0 /\ reservation = <<>> /\ event = 0
    /\ caller = 0
ProgressRests ==
    /\ runStatus = 0 /\ state = 0 /\ guard = 0 /\ resumed = 0 /\ log = <<>>
ChildrenRequestsRests ==
    /\ child = 0 /\ attempt = <<>> /\ instruction = <<>> /\ delivery = 0 /\ inbox = 0
    /\ read = 0 /\ requested = 0 /\ schedule = <<>> /\ scheduler = 0
DelegationRests ==
    /\ used = 0 /\ busy = 0 /\ proposal = 0 /\ application = <<>> /\ agents = 0
    /\ messages = <<>>
FilesReviewsRepeatsRests ==
    /\ file = 0 /\ edit = <<>> /\ approval = 0 /\ operation = 0 /\ result = 0
    /\ boundary = 0 /\ cursor = 0 /\ reviewer = 0 /\ written = 0
CallsRoundsRests ==
    /\ status = 0 /\ generation = 0 /\ authority = 0 /\ ck = 0 /\ attempts = <<>>
    /\ consumed = 0 /\ entities = <<>>
BatchesRests ==
    /\ running = 0 /\ source = 0 /\ plan = 0 /\ row = 0 /\ tree = 0 /\ receipt = 0
    /\ review = 0 /\ queue = 0 /\ integration = 0 /\ handler = 0
FanoutRetriesRests ==
    /\ shard = <<>> /\ calls = 0 /\ spent = 0

Init ==
    /\ part \in Parts
    /\ \/ part = "wake" /\ Wake!Init
          /\ JobsKindsRests /\ worker = 0 /\ crashes = 0 /\ MoneyRests /\ ProgressRests
          /\ root = 0 /\ ChildrenRequestsRests /\ DelegationRests /\ applier = 0
          /\ FilesReviewsRepeatsRests /\ CallsRoundsRests /\ BatchesRests
          /\ FanoutRetriesRests
       \/ part = "jobs" /\ JobRounds!Init
          /\ run = 0 /\ execution = 0 /\ WakeRests /\ lease = 0 /\ faults = 0 /\ MoneyRests
          /\ ProgressRests /\ root = 0 /\ ChildrenRequestsRests /\ DelegationRests
          /\ applier = 0 /\ FilesReviewsRepeatsRests /\ CallsRoundsRests /\ BatchesRests
          /\ FanoutRetriesRests
       \/ part = "kinds" /\ JobSpecs!Init
          /\ run = 0 /\ execution = 0 /\ WakeRests /\ lease = 0 /\ faults = 0 /\ MoneyRests
          /\ ProgressRests /\ root = 0 /\ ChildrenRequestsRests /\ DelegationRests
          /\ applier = 0 /\ FilesReviewsRepeatsRests /\ CallsRoundsRests /\ BatchesRests
          /\ FanoutRetriesRests
       \/ part = "money" /\ Money!Init
          /\ now = 0 /\ run = 0 /\ execution = 0 /\ WakeRests /\ lease = 0 /\ faults = 0
          /\ JobsKindsRests /\ worker = 0 /\ ProgressRests /\ root = 0
          /\ ChildrenRequestsRests /\ DelegationRests /\ applier = 0
          /\ FilesReviewsRepeatsRests /\ CallsRoundsRests /\ BatchesRests
          /\ FanoutRetriesRests
       \/ part = "progress" /\ Guard!Init
          /\ now = 0 /\ run = 0 /\ execution = 0 /\ WakeRests /\ lease = 0 /\ faults = 0
          /\ JobsKindsRests /\ worker = 0 /\ crashes = 0 /\ MoneyRests /\ root = 0
          /\ ChildrenRequestsRests /\ DelegationRests /\ applier = 0
          /\ FilesReviewsRepeatsRests /\ CallsRoundsRests /\ BatchesRests
          /\ FanoutRetriesRests
       \/ part = "children" /\ Agents!Init
          /\ now = 0 /\ execution = 0 /\ WakeRests /\ JobsKindsRests /\ crashes = 0
          /\ MoneyRests /\ ProgressRests /\ DelegationRests /\ applier = 0
          /\ FilesReviewsRepeatsRests /\ CallsRoundsRests /\ BatchesRests
          /\ FanoutRetriesRests
       \/ part = "requests" /\ AgentRequests!Init
          /\ now = 0 /\ execution = 0 /\ WakeRests /\ JobsKindsRests /\ crashes = 0
          /\ MoneyRests /\ ProgressRests /\ DelegationRests /\ applier = 0
          /\ FilesReviewsRepeatsRests /\ CallsRoundsRests /\ BatchesRests
          /\ FanoutRetriesRests
       \/ part = "delegation" /\ Teams!Init
          /\ now = 0 /\ execution = 0 /\ WakeRests /\ lease = 0 /\ faults = 0
          /\ JobsKindsRests /\ worker = 0 /\ crashes = 0 /\ MoneyRests /\ ProgressRests
          /\ ChildrenRequestsRests /\ FilesReviewsRepeatsRests /\ CallsRoundsRests
          /\ BatchesRests /\ FanoutRetriesRests
       \/ part = "files" /\ Files!Init
          /\ now = 0 /\ execution = 0 /\ WakeRests /\ lease = 0 /\ JobsKindsRests
          /\ worker = 0 /\ crashes = 0 /\ MoneyRests /\ ProgressRests /\ root = 0
          /\ ChildrenRequestsRests /\ DelegationRests /\ CallsRoundsRests /\ BatchesRests
          /\ FanoutRetriesRests
       \/ part = "reviews" /\ Reviews!Init
          /\ now = 0 /\ execution = 0 /\ WakeRests /\ lease = 0 /\ JobsKindsRests
          /\ worker = 0 /\ crashes = 0 /\ MoneyRests /\ ProgressRests /\ root = 0
          /\ ChildrenRequestsRests /\ DelegationRests /\ CallsRoundsRests /\ BatchesRests
          /\ FanoutRetriesRests
       \/ part = "repeats" /\ Repeats!Init
          /\ now = 0 /\ execution = 0 /\ WakeRests /\ lease = 0 /\ JobsKindsRests
          /\ worker = 0 /\ crashes = 0 /\ MoneyRests /\ ProgressRests /\ root = 0
          /\ ChildrenRequestsRests /\ DelegationRests /\ CallsRoundsRests /\ BatchesRests
          /\ FanoutRetriesRests
       \/ part = "calls" /\ Calls!Init
          /\ now = 0 /\ run = 0 /\ execution = 0 /\ WakeRests /\ lease = 0 /\ faults = 0
          /\ JobsKindsRests /\ crashes = 0 /\ MoneyRests /\ ProgressRests /\ root = 0
          /\ ChildrenRequestsRests /\ DelegationRests /\ applier = 0
          /\ FilesReviewsRepeatsRests /\ BatchesRests /\ FanoutRetriesRests
       \/ part = "rounds" /\ Rounds!Init
          /\ now = 0 /\ run = 0 /\ execution = 0 /\ WakeRests /\ lease = 0 /\ faults = 0
          /\ JobsKindsRests /\ crashes = 0 /\ MoneyRests /\ ProgressRests /\ root = 0
          /\ ChildrenRequestsRests /\ DelegationRests /\ applier = 0
          /\ FilesReviewsRepeatsRests /\ BatchesRests /\ FanoutRetriesRests
       \/ part = "batches" /\ Batches!Init
          /\ now = 0 /\ run = 0 /\ execution = 0 /\ WakeRests /\ lease = 0 /\ faults = 0
          /\ JobsKindsRests /\ worker = 0 /\ crashes = 0 /\ MoneyRests /\ ProgressRests
          /\ root = 0 /\ ChildrenRequestsRests /\ DelegationRests /\ applier = 0
          /\ FilesReviewsRepeatsRests /\ CallsRoundsRests /\ FanoutRetriesRests
       \/ part = "fanout" /\ Fanout!Init
          /\ now = 0 /\ run = 0 /\ WakeRests /\ JobsKindsRests /\ crashes = 0 /\ MoneyRests
          /\ ProgressRests /\ root = 0 /\ ChildrenRequestsRests /\ DelegationRests
          /\ applier = 0 /\ FilesReviewsRepeatsRests /\ CallsRoundsRests /\ BatchesRests
       \/ part = "retries" /\ FanoutRetries!Init
          /\ now = 0 /\ run = 0 /\ WakeRests /\ JobsKindsRests /\ crashes = 0 /\ MoneyRests
          /\ ProgressRests /\ root = 0 /\ ChildrenRequestsRests /\ DelegationRests
          /\ applier = 0 /\ FilesReviewsRepeatsRests /\ CallsRoundsRests /\ BatchesRests

Next ==
    /\ UNCHANGED part
    /\ \/ part = "wake" /\ Wake!Next
          /\ UNCHANGED <<jobsKindsVars, worker, crashes, moneyVars, progressVars, root,
                          childrenRequestsVars, delegationVars, applier,
                          filesReviewsRepeatsVars, callsRoundsVars, batchesVars,
                          fanoutRetriesVars>>
       \/ part = "jobs" /\ JobRounds!Next
          /\ UNCHANGED <<run, execution, wakeVars, lease, faults, moneyVars, progressVars,
                          root, childrenRequestsVars, delegationVars, applier,
                          filesReviewsRepeatsVars, callsRoundsVars, batchesVars,
                          fanoutRetriesVars>>
       \/ part = "kinds" /\ JobSpecs!Next
          /\ UNCHANGED <<run, execution, wakeVars, lease, faults, moneyVars, progressVars,
                          root, childrenRequestsVars, delegationVars, applier,
                          filesReviewsRepeatsVars, callsRoundsVars, batchesVars,
                          fanoutRetriesVars>>
       \/ part = "money" /\ Money!Next
          /\ UNCHANGED <<now, run, execution, wakeVars, lease, faults, jobsKindsVars,
                          worker, progressVars, root, childrenRequestsVars, delegationVars,
                          applier, filesReviewsRepeatsVars, callsRoundsVars, batchesVars,
                          fanoutRetriesVars>>
       \/ part = "progress" /\ Guard!Next
          /\ UNCHANGED <<now, run, execution, wakeVars, lease, faults, jobsKindsVars,
                          worker, crashes, moneyVars, root, childrenRequestsVars,
                          delegationVars, applier, filesReviewsRepeatsVars, callsRoundsVars,
                          batchesVars, fanoutRetriesVars>>
       \/ part = "children" /\ Agents!Next
          /\ UNCHANGED <<now, execution, wakeVars, jobsKindsVars, crashes, moneyVars,
                          progressVars, delegationVars, applier, filesReviewsRepeatsVars,
                          callsRoundsVars, batchesVars, fanoutRetriesVars>>
       \/ part = "requests" /\ AgentRequests!Next
          /\ UNCHANGED <<now, execution, wakeVars, jobsKindsVars, crashes, moneyVars,
                          progressVars, delegationVars, applier, filesReviewsRepeatsVars,
                          callsRoundsVars, batchesVars, fanoutRetriesVars>>
       \/ part = "delegation" /\ Teams!Next
          /\ UNCHANGED <<now, execution, wakeVars, lease, faults, jobsKindsVars, worker,
                          crashes, moneyVars, progressVars, childrenRequestsVars,
                          filesReviewsRepeatsVars, callsRoundsVars, batchesVars,
                          fanoutRetriesVars>>
       \/ part = "files" /\ Files!Next
          /\ UNCHANGED <<now, execution, wakeVars, lease, jobsKindsVars, worker, crashes,
                          moneyVars, progressVars, root, childrenRequestsVars,
                          delegationVars, callsRoundsVars, batchesVars, fanoutRetriesVars>>
       \/ part = "reviews" /\ Reviews!Next
          /\ UNCHANGED <<now, execution, wakeVars, lease, jobsKindsVars, worker, crashes,
                          moneyVars, progressVars, root, childrenRequestsVars,
                          delegationVars, callsRoundsVars, batchesVars, fanoutRetriesVars>>
       \/ part = "repeats" /\ Repeats!Next
          /\ UNCHANGED <<now, execution, wakeVars, lease, jobsKindsVars, worker, crashes,
                          moneyVars, progressVars, root, childrenRequestsVars,
                          delegationVars, callsRoundsVars, batchesVars, fanoutRetriesVars>>
       \/ part = "calls" /\ Calls!Next
          /\ UNCHANGED <<now, run, execution, wakeVars, lease, faults, jobsKindsVars,
                          crashes, moneyVars, progressVars, root, childrenRequestsVars,
                          delegationVars, applier, filesReviewsRepeatsVars, batchesVars,
                          fanoutRetriesVars>>
       \/ part = "rounds" /\ Rounds!Next
          /\ UNCHANGED <<now, run, execution, wakeVars, lease, faults, jobsKindsVars,
                          crashes, moneyVars, progressVars, root, childrenRequestsVars,
                          delegationVars, applier, filesReviewsRepeatsVars, batchesVars,
                          fanoutRetriesVars>>
       \/ part = "batches" /\ Batches!Next
          /\ UNCHANGED <<now, run, execution, wakeVars, lease, faults, jobsKindsVars,
                          worker, crashes, moneyVars, progressVars, root,
                          childrenRequestsVars, delegationVars, applier,
                          filesReviewsRepeatsVars, callsRoundsVars, fanoutRetriesVars>>
       \/ part = "fanout" /\ Fanout!Next
          /\ UNCHANGED <<now, run, wakeVars, jobsKindsVars, crashes, moneyVars,
                          progressVars, root, childrenRequestsVars, delegationVars, applier,
                          filesReviewsRepeatsVars, callsRoundsVars, batchesVars>>
       \/ part = "retries" /\ FanoutRetries!Next
          /\ UNCHANGED <<now, run, wakeVars, jobsKindsVars, crashes, moneyVars,
                          progressVars, root, childrenRequestsVars, delegationVars, applier,
                          filesReviewsRepeatsVars, callsRoundsVars, batchesVars>>

Spec == Init /\ [][Next]_vars

\* Nothing tells workers, models, Runs or shards apart.
ServiceSymmetry == Permutations({w1, w2}) \cup Permutations({u1, u2})

-----------------------------------------------------------------------------
(* Properties *)

\* Rows, copies and histories keep their types.
TypesOK ==
    /\ part = "wake" => Wake!TypeOK
    /\ part = "jobs" => JobRounds!TypeOK
    /\ part = "kinds" => JobSpecs!TypeOK
    /\ part = "money" => Money!TypeOK
    /\ part = "progress" => Guard!TypeOK
    /\ part = "children" => Agents!TypeOK
    /\ part = "requests" => AgentRequests!TypeOK
    /\ part = "delegation" => Teams!TypeOK
    /\ part = "files" => Files!TypeOK
    /\ part = "reviews" => Reviews!TypeOK
    /\ part = "repeats" => Repeats!TypeOK
    /\ part = "calls" => Calls!TypeOK
    /\ part = "rounds" => Rounds!TypeOK
    /\ part = "batches" => Batches!TypeOK
    /\ part = "fanout" => Fanout!TypeOK
    /\ part = "retries" => FanoutRetries!TypeOK
=============================================================================
