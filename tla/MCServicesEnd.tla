------------------------------- MODULE MCServicesEnd -------------------------------
(***************************************************************************)
(* The liveness of the components that share no state with one another,    *)
(* for TLC: as in MCServices one part is checked at a time, on instances   *)
(* of its own.                                                             *)
(***************************************************************************)
EXTENDS Integers, FiniteSets, TLC

CONSTANTS
    Parts,    \* the parts to check
    c1, r1, r2, w1     \* model values

VARIABLES part,
    now, run, execution, intent, lease, consumption, handoff, consumer, faults, setbacks,
    target, spec, job, round, worker, crashes, reported, runs, runStatus, generation,
    authority, ck, root, message, delivery, attempts, call, transcript, handoffs

\* Wakes of two Runs that share one queue of due intents.
Wake == INSTANCE RunWake WITH
    Consumers <- {c1}, Pollers <- {c1}, Runs <- {r1, r2}, MaxIntents <- 2, MaxAttempts <- 1,
    Lease <- 1, Elapsed <- 1, BaseBackoff <- 1, MaxBackoff <- 1, MaxMessages <- 1,
    RunsMayEnd <- FALSE, MaxTime <- 2, MaxFaults <- 1

\* Two jobs that share one queue of due jobs.
JobRounds == INSTANCE ScheduledJobs WITH
    Workers <- {w1}, Jobs <- {1, 2}, Kinds <- {"periodic"}, Misfires <- {"run_once"},
    Modes <- {"read_only"}, StopOnTerminal <- TRUE, Executor <- FALSE, Anchor <- 0,
    Interval <- 1, Deadline <- 2, MaxElapsed <- 2, Lease <- 1, InitialBackoff <- 1,
    MaxBackoff <- 2, IdleCap <- 2, MaxRounds <- 2, MaxModelCalls <- 0, MaxAttempts <- 2,
    PageSize <- 1, MaxTime <- 3, MaxSetbacks <- 0, MaxEvents <- 0, MaxCrashes <- 1

\* One worker, in each of its modes.
Turns == INSTANCE RunSupervisor WITH
    Workers <- {w1}, Modes <- {"execute", "drain", "handoff"}, Interactive <- FALSE,
    ClockMayStepBack <- FALSE, MaxTurns <- 1, MaxCalls <- 2, MaxToolRounds <- 1,
    MaxPending <- 1, MaxMessages <- 1, MaxAttempts <- 2, MaxGeneration <- 2

ASSUME ServicesConstants ==
    /\ Wake!WakeConstants
    /\ JobRounds!JobConstants

wakeVars == <<run, execution, intent, lease, consumption, handoff, consumer, faults>>
jobsVars == <<setbacks, target, spec, job, round, crashes, reported, runs>>
turnsVars == <<runStatus, generation, authority, ck, root, message, delivery, attempts,
               call, transcript, handoffs>>

vars == <<part, now, wakeVars, jobsVars, worker, turnsVars>>

\* What a part is while another one is checked.
WakeRests ==
    /\ run = 0 /\ execution = 0 /\ intent = 0 /\ lease = 0 /\ consumption = 0
    /\ handoff = 0 /\ consumer = 0 /\ faults = 0
JobsRests ==
    /\ setbacks = 0 /\ target = 0 /\ spec = 0 /\ job = 0 /\ round = 0 /\ crashes = 0
    /\ reported = 0 /\ runs = 0
TurnsRests ==
    /\ runStatus = 0 /\ generation = 0 /\ authority = 0 /\ ck = 0 /\ root = 0
    /\ message = 0 /\ delivery = 0 /\ attempts = 0 /\ call = 0 /\ transcript = 0
    /\ handoffs = 0

Init ==
    /\ part \in Parts
    /\ \/ part = "wake" /\ Wake!Init
          /\ JobsRests /\ worker = 0 /\ TurnsRests
       \/ part = "jobs" /\ JobRounds!Init
          /\ WakeRests /\ TurnsRests
       \/ part = "turns" /\ Turns!Init
          /\ now = 0 /\ WakeRests /\ JobsRests

Next ==
    /\ UNCHANGED part
    /\ \/ part = "wake" /\ Wake!Next
          /\ UNCHANGED <<jobsVars, worker, turnsVars>>
       \/ part = "jobs" /\ JobRounds!Next
          /\ UNCHANGED <<wakeVars, turnsVars>>
       \/ part = "turns" /\ Turns!Next
          /\ UNCHANGED <<now, wakeVars, jobsVars>>

Spec == Init /\ [][Next]_vars

-----------------------------------------------------------------------------
(* Properties *)

RestOfWake  == UNCHANGED <<part, jobsVars, worker, turnsVars>>
RestOfJobs  == UNCHANGED <<part, wakeVars, turnsVars>>
RestOfTurns == UNCHANGED <<part, now, wakeVars, jobsVars>>

\* The fairness of each part, as its module has it.
FairSpec ==
    /\ Spec
    /\ WF_vars(part = "wake" /\ Wake!Tick /\ RestOfWake)
    /\ WF_vars(part = "wake" /\ Wake!Poll(c1) /\ RestOfWake)
    /\ WF_vars(part = "wake" /\ Wake!Consume(c1) /\ RestOfWake)
    /\ \A r \in {r1, r2} :
           /\ WF_vars(part = "wake" /\ Wake!ExecutionLapses(r) /\ RestOfWake)
           /\ WF_vars(part = "wake" /\ Wake!OtherExecutionEnds(r) /\ RestOfWake)
    /\ WF_vars(part = "jobs" /\ JobRounds!Tick /\ RestOfJobs)
    /\ WF_vars(part = "jobs" /\ JobRounds!Poll(w1) /\ RestOfJobs)
    /\ WF_vars(part = "turns" /\ Turns!Progress(w1) /\ RestOfTurns)

\* Every wake ends, by completion, cancellation, or exhaustion of its attempts or its
\* time; also when the consumer crashes and when the intent in front of it in the queue
\* of due intents can never be claimed.
WakesEnd ==
    \A i \in 1 .. 2 :
        part = "wake" /\ intent[i].status \in {"queued", "leased"}
            ~> part = "wake" /\ intent[i].status \notin {"queued", "leased"}

\* An active job does not stay active for ever: its budgets and its deadline reach it,
\* whoever crashes.
ActiveJobsEnd ==
    \A j \in {1, 2} : part = "jobs" /\ job[j].status = "active"
                          ~> part = "jobs" /\ job[j].status # "active"

\* A worker always gets out of what it started: neither retries, nor tool rounds, nor the
\* repair of answers, nor losing the lease keep it in a turn for ever.
WorkersReturn ==
    part = "turns" /\ worker[w1].pc # "idle" ~> part = "turns" /\ worker[w1].pc = "idle"
=============================================================================
