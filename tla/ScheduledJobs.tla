--------------------------- MODULE ScheduledJobs ---------------------------
(***************************************************************************)
(* Jobs that look at a Run at given times.  Every worker polls: it         *)
(* reconciles expired claims, claims the job that is due first, observes   *)
(* the Run, may hand the round to an executor, and reports the round.      *)
(* Each of these is a transaction or a call of its own; a worker may crash *)
(* between any two, be slower than its lease, or live on a clock that is   *)
(* set back.  Operators pause, resume and cancel jobs at any time.         *)
(***************************************************************************)
EXTENDS ScheduledJobPromises, FiniteSets

CONSTANTS
    Workers,         \* processes that poll
    Jobs,            \* numbers, in the order of the ids
    Kinds, Misfires, Modes,  \* the specifications jobs may have
    StopOnTerminal,  \* of the specification: stop when the Run has ended
    Executor,        \* is an executor installed?
    Anchor, Interval, Deadline, MaxElapsed, Lease,      \* in ticks
    InitialBackoff, MaxBackoff, IdleCap,                \* in ticks
    MaxRounds, MaxModelCalls,                           \* of the specification
    PageSize,        \* events one observation reads at most
    MaxTime, MaxSetbacks, MaxEvents, MaxCrashes         \* bounds

JobConstants ==
    /\ Jobs \subseteq Nat
    /\ Kinds \subseteq {"once", "periodic"}
    /\ Misfires \subseteq {"run_once", "skip"}
    /\ Modes \subseteq {"read_only", "approved_repair"}
    /\ Executor \in BOOLEAN /\ StopOnTerminal \in BOOLEAN
    /\ {Interval, Lease, InitialBackoff, MaxRounds, MaxAttempts, PageSize} \subseteq Nat \ {0}
    /\ {Anchor, Deadline, MaxElapsed, MaxBackoff, IdleCap, MaxModelCalls, MaxTime} \subseteq Nat
    /\ {MaxSetbacks, MaxEvents, MaxCrashes} \subseteq Nat
    /\ Anchor < Deadline /\ Deadline <= MaxTime /\ InitialBackoff <= MaxBackoff /\ MaxModelCalls <= MaxRounds

VARIABLES
    now,         \* the wall clock
    setbacks,    \* how often it was set back
    target,      \* the Run: its events, is it terminal, is the repair authority current
    spec,        \* the immutable specification of each job
    worker,      \* what each process remembers of the round it is in
    crashes

vars == <<now, setbacks, target, spec, job, round, worker, crashes, reported, runs>>

Times == 0 .. MaxTime + Lease

Closed == {"completed", "unchanged", "failed", "skipped"}

Idle == [pc |-> "idle", at |-> None, job |-> None, occurrence |-> None, attempt |-> 0,
         gen |-> 0, expires |-> None, from |-> 0, upTo |-> 0, changed |-> FALSE,
         calls |-> 0, first |-> FALSE, called |-> FALSE, terminal |-> FALSE]

\* Rows, copies and histories keep their types; no counter exceeds its budget.
TypeOK ==
    /\ now \in 0 .. MaxTime
    /\ target \in [events : 0 .. MaxEvents + 1, terminal : BOOLEAN, authority : BOOLEAN]
    /\ spec \in [Jobs -> [kind : Kinds, misfire : Misfires, mode : Modes]]
    /\ job \in [Jobs -> [status : {"active", "paused"} \cup Terminal, wake : Times \cup {None},
                         pending : Times \cup {None}, rounds : 0 .. MaxRounds,
                         calls : 0 .. MaxModelCalls, unchanged : 0 .. MaxRounds,
                         seen : 0 .. MaxEvents + 1, observed : BOOLEAN,
                         gen : Nat, expires : Times \cup {None}, updated : Times]]
    /\ round \in [Jobs -> [Times -> [status : {"none"} \cup Open \cup Closed,
                  ordinal : 0 .. MaxRounds, attempt : 0 .. MaxAttempts, gen : Nat]]]
    /\ \A w \in Workers : worker[w].pc \in {"idle", "claim", "observe", "check", "execute",
                                            "fail", "reread", "complete"}
    /\ \A j \in Jobs : reported[j] \subseteq 1 .. MaxEvents + 1

Init ==
    /\ now = 0 /\ setbacks = 0 /\ crashes = 0
    /\ target = [events |-> 0, terminal |-> FALSE, authority |-> TRUE]
    /\ spec \in [Jobs -> [kind : Kinds, misfire : Misfires, mode : Modes]]
    /\ job = [j \in Jobs |-> [status |-> "active", wake |-> Anchor, pending |-> None,
                              rounds |-> 0, calls |-> 0, unchanged |-> 0, seen |-> 0,
                              observed |-> FALSE, gen |-> 0, expires |-> None, updated |-> 0]]
    /\ round = [j \in Jobs |-> [t \in Times |->
                   [status |-> "none", ordinal |-> 0, attempt |-> 0, gen |-> 0]]]
    /\ worker = [w \in Workers |-> Idle]
    /\ reported = [j \in Jobs |-> {}]
    /\ runs = [j \in Jobs |-> [t \in Times |-> 0]]

-----------------------------------------------------------------------------
(* Schedules *)

Least(a, b) == IF a < b THEN a ELSE b
Latest(a, b) == IF a < b THEN b ELSE a

\* Faulty: the first instant not before t.
OccurrenceFrom(j, t) ==
    IF t < Anchor THEN Anchor
    ELSE IF spec[j].kind = "once" THEN None
    ELSE Anchor + Interval * ((t - Anchor) \div Interval)

\* The first instant of the schedule after t.
NextOccurrence(j, t) ==
    IF t < Anchor THEN Anchor
    ELSE IF spec[j].kind = "once" THEN None
    ELSE Anchor + Interval * ((t - Anchor) \div Interval + 1)

Missed(j, due, t) == spec[j].kind = "periodic" /\ t >= due + Interval

RetryBackoff(attempt) == Least(InitialBackoff * 2 ^ (attempt - 1), MaxBackoff)

IdleBackoff(unchanged) ==
    IF unchanged < 1 \/ Interval >= IdleCap THEN Interval
    ELSE Least(Interval * 2 ^ (unchanged - 1), IdleCap)

-----------------------------------------------------------------------------
(* What the transactions do to a job *)

\* The job as it is when its lease is given up.
Unleased(j) == [job[j] EXCEPT !.gen = 0, !.expires = None]

Stopped(row, status, t) ==
    [row EXCEPT !.status = status, !.wake = None, !.pending = None,
                !.gen = 0, !.expires = None, !.updated = t]

\* Faulty: the claim stays with the one who has it.
NotRevoked(j, status) == round[j]

\* A round that somebody has claimed is taken away from him.
Revoked(j, status) ==
    IF job[j].gen = 0 \/ job[j].pending = None THEN round[j]
    ELSE [round[j] EXCEPT ![job[j].pending].status = status]

Stop(j, status, t) ==
    /\ job' = [job EXCEPT ![j] = Stopped(job[j], status, t)]
    /\ round' = [round EXCEPT ![j] = Revoked(j, "failed")]

\* Generations never repeat: the rounds remember the highest.
HighWater(j) == LET used == {round[j][t].gen : t \in Times}
                IN  CHOOSE g \in used : \A h \in used : h <= g

\* Faulty: only the live lease is asked.
NextOfRow(j) == job[j].gen + 1

NextGeneration(j) == HighWater(j) + 1

OverBudget(j, t) ==
    \/ t >= Deadline \/ t >= MaxElapsed
    \/ job[j].rounds >= MaxRounds
    \/ MaxModelCalls > 0 /\ job[j].calls >= MaxModelCalls

Unauthorized(j) == spec[j].mode = "approved_repair" /\ ~target.authority

Due(j, t) == job[j].status = "active" /\ job[j].wake <= t

\* The due job with the earliest wake, then the smallest id.
FirstDue(t, j) ==
    /\ Due(j, t)
    /\ \A k \in Jobs : Due(k, t) => \/ job[j].wake < job[k].wake
                                    \/ job[j].wake = job[k].wake /\ j <= k

-----------------------------------------------------------------------------
(* A worker *)

Go(w, pc) == worker' = [worker EXCEPT ![w].pc = pc]
GoIdle(w) == worker' = [worker EXCEPT ![w] = Idle]

Expired(j, t) == job[j].status = "active" /\ job[j].gen > 0 /\ job[j].expires <= t

\* RunDue begins: every claim that has expired can be claimed again.
Reconcile(w) ==
    /\ worker[w].pc = "idle"
    /\ worker' = [worker EXCEPT ![w] = [Idle EXCEPT !.pc = "claim", !.at = now]]
    /\ round' = [j \in Jobs |-> IF Expired(j, now)
                                THEN [round[j] EXCEPT ![job[j].pending].status = "retry_wait"]
                                ELSE round[j]]
    /\ job' = [j \in Jobs |-> IF Expired(j, now)
                              THEN [Unleased(j) EXCEPT !.wake = now, !.updated = now]
                              ELSE job[j]]
    /\ UNCHANGED <<now, setbacks, target, spec, crashes, reported, runs>>

Skips(j, t) ==
    /\ job[j].pending = None
    /\ spec[j].misfire = "skip"
    /\ Missed(j, job[j].wake, t)

\* The occurrence is recorded as skipped, however many were missed.
Skip(j, t) ==
    LET row  == [job[j] EXCEPT !.rounds = @ + 1, !.updated = t]
        next == NextOccurrence(j, t)
    IN  /\ round' = [round EXCEPT ![j][job[j].wake] =
                        [status |-> "skipped", ordinal |-> row.rounds, attempt |-> 1, gen |-> 1]]
        /\ job' = [job EXCEPT ![j] =
                      IF row.rounds >= MaxRounds \/ next = None \/ next >= Deadline
                      THEN Stopped(row, "exhausted", t) ELSE [row EXCEPT !.wake = next]]

\* Is the due job's round in the hands of somebody whose lease lives?
Held(j, t) ==
    /\ job[j].pending # None
    /\ round[j][job[j].pending].status = "claimed"
    /\ job[j].expires # None /\ t < job[j].expires

\* Faulty: a new claim of a round does not count.
AttemptAnew(j) == 1

Attempt(j) == IF job[j].pending = None THEN 1 ELSE round[j][job[j].pending].attempt + 1

\* Faulty: one attempt too many.
SpentLate(j) == Attempt(j) > MaxAttempts + 1

Spent(j) == Attempt(j) > MaxAttempts

Take(w, j, t) ==
    LET occurrence == IF job[j].pending = None THEN job[j].wake ELSE job[j].pending
        gen        == NextGeneration(j)
    IN  /\ round' = [round EXCEPT ![j][occurrence] =
                        [status |-> "claimed", attempt |-> Attempt(j), gen |-> gen,
                         ordinal |-> IF job[j].pending = None THEN job[j].rounds + 1
                                     ELSE @.ordinal]]
        /\ job' = [job EXCEPT ![j] = [@ EXCEPT !.pending = occurrence, !.gen = gen,
                                               !.expires = t + Lease, !.updated = t]]
        /\ worker' = [worker EXCEPT ![w] =
                         [@ EXCEPT !.pc = "observe", !.job = j, !.occurrence = occurrence,
                                   !.attempt = Attempt(j), !.gen = gen, !.expires = t + Lease,
                                   !.from = job[j].seen, !.first = ~job[j].observed,
                                   !.calls = job[j].calls]]

\* A new round is one insert, which the primary key and the ordinal may refuse.
Insertable(j) ==
    \/ job[j].pending # None
    \/ /\ round[j][job[j].wake].status = "none"
       /\ \A t \in Times : round[j][t].ordinal # job[j].rounds + 1

\* Faulty: budgets are looked at by reports only, and spent attempts refuse the claim.
PatientVerdict(j, t) ==
    IF StopOnTerminal /\ target.terminal THEN "completed"
    ELSE IF Unauthorized(j) THEN "failed"
    ELSE IF Skips(j, t) THEN "skip"
    ELSE IF Held(j, t) \/ ~Insertable(j) \/ Spent(j) THEN "refuse"
    ELSE "take"

\* What ClaimDueScheduledJob does with the job that is due first.
Verdict(j, t) ==
    IF OverBudget(j, t) THEN "exhausted"
    ELSE IF StopOnTerminal /\ target.terminal THEN "completed"
    ELSE IF Unauthorized(j) THEN "failed"
    ELSE IF Skips(j, t) THEN "skip"
    ELSE IF Held(j, t) \/ ~Insertable(j) THEN "refuse"
    ELSE IF Spent(j) THEN "failed"
    ELSE "take"

\* The claim is made at the time RunDue began.
Claim(w) ==
    LET t == worker[w].at IN
    /\ worker[w].pc = "claim"
    /\ \/ ~(\E j \in Jobs : Due(j, t)) /\ GoIdle(w) /\ UNCHANGED <<job, round>>
       \/ \E j \in Jobs :
            /\ FirstDue(t, j)
            /\ \/ Verdict(j, t) = "take" /\ Take(w, j, t)
               \/ Verdict(j, t) = "skip" /\ Skip(j, t) /\ GoIdle(w)
               \/ Verdict(j, t) = "refuse" /\ GoIdle(w) /\ UNCHANGED <<job, round>>
               \/ Verdict(j, t) \in Terminal /\ Stop(j, Verdict(j, t), t) /\ GoIdle(w)
    /\ UNCHANGED <<now, setbacks, target, spec, crashes, reported, runs>>

\* A page of events after those of the last report; the first look is a change.
Observe(w) ==
    LET c       == worker[w]
        upTo    == Least(c.from + PageSize, target.events)
        changed == c.first \/ upTo > c.from
        pc      == IF changed /\ ~Executor /\ spec[c.job].mode = "approved_repair" THEN "fail"
                   ELSE IF changed /\ Executor /\ c.calls < MaxModelCalls THEN "check"
                   ELSE "reread"
    IN  /\ c.pc = "observe"
        /\ worker' = [worker EXCEPT ![w] = [c EXCEPT !.pc = pc, !.upTo = upTo,
                                                     !.changed = changed]]
        /\ UNCHANGED <<now, setbacks, target, spec, job, round, crashes, reported, runs>>

\* A read fails.
ReadFails(w) ==
    /\ worker[w].pc \in {"observe", "reread"}
    /\ Go(w, "fail")
    /\ UNCHANGED <<now, setbacks, target, spec, job, round, crashes, reported, runs>>

\* Is there time left, and does a repair still have its authority?
Check(w) ==
    /\ worker[w].pc = "check"
    /\ Go(w, IF now >= worker[w].expires \/ Unauthorized(worker[w].job) THEN "fail"
             ELSE "execute")
    /\ UNCHANGED <<now, setbacks, target, spec, job, round, crashes, reported, runs>>

\* The executor runs; it may call the model and may fail.
Execute(w) ==
    LET c == worker[w] IN
    /\ c.pc = "execute"
    /\ \E called \in BOOLEAN, pc \in {"reread", "fail"} :
          worker' = [worker EXCEPT ![w] = [c EXCEPT !.pc = pc, !.called = called]]
    /\ runs' = [runs EXCEPT ![c.job][c.occurrence] = @ + 1]
    /\ UNCHANGED <<now, setbacks, target, spec, job, round, crashes, reported>>

Reread(w) ==
    /\ worker[w].pc = "reread"
    /\ worker' = [worker EXCEPT ![w] = [@ EXCEPT !.pc = "complete", !.terminal = target.terminal]]
    /\ UNCHANGED <<now, setbacks, target, spec, job, round, crashes, reported, runs>>

\* Faulty: the clock is taken as it is.
TimeOfClock(w) == now

\* A round is never reported to end before it began.
ReportTime(w) == Latest(now, worker[w].at)

\* Faulty: any active job of that occurrence takes the report.
FencedByOccurrence(w) == job[worker[w].job].status = "active"

\* Does the worker's claim still stand?
Fenced(w) ==
    LET c == worker[w]  row == job[c.job]  r == round[c.job][c.occurrence] IN
    /\ row.status = "active" /\ row.pending = c.occurrence /\ row.gen = c.gen
    /\ row.expires # None /\ ReportTime(w) < row.expires
    /\ r.status = "claimed" /\ r.gen = c.gen /\ r.attempt = c.attempt

Charged(w) == job[worker[w].job].calls + IF worker[w].called THEN 1 ELSE 0

MayCharge(w) == ~worker[w].called \/ job[worker[w].job].calls < MaxModelCalls

\* Faulty: the events of the Run are read once more.
ReportedLatest(w) == target.events

\* The report reaches as far as the observation did.
Reported(w) == worker[w].upTo

\* A completed round: the job waits for the next occurrence or ends.
AfterRound(w, t) ==
    LET c    == worker[w]
        row  == [Unleased(c.job) EXCEPT
                   !.rounds = @ + 1, !.calls = Charged(w), !.pending = None, !.observed = TRUE,
                   !.unchanged = IF c.changed THEN 0 ELSE @ + 1,
                   !.seen = Reported(w), !.updated = t]
        next == NextOccurrence(c.job, t)
        wake == IF c.changed THEN next ELSE Latest(next, t + IdleBackoff(row.unchanged))
        done == (StopOnTerminal /\ c.terminal) \/ spec[c.job].kind = "once"
    IN  IF done THEN Stopped(row, "completed", t)
        ELSE IF \/ row.rounds >= MaxRounds
                \/ MaxModelCalls > 0 /\ row.calls >= MaxModelCalls
                \/ next = None \/ wake >= Deadline
             THEN Stopped(row, "exhausted", t)
             ELSE [row EXCEPT !.wake = wake]

Complete(w) ==
    LET c == worker[w] IN
    /\ c.pc = "complete"
    /\ Fenced(w) /\ MayCharge(w)
    /\ job' = [job EXCEPT ![c.job] = AfterRound(w, ReportTime(w))]
    /\ round' = [round EXCEPT ![c.job][c.occurrence].status =
                    IF c.changed THEN "completed" ELSE "unchanged"]
    /\ reported' = [reported EXCEPT ![c.job] = @ \cup c.from + 1 .. c.upTo]
    /\ GoIdle(w)
    /\ UNCHANGED <<now, setbacks, target, spec, crashes, runs>>

\* A failed round is tried again if attempts, time and calls are left.
AfterFailure(w, t) ==
    LET c       == worker[w]
        row     == [Unleased(c.job) EXCEPT !.calls = Charged(w), !.updated = t]
        retryAt == t + RetryBackoff(c.attempt)
        late    == retryAt >= Deadline \/ retryAt >= MaxElapsed
        broke   == c.called /\ row.calls >= MaxModelCalls
    IN  IF c.attempt < MaxAttempts /\ ~late /\ ~broke
        THEN [row EXCEPT !.wake = retryAt]
        ELSE Stopped([row EXCEPT !.rounds = @ + 1],
                     IF late \/ broke THEN "exhausted" ELSE "failed", t)

Fail(w) ==
    LET c == worker[w]  row == AfterFailure(w, ReportTime(w)) IN
    /\ c.pc = "fail"
    /\ Fenced(w) /\ MayCharge(w)
    /\ job' = [job EXCEPT ![c.job] = row]
    /\ round' = [round EXCEPT ![c.job][c.occurrence].status =
                    IF row.status = "active" THEN "retry_wait" ELSE "failed"]
    /\ GoIdle(w)
    /\ UNCHANGED <<now, setbacks, target, spec, crashes, reported, runs>>

\* The store refuses the report; the worker polls on.
ReportRefused(w) ==
    /\ worker[w].pc \in {"complete", "fail"}
    /\ ~Fenced(w) \/ ~MayCharge(w)
    /\ GoIdle(w)
    /\ UNCHANGED <<now, setbacks, target, spec, job, round, crashes, reported, runs>>

Crash(w) ==
    /\ worker[w].pc # "idle"
    /\ crashes < MaxCrashes
    /\ crashes' = crashes + 1
    /\ GoIdle(w)
    /\ UNCHANGED <<now, setbacks, target, spec, job, round, reported, runs>>

-----------------------------------------------------------------------------
(* Operators, the Run, the clock *)

\* A transition dated before the last change is refused.  Times are nanoseconds: two
\* commands never bear the same one.
InTime(j) == now > job[j].updated

Pause(j) ==
    /\ job[j].status = "active" /\ InTime(j)
    /\ round' = [round EXCEPT ![j] = Revoked(j, "retry_wait")]
    /\ job' = [job EXCEPT ![j] = [Unleased(j) EXCEPT !.status = "paused", !.wake = None,
                                                     !.updated = now]]
    /\ UNCHANGED <<now, setbacks, target, spec, worker, crashes, reported, runs>>

Resume(j) ==
    /\ job[j].status = "paused" /\ InTime(j)
    /\ job' = [job EXCEPT ![j] = [@ EXCEPT !.status = "active", !.wake = now, !.updated = now]]
    /\ UNCHANGED <<now, setbacks, target, spec, round, worker, crashes, reported, runs>>

Cancel(j) ==
    /\ job[j].status \notin Terminal /\ InTime(j)
    /\ Stop(j, "cancelled", now)
    /\ UNCHANGED <<now, setbacks, target, spec, worker, crashes, reported, runs>>

\* An event of the Run that is not one of the jobs' own; the last one ends it.
TargetEvent ==
    /\ ~target.terminal
    /\ \E ends \in BOOLEAN :
          /\ ends \/ target.events < MaxEvents
          /\ target' = [target EXCEPT !.events = @ + 1, !.terminal = ends]
    /\ UNCHANGED <<now, setbacks, spec, job, round, worker, crashes, reported, runs>>

\* The mode or the permission the authorization is bound to changes, or it expires.
AuthorityEnds ==
    /\ target.authority /\ "approved_repair" \in Modes
    /\ target' = [target EXCEPT !.authority = FALSE]
    /\ UNCHANGED <<now, setbacks, spec, job, round, worker, crashes, reported, runs>>

Tick ==
    /\ now < MaxTime
    /\ now' = now + 1
    /\ UNCHANGED <<setbacks, target, spec, job, round, worker, crashes, reported, runs>>

ClockStepsBack ==
    /\ setbacks < MaxSetbacks /\ now > 0
    /\ now' = now - 1 /\ setbacks' = setbacks + 1
    /\ UNCHANGED <<target, spec, job, round, worker, crashes, reported, runs>>

Poll(w) ==
    \/ Reconcile(w) \/ Claim(w) \/ Observe(w) \/ ReadFails(w) \/ Check(w) \/ Execute(w)
    \/ Reread(w) \/ Complete(w) \/ Fail(w) \/ ReportRefused(w)

Next ==
    \/ \E w \in Workers : Poll(w) \/ Crash(w)
    \/ \E j \in Jobs : Pause(j) \/ Resume(j) \/ Cancel(j)
    \/ TargetEvent \/ AuthorityEnds \/ Tick \/ ClockStepsBack

Spec == Init /\ [][Next]_vars

\* Time passes; a process that polls goes on polling (its timer is reset after every
\* round, failed or not, and every call of a round has a time-out).
FairSpec == Spec /\ WF_vars(Tick) /\ \A w \in Workers : WF_vars(Poll(w))

-----------------------------------------------------------------------------
(* Liveness; the safety properties are those of ScheduledJobPromises. *)

\* An active job does not stay active for ever: its budgets and its deadline reach it,
\* whoever crashes.
ActiveJobsEnd ==
    \A j \in Jobs : job[j].status = "active" ~> job[j].status # "active"
=============================================================================
