----------------------- MODULE ScheduledJobPromises -----------------------
(***************************************************************************)
(* The tables of scheduled jobs, and what is promised of them.             *)
(***************************************************************************)
EXTENDS Integers

CONSTANT MaxAttempts    \* of the retry policy

VARIABLES
    job,         \* rows of scheduled_jobs
    round,       \* rows of scheduled_job_rounds, by job and occurrence
    reported,    \* history: the events that completed rounds have observed
    runs         \* history: executor calls per job and occurrence

None == -1

Terminal == {"completed", "failed", "cancelled", "exhausted"}
Open     == {"claimed", "retry_wait"}

\* A job that may go on has one open round at most, its pending one, and that round is
\* claimed exactly while the job has a lease; a job that has ended has given its claim up.
OneOpenRound ==
    \A j \in DOMAIN job :
        LET Status(S) == {t \in DOMAIN round[j] : round[j][t].status \in S} IN
        /\ job[j].status \notin Terminal =>
              Status(Open) = IF job[j].pending = None THEN {} ELSE {job[j].pending}
        /\ Status({"claimed"}) = IF job[j].gen > 0 THEN {job[j].pending} ELSE {}

\* The next occurrence is always a new one, with a new ordinal, although occurrences come
\* from the schedule, idle backoffs, resumes and a clock that is set back: the insert of
\* a round is never refused, so no job blocks the queue of due jobs.
OccurrencesAreNew ==
    \A j \in DOMAIN job : job[j].status = "active" /\ job[j].pending = None =>
        /\ round[j][job[j].wake].status = "none"
        /\ \A t \in DOMAIN round[j] : round[j][t].ordinal # job[j].rounds + 1

\* Every event up to the one a job remembers was observed by a completed round: failed,
\* crashed and fenced rounds and events that arrive during a round skip nothing.
NoEventIsSkipped ==
    \A j \in DOMAIN job : reported[j] = 1 .. job[j].seen

\* Crashes, takeovers, pauses and resumes do not run an occurrence more often than the
\* retry policy allows.
RunsAreBounded ==
    \A j \in DOMAIN runs : \A t \in DOMAIN runs[j] : runs[j][t] <= MaxAttempts
=============================================================================
