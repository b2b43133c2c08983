------------------------------ MODULE RunWake ------------------------------
(***************************************************************************)
(* Wake intents of Runs and the bounded hand-offs that consume them.  A    *)
(* consumer (the polling worker or a foreground command) claims the due    *)
(* intent under a fenced lease, writes down that it will consume this      *)
(* generation, hands one step to the Run supervisor through the hand-off   *)
(* ledger, and settles the generation with the result.  Each of these is   *)
(* a transaction of its own: consumers crash or are overtaken between any  *)
(* two, and whoever finds a prepared generation goes on with it.           *)
(***************************************************************************)
EXTENDS RunWakePromises, Integers, FiniteSets

CONSTANTS
    Consumers,      \* processes that consume wakes
    Pollers,        \* those of them that poll; the others are commands
    Runs,
    MaxIntents,     \* bound: intents scheduled, numbered in this order
    MaxAttempts, Lease, Elapsed, BaseBackoff, MaxBackoff,   \* of an intent, in ticks
    MaxMessages,    \* bound: steering messages per Run
    RunsMayEnd,     \* may the operator, or the root Agent, end a Run?
    MaxTime, MaxFaults                                      \* bounds

WakeConstants ==
    /\ Pollers \subseteq Consumers
    /\ {MaxIntents, MaxAttempts, Lease, Elapsed, BaseBackoff} \subseteq Nat \ {0}
    /\ {MaxBackoff, MaxMessages, MaxTime, MaxFaults} \subseteq Nat
    /\ BaseBackoff <= MaxBackoff /\ RunsMayEnd \in BOOLEAN

Intents     == 1 .. MaxIntents
Generations == 1 .. MaxAttempts
Messages    == 1 .. MaxMessages
Nobody      == "nobody"
Other       == "other"          \* whoever else executes a Run

VARIABLES
    now,          \* the clock
    run,          \* status, pending messages and number of messages of each Run
    execution,    \* who holds the Run execution lease
    consumer,     \* what each process remembers
    faults        \* history: crashes, shutdowns, stalls and other executions so far

vars == <<now, run, execution, intent, lease, consumption, handoff, consumer, faults>>

Active  == {"queued", "leased"}
Idle    == [pc |-> "idle", run |-> Nobody, intent |-> 0, gen |-> 0, outcome |-> "none"]
NoLease == [gen |-> 0, owner |-> Nobody, expires |-> 0, active |-> FALSE]
NoHandoff == [status |-> "none", items |-> {}]

\* Rows and copies keep their types; attempts stay within the budget.
TypeOK ==
    /\ now \in 0 .. MaxTime /\ faults \in 0 .. MaxFaults
    /\ run \in [Runs -> [status : {"running", "paused", "ended"},
                         pending : SUBSET Messages, sent : 0 .. MaxMessages]]
    /\ execution \in [Runs -> Consumers \cup {Nobody, Other}]
    /\ intent \in [Intents -> [status : Active \cup {"none", "cancelled", "exhausted"},
                               run : Runs \cup {Nobody}, attempts : 0 .. MaxAttempts,
                               next : Nat, deadline : Nat, created : Nat]]
    /\ lease \in [Intents -> [gen : 0 .. MaxAttempts, owner : Consumers \cup {Nobody},
                              expires : Nat, active : BOOLEAN]]
    /\ consumption \in [Intents -> [Generations ->
                            {"none", "prepared", "completed", "failed", "refused"}]]
    /\ handoff \in [Intents -> [Generations -> [items : SUBSET Messages,
                            status : {"none", "open", "completed", "failed"}]]]
    /\ consumer \in [Consumers -> [pc : {"idle", "read", "claim", "prepare", "handoff", "acquire",
                                         "deliver", "finish", "settle"},
                                   run : Runs \cup {Nobody}, intent : 0 .. MaxIntents,
                                   gen : 0 .. MaxAttempts,
                                   outcome : {"none", "completed", "failed", "refused"}]]

Init ==
    /\ now = 0 /\ faults = 0
    /\ run = [r \in Runs |-> [status |-> "running", pending |-> {}, sent |-> 0]]
    /\ execution = [r \in Runs |-> Nobody]
    /\ intent = [i \in Intents |-> [status |-> "none", run |-> Nobody, attempts |-> 0,
                                    next |-> 0, deadline |-> 0, created |-> 0]]
    /\ lease = [i \in Intents |-> NoLease]
    /\ consumption = [i \in Intents |-> [g \in Generations |-> "none"]]
    /\ handoff = [i \in Intents |-> [g \in Generations |-> NoHandoff]]
    /\ consumer = [c \in Consumers |-> Idle]

-----------------------------------------------------------------------------
(* Intents *)

Prepared(i) == intent[i].attempts > 0 /\ consumption[i][intent[i].attempts] = "prepared"

Lapsed(i) == lease[i].active /\ lease[i].expires <= now

\* Faulty: only what nobody leases.
DueUnleased(i) == intent[i].status = "queued" /\ intent[i].next <= now

Due(i) ==
    \/ intent[i].status = "queued" /\ intent[i].next <= now
    \/ intent[i].status = "leased" /\ Lapsed(i)

Before(i, j) ==
    \/ intent[i].next < intent[j].next
    \/ intent[i].next = intent[j].next /\ intent[i].created <= intent[j].created

\* Intents created in the same instant are ordered by their random ids.
FirstDue(i) == Due(i) /\ \A j \in Intents : Due(j) => Before(i, j)

Backoff(gen) == IF BaseBackoff * 2 ^ (gen - 1) > MaxBackoff
                THEN MaxBackoff ELSE BaseBackoff * 2 ^ (gen - 1)

\* Faulty: one attempt too many.
SpentLate(i) == intent[i].attempts > MaxAttempts \/ now >= intent[i].deadline

Spent(i) == intent[i].attempts >= MaxAttempts \/ now >= intent[i].deadline

Queued(i, at)      == [intent[i] EXCEPT !.status = "queued", !.next = at]
Exhausted(i)       == [intent[i] EXCEPT !.status = "exhausted", !.next = intent[i].deadline]
Ended(i)           == [lease[i] EXCEPT !.active = FALSE]

NextIntent == Cardinality({i \in Intents : intent[i].status # "none"}) + 1

\* The Run waits for operator work and nobody executes it.
Eligible(r) == run[r].status = "running" /\ run[r].pending # {} /\ execution[r] = Nobody

Schedule(r) ==
    /\ NextIntent \in Intents /\ now + Elapsed < MaxTime     \* bounds
    /\ Eligible(r)
    /\ \A i \in Intents : intent[i].run = r => intent[i].status \notin Active
    /\ \E delay \in {0, 1} :
           intent' = [intent EXCEPT ![NextIntent] =
               [status |-> "queued", run |-> r, attempts |-> 0, next |-> now + delay,
                deadline |-> now + Elapsed, created |-> now]]
    /\ UNCHANGED <<now, run, execution, lease, consumption, handoff, consumer, faults>>

\* Faulty: whatever was prepared.
MayCancelAny(i) == intent[i].status \in Active

\* A prepared generation has to settle first.
MayCancel(i) == intent[i].status \in Active /\ ~Prepared(i)

Cancel(i) ==
    /\ MayCancel(i)
    /\ intent' = [intent EXCEPT ![i].status = "cancelled"]
    /\ lease' = [lease EXCEPT ![i] = Ended(i)]
    /\ UNCHANGED <<now, run, execution, consumption, handoff, consumer, faults>>

-----------------------------------------------------------------------------
(* Consumers *)

Goes(c, pc) == consumer' = [consumer EXCEPT ![c].pc = pc]
Stops(c)    == consumer' = [consumer EXCEPT ![c] = Idle]

Looks(c, r) == consumer' = [consumer EXCEPT ![c].pc = "read", ![c].run = r]

Continues(c, i, gen, pc) ==
    consumer' = [consumer EXCEPT ![c] = [Idle EXCEPT !.pc = pc, !.run = intent[i].run,
                                                     !.intent = i, !.gen = gen]]

\* A poll takes the Run of the intent that is due first, and no other.
Poll(c) ==
    /\ c \in Pollers /\ consumer[c].pc = "idle"
    /\ \E i \in Intents : FirstDue(i) /\ Looks(c, intent[i].run)
    /\ UNCHANGED <<now, run, execution, intent, lease, consumption, handoff, faults>>

\* A command names the Run.
Command(c) ==
    /\ c \in Consumers \ Pollers /\ consumer[c].pc = "idle"
    /\ \E i \in Intents : intent[i].status \in Active /\ Looks(c, intent[i].run)
    /\ UNCHANGED <<now, run, execution, intent, lease, consumption, handoff, faults>>

Latest(r) == CHOOSE i \in Intents :
    /\ intent[i].run = r
    /\ \A j \in Intents : intent[j].run = r => j <= i

\* The latest intent of the Run is read: a prepared generation is gone on
\* with, an intent that is due or leased is claimed, any other is left alone.
Read(c) ==
    /\ consumer[c].pc = "read"
    /\ LET i == Latest(consumer[c].run)
       IN  IF \/ intent[i].status \notin Active
              \/ intent[i].status = "queued" /\ now < intent[i].next
           THEN Stops(c)
           ELSE IF intent[i].status = "leased" /\ Prepared(i)
           THEN Continues(c, i, intent[i].attempts, "handoff")
           ELSE Continues(c, i, 0, "claim")
    /\ UNCHANGED <<now, run, execution, intent, lease, consumption, handoff, faults>>

\* Faulty: the lease alone decides.
LapsedWhilePrepared(i) == intent[i].status = "leased" /\ Lapsed(i)

\* A lapsed lease is taken back, unless its generation is prepared.
Reclaimable(i) == intent[i].status = "leased" /\ Lapsed(i) /\ ~Prepared(i)

LeaseEnd(i) == IF now + Lease > intent[i].deadline THEN intent[i].deadline ELSE now + Lease

\* AcquireRunWake: reconcile, then exhaust, refuse or take the next generation.
\* When the Run is not eligible the whole transaction is rolled back.
Claim(c) ==
    /\ consumer[c].pc = "claim"
    /\ LET i   == consumer[c].intent
           due == Reclaimable(i) \/ (intent[i].status = "queued" /\ now >= intent[i].next)
           gen == intent[i].attempts + 1
       IN  IF due /\ Spent(i)
           THEN /\ intent' = [intent EXCEPT ![i] = Exhausted(i)]
                /\ lease' = [lease EXCEPT ![i] = Ended(i)]
                /\ Stops(c)
           ELSE IF due /\ Eligible(intent[i].run)
           THEN /\ intent' = [intent EXCEPT ![i] = [Queued(i, IF Reclaimable(i) THEN now
                                                             ELSE intent[i].next)
                                  EXCEPT !.status = "leased", !.attempts = gen]]
                /\ lease' = [lease EXCEPT ![i] = [gen |-> gen, owner |-> c, active |-> TRUE,
                                                  expires |-> LeaseEnd(i)]]
                /\ consumer' = [consumer EXCEPT ![c].pc = "prepare", ![c].gen = gen]
           ELSE UNCHANGED <<intent, lease>> /\ Stops(c)
    /\ UNCHANGED <<now, run, execution, consumption, handoff, faults>>

OwnsLease(c, i, gen) ==
    /\ intent[i].status = "leased" /\ intent[i].attempts = gen
    /\ lease[i].active /\ lease[i].gen = gen /\ lease[i].owner = c
    /\ now <= lease[i].expires

Prepare(c) ==
    LET i == consumer[c].intent
        g == consumer[c].gen
    IN  /\ consumer[c].pc = "prepare"
        /\ IF OwnsLease(c, i, g)
           THEN consumption' = [consumption EXCEPT ![i][g] = "prepared"] /\ Goes(c, "handoff")
           ELSE UNCHANGED consumption /\ Stops(c)
        /\ UNCHANGED <<now, run, execution, intent, lease, handoff, faults>>

Settles(c, outcome) ==
    consumer' = [consumer EXCEPT ![c].pc = "settle", ![c].outcome = outcome]

\* The oldest pending message: one step is handed off.
Selection(r) == {m \in run[r].pending : \A n \in run[r].pending : m <= n}

\* The hand-off of this generation: found with a result, found open, or
\* opened, which freezes the selection; an empty one completes at once.
HandOff(c) ==
    LET i == consumer[c].intent
        g == consumer[c].gen
        r == consumer[c].run
    IN  /\ consumer[c].pc = "handoff"
        /\ \/ /\ handoff[i][g].status \in {"completed", "failed"}
              /\ Settles(c, handoff[i][g].status)
              /\ UNCHANGED handoff
           \/ /\ handoff[i][g].status = "open"
              /\ Goes(c, "acquire")
              /\ UNCHANGED handoff
           \/ /\ handoff[i][g].status = "none"
              /\ run[r].status = "running" /\ execution[r] = Nobody
              /\ IF run[r].pending = {}
                 THEN /\ handoff' = [handoff EXCEPT ![i][g].status = "completed"]
                      /\ Settles(c, "completed")
                 ELSE /\ handoff' = [handoff EXCEPT ![i][g] =
                                        [status |-> "open", items |-> Selection(r)]]
                      /\ Goes(c, "acquire")
           \/ /\ handoff[i][g].status = "none"
              /\ run[r].status # "running" \/ execution[r] # Nobody
              /\ Settles(c, "refused")
              /\ UNCHANGED handoff
        /\ UNCHANGED <<now, run, execution, intent, lease, consumption, faults>>

\* The hand-off cannot be looked up or opened: the process shuts down.
HandOffFails(c) ==
    /\ consumer[c].pc = "handoff" /\ faults < MaxFaults
    /\ faults' = faults + 1
    /\ Settles(c, "refused")
    /\ UNCHANGED <<now, run, execution, intent, lease, consumption, handoff>>

\* Faulty: what is still pending has failed.
PendingFails(c) == Settles(c, "failed")

\* The result is not known: the generation stays prepared.
LeavesPending(c) == Stops(c)

Acquire(c) ==
    LET r == consumer[c].run
    IN  /\ consumer[c].pc = "acquire"
        /\ IF run[r].status # "ended" /\ execution[r] = Nobody
           THEN execution' = [execution EXCEPT ![r] = c] /\ Goes(c, "deliver")
           ELSE UNCHANGED execution /\ LeavesPending(c)
        /\ UNCHANGED <<now, run, intent, lease, consumption, handoff, faults>>

Commits(r, items) == [run EXCEPT ![r].pending = run[r].pending \ items]

\* One turn of the supervisor per message that is still pending.  The turn
\* commits, or fails and leaves it pending; its root Agent may end the Run
\* when nothing else waits.
Deliver(c) ==
    LET i == consumer[c].intent
        g == consumer[c].gen
        r == consumer[c].run
        items == handoff[i][g].items \cap run[r].pending
        Outcome(o) == consumer' = [consumer EXCEPT ![c].pc = "finish", ![c].outcome = o]
    IN  /\ consumer[c].pc = "deliver"
        /\ \/ items = {} /\ UNCHANGED run /\ Outcome("completed")
           \/ /\ items # {} /\ run[r].status = "running" /\ execution[r] = c
              /\ \/ run' = Commits(r, items)
                 \/ RunsMayEnd /\ run[r].pending = items
                    /\ run' = [Commits(r, items) EXCEPT ![r].status = "ended"]
                 \/ run' = [Commits(r, items) EXCEPT ![r].status = "paused"]
              /\ Outcome("completed")
           \/ items # {} /\ UNCHANGED run /\ Outcome("failed")
        /\ UNCHANGED <<now, execution, intent, lease, consumption, handoff, faults>>

Release(c, r) == [execution EXCEPT ![r] = IF @ = c THEN Nobody ELSE @]

\* The result is fenced by the Run execution lease.  An open hand-off that
\* another consumer has completed meanwhile is completed no more.
Finish(c) ==
    LET i == consumer[c].intent
        g == consumer[c].gen
        r == consumer[c].run
    IN  /\ consumer[c].pc = "finish"
        /\ IF execution[r] = c /\ handoff[i][g].status = "open"
           THEN /\ handoff' = [handoff EXCEPT ![i][g].status = consumer[c].outcome]
                /\ Goes(c, "settle")
           ELSE UNCHANGED handoff /\ LeavesPending(c)
        /\ execution' = Release(c, r)
        /\ UNCHANGED <<now, run, intent, lease, consumption, faults>>

\* The generation is prepared and the intent still belongs to it.
MaySettle(i, gen) ==
    /\ consumption[i][gen] = "prepared"
    /\ intent[i].status = "leased" /\ intent[i].attempts = gen
    /\ lease[i].active /\ lease[i].gen = gen

\* A failure is tried again while work is left, attempts are and time is.
MayRetry(i, c) ==
    /\ consumer[c].outcome # "completed"
    /\ run[consumer[c].run].pending # {}
    /\ intent[i].attempts < MaxAttempts
    /\ now + Backoff(intent[i].attempts) < intent[i].deadline

\* CompleteRunWakeConsumption and FailRunWakeConsumption.
Settle(c) ==
    LET i == consumer[c].intent
        g == consumer[c].gen
    IN  /\ consumer[c].pc = "settle"
        /\ IF MaySettle(i, g)
           THEN /\ consumption' = [consumption EXCEPT ![i][g] = consumer[c].outcome]
                /\ intent' = [intent EXCEPT ![i] =
                       IF MayRetry(i, c) THEN Queued(i, now + Backoff(intent[i].attempts))
                       ELSE Exhausted(i)]
                /\ lease' = [lease EXCEPT ![i] = Ended(i)]
           ELSE UNCHANGED <<consumption, intent, lease>>
        /\ Stops(c)
        /\ UNCHANGED <<now, run, execution, handoff, faults>>

Consume(c) == Read(c) \/ Claim(c) \/ Prepare(c) \/ HandOff(c) \/ Acquire(c) \/ Deliver(c)
              \/ Finish(c) \/ Settle(c)

-----------------------------------------------------------------------------
(* Faults, the clock, operators and other executions *)

\* The Run execution lease of a crashed consumer lapses later.
Crash(c) ==
    /\ consumer[c].pc # "idle" /\ faults < MaxFaults
    /\ faults' = faults + 1
    /\ Stops(c)
    /\ UNCHANGED <<now, run, execution, intent, lease, consumption, handoff>>

Executes(c, r) == consumer[c].run = r /\ consumer[c].pc \in {"deliver", "finish"}

ExecutionLapses(r) ==
    /\ execution[r] \in Consumers /\ ~Executes(execution[r], r)
    /\ execution' = [execution EXCEPT ![r] = Nobody]
    /\ UNCHANGED <<now, run, intent, lease, consumption, handoff, consumer, faults>>

\* A consumer that is suspended loses the lease while it executes.
Stall(r) ==
    /\ execution[r] \in Consumers /\ Executes(execution[r], r) /\ faults < MaxFaults
    /\ faults' = faults + 1
    /\ execution' = [execution EXCEPT ![r] = Nobody]
    /\ UNCHANGED <<now, run, intent, lease, consumption, handoff, consumer>>

Tick ==
    /\ now < MaxTime /\ now' = now + 1
    /\ UNCHANGED <<run, execution, intent, lease, consumption, handoff, consumer, faults>>

Submit(r) ==
    /\ run[r].status # "ended" /\ run[r].sent < MaxMessages
    /\ run' = [run EXCEPT ![r].sent = @ + 1, ![r].pending = @ \cup {run[r].sent + 1}]
    /\ UNCHANGED <<now, execution, intent, lease, consumption, handoff, consumer, faults>>

PauseOrResume(r) ==
    /\ \/ run[r].status = "running" /\ run' = [run EXCEPT ![r].status = "paused"]
       \/ run[r].status = "paused" /\ run' = [run EXCEPT ![r].status = "running"]
    /\ execution[r] = Nobody
    /\ UNCHANGED <<now, execution, intent, lease, consumption, handoff, consumer, faults>>

\* An operator who cancels the Run asks no lease.
EndRun(r) ==
    /\ RunsMayEnd /\ run[r].status # "ended"
    /\ run' = [run EXCEPT ![r].status = "ended", ![r].pending = {}]
    /\ UNCHANGED <<now, execution, intent, lease, consumption, handoff, consumer, faults>>

\* A command executes the Run by itself and may deliver what is pending.
OtherExecution(r) ==
    /\ run[r].status = "running" /\ execution[r] = Nobody /\ faults < MaxFaults
    /\ faults' = faults + 1
    /\ execution' = [execution EXCEPT ![r] = Other]
    /\ UNCHANGED <<now, run, intent, lease, consumption, handoff, consumer>>

OtherExecutionEnds(r) ==
    /\ execution[r] = Other
    /\ execution' = [execution EXCEPT ![r] = Nobody]
    /\ run' \in {run, Commits(r, Selection(r))}
    /\ UNCHANGED <<now, intent, lease, consumption, handoff, consumer, faults>>

Next ==
    \/ Tick
    \/ \E c \in Consumers : Poll(c) \/ Command(c) \/ Consume(c) \/ HandOffFails(c) \/ Crash(c)
    \/ \E r \in Runs : Schedule(r) \/ Submit(r) \/ PauseOrResume(r) \/ EndRun(r)
                       \/ OtherExecution(r) \/ OtherExecutionEnds(r) \/ ExecutionLapses(r) \/ Stall(r)
    \/ \E i \in Intents : Cancel(i)

Spec == Init /\ [][Next]_vars

\* Time passes, the worker polls and finishes what it has begun, leases of
\* the dead lapse and other executions end.  Nothing is asked of operators.
FairSpec ==
    /\ Spec
    /\ WF_vars(Tick)
    /\ \A c \in Pollers : WF_vars(Poll(c))
    /\ \A c \in Consumers : WF_vars(Consume(c))
    /\ \A r \in Runs : /\ WF_vars(ExecutionLapses(r))
                       /\ WF_vars(OtherExecutionEnds(r))

-----------------------------------------------------------------------------
(* Liveness; the safety properties are those of RunWakePromises. *)

\* Every wake ends, by completion, cancellation, or exhaustion of its
\* attempts or its time; also when consumers crash and when the intent in
\* front of it in the queue of due intents can never be claimed.
WakesEnd == \A i \in Intents : intent[i].status \in Active ~> intent[i].status \notin Active
=============================================================================
