-------------------------- MODULE RunExecutionLease --------------------------
(***************************************************************************)
(* The execution lease of one Run: the row of run_execution_leases, the    *)
(* store operations that acquire, renew, release and check it, and the     *)
(* workers that hold it through withRunExecutionLease: an operation, a     *)
(* heartbeat goroutine beside it, and a release that is always attempted.  *)
(*                                                                         *)
(* A store operation is one SQLite transaction, hence one action.  Owner   *)
(* and lease ids are abstracted: a lease id is fresh at every grant, so    *)
(* (lease id, owner, generation) agree exactly when the generations do.    *)
(* Time is the number of ticks until the row expires.                      *)
(***************************************************************************)
EXTENDS Naturals, FiniteSets

CONSTANTS
    Workers,         \* processes and goroutines that execute the Run
    TTL,             \* ticks a grant or a renewal lasts
    MaxGeneration,   \* bound: grants explored
    MaxSkew          \* bound: ticks the wall clock may be set back in all

ASSUME LeaseConstants ==
    /\ TTL \in Nat \ {0}
    /\ MaxGeneration \in Nat
    /\ MaxSkew \in Nat

VARIABLES
    runOver,   \* run.Terminal()
    lease,     \* the row: generation (0: no row yet), status, ticks to expiry
    worker,    \* where each worker stands in withRunExecutionLease
    token,     \* the generation in its copy of the lease; 0: none
    beat,      \* its heartbeat goroutine
    written,   \* generation of the last write made under the fence
    skew       \* ticks the clock has been set back

vars == <<runOver, lease, worker, token, beat, written, skew>>

LeaseRow == [generation : 0 .. MaxGeneration,
             status     : {"active", "released"},
             ttl        : 0 .. TTL + MaxSkew]

TypeOK ==
    /\ runOver \in BOOLEAN
    /\ lease \in LeaseRow
    /\ worker \in [Workers -> {"idle", "operating", "closing"}]
    /\ token \in [Workers -> 0 .. MaxGeneration]
    /\ beat \in [Workers -> {"off", "ticking", "failed"}]
    /\ written \in 0 .. MaxGeneration
    /\ skew \in 0 .. MaxSkew

Init ==
    /\ runOver = FALSE
    /\ lease = [generation |-> 0, status |-> "released", ttl |-> 0]
    /\ worker = [w \in Workers |-> "idle"]
    /\ token = [w \in Workers |-> 0]
    /\ beat = [w \in Workers |-> "off"]
    /\ written = 0
    /\ skew = 0

-----------------------------------------------------------------------------
(* Reading the row.                                                        *)

ActiveAt(row) == row.status = "active" /\ row.ttl > 0

SameLease(row, g) == row.generation = g /\ g # 0

\* Faulty: any live lease will do.
AnyLiveLease(row, g) == g # 0 /\ ActiveAt(row)

Fenced(row, g) == SameLease(row, g) /\ ActiveAt(row)

\* Faulty: a takeover keeps the generation of the lease it takes over.
InheritedGeneration(row) == IF row.generation = 0 THEN 1 ELSE row.generation

NextGeneration(row) == row.generation + 1

-----------------------------------------------------------------------------
(* The worker: withRunExecutionLease and its heartbeat.                    *)

Acquire(w) ==
    /\ worker[w] = "idle"
    /\ ~runOver
    /\ ~ActiveAt(lease)
    /\ lease.generation < MaxGeneration
    /\ lease' = [generation |-> NextGeneration(lease), status |-> "active",
                 ttl |-> TTL]
    /\ token' = [token EXCEPT ![w] = lease'.generation]
    /\ worker' = [worker EXCEPT ![w] = "operating"]
    /\ beat' = [beat EXCEPT ![w] = "ticking"]
    /\ UNCHANGED <<runOver, written, skew>>

\* Acquiring again with the lease id extends the live lease it names.
ReplayAcquire(w) ==
    /\ worker[w] = "operating"
    /\ ~runOver
    /\ Fenced(lease, token[w])
    /\ lease' = [lease EXCEPT !.ttl = TTL]
    /\ UNCHANGED <<runOver, worker, token, beat, written, skew>>

Renew(w) ==
    /\ beat[w] = "ticking"
    /\ Fenced(lease, token[w])
    /\ lease' = [lease EXCEPT !.ttl = TTL]
    /\ UNCHANGED <<runOver, worker, token, beat, written, skew>>

\* A refused renewal, a storage error and a time-out all end the heartbeat and
\* cancel the operation's context.
HeartbeatFails(w) ==
    /\ beat[w] = "ticking"
    /\ beat' = [beat EXCEPT ![w] = "failed"]
    /\ UNCHANGED <<runOver, lease, worker, token, written, skew>>

\* Any store operation the worker makes with its lease as fencing token.  Some
\* ignore the cancelled context, so a failed heartbeat does not stop them.
Write(w) ==
    /\ worker[w] = "operating"
    /\ Fenced(lease, token[w])
    /\ written' = token[w]
    /\ UNCHANGED <<runOver, lease, worker, token, beat, skew>>

OperationEnds(w) ==
    /\ worker[w] = "operating"
    /\ worker' = [worker EXCEPT ![w] = "closing"]
    /\ beat' = [beat EXCEPT ![w] = "off"]
    /\ UNCHANGED <<runOver, lease, token, written, skew>>

Forget(w) ==
    /\ worker' = [worker EXCEPT ![w] = "idle"]
    /\ token' = [token EXCEPT ![w] = 0]
    /\ beat' = [beat EXCEPT ![w] = "off"]
    /\ UNCHANGED <<runOver, written, skew>>

\* No check of the expiry: the holder of a lapsed lease may still release it.
Release(w) ==
    /\ worker[w] = "closing"
    /\ SameLease(lease, token[w])
    /\ lease' = [lease EXCEPT !.status = "released"]
    /\ Forget(w)

\* The lease was replaced, or the release failed or timed out: the worker
\* returns and the row keeps what it holds.
ReleaseFails(w) ==
    /\ worker[w] = "closing"
    /\ Forget(w)
    /\ UNCHANGED lease

Crash(w) ==
    /\ worker[w] # "idle"
    /\ Forget(w)
    /\ UNCHANGED lease

-----------------------------------------------------------------------------
(* The rest of the system, and the clock.                                  *)

RunEnds ==
    /\ ~runOver
    /\ runOver' = TRUE
    /\ UNCHANGED <<lease, worker, token, beat, written, skew>>

Tick ==
    /\ ActiveAt(lease)
    /\ lease' = [lease EXCEPT !.ttl = @ - 1]
    /\ UNCHANGED <<runOver, worker, token, beat, written, skew>>

ClockStepsBack ==
    /\ skew < MaxSkew
    /\ lease.status = "active"
    /\ lease.ttl < TTL + MaxSkew
    /\ lease' = [lease EXCEPT !.ttl = @ + 1]
    /\ skew' = skew + 1
    /\ UNCHANGED <<runOver, worker, token, beat, written>>

WorkerStep(w) ==
    \/ Acquire(w)
    \/ ReplayAcquire(w)
    \/ Renew(w)
    \/ HeartbeatFails(w)
    \/ Write(w)
    \/ OperationEnds(w)
    \/ Release(w)
    \/ ReleaseFails(w)
    \/ Crash(w)

Next ==
    \/ \E w \in Workers : WorkerStep(w)
    \/ RunEnds
    \/ Tick
    \/ ClockStepsBack

Spec == Init /\ [][Next]_vars

\* Only time is assumed to pass: no worker has to do anything.
FairSpec == Spec /\ WF_vars(Tick)

-----------------------------------------------------------------------------
(* Properties.                                                             *)

\* At any moment at most one worker gets past the fencing check, whatever the
\* clock does and however long a worker that lost its lease keeps running.
AtMostOneHolder ==
    \A v, w \in Workers :
        Fenced(lease, token[v]) /\ Fenced(lease, token[w]) => v = w

\* A write of an older generation never lands after one of a newer generation:
\* a worker that was presumed dead cannot overwrite its successor's work.
WritesNeverGoBack == [][written' >= written]_vars

\* A live lease whose holder is gone stops being live, although other workers,
\* some with superseded copies of it, are running heartbeats all along.
Orphaned == ActiveAt(lease) /\ \A w \in Workers : token[w] # lease.generation

OrphanLapses == Orphaned ~> ~ActiveAt(lease)

\* The lease keeps the promises of FencedLease: generations are granted one at
\* a time, to nobody while one is live, and none is revived unless the clock
\* itself steps back.
Authority ==
    IF lease.status = "released" THEN "released"
    ELSE IF ActiveAt(lease) THEN "live" ELSE "lapsed"

Abstract == INSTANCE FencedLease WITH
    ClockMayStepBack <- (MaxSkew > 0),
    generation <- lease.generation,
    authority <- Authority,
    written <- written

ImplementsFencedLease == Abstract!FencedSpec
=============================================================================
