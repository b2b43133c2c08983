--------------------------- MODULE RunLimitsProofs ---------------------------
(***************************************************************************)
(* Proofs about what limits a Run: its execution lease, its progress       *)
(* guard, its monetary budget, the tokens of its read-only fan-outs and    *)
(* the turns of its Specialists.  They hold for any sets of workers,       *)
(* callers, shards and proposals and for any limits.                       *)
(*                                                                         *)
(* Each theorem is about the specification of one module alone; all but    *)
(* the first are instances here, and where two of them have a constant or  *)
(* a variable of the same name, it is declared once.  The sums that        *)
(* budgets are compared with have a section of their own.                  *)
(***************************************************************************)
EXTENDS RunExecutionLease, RunProgressPromises, MonetaryPromises, FanoutPromises,
        DelegationPromises, FiniteSetsExt, SequencesExt, FiniteSetTheorems,
        NaturalsInduction, WellFoundedInduction, TLAPS

CONSTANTS
    States, Actions,                                  \* of RunProgressGuard
    Callers, Scope, Model, Costs, MaxCalls, MaxTables,  \* of MonetaryBudget
    Shards, Usages, MaxAttempts,                      \* of ReadOnlyFanout
    Proposals, Appliers, ProposalOf, KeyOf, TaskTurns,  \* of Delegation
    MaxFaults                                         \* of the two in between

VARIABLES
    runStatus, state, guard, resumed,                 \* of RunProgressGuard
    ended, table, usage, event, caller, crashes,      \* of MonetaryBudget
    faults,                                           \* of ReadOnlyFanout
    busy, applier                                     \* of Delegation

Guard == INSTANCE RunProgressGuard
Money == INSTANCE MonetaryBudget
Fanout == INSTANCE ReadOnlyFanout
Teams == INSTANCE Delegation

-----------------------------------------------------------------------------
(* The execution lease *)

\* The inductive invariant: no copy of the lease is newer than the row, and no
\* two workers hold copies of the same generation.  AtMostOneHolder alone is not
\* inductive: it says nothing of two copies of a generation that is not live.
TokensAreOld == \A w \in Workers : token[w] <= lease.generation

TokensAreDistinct ==
    \A v, w \in Workers : token[v] = token[w] /\ token[v] # 0 => v = w

WrittenIsOld == written <= lease.generation

LeaseInv == TypeOK /\ TokensAreOld /\ TokensAreDistinct /\ WrittenIsOld

\* A row that passes the fencing check is live and of the copy's generation.
LEMMA FencedFacts ==
    ASSUME NEW g, Fenced(lease, g)
    PROVE  lease.generation = g /\ g # 0 /\ ActiveAt(lease)
BY DEF Fenced, SameLease

LEMMA InitLeaseInv == Init => LeaseInv
<1> SUFFICES ASSUME Init PROVE LeaseInv
    OBVIOUS
<1>1. lease.generation = 0 /\ lease \in LeaseRow
    BY LeaseConstants DEF Init, LeaseRow
<1>2. TypeOK
    <2>1. 0 \in 0 .. MaxGeneration /\ 0 \in 0 .. MaxSkew
        BY LeaseConstants
    <2>2. token \in [Workers -> 0 .. MaxGeneration]
        BY <2>1 DEF Init
    <2>3. /\ worker \in [Workers -> {"idle", "operating", "closing"}]
          /\ beat \in [Workers -> {"off", "ticking", "failed"}]
        BY DEF Init
    <2>4. runOver \in BOOLEAN /\ written \in 0 .. MaxGeneration /\ skew \in 0 .. MaxSkew
        BY <2>1, Zenon DEF Init
    <2>5. QED
        BY <1>1, <2>2, <2>3, <2>4 DEF TypeOK
<1>3. TokensAreOld /\ TokensAreDistinct /\ WrittenIsOld
    BY <1>1 DEF Init, TokensAreOld, TokensAreDistinct, WrittenIsOld
<1>4. QED
    BY <1>2, <1>3 DEF LeaseInv

\* A grant is the one step that raises the generation: every older copy stays
\* behind it, and the granted one is in a single hand.
LEMMA AcquireKeepsLeaseInv ==
    ASSUME LeaseInv, NEW w \in Workers, Acquire(w)
    PROVE  LeaseInv'
<1>1. lease' = [generation |-> lease.generation + 1, status |-> "active", ttl |-> TTL]
    BY DEF Acquire, NextGeneration
<1>2. token' = [token EXCEPT ![w] = lease.generation + 1]
    <2>1. lease'.generation = lease.generation + 1
        BY <1>1
    <2>2. QED
        BY <2>1, Zenon DEF Acquire
<1>3. lease.generation \in 0 .. MaxGeneration /\ lease.generation < MaxGeneration
    BY DEF LeaseInv, TypeOK, LeaseRow, Acquire
<1>4. \A v \in Workers : token[v] \in 0 .. MaxGeneration /\ token[v] <= lease.generation
    BY DEF LeaseInv, TypeOK, TokensAreOld
<1>5. TypeOK'
    <2>1. lease' \in LeaseRow
        BY <1>1, <1>3, LeaseConstants DEF LeaseRow
    <2>2. token' \in [Workers -> 0 .. MaxGeneration]
        BY <1>2, <1>3, LeaseConstants DEF LeaseInv, TypeOK
    <2>3. QED
        BY <2>1, <2>2 DEF LeaseInv, TypeOK, Acquire
<1>6. \A v \in Workers : token'[v] = IF v = w THEN lease.generation + 1 ELSE token[v]
    BY <1>2 DEF LeaseInv, TypeOK
<1>7. TokensAreOld'
    BY <1>1, <1>3, <1>4, <1>6 DEF TokensAreOld
<1>8. TokensAreDistinct'
    BY <1>3, <1>4, <1>6 DEF LeaseInv, TokensAreDistinct
<1>9. WrittenIsOld'
    BY <1>1, <1>3 DEF LeaseInv, TypeOK, WrittenIsOld, Acquire
<1>10. QED
    BY <1>5, <1>7, <1>8, <1>9 DEF LeaseInv

\* No other step changes the generation of the row or hands out a copy.
LEMMA OtherStepsKeepLeaseInv ==
    ASSUME LeaseInv,
           \/ \E w \in Workers :
                 \/ ReplayAcquire(w) \/ Renew(w) \/ HeartbeatFails(w) \/ Write(w)
                 \/ OperationEnds(w) \/ Release(w) \/ ReleaseFails(w) \/ Crash(w)
           \/ RunEnds \/ Tick \/ ClockStepsBack \/ UNCHANGED vars
    PROVE  LeaseInv'
<1> USE LeaseConstants
<1>1. lease'.generation = lease.generation /\ lease' \in LeaseRow
    BY DEF LeaseInv, TypeOK, LeaseRow, ReplayAcquire, Renew, HeartbeatFails, Write,
           OperationEnds, Release, ReleaseFails, Crash, RunEnds, Tick, ClockStepsBack,
           ActiveAt, vars
<1>2. /\ token' \in [Workers -> 0 .. MaxGeneration]
      /\ \A v \in Workers : token'[v] = token[v] \/ token'[v] = 0
    BY DEF LeaseInv, TypeOK, ReplayAcquire, Renew, HeartbeatFails, Write,
           OperationEnds, Release, ReleaseFails, Crash, Forget, RunEnds, Tick,
           ClockStepsBack, vars
<1>3. written' \in 0 .. MaxGeneration /\ (written' = written \/ written' = lease.generation)
    BY FencedFacts
    DEF LeaseInv, TypeOK, LeaseRow, ReplayAcquire, Renew, HeartbeatFails, Write,
           OperationEnds, Release, ReleaseFails, Crash, Forget, RunEnds, Tick,
           ClockStepsBack, vars
<1>4. /\ worker' \in [Workers -> {"idle", "operating", "closing"}]
      /\ beat' \in [Workers -> {"off", "ticking", "failed"}]
    BY DEF LeaseInv, TypeOK, ReplayAcquire, Renew, HeartbeatFails, Write,
           OperationEnds, Release, ReleaseFails, Crash, Forget, RunEnds, Tick,
           ClockStepsBack, vars
<1>5. runOver' \in BOOLEAN
    BY Zenon
    DEF LeaseInv, TypeOK, ReplayAcquire, Renew, HeartbeatFails, Write,
           OperationEnds, Release, ReleaseFails, Crash, Forget, RunEnds, Tick,
           ClockStepsBack, vars
<1>6. skew' \in 0 .. MaxSkew
    BY DEF LeaseInv, TypeOK, ReplayAcquire, Renew, HeartbeatFails, Write,
           OperationEnds, Release, ReleaseFails, Crash, Forget, RunEnds, Tick,
           ClockStepsBack, vars
<1>7. TypeOK'
    BY <1>1, <1>2, <1>3, <1>4, <1>5, <1>6 DEF TypeOK
<1>8. TokensAreOld'
    BY <1>1, <1>2 DEF LeaseInv, TypeOK, LeaseRow, TokensAreOld
<1>9. TokensAreDistinct'
    BY <1>2 DEF LeaseInv, TokensAreDistinct
<1>10. WrittenIsOld'
    BY <1>1, <1>3 DEF LeaseInv, TypeOK, LeaseRow, WrittenIsOld
<1>11. QED
    BY <1>7, <1>8, <1>9, <1>10 DEF LeaseInv

LEMMA LeaseInvHolds == Spec => []LeaseInv
<1>1. LeaseInv /\ [Next]_vars => LeaseInv'
    BY AcquireKeepsLeaseInv, OtherStepsKeepLeaseInv DEF Next, WorkerStep
<1>2. QED
    BY InitLeaseInv, <1>1, PTL DEF Spec

\* Every reachable state is well typed: in particular the generations, the
\* times to live and the skew stay within their ranges.
THEOREM TypeCorrect == Spec => []TypeOK
BY LeaseInvHolds, PTL DEF LeaseInv

\* However many workers run, crash or outlive their lease, and whatever the
\* clock does, at most one passes the check of requireRunExecutionLeaseTx.
THEOREM MutualExclusion == Spec => []AtMostOneHolder
<1>1. LeaseInv => AtMostOneHolder
    BY FencedFacts DEF LeaseInv, TokensAreDistinct, AtMostOneHolder
<1>2. QED
    BY LeaseInvHolds, <1>1, PTL

\* Writes made under the fence are ordered by generation.
THEOREM WritesAreOrdered == Spec => WritesNeverGoBack
<1>1. LeaseInv /\ [Next]_vars => [written' >= written]_vars
    <2> SUFFICES ASSUME LeaseInv, [Next]_vars
                 PROVE  written' >= written
        OBVIOUS
    <2>1. written \in Nat /\ lease.generation \in Nat /\ written <= lease.generation
        BY LeaseConstants DEF LeaseInv, TypeOK, LeaseRow, WrittenIsOld
    <2>2. written' = written \/ written' = lease.generation
        BY FencedFacts
        DEF Next, WorkerStep, Acquire, ReplayAcquire, Renew, HeartbeatFails, Write,
            OperationEnds, Release, ReleaseFails, Crash, Forget, RunEnds, Tick,
            ClockStepsBack, vars
    <2>3. QED
        BY <2>1, <2>2
<1>2. QED
    BY LeaseInvHolds, <1>1, PTL DEF WritesNeverGoBack, Spec

-----------------------------------------------------------------------------
(* Refinement of FencedLease, one lemma per kind of step.                  *)

LEMMA InitRefines == Init => Abstract!FencedInit
BY DEF Init, Abstract!FencedInit, Authority

LEMMA AcquireRefines ==
    ASSUME LeaseInv, NEW w \in Workers, Acquire(w)
    PROVE  Abstract!Grant
<1>1. Authority # "live"
    BY DEF Acquire, Authority
<1>2. Authority' = "live"
    BY LeaseConstants DEF Acquire, Authority, ActiveAt
<1>3. lease'.generation = lease.generation + 1 /\ written' = written
    BY DEF Acquire, NextGeneration
<1>4. QED
    BY <1>1, <1>2, <1>3 DEF Abstract!Grant

\* Extending a live lease, and everything that leaves the row and the fenced
\* document alone, is invisible in the abstraction.
LEMMA InvisibleSteps ==
    ASSUME LeaseInv,
           \/ \E w \in Workers :
                 \/ ReplayAcquire(w) \/ Renew(w) \/ HeartbeatFails(w)
                 \/ OperationEnds(w) \/ ReleaseFails(w) \/ Crash(w)
           \/ RunEnds \/ UNCHANGED vars
    PROVE  UNCHANGED Abstract!fencedVars
<1>1. lease'.generation = lease.generation /\ written' = written
    BY DEF LeaseInv, TypeOK, LeaseRow, ReplayAcquire, Renew, HeartbeatFails,
           OperationEnds, ReleaseFails, Crash, Forget, RunEnds, vars
<1>2. Authority' = Authority
    BY LeaseConstants
    DEF LeaseInv, TypeOK, LeaseRow, Authority, ActiveAt, Fenced, ReplayAcquire, Renew,
        HeartbeatFails, OperationEnds, ReleaseFails, Crash, RunEnds, vars
<1>3. QED
    BY <1>1, <1>2 DEF Abstract!fencedVars

LEMMA WriteRefines ==
    ASSUME LeaseInv, NEW w \in Workers, Write(w)
    PROVE  Abstract!FencedWrite
BY DEF LeaseInv, Write, Fenced, SameLease, ActiveAt, Authority, Abstract!FencedWrite

LEMMA ReleaseRefines ==
    ASSUME LeaseInv, NEW w \in Workers, Release(w)
    PROVE  [Abstract!FencedNext]_Abstract!fencedVars
<1>1. /\ lease'.generation = lease.generation /\ written' = written
      /\ Authority' = "released"
    BY DEF LeaseInv, TypeOK, LeaseRow, Release, Forget, Authority
<1>2. CASE Authority = "released"
    BY <1>1, <1>2 DEF Abstract!fencedVars
<1>3. CASE Authority # "released"
    BY <1>1, <1>3 DEF Abstract!GiveUp, Abstract!FencedNext
<1>4. QED
    BY <1>2, <1>3

\* A tick either shortens a lease that stays live or lets it lapse; setting the
\* clock back either lengthens a live lease or revives a lapsed one.
LEMMA ClockRefines ==
    ASSUME LeaseInv, Tick \/ ClockStepsBack
    PROVE  [Abstract!FencedNext]_Abstract!fencedVars
<1>1. /\ lease'.generation = lease.generation /\ written' = written
      /\ lease.status = "active" /\ lease'.status = "active"
    BY DEF LeaseInv, TypeOK, LeaseRow, Tick, ClockStepsBack, ActiveAt
<1>2. CASE Authority' = Authority
    BY <1>1, <1>2 DEF Abstract!fencedVars
<1>3. CASE Authority' # Authority /\ Tick
    <2>1. Authority = "live" /\ Authority' = "lapsed"
        BY <1>1, <1>3 DEF Tick, Authority, ActiveAt
    <2>2. QED
        BY <1>1, <2>1 DEF Abstract!Lapse, Abstract!FencedNext
<1>4. CASE Authority' # Authority /\ ClockStepsBack
    <2>1. lease' = [lease EXCEPT !.ttl = @ + 1] /\ lease.ttl \in Nat /\ lease \in LeaseRow
        BY <1>4, LeaseConstants DEF ClockStepsBack, LeaseInv, TypeOK, LeaseRow
    <2>2. lease'.ttl = lease.ttl + 1
        BY <2>1 DEF LeaseRow
    <2>3. Authority = "lapsed" /\ Authority' = "live"
        BY <1>1, <1>4, <2>1, <2>2 DEF Authority, ActiveAt
    <2>4. MaxSkew > 0
        BY <1>4, LeaseConstants DEF ClockStepsBack, LeaseInv, TypeOK
    <2>5. QED
        BY <1>1, <2>3, <2>4 DEF Abstract!Revive, Abstract!FencedNext
<1>5. QED
    BY <1>2, <1>3, <1>4

\* The store's lease, with workers, heartbeats, crashes and a clock, implements
\* the fenced lease: every step is a step of FencedLease or changes nothing in it.
THEOREM Refinement == Spec => ImplementsFencedLease
<1>1. LeaseInv /\ [Next]_vars => [Abstract!FencedNext]_Abstract!fencedVars
    <2> SUFFICES ASSUME LeaseInv, [Next]_vars
                 PROVE  [Abstract!FencedNext]_Abstract!fencedVars
        OBVIOUS
    <2>1. CASE \E w \in Workers : Acquire(w)
        BY <2>1, AcquireRefines DEF Abstract!FencedNext
    <2>2. CASE \E w \in Workers : Write(w)
        BY <2>2, WriteRefines DEF Abstract!FencedNext
    <2>3. CASE \E w \in Workers : Release(w)
        BY <2>3, ReleaseRefines
    <2>4. CASE Tick \/ ClockStepsBack
        BY <2>4, ClockRefines
    <2>5. CASE \/ \E w \in Workers :
                    \/ ReplayAcquire(w) \/ Renew(w) \/ HeartbeatFails(w)
                    \/ OperationEnds(w) \/ ReleaseFails(w) \/ Crash(w)
               \/ RunEnds \/ UNCHANGED vars
        BY <2>5, InvisibleSteps
    <2>6. QED
        BY <2>1, <2>2, <2>3, <2>4, <2>5 DEF Next, WorkerStep
<1>2. QED
    BY InitRefines, LeaseInvHolds, <1>1, PTL
    DEF Spec, ImplementsFencedLease, Abstract!FencedSpec

-----------------------------------------------------------------------------
(***************************************************************************)
(* Sums over finite sets.                                                  *)
(***************************************************************************)

\* Induction over the numbers, for a set of them.
LEMMA NaturalsByInduction ==
    ASSUME NEW S, 0 \in S, \A n \in Nat : n \in S => n + 1 \in S
    PROVE  Nat \subseteq S
<1> DEFINE R == OpToRel(<, Nat)
           T == Nat \ S
<1>1. IsWellFoundedOn(R, Nat)
  BY NatLessThanWellFounded
<1>2. \A x, y \in Nat : y < x => <<y, x>> \in R
  BY DEF OpToRel
<1> HIDE DEF R
<1>3. ASSUME T # {} PROVE FALSE
  <2>1. PICK x \in T : \A y \in T : ~(<<y, x>> \in R)
    BY <1>1, <1>3, WFMin
  <2>2. x \in Nat /\ x # 0
    OBVIOUS
  <2>3. x - 1 \in Nat /\ x - 1 < x /\ (x - 1) + 1 = x
    BY <2>2
  <2>4. x - 1 \in S
    BY <1>2, <2>1, <2>2, <2>3
  <2> QED
    BY <2>2, <2>3, <2>4
<1> QED
  BY <1>3

\* Induction over the subsets of a finite set, for a set of them.
LEMMA SubsetsByInduction ==
    ASSUME NEW S, IsFiniteSet(S), NEW Q, {} \in Q,
           \A T \in SUBSET S : T # {} /\ (\A x \in T : T \ {x} \in Q) => T \in Q
    PROVE  SUBSET S \subseteq Q
<1> DEFINE N == {n \in Nat : \A T \in SUBSET S : Cardinality(T) = n => T \in Q}
<1>0. \A T \in SUBSET S : IsFiniteSet(T) /\ Cardinality(T) \in Nat
  BY FS_Subset, FS_CardinalityType
<1>1. 0 \in N
  BY <1>0, FS_EmptySet
<1>2. ASSUME NEW n \in Nat, n \in N PROVE n + 1 \in N
  <2>1. ASSUME NEW T \in SUBSET S, Cardinality(T) = n + 1 PROVE T \in Q
    <3>1. T # {}
      BY <2>1, FS_EmptySet
    <3>2. ASSUME NEW x \in T PROVE T \ {x} \in Q
      <4>1. T \ {x} \in SUBSET S /\ Cardinality(T \ {x}) = n
        BY <1>0, <2>1, FS_RemoveElement
      <4> QED
        BY <1>2, <4>1
    <3> QED
      BY <3>1, <3>2
  <2> QED
    BY <2>1
<1> HIDE DEF N
<1>3. Nat \subseteq N
  BY <1>1, <1>2, NaturalsByInduction
<1> QED
  BY <1>0, <1>3 DEF N

\* it adds up h over each subset of S, taking the elements in the order of pick and from
\* either side: the function by which the folds of the library are computed.
Takes(h, pick, S, it) ==
    \A T \in SUBSET S :
        IF T = {} THEN it[T] = 0
        ELSE \/ it[T] = h[pick[T]] + it[T \ {pick[T]}]
             \/ it[T] = it[T \ {pick[T]}] + h[pick[T]]

Picks(pick, S) == \A T \in SUBSET S : T # {} => pick[T] \in T

Numbers(h, S) == \A x \in S : h[x] \in Int

\* it adds up h over each subset of S, whatever the order.
Adds(h, S, it) ==
    /\ it \in [SUBSET S -> Int]
    /\ it[{}] = 0
    /\ \A T \in SUBSET S : \A x \in T : it[T] = h[x] + it[T \ {x}]

Total(h, S) == (CHOOSE it : Adds(h, S, it))[S]

LEMMA TakesAdds ==
    ASSUME NEW S, IsFiniteSet(S), NEW h, Numbers(h, S), NEW pick, Picks(pick, S), NEW it,
           DOMAIN it = SUBSET S, it = [T \in DOMAIN it |-> it[T]], Takes(h, pick, S, it)
    PROVE  Adds(h, S, it)
<1> DEFINE Fine(T) == it[T] \in Int /\ \A x \in T : it[T] = h[x] + it[T \ {x}]
           Q == {T \in SUBSET S : Fine(T) /\ \A x \in T : Fine(T \ {x})}
<1>0. {} \in SUBSET S /\ it[{}] = 0
  BY DEF Takes
<1>1. {} \in Q
  BY <1>0
<1>2. ASSUME NEW T \in SUBSET S, T # {}, \A x \in T : T \ {x} \in Q PROVE T \in Q
  <2> DEFINE p == pick[T]
  <2>1. p \in T /\ h[p] \in Int /\ T \ {p} \in SUBSET S
    BY <1>2 DEF Picks, Numbers
  <2>2. \A x \in T : Fine(T \ {x}) /\ T \ {x} \in SUBSET S /\ \A y \in T \ {x} : Fine((T \ {x}) \ {y})
    BY <1>2
  <2>3. it[T] = h[p] + it[T \ {p}] /\ it[T] \in Int
    <3>1. \/ it[T] = h[p] + it[T \ {p}]
          \/ it[T] = it[T \ {p}] + h[p]
      BY <1>2 DEF Takes
    <3>2. it[T \ {p}] \in Int
      BY <2>1, <2>2
    <3> HIDE DEF p, Fine, Q
    <3> QED
      BY <2>1, <3>1, <3>2
  <2>4. ASSUME NEW x \in T PROVE it[T] = h[x] + it[T \ {x}]
    <3>1. CASE x = p
      BY <2>3, <3>1
    <3>2. CASE x # p
      <4>1. x \in T \ {p} /\ p \in T \ {x} /\ (T \ {p}) \ {x} = (T \ {x}) \ {p}
        BY <2>1, <3>2
      <4>2. it[T \ {p}] = h[x] + it[(T \ {p}) \ {x}]
        BY <2>1, <2>2, <4>1
      <4>3. it[T \ {x}] = h[p] + it[(T \ {x}) \ {p}]
        BY <2>2, <4>1
      <4>4. it[(T \ {x}) \ {p}] \in Int /\ h[x] \in Int
        BY <2>2, <4>1 DEF Numbers
      <4> DEFINE both == it[(T \ {x}) \ {p}]
      <4> HIDE DEF p, both, Fine, Q
      <4>5. /\ it[T] = h[p] + it[T \ {p}] /\ it[T \ {p}] = h[x] + both
            /\ it[T \ {x}] = h[p] + both /\ both \in Int /\ h[x] \in Int /\ h[p] \in Int
        BY <2>1, <2>3, <4>1, <4>2, <4>3, <4>4 DEF both
      <4> QED
        BY <4>5
    <3> QED
      BY <3>1, <3>2
  <2> QED
    BY <2>2, <2>3, <2>4
<1> HIDE DEF Q
<1>3. SUBSET S \subseteq Q
  BY <1>1, <1>2, SubsetsByInduction
<1>4. \A T \in SUBSET S : it[T] \in Int /\ \A x \in T : it[T] = h[x] + it[T \ {x}]
  BY <1>3 DEF Q
<1>5. it \in [SUBSET S -> Int]
  BY <1>4
<1> QED
  BY <1>0, <1>4, <1>5 DEF Adds

\* A function that is defined so, for folds that take the element from the left.
Folds(h, pick, S, it) ==
    it = [T \in SUBSET S |-> IF T = {} THEN 0 ELSE h[pick[T]] + it[T \ {pick[T]}]]

\* There is such a function.
LEMMA FoldsExists ==
    ASSUME NEW S, IsFiniteSet(S), NEW h, NEW pick, Picks(pick, S)
    PROVE  \E it : Folds(h, pick, S, it)
<1> DEFINE Small(n) == {T \in SUBSET S : Cardinality(T) <= n}
           Up(n, f) == f = [T \in Small(n) |-> IF T = {} THEN 0
                                               ELSE h[pick[T]] + f[T \ {pick[T]}]]
           N == {n \in Nat : \E f : Up(n, f)}
<1>0. \A T \in SUBSET S : IsFiniteSet(T) /\ Cardinality(T) \in Nat
  BY FS_Subset, FS_CardinalityType
<1>1. 0 \in N
  <2>1. \A T \in Small(0) : T = {}
    BY <1>0, FS_EmptySet
  <2>2. Up(0, [T \in Small(0) |-> 0])
    BY <2>1
  <2> QED
    BY <2>2
<1>2. ASSUME NEW n \in Nat, n \in N PROVE n + 1 \in N
  <2>1. PICK f : Up(n, f)
    BY <1>2
  <2> DEFINE e(T) == IF T = {} THEN 0 ELSE h[pick[T]] + f[T \ {pick[T]}]
  <2>2. PICK g : g = [T \in Small(n + 1) |-> e(T)]
    OBVIOUS
  <2>3. \A T \in Small(n) : f[T] = e(T)
    BY <2>1
  <2>4. ASSUME NEW T \in Small(n + 1), T # {} PROVE T \ {pick[T]} \in Small(n)
    <3>1. pick[T] \in T
      BY <2>4 DEF Picks
    <3>2. Cardinality(T \ {pick[T]}) = Cardinality(T) - 1
      BY <1>0, <3>1, FS_RemoveElement
    <3> QED
      BY <1>0, <3>2
  <2>5. \A T \in Small(n) : T \in Small(n + 1)
    BY <1>0
  <2>6. \A T \in Small(n) : g[T] = f[T]
    BY <2>2, <2>3, <2>5
  <2>7. \A T \in Small(n + 1) : e(T) = IF T = {} THEN 0 ELSE h[pick[T]] + g[T \ {pick[T]}]
    BY <2>4, <2>6
  <2>8. Up(n + 1, g)
    <3> HIDE DEF e, Small
    <3> QED
      BY <2>2, <2>7
  <2> HIDE DEF Up
  <2> QED
    BY <2>8
<1>3. Nat \subseteq N
  <2> HIDE DEF N
  <2> QED
    BY <1>1, <1>2, NaturalsByInduction
<1>4. Cardinality(S) \in N
  BY <1>0, <1>3
<1>5. Small(Cardinality(S)) = SUBSET S
  BY FS_Subset, <1>0
<1>6. PICK f : Up(Cardinality(S), f)
  BY <1>4
<1> QED
  BY <1>5, <1>6 DEF Folds

LEMMA AddsExists ==
    ASSUME NEW S, IsFiniteSet(S), NEW h, Numbers(h, S)
    PROVE  \E it : Adds(h, S, it)
<1> DEFINE pick == [T \in SUBSET S |-> CHOOSE x \in T : TRUE]
<1>1. Picks(pick, S)
  BY DEF Picks
<1> HIDE DEF pick
<1>2. PICK it : Folds(h, pick, S, it)
  BY <1>1, FoldsExists
<1>3. Takes(h, pick, S, it)
  BY <1>2 DEF Takes, Folds
<1>4. DOMAIN it = SUBSET S /\ it = [T \in DOMAIN it |-> it[T]]
  BY <1>2 DEF Folds
<1> QED
  BY <1>1, <1>3, <1>4, TakesAdds

LEMMA AddsAgree ==
    ASSUME NEW S, IsFiniteSet(S), NEW R, NEW h, NEW g, NEW it, Adds(h, S, it), NEW jt,
           Adds(g, R, jt), S \subseteq R, \A x \in S : h[x] = g[x]
    PROVE  it[S] = jt[S]
<1> DEFINE Q == {T \in SUBSET S : it[T] = jt[T]}
<1>1. {} \in Q
  BY DEF Adds
<1>2. ASSUME NEW T \in SUBSET S, T # {}, \A x \in T : T \ {x} \in Q PROVE T \in Q
  <2>1. PICK x : x \in T
    BY <1>2
  <2>2. it[T] = h[x] + it[T \ {x}] /\ jt[T] = g[x] + jt[T \ {x}]
    BY <2>1 DEF Adds
  <2>3. it[T \ {x}] = jt[T \ {x}] /\ h[x] = g[x]
    BY <1>2, <2>1
  <2> QED
    BY <2>2, <2>3
<1> HIDE DEF Q
<1>3. SUBSET S \subseteq Q
  BY <1>1, <1>2, SubsetsByInduction
<1> QED
  BY <1>3 DEF Q

\* What a sum is.
LEMMA TotalIs ==
    ASSUME NEW R, IsFiniteSet(R), NEW S \in SUBSET R, NEW h, Numbers(h, S), NEW it,
           Adds(h, R, it)
    PROVE  Total(h, S) = it[S]
<1>1. IsFiniteSet(S)
  BY FS_Subset
<1>2. Adds(h, S, CHOOSE jt : Adds(h, S, jt))
  BY <1>1, AddsExists
<1> QED
  BY <1>1, <1>2, AddsAgree DEF Total

LEMMA TotalEmpty == ASSUME NEW h PROVE Total(h, {}) = 0
<1>1. Numbers(h, {}) /\ IsFiniteSet({})
  BY FS_EmptySet DEF Numbers
<1>2. Adds(h, {}, CHOOSE jt : Adds(h, {}, jt))
  BY <1>1, AddsExists
<1> QED
  BY <1>2 DEF Total, Adds

LEMMA TotalAdds ==
    ASSUME NEW S, IsFiniteSet(S), NEW h, Numbers(h, S)
    PROVE  /\ Total(h, S) \in Int
           /\ \A x \in S : Total(h, S) = h[x] + Total(h, S \ {x})
<1>1. PICK it : Adds(h, S, it)
  BY AddsExists
<1>2. ASSUME NEW T \in SUBSET S PROVE Total(h, T) = it[T]
  <2>1. Numbers(h, T)
    BY DEF Numbers
  <2> QED
    BY <1>1, <2>1, TotalIs
<1> QED
  BY <1>1, <1>2 DEF Adds

LEMMA TotalAgrees ==
    ASSUME NEW S, IsFiniteSet(S), NEW h, NEW g, Numbers(h, S), \A x \in S : h[x] = g[x]
    PROVE  Total(h, S) = Total(g, S)
<1>1. Numbers(g, S)
  BY DEF Numbers
<1>2. PICK it : Adds(h, S, it)
  BY AddsExists
<1>3. PICK jt : Adds(g, S, jt)
  BY <1>1, AddsExists
<1>4. it[S] = jt[S]
  BY <1>2, <1>3, AddsAgree
<1> QED
  BY <1>1, <1>2, <1>3, <1>4, TotalIs

\* One element more, or with another value.
LEMMA TotalChanges ==
    ASSUME NEW S, IsFiniteSet(S), NEW h, NEW g, Numbers(h, S), Numbers(g, S), NEW x \in S,
           \A y \in S \ {x} : h[y] = g[y]
    PROVE  Total(g, S) = (Total(h, S) - h[x]) + g[x]
<1>1. IsFiniteSet(S \ {x}) /\ Numbers(h, S \ {x}) /\ Numbers(g, S \ {x}) /\ h[x] \in Int /\ g[x] \in Int
  BY FS_RemoveElement DEF Numbers
<1>2. Total(h, S \ {x}) = Total(g, S \ {x}) /\ Total(h, S \ {x}) \in Int
  BY <1>1, TotalAgrees, TotalAdds
<1>3. Total(h, S) = h[x] + Total(h, S \ {x}) /\ Total(g, S) = g[x] + Total(g, S \ {x})
  BY TotalAdds
<1> QED
  BY <1>1, <1>2, <1>3

LEMMA TotalRises ==
    ASSUME NEW S, IsFiniteSet(S), NEW h, NEW g, Numbers(h, S), Numbers(g, S),
           \A x \in S : h[x] <= g[x]
    PROVE  Total(h, S) <= Total(g, S)
<1> DEFINE Q == {T \in SUBSET S : Total(h, T) <= Total(g, T)}
<1>1. {} \in Q
  BY TotalEmpty
<1>2. ASSUME NEW T \in SUBSET S, T # {}, \A x \in T : T \ {x} \in Q PROVE T \in Q
  <2>1. PICK x : x \in T
    BY <1>2
  <2>2. /\ IsFiniteSet(T) /\ Numbers(h, T) /\ Numbers(g, T)
        /\ IsFiniteSet(T \ {x}) /\ Numbers(h, T \ {x}) /\ Numbers(g, T \ {x})
    BY FS_Subset DEF Numbers
  <2>3. /\ Total(h, T) = h[x] + Total(h, T \ {x}) /\ Total(g, T) = g[x] + Total(g, T \ {x})
        /\ Total(h, T \ {x}) \in Int /\ Total(g, T \ {x}) \in Int
    BY <2>1, <2>2, TotalAdds
  <2>4. Total(h, T \ {x}) <= Total(g, T \ {x}) /\ h[x] <= g[x] /\ h[x] \in Int /\ g[x] \in Int
    BY <1>2, <2>1 DEF Numbers
  <2> QED
    BY <2>3, <2>4
<1> HIDE DEF Q
<1>3. SUBSET S \subseteq Q
  BY <1>1, <1>2, SubsetsByInduction
<1> QED
  BY <1>3 DEF Q

LEMMA TotalIsNatural ==
    ASSUME NEW S, IsFiniteSet(S), NEW h, \A x \in S : h[x] \in Nat
    PROVE  Total(h, S) \in Nat
<1> DEFINE Q == {T \in SUBSET S : Total(h, T) \in Nat}
<1>1. {} \in Q
  BY TotalEmpty
<1>2. ASSUME NEW T \in SUBSET S, T # {}, \A x \in T : T \ {x} \in Q PROVE T \in Q
  <2>1. PICK x : x \in T
    BY <1>2
  <2>2. IsFiniteSet(T) /\ Numbers(h, T)
    BY FS_Subset DEF Numbers
  <2>3. Total(h, T) = h[x] + Total(h, T \ {x})
    BY <2>1, <2>2, TotalAdds
  <2>4. Total(h, T \ {x}) \in Nat /\ h[x] \in Nat
    BY <1>2, <2>1
  <2> QED
    BY <2>3, <2>4
<1> HIDE DEF Q
<1>3. SUBSET S \subseteq Q
  BY <1>1, <1>2, SubsetsByInduction
<1> QED
  BY <1>3 DEF Q

\* The sum of sums.
LEMMA TotalCombines ==
    ASSUME NEW S, IsFiniteSet(S), NEW f, NEW g, NEW h, Numbers(g, S), Numbers(h, S),
           \A x \in S : f[x] = g[x] + h[x]
    PROVE  Total(f, S) = Total(g, S) + Total(h, S)
<1> DEFINE Q == {T \in SUBSET S : Total(f, T) = Total(g, T) + Total(h, T)}
<1>0. Numbers(f, S)
  BY DEF Numbers
<1>1. {} \in Q
  BY TotalEmpty
<1>2. ASSUME NEW T \in SUBSET S, T # {}, \A x \in T : T \ {x} \in Q PROVE T \in Q
  <2>1. PICK x : x \in T
    BY <1>2
  <2>2. /\ IsFiniteSet(T) /\ Numbers(f, T) /\ Numbers(g, T) /\ Numbers(h, T)
        /\ IsFiniteSet(T \ {x}) /\ Numbers(g, T \ {x}) /\ Numbers(h, T \ {x})
    BY <1>0, FS_Subset DEF Numbers
  <2>3. /\ Total(f, T) = f[x] + Total(f, T \ {x}) /\ Total(g, T) = g[x] + Total(g, T \ {x})
        /\ Total(h, T) = h[x] + Total(h, T \ {x})
        /\ Total(h, T \ {x}) \in Int /\ Total(g, T \ {x}) \in Int
    BY <2>1, <2>2, TotalAdds
  <2>4. /\ Total(f, T \ {x}) = Total(g, T \ {x}) + Total(h, T \ {x})
        /\ f[x] = g[x] + h[x] /\ h[x] \in Int /\ g[x] \in Int
    BY <1>2, <2>1 DEF Numbers
  <2> QED
    BY <2>3, <2>4
<1> HIDE DEF Q
<1>3. SUBSET S \subseteq Q
  BY <1>1, <1>2, SubsetsByInduction
<1> QED
  BY <1>3 DEF Q

\* What counts for nothing.
LEMMA TotalIgnores ==
    ASSUME NEW S, IsFiniteSet(S), NEW h, Numbers(h, S), NEW A \in SUBSET S,
           \A x \in S \ A : h[x] = 0
    PROVE  Total(h, S) = Total(h, A)
<1> DEFINE Q == {T \in SUBSET (S \ A) : Total(h, A \cup T) = Total(h, A)}
<1>1. {} \in Q /\ IsFiniteSet(S \ A) /\ A \cup {} = A
  BY FS_Subset
<1>2. ASSUME NEW T \in SUBSET (S \ A), T # {}, \A x \in T : T \ {x} \in Q PROVE T \in Q
  <2>1. PICK x : x \in T
    BY <1>2
  <2>2. /\ IsFiniteSet(A \cup T) /\ Numbers(h, A \cup T) /\ Numbers(h, A \cup (T \ {x}))
        /\ IsFiniteSet(A \cup (T \ {x})) /\ (A \cup T) \ {x} = A \cup (T \ {x}) /\ x \in A \cup T
    BY <2>1, FS_Subset DEF Numbers
  <2>3. /\ Total(h, A \cup T) = h[x] + Total(h, A \cup (T \ {x}))
        /\ Total(h, A \cup (T \ {x})) \in Int
    BY <2>2, TotalAdds
  <2>4. Total(h, A \cup (T \ {x})) = Total(h, A) /\ h[x] = 0
    BY <1>2, <2>1
  <2> QED
    BY <2>3, <2>4
<1> HIDE DEF Q
<1>3. SUBSET (S \ A) \subseteq Q
  BY <1>1, <1>2, SubsetsByInduction
<1>4. A \cup (S \ A) = S /\ S \ A \in SUBSET (S \ A)
  OBVIOUS
<1>5. S \ A \in Q
  BY <1>3, <1>4
<1>6. Total(h, A \cup (S \ A)) = Total(h, A)
  BY <1>5 DEF Q
<1> QED
  BY <1>4, <1>6

-----------------------------------------------------------------------------
\* A fold from the left is a sum.
LEMMA FoldIsTotal ==
    ASSUME NEW S, IsFiniteSet(S), NEW h, Numbers(h, S), NEW pick, Picks(pick, S)
    PROVE  /\ \E it : Folds(h, pick, S, it)
           /\ \A it : Folds(h, pick, S, it) => it[S] = Total(h, S)
<1>1. \E it : Folds(h, pick, S, it)
  BY FoldsExists
<1>2. ASSUME NEW it, Folds(h, pick, S, it) PROVE it[S] = Total(h, S)
  <2>1. Takes(h, pick, S, it)
    BY <1>2 DEF Takes, Folds
  <2>2. DOMAIN it = SUBSET S /\ it = [T \in DOMAIN it |-> it[T]]
    BY <1>2 DEF Folds
  <2>3. Adds(h, S, it)
    BY <2>1, <2>2, TakesAdds
  <2> QED
    BY <2>3, TotalIs
<1> QED
  BY <1>1, <1>2

-----------------------------------------------------------------------------
(* Sums of sequences.                                                      *)

\* A fold that takes the elements from the right.
FoldsBack(h, pick, S, it) ==
    it = [T \in SUBSET S |-> IF T = {} THEN 0 ELSE it[T \ {pick[T]}] + h[pick[T]]]

LEMMA FoldBackIsTotal ==
    ASSUME NEW S, IsFiniteSet(S), NEW h, Numbers(h, S), NEW pick, Picks(pick, S)
    PROVE  /\ \E it : FoldsBack(h, pick, S, it)
           /\ \A it : FoldsBack(h, pick, S, it) => it[S] = Total(h, S)
<1>1. PICK jt : Adds(h, S, jt)
  BY AddsExists
<1>2. FoldsBack(h, pick, S, jt)
  <2>1. jt = [T \in SUBSET S |-> jt[T]]
    BY <1>1 DEF Adds
  <2>2. ASSUME NEW T \in SUBSET S
        PROVE  jt[T] = IF T = {} THEN 0 ELSE jt[T \ {pick[T]}] + h[pick[T]]
    <3>1. CASE T = {}
      BY <1>1, <3>1 DEF Adds
    <3>2. CASE T # {}
      <4>1. pick[T] \in T /\ T \ {pick[T]} \in SUBSET S /\ h[pick[T]] \in Int
        BY <3>2 DEF Picks, Numbers
      <4>2. jt[T] = h[pick[T]] + jt[T \ {pick[T]}] /\ jt[T \ {pick[T]}] \in Int
        BY <1>1, <4>1 DEF Adds
      <4> QED
        BY <3>2, <4>1, <4>2
    <3> QED
      BY <3>1, <3>2
  <2> QED
    BY <2>1, <2>2 DEF FoldsBack
<1>3. ASSUME NEW it, FoldsBack(h, pick, S, it) PROVE it[S] = Total(h, S)
  <2>1. Takes(h, pick, S, it)
    BY <1>3 DEF Takes, FoldsBack
  <2>2. DOMAIN it = SUBSET S /\ it = [T \in DOMAIN it |-> it[T]]
    BY <1>3 DEF FoldsBack
  <2>3. Adds(h, S, it)
    BY <2>1, <2>2, TakesAdds
  <2> QED
    BY <2>3, TotalIs
<1> QED
  BY <1>2, <1>3

\* The numbers 1 .. n have a greatest one, and so do some of them.
Greatest == [T \in SUBSET Nat |-> CHOOSE x \in T : \A y \in T : x >= y]

LEMMA GreatestPicks == ASSUME NEW n \in Nat PROVE Picks(Greatest, 1 .. n)
<1> DEFINE S == 1 .. n
           Q == {T \in SUBSET S : T = {} \/ \E x \in T : \A y \in T : x >= y}
<1>1. {} \in Q /\ IsFiniteSet(S)
  BY FS_Interval
<1>2. ASSUME NEW T \in SUBSET S, T # {}, \A x \in T : T \ {x} \in Q PROVE T \in Q
  <2>1. PICK x : x \in T
    BY <1>2
  <2>2. CASE T \ {x} = {}
    BY <2>1, <2>2
  <2>3. CASE T \ {x} # {}
    <3>1. PICK y \in T \ {x} : \A z \in T \ {x} : y >= z
      BY <1>2, <2>1, <2>3
    <3>2. x \in Nat /\ y \in Nat /\ \A z \in T : z \in Nat
      BY <2>1, <3>1
    <3>3. CASE x >= y
      BY <2>1, <3>1, <3>2, <3>3
    <3>4. CASE ~(x >= y)
      BY <2>1, <3>1, <3>2, <3>4
    <3> QED
      BY <3>3, <3>4
  <2> QED
    BY <2>2, <2>3
<1> HIDE DEF Q, S
<1>3. SUBSET S \subseteq Q
  BY <1>1, <1>2, SubsetsByInduction
<1>4. ASSUME NEW T \in SUBSET S, T # {} PROVE Greatest[T] \in T
  <2>1. PICK x \in T : \A y \in T : x >= y
    BY <1>3, <1>4 DEF Q
  <2>2. T \in SUBSET Nat
    BY DEF S
  <2> QED
    BY <2>1, <2>2 DEF Greatest
<1> QED
  BY <1>4 DEF Picks, S

\* The sum of a sequence of numbers.
SumUp(q) == Total(q, DOMAIN q)

LEMMA SumUpFacts ==
    ASSUME NEW q \in Seq(Int)
    PROVE  Numbers(q, DOMAIN q) /\ IsFiniteSet(DOMAIN q) /\ SumUp(q) \in Int
<1>1. Numbers(q, DOMAIN q) /\ DOMAIN q = 1 .. Len(q) /\ Len(q) \in Nat
  BY DEF Numbers
<1>2. IsFiniteSet(DOMAIN q)
  BY <1>1, FS_Interval
<1> QED
  BY <1>1, <1>2, TotalAdds DEF SumUp

LEMMA SumUpEmpty == SumUp(<< >>) = 0
<1>1. DOMAIN << >> = {}
  OBVIOUS
<1> QED
  BY <1>1, TotalEmpty DEF SumUp

LEMMA SumUpAppend ==
    ASSUME NEW q \in Seq(Int), NEW i \in Int
    PROVE  SumUp(Append(q, i)) = SumUp(q) + i
<1> DEFINE p == Append(q, i)
           n == Len(q) + 1
<1>1. /\ p \in Seq(Int) /\ n \in DOMAIN p /\ p[n] = i
      /\ DOMAIN p \ {n} = DOMAIN q /\ \A k \in DOMAIN q : q[k] = p[k]
  <2>1. p \in Seq(Int) /\ Len(p) = n /\ Len(q) \in Nat
    OBVIOUS
  <2>2. DOMAIN p = 1 .. n /\ DOMAIN q = 1 .. Len(q)
    BY <2>1
  <2>3. p[n] = i /\ \A k \in 1 .. Len(q) : p[k] = q[k]
    OBVIOUS
  <2> HIDE DEF p
  <2> QED
    BY <2>1, <2>2, <2>3
<1> HIDE DEF p, n
<1>2. SumUp(p) = p[n] + Total(p, DOMAIN p \ {n})
  BY <1>1, SumUpFacts, TotalAdds DEF SumUp
<1>3. Total(p, DOMAIN q) = Total(q, DOMAIN q)
  BY <1>1, SumUpFacts, TotalAgrees
<1>4. SumUp(q) \in Int
  BY SumUpFacts
<1> QED
  BY <1>1, <1>2, <1>3, <1>4 DEF SumUp, p

LEMMA SumUpExcept ==
    ASSUME NEW q \in Seq(Int), NEW n \in DOMAIN q, NEW i \in Int
    PROVE  SumUp([q EXCEPT ![n] = i]) = (SumUp(q) - q[n]) + i
<1> DEFINE p == [q EXCEPT ![n] = i]
<1>1. p \in Seq(Int) /\ DOMAIN p = DOMAIN q /\ p[n] = i /\ \A k \in DOMAIN q \ {n} : q[k] = p[k]
  OBVIOUS
<1> HIDE DEF p
<1>2. Total(p, DOMAIN q) = (Total(q, DOMAIN q) - q[n]) + p[n]
  BY <1>1, SumUpFacts, TotalChanges
<1> QED
  BY <1>1, <1>2 DEF SumUp, p

LEMMA SumUpRises ==
    ASSUME NEW q \in Seq(Int), NEW r \in Seq(Int), DOMAIN q = DOMAIN r,
           \A n \in DOMAIN q : q[n] <= r[n]
    PROVE  SumUp(q) <= SumUp(r)
BY SumUpFacts, TotalRises DEF SumUp

-----------------------------------------------------------------------------
(* The progress guard.                                                     *)

\* SameTurn and SameState over any history: the latter if all is FALSE.
Related(h, k, j, all) ==
    /\ h[k].continues /\ h[j].continues /\ h[k].state = h[j].state
    /\ all => h[k].action = h[j].action

\* Where the stretches begin that end with turn j.
Begins(h, j, all) ==
    {i \in 1 .. j : /\ \A k \in i .. j : Related(h, k, j, all)
                    /\ \A k \in i .. j - 1 : ~h[k].stopped}

\* What is promised of turn j.
Watched(h, j) ==
    LET said   == Cardinality(Begins(h, j, TRUE))
        stayed == Cardinality(Begins(h, j, FALSE))
    IN  /\ said >= RepeatThreshold \/ stayed >= StagnantThreshold => h[j].stopped
        /\ h[j].stopped => said = RepeatThreshold \/ stayed = StagnantThreshold

LEMMA PromiseOfTheGuard ==
    OnlyLoopsAreStopped <=> \A j \in DOMAIN log : Watched(log, j)
<1>1. ASSUME NEW j \in DOMAIN log
      PROVE  /\ Longest(SameTurn, j) = Cardinality(Begins(log, j, TRUE))
             /\ Longest(SameState, j) = Cardinality(Begins(log, j, FALSE))
  BY DEF Longest, Stretch, SameTurn, SameState, Begins, Related
<1> QED
  BY <1>1 DEF OnlyLoopsAreStopped, Watched

\* A turn that is appended leaves the stretches before it alone.
LEMMA StretchesStay ==
    ASSUME NEW T, NEW h \in Seq(T), NEW e \in T, NEW j \in 1 .. Len(h), NEW all \in BOOLEAN
    PROVE  /\ Begins(Append(h, e), j, all) = Begins(h, j, all)
           /\ Append(h, e)[j] = h[j]
<1>1. \A k \in 1 .. j : Append(h, e)[k] = h[k]
  OBVIOUS
<1>2. \A i \in 1 .. j : /\ \A k \in i .. j : k \in 1 .. j
                        /\ \A k \in i .. j - 1 : k \in 1 .. j
  OBVIOUS
<1> HIDE DEF Append
<1>3. \A k \in 1 .. j : Related(Append(h, e), k, j, all) = Related(h, k, j, all)
  BY <1>1 DEF Related
<1> QED
  BY <1>1, <1>2, <1>3 DEF Begins

\* The stretch before goes on with a turn that is related to its last one ...
LEMMA StretchGrows ==
    ASSUME NEW T, NEW h \in Seq(T), NEW e \in T, NEW all \in BOOLEAN, Len(h) > 0, e.continues,
           ~h[Len(h)].stopped, h[Len(h)].continues, h[Len(h)].state = e.state,
           all => h[Len(h)].action = e.action
    PROVE  Begins(Append(h, e), Len(h) + 1, all) = Begins(h, Len(h), all) \cup {Len(h) + 1}
<1> DEFINE n == Len(h)
           g == Append(h, e)
<1>0. n \in Nat /\ n > 0 /\ g[n + 1] = e /\ \A k \in 1 .. n : g[k] = h[k]
  OBVIOUS
<1> HIDE DEF n, g
<1>1. \A k \in 1 .. n : Related(g, k, n + 1, all) <=> Related(h, k, n, all)
  BY <1>0 DEF Related, n
<1>2. Related(g, n + 1, n + 1, all)
  BY <1>0 DEF Related
<1>3. ASSUME NEW i \in 1 .. n PROVE i \in Begins(g, n + 1, all) <=> i \in Begins(h, n, all)
  <2>1. i .. n + 1 = (i .. n) \cup {n + 1} /\ i .. (n + 1) - 1 = (i .. n - 1) \cup {n}
    BY <1>0
  <2>2. \A k \in i .. n : k \in 1 .. n
    BY <1>0
  <2>3. (\A k \in i .. n + 1 : Related(g, k, n + 1, all)) <=> \A k \in i .. n : Related(h, k, n, all)
    BY <1>1, <1>2, <2>1, <2>2
  <2>4. (\A k \in i .. (n + 1) - 1 : ~g[k].stopped) <=> \A k \in i .. n - 1 : ~h[k].stopped
    <3>1. ~g[n].stopped /\ n \in i .. n
      BY <1>0 DEF n
    <3>2. \A k \in 1 .. n : g[k].stopped = h[k].stopped
      BY <1>0
    <3> QED
      BY <1>0, <2>1, <2>2, <3>1, <3>2
  <2> QED
    BY <1>0, <2>3, <2>4 DEF Begins
<1>4. n + 1 \in Begins(g, n + 1, all)
  BY <1>0, <1>2 DEF Begins
<1>5. /\ Begins(g, n + 1, all) \subseteq 1 .. n + 1
      /\ Begins(h, n, all) \subseteq 1 .. n
  BY DEF Begins
<1> QED
  BY <1>0, <1>3, <1>4, <1>5 DEF n, g

\* ... and another one begins with a turn that is not.
LEMMA StretchBegins ==
    ASSUME NEW T, NEW h \in Seq(T), NEW e \in T, NEW all \in BOOLEAN, e.continues,
           \/ Len(h) = 0
           \/ h[Len(h)].stopped \/ ~h[Len(h)].continues \/ h[Len(h)].state # e.state
           \/ all /\ h[Len(h)].action # e.action
    PROVE  Begins(Append(h, e), Len(h) + 1, all) = {Len(h) + 1}
<1> DEFINE n == Len(h)
           g == Append(h, e)
<1>0. n \in Nat /\ g[n + 1] = e /\ \A k \in 1 .. n : g[k] = h[k]
  OBVIOUS
<1> HIDE DEF n, g
<1>1. n + 1 \in Begins(g, n + 1, all)
  BY <1>0 DEF Begins, Related
<1>2. ASSUME NEW i \in 1 .. n PROVE i \notin Begins(g, n + 1, all)
  <2>1. n \in i .. n + 1 /\ n \in i .. (n + 1) - 1 /\ n \in 1 .. n
    BY <1>0
  <2>2. g[n] = h[n] /\ (h[n].stopped \/ ~Related(g, n, n + 1, all))
    BY <1>0, <2>1 DEF Related, n
  <2> QED
    BY <2>1, <2>2 DEF Begins
<1>3. Begins(g, n + 1, all) \subseteq 1 .. n + 1
  BY DEF Begins
<1> QED
  BY <1>0, <1>1, <1>2, <1>3 DEF n, g

\* A turn that does not go on ends no stretch.
LEMMA StretchEnds ==
    ASSUME NEW T, NEW h \in Seq(T), NEW e \in T, NEW all \in BOOLEAN, ~e.continues
    PROVE  Begins(Append(h, e), Len(h) + 1, all) = {}
<1>1. Append(h, e)[Len(h) + 1] = e /\ \A i \in 1 .. Len(h) + 1 : Len(h) + 1 \in i .. Len(h) + 1
  OBVIOUS
<1> HIDE DEF Append
<1> QED
  BY <1>1 DEF Begins, Related

\* A continuing turn e would prolong the last stretch of h.
Prolongs(h, e, all) ==
    /\ Len(h) > 0 /\ ~h[Len(h)].stopped /\ h[Len(h)].continues
    /\ h[Len(h)].state = e.state /\ (all => h[Len(h)].action = e.action)

\* How long the stretches are.
LEMMA StretchLengths ==
    ASSUME NEW T, NEW h \in Seq(T), NEW e \in T, NEW all \in BOOLEAN,
           NEW on \in BOOLEAN, on <=> Prolongs(h, e, all)
    PROVE  /\ Cardinality(Begins(Append(h, e), Len(h) + 1, all)) =
                  IF ~e.continues THEN 0
                  ELSE IF on THEN Cardinality(Begins(h, Len(h), all)) + 1 ELSE 1
           /\ Cardinality(Begins(h, Len(h), all)) \in Nat
<1>1. Len(h) \in Nat /\ Len(h) + 1 \notin Begins(h, Len(h), all)
  BY DEF Begins
<1>2. IsFiniteSet(Begins(h, Len(h), all))
  <2>1. IsFiniteSet(1 .. Len(h)) /\ Begins(h, Len(h), all) \subseteq 1 .. Len(h)
    BY <1>1, FS_Interval DEF Begins
  <2> QED
    BY <2>1, FS_Subset
<1>3. /\ Cardinality(Begins(h, Len(h), all) \cup {Len(h) + 1})
         = Cardinality(Begins(h, Len(h), all)) + 1
      /\ Cardinality({Len(h) + 1}) = 1
      /\ Cardinality({}) = 0
  BY <1>1, <1>2, FS_AddElement, FS_Singleton, FS_EmptySet
<1>4. Cardinality(Begins(h, Len(h), all)) \in Nat
  BY <1>2, FS_CardinalityType
<1>5. CASE ~e.continues
  BY <1>3, <1>4, <1>5, StretchEnds
<1>6. CASE e.continues /\ on
  <2>1. Begins(Append(h, e), Len(h) + 1, all) = Begins(h, Len(h), all) \cup {Len(h) + 1}
    BY <1>6, StretchGrows DEF Prolongs
  <2> QED
    BY <1>3, <1>4, <1>6, <2>1
<1>7. CASE e.continues /\ ~on
  <2>1. \/ Len(h) = 0
        \/ h[Len(h)].stopped \/ ~h[Len(h)].continues \/ h[Len(h)].state # e.state
        \/ all /\ h[Len(h)].action # e.action
    BY <1>1, <1>7 DEF Prolongs
  <2>2. Begins(Append(h, e), Len(h) + 1, all) = {Len(h) + 1}
    BY <1>7, <2>1, StretchBegins
  <2> QED
    BY <1>3, <1>4, <1>7, <2>2
<1> QED
  BY <1>5, <1>6, <1>7

-----------------------------------------------------------------------------

\* The row has the lengths of the stretches that the last turn left open, both short of
\* their thresholds; if it has none, the last turn stopped or did not go on.
RowCounts ==
    LET n == Len(log)
    IN  IF guard.status = "observing" /\ guard.stagnant # 0
        THEN /\ n > 0 /\ log[n].continues /\ ~log[n].stopped
             /\ log[n].state = guard.state /\ log[n].action = guard.action
             /\ guard.repeated = Cardinality(Begins(log, n, TRUE))
             /\ guard.stagnant = Cardinality(Begins(log, n, FALSE))
             /\ guard.repeated < RepeatThreshold /\ guard.stagnant < StagnantThreshold
        ELSE /\ n > 0 => log[n].stopped \/ ~log[n].continues
             /\ guard.status = "observing" => guard.repeated = 0

GuardInv == Guard!TypeOK /\ RowCounts /\ \A j \in DOMAIN log : Watched(log, j)

LEMMA InitGuardInv == ASSUME Guard!GuardConstants, Guard!Init PROVE GuardInv
<1>1. Guard!TypeOK
  <2>1. RepeatThreshold \in Nat /\ StagnantThreshold \in Nat /\ log \in Seq(Guard!Turn)
    BY DEF Guard!GuardConstants, Guard!Init
  <2>2. 0 \in 0 .. RepeatThreshold /\ 0 \in 0 .. StagnantThreshold
    BY <2>1
  <2> QED
    BY <2>1, <2>2 DEF Guard!Init, Guard!TypeOK, Guard!Empty
<1>2. log = << >> /\ Len(log) = 0 /\ DOMAIN log = {}
  BY DEF Guard!Init
<1>3. guard.status # "observing"
  BY DEF Guard!Init, Guard!Empty
<1> QED
  BY <1>1, <1>2, <1>3 DEF GuardInv, RowCounts

\* A turn is completed as it should be if it is stopped exactly at a threshold.
LEMMA HistoryGoesOn ==
    ASSUME NEW T, NEW h \in Seq(T), NEW e \in T, \A j \in DOMAIN h : Watched(h, j),
           NEW g, g = Append(h, e),
           LET said   == Cardinality(Begins(g, Len(h) + 1, TRUE))
               stayed == Cardinality(Begins(g, Len(h) + 1, FALSE))
           IN  /\ said >= RepeatThreshold \/ stayed >= StagnantThreshold => e.stopped
               /\ e.stopped => said = RepeatThreshold \/ stayed = StagnantThreshold
    PROVE  \A j \in DOMAIN g : Watched(g, j)
<1> SUFFICES ASSUME NEW j \in DOMAIN g PROVE Watched(g, j)
  OBVIOUS
<1>1. g[Len(h) + 1] = e /\ DOMAIN g = 1 .. Len(h) + 1 /\ DOMAIN h = 1 .. Len(h) /\ Len(h) \in Nat
  OBVIOUS
<1>2. CASE j = Len(h) + 1
  BY <1>1, <1>2 DEF Watched
<1>3. CASE j # Len(h) + 1
  <2>1. j \in 1 .. Len(h)
    BY <1>1, <1>3
  <2>2. \A all \in BOOLEAN : Begins(g, j, all) = Begins(h, j, all) /\ g[j] = h[j]
    BY <2>1, StretchesStay
  <2>3. Watched(h, j)
    BY <1>1, <2>1
  <2> QED
    BY <2>2, <2>3 DEF Watched
<1> QED
  BY <1>2, <1>3

LEMMA CompleteContinuingKeeps ==
    ASSUME Guard!GuardConstants, GuardInv, NEW a \in Actions, Guard!CompleteContinuing(a)
    PROVE  GuardInv'
<1> DEFINE said   == Guard!Repeated(a)
           stayed == Guard!Stagnant
           stops  == Guard!Detected(said, stayed)
           e      == [continues |-> TRUE, state |-> state, action |-> a, stopped |-> stops]
           n      == Len(log)
           wasSaid   == Cardinality(Begins(log, n, TRUE))
           wasStayed == Cardinality(Begins(log, n, FALSE))
           nowSaid   == Cardinality(Begins(log', n + 1, TRUE))
           nowStayed == Cardinality(Begins(log', n + 1, FALSE))
<1>1. /\ guard' = [status |-> IF stops THEN "livelock_detected" ELSE "observing",
                   state |-> state, action |-> a, repeated |-> said, stagnant |-> stayed]
      /\ log' = Append(log, e) /\ state' = state
      /\ runStatus' \in {"running", "paused"} /\ resumed' = (resumed /\ ~stops)
  BY DEF Guard!CompleteContinuing
<1>2. log \in Seq(Guard!Turn) /\ e \in Guard!Turn /\ n \in Nat
  BY DEF GuardInv, Guard!TypeOK, Guard!Turn, Guard!Detected
<1>3. /\ RepeatThreshold \in Nat /\ StagnantThreshold \in Nat
      /\ 1 < RepeatThreshold /\ 1 < StagnantThreshold
  BY DEF Guard!GuardConstants
<1>4. guard.repeated \in Nat /\ guard.stagnant \in Nat
  BY <1>3 DEF GuardInv, Guard!TypeOK
<1> HIDE DEF e, n
<1>5. /\ nowSaid = said
      /\ nowStayed = stayed
      /\ said \in 1 .. RepeatThreshold /\ stayed \in 1 .. StagnantThreshold
  <2> DEFINE sameState == /\ n > 0 /\ ~log[n].stopped /\ log[n].continues
                          /\ log[n].state = state
             sameTurn  == sameState /\ log[n].action = a
  <2>1. /\ nowSaid = IF sameTurn THEN wasSaid + 1 ELSE 1
        /\ nowStayed = IF sameState THEN wasStayed + 1 ELSE 1
    <3>1. e.continues /\ e.state = state /\ e.action = a
      BY DEF e
    <3>2. nowSaid = IF ~e.continues THEN 0 ELSE IF sameTurn THEN wasSaid + 1 ELSE 1
      <4>1. sameTurn <=> Prolongs(log, e, TRUE)
        BY <3>1 DEF n, Prolongs
      <4>2. sameTurn \in BOOLEAN /\ TRUE \in BOOLEAN
        OBVIOUS
      <4> HIDE DEF sameTurn
      <4>3. Cardinality(Begins(Append(log, e), Len(log) + 1, TRUE))
            = IF ~e.continues THEN 0
              ELSE IF sameTurn THEN Cardinality(Begins(log, Len(log), TRUE)) + 1 ELSE 1
        BY <1>2, <4>1, <4>2, StretchLengths
      <4> QED
        BY <1>1, <4>3 DEF n
    <3>3. nowStayed = IF ~e.continues THEN 0 ELSE IF sameState THEN wasStayed + 1 ELSE 1
      <4>1. sameState <=> Prolongs(log, e, FALSE)
        BY <3>1 DEF n, Prolongs
      <4>2. sameState \in BOOLEAN /\ FALSE \in BOOLEAN
        OBVIOUS
      <4> HIDE DEF sameState
      <4>3. Cardinality(Begins(Append(log, e), Len(log) + 1, FALSE))
            = IF ~e.continues THEN 0
              ELSE IF sameState THEN Cardinality(Begins(log, Len(log), FALSE)) + 1 ELSE 1
        BY <1>2, <4>1, <4>2, StretchLengths
      <4> QED
        BY <1>1, <4>3 DEF n
    <3> QED
      BY <3>1, <3>2, <3>3
  <2>2. CASE guard.status = "observing" /\ guard.stagnant # 0
    <3>1. /\ n > 0 /\ log[n].continues /\ ~log[n].stopped
          /\ log[n].state = guard.state /\ log[n].action = guard.action
          /\ guard.repeated = wasSaid /\ guard.stagnant = wasStayed
          /\ guard.repeated < RepeatThreshold /\ guard.stagnant < StagnantThreshold
      BY <2>2 DEF GuardInv, RowCounts, n
    <3>2. /\ sameTurn <=> guard.state = state /\ guard.action = a
          /\ sameState <=> guard.state = state
      BY <3>1
    <3>3. /\ said = IF sameTurn THEN wasSaid + 1 ELSE 1
          /\ stayed = IF sameState THEN wasStayed + 1 ELSE 1
      BY <2>2, <3>1, <3>2
         DEF Guard!Repeated, Guard!Stagnant, Guard!Comparable, Guard!Saturated
    <3> HIDE DEF said, stayed, sameTurn, sameState, nowSaid, nowStayed, wasSaid, wasStayed
    <3> QED
      BY <1>3, <1>4, <2>1, <3>1, <3>3
  <2>3. CASE ~(guard.status = "observing" /\ guard.stagnant # 0)
    <3>1. /\ ~sameTurn /\ ~sameState
          /\ guard.status = "observing" => guard.repeated = 0 /\ guard.stagnant = 0
      BY <2>3 DEF GuardInv, RowCounts, n
    <3>2. said = 1 /\ stayed = 1
      BY <1>3, <3>1 DEF Guard!Repeated, Guard!Stagnant, Guard!Comparable, Guard!Saturated
    <3> HIDE DEF said, stayed, sameTurn, sameState, nowSaid, nowStayed, wasSaid, wasStayed
    <3> QED
      BY <1>3, <2>1, <3>1, <3>2
  <2> QED
    BY <2>2, <2>3
<1>6. stops <=> said = RepeatThreshold \/ stayed = StagnantThreshold
  BY <1>3, <1>5 DEF Guard!Detected
<1>7. Guard!TypeOK'
  <2>1. log' \in Seq(Guard!Turn)
    BY <1>1, <1>2
  <2>2. guard' \in [status   : {"missing", "observing", "livelock_detected"},
                    state    : States \cup {Guard!None},
                    action   : Actions \cup {Guard!None},
                    repeated : 0 .. RepeatThreshold,
                    stagnant : 0 .. StagnantThreshold]
    <3>1. state \in States /\ said \in 0 .. RepeatThreshold /\ stayed \in 0 .. StagnantThreshold
      BY <1>3, <1>5 DEF GuardInv, Guard!TypeOK
    <3> HIDE DEF said, stayed, stops
    <3> QED
      BY <1>1, <3>1
  <2> QED
    BY <1>1, <2>1, <2>2 DEF GuardInv, Guard!TypeOK, Guard!Turn
<1>8. RowCounts'
  <2>1. Len(log') = n + 1 /\ log'[n + 1] = e
    BY <1>1, <1>2 DEF n
  <2> HIDE DEF said, stayed, stops
  <2>2. /\ guard'.status = IF stops THEN "livelock_detected" ELSE "observing"
        /\ guard'.state = state /\ guard'.action = a
        /\ guard'.repeated = said /\ guard'.stagnant = stayed
    BY <1>1
  <2>3. e.continues /\ e.state = state /\ e.action = a /\ e.stopped = stops
    BY DEF e
  <2>4. CASE stops
    BY <2>1, <2>2, <2>3, <2>4 DEF RowCounts
  <2>5. CASE ~stops
    <3>1. /\ guard'.status = "observing" /\ guard'.stagnant # 0
          /\ guard'.repeated < RepeatThreshold /\ guard'.stagnant < StagnantThreshold
      BY <1>3, <1>5, <1>6, <2>2, <2>5
    <3>2. /\ guard'.repeated = nowSaid
          /\ guard'.stagnant = nowStayed
      BY <1>5, <2>2
    <3>3. Len(log') > 0
      BY <1>2, <2>1
    <3>4. /\ log'[n + 1].continues /\ ~log'[n + 1].stopped
          /\ log'[n + 1].state = guard'.state /\ log'[n + 1].action = guard'.action
      BY <2>1, <2>2, <2>3, <2>5
    <3> HIDE DEF nowSaid, nowStayed
    <3> QED
      BY <2>1, <3>1, <3>2, <3>3, <3>4 DEF RowCounts, nowSaid, nowStayed
  <2> QED
    BY <2>4, <2>5
<1>9. \A j \in DOMAIN log' : Watched(log', j)
  <2>1. e.stopped = stops
    BY DEF e
  <2> HIDE DEF said, stayed, stops
  <2>2. \A j \in DOMAIN log : Watched(log, j)
    BY DEF GuardInv
  <2> HIDE DEF nowSaid, nowStayed
  <2>3. /\ \/ nowSaid >= RepeatThreshold
           \/ nowStayed >= StagnantThreshold
           => e.stopped
        /\ e.stopped => \/ nowSaid = RepeatThreshold
                        \/ nowStayed = StagnantThreshold
    BY <1>3, <1>5, <1>6, <2>1
  <2> QED
    BY <1>1, <1>2, <2>2, <2>3, HistoryGoesOn DEF n, nowSaid, nowStayed
<1> QED
  BY <1>7, <1>8, <1>9 DEF GuardInv, Watched

LEMMA CompleteOtherwiseKeeps ==
    ASSUME Guard!GuardConstants, GuardInv,
           NEW outcome \in {"running", "paused", "completed"}, Guard!CompleteOtherwise(outcome)
    PROVE  GuardInv'
<1> DEFINE e == [continues |-> FALSE, state |-> Guard!None, action |-> Guard!None,
                 stopped |-> FALSE]
           n == Len(log)
           nowSaid   == Cardinality(Begins(log', n + 1, TRUE))
           nowStayed == Cardinality(Begins(log', n + 1, FALSE))
<1>1. /\ guard' = IF guard.status = "missing" THEN guard ELSE Guard!Empty("observing")
      /\ log' = Append(log, e) /\ state' = state /\ resumed' = resumed
      /\ runStatus' = outcome
  BY DEF Guard!CompleteOtherwise, Guard!ClearGuard
<1>2. log \in Seq(Guard!Turn) /\ e \in Guard!Turn /\ n \in Nat
  BY DEF GuardInv, Guard!TypeOK, Guard!Turn
<1>3. /\ RepeatThreshold \in Nat /\ StagnantThreshold \in Nat
      /\ 1 < RepeatThreshold /\ 1 < StagnantThreshold
  BY DEF Guard!GuardConstants
<1>4. /\ nowSaid = 0
      /\ nowStayed = 0
  <2>1. ~e.continues
    OBVIOUS
  <2> HIDE DEF e
  <2> QED
    BY <1>1, <1>2, <2>1, StretchEnds, FS_EmptySet
<1>5. Guard!TypeOK'
  <2>1. log' \in Seq(Guard!Turn)
    BY <1>1, <1>2
  <2> QED
    BY <1>1, <1>3, <2>1 DEF GuardInv, Guard!TypeOK, Guard!Turn, Guard!Empty, Guard!None
<1>6. RowCounts'
  <2>1. Len(log') = n + 1 /\ ~log'[n + 1].continues
    BY <1>1, <1>2
  <2>2. guard'.status = "observing" => guard'.repeated = 0 /\ guard'.stagnant = 0
    BY <1>1 DEF Guard!Empty
  <2> QED
    BY <2>1, <2>2 DEF RowCounts
<1>7. \A j \in DOMAIN log' : Watched(log', j)
  <2>1. ~e.stopped
    OBVIOUS
  <2> HIDE DEF e
  <2> HIDE DEF nowSaid, nowStayed
  <2>2. /\ ~(nowSaid >= RepeatThreshold)
        /\ ~(nowStayed >= StagnantThreshold)
    BY <1>3, <1>4
  <2>3. \A j \in DOMAIN log : Watched(log, j)
    BY DEF GuardInv
  <2> QED
    BY <1>1, <1>2, <2>1, <2>2, <2>3, HistoryGoesOn DEF nowSaid, nowStayed
<1> QED
  BY <1>5, <1>6, <1>7 DEF GuardInv, Watched

LEMMA NextGuardInv ==
    ASSUME Guard!GuardConstants, GuardInv, [Guard!Next]_(Guard!vars)
    PROVE  GuardInv'
<1>1. CASE /\ log' = log /\ guard' = guard
           /\ state' \in States /\ resumed' \in BOOLEAN
           /\ runStatus' \in {"running", "paused", "completed"}
  BY <1>1 DEF GuardInv, Guard!TypeOK, Guard!Turn, RowCounts, Watched
<1>2. CASE Guard!StateChanges
  BY <1>1, <1>2 DEF Guard!StateChanges, GuardInv, Guard!TypeOK
<1>3. CASE Guard!Pause
  BY <1>1, <1>3 DEF Guard!Pause, GuardInv, Guard!TypeOK
<1>4. CASE Guard!Resume
  BY <1>1, <1>4 DEF Guard!Resume, GuardInv, Guard!TypeOK
<1>5. CASE UNCHANGED Guard!vars
  BY <1>1, <1>5 DEF Guard!vars, GuardInv, Guard!TypeOK
<1> QED
  BY <1>2, <1>3, <1>4, <1>5, CompleteContinuingKeeps, CompleteOtherwiseKeeps DEF Guard!Next

LEMMA GuardInvHolds == ASSUME Guard!GuardConstants PROVE Guard!Spec => []GuardInv
BY InitGuardInv, NextGuardInv, PTL DEF Guard!Spec

\* advanceRunProgress stops the Run on the third turn in a row with the same action in the
\* same state and on the sixth in one state, however turns, pauses and changes of state are
\* interleaved, and it stops nobody else: a Run that was stopped gets a whole new window.
THEOREM OnlyLoopsAreEverStopped ==
    ASSUME Guard!GuardConstants PROVE Guard!Spec => []OnlyLoopsAreStopped
<1>1. GuardInv => OnlyLoopsAreStopped
  BY PromiseOfTheGuard DEF GuardInv
<1> QED
  BY <1>1, GuardInvHolds, PTL

\* The row of the guard and the history keep their types, and its two counts never exceed the
\* thresholds that the CHECK of the table compares them with.
THEOREM GuardTypes == ASSUME Guard!GuardConstants PROVE Guard!Spec => []Guard!TypeOK
<1>1. GuardInv => Guard!TypeOK
  BY DEF GuardInv
<1> QED
  BY <1>1, GuardInvHolds, PTL

-----------------------------------------------------------------------------
(* The monetary budget.                                                    *)

MoneyRow == [status : {"none", "reserved", "settled", "released"},
             amount : Costs \cup {0}, settled : Nat, released : Nat,
             model : Money!Models \cup {"none"}, table : 0 .. MaxTables]

\* What each row holds of the cap.
Held(rows) == [k \in Money!Keys |-> IF rows[k].status = "reserved" THEN rows[k].amount ELSE 0]

\* A caller that has a call under way has a number for it.
NumbersLeft ==
    \A c \in Callers : caller[c].pc \notin {"idle", "check"} => caller[c].calls < MaxCalls

\* The totals say what the rows hold, and that is no more than the cap.
TotalsAgree ==
    /\ Money!OpenMicros(usage) = Total(Held(reservation), Money!Keys)
    /\ Money!OpenMicros(usage) <= Cap

MoneyInv == Money!TypeOK /\ NumbersLeft /\ TotalsAgree

LEMMA UnionIsFinite ==
    ASSUME NEW S, NEW T, IsFiniteSet(S), IsFiniteSet(T) PROVE IsFiniteSet(S \cup T)
BY FS_Union

LEMMA KeysAreFinite == ASSUME Money!MoneyConstants PROVE IsFiniteSet(Money!Keys)
<1>1. MaxCalls * MaxTurns \in Nat
  BY DEF Money!MoneyConstants
<1>2. IsFiniteSet(Money!Numbers)
  BY <1>1, FS_Interval DEF Money!Numbers
<1>3. IsFiniteSet({Scope[c] : c \in Callers})
  <2>1. IsFiniteSet({"root", "specialist", "readonly_fanout"})
    <3>1. {"root", "specialist", "readonly_fanout"}
          = ({"root"} \cup {"specialist"}) \cup {"readonly_fanout"}
      OBVIOUS
    <3>2. IsFiniteSet({"root"}) /\ IsFiniteSet({"specialist"}) /\ IsFiniteSet({"readonly_fanout"})
      BY FS_Singleton
    <3>3. IsFiniteSet({"root"} \cup {"specialist"})
      BY <3>2, UnionIsFinite
    <3> QED
      BY <3>1, <3>2, <3>3, UnionIsFinite
  <2>2. {Scope[c] : c \in Callers} \subseteq {"root", "specialist", "readonly_fanout"}
    BY DEF Money!MoneyConstants
  <2> QED
    BY <2>1, <2>2, FS_Subset
<1> QED
  BY <1>2, <1>3, FS_Product DEF Money!Keys

LEMMA ProductBound ==
    ASSUME NEW m \in Nat, NEW t \in Nat, NEW s \in 1 .. t, NEW c \in 0 .. m - 1
    PROVE  /\ c + 1 \in 1 .. m * t
           /\ (s - 1) * m + c + 1 \in 1 .. m * t
<1>1. m * t \in Nat /\ (s - 1) * m \in Nat /\ (t - s) * m \in Nat /\ m * t = (s - 1) * m + m + (t - s) * m
  OBVIOUS
<1> QED
  BY <1>1

LEMMA KeysOfCallers ==
    ASSUME Money!MoneyConstants, Money!TypeOK, NumbersLeft, NEW c \in Callers,
           caller[c].pc \notin {"idle", "check"}
    PROVE  Money!Key(c) \in Money!Keys /\ Money!Number(c) \in Money!Numbers
<1>1. /\ MaxCalls \in Nat /\ MaxTurns \in Nat /\ caller[c].turn \in 1 .. MaxTurns
      /\ caller[c].calls \in 0 .. MaxCalls - 1
  BY DEF Money!MoneyConstants, Money!TypeOK, NumbersLeft
<1>2. Money!Number(c) \in Money!Numbers
  <2>1. /\ caller[c].calls + 1 \in 1 .. MaxCalls * MaxTurns
        /\ (caller[c].turn - 1) * MaxCalls + caller[c].calls + 1 \in 1 .. MaxCalls * MaxTurns
    BY <1>1, ProductBound
  <2> QED
    BY <2>1 DEF Money!Number, Money!Numbers
<1> QED
  BY <1>2 DEF Money!Key, Money!Keys

\* The sums of the ledger.
LEMMA SumOfAmounts ==
    ASSUME NEW S, IsFiniteSet(S), NEW rows, \A k \in S : rows[k].amount \in Int
    PROVE  MapThenSumSet(LAMBDA k : rows[k].amount, S) = Total([k \in S |-> rows[k].amount], S)
<1> DEFINE h == [k \in S |-> rows[k].amount]
           Good(it) == it = [T \in SUBSET S |-> IF T = {} THEN 0 ELSE
                LET x == CHOOSE x \in T : TRUE IN rows[x].amount + it[T \ {x}]]
           pick == [T \in SUBSET S |-> CHOOSE x \in T : TRUE]
<1>1. MapThenSumSet(LAMBDA k : rows[k].amount, S) = (CHOOSE it : Good(it))[S]
  BY DEF MapThenSumSet, MapThenFoldSet
<1>2. Picks(pick, S) /\ Numbers(h, S)
  BY DEF Picks, Numbers
<1>3. ASSUME NEW it PROVE Good(it) <=> Folds(h, pick, S, it)
  <2>1. ASSUME NEW T \in SUBSET S, T # {}
        PROVE  (LET x == CHOOSE x \in T : TRUE IN rows[x].amount + it[T \ {x}])
               = h[pick[T]] + it[T \ {pick[T]}]
    BY <2>1
  <2> QED
    BY <2>1 DEF Folds
<1> HIDE DEF h, Good, pick
<1>4. Good(CHOOSE it : Good(it))
  BY <1>2, <1>3, FoldIsTotal
<1> QED
  BY <1>1, <1>2, <1>3, <1>4, FoldIsTotal DEF h

LEMMA SumOfSettled ==
    ASSUME NEW S, IsFiniteSet(S), NEW rows, \A k \in S : rows[k].settled \in Int
    PROVE  Money!MapThenSumSet(LAMBDA k : rows[k].settled, S) = Total([k \in S |-> rows[k].settled], S)
<1> DEFINE h == [k \in S |-> rows[k].settled]
           Good(it) == it = [T \in SUBSET S |-> IF T = {} THEN 0 ELSE
                LET x == CHOOSE x \in T : TRUE IN rows[x].settled + it[T \ {x}]]
           pick == [T \in SUBSET S |-> CHOOSE x \in T : TRUE]
<1>1. Money!MapThenSumSet(LAMBDA k : rows[k].settled, S) = (CHOOSE it : Good(it))[S]
  BY DEF Money!MapThenSumSet, Money!MapThenFoldSet
<1>2. Picks(pick, S) /\ Numbers(h, S)
  BY DEF Picks, Numbers
<1>3. ASSUME NEW it PROVE Good(it) <=> Folds(h, pick, S, it)
  <2>1. ASSUME NEW T \in SUBSET S, T # {}
        PROVE  (LET x == CHOOSE x \in T : TRUE IN rows[x].settled + it[T \ {x}])
               = h[pick[T]] + it[T \ {pick[T]}]
    BY <2>1
  <2> QED
    BY <2>1 DEF Folds
<1> HIDE DEF h, Good, pick
<1>4. Good(CHOOSE it : Good(it))
  BY <1>2, <1>3, FoldIsTotal
<1> QED
  BY <1>1, <1>2, <1>3, <1>4, FoldIsTotal DEF h

LEMMA SumOfReleased ==
    ASSUME NEW S, IsFiniteSet(S), NEW rows, \A k \in S : rows[k].released \in Int
    PROVE  Money!MapThenSumSet(LAMBDA k : rows[k].released, S) = Total([k \in S |-> rows[k].released], S)
<1> DEFINE h == [k \in S |-> rows[k].released]
           Good(it) == it = [T \in SUBSET S |-> IF T = {} THEN 0 ELSE
                LET x == CHOOSE x \in T : TRUE IN rows[x].released + it[T \ {x}]]
           pick == [T \in SUBSET S |-> CHOOSE x \in T : TRUE]
<1>1. Money!MapThenSumSet(LAMBDA k : rows[k].released, S) = (CHOOSE it : Good(it))[S]
  BY DEF Money!MapThenSumSet, Money!MapThenFoldSet
<1>2. Picks(pick, S) /\ Numbers(h, S)
  BY DEF Picks, Numbers
<1>3. ASSUME NEW it PROVE Good(it) <=> Folds(h, pick, S, it)
  <2>1. ASSUME NEW T \in SUBSET S, T # {}
        PROVE  (LET x == CHOOSE x \in T : TRUE IN rows[x].released + it[T \ {x}])
               = h[pick[T]] + it[T \ {pick[T]}]
    BY <2>1
  <2> QED
    BY <2>1 DEF Folds
<1> HIDE DEF h, Good, pick
<1>4. Good(CHOOSE it : Good(it))
  BY <1>2, <1>3, FoldIsTotal
<1> QED
  BY <1>1, <1>2, <1>3, <1>4, FoldIsTotal DEF h

LEMMA HeldIsOpen ==
    ASSUME Money!MoneyConstants, Money!TypeOK
    PROVE  MapThenSumSet(LAMBDA k : reservation[k].amount,
                         {k \in DOMAIN reservation : reservation[k].status = "reserved"})
           = Total(Held(reservation), Money!Keys)
<1> DEFINE S == {k \in DOMAIN reservation : reservation[k].status = "reserved"}
           h == [k \in S |-> reservation[k].amount]
<1>1. S \in SUBSET Money!Keys /\ IsFiniteSet(Money!Keys) /\ IsFiniteSet(S)
  BY KeysAreFinite, FS_Subset DEF Money!TypeOK
<1>2. \A k \in Money!Keys : reservation[k].amount \in Int
  <2>1. Costs \cup {0} \subseteq Int
    BY DEF Money!MoneyConstants
  <2>2. \A k \in Money!Keys : reservation[k].amount \in Costs \cup {0}
    BY DEF Money!TypeOK
  <2> QED
    BY <2>1, <2>2
<1>3. Numbers(Held(reservation), Money!Keys) /\ Numbers(h, S)
  BY <1>1, <1>2 DEF Held, Numbers
<1>4. /\ \A k \in S : h[k] = Held(reservation)[k]
      /\ \A k \in Money!Keys \ S : Held(reservation)[k] = 0
  BY <1>1 DEF Held, Money!TypeOK
<1>5. Total(h, S) = Total(Held(reservation), S)
  BY <1>1, <1>3, <1>4, TotalAgrees
<1>6. Total(Held(reservation), Money!Keys) = Total(Held(reservation), S)
  BY <1>1, <1>3, <1>4, TotalIgnores
<1>7. MapThenSumSet(LAMBDA k : reservation[k].amount, S) = Total(h, S)
  BY <1>1, <1>2, SumOfAmounts
<1> QED
  BY <1>5, <1>6, <1>7

\* Rows that were open are closed, each for what it holds.
Closes(rows) ==
    /\ rows \in [Money!Keys -> MoneyRow]
    /\ \A k \in Money!Keys :
           \/ rows[k] = reservation[k]
           \/ /\ reservation[k].status = "reserved" /\ rows[k].status \in {"settled", "released"}
              /\ rows[k].settled + rows[k].released = reservation[k].amount

\* The totals follow.
LEMMA TotalsFollow ==
    ASSUME Money!MoneyConstants, Money!TypeOK, TotalsAgree, NEW rows, Closes(rows)
    PROVE  /\ Money!WithTotals(rows) \in [reserved : Nat, settled : Nat, released : Nat]
           /\ Money!OpenMicros(Money!WithTotals(rows)) = Total(Held(rows), Money!Keys)
           /\ Money!OpenMicros(Money!WithTotals(rows)) <= Cap
<1> DEFINE K == Money!Keys
           S == Money!Settling(rows)
           hs == [k \in S |-> rows[k].settled]
           hr == [k \in S |-> rows[k].released]
           gs == [k \in K |-> IF k \in S THEN rows[k].settled ELSE 0]
           gr == [k \in K |-> IF k \in S THEN rows[k].released ELSE 0]
           closed == [k \in K |-> gs[k] + gr[k]]
<1>1. S \in SUBSET K /\ IsFiniteSet(K) /\ IsFiniteSet(S)
  BY KeysAreFinite, FS_Subset DEF Money!Settling
<1>2. \A k \in K : /\ rows[k].settled \in Nat /\ rows[k].released \in Nat
                   /\ rows[k].amount \in Nat /\ reservation[k].amount \in Nat
  <2>1. Costs \cup {0} \subseteq Nat
    BY DEF Money!MoneyConstants
  <2>2. \A k \in K : reservation[k].amount \in Costs \cup {0} /\ rows[k] \in MoneyRow
    BY DEF Money!TypeOK, Closes
  <2> QED
    BY <2>1, <2>2 DEF MoneyRow
<1>3. /\ Numbers(gs, K) /\ Numbers(gr, K) /\ Numbers(closed, K)
      /\ Numbers(hs, S) /\ Numbers(hr, S)
      /\ Numbers(Held(rows), K) /\ Numbers(Held(reservation), K)
  BY <1>1, <1>2 DEF Numbers, Held
<1>4. \A k \in K : Held(reservation)[k] = Held(rows)[k] + closed[k] /\ closed[k] = gs[k] + gr[k]
  <2> SUFFICES ASSUME NEW k \in K PROVE Held(reservation)[k] = Held(rows)[k] + closed[k]
    OBVIOUS
  <2>1. CASE rows[k] = reservation[k]
    BY <1>2, <2>1 DEF Held, Money!Settling
  <2>2. CASE rows[k] # reservation[k]
    BY <1>2, <2>2 DEF Held, Money!Settling, Closes
  <2> QED
    BY <2>1, <2>2
<1>5. /\ \A k \in S : hs[k] = gs[k] /\ hr[k] = gr[k]
      /\ \A k \in K \ S : gs[k] = 0 /\ gr[k] = 0
      /\ \A k \in K : gs[k] \in Nat /\ gr[k] \in Nat
  BY <1>1, <1>2
<1>6. /\ Money!MapThenSumSet(LAMBDA k : rows[k].settled, S) = Total(hs, S)
      /\ Money!MapThenSumSet(LAMBDA k : rows[k].released, S) = Total(hr, S)
  <2>1. \A k \in S : rows[k].settled \in Int /\ rows[k].released \in Int
    BY <1>1, <1>2
  <2>2. Money!MapThenSumSet(LAMBDA k : rows[k].settled, S) = Total(hs, S)
    BY <1>1, <2>1, SumOfSettled
  <2>3. Money!MapThenSumSet(LAMBDA k : rows[k].released, S) = Total(hr, S)
    BY <1>1, <2>1, SumOfReleased
  <2> QED
    BY <2>2, <2>3
<1> HIDE DEF K, S, hs, hr, gs, gr, closed
<1>7. Total(hs, S) = Total(gs, K) /\ Total(hr, S) = Total(gr, K)
  <2>1. Total(hs, S) = Total(gs, S) /\ Total(hr, S) = Total(gr, S)
    BY <1>1, <1>3, <1>5, TotalAgrees
  <2>2. Total(gs, K) = Total(gs, S) /\ Total(gr, K) = Total(gr, S)
    BY <1>1, <1>3, <1>5, TotalIgnores
  <2> QED
    BY <2>1, <2>2
<1>8. Total(gs, K) \in Nat /\ Total(gr, K) \in Nat
  BY <1>1, <1>5, TotalIsNatural
<1>9. Total(closed, K) = Total(gs, K) + Total(gr, K)
  BY <1>1, <1>3, <1>4, TotalCombines
<1>10. Total(Held(reservation), K) = Total(Held(rows), K) + Total(closed, K)
  BY <1>1, <1>3, <1>4, TotalCombines
<1>11. Total(Held(rows), K) \in Int
  BY <1>1, <1>3, TotalAdds
<1>12. Money!WithTotals(rows) = [usage EXCEPT !.settled = @ + Total(gs, K),
                                             !.released = @ + Total(gr, K)]
  BY <1>6, <1>7 DEF Money!WithTotals, S
<1>13. usage \in [reserved : Nat, settled : Nat, released : Nat] /\ Cap \in Nat
  BY DEF Money!TypeOK, Money!MoneyConstants
<1> DEFINE u == Money!WithTotals(rows)
           ts == Total(gs, K)
           tr == Total(gr, K)
<1> HIDE DEF u, ts, tr
<1>14. /\ u \in [reserved : Nat, settled : Nat, released : Nat]
       /\ u.reserved = usage.reserved /\ u.settled = usage.settled + ts
       /\ u.released = usage.released + tr
  <2>1. ts \in Nat /\ tr \in Nat
    BY <1>8 DEF ts, tr
  <2>2. u = [usage EXCEPT !.settled = @ + ts, !.released = @ + tr]
    BY <1>12 DEF u, ts, tr
  <2>3. u = [reserved |-> usage.reserved, settled |-> usage.settled + ts,
             released |-> usage.released + tr]
    BY <1>13, <2>2
  <2>4. usage.settled + ts \in Nat /\ usage.released + tr \in Nat /\ usage.reserved \in Nat
    BY <1>13, <2>1
  <2> QED
    BY <2>3, <2>4
<1>15. /\ usage.reserved - usage.settled - usage.released = Total(Held(reservation), K)
       /\ usage.reserved - usage.settled - usage.released <= Cap
  BY DEF TotalsAgree, Money!OpenMicros, K
<1>16. /\ u.reserved - u.settled - u.released = Total(Held(rows), K)
       /\ u.reserved - u.settled - u.released <= Cap
  BY <1>8, <1>9, <1>10, <1>11, <1>13, <1>14, <1>15 DEF ts, tr
<1> QED
  BY <1>14, <1>16 DEF Money!OpenMicros, K, u

-----------------------------------------------------------------------------

LEMMA MoneyIsNatural ==
    ASSUME Money!MoneyConstants
    PROVE  Costs \cup {0} \subseteq Nat /\ \A row \in MoneyRow : row.amount \in Nat
<1>1. Costs \cup {0} \subseteq Nat
  BY DEF Money!MoneyConstants
<1>2. \A row \in MoneyRow : row.amount \in Costs \cup {0}
  BY DEF MoneyRow
<1> QED
  BY <1>1, <1>2

LEMMA InitMoneyInv == ASSUME Money!MoneyConstants, Money!Init PROVE MoneyInv
<1>1. /\ MaxCalls \in Nat \ {0} /\ MaxTurns \in Nat \ {0} /\ MaxTables \in Nat \ {0}
      /\ MaxFaults \in Nat /\ Cap \in Nat
  BY DEF Money!MoneyConstants
<1>2. Money!TypeOK
  <2>1. Money!NoReservation \in MoneyRow
    BY <1>1 DEF Money!NoReservation, MoneyRow
  <2>2. reservation \in [Money!Keys -> MoneyRow]
    BY <2>1 DEF Money!Init
  <2>3. event \in [Money!Numbers -> [type : {"none", "completed", "failed"},
                                     model : Money!Models \cup {"none"}, cost : Costs \cup {0}]]
    BY DEF Money!Init, Money!NoEvent
  <2>4. caller \in [Callers -> [pc : {"idle", "reserve", "view", "call", "settle", "release",
                                      "check"},
                                turn : 1 .. MaxTurns, calls : 0 .. MaxCalls,
                                amount : Costs \cup {0}, cost : Costs \cup {0}]]
    BY <1>1 DEF Money!Init, Money!Idle
  <2>5. /\ ended \in BOOLEAN /\ crashes \in 0 .. MaxFaults
        /\ table \in [number : 0 .. MaxTables, listed : BOOLEAN]
        /\ usage \in [reserved : Nat, settled : Nat, released : Nat]
    <3>1. 0 \in 0 .. MaxFaults /\ 1 \in 0 .. MaxTables
      BY <1>1
    <3> QED
      BY <3>1 DEF Money!Init
  <2> QED
    BY <2>2, <2>3, <2>4, <2>5 DEF Money!TypeOK, MoneyRow
<1>3. NumbersLeft
  BY DEF Money!Init, Money!Idle, NumbersLeft
<1>4. TotalsAgree
  <2>1. \A k \in Money!Keys : Held(reservation)[k] = 0
    BY DEF Held, Money!Init, Money!NoReservation
  <2>2. Numbers(Held(reservation), Money!Keys) /\ IsFiniteSet(Money!Keys)
    BY <2>1, KeysAreFinite DEF Numbers
  <2>3. Total(Held(reservation), Money!Keys) = Total(Held(reservation), {})
    BY <2>1, <2>2, TotalIgnores
  <2>4. usage.reserved - usage.settled - usage.released = 0
    BY DEF Money!Init
  <2> QED
    BY <1>1, <2>3, <2>4, TotalEmpty DEF TotalsAgree, Money!OpenMicros
<1> QED
  BY <1>2, <1>3, <1>4 DEF MoneyInv

\* A row is closed for what it holds.
LEMMA ClosedRow ==
    ASSUME Money!MoneyConstants, NEW row \in MoneyRow, NEW status \in {"settled", "released"},
           NEW part \in 0 .. row.amount
    PROVE  /\ Money!Closed(row, status, part) \in MoneyRow
           /\ Money!Closed(row, status, part).status = status
           /\ Money!Closed(row, status, part).settled
              + Money!Closed(row, status, part).released = row.amount
<1>1. row.amount \in Nat
  BY MoneyIsNatural
<1>2. part \in Nat /\ row.amount - part \in Nat /\ part + (row.amount - part) = row.amount
  BY <1>1
<1> DEFINE rest == row.amount - part
           new == [row EXCEPT !.status = status, !.settled = part, !.released = rest]
<1> HIDE DEF rest
<1>3. rest \in Nat /\ part + rest = row.amount
  BY <1>2 DEF rest
<1>4. new \in MoneyRow /\ new.status = status /\ new.settled = part /\ new.released = rest
  BY <1>2, <1>3 DEF MoneyRow
<1>5. Money!Closed(row, status, part) = new
  BY DEF Money!Closed, rest
<1> QED
  BY <1>3, <1>4, <1>5

LEMMA ChargeFits ==
    ASSUME Money!MoneyConstants, NEW row \in MoneyRow, NEW cost \in Costs \cup {0}
    PROVE  Money!Charge(row, cost) \in 0 .. row.amount
<1>1. row.amount \in Nat /\ cost \in Nat
  BY MoneyIsNatural
<1> QED
  BY <1>1 DEF Money!Charge, Money!Least

LEMMA RowsAreTyped ==
    ASSUME Money!TypeOK
    PROVE  /\ reservation \in [Money!Keys -> MoneyRow]
           /\ \A k \in Money!Keys : reservation[k] \in MoneyRow
BY DEF Money!TypeOK, MoneyRow

LEMMA ReconciliationCloses ==
    ASSUME Money!MoneyConstants, Money!TypeOK PROVE Closes(Money!ReconciledRows)
<1> SUFFICES ASSUME NEW k \in Money!Keys
             PROVE  /\ Money!Reconciled(k) \in MoneyRow
                    /\ \/ Money!Reconciled(k) = reservation[k]
                       \/ /\ reservation[k].status = "reserved"
                          /\ Money!Reconciled(k).status \in {"settled", "released"}
                          /\ Money!Reconciled(k).settled + Money!Reconciled(k).released
                             = reservation[k].amount
  BY DEF Closes, Money!ReconciledRows
<1> DEFINE row == reservation[k]
           e == event[k[2]]
<1>1. row \in MoneyRow /\ e.cost \in Costs \cup {0}
  <2>1. k[2] \in Money!Numbers
    BY DEF Money!Keys
  <2> QED
    BY <2>1, RowsAreTyped DEF Money!TypeOK
<1>2. 0 \in 0 .. row.amount
  BY <1>1, MoneyIsNatural
<1>3. Money!Charge(row, e.cost) \in 0 .. row.amount
  BY <1>1, ChargeFits
<1>4. CASE Money!Reconciled(k) = row
  BY <1>1, <1>4
<1>5. CASE Money!Open(k) /\ Money!Reconciled(k) = Money!Closed(row, "settled", Money!Charge(row, e.cost))
  BY <1>1, <1>3, <1>5, ClosedRow DEF Money!Open
<1>6. CASE Money!Open(k) /\ Money!Reconciled(k) = Money!Closed(row, "released", 0)
  BY <1>1, <1>2, <1>6, ClosedRow DEF Money!Open
<1> QED
  BY <1>4, <1>5, <1>6 DEF Money!Reconciled

\* One row is closed.
LEMMA ClosingOne ==
    ASSUME Money!MoneyConstants, Money!TypeOK, NEW k \in Money!Keys, Money!Open(k),
           NEW status \in {"settled", "released"}, NEW part \in 0 .. reservation[k].amount
    PROVE  Closes([reservation EXCEPT ![k] = Money!Closed(reservation[k], status, part)])
<1>1. /\ Money!Closed(reservation[k], status, part) \in MoneyRow
      /\ Money!Closed(reservation[k], status, part).status = status
      /\ Money!Closed(reservation[k], status, part).settled
         + Money!Closed(reservation[k], status, part).released = reservation[k].amount
  BY RowsAreTyped, ClosedRow
<1> QED
  BY <1>1, RowsAreTyped DEF Closes, Money!Open

\* What is left to show of a step that only closes rows.
LEMMA StepCloses ==
    ASSUME Money!MoneyConstants, MoneyInv, NEW rows, Closes(rows), reservation' = rows,
           usage' = Money!WithTotals(rows)
    PROVE  /\ TotalsAgree'
           /\ usage' \in [reserved : Nat, settled : Nat, released : Nat]
           /\ reservation' \in [Money!Keys -> MoneyRow]
BY TotalsFollow DEF MoneyInv, TotalsAgree, Closes, Held

LEMMA LedgerStays ==
    ASSUME MoneyInv, UNCHANGED <<usage, reservation>>
    PROVE  /\ TotalsAgree'
           /\ usage' \in [reserved : Nat, settled : Nat, released : Nat]
           /\ reservation' \in [Money!Keys -> MoneyRow]
BY RowsAreTyped DEF MoneyInv, TotalsAgree, Held, Money!TypeOK

CallerRow == [pc : {"idle", "reserve", "view", "call", "settle", "release", "check"},
              turn : 1 .. MaxTurns, calls : 0 .. MaxCalls,
              amount : Costs \cup {0}, cost : Costs \cup {0}]

\* What is left to show of the steps of a caller.
MovesOn(c) ==
    /\ caller' \in [Callers -> CallerRow]
    /\ \A d \in Callers \ {c} : caller'[d] = caller[d]
    /\ caller'[c].pc \notin {"idle", "check"} => caller'[c].calls < MaxCalls

LEMMA CallerMoves ==
    ASSUME Money!MoneyConstants, MoneyInv, NEW c \in Callers,
           NEW row \in CallerRow, row.pc \notin {"idle", "check"} => row.calls < MaxCalls,
           caller' = [caller EXCEPT ![c] = row]
    PROVE  MovesOn(c)
BY DEF MoneyInv, Money!TypeOK, CallerRow, MovesOn

LEMMA TurnEndsMoves ==
    ASSUME Money!MoneyConstants, MoneyInv, NEW c \in Callers, Money!TurnEnds(c)
    PROVE  MovesOn(c)
<1> DEFINE row == IF caller[c].turn < MaxTurns THEN Money!NextTurn(c)
                  ELSE [Money!NextTurn(c) EXCEPT !.turn = MaxTurns, !.calls = MaxCalls]
<1>1. /\ caller[c] \in CallerRow /\ MaxTurns \in Nat \ {0} /\ MaxCalls \in Nat \ {0}
  BY DEF MoneyInv, Money!TypeOK, CallerRow, Money!MoneyConstants
<1>2. row = [pc |-> "idle", calls |-> IF caller[c].turn < MaxTurns THEN 0 ELSE MaxCalls,
             turn |-> IF caller[c].turn < MaxTurns THEN caller[c].turn + 1 ELSE MaxTurns,
             amount |-> 0, cost |-> 0]
  BY <1>1 DEF Money!NextTurn, CallerRow
<1>3. row \in CallerRow /\ row.pc = "idle"
  <2>1. /\ caller[c].turn \in 1 .. MaxTurns
        /\ (IF caller[c].turn < MaxTurns THEN caller[c].turn + 1 ELSE MaxTurns) \in 1 .. MaxTurns
        /\ (IF caller[c].turn < MaxTurns THEN 0 ELSE MaxCalls) \in 0 .. MaxCalls
    BY <1>1 DEF CallerRow
  <2> HIDE DEF row
  <2> QED
    BY <1>2, <2>1 DEF CallerRow
<1>4. caller' = [caller EXCEPT ![c] = row]
  BY DEF Money!TurnEnds
<1> HIDE DEF row
<1> QED
  BY <1>3, <1>4, CallerMoves

LEMMA StepMoves ==
    ASSUME Money!MoneyConstants, MoneyInv, NEW c \in Callers,
           NEW pc \in {"idle", "reserve", "view", "call", "settle", "release", "check"},
           NEW amount \in Costs \cup {0}, NEW cost \in Costs \cup {0},
           NEW count \in 0 .. MaxCalls, pc \notin {"idle", "check"} => count < MaxCalls,
           caller' = [caller EXCEPT ![c].pc = pc, ![c].calls = count, ![c].amount = amount,
                                    ![c].cost = cost]
    PROVE  MovesOn(c)
<1> DEFINE row == [caller[c] EXCEPT !.pc = pc, !.calls = count, !.amount = amount, !.cost = cost]
<1>1. caller[c] \in CallerRow /\ caller \in [Callers -> CallerRow]
  BY DEF MoneyInv, Money!TypeOK, CallerRow
<1>2. row \in CallerRow /\ row.pc = pc /\ row.calls = count
  BY <1>1 DEF CallerRow
<1>3. caller' = [caller EXCEPT ![c] = row]
  BY <1>1 DEF CallerRow
<1> HIDE DEF row
<1> QED
  BY <1>2, <1>3, CallerMoves

-----------------------------------------------------------------------------

\* The row of a caller that moves and nothing else but the ledger changes.
LEMMA MoneyInvFollows ==
    ASSUME Money!MoneyConstants, MoneyInv, NEW c \in Callers, MovesOn(c), TotalsAgree',
           usage' \in [reserved : Nat, settled : Nat, released : Nat],
           reservation' \in [Money!Keys -> MoneyRow],
           event' = event \/ event' \in [Money!Numbers ->
               [type : {"none", "completed", "failed"},
                model : Money!Models \cup {"none"}, cost : Costs \cup {0}]],
           ended' \in BOOLEAN, crashes' \in 0 .. MaxFaults,
           table' = table
    PROVE  MoneyInv'
<1>1. NumbersLeft'
  BY DEF MoneyInv, NumbersLeft, MovesOn
<1>2. Money!TypeOK'
  BY DEF MoneyInv, Money!TypeOK, MovesOn, MoneyRow, CallerRow
<1> QED
  BY <1>1, <1>2 DEF MoneyInv

LEMMA CallerFacts ==
    ASSUME Money!MoneyConstants, MoneyInv, NEW c \in Callers
    PROVE  /\ caller \in [Callers -> CallerRow] /\ caller[c] \in CallerRow
           /\ ended \in BOOLEAN /\ crashes \in 0 .. MaxFaults
           /\ caller[c].pc \notin {"idle", "check"} =>
                /\ caller[c].calls < MaxCalls /\ caller[c].calls + 1 \in 0 .. MaxCalls
                /\ Money!Key(c) \in Money!Keys /\ Money!Number(c) \in Money!Numbers
           /\ MaxCalls \in Nat /\ caller[c].calls \in 0 .. MaxCalls
<1>1. /\ caller \in [Callers -> CallerRow] /\ caller[c] \in CallerRow
      /\ ended \in BOOLEAN /\ crashes \in 0 .. MaxFaults
      /\ MaxCalls \in Nat /\ caller[c].calls \in 0 .. MaxCalls
  BY DEF MoneyInv, Money!TypeOK, CallerRow, Money!MoneyConstants
<1>2. ASSUME caller[c].pc \notin {"idle", "check"}
      PROVE  /\ caller[c].calls < MaxCalls /\ caller[c].calls + 1 \in 0 .. MaxCalls
             /\ Money!Key(c) \in Money!Keys /\ Money!Number(c) \in Money!Numbers
  <2>1. caller[c].calls < MaxCalls
    BY <1>2 DEF MoneyInv, NumbersLeft
  <2> QED
    BY <1>1, <1>2, <2>1, KeysOfCallers DEF MoneyInv
<1> QED
  BY <1>1, <1>2

\* Only the program counter and the amount change.
LEMMA StepIsAMove ==
    ASSUME Money!MoneyConstants, MoneyInv, NEW c \in Callers,
           NEW pc \in {"idle", "reserve", "view", "call", "settle", "release", "check"},
           NEW amount \in Costs \cup {0},
           caller[c].pc \notin {"idle", "check"} \/ caller[c].calls < MaxCalls
           \/ pc \in {"idle", "check"},
           caller' = [caller EXCEPT ![c].pc = pc, ![c].amount = amount]
    PROVE  MovesOn(c)
<1>1. caller[c] \in CallerRow /\ caller \in [Callers -> CallerRow]
  BY CallerFacts
<1>2. caller[c].calls \in 0 .. MaxCalls /\ caller[c].cost \in Costs \cup {0}
  BY <1>1 DEF CallerRow
<1>3. caller' = [caller EXCEPT ![c].pc = pc, ![c].calls = caller[c].calls, ![c].amount = amount,
                               ![c].cost = caller[c].cost]
  BY <1>1 DEF CallerRow
<1>4. pc \notin {"idle", "check"} => caller[c].calls < MaxCalls
  BY CallerFacts
<1> QED
  BY <1>2, <1>3, <1>4, StepMoves

LEMMA BeginKeeps ==
    ASSUME Money!MoneyConstants, MoneyInv, NEW c \in Callers, Money!Begin(c) PROVE MoneyInv'
<1>1. PICK amount \in Costs : caller' = [caller EXCEPT ![c].pc = "reserve", ![c].amount = amount]
  BY DEF Money!Begin
<1>2. /\ caller[c].calls < MaxCalls
      /\ UNCHANGED <<ended, table, usage, reservation, event, crashes>>
  BY DEF Money!Begin
<1>3. MovesOn(c)
  BY <1>1, <1>2, StepIsAMove
<1> QED
  BY <1>2, <1>3, LedgerStays, CallerFacts, MoneyInvFollows

LEMMA ReserveKeeps ==
    ASSUME Money!MoneyConstants, MoneyInv, NEW c \in Callers, Money!Reserve(c) PROVE MoneyInv'
<1> DEFINE k == Money!Key(c)
           rows == Money!ReconciledRows
           u == Money!WithTotals(rows)
           amount == caller[c].amount
           new == [Money!NoReservation EXCEPT !.status = "reserved", !.amount = amount,
                                              !.model = Model[c], !.table = table.number]
<1>1. caller[c].pc = "reserve" /\ UNCHANGED <<ended, table, event, crashes>>
  BY DEF Money!Reserve
<1>2. Money!Key(c) \in Money!Keys
  BY <1>1, CallerFacts
<1>3. Closes(rows)
  BY ReconciliationCloses DEF MoneyInv
<1>4. CASE UNCHANGED <<usage, reservation>> /\ MovesOn(c)
  BY <1>1, <1>4, LedgerStays, CallerFacts, MoneyInvFollows
<1>5. CASE Money!Reconcile /\ MovesOn(c)
  BY <1>1, <1>3, <1>5, StepCloses, CallerFacts, MoneyInvFollows DEF Money!Reconcile
<1>6. CASE /\ Money!Reconciled(k).status = "none" /\ Money!Fits(u, amount)
           /\ reservation' = [rows EXCEPT ![k] = new]
           /\ usage' = [u EXCEPT !.reserved = @ + amount]
           /\ MovesOn(c)
  <2> DEFINE next == [rows EXCEPT ![k] = new]
  <2>1. /\ u \in [reserved : Nat, settled : Nat, released : Nat]
        /\ Money!OpenMicros(u) = Total(Held(rows), Money!Keys)
        /\ rows \in [Money!Keys -> MoneyRow]
    BY <1>3, TotalsFollow DEF MoneyInv, Closes
  <2>2. amount \in Costs \cup {0} /\ amount \in Nat /\ Cap \in Nat
    BY CallerFacts, MoneyIsNatural DEF CallerRow, Money!MoneyConstants
  <2>3. new \in MoneyRow /\ new.status = "reserved" /\ new.amount = amount
    <3>1. Model[c] \in Money!Models /\ table.number \in 0 .. MaxTables
      BY DEF Money!Models, MoneyInv, Money!TypeOK
    <3> QED
      BY <2>2, <3>1 DEF MoneyRow, Money!NoReservation
  <2>4. next \in [Money!Keys -> MoneyRow]
    BY <2>1, <2>3
  <2>5. rows[k].status = "none"
    BY <1>2, <1>6 DEF Money!ReconciledRows
  <2> HIDE DEF new, rows, u
  <2>6. /\ Numbers(Held(rows), Money!Keys) /\ Numbers(Held(next), Money!Keys)
        /\ IsFiniteSet(Money!Keys)
    <3>1. \A x \in Money!Keys : rows[x].amount \in Int /\ next[x].amount \in Int
      BY <2>1, <2>4, MoneyIsNatural
    <3> QED
      BY <3>1, KeysAreFinite DEF Held, Numbers
  <2>7. /\ \A x \in Money!Keys \ {k} : Held(rows)[x] = Held(next)[x]
        /\ Held(rows)[k] = 0 /\ Held(next)[k] = amount
    BY <1>2, <2>1, <2>3, <2>5 DEF Held
  <2>8. Total(Held(next), Money!Keys) = Total(Held(rows), Money!Keys) + amount
    <3> DEFINE before == Held(rows)
               after  == Held(next)
    <3> HIDE DEF before, after, next, k
    <3>1. Total(after, Money!Keys) = (Total(before, Money!Keys) - before[k]) + after[k]
      BY <1>2, <2>6, <2>7, TotalChanges DEF before, after, k
    <3>2. Total(before, Money!Keys) \in Int /\ before[k] = 0 /\ after[k] = amount
      BY <2>6, <2>7, TotalAdds DEF before, after
    <3> QED
      BY <2>2, <3>1, <3>2 DEF before, after
  <2>9. /\ usage' \in [reserved : Nat, settled : Nat, released : Nat]
        /\ usage'.reserved = u.reserved + amount /\ usage'.settled = u.settled
        /\ usage'.released = u.released
    BY <1>6, <2>1, <2>2
  <2>10. TotalsAgree'
    <3>1. /\ u.reserved - u.settled - u.released = Total(Held(rows), Money!Keys)
          /\ u.reserved - u.settled - u.released <= Cap - amount
      BY <1>6, <2>1 DEF Money!OpenMicros, Money!Fits
    <3>2. /\ usage'.reserved - usage'.settled - usage'.released
             = (u.reserved - u.settled - u.released) + amount
          /\ usage'.reserved - usage'.settled - usage'.released <= Cap
      BY <2>1, <2>2, <2>9, <3>1
    <3>3. Held(reservation)' = Held(next)
      BY <1>6 DEF Held
    <3> QED
      BY <2>8, <3>1, <3>2, <3>3 DEF TotalsAgree, Money!OpenMicros
  <2> QED
    BY <1>1, <1>6, <2>4, <2>9, <2>10, CallerFacts, MoneyInvFollows
<1>7. /\ Money!TurnEnds(c) => MovesOn(c)
      /\ \A pc \in {"idle", "call", "view"} : Money!Step(c, pc) => MovesOn(c)
  BY <1>1, TurnEndsMoves, StepIsAMove DEF Money!Step
<1> QED
  BY <1>4, <1>5, <1>6, <1>7 DEF Money!Reserve, Money!Refuse

LEMMA ViewKeeps ==
    ASSUME Money!MoneyConstants, MoneyInv, NEW c \in Callers, Money!View(c) PROVE MoneyInv'
<1>1. /\ caller[c].pc \in {"view", "check"} /\ Money!Reconcile
      /\ UNCHANGED <<ended, table, event, crashes>>
  BY DEF Money!View
<1>2. MovesOn(c)
  <2>1. CASE Money!TurnEnds(c)
    BY <2>1, TurnEndsMoves
  <2>2. CASE caller[c].pc = "view" /\ Money!Step(c, "call")
    BY <2>2, StepIsAMove DEF Money!Step
  <2>3. CASE caller' = [caller EXCEPT ![c].pc = "idle"]
    <3>1. caller[c] \in CallerRow /\ caller[c].amount \in Costs \cup {0} /\ caller \in [Callers -> CallerRow]
      BY CallerFacts DEF CallerRow
    <3>2. caller' = [caller EXCEPT ![c].pc = "idle", ![c].amount = caller[c].amount]
      BY <2>3, <3>1 DEF CallerRow
    <3> QED
      BY <3>1, <3>2, StepIsAMove
  <2> QED
    BY <1>1, <2>1, <2>2, <2>3 DEF Money!View
<1>3. Closes(Money!ReconciledRows)
  BY ReconciliationCloses DEF MoneyInv
<1> QED
  BY <1>1, <1>2, <1>3, StepCloses, CallerFacts, MoneyInvFollows DEF Money!Reconcile

LEMMA CallKeeps ==
    ASSUME Money!MoneyConstants, MoneyInv, NEW c \in Callers, Money!Call(c) PROVE MoneyInv'
<1>1. caller[c].pc = "call" /\ UNCHANGED <<ended, table, usage, reservation, crashes>>
  BY DEF Money!Call
<1>2. PICK cost \in Costs, type \in {"completed", "failed"} :
        /\ IF Scope[c] = "readonly_fanout" THEN UNCHANGED event
           ELSE event' = [event EXCEPT ![Money!Number(c)] =
                              [type |-> type, model |-> Model[c],
                               cost |-> IF type = "completed" THEN cost ELSE 0]]
        /\ IF type = "completed"
           THEN caller' = [caller EXCEPT ![c].pc = "settle", ![c].cost = cost]
           ELSE IF Scope[c] = "readonly_fanout" THEN Money!TurnEnds(c)
           ELSE Money!Step(c, "release")
  BY DEF Money!Call
<1>3. caller[c] \in CallerRow /\ caller \in [Callers -> CallerRow] /\ caller[c].calls < MaxCalls
  BY <1>1, CallerFacts
<1>4. MovesOn(c)
  <2>1. CASE Money!TurnEnds(c)
    BY <2>1, TurnEndsMoves
  <2>2. CASE Money!Step(c, "release")
    BY <1>1, <2>2, StepIsAMove DEF Money!Step
  <2>3. CASE caller' = [caller EXCEPT ![c].pc = "settle", ![c].cost = cost]
    <3>1. caller' = [caller EXCEPT ![c].pc = "settle", ![c].calls = caller[c].calls,
                                   ![c].amount = caller[c].amount, ![c].cost = cost]
      BY <1>3, <2>3 DEF CallerRow
    <3>2. caller[c].calls \in 0 .. MaxCalls /\ caller[c].amount \in Costs \cup {0}
      BY <1>3 DEF CallerRow
    <3> QED
      BY <1>3, <3>1, <3>2, StepMoves
  <2> QED
    BY <1>2, <2>1, <2>2, <2>3
<1>5. \/ event' = event
      \/ event' \in [Money!Numbers -> [type : {"none", "completed", "failed"},
                                       model : Money!Models \cup {"none"}, cost : Costs \cup {0}]]
  BY <1>2 DEF MoneyInv, Money!TypeOK, Money!Models
<1> QED
  BY <1>1, <1>4, <1>5, LedgerStays, CallerFacts, MoneyInvFollows

LEMMA SettleKeeps ==
    ASSUME Money!MoneyConstants, MoneyInv, NEW c \in Callers, Money!Settle(c) PROVE MoneyInv'
<1> DEFINE k == Money!Key(c)
           charge == Money!Charge(reservation[k], caller[c].cost)
           rows == [reservation EXCEPT ![k] = Money!Closed(reservation[k], "settled", charge)]
<1>1. caller[c].pc = "settle" /\ UNCHANGED <<ended, table, event, crashes>>
  BY DEF Money!Settle
<1>2. /\ k \in Money!Keys /\ caller[c] \in CallerRow /\ caller \in [Callers -> CallerRow]
      /\ caller[c].calls + 1 \in 0 .. MaxCalls
  BY <1>1, CallerFacts
<1>3. MovesOn(c)
  <2>1. CASE Money!TurnEnds(c)
    BY <2>1, TurnEndsMoves
  <2>2. CASE caller' = [caller EXCEPT ![c].pc = "check", ![c].calls = Money!Calls(c), ![c].cost = 0]
    <3>1. caller' = [caller EXCEPT ![c].pc = "check", ![c].calls = caller[c].calls + 1,
                                   ![c].amount = caller[c].amount, ![c].cost = 0]
      BY <1>2, <2>2 DEF CallerRow, Money!Calls
    <3>2. caller[c].amount \in Costs \cup {0}
      BY <1>2 DEF CallerRow
    <3> QED
      BY <1>2, <3>1, <3>2, StepMoves
  <2> QED
    BY <2>1, <2>2 DEF Money!Settle
<1>4. \/ UNCHANGED <<usage, reservation>>
      \/ Closes(rows) /\ reservation' = rows /\ usage' = Money!WithTotals(rows)
  <2>1. reservation[k] \in MoneyRow /\ caller[c].cost \in Costs \cup {0}
    BY <1>2, RowsAreTyped DEF MoneyInv, CallerRow
  <2>2. charge \in 0 .. reservation[k].amount
    BY <2>1, ChargeFits
  <2>3. Money!MayClose(k) => Closes(rows)
    BY <1>2, <2>2, ClosingOne DEF Money!MayClose, MoneyInv
  <2> QED
    BY <2>3 DEF Money!Settle
<1> QED
  BY <1>1, <1>3, <1>4, StepCloses, LedgerStays, CallerFacts, MoneyInvFollows

LEMMA ReleaseKeeps ==
    ASSUME Money!MoneyConstants, MoneyInv, NEW c \in Callers, Money!Release(c) PROVE MoneyInv'
<1> DEFINE k == Money!Key(c)
           rows == [reservation EXCEPT ![k] = Money!Closed(reservation[k], "released", 0)]
<1>1. caller[c].pc = "release" /\ UNCHANGED <<ended, table, event, crashes>>
  BY DEF Money!Release
<1>2. /\ k \in Money!Keys /\ caller[c] \in CallerRow /\ caller \in [Callers -> CallerRow]
      /\ caller[c].calls + 1 \in 0 .. MaxCalls
  BY <1>1, CallerFacts
<1>3. MovesOn(c)
  <2>1. caller' = [caller EXCEPT ![c].pc = "idle", ![c].calls = caller[c].calls + 1,
                                 ![c].amount = caller[c].amount, ![c].cost = caller[c].cost]
    BY <1>2 DEF CallerRow, Money!Calls, Money!Release
  <2>2. caller[c].amount \in Costs \cup {0} /\ caller[c].cost \in Costs \cup {0}
    BY <1>2 DEF CallerRow
  <2> QED
    BY <1>2, <2>1, <2>2, StepMoves
<1>4. \/ UNCHANGED <<usage, reservation>>
      \/ Closes(rows) /\ reservation' = rows /\ usage' = Money!WithTotals(rows)
  <2>1. reservation[k] \in MoneyRow
    BY <1>2, RowsAreTyped DEF MoneyInv
  <2>2. 0 \in 0 .. reservation[k].amount
    BY <2>1, MoneyIsNatural
  <2>3. Money!MayClose(k) => Closes(rows)
    BY <1>2, <2>2, ClosingOne DEF Money!MayClose, MoneyInv
  <2> QED
    BY <2>3 DEF Money!Release
<1> QED
  BY <1>1, <1>3, <1>4, StepCloses, LedgerStays, CallerFacts, MoneyInvFollows

LEMMA CrashKeeps ==
    ASSUME Money!MoneyConstants, MoneyInv, NEW c \in Callers, Money!Crash(c) PROVE MoneyInv'
<1>1. /\ crashes < MaxFaults /\ crashes' = crashes + 1 /\ caller[c].pc # "idle"
      /\ UNCHANGED <<ended, table, usage, reservation, event>>
  BY DEF Money!Crash
<1>2. crashes' \in 0 .. MaxFaults
  BY <1>1 DEF MoneyInv, Money!TypeOK, Money!MoneyConstants
<1>3. MovesOn(c)
  <2>1. CASE Money!TurnEnds(c)
    BY <2>1, TurnEndsMoves
  <2> DEFINE count == IF Money!Started(c) /\ caller[c].pc # "check" THEN Money!Calls(c)
                      ELSE caller[c].calls
  <2>2. CASE caller' = [caller EXCEPT ![c].pc = "idle", ![c].amount = 0, ![c].cost = 0,
                                      ![c].calls = count]
    <3>1. count \in 0 .. MaxCalls
      BY <1>1, CallerFacts DEF Money!Calls
    <3>2. caller[c] \in CallerRow /\ caller \in [Callers -> CallerRow]
      BY CallerFacts
    <3> HIDE DEF count
    <3>3. caller' = [caller EXCEPT ![c].pc = "idle", ![c].calls = count, ![c].amount = 0,
                                   ![c].cost = 0]
      BY <2>2, <3>2 DEF CallerRow
    <3> QED
      BY <3>1, <3>3, StepMoves
  <2> QED
    BY <2>1, <2>2 DEF Money!Crash
<1> QED
  BY <1>1, <1>2, <1>3, LedgerStays, CallerFacts, MoneyInvFollows

\* The operators.
LEMMA OthersKeepTheLedger ==
    ASSUME Money!MoneyConstants, MoneyInv,
           \/ \E listed \in BOOLEAN : Money!Import(listed)
           \/ Money!Look \/ Money!EndRun \/ Money!ReleaseOpen
           \/ UNCHANGED Money!vars
    PROVE  MoneyInv'
<1>1. /\ UNCHANGED <<event, caller, crashes>>
      /\ ended' \in BOOLEAN
      /\ table' \in [number : 0 .. MaxTables, listed : BOOLEAN]
  <2>1. /\ table \in [number : 0 .. MaxTables, listed : BOOLEAN] /\ ended \in BOOLEAN
        /\ MaxTables \in Nat
    BY DEF MoneyInv, Money!TypeOK, Money!MoneyConstants
  <2>2. ASSUME NEW listed \in BOOLEAN, Money!Import(listed)
        PROVE  table' \in [number : 0 .. MaxTables, listed : BOOLEAN]
    <3>1. table' = [number |-> table.number + 1, listed |-> listed] /\ table.number < MaxTables
      BY <2>2 DEF Money!Import
    <3>2. table.number + 1 \in 0 .. MaxTables
      BY <2>1, <3>1
    <3> QED
      BY <3>1, <3>2
  <2> QED
    BY <2>1, <2>2 DEF Money!Import, Money!Look, Money!EndRun, Money!ReleaseOpen, Money!vars
<1>2. /\ TotalsAgree'
      /\ usage' \in [reserved : Nat, settled : Nat, released : Nat]
      /\ reservation' \in [Money!Keys -> MoneyRow]
  <2>1. CASE UNCHANGED <<usage, reservation>>
    BY <2>1, LedgerStays
  <2>2. CASE Money!Look
    BY <2>2, ReconciliationCloses, StepCloses DEF Money!Look, Money!Reconcile, MoneyInv
  <2>3. CASE Money!ReleaseOpen
    <3> DEFINE rows == [k \in Money!Keys |->
                            IF Money!Open(k) THEN Money!Closed(reservation[k], "released", 0)
                            ELSE reservation[k]]
    <3>1. ASSUME NEW k \in Money!Keys, Money!Open(k)
          PROVE  /\ rows[k] \in MoneyRow
                 /\ rows[k].status \in {"settled", "released"}
                 /\ rows[k].settled + rows[k].released = reservation[k].amount
      <4>1. reservation[k] \in MoneyRow
        BY RowsAreTyped DEF MoneyInv
      <4>2. 0 \in 0 .. reservation[k].amount
        BY <4>1, MoneyIsNatural
      <4> QED
        BY <3>1, <4>1, <4>2, ClosedRow
    <3>2. ASSUME NEW k \in Money!Keys, ~Money!Open(k)
          PROVE  rows[k] \in MoneyRow /\ rows[k] = reservation[k]
      BY <3>2, RowsAreTyped DEF MoneyInv
    <3>3. DOMAIN rows = Money!Keys /\ rows = [k \in Money!Keys |-> rows[k]]
      OBVIOUS
    <3>4. reservation' = rows /\ usage' = Money!WithTotals(rows)
      BY <2>3 DEF Money!ReleaseOpen
    <3> HIDE DEF rows
    <3>5. Closes(rows)
      BY <3>1, <3>2, <3>3 DEF Closes, Money!Open
    <3> QED
      BY <3>4, <3>5, StepCloses
  <2> QED
    BY <2>1, <2>2, <2>3 DEF Money!Import, Money!EndRun, Money!vars
<1>3. Money!TypeOK'
  BY <1>1, <1>2 DEF MoneyInv, Money!TypeOK, MoneyRow
<1>4. NumbersLeft'
  BY <1>1 DEF MoneyInv, NumbersLeft
<1> QED
  BY <1>2, <1>3, <1>4 DEF MoneyInv

LEMMA NextMoneyInv ==
    ASSUME Money!MoneyConstants, MoneyInv, [Money!Next]_(Money!vars) PROVE MoneyInv'
BY BeginKeeps, ReserveKeeps, ViewKeeps, CallKeeps, SettleKeeps, ReleaseKeeps, CrashKeeps,
   OthersKeepTheLedger DEF Money!Next

LEMMA MoneyInvHolds == ASSUME Money!MoneyConstants PROVE Money!Spec => []MoneyInv
BY InitMoneyInv, NextMoneyInv, PTL DEF Money!Spec

\* ReserveRunMonetary admits no call over the cap: what the rows say is reserved and neither
\* settled nor released is never more than the cap, whatever calls, settlements, releases,
\* reconciliations, crashes and the end of the Run are interleaved.
THEOREM OpenIsAlwaysCapped == ASSUME Money!MoneyConstants PROVE Money!Spec => []OpenIsCapped
<1>1. MoneyInv => OpenIsCapped
  BY HeldIsOpen DEF MoneyInv, TotalsAgree, OpenIsCapped
<1> QED
  BY <1>1, MoneyInvHolds, PTL

THEOREM MoneyTypes == ASSUME Money!MoneyConstants PROVE Money!Spec => []Money!TypeOK
<1>1. MoneyInv => Money!TypeOK
  BY DEF MoneyInv
<1> QED
  BY <1>1, MoneyInvHolds, PTL

-----------------------------------------------------------------------------
(* The fan-out.                                                            *)

CallRow == [status : {"started", "completed", "failed", "cancelled", "abandoned"},
            charge : Usages \cup {ShardTokens}]

\* What counts of a call, as it is charged and as it is promised.
Charges(q) == [n \in DOMAIN q |-> q[n].charge]
Counts(q)  == [n \in DOMAIN q |-> IF q[n].charge < ShardTokens THEN q[n].charge ELSE ShardTokens]

Capped(cs) == Total([s \in Shards |-> SumUp(Counts(cs[s]))], Shards)
Full(cs)   == Total([s \in Shards |-> SumUp(Charges(cs[s]))], Shards)

LEMMA ChargesAreNatural ==
    ASSUME Fanout!FanoutConstants
    PROVE  /\ ShardTokens \in Nat /\ Budget \in Nat /\ IsFiniteSet(Shards) /\ MaxGeneration \in Nat
           /\ MaxFaults \in Nat /\ MaxAttempts \in Nat
           /\ Usages \cup {ShardTokens} \subseteq Nat
<1>1. /\ ShardTokens \in Nat /\ Budget \in Nat /\ MaxGeneration \in Nat
      /\ MaxFaults \in Nat /\ MaxAttempts \in Nat
  BY DEF Fanout!FanoutConstants
<1>2. IsFiniteSet(Shards)
  BY DEF Fanout!FanoutConstants, Fanout!IsFiniteSet, IsFiniteSet
<1>3. Usages \cup {ShardTokens} \subseteq Nat
  BY <1>1 DEF Fanout!FanoutConstants
<1> QED
  BY <1>1, <1>2, <1>3

LEMMA CountsFacts ==
    ASSUME Fanout!FanoutConstants, NEW q \in Seq(CallRow)
    PROVE  /\ Charges(q) \in Seq(Int) /\ Counts(q) \in Seq(Int)
           /\ DOMAIN Charges(q) = DOMAIN q /\ DOMAIN Counts(q) = DOMAIN q
           /\ \A n \in DOMAIN q : /\ Counts(q)[n] \in Nat /\ Charges(q)[n] \in Nat
                                  /\ Counts(q)[n] <= Charges(q)[n]
<1>1. ShardTokens \in Nat /\ \A n \in DOMAIN q : q[n].charge \in Nat
  <2>1. \A n \in DOMAIN q : q[n] \in CallRow
    OBVIOUS
  <2>2. \A n \in DOMAIN q : q[n].charge \in Usages \cup {ShardTokens}
    BY <2>1 DEF CallRow
  <2> QED
    BY <2>2, ChargesAreNatural
<1>2. DOMAIN q = 1 .. Len(q) /\ Len(q) \in Nat
  OBVIOUS
<1>3. \A n \in DOMAIN q : (IF q[n].charge < ShardTokens THEN q[n].charge ELSE ShardTokens) \in Nat
  BY <1>1
<1>4. Charges(q) \in [1 .. Len(q) -> Int] /\ Counts(q) \in [1 .. Len(q) -> Int]
  BY <1>1, <1>2, <1>3 DEF Charges, Counts
<1>5. \A r \in [1 .. Len(q) -> Int] : r \in Seq(Int)
  BY <1>2
<1> QED
  BY <1>1, <1>2, <1>4, <1>5 DEF Charges, Counts

LEMMA FoldOfCharges ==
    ASSUME Fanout!FanoutConstants, NEW q \in Seq(CallRow)
    PROVE  Fanout!FoldLeft(LAMBDA sum, c : sum + c.charge, 0, q) = SumUp(Charges(q))
<1> DEFINE h == Charges(q)
           S == DOMAIN q
           Good(it) == it = [T \in SUBSET S |-> IF T = {} THEN 0 ELSE
                LET x == CHOOSE x \in T : \A y \in T : x >= y IN it[T \ {x}] + q[x].charge]
<1>1. Fanout!FoldLeft(LAMBDA sum, c : sum + c.charge, 0, q) = (CHOOSE it : Good(it))[S]
  BY DEF Fanout!FoldLeft, Fanout!MapThenFoldSet, Fanout!Max
<1>2. /\ Numbers(h, S) /\ DOMAIN h = S /\ IsFiniteSet(S) /\ S = 1 .. Len(q) /\ Len(q) \in Nat
  BY CountsFacts, SumUpFacts
<1>3. Picks(Greatest, S)
  BY <1>2, GreatestPicks
<1>4. ASSUME NEW it PROVE Good(it) <=> FoldsBack(h, Greatest, S, it)
  <2>1. ASSUME NEW T \in SUBSET S, T # {}
        PROVE  (LET x == CHOOSE x \in T : \A y \in T : x >= y IN it[T \ {x}] + q[x].charge)
               = it[T \ {Greatest[T]}] + h[Greatest[T]]
    <3>1. T \in SUBSET Nat
      BY <1>2
    <3>2. Greatest[T] = CHOOSE x \in T : \A y \in T : x >= y
      BY <3>1 DEF Greatest
    <3>3. Greatest[T] \in S
      BY <1>3, <2>1 DEF Picks
    <3>4. h[Greatest[T]] = q[Greatest[T]].charge
      BY <3>3 DEF Charges
    <3> QED
      BY <3>2, <3>4
  <2> HIDE DEF h, S
  <2> QED
    BY <2>1 DEF FoldsBack
<1> HIDE DEF h, Good, S
<1>5. Good(CHOOSE it : Good(it))
  BY <1>2, <1>3, <1>4, FoldBackIsTotal
<1> QED
  BY <1>1, <1>2, <1>3, <1>4, <1>5, FoldBackIsTotal DEF h, SumUp

LEMMA FoldOfCounts ==
    ASSUME Fanout!FanoutConstants, NEW q \in Seq(CallRow)
    PROVE  FoldLeft(LAMBDA sum, c : sum + IF c.charge < ShardTokens THEN c.charge ELSE ShardTokens, 0, q)
           = SumUp(Counts(q))
<1> DEFINE h == Counts(q)
           S == DOMAIN q
           Good(it) == it = [T \in SUBSET S |-> IF T = {} THEN 0 ELSE
                LET x == CHOOSE x \in T : \A y \in T : x >= y
                IN  it[T \ {x}] + IF q[x].charge < ShardTokens THEN q[x].charge ELSE ShardTokens]
<1>1. FoldLeft(LAMBDA sum, c : sum + IF c.charge < ShardTokens THEN c.charge ELSE ShardTokens, 0, q)
      = (CHOOSE it : Good(it))[S]
  BY DEF FoldLeft, MapThenFoldSet, Max
<1>2. /\ Numbers(h, S) /\ DOMAIN h = S /\ IsFiniteSet(S) /\ S = 1 .. Len(q) /\ Len(q) \in Nat
  BY CountsFacts, SumUpFacts
<1>3. Picks(Greatest, S)
  BY <1>2, GreatestPicks
<1>4. ASSUME NEW it PROVE Good(it) <=> FoldsBack(h, Greatest, S, it)
  <2>1. ASSUME NEW T \in SUBSET S, T # {}
        PROVE  (LET x == CHOOSE x \in T : \A y \in T : x >= y
                IN  it[T \ {x}] + IF q[x].charge < ShardTokens THEN q[x].charge ELSE ShardTokens)
               = it[T \ {Greatest[T]}] + h[Greatest[T]]
    <3>1. T \in SUBSET Nat
      BY <1>2
    <3>2. Greatest[T] = CHOOSE x \in T : \A y \in T : x >= y
      BY <3>1 DEF Greatest
    <3>3. Greatest[T] \in S
      BY <1>3, <2>1 DEF Picks
    <3>4. h[Greatest[T]] = IF q[Greatest[T]].charge < ShardTokens THEN q[Greatest[T]].charge
                           ELSE ShardTokens
      BY <3>3 DEF Counts
    <3> QED
      BY <3>2, <3>4
  <2> HIDE DEF h, S
  <2> QED
    BY <2>1 DEF FoldsBack
<1> HIDE DEF h, Good, S
<1>5. Good(CHOOSE it : Good(it))
  BY <1>2, <1>3, <1>4, FoldBackIsTotal
<1> QED
  BY <1>1, <1>2, <1>3, <1>4, <1>5, FoldBackIsTotal DEF h, SumUp

LEMMA PromisedSum ==
    ASSUME Fanout!FanoutConstants, NEW cs \in [Shards -> Seq(CallRow)]
    PROVE  MapThenSumSet(LAMBDA s :
               FoldLeft(LAMBDA sum, c : sum + IF c.charge < ShardTokens THEN c.charge ELSE ShardTokens,
                        0, cs[s]), Shards) = Capped(cs)
<1> DEFINE h == [s \in Shards |-> SumUp(Counts(cs[s]))]
           fold(s) == FoldLeft(LAMBDA sum, c : sum + IF c.charge < ShardTokens THEN c.charge
                                                     ELSE ShardTokens, 0, cs[s])
           Good(it) == it = [T \in SUBSET Shards |-> IF T = {} THEN 0 ELSE
                LET x == CHOOSE x \in T : TRUE IN fold(x) + it[T \ {x}]]
           pick == [T \in SUBSET Shards |-> CHOOSE x \in T : TRUE]
<1>1. MapThenSumSet(LAMBDA s :
          FoldLeft(LAMBDA sum, c : sum + IF c.charge < ShardTokens THEN c.charge ELSE ShardTokens,
                   0, cs[s]), Shards)
      = (CHOOSE it : Good(it))[Shards]
  BY DEF MapThenSumSet, MapThenFoldSet
<1>2. ASSUME NEW s \in Shards PROVE fold(s) = h[s] /\ h[s] \in Int
  <2>1. cs[s] \in Seq(CallRow)
    OBVIOUS
  <2> QED
    BY <2>1, FoldOfCounts, CountsFacts, SumUpFacts
<1> HIDE DEF h, fold
<1>3. Picks(pick, Shards) /\ Numbers(h, Shards) /\ IsFiniteSet(Shards)
  BY <1>2, ChargesAreNatural DEF Picks, Numbers
<1>4. ASSUME NEW it PROVE Good(it) <=> Folds(h, pick, Shards, it)
  <2>1. ASSUME NEW T \in SUBSET Shards, T # {}
        PROVE  (LET x == CHOOSE x \in T : TRUE IN fold(x) + it[T \ {x}])
               = h[pick[T]] + it[T \ {pick[T]}]
    BY <1>2, <2>1
  <2> QED
    BY <2>1 DEF Folds
<1> HIDE DEF Good, pick
<1>5. Good(CHOOSE it : Good(it))
  BY <1>3, <1>4, FoldIsTotal
<1> QED
  BY <1>1, <1>3, <1>4, <1>5, FoldIsTotal DEF h, Capped

LEMMA UsageIs ==
    ASSUME Fanout!FanoutConstants, calls \in [Shards -> Seq(CallRow)]
    PROVE  Fanout!Usage = spent + Full(calls)
<1> DEFINE h == [s \in Shards |-> SumUp(Charges(calls[s]))]
           Good(it) == it = [T \in SUBSET Shards |-> IF T = {} THEN 0 ELSE
                LET x == CHOOSE x \in T : TRUE IN Fanout!Charged(x) + it[T \ {x}]]
           pick == [T \in SUBSET Shards |-> CHOOSE x \in T : TRUE]
<1>1. Fanout!MapThenSumSet(Fanout!Charged, Shards) = (CHOOSE it : Good(it))[Shards]
  BY DEF Fanout!MapThenSumSet, Fanout!MapThenFoldSet
<1>2. ASSUME NEW s \in Shards PROVE Fanout!Charged(s) = h[s] /\ h[s] \in Int
  <2>1. calls[s] \in Seq(CallRow)
    OBVIOUS
  <2> QED
    BY <2>1, FoldOfCharges, CountsFacts, SumUpFacts DEF Fanout!Charged
<1> HIDE DEF h
<1>3. Picks(pick, Shards) /\ Numbers(h, Shards) /\ IsFiniteSet(Shards)
  BY <1>2, ChargesAreNatural DEF Picks, Numbers
<1>4. ASSUME NEW it PROVE Good(it) <=> Folds(h, pick, Shards, it)
  <2>1. ASSUME NEW T \in SUBSET Shards, T # {}
        PROVE  (LET x == CHOOSE x \in T : TRUE IN Fanout!Charged(x) + it[T \ {x}])
               = h[pick[T]] + it[T \ {pick[T]}]
    BY <1>2, <2>1
  <2> QED
    BY <2>1 DEF Folds
<1> HIDE DEF Good, pick
<1>5. Good(CHOOSE it : Good(it))
  BY <1>3, <1>4, FoldIsTotal
<1> QED
  BY <1>1, <1>3, <1>4, <1>5, FoldIsTotal DEF h, Full, Fanout!Usage

-----------------------------------------------------------------------------

\* What the calls of a fan-out come to when those of a shard change.
LEMMA SumsAreNatural ==
    ASSUME Fanout!FanoutConstants, NEW cs \in [Shards -> Seq(CallRow)]
    PROVE  Capped(cs) \in Nat /\ Full(cs) \in Nat /\ Capped(cs) <= Full(cs)
<1> DEFINE f == [s \in Shards |-> SumUp(Charges(cs[s]))]
           c == [s \in Shards |-> SumUp(Counts(cs[s]))]
<1>1. ASSUME NEW s \in Shards PROVE c[s] \in Nat /\ f[s] \in Nat /\ c[s] <= f[s]
  <2>1. cs[s] \in Seq(CallRow)
    OBVIOUS
  <2> DEFINE q == Counts(cs[s])
             r == Charges(cs[s])
  <2>2. /\ q \in Seq(Int) /\ r \in Seq(Int) /\ DOMAIN q = DOMAIN r
        /\ \A n \in DOMAIN q : q[n] \in Nat /\ r[n] \in Nat /\ q[n] <= r[n]
    BY <2>1, CountsFacts
  <2> HIDE DEF q, r
  <2>3. SumUp(q) \in Nat /\ SumUp(r) \in Nat
    BY <2>2, SumUpFacts, TotalIsNatural DEF SumUp
  <2>4. SumUp(q) <= SumUp(r)
    BY <2>2, SumUpRises
  <2> QED
    BY <2>3, <2>4 DEF q, r
<1> HIDE DEF f, c
<1>2. Numbers(f, Shards) /\ Numbers(c, Shards) /\ IsFiniteSet(Shards)
  BY <1>1, ChargesAreNatural DEF Numbers
<1>3. Total(f, Shards) \in Nat /\ Total(c, Shards) \in Nat /\ Total(c, Shards) <= Total(f, Shards)
  BY <1>1, <1>2, TotalIsNatural, TotalRises
<1> QED
  BY <1>3 DEF Capped, Full, f, c

LEMMA CappedChanges ==
    ASSUME Fanout!FanoutConstants, NEW cs \in [Shards -> Seq(CallRow)], NEW s \in Shards,
           NEW q \in Seq(CallRow)
    PROVE  Capped([cs EXCEPT ![s] = q]) = (Capped(cs) - SumUp(Counts(cs[s]))) + SumUp(Counts(q))
<1> DEFINE ds == [cs EXCEPT ![s] = q]
           g == [x \in Shards |-> SumUp(Counts(ds[x]))]
           h == [x \in Shards |-> SumUp(Counts(cs[x]))]
<1>1. ds \in [Shards -> Seq(CallRow)] /\ ds[s] = q /\ \A x \in Shards \ {s} : ds[x] = cs[x]
  OBVIOUS
<1> HIDE DEF ds
<1>2. \A x \in Shards : h[x] \in Int /\ g[x] \in Int
  <2> SUFFICES ASSUME NEW x \in Shards PROVE h[x] \in Int /\ g[x] \in Int
    OBVIOUS
  <2>1. cs[x] \in Seq(CallRow) /\ ds[x] \in Seq(CallRow)
    BY <1>1
  <2> QED
    BY <2>1, CountsFacts, SumUpFacts
<1>3. h[s] = SumUp(Counts(cs[s])) /\ g[s] = SumUp(Counts(q)) /\ \A x \in Shards \ {s} : h[x] = g[x]
  BY <1>1
<1> HIDE DEF g, h
<1>4. Numbers(g, Shards) /\ Numbers(h, Shards) /\ IsFiniteSet(Shards)
  BY <1>2, ChargesAreNatural DEF Numbers
<1>5. Total(g, Shards) = (Total(h, Shards) - h[s]) + g[s]
  BY <1>3, <1>4, TotalChanges
<1> QED
  BY <1>3, <1>5 DEF Capped, g, h, ds

\* What counts of one call.
Count(c) == IF c.charge < ShardTokens THEN c.charge ELSE ShardTokens

LEMMA CallAppended ==
    ASSUME Fanout!FanoutConstants, NEW cs \in [Shards -> Seq(CallRow)], NEW s \in Shards,
           NEW c \in CallRow
    PROVE  /\ [cs EXCEPT ![s] = Append(@, c)] \in [Shards -> Seq(CallRow)]
           /\ Capped([cs EXCEPT ![s] = Append(@, c)]) = Capped(cs) + Count(c)
<1>1. cs[s] \in Seq(CallRow) /\ Append(cs[s], c) \in Seq(CallRow)
  OBVIOUS
<1>2. Count(c) \in Int
  <2>1. c.charge \in Usages \cup {ShardTokens}
    BY DEF CallRow
  <2> QED
    BY <2>1, ChargesAreNatural DEF Count
<1>3. Counts(Append(cs[s], c)) = Append(Counts(cs[s]), Count(c))
  <2> DEFINE q == cs[s]
             p == Append(q, c)
  <2>1. q \in Seq(CallRow) /\ p \in Seq(CallRow) /\ Len(p) = Len(q) + 1 /\ Len(q) \in Nat
    BY <1>1
  <2>2. p[Len(q) + 1] = c /\ \A n \in 1 .. Len(q) : p[n] = q[n]
    BY <1>1
  <2> HIDE DEF q, p
  <2>3. /\ Counts(p) \in Seq(Int) /\ Counts(q) \in Seq(Int)
        /\ DOMAIN Counts(p) = 1 .. Len(q) + 1 /\ DOMAIN Counts(q) = 1 .. Len(q)
    BY <2>1, CountsFacts
  <2>4. Len(Counts(q)) = Len(q) /\ Len(Counts(p)) = Len(q) + 1
    BY <2>1, <2>3
  <2>5. \A n \in 1 .. Len(q) + 1 : Counts(p)[n] = IF n = Len(q) + 1 THEN Count(c) ELSE Counts(q)[n]
    BY <2>1, <2>2 DEF Counts, Count
  <2> DEFINE a == Counts(p)
             b == Counts(q)
  <2> HIDE DEF a, b
  <2>6. a = Append(b, Count(c))
    BY <1>2, <2>1, <2>3, <2>4, <2>5 DEF a, b
  <2> QED
    BY <2>6 DEF a, b, p, q
<1>4. SumUp(Append(Counts(cs[s]), Count(c))) = SumUp(Counts(cs[s])) + Count(c)
  BY <1>1, <1>2, CountsFacts, SumUpAppend
<1>5. Capped([cs EXCEPT ![s] = Append(cs[s], c)])
      = (Capped(cs) - SumUp(Counts(cs[s]))) + SumUp(Counts(Append(cs[s], c)))
  BY <1>1, CappedChanges
<1>6. Capped(cs) \in Int /\ SumUp(Counts(cs[s])) \in Int
  BY <1>1, SumsAreNatural, CountsFacts, SumUpFacts
<1>7. [cs EXCEPT ![s] = Append(@, c)] \in [Shards -> Seq(CallRow)]
  BY <1>1
<1> QED
  BY <1>2, <1>3, <1>4, <1>5, <1>6, <1>7

LEMMA CallReplaced ==
    ASSUME Fanout!FanoutConstants, NEW cs \in [Shards -> Seq(CallRow)], NEW s \in Shards,
           NEW n \in DOMAIN cs[s], NEW c \in CallRow
    PROVE  /\ [cs[s] EXCEPT ![n] = c] \in Seq(CallRow)
           /\ SumUp(Counts([cs[s] EXCEPT ![n] = c])) = (SumUp(Counts(cs[s])) - Count(cs[s][n])) + Count(c)
           /\ Count(cs[s][n]) \in Nat /\ Count(c) \in Nat /\ Count(c) <= ShardTokens
<1> DEFINE q == cs[s]
           p == [q EXCEPT ![n] = c]
<1>1. q \in Seq(CallRow) /\ n \in DOMAIN q
  OBVIOUS
<1>2. p \in Seq(CallRow) /\ DOMAIN p = DOMAIN q /\ p[n] = c /\ \A k \in DOMAIN q \ {n} : p[k] = q[k]
  BY <1>1
<1>3. q[n] \in CallRow
  BY <1>1
<1> HIDE DEF p, q
<1>4. \A d \in CallRow : Count(d) \in Nat /\ Count(d) <= ShardTokens
  <2> SUFFICES ASSUME NEW d \in CallRow PROVE Count(d) \in Nat /\ Count(d) <= ShardTokens
    OBVIOUS
  <2>1. d.charge \in Usages \cup {ShardTokens}
    BY DEF CallRow
  <2> QED
    BY <2>1, ChargesAreNatural DEF Count
<1>5. Counts(p) = [Counts(q) EXCEPT ![n] = Count(c)]
  <2>1. /\ Counts(p) = [k \in DOMAIN q |-> Count(p[k])]
        /\ Counts(q) = [k \in DOMAIN q |-> Count(q[k])]
    BY <1>2 DEF Counts, Count
  <2> HIDE DEF Counts, Count
  <2> QED
    BY <1>1, <1>2, <2>1
<1>6. Counts(q) \in Seq(Int) /\ n \in DOMAIN Counts(q) /\ Counts(q)[n] = Count(q[n])
  BY <1>1, CountsFacts DEF Counts, Count
<1>7. SumUp(Counts(p)) = (SumUp(Counts(q)) - Count(q[n])) + Count(c)
  <2> DEFINE a == Counts(q)
             i == Count(c)
  <2> HIDE DEF a, i
  <2>1. i \in Int /\ a \in Seq(Int) /\ n \in DOMAIN a
    BY <1>4, <1>6 DEF a, i
  <2>2. SumUp([a EXCEPT ![n] = i]) = (SumUp(a) - a[n]) + i
    BY <2>1, SumUpExcept
  <2> QED
    BY <1>5, <1>6, <2>2 DEF a, i
<1> QED
  BY <1>2, <1>3, <1>4, <1>7 DEF p, q

-----------------------------------------------------------------------------

WorkerRow == [pc : {"idle", "acquire", "recover", "verify", "create", "run", "finalize",
                    "drop", "fail", "release"},
              found : BOOLEAN, generation : 0 .. MaxGeneration, stopped : BOOLEAN,
              failed : BOOLEAN,
              task : [Shards -> [state : {"none", "todo", "calling", "done"},
                                 attempt : 0 .. MaxAttempts]]]

ShardRow == [status : {"completed", "failed", "cancelled", "pending", "running"},
             current : 0 .. MaxAttempts]

Rows ==
    /\ lease \in [generation : 0 .. MaxGeneration, active : BOOLEAN]
    /\ execution \in [status : {"completed", "failed", "cancelled", "none", "running"},
                      fence : 0 .. MaxGeneration]
    /\ shard \in [Shards -> ShardRow]
    /\ calls \in [Shards -> Seq(CallRow)]
    /\ \A s \in Shards : Len(calls[s]) <= MaxAttempts
    /\ spent \in 0 .. Budget /\ faults \in 0 .. MaxFaults
    /\ worker \in [Workers -> WorkerRow]

\* No request has a lease that is newer than the row, and no two have the same.
Leases ==
    /\ lease.active => lease.generation > 0
    /\ \A w \in Workers : worker[w].generation <= lease.generation
    /\ \A v, w \in Workers :
           worker[v].generation = worker[w].generation /\ worker[w].generation # 0 => v = w

\* A shard and its calls; one that runs has a call, and that is charged its reservation.
Agrees(row, q) ==
    /\ \A n \in DOMAIN q :
           /\ q[n].status = "started" <=> row = [status |-> "running", current |-> n]
           /\ q[n].status = "completed" <=> row = [status |-> "completed", current |-> n]
           /\ q[n].status = "started" => q[n].charge = ShardTokens
    /\ row.current \in {0, Len(q)}
    /\ row.status = "running" => row.current # 0

Ledgers ==
    \A s \in Shards :
        /\ Agrees(shard[s], calls[s])
        /\ execution.status \in {"completed", "failed", "cancelled"} =>
               shard[s].status \in {"completed", "failed", "cancelled"}

\* The calls that a request may still start without looking at the budget again.
Todo(row) == {s \in Shards : row.task[s].state = "todo"}

Pledge(row) ==
    IF row.pc = "create" \/ (row.pc = "recover" /\ ~row.found) THEN Cardinality(Shards)
    ELSE IF row.pc = "run" THEN Cardinality(Todo(row)) ELSE 0

Spending == spent + Capped(calls)

Budgets ==
    /\ Spending <= Budget
    /\ \A w \in Workers :
           Fanout!Holds(w) => Spending + ShardTokens * Pledge(worker[w]) <= Budget

FanoutInv == Rows /\ Leases /\ Ledgers /\ Budgets

LEMMA SameCardinality == \A S : Fanout!Cardinality(S) = Cardinality(S)
BY DEF Fanout!Cardinality, Cardinality

LEMMA TimesRises ==
    ASSUME NEW r \in Nat, NEW a \in Nat, NEW b \in Nat, a <= b
    PROVE  r * a \in Nat /\ r * b \in Nat /\ r * a <= r * b
<1>1. r * a \in Nat /\ r * b \in Nat /\ r * (b - a) \in Nat /\ r * b = r * a + r * (b - a)
  OBVIOUS
<1> QED
  BY <1>1

LEMMA PledgeFacts ==
    ASSUME Fanout!FanoutConstants, NEW row
    PROVE  /\ Pledge(row) \in Nat /\ Cardinality(Shards) \in Nat
           /\ IsFiniteSet(Todo(row)) /\ Cardinality(Todo(row)) \in Nat
           /\ \A S \in SUBSET Shards : /\ IsFiniteSet(S) /\ Cardinality(S) \in Nat
                                       /\ Cardinality(S) <= Cardinality(Shards)
<1>1. IsFiniteSet(Shards) /\ Cardinality(Shards) \in Nat
  BY ChargesAreNatural, FS_CardinalityType
<1>2. \A S \in SUBSET Shards : /\ IsFiniteSet(S) /\ Cardinality(S) \in Nat
                               /\ Cardinality(S) <= Cardinality(Shards)
  BY <1>1, FS_Subset, FS_CardinalityType
<1>3. Todo(row) \in SUBSET Shards
  BY DEF Todo
<1> QED
  BY <1>1, <1>2, <1>3 DEF Pledge

LEMMA SpendingFacts ==
    ASSUME Fanout!FanoutConstants, Rows
    PROVE  /\ Spending \in Nat /\ Capped(calls) \in Nat /\ Spending <= Fanout!Usage
           /\ Fanout!Usage \in Nat /\ spent <= Fanout!Usage
BY SumsAreNatural, UsageIs, ChargesAreNatural DEF Rows, Spending

-----------------------------------------------------------------------------
(* Shards and their calls *)

\* A call is started.
LEMMA CallStarts ==
    ASSUME Fanout!FanoutConstants, NEW row \in ShardRow, NEW q \in Seq(CallRow), Agrees(row, q),
           row.status = "pending",
           NEW c, c = [status |-> "started", charge |-> ShardTokens]
    PROVE  Agrees([status |-> "running", current |-> Len(q) + 1], Append(q, c))
<1> DEFINE p == Append(q, c)
           n == Len(q)
<1>1. c \in CallRow
  BY DEF CallRow
<1>2. /\ Len(p) = n + 1 /\ n \in Nat /\ DOMAIN p = 1 .. n + 1 /\ p[n + 1] = c
      /\ \A k \in 1 .. n : p[k] = q[k] /\ k \in DOMAIN q
  BY <1>1
<1> HIDE DEF p, n
<1>3. \A k \in 1 .. n : p[k].status # "started" /\ p[k].status # "completed" /\ k # n + 1
  <2> SUFFICES ASSUME NEW k \in 1 .. n PROVE p[k].status # "started" /\ p[k].status # "completed" /\ k # n + 1
    OBVIOUS
  <2>1. row # [status |-> "running", current |-> k] /\ row # [status |-> "completed", current |-> k]
    OBVIOUS
  <2> QED
    BY <1>2, <2>1 DEF Agrees
<1>4. \A k \in 1 .. n + 1 : k \in 1 .. n \/ k = n + 1
  BY <1>2
<1> QED
  BY <1>2, <1>3, <1>4 DEF Agrees, p, n

\* The last call of a shard ends, and so does the run of the shard.
LEMMA CallEnds ==
    ASSUME Fanout!FanoutConstants, NEW row \in ShardRow, NEW q \in Seq(CallRow), Agrees(row, q),
           row.status = "running", NEW new \in ShardRow, NEW c \in CallRow,
           c.status # "started", new.current \in {0, Len(q)},
           \/ c.status = "completed" /\ new = [status |-> "completed", current |-> Len(q)]
           \/ c.status # "completed" /\ new.status \notin {"running", "completed"}
    PROVE  /\ Agrees(new, [q EXCEPT ![Len(q)] = c])
           /\ Len(q) \in DOMAIN q /\ row.current = Len(q) /\ q[Len(q)].charge = ShardTokens
<1> DEFINE n == Len(q)
           p == [q EXCEPT ![n] = c]
<1>1. row.current = n /\ n \in Nat /\ n # 0
  BY DEF Agrees
<1>2. /\ n \in DOMAIN q /\ DOMAIN p = DOMAIN q /\ Len(p) = n /\ p[n] = c
      /\ \A k \in DOMAIN q \ {n} : p[k] = q[k]
  BY <1>1
<1>3. row = [status |-> "running", current |-> n]
  BY <1>1 DEF ShardRow
<1>4. q[n].status = "started" /\ q[n].charge = ShardTokens
  BY <1>2, <1>3 DEF Agrees
<1>5. \A k \in DOMAIN q \ {n} : q[k].status # "started" /\ q[k].status # "completed"
  <2> SUFFICES ASSUME NEW k \in DOMAIN q \ {n}
               PROVE  q[k].status # "started" /\ q[k].status # "completed"
    OBVIOUS
  <2>1. row # [status |-> "running", current |-> k] /\ row # [status |-> "completed", current |-> k]
    BY <1>3
  <2> QED
    BY <2>1 DEF Agrees
<1> HIDE DEF p, n
<1>6. new.status # "running" /\ \A k \in DOMAIN q : new # [status |-> "running", current |-> k]
  OBVIOUS
<1>7. \A k \in DOMAIN q : (p[k].status = "completed" <=> new = [status |-> "completed", current |-> k])
  <2> SUFFICES ASSUME NEW k \in DOMAIN q
               PROVE  p[k].status = "completed" <=> new = [status |-> "completed", current |-> k]
    OBVIOUS
  <2>1. CASE k = n
    BY <1>2, <2>1 DEF n
  <2>2. CASE k # n
    <3>1. p[k].status # "completed"
      BY <1>2, <1>5, <2>2
    <3>2. new # [status |-> "completed", current |-> k]
      BY <2>2 DEF n
    <3> QED
      BY <3>1, <3>2
  <2> QED
    BY <2>1, <2>2
<1>8. \A k \in DOMAIN q : p[k].status # "started"
  BY <1>2, <1>5
<1>9. Agrees(new, p)
  BY <1>2, <1>6, <1>7, <1>8 DEF Agrees, n
<1> QED
  BY <1>1, <1>2, <1>4, <1>9 DEF p, n

\* The calls of running shards end with their usage unknown.
LEMMA RunningCallsEnd ==
    ASSUME Fanout!FanoutConstants, Rows, Ledgers, NEW status \in {"abandoned", "cancelled"}
    PROVE  /\ Fanout!Unknown(status) \in [Shards -> Seq(CallRow)]
           /\ \A s \in Shards : Len(Fanout!Unknown(status)[s]) = Len(calls[s])
           /\ Capped(Fanout!Unknown(status)) = Capped(calls)
           /\ \A s \in Shards, new \in ShardRow :
                 /\ shard[s].status = "running"
                 /\ new.current \in {0, Len(calls[s])}
                 /\ new.status \notin {"running", "completed"}
                 => Agrees(new, Fanout!Unknown(status)[s])
<1> DEFINE ds == Fanout!Unknown(status)
           c == [status |-> status, charge |-> ShardTokens]
<1>1. c \in CallRow /\ c.status # "started" /\ c.status # "completed" /\ Count(c) = ShardTokens
  BY ChargesAreNatural DEF CallRow, Count
<1>2. ASSUME NEW s \in Shards, shard[s].status = "running"
      PROVE  /\ ds[s] = [calls[s] EXCEPT ![Len(calls[s])] = c]
             /\ calls[s] \in Seq(CallRow) /\ ds[s] \in Seq(CallRow)
             /\ Len(ds[s]) = Len(calls[s])
             /\ SumUp(Counts(ds[s])) = SumUp(Counts(calls[s]))
             /\ \A new \in ShardRow : new.current \in {0, Len(calls[s])}
                                      /\ new.status \notin {"running", "completed"}
                                      => Agrees(new, ds[s])
  <2>1. ds[s] = [calls[s] EXCEPT ![Len(calls[s])] = c]
    BY <1>2 DEF Fanout!Unknown, Fanout!Ended
  <2> HIDE DEF ds, c
  <2>2. calls[s] \in Seq(CallRow) /\ shard[s] \in ShardRow /\ Agrees(shard[s], calls[s])
    BY DEF Rows, Ledgers
  <2>3. \A new \in ShardRow : new.current \in {0, Len(calls[s])}
                              /\ new.status \notin {"running", "completed"}
                              => Agrees(new, ds[s])
    BY <1>1, <1>2, <2>1, <2>2, CallEnds
  <2>4. Len(calls[s]) \in DOMAIN calls[s] /\ calls[s][Len(calls[s])].charge = ShardTokens
    <3> DEFINE failed == [status |-> "failed", current |-> 0]
    <3>1. /\ failed \in ShardRow /\ failed.current \in {0, Len(calls[s])}
          /\ failed.status \notin {"running", "completed"}
      BY ChargesAreNatural DEF ShardRow
    <3> HIDE DEF failed
    <3> QED
      BY <1>1, <1>2, <2>2, <3>1, CallEnds
  <2> DEFINE n == Len(calls[s])
  <2>5. Count(calls[s][n]) = ShardTokens
    BY <2>4, ChargesAreNatural DEF Count
  <2>6. ds[s] \in Seq(CallRow)
    BY <1>1, <2>1, <2>4, CallReplaced DEF Rows
  <2>7. SumUp(Counts(ds[s])) = (SumUp(Counts(calls[s])) - ShardTokens) + ShardTokens
    <3>1. calls \in [Shards -> Seq(CallRow)] /\ n \in DOMAIN calls[s] /\ c \in CallRow
      BY <1>1, <2>4 DEF Rows
    <3> HIDE DEF n
    <3>2. SumUp(Counts([calls[s] EXCEPT ![n] = c]))
          = (SumUp(Counts(calls[s])) - Count(calls[s][n])) + Count(c)
      BY <3>1, CallReplaced
    <3> QED
      BY <1>1, <2>1, <2>5, <3>2 DEF n
  <2>8. SumUp(Counts(calls[s])) \in Int /\ ShardTokens \in Int
    BY <2>2, CountsFacts, SumUpFacts, ChargesAreNatural
  <2>9. Len(ds[s]) = Len(calls[s])
    BY <2>1, <2>2
  <2>10. SumUp(Counts(ds[s])) = SumUp(Counts(calls[s]))
    <3> DEFINE x == SumUp(Counts(calls[s]))
    <3> HIDE DEF x
    <3>1. (x - ShardTokens) + ShardTokens = x
      BY <2>8 DEF x
    <3> QED
      BY <2>7, <3>1 DEF x
  <2>11. ds[s] = [calls[s] EXCEPT ![Len(calls[s])] = c]
    BY <2>1
  <2> HIDE DEF n
  <2> QED
    BY <2>11, <2>2, <2>3, <2>6, <2>9, <2>10
<1>3. ASSUME NEW s \in Shards, shard[s].status # "running" PROVE ds[s] = calls[s]
  BY <1>3 DEF Fanout!Unknown
<1>4. ds = [s \in Shards |-> ds[s]] /\ DOMAIN ds = Shards
  BY DEF Fanout!Unknown
<1> HIDE DEF ds
<1>5. /\ ds \in [Shards -> Seq(CallRow)]
      /\ \A s \in Shards : Len(ds[s]) = Len(calls[s])
  <2>1. \A s \in Shards : calls[s] \in Seq(CallRow)
    BY DEF Rows
  <2>2. \A s \in Shards : ds[s] \in Seq(CallRow) /\ Len(ds[s]) = Len(calls[s])
    BY <1>2, <1>3, <2>1
  <2> QED
    BY <1>4, <2>2
<1>6. Capped(ds) = Capped(calls)
  <2>1. \A s \in Shards : SumUp(Counts(ds[s])) = SumUp(Counts(calls[s]))
    BY <1>2, <1>3
  <2> QED
    BY <2>1 DEF Capped
<1> QED
  BY <1>2, <1>5, <1>6 DEF ds

-----------------------------------------------------------------------------
(* Steps *)

LEMMA RowsFacts ==
    ASSUME FanoutInv
    PROVE  /\ lease \in [generation : 0 .. MaxGeneration, active : BOOLEAN]
           /\ execution \in [status : {"completed", "failed", "cancelled", "none", "running"},
                             fence : 0 .. MaxGeneration]
           /\ shard \in [Shards -> ShardRow]
           /\ calls \in [Shards -> Seq(CallRow)]
           /\ \A s \in Shards : Len(calls[s]) <= MaxAttempts
           /\ spent \in 0 .. Budget /\ faults \in 0 .. MaxFaults
           /\ worker \in [Workers -> WorkerRow]
BY DEF FanoutInv, Rows

LEMMA Following ==
    /\ Spending' = spent' + Capped(calls')
    /\ \A w : Pledge(worker[w])' = Pledge(worker'[w])
    /\ \A w : Fanout!Holds(w)' <=> lease'.active /\ lease'.generation = worker'[w].generation
    /\ Ledgers' <=> \A s \in Shards :
           /\ Agrees(shard'[s], calls'[s])
           /\ execution'.status \in {"completed", "failed", "cancelled"} =>
                  shard'[s].status \in {"completed", "failed", "cancelled"}
<1>1. Spending' = spent' + Capped(calls')
  BY DEF Spending, Capped
<1>2. \A w : Pledge(worker[w])' = Pledge(worker'[w])
  BY DEF Pledge, Todo
<1>3. \A w : Fanout!Holds(w)' <=> lease'.active /\ lease'.generation = worker'[w].generation
  BY DEF Fanout!Holds
<1>4. \A s : Agrees(shard[s], calls[s])' <=> Agrees(shard'[s], calls'[s])
  BY DEF Agrees
<1> QED
  BY <1>1, <1>2, <1>3, <1>4 DEF Ledgers

\* The other requests stay as they are.
Moves(w) ==
    /\ worker' \in [Workers -> WorkerRow]
    /\ \A v \in Workers \ {w} : worker'[v] = worker[v]

\* A lease goes on, or ends.
GoesOn ==
    /\ lease' \in [generation : 0 .. MaxGeneration, active : BOOLEAN]
    /\ lease'.generation = lease.generation /\ (lease'.active => lease.active)

LEMMA LeasesKeep ==
    ASSUME Fanout!FanoutConstants, FanoutInv, NEW w \in Workers, Moves(w), GoesOn,
           worker'[w].generation \in {worker[w].generation, 0}
    PROVE  Leases'
<1>1. /\ lease.generation \in Nat /\ lease'.generation = lease.generation
      /\ \A v \in Workers : worker[v].generation \in Nat
  BY ChargesAreNatural DEF GoesOn, FanoutInv, Rows, WorkerRow
<1>2. lease'.active => lease'.generation > 0
  BY DEF GoesOn, FanoutInv, Leases
<1>3. \A v \in Workers : worker'[v].generation \in {worker[v].generation, 0}
  BY DEF Moves
<1>4. \A v \in Workers : worker'[v].generation <= lease'.generation
  BY <1>1, <1>3 DEF FanoutInv, Leases
<1>5. \A v, x \in Workers :
          worker'[v].generation = worker'[x].generation /\ worker'[x].generation # 0 => v = x
  BY <1>3 DEF FanoutInv, Leases
<1> QED
  BY <1>2, <1>4, <1>5 DEF Leases

LEMMA BudgetsKeep ==
    ASSUME Fanout!FanoutConstants, FanoutInv, NEW w \in Workers, Moves(w), Rows',
           Spending' <= Spending,
           GoesOn \/ \A v \in Workers \ {w} : ~Fanout!Holds(v)',
           \/ Pledge(worker'[w]) = 0
           \/ Fanout!Usage + ShardTokens * Pledge(worker'[w]) <= Budget
           \/ /\ GoesOn /\ worker'[w].generation = worker[w].generation
              /\ Pledge(worker'[w]) <= Pledge(worker[w])
    PROVE  Budgets'
<1> DEFINE a == Spending
           b == Spending'
           r == ShardTokens
           p == Pledge(worker[w])
           n == Pledge(worker'[w])
<1>1. a \in Nat /\ a <= Budget /\ a <= Fanout!Usage /\ Fanout!Usage \in Nat
  BY SpendingFacts DEF FanoutInv, Budgets
<1>2. Fanout!FanoutConstants'
  BY DEF Fanout!FanoutConstants, Fanout!IsFiniteSet
<1>3. b \in Nat /\ b <= a
  <2>1. calls' \in [Shards -> Seq(CallRow)]
    BY DEF Rows, CallRow
  <2>2. spent' \in 0 .. Budget /\ Budget \in Nat
    BY ChargesAreNatural DEF Rows
  <2> QED
    BY <2>1, <2>2, SumsAreNatural, Following
<1>4. r \in Nat /\ p \in Nat /\ n \in Nat /\ Budget \in Nat
  BY PledgeFacts, ChargesAreNatural
<1>5. b <= Budget
  BY <1>1, <1>3, <1>4
<1>6. ASSUME Fanout!Holds(w)' PROVE b + r * n <= Budget
  <2>1. CASE n = 0
    <3>1. r * n = 0
      BY <1>4, <2>1
    <3> QED
      BY <1>3, <1>5, <3>1
  <2>2. CASE Fanout!Usage + r * n <= Budget
    <3>1. r * n \in Nat
      BY <1>4, TimesRises
    <3> HIDE DEF b, n, r, a
    <3> QED
      BY <1>1, <1>3, <1>4, <2>2, <3>1
  <2>3. CASE GoesOn /\ worker'[w].generation = worker[w].generation /\ n <= p
    <3>1. Fanout!Holds(w)
      BY <1>6, <2>3, Following DEF Fanout!Holds, GoesOn
    <3>2. a + r * p <= Budget
      BY <3>1 DEF FanoutInv, Budgets
    <3>3. r * n \in Nat /\ r * p \in Nat /\ r * n <= r * p
      BY <1>4, <2>3, TimesRises
    <3> HIDE DEF a, b, n, p, r
    <3> QED
      BY <1>1, <1>3, <1>4, <3>2, <3>3
  <2> QED
    BY <2>1, <2>2, <2>3
<1>7. ASSUME NEW v \in Workers \ {w}, Fanout!Holds(v)'
      PROVE  b + r * Pledge(worker'[v]) <= Budget
  <2>1. Fanout!Holds(v) /\ worker'[v] = worker[v]
    BY <1>7, Following DEF Fanout!Holds, GoesOn, Moves
  <2>2. a + r * Pledge(worker[v]) <= Budget
    BY <2>1 DEF FanoutInv, Budgets
  <2>3. r * Pledge(worker[v]) \in Nat
    BY <1>4, TimesRises, PledgeFacts
  <2> DEFINE x == r * Pledge(worker[v])
  <2> HIDE DEF a, b, x
  <2>4. b + x <= Budget
    BY <1>1, <1>3, <1>4, <2>2, <2>3 DEF x
  <2> QED
    BY <2>1, <2>4 DEF x
<1> HIDE DEF b
<1>8. \A v \in Workers : Fanout!Holds(v)' => b + ShardTokens * Pledge(worker[v])' <= Budget
  BY <1>6, <1>7, Following
<1> QED
  BY <1>5, <1>8 DEF Budgets, b

\* The rows of the execution stay as they are.
LEMMA LedgersStay ==
    ASSUME Fanout!FanoutConstants, FanoutInv, UNCHANGED <<execution, shard, calls, spent>>
    PROVE  Ledgers' /\ Spending' <= Spending
<1>1. Spending' = Spending
  BY Following DEF Spending
<1>2. Spending \in Nat
  BY SpendingFacts DEF FanoutInv
<1>3. Ledgers'
  BY Following DEF FanoutInv, Ledgers
<1> QED
  BY <1>1, <1>2, <1>3

LEMMA GotoMoves ==
    ASSUME FanoutInv, NEW w \in Workers,
           NEW pc \in {"idle", "acquire", "recover", "verify", "create", "run", "finalize", "drop",
                       "fail", "release"},
           Fanout!Goto(w, pc)
    PROVE  /\ Moves(w) /\ worker'[w].generation = worker[w].generation
           /\ worker'[w].pc = pc /\ worker'[w].found = worker[w].found
           /\ worker'[w].task = worker[w].task
<1> DEFINE new == [worker[w] EXCEPT !.pc = pc]
<1>1. /\ worker \in [Workers -> WorkerRow] /\ worker[w] \in WorkerRow
      /\ worker' = [worker EXCEPT ![w] = new]
  BY RowsFacts DEF Fanout!Goto
<1>2. /\ new \in WorkerRow /\ new.generation = worker[w].generation /\ new.pc = pc
      /\ new.found = worker[w].found /\ new.task = worker[w].task
  BY <1>1 DEF WorkerRow
<1> HIDE DEF new
<1>3. worker' \in [Workers -> WorkerRow] /\ worker'[w] = new
      /\ \A v \in Workers \ {w} : worker'[v] = worker[v]
  BY <1>1, <1>2
<1> QED
  BY <1>2, <1>3 DEF Moves

\* A request takes its next step, with the tasks that it has or finds.
LEMMA TaskMoves ==
    ASSUME FanoutInv, NEW w \in Workers,
           NEW pc \in {"idle", "acquire", "recover", "verify", "create", "run", "finalize", "drop",
                       "fail", "release"},
           NEW found \in BOOLEAN,
           NEW task \in [Shards -> [state : {"none", "todo", "calling", "done"},
                                    attempt : 0 .. MaxAttempts]],
           worker' = [worker EXCEPT ![w].pc = pc, ![w].found = found, ![w].task = task]
    PROVE  /\ Moves(w) /\ worker'[w].generation = worker[w].generation
           /\ worker'[w].pc = pc /\ worker'[w].found = found /\ worker'[w].task = task
<1> DEFINE row == worker[w]
           new == [row EXCEPT !.pc = pc, !.found = found, !.task = task]
<1>1. row \in WorkerRow /\ worker \in [Workers -> WorkerRow] /\ worker' = [worker EXCEPT ![w] = new]
  BY RowsFacts
<1> HIDE DEF row
<1>2. /\ new \in WorkerRow /\ new.generation = row.generation /\ new.pc = pc
      /\ new.found = found /\ new.task = task
  BY <1>1 DEF WorkerRow
<1> HIDE DEF new
<1>3. worker'[w] = new /\ \A v \in Workers \ {w} : worker'[v] = worker[v]
  BY <1>1
<1>4. worker' \in [Workers -> WorkerRow]
  BY <1>1, <1>2
<1> QED
  BY <1>2, <1>3, <1>4 DEF row, Moves

LEMMA IdleMoves ==
    ASSUME Fanout!FanoutConstants, FanoutInv, NEW w \in Workers,
           worker' = [worker EXCEPT ![w] = Fanout!Idle]
    PROVE  Moves(w) /\ worker'[w].generation = 0 /\ Pledge(worker'[w]) = 0
<1>1. Fanout!Idle \in WorkerRow
  <2>1. 0 \in 0 .. MaxGeneration /\ 0 \in 0 .. MaxAttempts
    BY ChargesAreNatural
  <2> QED
    BY <2>1 DEF Fanout!Idle, Fanout!NoTask, WorkerRow
<1>2. Fanout!Idle.generation = 0 /\ Fanout!Idle.pc = "idle"
  BY DEF Fanout!Idle
<1>3. worker'[w] = Fanout!Idle
  BY DEF FanoutInv, Rows
<1>4. Moves(w)
  BY <1>1 DEF Moves, FanoutInv, Rows
<1> QED
  BY <1>2, <1>3, <1>4 DEF Pledge

\* What is left to show of a step that leaves the ledgers, the lease or both alone.
LEMMA FanoutFollows ==
    ASSUME Fanout!FanoutConstants, FanoutInv, NEW w \in Workers, Moves(w), GoesOn,
           worker'[w].generation \in {worker[w].generation, 0},
           execution' \in [status : {"completed", "failed", "cancelled", "none", "running"},
                           fence : 0 .. MaxGeneration],
           shard' \in [Shards -> ShardRow], calls' \in [Shards -> Seq(CallRow)],
           \A s \in Shards : Len(calls'[s]) <= MaxAttempts,
           spent' = spent, faults' \in 0 .. MaxFaults, Ledgers', Spending' <= Spending,
           \/ Pledge(worker'[w]) = 0
           \/ Fanout!Usage + ShardTokens * Pledge(worker'[w]) <= Budget
           \/ /\ worker'[w].generation = worker[w].generation
              /\ Pledge(worker'[w]) <= Pledge(worker[w])
    PROVE  FanoutInv'
<1>1. Rows'
  <2>1. spent' \in 0 .. Budget
    BY DEF FanoutInv, Rows
  <2> QED
    BY <2>1 DEF Rows, GoesOn, Moves, ShardRow, CallRow, WorkerRow
<1>2. Leases'
  BY LeasesKeep
<1>3. Budgets'
  BY <1>1, BudgetsKeep
<1> QED
  BY <1>1, <1>2, <1>3 DEF FanoutInv

LEMMA FaultFacts ==
    ASSUME Fanout!FanoutConstants, FanoutInv, Fanout!Fault \/ UNCHANGED faults
    PROVE  faults' \in 0 .. MaxFaults
BY ChargesAreNatural DEF Fanout!Fault, FanoutInv, Rows

\* A step of a request that leaves lease and ledgers alone.
LEMMA RequestKeeps ==
    ASSUME Fanout!FanoutConstants, FanoutInv, NEW w \in Workers, Moves(w),
           UNCHANGED <<lease, execution, shard, calls, spent>>, faults' \in 0 .. MaxFaults,
           worker'[w].generation \in {worker[w].generation, 0},
           \/ Pledge(worker'[w]) = 0
           \/ Fanout!Usage + ShardTokens * Pledge(worker'[w]) <= Budget
           \/ /\ worker'[w].generation = worker[w].generation
              /\ Pledge(worker'[w]) <= Pledge(worker[w])
    PROVE  FanoutInv'
BY LedgersStay, RowsFacts, FanoutFollows DEF GoesOn

-----------------------------------------------------------------------------
(* The actions *)

LEMMA AskKeeps ==
    ASSUME Fanout!FanoutConstants, FanoutInv, NEW w \in Workers, Fanout!Ask(w) PROVE FanoutInv'
<1>1. worker' = [worker EXCEPT ![w].pc = "acquire", ![w].found = execution.status # "none"]
  BY DEF Fanout!Ask
<1>2. /\ Moves(w) /\ worker'[w].generation = worker[w].generation /\ worker'[w].pc = "acquire"
  <2> DEFINE found == execution.status # "none"
             task == worker[w].task
  <2>1. /\ worker' = [worker EXCEPT ![w].pc = "acquire", ![w].found = found, ![w].task = task]
        /\ task \in [Shards -> [state : {"none", "todo", "calling", "done"},
                                attempt : 0 .. MaxAttempts]]
    BY <1>1, RowsFacts DEF WorkerRow
  <2>2. found \in BOOLEAN
    OBVIOUS
  <2> HIDE DEF found, task
  <2> QED
    BY <2>1, <2>2, TaskMoves
<1>3. Pledge(worker'[w]) = 0
  BY <1>2 DEF Pledge
<1> QED
  BY <1>2, <1>3, RequestKeeps, RowsFacts DEF Fanout!Ask

LEMMA AcquireKeeps ==
    ASSUME Fanout!FanoutConstants, FanoutInv, NEW w \in Workers, Fanout!Acquire(w)
    PROVE  FanoutInv'
<1>1. CASE /\ ~lease.active /\ lease.generation < MaxGeneration
           /\ lease' = [generation |-> lease.generation + 1, active |-> TRUE]
           /\ worker' = [worker EXCEPT ![w].pc = IF worker[w].found THEN "recover"
                                                 ELSE "verify",
                                       ![w].generation = lease.generation + 1]
  <2> DEFINE g == lease.generation + 1
  <2>1. /\ lease.generation \in Nat /\ g \in 0 .. MaxGeneration /\ g > lease.generation /\ g # 0
        /\ MaxGeneration \in Nat /\ \A v \in Workers : worker[v].generation \in Nat
        /\ \A v \in Workers : worker[v].generation < g
    <3>1. MaxGeneration \in Nat
      BY ChargesAreNatural
    <3>2. lease.generation \in 0 .. MaxGeneration
          /\ \A v \in Workers : worker[v].generation \in 0 .. MaxGeneration
                                /\ worker[v].generation <= lease.generation
      BY RowsFacts DEF WorkerRow, FanoutInv, Leases
    <3>3. lease.generation < MaxGeneration
      BY <1>1
    <3> QED
      BY <3>1, <3>2, <3>3
  <2>2. lease' = [generation |-> g, active |-> TRUE]
    BY <1>1
  <2>3. worker' = [worker EXCEPT ![w].pc = IF worker[w].found THEN "recover" ELSE "verify",
                                 ![w].generation = g]
    BY <1>1
  <2> HIDE DEF g
  <2>4. /\ Moves(w) /\ worker'[w].generation = g /\ worker'[w].found = worker[w].found
        /\ worker'[w].pc = IF worker[w].found THEN "recover" ELSE "verify"
    BY <2>1, <2>3, RowsFacts DEF WorkerRow, Moves
  <2>5. UNCHANGED <<execution, shard, calls, spent, faults>>
    BY DEF Fanout!Acquire
  <2>6. Rows'
    BY <2>1, <2>2, <2>4, <2>5, RowsFacts DEF Rows, Moves, ShardRow, CallRow, WorkerRow
  <2>7. Leases'
    <3>1. lease'.active => lease'.generation > 0
      BY <2>1, <2>2
    <3>2. \A v \in Workers : worker'[v].generation <= lease'.generation
      BY <2>1, <2>2, <2>4 DEF Moves
    <3>3. \A v, x \in Workers :
              worker'[v].generation = worker'[x].generation /\ worker'[x].generation # 0 => v = x
      BY <2>1, <2>4 DEF Moves, FanoutInv, Leases
    <3> QED
      BY <3>1, <3>2, <3>3 DEF Leases
  <2>8. \A v \in Workers \ {w} : ~Fanout!Holds(v)'
    BY <2>1, <2>2, <2>4, Following DEF Moves
  <2>9. Pledge(worker'[w]) = 0
    BY <2>4, RowsFacts DEF Pledge, WorkerRow
  <2>10. Ledgers' /\ Spending' <= Spending
    BY <2>5, LedgersStay
  <2> QED
    BY <2>4, <2>6, <2>7, <2>8, <2>9, <2>10, BudgetsKeep DEF FanoutInv
<1>2. CASE lease.active /\ worker' = [worker EXCEPT ![w] = Fanout!Idle] /\ UNCHANGED lease
  BY <1>2, IdleMoves, RequestKeeps, RowsFacts DEF Fanout!Acquire
<1> QED
  BY <1>1, <1>2 DEF Fanout!Acquire

\* The tasks that a request finds are the shards that are pending.
LEMMA TasksFacts ==
    ASSUME Fanout!FanoutConstants, NEW rows
    PROVE  /\ Fanout!Tasks(rows) \in [Shards -> [state : {"none", "todo", "calling", "done"},
                                                 attempt : 0 .. MaxAttempts]]
           /\ {s \in Shards : Fanout!Tasks(rows)[s].state = "todo"}
              = {s \in Shards : rows[s].status = "pending"}
<1>1. 0 \in 0 .. MaxAttempts
  BY ChargesAreNatural
<1>2. ASSUME NEW s \in Shards
      PROVE  /\ Fanout!Tasks(rows)[s] \in [state : {"none", "todo", "calling", "done"},
                                           attempt : 0 .. MaxAttempts]
             /\ Fanout!Tasks(rows)[s].state = "todo" <=> rows[s].status = "pending"
  BY <1>1 DEF Fanout!Tasks, Fanout!NoTask
<1>3. Fanout!Tasks(rows) = [s \in Shards |-> Fanout!Tasks(rows)[s]]
  BY DEF Fanout!Tasks
<1> QED
  BY <1>2, <1>3

LEMMA VerifyKeeps ==
    ASSUME Fanout!FanoutConstants, FanoutInv, NEW w \in Workers, Fanout!Verify(w)
    PROVE  FanoutInv'
<1> DEFINE found == worker[w].found
           pending == IF found THEN Fanout!ShardsThat("pending") ELSE Shards
<1>1. UNCHANGED <<lease, execution, shard, calls, spent, faults>>
  BY DEF Fanout!Verify
<1>2. CASE /\ Fanout!Admits(pending)
           /\ worker' = [worker EXCEPT ![w].pc = IF found THEN "run" ELSE "create",
                                       ![w].task = IF found THEN Fanout!Tasks(shard) ELSE @]
  <2> DEFINE task == IF found THEN Fanout!Tasks(shard) ELSE worker[w].task
  <2>1. task \in [Shards -> [state : {"none", "todo", "calling", "done"},
                             attempt : 0 .. MaxAttempts]]
    BY TasksFacts, RowsFacts DEF WorkerRow
  <2>2. worker' = [worker EXCEPT ![w].pc = IF found THEN "run" ELSE "create", ![w].task = task]
    BY <1>2
  <2> HIDE DEF task
  <2>3. /\ Moves(w) /\ worker'[w].generation = worker[w].generation
        /\ worker'[w].pc = (IF found THEN "run" ELSE "create") /\ worker'[w].task = task
    <3> DEFINE pc == IF found THEN "run" ELSE "create"
               kept == worker[w].found
    <3>1. worker' = [worker EXCEPT ![w].pc = pc, ![w].found = kept, ![w].task = task]
      BY <2>2, RowsFacts DEF WorkerRow
    <3>2. pc \in {"run", "create"} /\ kept \in BOOLEAN
      BY RowsFacts DEF WorkerRow
    <3> HIDE DEF pc, kept
    <3>3. /\ Moves(w) /\ worker'[w].generation = worker[w].generation /\ worker'[w].pc = pc
          /\ worker'[w].task = task
      BY <2>1, <3>1, <3>2, TaskMoves
    <3> QED
      BY <3>3 DEF pc
  <2>4. Pledge(worker'[w]) = Fanout!Cardinality(pending)
    <3>1. CASE found
      <4>1. Todo(worker'[w]) = pending
        BY <2>3, <3>1, TasksFacts DEF Todo, task, Fanout!ShardsThat
      <4> QED
        BY <2>3, <3>1, <4>1, SameCardinality DEF Pledge
    <3>2. CASE ~found
      BY <2>3, <3>2, SameCardinality DEF Pledge
    <3> QED
      BY <3>1, <3>2
  <2>5. Fanout!Usage + ShardTokens * Pledge(worker'[w]) <= Budget
    BY <1>2, <2>4 DEF Fanout!Admits
  <2> QED
    BY <1>1, <2>3, <2>5, RequestKeeps, RowsFacts
<1>3. CASE Fanout!Goto(w, IF found THEN "drop" ELSE "release")
  <2>1. /\ Moves(w) /\ worker'[w].generation = worker[w].generation
        /\ worker'[w].pc \in {"drop", "release"}
    BY <1>3, GotoMoves
  <2>2. Pledge(worker'[w]) = 0
    BY <2>1 DEF Pledge
  <2> QED
    BY <1>1, <2>1, <2>2, RequestKeeps, RowsFacts
<1> QED
  BY <1>2, <1>3 DEF Fanout!Verify

LEMMA InterruptKeeps ==
    ASSUME Fanout!FanoutConstants, FanoutInv, NEW w \in Workers, Fanout!Interrupt(w)
    PROVE  FanoutInv'
<1>1. UNCHANGED <<lease, execution, shard, calls, spent>> /\ faults' \in 0 .. MaxFaults
  BY FaultFacts DEF Fanout!Interrupt
<1>2. CASE Fanout!Goto(w, "release")
  <2>1. /\ Moves(w) /\ worker'[w].generation = worker[w].generation /\ worker'[w].pc = "release"
    BY <1>2, GotoMoves
  <2>2. Pledge(worker'[w]) = 0
    BY <2>1 DEF Pledge
  <2> QED
    BY <1>1, <2>1, <2>2, RequestKeeps
<1>3. CASE worker' = [worker EXCEPT ![w].stopped = TRUE]
  <2>1. /\ Moves(w) /\ worker'[w].generation = worker[w].generation
        /\ worker'[w].pc = worker[w].pc /\ worker'[w].found = worker[w].found
        /\ worker'[w].task = worker[w].task
    <3> DEFINE new == [worker[w] EXCEPT !.stopped = TRUE]
    <3>1. /\ worker \in [Workers -> WorkerRow] /\ worker[w] \in WorkerRow
          /\ worker' = [worker EXCEPT ![w] = new]
      BY <1>3, RowsFacts
    <3>2. /\ new \in WorkerRow /\ new.generation = worker[w].generation
          /\ new.pc = worker[w].pc /\ new.found = worker[w].found
          /\ new.task = worker[w].task
      BY <3>1 DEF WorkerRow
    <3> HIDE DEF new
    <3>3. worker' \in [Workers -> WorkerRow] /\ worker'[w] = new
          /\ \A v \in Workers \ {w} : worker'[v] = worker[v]
      BY <3>1, <3>2
    <3> QED
      BY <3>2, <3>3 DEF Moves
  <2>2. Pledge(worker'[w]) = Pledge(worker[w]) /\ Pledge(worker[w]) \in Nat
    BY <2>1, PledgeFacts DEF Pledge, Todo
  <2>3. Pledge(worker'[w]) <= Pledge(worker[w])
    BY <2>2
  <2> QED
    BY <1>1, <2>1, <2>3, RequestKeeps
<1> QED
  BY <1>2, <1>3 DEF Fanout!Interrupt

LEMMA ReleaseOfKeeps ==
    ASSUME Fanout!FanoutConstants, FanoutInv, NEW w \in Workers, Fanout!Release(w)
    PROVE  FanoutInv'
<1>1. /\ worker' = [worker EXCEPT ![w] = Fanout!Idle]
      /\ UNCHANGED <<execution, shard, calls, spent, faults>>
  BY DEF Fanout!Release
<1>2. GoesOn
  <2>1. lease' = [lease EXCEPT !.active = lease.active /\ ~Fanout!Holds(w)]
    BY RowsFacts DEF Fanout!Release
  <2>2. (lease.active /\ ~Fanout!Holds(w)) \in BOOLEAN
    OBVIOUS
  <2> QED
    BY <2>1, <2>2, RowsFacts DEF GoesOn
<1> QED
  BY <1>1, <1>2, IdleMoves, LedgersStay, RowsFacts, FanoutFollows

LEMMA DieKeeps ==
    ASSUME Fanout!FanoutConstants, FanoutInv, NEW w \in Workers, Fanout!Die(w) PROVE FanoutInv'
<1>1. /\ worker' = [worker EXCEPT ![w] = Fanout!Idle] /\ faults' \in 0 .. MaxFaults
      /\ UNCHANGED <<lease, execution, shard, calls, spent>>
  BY FaultFacts DEF Fanout!Die
<1> QED
  BY <1>1, IdleMoves, RequestKeeps

\* The calls of running shards end, as they do when an execution is taken over or dropped.
LEMMA UnknownKeeps ==
    ASSUME Fanout!FanoutConstants, FanoutInv, NEW status \in {"abandoned", "cancelled"},
           calls' = Fanout!Unknown(status), UNCHANGED spent
    PROVE  /\ calls' \in [Shards -> Seq(CallRow)]
           /\ \A s \in Shards : Len(calls'[s]) <= MaxAttempts
           /\ Spending' <= Spending
           /\ \A s \in Shards : shard[s].status # "running" => calls'[s] = calls[s]
           /\ \A s \in Shards, new \in ShardRow :
                 /\ shard[s].status = "running"
                 /\ new.current \in {0, Len(calls[s])}
                 /\ new.status \notin {"running", "completed"}
                 => Agrees(new, calls'[s])
<1>1. Rows /\ Ledgers
  BY DEF FanoutInv
<1>2. /\ calls' \in [Shards -> Seq(CallRow)]
      /\ \A s \in Shards : Len(calls'[s]) = Len(calls[s])
      /\ Capped(calls') = Capped(calls)
      /\ \A s \in Shards, new \in ShardRow :
            /\ shard[s].status = "running"
            /\ new.current \in {0, Len(calls[s])}
            /\ new.status \notin {"running", "completed"}
            => Agrees(new, calls'[s])
  BY <1>1, RunningCallsEnd
<1>3. \A s \in Shards : Len(calls'[s]) <= MaxAttempts
  BY <1>2, RowsFacts
<1>4. Spending' = Spending /\ Spending \in Nat
  BY <1>1, <1>2, Following, SpendingFacts DEF Spending
<1>5. \A s \in Shards : shard[s].status # "running" => calls'[s] = calls[s]
  BY DEF Fanout!Unknown
<1> QED
  BY <1>2, <1>3, <1>4, <1>5

LEMMA RemainderCancelled ==
    ASSUME Fanout!FanoutConstants, FanoutInv, Fanout!CancelRemainder, UNCHANGED <<execution, spent>>
    PROVE  /\ shard' \in [Shards -> ShardRow]
           /\ calls' \in [Shards -> Seq(CallRow)]
           /\ \A s \in Shards : Len(calls'[s]) <= MaxAttempts
           /\ Ledgers' /\ Spending' <= Spending
<1>1. calls' = Fanout!Unknown("cancelled")
  BY DEF Fanout!CancelRemainder
<1>2. ASSUME NEW s \in Shards
      PROVE  /\ shard'[s] \in ShardRow /\ Agrees(shard'[s], calls'[s])
             /\ shard'[s].status \in {"completed", "failed", "cancelled"}
  <2> DEFINE row == shard[s]
             new == shard'[s]
  <2>1. row \in ShardRow /\ Agrees(row, calls[s])
    BY RowsFacts DEF FanoutInv, Ledgers
  <2>2. CASE row.status \in {"completed", "failed", "cancelled"}
    <3>1. new = row /\ row.status # "running"
      BY <2>2 DEF Fanout!CancelRemainder, Fanout!Terminal
    <3>2. calls'[s] = calls[s]
      BY <1>1, <3>1, UnknownKeeps
    <3> QED
      BY <2>1, <2>2, <3>1, <3>2
  <2>3. CASE row.status \in {"pending", "running"}
    <3>1. new = [row EXCEPT !.status = "cancelled"]
      BY <2>3 DEF Fanout!CancelRemainder, Fanout!Terminal
    <3> HIDE DEF row, new
    <3>2. /\ new \in ShardRow /\ new.status = "cancelled" /\ new.current = row.current
          /\ row.current \in {0, Len(calls[s])}
      BY <2>1, <3>1 DEF ShardRow, Agrees
    <3>3. CASE row.status = "running"
      <4>1. new.current \in {0, Len(calls[s])} /\ new.status \notin {"running", "completed"}
        BY <3>2
      <4> QED
        BY <1>1, <3>2, <3>3, <4>1, UnknownKeeps DEF row, new
    <3>4. CASE row.status = "pending"
      <4>1. calls'[s] = calls[s]
        BY <1>1, <3>4, UnknownKeeps DEF row
      <4>2. \A n : /\ row # [status |-> "running", current |-> n]
                   /\ row # [status |-> "completed", current |-> n]
                   /\ new # [status |-> "running", current |-> n]
                   /\ new # [status |-> "completed", current |-> n]
        BY <3>2, <3>4
      <4>3. Agrees(new, calls[s])
        BY <2>1, <3>2, <4>2 DEF Agrees
      <4> QED
        BY <3>2, <4>1, <4>3 DEF new
    <3> QED
      BY <2>3, <3>3, <3>4
  <2> QED
    BY <2>1, <2>2, <2>3 DEF ShardRow
<1>3. shard' \in [Shards -> ShardRow]
  <2>1. shard' = [s \in Shards |-> shard'[s]]
    BY DEF Fanout!CancelRemainder
  <2> QED
    BY <1>2, <2>1
<1> QED
  BY <1>1, <1>2, <1>3, UnknownKeeps, Following

LEMMA DropKeeps ==
    ASSUME Fanout!FanoutConstants, FanoutInv, NEW w \in Workers, Fanout!Drop(w) PROVE FanoutInv'
<1>1. UNCHANGED <<lease, execution, spent, faults>>
  BY DEF Fanout!Drop
<1>2. /\ Moves(w) /\ worker'[w].generation = worker[w].generation
      /\ worker'[w].pc \in {"fail", "release"}
  BY GotoMoves DEF Fanout!Drop
<1>3. Pledge(worker'[w]) = 0
  BY <1>2 DEF Pledge
<1>4. CASE Fanout!CancelRemainder
  BY <1>1, <1>2, <1>3, <1>4, RemainderCancelled, RowsFacts, FanoutFollows DEF GoesOn
<1>5. CASE UNCHANGED <<shard, calls>>
  BY <1>1, <1>2, <1>3, <1>5, RequestKeeps, RowsFacts
<1> QED
  BY <1>4, <1>5 DEF Fanout!Drop

LEMMA GatherKeeps ==
    ASSUME Fanout!FanoutConstants, FanoutInv, NEW w \in Workers, Fanout!Gather(w)
    PROVE  FanoutInv'
<1>1. UNCHANGED <<lease, execution, spent, faults>>
  BY DEF Fanout!Gather
<1>2. /\ Moves(w) /\ worker'[w].generation = worker[w].generation
      /\ worker'[w].pc = "finalize"
  BY GotoMoves DEF Fanout!Gather
<1>3. Pledge(worker'[w]) = 0
  BY <1>2 DEF Pledge
<1>4. CASE Fanout!CancelRemainder
  BY <1>1, <1>2, <1>3, <1>4, RemainderCancelled, RowsFacts, FanoutFollows DEF GoesOn
<1>5. CASE UNCHANGED <<shard, calls>>
  BY <1>1, <1>2, <1>3, <1>5, RequestKeeps, RowsFacts
<1> QED
  BY <1>4, <1>5 DEF Fanout!Gather

\* The execution ends.
LEMMA FinalizeKeeps ==
    ASSUME Fanout!FanoutConstants, FanoutInv, NEW w \in Workers,
           NEW status \in {"completed", "failed", "cancelled"},
           Fanout!Finalize(status) \/ UNCHANGED execution,
           Fanout!Goto(w, "release"), UNCHANGED <<lease, shard, calls, spent, faults>>
    PROVE  FanoutInv'
<1>1. /\ Moves(w) /\ worker'[w].generation = worker[w].generation
      /\ worker'[w].pc = "release"
  BY GotoMoves
<1>2. Pledge(worker'[w]) = 0
  BY <1>1 DEF Pledge
<1>3. CASE UNCHANGED execution
  BY <1>1, <1>2, <1>3, RequestKeeps, RowsFacts
<1>4. CASE Fanout!Finalize(status)
  <2>1. /\ execution' = [execution EXCEPT !.status = status]
        /\ \A s \in Shards : shard[s].status \in {"completed", "failed", "cancelled"}
    BY <1>4 DEF Fanout!Finalize, Fanout!Terminal
  <2>2. execution' \in [status : {"completed", "failed", "cancelled", "none", "running"},
                        fence : 0 .. MaxGeneration]
    BY <2>1, RowsFacts
  <2>3. Ledgers'
    BY <2>1, Following DEF FanoutInv, Ledgers
  <2>4. Spending' = Spending /\ Spending \in Nat
    BY Following, SpendingFacts DEF Spending, FanoutInv
  <2>5. Spending' <= Spending
    BY <2>4
  <2> QED
    BY <1>1, <1>2, <2>2, <2>3, <2>5, RowsFacts, FanoutFollows DEF GoesOn
<1> QED
  BY <1>3, <1>4

LEMMA FailDroppedKeeps ==
    ASSUME Fanout!FanoutConstants, FanoutInv, NEW w \in Workers, Fanout!FailDropped(w)
    PROVE  FanoutInv'
BY FinalizeKeeps DEF Fanout!FailDropped

LEMMA ConcludeKeeps ==
    ASSUME Fanout!FanoutConstants, FanoutInv, NEW w \in Workers, Fanout!Conclude(w)
    PROVE  FanoutInv'
<1>1. Fanout!FinalStatus(w) \in {"completed", "failed", "cancelled"}
  BY DEF Fanout!FinalStatus
<1> QED
  BY <1>1, FinalizeKeeps DEF Fanout!Conclude

LEMMA RecoverKeeps ==
    ASSUME Fanout!FanoutConstants, FanoutInv, NEW w \in Workers, Fanout!Recover(w)
    PROVE  FanoutInv'
<1>1. UNCHANGED <<lease, spent, faults>> /\ worker[w].pc = "recover"
  BY DEF Fanout!Recover
<1>2. CASE Fanout!Goto(w, "release") /\ UNCHANGED <<execution, shard, calls>>
  <2>1. /\ Moves(w) /\ worker'[w].generation = worker[w].generation
        /\ worker'[w].pc = "release"
    BY <1>2, GotoMoves
  <2>2. Pledge(worker'[w]) = 0
    BY <2>1 DEF Pledge
  <2> QED
    BY <1>1, <1>2, <2>1, <2>2, RequestKeeps, RowsFacts
<1>3. CASE Fanout!Holds(w) /\ execution.status = "running"
  <2>1. /\ execution' = [execution EXCEPT !.fence = worker[w].generation]
        /\ shard' = [s \in Shards |-> IF shard[s].status = "running"
                                      THEN [status |-> "pending", current |-> 0]
                                      ELSE shard[s]]
        /\ calls' = Fanout!Unknown("abandoned")
        /\ worker' = [worker EXCEPT ![w].pc = IF worker[w].found THEN "verify" ELSE "run",
                                    ![w].task = IF worker[w].found THEN @
                                                ELSE Fanout!Tasks(shard')]
    BY <1>3 DEF Fanout!Recover
  <2>2. /\ execution' \in [status : {"completed", "failed", "cancelled", "none", "running"},
                           fence : 0 .. MaxGeneration]
        /\ execution'.status = "running"
    BY <1>3, <2>1, RowsFacts DEF WorkerRow
  <2>3. /\ calls' \in [Shards -> Seq(CallRow)]
        /\ \A s \in Shards : Len(calls'[s]) <= MaxAttempts
        /\ Spending' <= Spending
    BY <1>1, <2>1, UnknownKeeps
  <2>4. ASSUME NEW s \in Shards PROVE shard'[s] \in ShardRow /\ Agrees(shard'[s], calls'[s])
    <3> DEFINE new == [status |-> "pending", current |-> 0]
    <3>1. new \in ShardRow /\ new.current \in {0, Len(calls[s])}
          /\ new.status \notin {"running", "completed"}
      BY ChargesAreNatural DEF ShardRow
    <3>2. CASE shard[s].status = "running"
      <4>1. shard'[s] = new
        BY <2>1, <3>2
      <4> HIDE DEF new
      <4> QED
        BY <1>1, <2>1, <3>1, <3>2, <4>1, UnknownKeeps
    <3>3. CASE shard[s].status # "running"
      <4>1. shard'[s] = shard[s] /\ calls'[s] = calls[s]
        BY <1>1, <2>1, <3>3, UnknownKeeps
      <4> QED
        BY <4>1, RowsFacts DEF FanoutInv, Ledgers
    <3> QED
      BY <3>2, <3>3
  <2>5. shard' \in [Shards -> ShardRow]
    <3>1. shard' = [s \in Shards |-> shard'[s]]
      BY <2>1
    <3> QED
      BY <2>4, <3>1
  <2>6. Ledgers'
    BY <2>2, <2>4, Following
  <2> DEFINE pc == IF worker[w].found THEN "verify" ELSE "run"
             kept == worker[w].found
             task == IF worker[w].found THEN worker[w].task ELSE Fanout!Tasks(shard')
  <2>7. /\ Moves(w) /\ worker'[w].generation = worker[w].generation
        /\ worker'[w].pc = pc
    <3>1. worker' = [worker EXCEPT ![w].pc = pc, ![w].found = kept, ![w].task = task]
      BY <2>1, RowsFacts DEF WorkerRow
    <3>2. /\ pc \in {"run", "verify"} /\ kept \in BOOLEAN
          /\ task \in [Shards -> [state : {"none", "todo", "calling", "done"},
                                  attempt : 0 .. MaxAttempts]]
      BY TasksFacts, RowsFacts DEF WorkerRow
    <3> HIDE DEF pc, kept, task
    <3> QED
      BY <3>1, <3>2, TaskMoves
  <2>8. Pledge(worker'[w]) <= Pledge(worker[w])
    <3>1. CASE worker[w].found
      <4>1. Pledge(worker'[w]) = 0
        BY <2>7, <3>1 DEF Pledge
      <4> QED
        BY <4>1, PledgeFacts
    <3>2. CASE ~worker[w].found
      <4>1. Pledge(worker[w]) = Cardinality(Shards)
        BY <1>1, <3>2 DEF Pledge
      <4>2. Pledge(worker'[w]) = Cardinality(Todo(worker'[w]))
        BY <2>7, <3>2 DEF Pledge
      <4>3. Todo(worker'[w]) \in SUBSET Shards
        BY DEF Todo
      <4> QED
        BY <4>1, <4>2, <4>3, PledgeFacts
    <3> QED
      BY <3>1, <3>2
  <2> QED
    BY <1>1, <2>2, <2>3, <2>5, <2>6, <2>7, <2>8, RowsFacts, FanoutFollows DEF GoesOn
<1> QED
  BY <1>1, <1>2, <1>3 DEF Fanout!Recover

LEMMA CreateKeeps ==
    ASSUME Fanout!FanoutConstants, FanoutInv, NEW w \in Workers, Fanout!Create(w)
    PROVE  FanoutInv'
<1>1. UNCHANGED <<lease, shard, calls, spent, faults>> /\ worker[w].pc = "create"
  BY DEF Fanout!Create
<1>2. Pledge(worker[w]) = Cardinality(Shards)
  BY <1>1 DEF Pledge
<1>3. CASE Fanout!Goto(w, IF Fanout!Holds(w) THEN "recover" ELSE "release") /\ UNCHANGED execution
  <2>1. /\ Moves(w) /\ worker'[w].generation = worker[w].generation
        /\ worker'[w].pc \in {"recover", "release"}
    BY <1>3, GotoMoves
  <2>2. Pledge(worker'[w]) = 0 \/ Pledge(worker'[w]) = Cardinality(Shards)
    BY <2>1 DEF Pledge
  <2>3. Pledge(worker'[w]) = 0 \/ Pledge(worker'[w]) <= Pledge(worker[w])
    BY <1>2, <2>2, PledgeFacts
  <2> QED
    BY <1>1, <1>3, <2>1, <2>3, RequestKeeps, RowsFacts
<1>4. CASE /\ execution' = [status |-> "running", fence |-> worker[w].generation]
           /\ worker' = [worker EXCEPT ![w].pc = "run", ![w].task = Fanout!Tasks(shard)]
  <2>1. /\ execution' \in [status : {"completed", "failed", "cancelled", "none", "running"},
                           fence : 0 .. MaxGeneration]
        /\ execution'.status = "running"
    BY <1>4, RowsFacts DEF WorkerRow
  <2>2. Ledgers'
    BY <1>1, <2>1, Following DEF FanoutInv, Ledgers
  <2>3. Spending' = Spending /\ Spending \in Nat
    BY <1>1, Following, SpendingFacts DEF Spending, FanoutInv
  <2>4. Spending' <= Spending
    BY <2>3
  <2> DEFINE kept == worker[w].found
             task == Fanout!Tasks(shard)
  <2>5. /\ Moves(w) /\ worker'[w].generation = worker[w].generation
        /\ worker'[w].pc = "run"
    <3>1. worker' = [worker EXCEPT ![w].pc = "run", ![w].found = kept, ![w].task = task]
      BY <1>4, RowsFacts DEF WorkerRow
    <3>2. /\ kept \in BOOLEAN
          /\ task \in [Shards -> [state : {"none", "todo", "calling", "done"},
                                  attempt : 0 .. MaxAttempts]]
      BY TasksFacts, RowsFacts DEF WorkerRow
    <3> HIDE DEF kept, task
    <3> QED
      BY <3>1, <3>2, TaskMoves
  <2>6. Pledge(worker'[w]) <= Pledge(worker[w])
    <3>1. Pledge(worker'[w]) = Cardinality(Todo(worker'[w]))
      BY <2>5 DEF Pledge
    <3>2. Todo(worker'[w]) \in SUBSET Shards
      BY DEF Todo
    <3> QED
      BY <1>2, <3>1, <3>2, PledgeFacts
  <2> QED
    BY <1>1, <2>1, <2>2, <2>4, <2>5, <2>6, RowsFacts, FanoutFollows DEF GoesOn
<1> QED
  BY <1>3, <1>4 DEF Fanout!Create

\* A goroutine returns.
LEMMA ReturnFacts ==
    ASSUME Fanout!FanoutConstants, FanoutInv, NEW w \in Workers, NEW s \in Shards,
           NEW failed \in BOOLEAN, Fanout!Return(w, s, failed), worker[w].pc = "run"
    PROVE  /\ Moves(w) /\ worker'[w].generation = worker[w].generation
           /\ Pledge(worker'[w]) <= Pledge(worker[w])
<1> DEFINE row == worker[w]
           task == [row.task EXCEPT ![s].state = "done"]
           lost == row.failed \/ failed
           new == [row EXCEPT !.task = task, !.failed = lost]
<1>1. row \in WorkerRow /\ worker \in [Workers -> WorkerRow]
  BY RowsFacts
<1>2. worker' = [worker EXCEPT ![w] = new]
  BY <1>1 DEF Fanout!Return, WorkerRow
<1>3. /\ task \in [Shards -> [state : {"none", "todo", "calling", "done"},
                             attempt : 0 .. MaxAttempts]]
      /\ {x \in Shards : task[x].state = "todo"} \subseteq Todo(row)
  BY <1>1 DEF WorkerRow, Todo
<1>4. lost \in BOOLEAN
  BY <1>1 DEF WorkerRow
<1> HIDE DEF task, lost, row
<1>5. /\ new \in WorkerRow /\ new.generation = row.generation /\ new.task = task
      /\ new.pc = row.pc
  BY <1>1, <1>3, <1>4 DEF WorkerRow
<1> HIDE DEF new
<1>6. worker'[w] = new /\ \A v \in Workers \ {w} : worker'[v] = worker[v]
  BY <1>1, <1>2
<1>7. worker' \in [Workers -> WorkerRow]
  BY <1>1, <1>2, <1>5
<1>8. Pledge(new) <= Pledge(row)
  <2>1. Todo(new) \in SUBSET Todo(row)
    BY <1>3, <1>5 DEF Todo
  <2>2. IsFiniteSet(Todo(row))
    BY PledgeFacts
  <2>3. Cardinality(Todo(new)) <= Cardinality(Todo(row))
    BY <2>1, <2>2, FS_Subset
  <2>4. Pledge(new) = Cardinality(Todo(new)) /\ Pledge(row) = Cardinality(Todo(row))
    BY <1>5 DEF Pledge, row
  <2> QED
    BY <2>3, <2>4
<1> QED
  BY <1>5, <1>6, <1>7, <1>8 DEF Moves, row

\* The outcome of the call of a shard is written.
LEMMA OutcomeFacts ==
    ASSUME Fanout!FanoutConstants, FanoutInv, NEW s \in Shards, shard[s].status = "running",
           execution.status = "running", NEW status \in {"completed", "failed", "cancelled"},
           NEW charge \in Usages \cup {ShardTokens}, Fanout!Outcome(s, status, charge),
           UNCHANGED <<execution, spent>>
    PROVE  /\ shard' \in [Shards -> ShardRow] /\ calls' \in [Shards -> Seq(CallRow)]
           /\ \A x \in Shards : Len(calls'[x]) <= MaxAttempts
           /\ Ledgers' /\ Spending' <= Spending
<1> DEFINE row == shard[s]
           q == calls[s]
           n == Len(q)
           c == [status |-> status, charge |-> charge]
           new == [row EXCEPT !.status = status]
           p == [q EXCEPT ![n] = c]
<1>1. /\ row \in ShardRow /\ q \in Seq(CallRow) /\ Agrees(row, q)
      /\ shard \in [Shards -> ShardRow] /\ calls \in [Shards -> Seq(CallRow)]
  BY RowsFacts DEF FanoutInv, Ledgers
<1>2. shard' = [shard EXCEPT ![s] = new] /\ calls' = [calls EXCEPT ![s] = p]
  BY DEF Fanout!Outcome, Fanout!Ended
<1>3. c \in CallRow /\ c.status = status
  BY DEF CallRow
<1>4. row.status = "running"
  OBVIOUS
<1> HIDE DEF row, c
<1>5. new \in ShardRow /\ new = [status |-> status, current |-> n] /\ n \in Nat
  <2>1. row.current = n /\ n \in Nat
    BY <1>1, <1>4 DEF Agrees
  <2> HIDE DEF n, p
  <2> QED
    BY <1>1, <2>1 DEF ShardRow
<1> HIDE DEF new
<1>6. /\ new.current \in {0, Len(q)} /\ c.status # "started"
      /\ \/ c.status = "completed" /\ new = [status |-> "completed", current |-> Len(q)]
         \/ c.status # "completed" /\ new.status \notin {"running", "completed"}
  BY <1>3, <1>5
<1> HIDE DEF q
<1>7. /\ Agrees(new, [q EXCEPT ![Len(q)] = c])
      /\ Len(q) \in DOMAIN q /\ q[Len(q)].charge = ShardTokens
  BY <1>1, <1>3, <1>4, <1>5, <1>6, CallEnds
<1>8. /\ p \in Seq(CallRow) /\ SumUp(Counts(p)) <= SumUp(Counts(q))
  <2>1. n \in DOMAIN calls[s] /\ q = calls[s]
    BY <1>7 DEF q
  <2> HIDE DEF n
  <2>2. /\ p \in Seq(CallRow)
        /\ SumUp(Counts(p)) = (SumUp(Counts(q)) - Count(q[n])) + Count(c)
        /\ Count(c) \in Nat /\ Count(c) <= ShardTokens
    BY <1>1, <1>3, <2>1, CallReplaced
  <2>3. Count(q[n]) = ShardTokens /\ ShardTokens \in Nat
    BY <1>7, ChargesAreNatural DEF Count, n
  <2>4. SumUp(Counts(q)) \in Int
    BY <1>1, CountsFacts, SumUpFacts
  <2> DEFINE a == SumUp(Counts(q))
             b == SumUp(Counts(p))
             d == Count(c)
  <2> HIDE DEF a, b, d
  <2>5. b = (a - ShardTokens) + d /\ a \in Int /\ d \in Nat /\ d <= ShardTokens
    BY <2>2, <2>3, <2>4 DEF a, b, d
  <2>6. b <= a
    BY <2>3, <2>5
  <2> QED
    BY <2>2, <2>6 DEF a, b
<1>9. shard' \in [Shards -> ShardRow] /\ calls' \in [Shards -> Seq(CallRow)]
  BY <1>1, <1>2, <1>5, <1>8
<1>10. \A x \in Shards : Len(calls'[x]) <= MaxAttempts
  <2>1. Len(p) = Len(q)
    BY <1>1
  <2> HIDE DEF p
  <2>2. calls'[s] = p /\ \A x \in Shards \ {s} : calls'[x] = calls[x]
    BY <1>1, <1>2
  <2>3. \A x \in Shards : Len(calls[x]) <= MaxAttempts
    BY RowsFacts
  <2> QED
    BY <2>1, <2>2, <2>3 DEF q
<1>11. Ledgers'
  <2> HIDE DEF p
  <2>1. /\ shard'[s] = new /\ calls'[s] = p
        /\ \A x \in Shards \ {s} : shard'[x] = shard[x] /\ calls'[x] = calls[x]
    BY <1>1, <1>2
  <2>2. Agrees(new, p)
    BY <1>7 DEF p
  <2>3. \A x \in Shards : Agrees(shard'[x], calls'[x])
    BY <2>1, <2>2 DEF FanoutInv, Ledgers
  <2>4. execution'.status = "running"
    OBVIOUS
  <2> QED
    BY <2>3, <2>4, Following
<1>12. Spending' <= Spending
  <2> HIDE DEF p
  <2>1. Capped(calls') = (Capped(calls) - SumUp(Counts(q))) + SumUp(Counts(p))
    BY <1>1, <1>2, <1>8, CappedChanges DEF q
  <2>2. SumUp(Counts(q)) \in Int /\ SumUp(Counts(p)) \in Int /\ Capped(calls) \in Int
    BY <1>1, <1>8, CountsFacts, SumUpFacts, SumsAreNatural
  <2> DEFINE a == SumUp(Counts(q))
             b == SumUp(Counts(p))
             d == Capped(calls)
             e == Capped(calls')
  <2> HIDE DEF a, b, d, e
  <2>3. e = (d - a) + b /\ a \in Int /\ b \in Int /\ d \in Int /\ b <= a
    BY <1>8, <2>1, <2>2 DEF a, b, d, e
  <2>4. e <= d /\ e \in Int
    BY <2>3
  <2>5. spent \in Nat
    BY RowsFacts, ChargesAreNatural
  <2>6. spent + e <= spent + d
    BY <2>3, <2>4, <2>5
  <2> QED
    BY <2>6, Following DEF Spending, e, d
<1> QED
  BY <1>9, <1>10, <1>11, <1>12

LEMMA AnswerKeeps ==
    ASSUME Fanout!FanoutConstants, FanoutInv, NEW w \in Workers, NEW s \in Shards,
           Fanout!Answer(w, s)
    PROVE  FanoutInv'
<1>1. /\ UNCHANGED <<lease, execution, spent>> /\ worker[w].pc = "run"
      /\ faults' \in 0 .. MaxFaults
  BY FaultFacts DEF Fanout!Answer, Fanout!InTask
<1>2. /\ Moves(w) /\ worker'[w].generation = worker[w].generation
      /\ Pledge(worker'[w]) <= Pledge(worker[w])
  BY <1>1, ReturnFacts DEF Fanout!Answer
<1>3. CASE UNCHANGED <<shard, calls>>
  BY <1>1, <1>2, <1>3, RequestKeeps
<1>4. CASE /\ Fanout!Current(w, s)
           /\ \E status \in {"completed", "failed", "cancelled"}, u \in Usages \cup {ShardTokens} :
                  Fanout!Outcome(s, status, u)
  <2>1. shard[s].status = "running" /\ execution.status = "running"
    BY <1>4 DEF Fanout!Current
  <2> QED
    BY <1>1, <1>2, <1>4, <2>1, OutcomeFacts, RowsFacts, FanoutFollows DEF GoesOn
<1> QED
  BY <1>3, <1>4 DEF Fanout!Answer

\* A goroutine is calling.
LEMMA CallingMoves ==
    ASSUME FanoutInv, NEW w \in Workers, NEW s \in Shards, NEW n \in 0 .. MaxAttempts,
           worker' = [worker EXCEPT ![w].task[s] = [state |-> "calling", attempt |-> n]]
    PROVE  /\ Moves(w) /\ worker'[w].generation = worker[w].generation
           /\ worker'[w].pc = worker[w].pc
           /\ worker'[w].task = [worker[w].task EXCEPT ![s] = [state |-> "calling", attempt |-> n]]
<1> DEFINE row == worker[w]
           task == [row.task EXCEPT ![s] = [state |-> "calling", attempt |-> n]]
<1>1. row \in WorkerRow /\ worker \in [Workers -> WorkerRow]
  BY RowsFacts
<1> DEFINE new == [row EXCEPT !.task = task]
<1>2. worker' = [worker EXCEPT ![w] = new]
  BY <1>1
<1>3. task \in [Shards -> [state : {"none", "todo", "calling", "done"},
                          attempt : 0 .. MaxAttempts]]
  BY <1>1 DEF WorkerRow
<1> HIDE DEF task, row
<1>4. /\ new \in WorkerRow /\ new.generation = row.generation /\ new.task = task
      /\ new.pc = row.pc
  BY <1>1, <1>3 DEF WorkerRow
<1> HIDE DEF new
<1>5. worker'[w] = new /\ \A v \in Workers \ {w} : worker'[v] = worker[v]
  BY <1>1, <1>2
<1>6. worker' \in [Workers -> WorkerRow]
  BY <1>1, <1>2, <1>4
<1> QED
  BY <1>4, <1>5, <1>6 DEF Moves, row, task

\* A goroutine starts its call, which the request had pledged.
LEMMA StartsKeeps ==
    ASSUME Fanout!FanoutConstants, FanoutInv, NEW w \in Workers, NEW s \in Shards,
           Fanout!InTask(w, s, "todo"), Fanout!Startable(w, s),
           shard' = [shard EXCEPT ![s] = [status |-> "running", current |-> Len(calls[s]) + 1]],
           calls' = [calls EXCEPT ![s] = Append(@, [status |-> "started", charge |-> ShardTokens])],
           worker' = [worker EXCEPT ![w].task[s] =
                          [state |-> "calling", attempt |-> Len(calls[s]) + 1]],
           UNCHANGED <<lease, execution, spent, faults>>
    PROVE  FanoutInv'
<1> DEFINE q == calls[s]
           n == Len(q)
           c == [status |-> "started", charge |-> ShardTokens]
           new == [status |-> "running", current |-> n + 1]
           task == [worker[w].task EXCEPT ![s] = [state |-> "calling", attempt |-> n + 1]]
<1>1. /\ worker[w].pc = "run" /\ worker[w].task[s].state = "todo" /\ Fanout!Holds(w)
      /\ shard[s].status = "pending" /\ n < MaxAttempts
  BY DEF Fanout!InTask, Fanout!Startable, Fanout!Owns
<1>2. /\ shard[s] \in ShardRow /\ q \in Seq(CallRow) /\ Agrees(shard[s], q)
      /\ shard \in [Shards -> ShardRow] /\ calls \in [Shards -> Seq(CallRow)]
      /\ worker[w] \in WorkerRow
  BY RowsFacts DEF FanoutInv, Ledgers
<1>3. n \in Nat /\ n + 1 \in 0 .. MaxAttempts /\ MaxAttempts \in Nat
  BY <1>1, <1>2, ChargesAreNatural
<1>4. c \in CallRow /\ new \in ShardRow
  BY <1>3 DEF CallRow, ShardRow
<1>5. Agrees(new, Append(q, c))
  BY <1>1, <1>2, CallStarts
<1>6. /\ Moves(w) /\ worker'[w].generation = worker[w].generation
      /\ worker'[w].pc = "run" /\ worker'[w].task = task
  BY <1>1, <1>3, CallingMoves
<1>7. /\ calls' \in [Shards -> Seq(CallRow)] /\ Capped(calls') = Capped(calls) + ShardTokens
  <2>1. Count(c) = ShardTokens
    BY ChargesAreNatural DEF Count
  <2>2. calls' = [calls EXCEPT ![s] = Append(@, c)]
    OBVIOUS
  <2> HIDE DEF c
  <2>3. /\ [calls EXCEPT ![s] = Append(@, c)] \in [Shards -> Seq(CallRow)]
        /\ Capped([calls EXCEPT ![s] = Append(@, c)]) = Capped(calls) + Count(c)
    BY <1>2, <1>4, CallAppended
  <2> QED
    BY <2>1, <2>2, <2>3
<1>8. Rows'
  <2>1. shard' \in [Shards -> ShardRow]
    BY <1>2, <1>4
  <2>2. \A x \in Shards : Len(calls'[x]) <= MaxAttempts
    <3>1. Len(calls'[s]) = n + 1 /\ \A x \in Shards \ {s} : calls'[x] = calls[x]
      BY <1>2
    <3>2. n + 1 <= MaxAttempts
      BY <1>3
    <3> QED
      BY <3>1, <3>2, RowsFacts
  <2> QED
    BY <1>6, <1>7, <2>1, <2>2, RowsFacts DEF Rows, Moves, ShardRow, CallRow, WorkerRow
<1>9. Leases'
  BY <1>6, RowsFacts, LeasesKeep DEF GoesOn
<1>10. Ledgers'
  <2>1. /\ shard'[s] = new /\ calls'[s] = Append(q, c)
        /\ \A x \in Shards \ {s} : shard'[x] = shard[x] /\ calls'[x] = calls[x]
    BY <1>2
  <2>2. \A x \in Shards : Agrees(shard'[x], calls'[x])
    BY <1>5, <2>1 DEF FanoutInv, Ledgers
  <2>3. execution'.status \notin {"completed", "failed", "cancelled"}
    BY <1>1 DEF FanoutInv, Ledgers
  <2> QED
    BY <2>2, <2>3, Following
<1>11. Budgets'
  <2> DEFINE a == Spending
             b == Spending'
             m == Pledge(worker[w])
             k == Pledge(worker'[w])
             r == ShardTokens
  <2>1. a \in Nat /\ r \in Nat /\ Budget \in Nat /\ spent \in Nat /\ Capped(calls) \in Nat
    BY SpendingFacts, RowsFacts, ChargesAreNatural DEF FanoutInv
  <2>2. b = a + r
    BY <1>7, <2>1, Following DEF Spending
  <2>3. a + r * m <= Budget
    BY <1>1 DEF FanoutInv, Budgets
  <2>4. m \in Nat /\ k \in Nat /\ m = k + 1
    <3>1. m = Cardinality(Todo(worker[w])) /\ k = Cardinality(Todo(worker'[w]))
      BY <1>1, <1>6 DEF Pledge
    <3>2. Todo(worker'[w]) = Todo(worker[w]) \ {s} /\ s \in Todo(worker[w])
      BY <1>1, <1>2, <1>6 DEF Todo, WorkerRow
    <3>3. IsFiniteSet(Todo(worker[w])) /\ Cardinality(Todo(worker[w])) \in Nat
          /\ Cardinality(Todo(worker'[w])) \in Nat
      BY PledgeFacts
    <3>4. Cardinality(Todo(worker[w]) \ {s}) = Cardinality(Todo(worker[w])) - 1
      BY <3>2, <3>3, FS_RemoveElement
    <3> DEFINE x == Cardinality(Todo(worker[w]))
               y == Cardinality(Todo(worker'[w]))
    <3>5. y = x - 1
      BY <3>2, <3>4
    <3>6. x \in Nat /\ y \in Nat /\ m = x /\ k = y
      BY <3>1, <3>3
    <3> HIDE DEF x, y, m, k
    <3> QED
      BY <3>5, <3>6
  <2> HIDE DEF a, b, m, k, r
  <2>5. r * m = r * k + r /\ r * k \in Nat
    BY <2>1, <2>4
  <2>6. b + r * k <= Budget /\ b <= Budget
    BY <2>1, <2>2, <2>3, <2>5
  <2>7. \A v \in Workers \ {w} : ~Fanout!Holds(v)'
    <3>1. lease.generation = worker[w].generation /\ lease.generation > 0
      BY <1>1 DEF Fanout!Holds, FanoutInv, Leases
    <3>2. lease.generation # 0
      BY <3>1
    <3>3. \A v \in Workers \ {w} : worker'[v].generation # lease.generation
      BY <1>6, <3>1, <3>2 DEF Moves, FanoutInv, Leases
    <3> QED
      BY <3>3, Following
  <2>8. Pledge(worker[w])' = k
    BY Following DEF k
  <2>9. \A v \in Workers :
            Fanout!Holds(v)' => b + ShardTokens * Pledge(worker[v])' <= Budget
    BY <2>6, <2>7, <2>8 DEF r
  <2> QED
    BY <2>6, <2>9 DEF Budgets, b
<1> QED
  BY <1>8, <1>9, <1>10, <1>11 DEF FanoutInv

LEMMA StartKeeps ==
    ASSUME Fanout!FanoutConstants, FanoutInv, NEW w \in Workers, NEW s \in Shards,
           Fanout!Start(w, s)
    PROVE  FanoutInv'
<1>1. UNCHANGED <<lease, execution, spent, faults>> /\ Fanout!InTask(w, s, "todo")
  BY DEF Fanout!Start
<1>2. CASE Fanout!Return(w, s, TRUE) /\ UNCHANGED <<shard, calls>>
  <2>1. worker[w].pc = "run"
    BY <1>1 DEF Fanout!InTask
  <2> QED
    BY <1>1, <1>2, <2>1, ReturnFacts, RequestKeeps, RowsFacts
<1> QED
  BY <1>1, <1>2, StartsKeeps DEF Fanout!Start

LEMMA OthersOfFanout ==
    ASSUME Fanout!FanoutConstants, FanoutInv,
           Fanout!Lapse \/ Fanout!Turn \/ Fanout!Cancel \/ UNCHANGED Fanout!vars
    PROVE  FanoutInv'
<1>1. UNCHANGED <<execution, shard, calls, worker, faults>>
  BY DEF Fanout!Lapse, Fanout!Turn, Fanout!Cancel, Fanout!vars
<1>2. CASE UNCHANGED Fanout!vars
  <2>1. UNCHANGED <<lease, execution, shard, calls, spent, worker, faults>>
    BY <1>2 DEF Fanout!vars
  <2>2. Rows'
    BY <2>1 DEF FanoutInv, Rows
  <2>3. Leases'
    BY <2>1 DEF FanoutInv, Leases
  <2>4. Ledgers' /\ Spending' = Spending
    BY <2>1, Following, LedgersStay DEF Spending
  <2>5. Budgets'
    BY <2>1, <2>4, Following DEF FanoutInv, Budgets, Fanout!Holds
  <2> QED
    BY <2>2, <2>3, <2>4, <2>5 DEF FanoutInv
<1>3. CASE Fanout!Lapse \/ Fanout!Turn \/ Fanout!Cancel
  <2>1. /\ lease' \in [generation : 0 .. MaxGeneration, active : BOOLEAN] /\ ~lease'.active
        /\ lease.generation <= lease'.generation
        /\ lease.generation \in Nat /\ lease'.generation \in Nat
        /\ \A v \in Workers : worker[v].generation \in Nat
    <3>1. MaxGeneration \in Nat /\ lease.generation \in 0 .. MaxGeneration
          /\ \A v \in Workers : worker[v].generation \in 0 .. MaxGeneration
      BY ChargesAreNatural, RowsFacts DEF WorkerRow
    <3> DEFINE g == lease.generation + 1
    <3>2. CASE Fanout!Lapse
      <4>1. lease' = [lease EXCEPT !.active = FALSE]
        BY <3>2 DEF Fanout!Lapse
      <4>2. lease \in [generation : 0 .. MaxGeneration, active : BOOLEAN]
        BY RowsFacts
      <4>3. /\ lease' \in [generation : 0 .. MaxGeneration, active : BOOLEAN]
            /\ lease'.active = FALSE /\ lease'.generation = lease.generation
        BY <4>1, <4>2
      <4> QED
        BY <3>1, <4>3
    <3>3. CASE Fanout!Turn \/ Fanout!Cancel
      <4>1. lease' = [lease EXCEPT !.generation = g] /\ ~lease.active
            /\ lease.generation < MaxGeneration
        BY <3>3, RowsFacts DEF Fanout!Turn, Fanout!Cancel
      <4>2. g \in 0 .. MaxGeneration /\ lease.generation <= g
        BY <3>1, <4>1
      <4>3. lease \in [generation : 0 .. MaxGeneration, active : BOOLEAN]
        BY RowsFacts
      <4> HIDE DEF g
      <4>4. /\ lease' \in [generation : 0 .. MaxGeneration, active : BOOLEAN]
            /\ lease'.active = lease.active /\ lease'.generation = g
        BY <4>1, <4>2, <4>3
      <4>5. g \in Nat
        BY <3>1 DEF g
      <4> QED
        BY <3>1, <4>1, <4>2, <4>4, <4>5
    <3> QED
      BY <1>3, <3>2, <3>3
  <2>2. spent' \in 0 .. Budget /\ Spending' <= Budget
    <3> DEFINE u == Fanout!Usage
               x == Capped(calls)
    <3>1. /\ spent \in 0 .. Budget /\ Budget \in Nat /\ u \in Nat /\ spent <= u /\ spent + x <= u
          /\ x \in Nat /\ spent + x <= Budget
      BY SpendingFacts, RowsFacts, ChargesAreNatural DEF FanoutInv, Budgets, Spending
    <3>2. spent' = spent \/ (spent' = spent + 1 /\ u < Budget)
      BY <1>3 DEF Fanout!Lapse, Fanout!Turn, Fanout!Cancel
    <3>3. Spending' = spent' + x
      BY <1>1, Following
    <3> HIDE DEF u, x
    <3>4. spent' \in 0 .. Budget /\ spent' + x <= Budget
      BY <3>1, <3>2
    <3> QED
      BY <3>3, <3>4
  <2>3. Rows'
    BY <1>1, <2>1, <2>2, RowsFacts DEF Rows, ShardRow, CallRow, WorkerRow
  <2>4. Leases'
    <3>1. \A v \in Workers : worker'[v].generation <= lease'.generation
      BY <1>1, <2>1 DEF FanoutInv, Leases
    <3> QED
      BY <1>1, <2>1, <3>1 DEF FanoutInv, Leases
  <2>5. Ledgers'
    BY <1>1, Following DEF FanoutInv, Ledgers
  <2>6. \A v \in Workers : ~Fanout!Holds(v)'
    BY <2>1, Following
  <2>7. Budgets'
    BY <2>2, <2>6 DEF Budgets
  <2> QED
    BY <2>3, <2>4, <2>5, <2>7 DEF FanoutInv
<1> QED
  BY <1>2, <1>3

LEMMA InitFanoutInv == ASSUME Fanout!FanoutConstants, Fanout!Init PROVE FanoutInv
<1>1. 0 \in 0 .. MaxGeneration /\ 0 \in 0 .. MaxAttempts /\ 0 \in 0 .. Budget
      /\ 0 \in 0 .. MaxFaults /\ Budget \in Nat /\ MaxAttempts \in Nat
  BY ChargesAreNatural
<1>2. \A w \in Workers : /\ worker[w] \in WorkerRow /\ worker[w].generation = 0
                         /\ worker[w].pc = "idle"
  BY <1>1 DEF Fanout!Init, Fanout!Idle, Fanout!NoTask, WorkerRow
<1>3. calls = [s \in Shards |-> << >>] /\ calls \in [Shards -> Seq(CallRow)]
  <2>1. << >> \in Seq(CallRow)
    OBVIOUS
  <2> QED
    BY <2>1 DEF Fanout!Init
<1>4. Rows
  <2>1. worker \in [Workers -> WorkerRow]
    BY <1>2 DEF Fanout!Init
  <2>2. shard \in [Shards -> ShardRow]
    BY <1>1 DEF Fanout!Init, ShardRow
  <2>3. \A s \in Shards : Len(calls[s]) <= MaxAttempts
    BY <1>1, <1>3
  <2>4. /\ lease \in [generation : 0 .. MaxGeneration, active : BOOLEAN]
        /\ execution \in [status : {"completed", "failed", "cancelled", "none", "running"},
                          fence : 0 .. MaxGeneration]
        /\ spent \in 0 .. Budget /\ faults \in 0 .. MaxFaults
    BY <1>1 DEF Fanout!Init
  <2> QED
    BY <1>3, <2>1, <2>2, <2>3, <2>4 DEF Rows
<1>5. Leases
  BY <1>2 DEF Leases, Fanout!Init
<1>6. Ledgers
  <2>1. \A s \in Shards : Agrees(shard[s], << >>)
    BY <1>1 DEF Agrees, Fanout!Init
  <2> QED
    BY <1>3, <2>1 DEF Ledgers, Fanout!Init
<1>7. Budgets
  <2> DEFINE h == [s \in Shards |-> SumUp(Counts(calls[s]))]
  <2>1. Counts(<< >>) = << >>
    BY DEF Counts
  <2>2. \A s \in Shards : h[s] = 0
    BY <1>3, <2>1, SumUpEmpty
  <2> HIDE DEF h
  <2>3. Numbers(h, Shards) /\ IsFiniteSet(Shards)
    BY <2>2, ChargesAreNatural DEF Numbers
  <2>4. Total(h, Shards) = 0
    BY <2>2, <2>3, TotalIgnores, TotalEmpty
  <2>5. Spending = 0
    BY <2>4 DEF Spending, Capped, h, Fanout!Init
  <2>6. \A w \in Workers : ~Fanout!Holds(w)
    BY DEF Fanout!Holds, Fanout!Init
  <2> QED
    BY <1>1, <2>5, <2>6 DEF Budgets
<1> QED
  BY <1>4, <1>5, <1>6, <1>7 DEF FanoutInv

LEMMA NextFanoutInv ==
    ASSUME Fanout!FanoutConstants, FanoutInv, [Fanout!Next]_(Fanout!vars) PROVE FanoutInv'
BY AskKeeps, AcquireKeeps, RecoverKeeps, VerifyKeeps, CreateKeeps, DropKeeps, FailDroppedKeeps,
   GatherKeeps, ConcludeKeeps, InterruptKeeps, ReleaseOfKeeps, DieKeeps, StartKeeps, AnswerKeeps,
   OthersOfFanout DEF Fanout!Next

LEMMA FanoutInvHolds == ASSUME Fanout!FanoutConstants PROVE Fanout!Spec => []FanoutInv
BY InitFanoutInv, NextFanoutInv, PTL DEF Fanout!Spec

\* BeginReadOnlyFanoutModelCall admits no call over the budget of the Run, whoever has the
\* lease in between and however many calls were lost and made again; and the shards agree
\* with their calls also when a request writes after it has lost its lease.
THEOREM CallsAreAlwaysAdmitted ==
    ASSUME Fanout!FanoutConstants PROVE Fanout!Spec => []CallsAreAdmitted
<1>1. ASSUME FanoutInv PROVE CallsAreAdmitted
  <2>1. calls \in [Shards -> Seq(CallRow)] /\ DOMAIN shard = Shards
    BY <1>1, RowsFacts
  <2>2. ShardsAgree
    BY <1>1, <2>1 DEF FanoutInv, Ledgers, Agrees, ShardsAgree
  <2>3. spent + Capped(calls) <= Budget
    BY <1>1 DEF FanoutInv, Budgets, Spending
  <2>4. MapThenSumSet(LAMBDA s :
            FoldLeft(LAMBDA sum, c : sum + IF c.charge < ShardTokens THEN c.charge ELSE ShardTokens,
                     0, calls[s]), Shards) = Capped(calls)
    BY <2>1, PromisedSum
  <2> QED
    BY <2>1, <2>2, <2>3, <2>4 DEF CallsAreAdmitted
<1> QED
  BY <1>1, FanoutInvHolds, PTL

\* The rows of the execution, its shards and their calls, and what each worker remembers of
\* them, keep their types.
THEOREM FanoutTypes == ASSUME Fanout!FanoutConstants PROVE Fanout!Spec => []Fanout!TypeOK
<1>1. ASSUME FanoutInv PROVE Fanout!TypeOK
  <2>1. \A s \in Shards : \A n \in DOMAIN calls[s] : calls[s][n] \in CallRow
    BY <1>1, RowsFacts
  <2> QED
    BY <1>1, <2>1, RowsFacts DEF Fanout!TypeOK, Fanout!Terminal, WorkerRow, ShardRow, CallRow
<1> QED
  BY <1>1, FanoutInvHolds, PTL

-----------------------------------------------------------------------------
(* Delegation *)

Assignments == {k \in Proposals \X Nat : k[2] \in DOMAIN TurnsOf[k[1]]}
TaskKey == <<"task", 1>>

AgentRow == [key : Assignments \cup {TaskKey}, turns : Nat \ {0}]
MessageRow == [key : Assignments, to : Nat, read : BOOLEAN]
AssignmentRow == [status : {"pending", "admitted", "instructed"},
                  agent : 0 .. MaxChildren, message : 0 .. MaxChildren]
ApplicationRow == [status : {"none", "applying", "applied", "aborted"},
                   key : {KeyOf[a] : a \in Appliers} \cup {"none"},
                   assignment : Seq(AssignmentRow)]
ApplierRow == [pc : {"idle", "admit", "note", "send", "confirm", "complete"}, at : Nat,
               skip : SUBSET Nat, agent : Nat, message : Nat]

TeamRows ==
    /\ run \in {"running", "paused", "ended"} /\ root \in {"ready", "running"}
    /\ used \in 0 .. MaxTurns /\ busy \in BOOLEAN
    /\ proposal \in [Proposals -> {"none", "proposed", "approved", "rejected"}]
    /\ application \in [Proposals -> ApplicationRow]
    /\ agents \in Seq(AgentRow) /\ messages \in Seq(MessageRow)
    /\ applier \in [Appliers -> ApplierRow]

\* Of two rows with the same key there is one.
Distinct(rows) == \A m, n \in DOMAIN rows : rows[m].key = rows[n].key => m = n

\* Each Specialist of a proposal belongs to an application of it and has the turns that its
\* assignment asks for, and each instruction goes to the Specialist with its key.
Members ==
    /\ Distinct(agents) /\ Distinct(messages)
    /\ \A p \in Proposals : \A i \in DOMAIN TurnsOf[p] : \A n \in WithKey(agents, <<p, i>>) :
           application[p].status # "none" /\ agents[n].turns = TurnsOf[p][i]
    /\ \A m \in DOMAIN messages : messages[m].to \in WithKey(agents, messages[m].key)

\* The assignments of an application name Specialists and instructions that there are.
Noted(p, row) ==
    /\ DOMAIN row.assignment = IF row.status = "none" THEN {} ELSE DOMAIN TurnsOf[p]
    /\ row.status = "applied" =>
           \A i \in DOMAIN row.assignment : row.assignment[i].status = "instructed"
    /\ \A i \in DOMAIN row.assignment :
           /\ row.assignment[i].status # "pending" =>
                  row.assignment[i].agent \in WithKey(agents, <<p, i>>)
           /\ row.assignment[i].status = "instructed" =>
                  row.assignment[i].message \in WithKey(messages, <<p, i>>)

\* While an application is under way, there is no other one, and nothing else uses the
\* capacity of the root.
Alone ==
    /\ \A p \in Proposals :
           /\ application[p].status # "none" => proposal[p] = "approved"
           /\ application[p].status = "aborted" => run = "ended"
           /\ application[p].status = "applying" => run # "ended" /\ root = "ready" /\ ~busy
    /\ \A p, q \in Applying : p = q

\* What a request remembers of the rows that it has read is still so.
Remembers(a, row) ==
    /\ row.pc # "idle" => application[ProposalOf[a]].status # "none"
    /\ row.pc \in {"admit", "note", "send", "confirm"} => row.at \in DOMAIN TurnsOf[ProposalOf[a]]
    /\ row.pc \in {"note", "send", "confirm"} =>
           row.agent \in WithKey(agents, <<ProposalOf[a], row.at>>)
    /\ row.pc = "confirm" => row.message \in WithKey(messages, <<ProposalOf[a], row.at>>)

Missing(p) == {i \in DOMAIN TurnsOf[p] : WithKey(agents, <<p, i>>) = {}}
Need(p, some) == SumUp([i \in DOMAIN TurnsOf[p] |-> IF i \in some THEN TurnsOf[p][i] ELSE 0])
Turns(rows) == [n \in DOMAIN rows |-> rows[n].turns]

Capacity ==
    /\ used + SumUp(Turns(agents)) + (IF root = "running" THEN 1 ELSE 0) <= MaxTurns
    /\ Len(agents) <= MaxChildren
    /\ \A p \in Applying :
           /\ Len(agents) + Cardinality(Missing(p)) <= MaxChildren
           /\ used + SumUp(Turns(agents)) + Need(p, Missing(p)) < MaxTurns

Unread ==
    \A p \in Applying : \A i \in DOMAIN TurnsOf[p] \ Instructed(p) :
        \A m \in WithKey(messages, <<p, i>>) : ~messages[m].read

TeamInv ==
    /\ TeamRows /\ Members /\ Alone /\ Capacity /\ Unread
    /\ \A p \in Proposals : Noted(p, application[p])
    /\ \A a \in Appliers : Remembers(a, applier[a])

-----------------------------------------------------------------------------

LEMMA TeamFacts ==
    ASSUME Teams!DelegationConstants
    PROVE  /\ TurnsOf \in [Proposals -> Seq(Nat \ {0})]
           /\ ProposalOf \in [Appliers -> Proposals] /\ MaxTurns \in Nat /\ MaxChildren \in Nat
           /\ TaskTurns \subseteq Nat \ {0} /\ "task" \notin Proposals
           /\ \A p \in Proposals : /\ DOMAIN TurnsOf[p] = 1 .. Len(TurnsOf[p])
                                   /\ Len(TurnsOf[p]) \in Nat
                                   /\ IsFiniteSet(DOMAIN TurnsOf[p])
                                   /\ \A i \in DOMAIN TurnsOf[p] : TurnsOf[p][i] \in Nat \ {0}
                                                                   /\ i \in Nat \ {0}
           /\ \A p \in Proposals : \A i \in DOMAIN TurnsOf[p] : <<p, i>> \in Assignments
<1>1. /\ TurnsOf \in [Proposals -> Seq(Nat \ {0})]
      /\ ProposalOf \in [Appliers -> Proposals] /\ MaxTurns \in Nat /\ MaxChildren \in Nat
      /\ TaskTurns \subseteq Nat \ {0} /\ "task" \notin Proposals
  BY DEF Teams!DelegationConstants
<1>2. ASSUME NEW p \in Proposals
      PROVE  /\ DOMAIN TurnsOf[p] = 1 .. Len(TurnsOf[p]) /\ Len(TurnsOf[p]) \in Nat
             /\ IsFiniteSet(DOMAIN TurnsOf[p])
             /\ \A i \in DOMAIN TurnsOf[p] : TurnsOf[p][i] \in Nat \ {0} /\ i \in Nat \ {0}
  <2>1. TurnsOf[p] \in Seq(Nat \ {0})
    BY <1>1
  <2>2. DOMAIN TurnsOf[p] = 1 .. Len(TurnsOf[p]) /\ Len(TurnsOf[p]) \in Nat
    BY <2>1
  <2>3. IsFiniteSet(DOMAIN TurnsOf[p])
    <3>1. \A n \in Nat : IsFiniteSet(1 .. n)
      BY FS_Interval
    <3> QED
      BY <2>2, <3>1
  <2> QED
    BY <2>1, <2>2, <2>3
<1>3. \A p \in Proposals : \A i \in DOMAIN TurnsOf[p] : <<p, i>> \in Assignments
  BY <1>2 DEF Assignments
<1> QED
  BY <1>1, <1>2, <1>3

\* The operators of the module are those of the promises.
LEMMA SameTeams ==
    /\ Teams!Applying = Applying /\ \A p : Teams!Instructed(p) = Instructed(p)
    /\ \A rows, key : Teams!WithKey(rows, key) = WithKey(rows, key)
    /\ \A q : Teams!SumOf(q) = SumOf(q)
    /\ \A n, turns : Teams!Fits(n, turns) <=>
           /\ Len(agents) + n <= MaxChildren
           /\ MaxTurns - used - SumOf(Turns(agents)) - turns >= 1
    /\ Teams!ReservedTurns = SumOf(Turns(agents)) /\ ReservedTurns = SumOf(Turns(agents))
<1>1. /\ Teams!Applying = Applying /\ \A p : Teams!Instructed(p) = Instructed(p)
      /\ \A rows, key : Teams!WithKey(rows, key) = WithKey(rows, key)
  BY DEF Teams!Applying, Applying, Teams!Instructed, Instructed, Teams!WithKey, WithKey
<1>2. \A q : Teams!SumOf(q) = SumOf(q)
  BY DEF Teams!SumOf, SumOf, Teams!FoldSeq, FoldSeq, Teams!FoldFunction, FoldFunction,
     Teams!FoldFunctionOnSet, FoldFunctionOnSet, Teams!MapThenFoldSet, MapThenFoldSet
<1>3. Teams!ReservedTurns = SumOf(Turns(agents)) /\ ReservedTurns = SumOf(Turns(agents))
  BY <1>2 DEF Teams!ReservedTurns, ReservedTurns, Turns
<1>4. \A n, turns : Teams!Fits(n, turns) <=>
          /\ Len(agents) + n <= MaxChildren
          /\ MaxTurns - used - SumOf(Turns(agents)) - turns >= 1
  BY <1>3 DEF Teams!Fits
<1> QED
  BY <1>1, <1>2, <1>3, <1>4

LEMMA SumOfIs == ASSUME NEW q \in Seq(Int) PROVE SumOf(q) = SumUp(q)
<1> DEFINE S == DOMAIN q
           Good(it) == it = [T \in SUBSET S |-> IF T = {} THEN 0 ELSE
                LET x == CHOOSE x \in T : TRUE IN q[x] + it[T \ {x}]]
           pick == [T \in SUBSET S |-> CHOOSE x \in T : TRUE]
<1>1. SumOf(q) = (CHOOSE it : Good(it))[S]
  BY DEF SumOf, FoldSeq, FoldFunction, FoldFunctionOnSet, MapThenFoldSet
<1>2. Picks(pick, S) /\ Numbers(q, S) /\ IsFiniteSet(S)
  BY SumUpFacts DEF Picks
<1>3. ASSUME NEW it PROVE Good(it) <=> Folds(q, pick, S, it)
  BY DEF Folds
<1> HIDE DEF Good, pick
<1>4. Good(CHOOSE it : Good(it))
  BY <1>2, <1>3, FoldIsTotal
<1> QED
  BY <1>1, <1>2, <1>3, <1>4, FoldIsTotal DEF SumUp

\* A set of numbers has a least one.
LEMMA Least ==
    ASSUME NEW n \in Nat, NEW S \in SUBSET (1 .. n), S # {}
    PROVE  \E x \in S : \A y \in S : x <= y
<1> DEFINE Q == {T \in SUBSET S : T = {} \/ \E x \in T : \A y \in T : x <= y}
<1>1. {} \in Q /\ IsFiniteSet(S)
  <2>1. IsFiniteSet(1 .. n)
    BY FS_Interval
  <2> QED
    BY <2>1, FS_Subset
<1>2. ASSUME NEW T \in SUBSET S, T # {}, \A x \in T : T \ {x} \in Q PROVE T \in Q
  <2>1. PICK x : x \in T
    BY <1>2
  <2>2. CASE T \ {x} = {}
    BY <2>1, <2>2
  <2>3. CASE T \ {x} # {}
    <3>1. PICK y \in T \ {x} : \A z \in T \ {x} : y <= z
      BY <1>2, <2>1, <2>3
    <3>2. x \in Nat /\ y \in Nat /\ \A z \in T : z \in Nat
      BY <2>1, <3>1
    <3>3. CASE x <= y
      BY <2>1, <3>1, <3>2, <3>3
    <3>4. CASE ~(x <= y)
      BY <2>1, <3>1, <3>2, <3>4
    <3> QED
      BY <3>3, <3>4
  <2> QED
    BY <2>2, <2>3
<1> HIDE DEF Q
<1>3. S \in Q
  BY <1>1, <1>2, SubsetsByInduction
<1> QED
  BY <1>3 DEF Q

-----------------------------------------------------------------------------
(* Rows with keys *)

LEMMA RowAppended ==
    ASSUME NEW R, NEW rows \in Seq(R), NEW row \in R
    PROVE  /\ Append(rows, row) \in Seq(R) /\ Len(rows) + 1 \in DOMAIN Append(rows, row)
           /\ Len(rows) + 1 \notin DOMAIN rows /\ Len(rows) \in Nat
           /\ DOMAIN Append(rows, row) = DOMAIN rows \cup {Len(rows) + 1}
           /\ \A n \in DOMAIN rows : Append(rows, row)[n] = rows[n]
           /\ Append(rows, row)[Len(rows) + 1] = row
           /\ \A key : WithKey(Append(rows, row), key)
                       = WithKey(rows, key) \cup {n \in {Len(rows) + 1} : row.key = key}
<1> DEFINE new == Append(rows, row)
           k == Len(rows) + 1
<1>1. /\ new \in Seq(R) /\ k \in DOMAIN new /\ k \notin DOMAIN rows /\ Len(rows) \in Nat
      /\ \A n \in DOMAIN rows : new[n] = rows[n]
      /\ new[k] = row
  OBVIOUS
<1>2. DOMAIN new = DOMAIN rows \cup {k}
  <2>1. DOMAIN new = 1 .. k /\ DOMAIN rows = 1 .. Len(rows) /\ Len(rows) \in Nat
    OBVIOUS
  <2> QED
    BY <2>1
<1> HIDE DEF new, k
<1>3. \A key : WithKey(new, key) = WithKey(rows, key) \cup {n \in {k} : row.key = key}
  BY <1>1, <1>2 DEF WithKey
<1> QED
  BY <1>1, <1>2, <1>3 DEF new, k

LEMMA StaysDistinct ==
    ASSUME NEW R, NEW rows \in Seq(R), NEW row \in R, Distinct(rows), WithKey(rows, row.key) = {}
    PROVE  Distinct(Append(rows, row))
<1> DEFINE new == Append(rows, row)
           k == Len(rows) + 1
<1>1. /\ DOMAIN new = DOMAIN rows \cup {k} /\ \A n \in DOMAIN rows : new[n] = rows[n]
      /\ new[k] = row
  BY RowAppended
<1>2. \A n \in DOMAIN rows : rows[n].key # row.key
  BY DEF WithKey
<1> HIDE DEF new, k
<1> QED
  BY <1>1, <1>2 DEF Distinct, new

LEMMA OneWithKey ==
    ASSUME NEW rows, Distinct(rows), NEW key
    PROVE  Cardinality(WithKey(rows, key)) <= 1
           /\ \A n \in WithKey(rows, key) : WithKey(rows, key) = {n}
<1>1. \A n \in WithKey(rows, key) : WithKey(rows, key) = {n}
  BY DEF Distinct, WithKey
<1>2. CASE WithKey(rows, key) = {}
  BY <1>2, FS_EmptySet
<1>3. CASE WithKey(rows, key) # {}
  <2>1. PICK n : WithKey(rows, key) = {n}
    BY <1>1, <1>3
  <2> QED
    BY <1>1, <2>1, FS_Singleton
<1> QED
  BY <1>1, <1>2, <1>3

LEMMA TurnsFacts ==
    ASSUME NEW rows \in Seq(AgentRow)
    PROVE  /\ Turns(rows) \in Seq(Int) /\ SumUp(Turns(rows)) \in Nat
           /\ SumOf(Turns(rows)) = SumUp(Turns(rows))
           /\ \A row \in AgentRow :
                  SumUp(Turns(Append(rows, row))) = SumUp(Turns(rows)) + row.turns
<1>1. DOMAIN rows = 1 .. Len(rows) /\ Len(rows) \in Nat /\ \A n \in DOMAIN rows : rows[n] \in AgentRow
  OBVIOUS
<1>2. Turns(rows) \in [1 .. Len(rows) -> Nat] /\ Turns(rows) \in Seq(Int)
  BY <1>1 DEF Turns, AgentRow
<1>3. SumUp(Turns(rows)) \in Nat
  BY <1>1, <1>2, SumUpFacts, TotalIsNatural DEF SumUp
<1>4. ASSUME NEW row \in AgentRow
      PROVE  SumUp(Turns(Append(rows, row))) = SumUp(Turns(rows)) + row.turns
  <2> DEFINE q == Turns(rows)
             p == Turns(Append(rows, row))
             k == Len(rows) + 1
             t == row.turns
  <2>1. t \in Int
    BY DEF AgentRow
  <2>2. /\ q \in Seq(Int) /\ Len(q) + 1 = k /\ DOMAIN q = DOMAIN rows
        /\ DOMAIN p = DOMAIN q \cup {k} /\ p[k] = t /\ \A n \in DOMAIN q : p[n] = q[n]
        /\ DOMAIN p = 1 .. k /\ k \in Nat
    <3>1. DOMAIN q = DOMAIN rows /\ Len(q) = Len(rows)
      BY <1>1, <1>2 DEF Turns
    <3>2. /\ DOMAIN Append(rows, row) = DOMAIN rows \cup {k}
          /\ \A n \in DOMAIN rows : Append(rows, row)[n] = rows[n]
          /\ Append(rows, row)[k] = row /\ Append(rows, row) \in Seq(AgentRow)
      BY RowAppended
    <3>3. DOMAIN p = DOMAIN rows \cup {k} /\ p[k] = t /\ \A n \in DOMAIN rows : p[n] = q[n]
      BY <3>2 DEF Turns
    <3>4. DOMAIN rows \cup {k} = 1 .. k /\ k \in Nat
      BY <1>1
    <3> HIDE DEF p, q, k, t
    <3>5. Len(q) + 1 = k
      BY <3>1 DEF k
    <3> QED
      BY <1>2, <3>1, <3>3, <3>4, <3>5 DEF q
  <2> HIDE DEF p, q, k, t
  <2>3. Append(q, t) \in Seq(Int) /\ Len(Append(q, t)) = k /\ Append(q, t)[k] = t
        /\ \A n \in DOMAIN q : Append(q, t)[n] = q[n]
    BY <2>1, <2>2
  <2>4. DOMAIN Append(q, t) = DOMAIN p /\ \A n \in DOMAIN p : p[n] = Append(q, t)[n]
    BY <2>2, <2>3
  <2>5. SumUp(p) = SumUp(Append(q, t))
    <3> DEFINE u == Append(q, t)
    <3> HIDE DEF u
    <3>1. /\ u \in Seq(Int) /\ DOMAIN u = DOMAIN p /\ \A n \in DOMAIN u : u[n] = p[n]
      BY <2>3, <2>4 DEF u
    <3>2. Numbers(u, DOMAIN u) /\ IsFiniteSet(DOMAIN u)
      BY <3>1, SumUpFacts
    <3>3. Total(u, DOMAIN u) = Total(p, DOMAIN u)
      BY <3>1, <3>2, TotalAgrees
    <3> QED
      BY <3>1, <3>3 DEF SumUp, u
  <2>6. SumUp(Append(q, t)) = SumUp(q) + t
    BY <2>1, <2>2, SumUpAppend
  <2> QED
    BY <2>5, <2>6 DEF p, q, t
<1> QED
  BY <1>2, <1>3, <1>4, SumOfIs

\* What an application needs for those whom it has yet to admit.
LEMMA NeedFacts ==
    ASSUME Teams!DelegationConstants, NEW p \in Proposals
    PROVE  /\ \A some : /\ Need(p, some) \in Nat
                        /\ SumOf([i \in DOMAIN TurnsOf[p] |->
                                      IF i \in some THEN TurnsOf[p][i] ELSE 0]) = Need(p, some)
                        /\ Need(p, some) <= SumOf(TurnsOf[p]) /\ SumOf(TurnsOf[p]) \in Nat
                        /\ \A i \in some \cap DOMAIN TurnsOf[p] :
                               Need(p, some) = Need(p, some \ {i}) + TurnsOf[p][i]
           /\ \A S \in SUBSET DOMAIN TurnsOf[p] :
                  /\ IsFiniteSet(S) /\ Cardinality(S) \in Nat /\ Cardinality(S) <= Len(TurnsOf[p])
                  /\ \A i \in S : Cardinality(S) = Cardinality(S \ {i}) + 1
<1> DEFINE D == DOMAIN TurnsOf[p]
           part(some) == [i \in D |-> IF i \in some THEN TurnsOf[p][i] ELSE 0]
<1>1. /\ D = 1 .. Len(TurnsOf[p]) /\ Len(TurnsOf[p]) \in Nat /\ IsFiniteSet(D)
      /\ \A i \in D : TurnsOf[p][i] \in Nat \ {0}
      /\ TurnsOf[p] \in Seq(Nat \ {0})
  BY TeamFacts
<1>2. TurnsOf[p] \in Seq(Int)
  BY <1>1
<1>3. ASSUME NEW some
      PROVE  /\ part(some) \in Seq(Int) /\ DOMAIN part(some) = D
             /\ \A i \in D : part(some)[i] \in Nat /\ part(some)[i] <= TurnsOf[p][i]
  <2>1. \A i \in D : part(some)[i] \in Nat /\ part(some)[i] <= TurnsOf[p][i]
    BY <1>1
  <2>2. part(some) \in [D -> Int] /\ DOMAIN part(some) = D
    BY <1>1
  <2> QED
    BY <1>1, <2>1, <2>2
<1>4. ASSUME NEW some
      PROVE  /\ Need(p, some) = SumUp(part(some)) /\ Need(p, some) \in Nat
             /\ SumOf(part(some)) = Need(p, some)
             /\ Need(p, some) <= SumUp(TurnsOf[p])
  <2> DEFINE q == part(some)
  <2>1. Need(p, some) = SumUp(q)
    BY DEF Need
  <2>2. /\ q \in Seq(Int) /\ DOMAIN q = DOMAIN TurnsOf[p]
        /\ \A i \in DOMAIN q : q[i] \in Nat /\ q[i] <= TurnsOf[p][i]
    BY <1>3
  <2> HIDE DEF q
  <2>3. SumUp(q) \in Nat
    BY <2>2, SumUpFacts, TotalIsNatural DEF SumUp
  <2>4. SumUp(q) <= SumUp(TurnsOf[p])
    BY <1>2, <2>2, SumUpRises
  <2>5. SumOf(q) = SumUp(q)
    BY <2>2, SumOfIs
  <2> QED
    BY <2>1, <2>3, <2>4, <2>5 DEF q
<1>5. SumOf(TurnsOf[p]) = SumUp(TurnsOf[p]) /\ SumUp(TurnsOf[p]) \in Nat
  BY <1>1, <1>2, SumOfIs, SumUpFacts, TotalIsNatural DEF SumUp
<1>6. ASSUME NEW some, NEW i \in some \cap D
      PROVE  Need(p, some) = Need(p, some \ {i}) + TurnsOf[p][i]
  <2> DEFINE q == part(some)
             r == part(some \ {i})
             t == TurnsOf[p][i]
  <2>1. /\ q \in Seq(Int) /\ r \in Seq(Int) /\ DOMAIN q = D /\ DOMAIN r = D /\ IsFiniteSet(D)
        /\ r[i] = 0 /\ q[i] = t /\ \A x \in D \ {i} : r[x] = q[x]
        /\ i \in D /\ t \in Nat
    BY <1>1, <1>3
  <2>2. Need(p, some) = SumUp(q) /\ Need(p, some \ {i}) = SumUp(r)
    BY DEF Need
  <2> HIDE DEF q, r, t, D
  <2>3. Numbers(q, D) /\ Numbers(r, D) /\ SumUp(r) \in Int
    BY <2>1, SumUpFacts
  <2>4. Total(q, D) = (Total(r, D) - r[i]) + q[i]
    BY <2>1, <2>3, TotalChanges
  <2>5. SumUp(q) = (SumUp(r) - 0) + t
    BY <2>1, <2>4 DEF SumUp
  <2> DEFINE a == SumUp(q)
             b == SumUp(r)
  <2> HIDE DEF a, b
  <2>6. a = b + t
    BY <2>1, <2>3, <2>5 DEF a, b
  <2> QED
    BY <2>2, <2>6 DEF a, b, t
<1>7. ASSUME NEW S \in SUBSET D
      PROVE  /\ IsFiniteSet(S) /\ Cardinality(S) \in Nat /\ Cardinality(S) <= Len(TurnsOf[p])
             /\ \A i \in S : Cardinality(S) = Cardinality(S \ {i}) + 1
  <2>1. Cardinality(D) = Len(TurnsOf[p])
    <3>1. \A n \in Nat : Cardinality(1 .. n) = n
      BY FS_Interval
    <3> HIDE DEF D
    <3> QED
      BY <1>1, <3>1
  <2>2. IsFiniteSet(S) /\ Cardinality(S) \in Nat /\ Cardinality(S) <= Len(TurnsOf[p])
    BY <1>1, <2>1, FS_Subset, FS_CardinalityType
  <2>3. ASSUME NEW i \in S PROVE Cardinality(S) = Cardinality(S \ {i}) + 1
    <3>1. Cardinality(S \ {i}) = Cardinality(S) - 1
      BY <2>2, FS_RemoveElement
    <3> QED
      BY <2>2, <3>1
  <2> QED
    BY <2>2, <2>3
<1> HIDE DEF D
<1> QED
  BY <1>4, <1>5, <1>6, <1>7 DEF D

-----------------------------------------------------------------------------
(* Steps *)

LEMMA TeamInvFollows ==
    ASSUME TeamRows', Members', Alone', Capacity', Unread',
           \A p \in Proposals : Noted(p, application[p])',
           \A a \in Appliers : Remembers(a, applier[a])'
    PROVE  TeamInv'
BY DEF TeamInv

LEMMA TeamTypes ==
    ASSUME TeamInv
    PROVE  /\ run \in {"running", "paused", "ended"} /\ root \in {"ready", "running"}
           /\ used \in 0 .. MaxTurns /\ busy \in BOOLEAN
           /\ proposal \in [Proposals -> {"none", "proposed", "approved", "rejected"}]
           /\ application \in [Proposals -> ApplicationRow]
           /\ agents \in Seq(AgentRow) /\ messages \in Seq(MessageRow)
           /\ applier \in [Appliers -> ApplierRow]
           /\ DOMAIN application = Proposals
BY DEF TeamInv, TeamRows

\* The rows of the applications, the Specialists and the instructions stay as they are.
LEMMA RowsStay ==
    ASSUME TeamInv, UNCHANGED <<application, agents, messages>>
    PROVE  /\ Members' /\ Unread' /\ Applying' = Applying
           /\ \A p \in Proposals : Noted(p, application[p])'
           /\ \A a \in Appliers : applier'[a] = applier[a] => Remembers(a, applier[a])'
           /\ UNCHANGED <<used, root>> => Capacity'
<1>1. Applying' = Applying /\ \A p : Instructed(p)' = Instructed(p)
  BY DEF Applying, Instructed
<1>2. Members'
  BY DEF TeamInv, Members, Distinct, WithKey
<1>3. Unread'
  BY <1>1 DEF TeamInv, Unread, WithKey
<1>4. \A p \in Proposals : Noted(p, application[p])'
  BY DEF TeamInv, Noted, WithKey
<1>5. \A a \in Appliers : applier'[a] = applier[a] => Remembers(a, applier[a])'
  BY DEF TeamInv, Remembers, WithKey
<1>6. UNCHANGED <<used, root>> => Capacity'
  <2>1. \A p : Missing(p)' = Missing(p)
    BY DEF Missing, WithKey
  <2>2. \A p : Need(p, Missing(p))' = Need(p, Missing(p))
    BY <2>1 DEF Need
  <2>3. SumUp(Turns(agents))' = SumUp(Turns(agents))
    BY DEF Turns
  <2> QED
    BY <1>1, <2>1, <2>2, <2>3 DEF TeamInv, Capacity
<1> QED
  BY <1>1, <1>2, <1>3, <1>4, <1>5, <1>6

\* The root and the Run.
LEMMA RootKeeps ==
    ASSUME Teams!DelegationConstants, TeamInv,
           Teams!RootBegins \/ Teams!RootEnds \/ Teams!Schedule \/ Teams!Pause \/ Teams!Resume
           \/ (\E p \in Proposals : Teams!Propose(p) \/ Teams!Review(p)) \/ UNCHANGED Teams!vars
    PROVE  TeamInv'
<1>1. UNCHANGED <<application, agents, messages, applier>>
  BY DEF Teams!RootBegins, Teams!RootEnds, Teams!Schedule, Teams!Pause, Teams!Resume,
     Teams!Propose, Teams!Review, Teams!vars
<1>2. /\ Members' /\ Unread' /\ Applying' = Applying
      /\ \A p \in Proposals : Noted(p, application[p])'
      /\ \A a \in Appliers : Remembers(a, applier[a])'
      /\ UNCHANGED <<used, root>> => Capacity'
  BY <1>1, RowsStay
<1>3. Capacity' /\ used' \in 0 .. MaxTurns
  <2> DEFINE s == SumUp(Turns(agents))
  <2>1. s \in Nat /\ Teams!ReservedTurns = s /\ SumUp(Turns(agents))' = s
    BY <1>1, TeamTypes, TurnsFacts, SameTeams DEF Turns, SumUp
  <2>2. used \in Nat /\ MaxTurns \in Nat /\ used \in 0 .. MaxTurns
    BY TeamTypes, TeamFacts
  <2>3. CASE UNCHANGED <<used, root>>
    BY <1>2, <2>2, <2>3
  <2>4. CASE Teams!RootBegins
    <3>1. /\ Applying = {} /\ root = "ready" /\ root' = "running" /\ used' = used
          /\ used < MaxTurns - s
      BY <2>1, <2>4, SameTeams DEF Teams!RootBegins
    <3>2. used + s + 1 <= MaxTurns
      BY <2>1, <2>2, <3>1
    <3>3. Len(agents') <= MaxChildren
      BY <1>1 DEF TeamInv, Capacity
    <3> HIDE DEF s
    <3> QED
      BY <1>2, <2>1, <2>2, <3>1, <3>2, <3>3 DEF Capacity
  <2>5. CASE Teams!RootEnds
    <3>1. root = "running" /\ root' = "ready" /\ used' = used + 1
      BY <2>5 DEF Teams!RootEnds
    <3>2. Applying = {}
      BY <3>1 DEF TeamInv, Alone, Applying, TeamRows
    <3>3. used + s + 1 <= MaxTurns
      BY <3>1 DEF TeamInv, Capacity
    <3>4. Len(agents') <= MaxChildren
      BY <1>1 DEF TeamInv, Capacity
    <3> HIDE DEF s
    <3>5. used' + s + 0 <= MaxTurns /\ used' \in 0 .. MaxTurns
      BY <2>1, <2>2, <3>1, <3>3
    <3> QED
      BY <1>2, <2>1, <3>1, <3>2, <3>4, <3>5 DEF Capacity
  <2> QED
    BY <2>3, <2>4, <2>5 DEF Teams!Schedule, Teams!Pause, Teams!Resume, Teams!Propose,
       Teams!Review, Teams!vars
<1>4. /\ run' \in {"running", "paused", "ended"} /\ root' \in {"ready", "running"}
      /\ busy' \in BOOLEAN
      /\ proposal' \in [Proposals -> {"none", "proposed", "approved", "rejected"}]
  BY TeamTypes DEF Teams!RootBegins, Teams!RootEnds, Teams!Schedule, Teams!Pause, Teams!Resume,
     Teams!Propose, Teams!Review, Teams!vars
<1>5. TeamRows'
  BY <1>1, <1>3, <1>4, TeamTypes DEF TeamRows, AgentRow, MessageRow, AssignmentRow,
     ApplicationRow, ApplierRow, Assignments, TaskKey
<1>6. Alone'
  <2>1. \A p \in Proposals : proposal[p] = "approved" => proposal'[p] = "approved"
    BY TeamTypes DEF Teams!RootBegins, Teams!RootEnds, Teams!Schedule, Teams!Pause, Teams!Resume,
       Teams!Propose, Teams!Review, Teams!vars
  <2>2. run = "ended" <=> run' = "ended"
    BY TeamTypes DEF Teams!RootBegins, Teams!RootEnds, Teams!Schedule, Teams!Pause, Teams!Resume,
       Teams!Propose, Teams!Review, Teams!vars
  <2>3. Applying # {} => root' = root \/ root' = "ready"
    BY SameTeams DEF Teams!RootBegins, Teams!RootEnds, Teams!Schedule, Teams!Pause, Teams!Resume,
       Teams!Propose, Teams!Review, Teams!vars
  <2>4. Applying # {} => busy' = busy
    BY SameTeams DEF Teams!RootBegins, Teams!RootEnds, Teams!Schedule, Teams!Pause, Teams!Resume,
       Teams!Propose, Teams!Review, Teams!vars
  <2>5. \A p \in Proposals : application[p].status = "applying" => p \in Applying
    BY TeamTypes DEF Applying
  <2> QED
    BY <1>1, <1>2, <2>1, <2>2, <2>3, <2>4, <2>5 DEF TeamInv, Alone
<1> QED
  BY <1>2, <1>3, <1>5, <1>6, TeamInvFollows

\* Only what a request remembers has changed.
LEMMA RequestOnly ==
    ASSUME Teams!DelegationConstants, TeamInv, NEW a \in Appliers, NEW row \in ApplierRow,
           applier' = [applier EXCEPT ![a] = row], Remembers(a, row),
           UNCHANGED <<run, root, used, busy, proposal, application, agents, messages>>
    PROVE  TeamInv'
<1>1. /\ applier'[a] = row /\ \A x \in Appliers \ {a} : applier'[x] = applier[x]
      /\ applier' \in [Appliers -> ApplierRow]
  BY TeamTypes
<1>2. /\ Members' /\ Unread' /\ Applying' = Applying /\ Capacity'
      /\ \A p \in Proposals : Noted(p, application[p])'
      /\ \A x \in Appliers : applier'[x] = applier[x] => Remembers(x, applier[x])'
  BY RowsStay
<1>3. Remembers(a, applier[a])'
  BY <1>1 DEF Remembers, WithKey
<1>4. TeamRows'
  BY <1>1, TeamTypes DEF TeamRows, AgentRow, MessageRow, AssignmentRow, ApplicationRow,
     ApplierRow, Assignments, TaskKey
<1>5. Alone'
  BY <1>2 DEF TeamInv, Alone
<1> QED
  BY <1>1, <1>2, <1>3, <1>4, <1>5, TeamInvFollows

LEMMA IdleRemembers ==
    ASSUME NEW a
    PROVE  /\ Teams!Idle \in ApplierRow /\ Remembers(a, Teams!Idle)
           /\ Teams!Idle.pc = "idle" /\ DOMAIN Teams!Idle = {"pc", "at", "skip", "agent", "message"}
BY DEF Teams!Idle, ApplierRow, Remembers

\* The loop goes on with an assignment that there is.
LEMMA AheadFacts ==
    ASSUME Teams!DelegationConstants, NEW a \in Appliers, NEW skip \in SUBSET Nat, NEW i \in Nat
    PROVE  LET row == Teams!Ahead(skip, ProposalOf[a], i)
           IN  /\ row \in ApplierRow
               /\ row.pc \in {"admit", "complete"}
               /\ row.pc = "admit" => row.at \in DOMAIN TurnsOf[ProposalOf[a]]
<1> DEFINE p == ProposalOf[a]
           row == Teams!Ahead(skip, p, i)
           rest == {j \in i + 1 .. Len(TurnsOf[p]) : j \notin skip}
           at == IF rest = {} THEN 0 ELSE CHOOSE j \in rest : \A k \in rest : j <= k
           pc == IF rest = {} THEN "complete" ELSE "admit"
<1>1. p \in Proposals /\ DOMAIN TurnsOf[p] = 1 .. Len(TurnsOf[p]) /\ Len(TurnsOf[p]) \in Nat
  BY TeamFacts
<1>2. rest \in SUBSET (1 .. Len(TurnsOf[p]))
  BY <1>1
<1>3. rest # {} => at \in 1 .. Len(TurnsOf[p])
  <2> SUFFICES ASSUME rest # {} PROVE at \in 1 .. Len(TurnsOf[p])
    OBVIOUS
  <2> HIDE DEF rest
  <2>1. \E x \in rest : \A y \in rest : x <= y
    BY <1>1, <1>2, Least
  <2>2. at = CHOOSE j \in rest : \A k \in rest : j <= k
    OBVIOUS
  <2> QED
    BY <1>2, <2>1, <2>2
<1>4. row = [Teams!Idle EXCEPT !.skip = skip, !.pc = pc, !.at = at]
  BY DEF Teams!Ahead
<1> HIDE DEF rest
<1>5. pc \in {"admit", "complete"} /\ (pc = "admit" => rest # {}) /\ at \in Nat
  <2>1. pc \in {"admit", "complete"} /\ (pc = "admit" => rest # {}) /\ (rest = {} => at = 0)
    OBVIOUS
  <2> HIDE DEF at, pc
  <2> QED
    BY <1>1, <1>3, <2>1
<1> HIDE DEF at, pc, row
<1>6. row \in ApplierRow /\ row.pc = pc /\ row.at = at
  BY <1>4, <1>5 DEF Teams!Idle, ApplierRow
<1> QED
  BY <1>1, <1>3, <1>5, <1>6 DEF row

LEMMA RepeatKeeps ==
    ASSUME Teams!DelegationConstants, TeamInv, NEW a \in Appliers, Teams!Repeat(a) PROVE TeamInv'
<1> DEFINE p == ProposalOf[a]
           row == Teams!Ahead(Instructed(p), p, 0)
<1>1. /\ applier' = [applier EXCEPT ![a] = row] /\ application[p].status = "applying"
      /\ UNCHANGED <<run, root, used, busy, proposal, application, agents, messages>>
  BY SameTeams DEF Teams!Repeat, Teams!Shared
<1>2. Instructed(p) \in SUBSET Nat /\ p \in Proposals
  <2>1. p \in Proposals /\ application[p].assignment \in Seq(AssignmentRow)
    BY TeamFacts, TeamTypes DEF ApplicationRow
  <2> QED
    BY <2>1 DEF Instructed
<1>3. /\ row \in ApplierRow /\ row.pc \in {"admit", "complete"}
      /\ row.pc = "admit" => row.at \in DOMAIN TurnsOf[p]
  BY <1>2, AheadFacts
<1> HIDE DEF row
<1>4. Remembers(a, row)
  BY <1>1, <1>3 DEF Remembers
<1> QED
  BY <1>1, <1>3, <1>4, RequestOnly

LEMMA FailsKeeps ==
    ASSUME Teams!DelegationConstants, TeamInv, NEW a \in Appliers, Teams!Fails(a) PROVE TeamInv'
BY IdleRemembers, RequestOnly DEF Teams!Fails, Teams!Gone, Teams!Shared

\* A proposal is applied.
LEMMA ApplyKeeps ==
    ASSUME Teams!DelegationConstants, TeamInv, NEW a \in Appliers, Teams!Apply(a) PROVE TeamInv'
<1> DEFINE p == ProposalOf[a]
           assignment == [i \in DOMAIN TurnsOf[p] |-> Teams!Pending]
           new == [status |-> "applying", key |-> KeyOf[a], assignment |-> assignment]
           row == Teams!Ahead({}, p, 0)
<1>1. /\ application' = [application EXCEPT ![p] = new] /\ applier' = [applier EXCEPT ![a] = row]
      /\ application[p].status = "none" /\ proposal[p] = "approved" /\ run = "running"
      /\ root = "ready" /\ ~busy /\ Applying = {}
      /\ Teams!Fits(Len(TurnsOf[p]), SumOf(TurnsOf[p]))
      /\ UNCHANGED <<run, root, used, busy, proposal, agents, messages>>
  BY SameTeams DEF Teams!Apply, Teams!Shared
<1>2. p \in Proposals /\ DOMAIN TurnsOf[p] = 1 .. Len(TurnsOf[p]) /\ Len(TurnsOf[p]) \in Nat
      /\ MaxChildren \in Nat /\ MaxTurns \in Nat
  BY TeamFacts
<1>3. /\ assignment \in Seq(AssignmentRow) /\ DOMAIN assignment = DOMAIN TurnsOf[p]
      /\ \A i \in DOMAIN TurnsOf[p] : assignment[i].status = "pending"
  <2>1. Teams!Pending \in AssignmentRow /\ Teams!Pending.status = "pending"
    BY <1>2 DEF Teams!Pending, AssignmentRow
  <2>2. assignment \in [1 .. Len(TurnsOf[p]) -> AssignmentRow]
    BY <1>2, <2>1
  <2> QED
    BY <1>2, <2>1, <2>2
<1> HIDE DEF assignment
<1>4. new \in ApplicationRow /\ new.status = "applying" /\ new.assignment = assignment
  BY <1>3 DEF ApplicationRow
<1>5. /\ row \in ApplierRow /\ row.pc \in {"admit", "complete"}
      /\ row.pc = "admit" => row.at \in DOMAIN TurnsOf[p]
  BY AheadFacts
<1> HIDE DEF new, row
<1>6. /\ application' \in [Proposals -> ApplicationRow] /\ application'[p] = new
      /\ \A q \in Proposals \ {p} : application'[q] = application[q]
      /\ applier' \in [Appliers -> ApplierRow] /\ applier'[a] = row
      /\ \A x \in Appliers \ {a} : applier'[x] = applier[x]
  BY <1>1, <1>2, <1>4, <1>5, TeamTypes
<1>7. Applying' = {p} /\ DOMAIN application' = Proposals
  BY <1>1, <1>2, <1>4, <1>6, TeamTypes DEF Applying
<1>8. TeamRows'
  BY <1>1, <1>6, TeamTypes DEF TeamRows, AgentRow, MessageRow, AssignmentRow, ApplicationRow,
     ApplierRow, Assignments, TaskKey
<1>9. \A q \in Proposals : application[q].status # "none" =>
          application'[q].status # "none" /\ application'[q] = application[q]
  BY <1>1, <1>6
<1>10. Members'
  BY <1>1, <1>9 DEF TeamInv, Members, Distinct, WithKey
<1>11. Alone'
  BY <1>1, <1>4, <1>6, <1>7 DEF TeamInv, Alone
<1>12. ASSUME NEW q \in Proposals PROVE Noted(q, application[q])'
  <2>1. CASE q = p
    BY <1>3, <1>4, <1>6, <2>1 DEF Noted
  <2>2. CASE q # p
    BY <1>1, <1>6, <2>2 DEF TeamInv, Noted, WithKey
  <2> QED
    BY <2>1, <2>2
<1>13. ASSUME NEW x \in Appliers PROVE Remembers(x, applier[x])'
  <2>1. CASE x = a
    BY <1>2, <1>4, <1>5, <1>6, <2>1 DEF Remembers
  <2>2. CASE x # a
    <3>1. Remembers(x, applier[x]) /\ ProposalOf[x] \in Proposals
      BY TeamFacts DEF TeamInv
    <3> QED
      BY <1>1, <1>6, <1>9, <2>2, <3>1 DEF Remembers, WithKey
  <2> QED
    BY <2>1, <2>2
<1>14. Capacity'
  <2> DEFINE s == SumUp(Turns(agents))
             c == Cardinality(Missing(p))
             n == Need(p, Missing(p))
             l == Len(TurnsOf[p])
             m == SumOf(TurnsOf[p])
             k == Len(agents)
  <2>1. /\ k + l <= MaxChildren /\ MaxTurns - used - s - m >= 1
        /\ s \in Nat /\ used \in Nat /\ m \in Nat /\ n \in Nat /\ n <= m /\ c \in Nat /\ c <= l
        /\ l \in Nat /\ k \in Nat
    <3>1. used \in Nat /\ k \in Nat /\ s \in Nat /\ SumOf(Turns(agents)) = s
      BY <1>2, TeamTypes, TurnsFacts
    <3>2. k + l <= MaxChildren /\ MaxTurns - used - SumOf(Turns(agents)) - m >= 1
      BY <1>1, SameTeams
    <3>3. Missing(p) \in SUBSET DOMAIN TurnsOf[p]
      BY DEF Missing
    <3>4. m \in Nat /\ n \in Nat /\ n <= m /\ c \in Nat /\ c <= l
      BY <1>2, <3>3, NeedFacts
    <3> QED
      BY <1>2, <3>1, <3>2, <3>4
  <2>2. /\ SumUp(Turns(agents))' = s /\ Missing(p)' = Missing(p) /\ Len(agents') = k
    BY <1>1 DEF Turns, Missing, WithKey
  <2>3. Need(p, Missing(p))' = n
    BY <2>2 DEF Need
  <2> HIDE DEF s, n, l, m, k
  <2>4. used + s + 0 <= MaxTurns /\ k + c <= MaxChildren /\ used + s + n < MaxTurns /\ k <= MaxChildren
    BY <1>2, <2>1
  <2> QED
    BY <1>1, <1>7, <2>2, <2>3, <2>4 DEF Capacity
<1>15. Unread'
  <2>1. \A i \in DOMAIN TurnsOf[p] : WithKey(messages, <<p, i>>) = {}
    <3> SUFFICES ASSUME NEW i \in DOMAIN TurnsOf[p], NEW m \in WithKey(messages, <<p, i>>) PROVE FALSE
      OBVIOUS
    <3>1. messages[m].to \in WithKey(agents, <<p, i>>)
      BY DEF TeamInv, Members, WithKey
    <3> QED
      BY <1>1, <1>2, <3>1 DEF TeamInv, Members
  <2> QED
    BY <1>1, <1>7, <2>1 DEF Unread, WithKey
<1> QED
  BY <1>8, <1>10, <1>11, <1>12, <1>13, <1>14, <1>15, TeamInvFollows

-----------------------------------------------------------------------------
(* Admission *)

\* A Specialist is admitted, for the application under way if there is one.
LEMMA AgentAdded ==
    ASSUME Teams!DelegationConstants, TeamInv, NEW key \in Assignments \cup {TaskKey},
           NEW turns \in Nat \ {0}, WithKey(agents, key) = {}, root = "ready",
           agents' = Append(agents, [key |-> key, turns |-> turns]),
           Teams!Fits(1, turns), UNCHANGED <<used, root, application, messages>>,
           \/ key = TaskKey /\ Applying = {}
           \/ \E p \in Proposals : \E i \in DOMAIN TurnsOf[p] :
                  /\ key = <<p, i>> /\ turns = TurnsOf[p][i]
                  /\ application[p].status # "none" /\ Applying \subseteq {p}
    PROVE  /\ agents' \in Seq(AgentRow) /\ Len(agents) + 1 \in WithKey(agents', key)
           /\ \A k : WithKey(agents, k) \subseteq WithKey(agents', k)
           /\ Members' /\ Capacity' /\ Unread'
           /\ \A p \in Proposals : Noted(p, application[p])'
           /\ \A x \in Appliers : \A row : Remembers(x, row) => Remembers(x, row)'
<1> DEFINE new == [key |-> key, turns |-> turns]
           l == Len(agents)
           n == l + 1
<1>1. new \in AgentRow /\ new.key = key /\ new.turns = turns
  BY DEF AgentRow
<1>2. agents \in Seq(AgentRow) /\ agents' = Append(agents, new)
  BY TeamTypes
<1> HIDE DEF new
<1>3. /\ agents' \in Seq(AgentRow) /\ n \in DOMAIN agents' /\ n \notin DOMAIN agents /\ l \in Nat
      /\ \A k \in DOMAIN agents : agents'[k] = agents[k]
      /\ DOMAIN agents' = DOMAIN agents \cup {n} /\ agents'[n] = new
      /\ \A k : WithKey(agents', k) = WithKey(agents, k) \cup {x \in {n} : key = k}
      /\ Len(agents') = n
  <2>1. Len(Append(agents, new)) = n
    BY <1>2
  <2> QED
    BY <1>1, <1>2, <2>1, RowAppended
<1> HIDE DEF n
<1>4. /\ WithKey(agents', key) = {n} /\ \A k : WithKey(agents, k) \subseteq WithKey(agents', k)
      /\ \A k : k # key => WithKey(agents', k) = WithKey(agents, k)
  <2>1. \A k : WithKey(agents', k) = WithKey(agents, k) \cup {x \in {n} : key = k}
    BY <1>3
  <2>2. WithKey(agents', key) = {n}
    <3>1. WithKey(agents', key) = WithKey(agents, key) \cup {n}
      BY <2>1
    <3> QED
      BY <3>1
  <2>3. ASSUME NEW k PROVE WithKey(agents, k) \subseteq WithKey(agents', k)
    BY <2>1
  <2>4. ASSUME NEW k, k # key PROVE WithKey(agents', k) = WithKey(agents, k)
    BY <2>1, <2>4
  <2> QED
    BY <2>2, <2>3, <2>4
<1>5. Members'
  <2>1. Distinct(agents')
    BY <1>1, <1>2, StaysDistinct DEF TeamInv, Members
  <2>2. ASSUME NEW p \in Proposals, NEW i \in DOMAIN TurnsOf[p], NEW k \in WithKey(agents', <<p, i>>)
        PROVE  application[p].status # "none" /\ agents'[k].turns = TurnsOf[p][i]
    <3>1. CASE k \in DOMAIN agents
      <4>1. k \in WithKey(agents, <<p, i>>) /\ agents'[k] = agents[k]
        BY <1>3, <2>2, <3>1 DEF WithKey
      <4>2. \A q \in Proposals : \A j \in DOMAIN TurnsOf[q] : \A x \in WithKey(agents, <<q, j>>) :
                application[q].status # "none" /\ agents[x].turns = TurnsOf[q][j]
        BY DEF TeamInv, Members
      <4>3. application[p].status # "none" /\ agents[k].turns = TurnsOf[p][i]
        BY <4>1, <4>2
      <4> QED
        BY <4>1, <4>3
    <3>2. CASE k = n
      <4>1. key = <<p, i>> /\ agents'[k].turns = turns
        BY <1>1, <1>3, <2>2, <3>2 DEF WithKey
      <4>2. key # TaskKey
        BY <4>1, TeamFacts DEF TaskKey
      <4> QED
        BY <4>1, <4>2
    <3> QED
      BY <1>3, <2>2, <3>1, <3>2 DEF WithKey
  <2>3. \A m \in DOMAIN messages : messages[m].to \in WithKey(agents', messages[m].key)
    BY <1>4 DEF TeamInv, Members
  <2>4. Distinct(agents)' /\ Distinct(messages)'
    BY <2>1 DEF Distinct, TeamInv, Members
  <2>5. /\ \A k : WithKey(agents, k)' = WithKey(agents', k)
        /\ \A k : \A m : WithKey(agents, messages[m].key)' = WithKey(agents', messages[m].key)
    BY DEF WithKey
  <2> QED
    BY <2>2, <2>3, <2>4, <2>5 DEF Members
<1>6. Unread'
  BY DEF TeamInv, Unread, WithKey, Applying, Instructed
<1>7. ASSUME NEW p \in Proposals PROVE Noted(p, application[p])'
  <2>1. \A k : WithKey(agents, k)' = WithKey(agents', k) /\ WithKey(messages, k)' = WithKey(messages, k)
    BY DEF WithKey
  <2> QED
    BY <1>4, <2>1 DEF TeamInv, Noted
<1>8. ASSUME NEW x \in Appliers, NEW row, Remembers(x, row) PROVE Remembers(x, row)'
  <2>1. \A k : WithKey(agents, k)' = WithKey(agents', k) /\ WithKey(messages, k)' = WithKey(messages, k)
    BY DEF WithKey
  <2> QED
    BY <1>4, <1>8, <2>1 DEF Remembers
<1>9. Capacity'
  <2> DEFINE s == SumUp(Turns(agents))
             t == SumUp(Turns(agents'))
  <2>1. s \in Nat /\ t = s + turns /\ SumOf(Turns(agents)) = s /\ used \in Nat
        /\ MaxTurns \in Nat /\ MaxChildren \in Nat /\ turns \in Nat
    BY <1>1, <1>2, TurnsFacts, TeamTypes, TeamFacts
  <2>2. l + 1 <= MaxChildren /\ MaxTurns - used - s - turns >= 1
    BY <2>1, SameTeams
  <2>3. SumUp(Turns(agents))' = t /\ Applying' = Applying
    BY DEF Turns, SumUp, Applying
  <2> HIDE DEF s, t, l
  <2>4. used + t + 0 <= MaxTurns /\ n <= MaxChildren
    BY <2>1, <2>2 DEF n, l
  <2>5. ASSUME NEW p \in Applying
        PROVE  /\ n + Cardinality(Missing(p))' <= MaxChildren
               /\ used + t + Need(p, Missing(p))' < MaxTurns
    <3>1. PICK i \in DOMAIN TurnsOf[p] : key = <<p, i>> /\ turns = TurnsOf[p][i]
      BY <2>5
    <3>2. p \in Proposals
      BY <2>5, TeamTypes DEF Applying
    <3> DEFINE some == Missing(p)
    <3>3. some \in SUBSET DOMAIN TurnsOf[p] /\ i \in some
      BY <3>1 DEF Missing
    <3>4. Missing(p)' = some \ {i}
      <4>1. Missing(p)' = {j \in DOMAIN TurnsOf[p] : WithKey(agents', <<p, j>>) = {}}
        BY DEF Missing, WithKey
      <4>2. \A j \in DOMAIN TurnsOf[p] \ {i} : WithKey(agents', <<p, j>>) = WithKey(agents, <<p, j>>)
        BY <1>4, <3>1
      <4>3. WithKey(agents', <<p, i>>) # {}
        BY <1>4, <3>1
      <4> QED
        BY <4>1, <4>2, <4>3 DEF Missing
    <3>5. l + Cardinality(some) <= MaxChildren /\ used + s + Need(p, some) < MaxTurns
      BY <2>5 DEF TeamInv, Capacity, s, l
    <3> HIDE DEF some
    <3>6. Need(p, Missing(p))' = Need(p, some \ {i})
      BY <3>4 DEF Need
    <3> DEFINE c == Cardinality(some)
               d == Cardinality(some \ {i})
               x == Need(p, some)
               y == Need(p, some \ {i})
    <3>7. Cardinality(Missing(p))' = d
      BY <3>4
    <3>8. c = d + 1 /\ x = y + turns /\ d \in Nat /\ y \in Nat
      <4>1. some \ {i} \in SUBSET DOMAIN TurnsOf[p]
        BY <3>3
      <4> QED
        BY <3>1, <3>2, <3>3, <4>1, NeedFacts
    <3> HIDE DEF c, d, x, y
    <3>9. l + c <= MaxChildren /\ used + s + x < MaxTurns /\ l \in Nat /\ n = l + 1
      BY <1>3, <3>5 DEF c, x, n
    <3>10. n + d <= MaxChildren /\ used + t + y < MaxTurns
      BY <2>1, <3>8, <3>9
    <3> QED
      BY <3>6, <3>7, <3>10 DEF y, d
  <2> QED
    BY <1>3, <2>3, <2>4, <2>5 DEF Capacity
<1> QED
  BY <1>3, <1>4, <1>5, <1>6, <1>7, <1>8, <1>9

LEMMA AdmitChildTaskKeeps ==
    ASSUME Teams!DelegationConstants, TeamInv, Teams!AdmitChildTask PROVE TeamInv'
<1>1. /\ WithKey(agents, TaskKey) = {}
      /\ UNCHANGED <<run, root, used, busy, proposal, application, messages, applier>>
  BY SameTeams DEF Teams!AdmitChildTask, Teams!Shared, TaskKey
<1>2. PICK turns \in Nat \ {0} : Teams!New(TaskKey, turns)
  BY TeamFacts DEF Teams!AdmitChildTask, TaskKey
<1>3. /\ root = "ready" /\ Teams!Fits(1, turns) /\ Teams!MayAdmit(TaskKey)
      /\ agents' = Append(agents, [key |-> TaskKey, turns |-> turns])
  BY <1>2 DEF Teams!New
<1>4. Applying = {}
  <2>1. \A p \in Applying : p \in Proposals
    BY TeamTypes DEF Applying
  <2>2. \A p \in Proposals : \A i : TaskKey # <<p, i>>
    BY TeamFacts DEF TaskKey
  <2> QED
    BY <1>3, <2>1, <2>2, SameTeams DEF Teams!MayAdmit
<1>5. TaskKey \in Assignments \cup {TaskKey}
  OBVIOUS
<1>6. /\ agents' \in Seq(AgentRow) /\ Members' /\ Capacity' /\ Unread'
      /\ \A p \in Proposals : Noted(p, application[p])'
      /\ \A x \in Appliers : \A row : Remembers(x, row) => Remembers(x, row)'
  BY <1>1, <1>3, <1>4, <1>5, AgentAdded
<1>7. TeamRows'
  BY <1>1, <1>6, TeamTypes DEF TeamRows, AgentRow, MessageRow, AssignmentRow, ApplicationRow,
     ApplierRow, Assignments, TaskKey
<1>8. Alone'
  BY <1>1 DEF TeamInv, Alone, Applying
<1>9. ASSUME NEW x \in Appliers PROVE Remembers(x, applier[x])'
  <2>1. Remembers(x, applier[x])
    BY DEF TeamInv
  <2> DEFINE row == applier[x]
  <2>2. Remembers(x, row)' <=> Remembers(x, applier[x])'
    OBVIOUS
  <2> QED
    BY <1>1, <1>6, <2>1 DEF Remembers, WithKey
<1> QED
  BY <1>6, <1>7, <1>8, <1>9, TeamInvFollows

LEMMA ApplierFacts ==
    ASSUME Teams!DelegationConstants, TeamInv, NEW a \in Appliers
    PROVE  /\ ProposalOf[a] \in Proposals /\ applier[a] \in ApplierRow
           /\ Remembers(a, applier[a])
           /\ Teams!KeyAt(a) = <<ProposalOf[a], applier[a].at>>
           /\ Teams!Row(a) = application[ProposalOf[a]].assignment[applier[a].at]
           /\ applier[a].pc \in {"admit", "note", "send", "confirm"} =>
                  /\ applier[a].at \in DOMAIN TurnsOf[ProposalOf[a]]
                  /\ Teams!KeyAt(a) \in Assignments
                  /\ application[ProposalOf[a]].status # "none"
BY TeamFacts, TeamTypes DEF TeamInv, Remembers, Teams!KeyAt, Teams!Row

\* Requests step on from the rows that they find.
LEMMA AdmitKeeps ==
    ASSUME Teams!DelegationConstants, TeamInv, NEW a \in Appliers, Teams!Admit(a) PROVE TeamInv'
<1> DEFINE p == ProposalOf[a]
           i == applier[a].at
           key == <<p, i>>
           turns == TurnsOf[p][i]
           row(n) == [applier[a] EXCEPT !.pc = "note", !.agent = n]
<1>1. /\ applier[a].pc = "admit" /\ p \in Proposals /\ i \in DOMAIN TurnsOf[p]
      /\ key \in Assignments /\ application[p].status # "none" /\ applier[a] \in ApplierRow
      /\ Teams!KeyAt(a) = key /\ turns \in Nat \ {0}
      /\ UNCHANGED <<run, root, used, busy, proposal, application, messages>>
  BY ApplierFacts, TeamFacts DEF Teams!Admit, Teams!Shared
<1>2. ASSUME NEW n \in Nat
      PROVE  row(n) \in ApplierRow /\ row(n).pc = "note" /\ row(n).agent = n /\ row(n).at = i
  BY <1>1 DEF ApplierRow
<1>3. ASSUME NEW n, applier' = [applier EXCEPT ![a].pc = "note", ![a].agent = n]
      PROVE  applier' = [applier EXCEPT ![a] = row(n)]
  BY <1>1, <1>3, TeamTypes DEF ApplierRow
<1> HIDE DEF row
<1>4. CASE \E n \in WithKey(agents, key) :
               applier' = [applier EXCEPT ![a].pc = "note", ![a].agent = n] /\ UNCHANGED agents
  <2>1. PICK n \in WithKey(agents, key) :
            applier' = [applier EXCEPT ![a].pc = "note", ![a].agent = n] /\ UNCHANGED agents
    BY <1>4
  <2>2. n \in Nat
    BY <2>1, TeamTypes DEF WithKey
  <2>3. Remembers(a, row(n))
    BY <1>1, <1>2, <2>1, <2>2 DEF Remembers
  <2> QED
    BY <1>1, <1>2, <1>3, <2>1, <2>2, <2>3, RequestOnly
<1>5. CASE /\ WithKey(agents, key) = {} /\ Teams!New(key, turns)
           /\ applier' = [applier EXCEPT ![a].pc = "note", ![a].agent = Len(agents) + 1]
  <2> DEFINE n == Len(agents) + 1
  <2>1. /\ root = "ready" /\ Teams!Fits(1, turns) /\ Teams!MayAdmit(key)
        /\ agents' = Append(agents, [key |-> key, turns |-> turns])
    BY <1>5 DEF Teams!New
  <2>2. Applying \subseteq {p}
    <3>1. CASE Applying = {}
      BY <3>1
    <3>2. CASE \E q \in Applying : \E j : key = <<q, j>>
      <4>1. p \in Applying
        BY <3>2
      <4>2. \A x, y \in Applying : x = y
        BY DEF TeamInv, Alone
      <4> QED
        BY <4>1, <4>2
    <3> QED
      BY <2>1, <3>1, <3>2, SameTeams DEF Teams!MayAdmit
  <2>3. key \in Assignments \cup {TaskKey} /\ n \in Nat
    BY <1>1, TeamTypes
  <2>4. \E x \in Proposals : \E y \in DOMAIN TurnsOf[x] :
            /\ key = <<x, y>> /\ turns = TurnsOf[x][y]
            /\ application[x].status # "none" /\ Applying \subseteq {x}
    BY <1>1, <2>2
  <2> HIDE DEF key, turns
  <2>5. /\ agents' \in Seq(AgentRow) /\ Len(agents) + 1 \in WithKey(agents', key)
        /\ Members' /\ Capacity' /\ Unread'
        /\ \A q \in Proposals : Noted(q, application[q])'
        /\ \A x \in Appliers : \A r : Remembers(x, r) => Remembers(x, r)'
    BY <1>1, <1>5, <2>1, <2>3, <2>4, AgentAdded
  <2>6. /\ applier'[a] = row(n) /\ \A x \in Appliers \ {a} : applier'[x] = applier[x]
        /\ applier' \in [Appliers -> ApplierRow]
    <3>1. applier' = [applier EXCEPT ![a] = row(n)]
      BY <1>3, <1>5
    <3> QED
      BY <1>2, <2>3, <3>1, TeamTypes
  <2>7. TeamRows'
    BY <1>1, <2>5, <2>6, TeamTypes DEF TeamRows, AgentRow, MessageRow, AssignmentRow,
       ApplicationRow, ApplierRow, Assignments, TaskKey
  <2>8. Alone'
    BY <1>1 DEF TeamInv, Alone, Applying
  <2>9. ASSUME NEW x \in Appliers PROVE Remembers(x, applier[x])'
    <3>1. CASE x = a
      <4>1. row(n).pc = "note" /\ row(n).agent = n /\ row(n).at = i
        BY <1>2, <2>3
      <4>2. n \in WithKey(agents', <<p, i>>)
        BY <2>5 DEF key
      <4> HIDE DEF n
      <4> QED
        BY <1>1, <2>6, <3>1, <4>1, <4>2 DEF Remembers, WithKey
    <3>2. CASE x # a
      <4>1. Remembers(x, applier[x])
        BY DEF TeamInv
      <4> QED
        BY <2>5, <2>6, <3>2, <4>1 DEF Remembers, WithKey
    <3> QED
      BY <3>1, <3>2
  <2> QED
    BY <2>5, <2>7, <2>8, <2>9, TeamInvFollows
<1> QED
  BY <1>1, <1>4, <1>5, SameTeams DEF Teams!Admit

\* The row of an application moves on.
LEMMA ApplicationMoves ==
    ASSUME Teams!DelegationConstants, TeamInv, NEW p \in Proposals, NEW new \in ApplicationRow,
           application[p].status = "applying", new.status \in {"applying", "applied"},
           application' = [application EXCEPT ![p] = new], Noted(p, new),
           \A i \in DOMAIN new.assignment : application[p].assignment[i].status = "instructed"
                                            => new.assignment[i].status = "instructed",
           applier' \in [Appliers -> ApplierRow],
           \A x \in Appliers : Remembers(x, applier'[x]),
           UNCHANGED <<run, root, used, busy, proposal, agents, messages>>
    PROVE  TeamInv'
<1>1. /\ application' \in [Proposals -> ApplicationRow] /\ application'[p] = new
      /\ \A q \in Proposals \ {p} : application'[q] = application[q]
      /\ application \in [Proposals -> ApplicationRow]
  BY TeamTypes
<1>2. \A q \in Proposals : application'[q].status = "none" <=> application[q].status = "none"
  BY <1>1
<1>3. Applying' \subseteq Applying
  BY <1>1 DEF Applying
<1>4. TeamRows'
  BY <1>1, TeamTypes DEF TeamRows, AgentRow, MessageRow, AssignmentRow, ApplicationRow,
     ApplierRow, Assignments, TaskKey
<1>5. Members'
  BY <1>2 DEF TeamInv, Members, Distinct, WithKey
<1>6. Alone'
  BY <1>1, <1>2, <1>3 DEF TeamInv, Alone
<1>7. Capacity'
  <2>1. \A q : Missing(q)' = Missing(q)
    BY DEF Missing, WithKey
  <2>2. \A q : Need(q, Missing(q))' = Need(q, Missing(q))
    BY <2>1 DEF Need
  <2>3. SumUp(Turns(agents))' = SumUp(Turns(agents))
    BY DEF Turns
  <2> QED
    BY <1>3, <2>1, <2>2, <2>3 DEF TeamInv, Capacity
<1>8. Unread'
  <2>1. ASSUME NEW q \in Applying, NEW i \in Instructed(q), q \in Applying',
               i \in DOMAIN TurnsOf[q]
        PROVE  i \in Instructed(q)'
    <3>1. CASE q = p
      <4>1. DOMAIN new.assignment = DOMAIN TurnsOf[p]
        BY DEF Noted
      <4> QED
        BY <1>1, <2>1, <3>1, <4>1 DEF Instructed
    <3>2. CASE q # p
      <4>1. q \in Proposals
        BY <1>1, <2>1 DEF Applying
      <4> QED
        BY <1>1, <2>1, <3>2, <4>1 DEF Instructed
    <3> QED
      BY <3>1, <3>2
  <2> QED
    BY <1>3, <2>1 DEF TeamInv, Unread, WithKey
<1>9. ASSUME NEW q \in Proposals PROVE Noted(q, application[q])'
  <2>1. \A k : WithKey(agents, k)' = WithKey(agents, k) /\ WithKey(messages, k)' = WithKey(messages, k)
    BY DEF WithKey
  <2>2. Noted(q, application'[q])
    BY <1>1 DEF TeamInv
  <2> QED
    BY <2>1, <2>2 DEF Noted
<1>10. ASSUME NEW x \in Appliers PROVE Remembers(x, applier[x])'
  <2>1. \A k : WithKey(agents, k)' = WithKey(agents, k) /\ WithKey(messages, k)' = WithKey(messages, k)
    BY DEF WithKey
  <2>2. ProposalOf[x] \in Proposals
    BY TeamFacts
  <2> QED
    BY <1>2, <2>1, <2>2 DEF Remembers
<1> QED
  BY <1>4, <1>5, <1>6, <1>7, <1>8, <1>9, <1>10, TeamInvFollows

\* There are no more instructions than Specialists.
LEMMA MessagesAreFew ==
    ASSUME Teams!DelegationConstants, TeamInv
    PROVE  /\ Len(messages) <= Len(agents) /\ Len(agents) \in 0 .. MaxChildren
           /\ DOMAIN agents \subseteq 0 .. MaxChildren /\ DOMAIN messages \subseteq 0 .. MaxChildren
<1> DEFINE S == DOMAIN messages
           T == DOMAIN agents
           f == [m \in S |-> messages[m].to]
<1>1. /\ S = 1 .. Len(messages) /\ T = 1 .. Len(agents) /\ Len(messages) \in Nat
      /\ Len(agents) \in Nat
  BY TeamTypes
<1>2. \A m \in S : f[m] \in T /\ agents[f[m]].key = messages[m].key
  BY DEF TeamInv, Members, WithKey
<1>3. \A m, n \in S : f[m] = f[n] => m = n
  BY <1>2 DEF TeamInv, Members, Distinct
<1>4. f \in Injection(S, T)
  BY <1>2, <1>3 DEF Injection, IsInjective
<1>5. /\ IsFiniteSet(T) /\ Cardinality(T) = Len(agents) /\ Cardinality(S) = Len(messages)
  <2>1. ASSUME NEW n \in Nat PROVE IsFiniteSet(1 .. n) /\ Cardinality(1 .. n) = n
    BY FS_Interval
  <2> HIDE DEF S, T, f
  <2> QED
    BY <1>1, <2>1
<1> HIDE DEF S, T, f
<1>6. Cardinality(S) <= Cardinality(T)
  BY <1>4, <1>5, FS_Injection
<1>7. Len(agents) <= MaxChildren /\ MaxChildren \in Nat
  BY TeamFacts DEF TeamInv, Capacity
<1> QED
  BY <1>1, <1>5, <1>6, <1>7 DEF S, T

LEMMA NoteKeeps ==
    ASSUME Teams!DelegationConstants, TeamInv, NEW a \in Appliers, Teams!Note(a) PROVE TeamInv'
<1> DEFINE p == ProposalOf[a]
           i == applier[a].at
           row == [applier[a] EXCEPT !.pc = "send"]
           old == application[p].assignment[i]
           step == [old EXCEPT !.status = "admitted", !.agent = applier[a].agent]
           rows == [application[p].assignment EXCEPT ![i] = step]
           new == [application[p] EXCEPT !.assignment = rows]
<1>1. /\ applier[a].pc = "note" /\ p \in Proposals /\ i \in DOMAIN TurnsOf[p]
      /\ application[p].status # "none" /\ applier[a] \in ApplierRow
      /\ applier[a].agent \in WithKey(agents, <<p, i>>)
      /\ applier' = [applier EXCEPT ![a] = row]
      /\ UNCHANGED <<run, root, used, busy, proposal, agents, messages>>
  BY ApplierFacts, TeamTypes DEF Teams!Note, Teams!Shared, Teams!Go, Remembers
<1>2. row \in ApplierRow /\ row.pc = "send" /\ row.at = i /\ row.agent = applier[a].agent
  BY <1>1 DEF ApplierRow
<1> HIDE DEF row
<1>3. Remembers(a, row)
  BY <1>1, <1>2 DEF Remembers
<1>4. CASE UNCHANGED application
  BY <1>1, <1>2, <1>3, <1>4, RequestOnly
<1>5. CASE /\ old.status = "pending" /\ application[p].status = "applying"
           /\ application' = [application EXCEPT ![p].assignment[i] =
                                  [@ EXCEPT !.status = "admitted", !.agent = applier[a].agent]]
  <2>1. /\ application[p] \in ApplicationRow /\ Noted(p, application[p])
        /\ application[p].assignment \in Seq(AssignmentRow)
        /\ DOMAIN application[p].assignment = DOMAIN TurnsOf[p]
    BY <1>1, TeamTypes DEF TeamInv, ApplicationRow, Noted
  <2>2. application' = [application EXCEPT ![p] = new]
    BY <1>1, <1>5, <2>1, TeamTypes DEF ApplicationRow
  <2>3. old \in AssignmentRow
    BY <1>1, <2>1
  <2>4. applier[a].agent \in 0 .. MaxChildren
    BY <1>1, MessagesAreFew DEF WithKey
  <2> HIDE DEF old
  <2>5. step \in AssignmentRow /\ step.status = "admitted" /\ step.agent = applier[a].agent
    BY <2>3, <2>4 DEF AssignmentRow
  <2> HIDE DEF step
  <2>6. /\ rows \in Seq(AssignmentRow) /\ DOMAIN rows = DOMAIN TurnsOf[p] /\ rows[i] = step
        /\ \A j \in DOMAIN TurnsOf[p] \ {i} : rows[j] = application[p].assignment[j]
    BY <1>1, <2>1, <2>5
  <2> HIDE DEF rows
  <2>7. /\ new \in ApplicationRow /\ new.status = application[p].status /\ new.assignment = rows
    BY <2>1, <2>6 DEF ApplicationRow
  <2> HIDE DEF new
  <2>8. Noted(p, new)
    BY <1>1, <1>5, <2>1, <2>5, <2>6, <2>7 DEF Noted
  <2>9. \A j \in DOMAIN new.assignment : application[p].assignment[j].status = "instructed"
                                         => new.assignment[j].status = "instructed"
    BY <1>5, <2>6, <2>7 DEF old
  <2>10. /\ applier' \in [Appliers -> ApplierRow]
         /\ \A x \in Appliers : Remembers(x, applier'[x])
    <3>1. \A x \in Appliers : Remembers(x, applier[x])
      BY DEF TeamInv
    <3> QED
      BY <1>1, <1>2, <1>3, <3>1, TeamTypes
  <2>11. application[p].status = "applying" /\ new.status \in {"applying", "applied"}
    BY <1>5, <2>7
  <2> HIDE DEF p
  <2> QED
    BY <1>1, <2>2, <2>7, <2>8, <2>9, <2>10, <2>11, ApplicationMoves
<1> QED
  BY <1>1, <1>4, <1>5, ApplierFacts DEF Teams!Note

LEMMA ConfirmKeeps ==
    ASSUME Teams!DelegationConstants, TeamInv, NEW a \in Appliers, Teams!Confirm(a) PROVE TeamInv'
<1> DEFINE p == ProposalOf[a]
           i == applier[a].at
           message == applier[a].message
           row == Teams!Ahead(applier[a].skip, p, i)
           old == application[p].assignment[i]
           step == [old EXCEPT !.status = "instructed", !.message = message]
           rows == [application[p].assignment EXCEPT ![i] = step]
           new == [application[p] EXCEPT !.assignment = rows]
<1>1. /\ applier[a].pc = "confirm" /\ p \in Proposals /\ i \in DOMAIN TurnsOf[p]
      /\ application[p].status # "none" /\ applier[a] \in ApplierRow
      /\ message \in WithKey(messages, <<p, i>>)
      /\ applier' = [applier EXCEPT ![a] = row]
      /\ UNCHANGED <<run, root, used, busy, proposal, agents, messages>>
  BY ApplierFacts, TeamTypes DEF Teams!Confirm, Teams!Shared, Remembers
<1>2. /\ row \in ApplierRow /\ row.pc \in {"admit", "complete"}
      /\ row.pc = "admit" => row.at \in DOMAIN TurnsOf[p]
  <2>1. applier[a].skip \in SUBSET Nat /\ i \in Nat
    BY <1>1 DEF ApplierRow
  <2> QED
    BY <2>1, AheadFacts
<1> HIDE DEF row
<1>3. Remembers(a, row)
  BY <1>1, <1>2 DEF Remembers
<1>4. CASE UNCHANGED application
  BY <1>1, <1>2, <1>3, <1>4, RequestOnly
<1>5. CASE /\ old.status = "admitted" /\ application[p].status = "applying"
           /\ application' = [application EXCEPT ![p].assignment[i] =
                                  [@ EXCEPT !.status = "instructed", !.message = message]]
  <2>1. /\ application[p] \in ApplicationRow /\ Noted(p, application[p])
        /\ application[p].assignment \in Seq(AssignmentRow)
        /\ DOMAIN application[p].assignment = DOMAIN TurnsOf[p]
    BY <1>1, TeamTypes DEF TeamInv, ApplicationRow, Noted
  <2>2. application' = [application EXCEPT ![p] = new]
    BY <1>1, <1>5, <2>1, TeamTypes DEF ApplicationRow
  <2>3. old \in AssignmentRow
    BY <1>1, <2>1
  <2>4. message \in 0 .. MaxChildren
    BY <1>1, MessagesAreFew DEF WithKey
  <2> HIDE DEF old, message
  <2>5. step \in AssignmentRow /\ step.status = "instructed" /\ step.message = message
        /\ step.agent = old.agent
    BY <2>3, <2>4 DEF AssignmentRow
  <2> HIDE DEF step
  <2>6. /\ rows \in Seq(AssignmentRow) /\ DOMAIN rows = DOMAIN TurnsOf[p] /\ rows[i] = step
        /\ \A j \in DOMAIN TurnsOf[p] \ {i} : rows[j] = application[p].assignment[j]
    BY <1>1, <2>1, <2>5
  <2> HIDE DEF rows
  <2>7. /\ new \in ApplicationRow /\ new.status = application[p].status /\ new.assignment = rows
    BY <2>1, <2>6 DEF ApplicationRow
  <2> HIDE DEF new
  <2>8. Noted(p, new)
    <3>1. old.agent \in WithKey(agents, <<p, i>>)
      BY <1>1, <1>5, <2>1 DEF Noted, old
    <3>2. \A j \in DOMAIN TurnsOf[p] \ {i} :
              /\ rows[j].status # "pending" => rows[j].agent \in WithKey(agents, <<p, j>>)
              /\ rows[j].status = "instructed" => rows[j].message \in WithKey(messages, <<p, j>>)
      BY <2>1, <2>6 DEF Noted
    <3> QED
      BY <1>1, <1>5, <2>5, <2>6, <2>7, <3>1, <3>2 DEF Noted
  <2>9. \A j \in DOMAIN new.assignment : application[p].assignment[j].status = "instructed"
                                         => new.assignment[j].status = "instructed"
    BY <2>5, <2>6, <2>7
  <2>10. /\ applier' \in [Appliers -> ApplierRow]
         /\ \A x \in Appliers : Remembers(x, applier'[x])
    <3>1. \A x \in Appliers : Remembers(x, applier[x])
      BY DEF TeamInv
    <3> QED
      BY <1>1, <1>2, <1>3, <3>1, TeamTypes
  <2>11. application[p].status = "applying" /\ new.status \in {"applying", "applied"}
    BY <1>5, <2>7
  <2> HIDE DEF p
  <2> QED
    BY <1>1, <2>2, <2>7, <2>8, <2>9, <2>10, <2>11, ApplicationMoves
<1> QED
  BY <1>1, <1>4, <1>5, ApplierFacts DEF Teams!Confirm

LEMMA CompleteKeeps ==
    ASSUME Teams!DelegationConstants, TeamInv, NEW a \in Appliers, Teams!Complete(a) PROVE TeamInv'
<1> DEFINE p == ProposalOf[a]
           new == [application[p] EXCEPT !.status = "applied"]
<1>1. /\ p \in Proposals /\ application[p].status = "applying"
      /\ Instructed(p) = DOMAIN application[p].assignment
      /\ applier' = [applier EXCEPT ![a] = Teams!Idle]
      /\ UNCHANGED <<run, root, used, busy, proposal, agents, messages>>
      /\ application[p] \in ApplicationRow /\ Noted(p, application[p])
  BY ApplierFacts, SameTeams, TeamTypes DEF Teams!Complete, Teams!Shared, Teams!Gone, TeamInv
<1>2. application' = [application EXCEPT ![p] = new]
  BY TeamTypes DEF Teams!Complete
<1>3. /\ new \in ApplicationRow /\ new.status = "applied"
      /\ new.assignment = application[p].assignment
  BY <1>1 DEF ApplicationRow
<1> HIDE DEF new
<1>4. Noted(p, new)
  BY <1>1, <1>3 DEF Noted, Instructed
<1>5. /\ applier' \in [Appliers -> ApplierRow] /\ \A x \in Appliers : Remembers(x, applier'[x])
  <2>1. \A x \in Appliers : Remembers(x, applier[x])
    BY DEF TeamInv
  <2> QED
    BY <1>1, <2>1, IdleRemembers, TeamTypes
<1>6. \A i \in DOMAIN new.assignment : application[p].assignment[i].status = "instructed"
                                       => new.assignment[i].status = "instructed"
  BY <1>3
<1> HIDE DEF p
<1> QED
  BY <1>1, <1>2, <1>3, <1>4, <1>5, <1>6, ApplicationMoves

LEMMA SendKeeps ==
    ASSUME Teams!DelegationConstants, TeamInv, NEW a \in Appliers, Teams!Send(a) PROVE TeamInv'
<1> DEFINE p == ProposalOf[a]
           i == applier[a].at
           key == <<p, i>>
           agent == applier[a].agent
           row(m) == [applier[a] EXCEPT !.pc = "confirm", !.message = m]
<1>1. /\ applier[a].pc = "send" /\ p \in Proposals /\ i \in DOMAIN TurnsOf[p]
      /\ key \in Assignments /\ application[p].status # "none" /\ applier[a] \in ApplierRow
      /\ Teams!KeyAt(a) = key /\ agent \in WithKey(agents, key)
      /\ UNCHANGED <<run, root, used, busy, proposal, application, agents>>
  BY ApplierFacts DEF Teams!Send, Teams!Shared, Remembers
<1>2. ASSUME NEW m \in Nat
      PROVE  /\ row(m) \in ApplierRow /\ row(m).pc = "confirm" /\ row(m).message = m
             /\ row(m).at = i /\ row(m).agent = agent
  BY <1>1 DEF ApplierRow
<1>3. ASSUME NEW m, applier' = [applier EXCEPT ![a].pc = "confirm", ![a].message = m]
      PROVE  applier' = [applier EXCEPT ![a] = row(m)]
  BY <1>1, <1>3, TeamTypes DEF ApplierRow
<1> HIDE DEF row
<1>4. CASE \E m \in WithKey(messages, key) :
               /\ applier' = [applier EXCEPT ![a].pc = "confirm", ![a].message = m]
               /\ UNCHANGED messages
  <2>1. PICK m \in WithKey(messages, key) :
            /\ applier' = [applier EXCEPT ![a].pc = "confirm", ![a].message = m]
            /\ UNCHANGED messages
    BY <1>4
  <2>2. m \in Nat
    BY <2>1, TeamTypes DEF WithKey
  <2>3. Remembers(a, row(m))
    BY <1>1, <1>2, <2>1, <2>2 DEF Remembers
  <2> QED
    BY <1>1, <1>2, <1>3, <2>1, <2>2, <2>3, RequestOnly
<1>5. CASE /\ WithKey(messages, key) = {}
           /\ messages' = Append(messages, [key |-> key, to |-> agent, read |-> FALSE])
           /\ applier' = [applier EXCEPT ![a].pc = "confirm", ![a].message = Len(messages) + 1]
  <2> DEFINE n == Len(messages) + 1
             new == [key |-> key, to |-> agent, read |-> FALSE]
  <2>1. new \in MessageRow /\ new.key = key /\ new.to = agent /\ new.read = FALSE
    <3>1. agent \in Nat
      BY <1>1 DEF ApplierRow
    <3> QED
      BY <1>1, <3>1 DEF MessageRow
  <2>2. messages \in Seq(MessageRow) /\ messages' = Append(messages, new)
    BY <1>5, TeamTypes
  <2>3. applier' = [applier EXCEPT ![a] = row(n)]
    BY <1>3, <1>5
  <2> HIDE DEF key, agent, new
  <2>4. /\ messages' \in Seq(MessageRow) /\ n \in Nat /\ n \notin DOMAIN messages
        /\ DOMAIN messages' = DOMAIN messages \cup {n} /\ messages'[n] = new
        /\ \A m \in DOMAIN messages : messages'[m] = messages[m]
        /\ \A k : WithKey(messages', k) = WithKey(messages, k) \cup {m \in {n} : key = k}
    BY <2>1, <2>2, RowAppended
  <2> HIDE DEF n
  <2>5. WithKey(messages', key) = {n} /\ \A k : WithKey(messages, k) \subseteq WithKey(messages', k)
    BY <1>5, <2>4
  <2>6. /\ applier'[a] = row(n) /\ \A x \in Appliers \ {a} : applier'[x] = applier[x]
        /\ applier' \in [Appliers -> ApplierRow]
    BY <1>2, <2>3, <2>4, TeamTypes
  <2>7. TeamRows'
    BY <1>1, <2>4, <2>6, TeamTypes DEF TeamRows, AgentRow, MessageRow, AssignmentRow,
       ApplicationRow, ApplierRow, Assignments, TaskKey
  <2>8. Alone'
    BY <1>1 DEF TeamInv, Alone, Applying
  <2>9. Members'
    <3>1. Distinct(messages')
      BY <1>5, <2>1, <2>2, StaysDistinct DEF TeamInv, Members
    <3>2. Distinct(agents)' /\ Distinct(messages)'
      BY <1>1, <3>1 DEF Distinct, TeamInv, Members
    <3>3. \A k : WithKey(agents, k)' = WithKey(agents, k)
      BY <1>1 DEF WithKey
    <3>4. ASSUME NEW m \in DOMAIN messages'
          PROVE  messages'[m].to \in WithKey(agents, messages'[m].key)
      <4>1. CASE m \in DOMAIN messages
        BY <2>4, <4>1 DEF TeamInv, Members
      <4>2. CASE m = n
        BY <1>1, <2>1, <2>4, <4>2
      <4> QED
        BY <2>4, <4>1, <4>2
    <3>5. \A m \in DOMAIN messages' : messages'[m].to \in WithKey(agents, messages[m].key)'
      BY <1>1, <3>4 DEF WithKey
    <3>6. \A q \in Proposals : \A j \in DOMAIN TurnsOf[q] : \A m \in WithKey(agents, <<q, j>>) :
              application[q].status # "none" /\ agents[m].turns = TurnsOf[q][j]
      BY DEF TeamInv, Members
    <3> QED
      BY <1>1, <3>2, <3>3, <3>5, <3>6 DEF Members
  <2>10. Capacity'
    <3>1. /\ Applying' = Applying /\ \A q : Missing(q)' = Missing(q)
          /\ SumUp(Turns(agents))' = SumUp(Turns(agents))
      BY <1>1 DEF Applying, Missing, WithKey, Turns
    <3>2. \A q : Need(q, Missing(q))' = Need(q, Missing(q))
      BY <3>1 DEF Need
    <3> QED
      BY <1>1, <3>1, <3>2 DEF TeamInv, Capacity
  <2>11. Unread'
    <3>1. /\ Applying' = Applying /\ \A q : Instructed(q)' = Instructed(q)
          /\ \A k : WithKey(messages, k)' = WithKey(messages', k)
      BY <1>1 DEF Applying, Instructed, WithKey
    <3>2. ASSUME NEW q \in Applying, NEW j \in DOMAIN TurnsOf[q] \ Instructed(q),
                 NEW m \in WithKey(messages', <<q, j>>)
          PROVE  ~messages'[m].read
      <4>1. CASE m \in WithKey(messages, <<q, j>>)
        BY <2>4, <3>2, <4>1 DEF TeamInv, Unread, WithKey
      <4>2. CASE m = n
        BY <2>1, <2>4, <4>2
      <4> QED
        BY <2>4, <3>2, <4>1, <4>2
    <3> QED
      BY <3>1, <3>2 DEF Unread
  <2>12. ASSUME NEW q \in Proposals PROVE Noted(q, application[q])'
    <3>1. \A k : WithKey(agents, k)' = WithKey(agents, k) /\ WithKey(messages, k)' = WithKey(messages', k)
      BY <1>1 DEF WithKey
    <3> QED
      BY <1>1, <2>5, <3>1 DEF TeamInv, Noted
  <2>13. ASSUME NEW x \in Appliers PROVE Remembers(x, applier[x])'
    <3>1. \A k : WithKey(agents, k)' = WithKey(agents, k) /\ WithKey(messages, k)' = WithKey(messages', k)
      BY <1>1 DEF WithKey
    <3>2. CASE x = a
      <4>1. row(n).pc = "confirm" /\ row(n).message = n /\ row(n).at = i /\ row(n).agent = agent
        BY <1>2, <2>4
      <4> QED
        BY <1>1, <2>5, <2>6, <3>1, <3>2, <4>1 DEF Remembers, key
    <3>3. CASE x # a
      <4>1. Remembers(x, applier[x])
        BY DEF TeamInv
      <4> QED
        BY <1>1, <2>5, <2>6, <3>1, <3>3, <4>1 DEF Remembers
    <3> QED
      BY <3>2, <3>3
  <2> QED
    BY <2>7, <2>8, <2>9, <2>10, <2>11, <2>12, <2>13, TeamInvFollows
<1> QED
  BY <1>1, <1>4, <1>5, SameTeams DEF Teams!Send

-----------------------------------------------------------------------------
(* Schedules and the end of the Run *)

LEMMA ScheduleEndsKeeps ==
    ASSUME Teams!DelegationConstants, TeamInv, Teams!ScheduleEnds PROVE TeamInv'
<1>1. /\ busy /\ busy' = FALSE
      /\ UNCHANGED <<run, root, used, proposal, application, agents, applier>>
  BY DEF Teams!ScheduleEnds
<1>2. PICK some : messages' = [m \in DOMAIN messages |->
                      [messages[m] EXCEPT !.read = @ \/ (run = "running" /\ m \in some)]]
  BY DEF Teams!ScheduleEnds
<1>3. /\ DOMAIN messages' = DOMAIN messages /\ messages' \in Seq(MessageRow)
      /\ \A m \in DOMAIN messages : /\ messages'[m].key = messages[m].key
                                    /\ messages'[m].to = messages[m].to
  <2> DEFINE b(m) == messages[m].read \/ (run = "running" /\ m \in some)
             new(m) == [messages[m] EXCEPT !.read = b(m)]
  <2>1. messages \in Seq(MessageRow) /\ messages' = [m \in DOMAIN messages |-> new(m)]
    BY <1>2, TeamTypes
  <2>2. ASSUME NEW m \in DOMAIN messages
        PROVE  /\ new(m) \in MessageRow /\ new(m).key = messages[m].key
               /\ new(m).to = messages[m].to
    <3>1. messages[m] \in MessageRow
      BY <2>1
    <3>2. b(m) \in BOOLEAN
      OBVIOUS
    <3> HIDE DEF b
    <3> QED
      BY <3>1, <3>2 DEF MessageRow
  <2> HIDE DEF new
  <2>3. messages' \in [1 .. Len(messages) -> MessageRow] /\ Len(messages) \in Nat
    BY <2>1, <2>2
  <2>4. messages' \in Seq(MessageRow)
    BY <2>3
  <2> QED
    BY <2>1, <2>2, <2>4
<1>4. \A k : WithKey(messages, k)' = WithKey(messages, k) /\ WithKey(agents, k)' = WithKey(agents, k)
  BY <1>1, <1>3 DEF WithKey
<1>5. Applying = {} /\ Applying' = {}
  <2>1. \A p \in Applying : p \in Proposals /\ application[p].status = "applying"
    BY TeamTypes DEF Applying
  <2>2. Applying = {}
    BY <1>1, <2>1 DEF TeamInv, Alone
  <2> QED
    BY <1>1, <2>2 DEF Applying
<1>6. TeamRows'
  BY <1>1, <1>3, TeamTypes DEF TeamRows, AgentRow, MessageRow, AssignmentRow, ApplicationRow,
     ApplierRow, Assignments, TaskKey
<1>7. Members'
  <2>1. Distinct(agents)' /\ Distinct(messages)'
    BY <1>1, <1>3 DEF TeamInv, Members, Distinct
  <2>2. \A m \in DOMAIN messages : messages[m].to \in WithKey(agents, messages[m].key)
    BY DEF TeamInv, Members
  <2>3. \A m \in DOMAIN messages' : messages'[m].to \in WithKey(agents, messages[m].key)'
    BY <1>1, <1>3, <2>2 DEF WithKey
  <2>4. \A q \in Proposals : \A j \in DOMAIN TurnsOf[q] : \A m \in WithKey(agents, <<q, j>>) :
            application[q].status # "none" /\ agents[m].turns = TurnsOf[q][j]
    BY DEF TeamInv, Members
  <2> QED
    BY <1>1, <1>4, <2>1, <2>3, <2>4 DEF Members
<1>8. Alone'
  BY <1>1 DEF TeamInv, Alone, Applying
<1>9. Capacity' /\ Unread'
  <2>1. SumUp(Turns(agents))' = SumUp(Turns(agents))
    BY <1>1 DEF Turns
  <2> QED
    BY <1>1, <1>5, <2>1 DEF TeamInv, Capacity, Unread
<1>10. \A p \in Proposals : Noted(p, application[p])'
  BY <1>1, <1>4 DEF TeamInv, Noted
<1>11. \A x \in Appliers : Remembers(x, applier[x])'
  BY <1>1, <1>4 DEF TeamInv, Remembers
<1> QED
  BY <1>6, <1>7, <1>8, <1>9, <1>10, <1>11, TeamInvFollows

LEMMA EndRunKeeps ==
    ASSUME Teams!DelegationConstants, TeamInv, Teams!EndRun PROVE TeamInv'
<1> DEFINE new(p) == IF p \in Applying THEN [application[p] EXCEPT !.status = "aborted"]
                     ELSE application[p]
<1>1. /\ run' = "ended" /\ root' = "ready" /\ application' = [p \in Proposals |-> new(p)]
      /\ UNCHANGED <<used, busy, proposal, agents, messages, applier>>
  BY SameTeams DEF Teams!EndRun
<1>2. ASSUME NEW p \in Proposals
      PROVE  /\ new(p) \in ApplicationRow /\ new(p).assignment = application[p].assignment
             /\ new(p).status = "none" <=> application[p].status = "none"
             /\ new(p).status = "applied" <=> application[p].status = "applied"
             /\ new(p).status # "applying"
  <2>1. application[p] \in ApplicationRow
    BY TeamTypes
  <2>2. p \in Applying <=> application[p].status = "applying"
    BY TeamTypes DEF Applying
  <2>3. CASE p \in Applying
    BY <2>1, <2>2, <2>3 DEF ApplicationRow
  <2>4. CASE p \notin Applying
    BY <2>1, <2>2, <2>4
  <2> QED
    BY <2>3, <2>4
<1> HIDE DEF new
<1>3. /\ application' \in [Proposals -> ApplicationRow]
      /\ \A p \in Proposals : application'[p] = new(p)
  BY <1>1, <1>2
<1>4. Applying' = {}
  BY <1>2, <1>3 DEF Applying
<1>5. \A k : WithKey(messages, k)' = WithKey(messages, k) /\ WithKey(agents, k)' = WithKey(agents, k)
  BY <1>1 DEF WithKey
<1>6. TeamRows'
  BY <1>1, <1>3, TeamTypes DEF TeamRows, AgentRow, MessageRow, AssignmentRow, ApplicationRow,
     ApplierRow, Assignments, TaskKey
<1>7. Members'
  BY <1>1, <1>2, <1>3 DEF TeamInv, Members, Distinct, WithKey
<1>8. Alone'
  <2>1. \A p \in Proposals : application'[p].status # "none" => proposal'[p] = "approved"
    BY <1>1, <1>2, <1>3 DEF TeamInv, Alone
  <2>2. \A p \in Proposals : application'[p].status # "applying"
    BY <1>2, <1>3
  <2> QED
    BY <1>1, <1>4, <2>1, <2>2 DEF Alone
<1>9. Capacity' /\ Unread'
  <2> DEFINE s == SumUp(Turns(agents))
  <2>1. s' = s /\ s \in Nat
    BY <1>1, TeamTypes, TurnsFacts DEF Turns
  <2>2. used \in Nat /\ MaxTurns \in Nat
    BY TeamTypes, TeamFacts
  <2>3. /\ used + s + (IF root = "running" THEN 1 ELSE 0) <= MaxTurns /\ Len(agents) <= MaxChildren
    BY DEF TeamInv, Capacity
  <2>4. SumUp(Turns(agents))' = s
    BY <2>1
  <2> HIDE DEF s
  <2>5. used + s + 0 <= MaxTurns
    BY <2>1, <2>2, <2>3
  <2> QED
    BY <1>1, <1>4, <2>3, <2>4, <2>5 DEF Capacity, Unread
<1>10. \A p \in Proposals : Noted(p, application[p])'
  BY <1>2, <1>3, <1>5 DEF TeamInv, Noted
<1>11. ASSUME NEW x \in Appliers PROVE Remembers(x, applier[x])'
  <2>1. ProposalOf[x] \in Proposals
    BY TeamFacts
  <2> QED
    BY <1>1, <1>2, <1>3, <1>5, <2>1 DEF TeamInv, Remembers
<1> QED
  BY <1>6, <1>7, <1>8, <1>9, <1>10, <1>11, TeamInvFollows

LEMMA InitTeamInv ==
    ASSUME Teams!DelegationConstants, Teams!Init PROVE TeamInv
<1>1. /\ run = "running" /\ root = "ready" /\ used = 0 /\ busy = FALSE
      /\ proposal = [p \in Proposals |-> "none"]
      /\ application = [p \in Proposals |-> Teams!NoApplication]
      /\ agents = << >> /\ messages = << >>
      /\ applier = [a \in Appliers |-> Teams!Idle]
  BY DEF Teams!Init
<1>2. /\ Teams!NoApplication \in ApplicationRow /\ Teams!NoApplication.status = "none"
      /\ DOMAIN Teams!NoApplication.assignment = {}
  BY DEF Teams!NoApplication, ApplicationRow
<1>3. Applying = {}
  BY <1>1, <1>2 DEF Applying
<1>4. \A k : WithKey(agents, k) = {} /\ WithKey(messages, k) = {}
  BY <1>1 DEF WithKey
<1>5. MaxTurns \in Nat /\ MaxChildren \in Nat
  BY TeamFacts
<1>6. TeamRows
  <2>1. application \in [Proposals -> ApplicationRow]
    BY <1>1, <1>2
  <2>2. applier \in [Appliers -> ApplierRow]
    BY <1>1, IdleRemembers
  <2>3. agents \in Seq(AgentRow) /\ messages \in Seq(MessageRow)
    BY <1>1
  <2>4. proposal \in [Proposals -> {"none", "proposed", "approved", "rejected"}]
    BY <1>1
  <2>5. busy \in BOOLEAN
    BY <1>1
  <2>6. used \in 0 .. MaxTurns
    BY <1>1, <1>5
  <2>7. run \in {"running", "paused", "ended"} /\ root \in {"ready", "running"}
    BY <1>1
  <2> QED
    BY <2>1, <2>2, <2>3, <2>4, <2>5, <2>6, <2>7 DEF TeamRows
<1>7. Members /\ Alone /\ Unread
  BY <1>1, <1>2, <1>3, <1>4 DEF Members, Alone, Unread, Distinct
<1>8. Capacity
  <2>1. Turns(agents) = << >> /\ SumUp(<< >>) = 0
    BY <1>1, SumUpEmpty DEF Turns
  <2>2. Len(agents) = 0
    BY <1>1
  <2> QED
    BY <1>1, <1>3, <1>5, <2>1, <2>2 DEF Capacity
<1>9. \A p \in Proposals : Noted(p, application[p])
  BY <1>1, <1>2 DEF Noted
<1>10. \A x \in Appliers : Remembers(x, applier[x])
  BY <1>1, IdleRemembers
<1> QED
  BY <1>6, <1>7, <1>8, <1>9, <1>10 DEF TeamInv

LEMMA NextTeamInv ==
    ASSUME Teams!DelegationConstants, TeamInv, [Teams!Next]_Teams!vars PROVE TeamInv'
<1>1. CASE Teams!AdmitChildTask
  BY <1>1, AdmitChildTaskKeeps
<1>2. CASE Teams!ScheduleEnds
  BY <1>2, ScheduleEndsKeeps
<1>3. CASE Teams!EndRun
  BY <1>3, EndRunKeeps
<1>4. CASE \/ Teams!RootBegins \/ Teams!RootEnds \/ Teams!Schedule \/ Teams!Pause \/ Teams!Resume
           \/ (\E p \in Proposals : Teams!Propose(p) \/ Teams!Review(p)) \/ UNCHANGED Teams!vars
  BY <1>4, RootKeeps
<1>5. CASE \E a \in Appliers : \/ Teams!Apply(a) \/ Teams!Repeat(a) \/ Teams!Admit(a)
                               \/ Teams!Note(a) \/ Teams!Send(a) \/ Teams!Confirm(a)
                               \/ Teams!Complete(a) \/ Teams!Fails(a)
  BY <1>5, ApplyKeeps, RepeatKeeps, AdmitKeeps, NoteKeeps, SendKeeps, ConfirmKeeps,
     CompleteKeeps, FailsKeeps
<1> QED
  BY <1>1, <1>2, <1>3, <1>4, <1>5 DEF Teams!Next

LEMMA TeamInvHolds ==
    ASSUME Teams!DelegationConstants PROVE Teams!Spec => []TeamInv
<1>1. Teams!Init => TeamInv
  BY InitTeamInv
<1>2. TeamInv /\ [Teams!Next]_Teams!vars => TeamInv'
  BY NextTeamInv
<1> QED
  BY <1>1, <1>2, PTL DEF Teams!Spec

-----------------------------------------------------------------------------
(* What is promised *)

LEMMA TeamInvFits == ASSUME Teams!DelegationConstants, TeamInv PROVE ApplicationsFit
<1> DEFINE s == SumUp(Turns(agents))
<1>1. /\ s \in Nat /\ SumOf(Turns(agents)) = s /\ ReservedTurns = s
      /\ used \in Nat /\ Len(agents) \in Nat /\ MaxTurns \in Nat /\ MaxChildren \in Nat
  BY TeamTypes, TeamFacts, TurnsFacts, SameTeams
<1>2. used + s + (IF root = "running" THEN 1 ELSE 0) <= MaxTurns
  BY DEF TeamInv, Capacity
<1>3. ASSUME NEW p \in Applying
      PROVE  /\ run # "ended" /\ root = "ready"
             /\ Fits(Cardinality(Missing(p)),
                     SumOf([i \in DOMAIN TurnsOf[p] |->
                                IF i \in Missing(p) THEN TurnsOf[p][i] ELSE 0]))
             /\ \A i \in DOMAIN TurnsOf[p] \ Instructed(p) :
                    \A m \in WithKey(messages, <<p, i>>) : ~messages[m].read
  <2>1. p \in Proposals /\ application[p].status = "applying"
    BY <1>3, TeamTypes DEF Applying
  <2>2. run # "ended" /\ root = "ready"
    BY <2>1 DEF TeamInv, Alone
  <2>3. \A i \in DOMAIN TurnsOf[p] \ Instructed(p) :
            \A m \in WithKey(messages, <<p, i>>) : ~messages[m].read
    BY <1>3 DEF TeamInv, Unread
  <2> DEFINE n == Need(p, Missing(p))
             c == Cardinality(Missing(p))
             asked == SumOf([i \in DOMAIN TurnsOf[p] |->
                                IF i \in Missing(p) THEN TurnsOf[p][i] ELSE 0])
             l == Len(agents)
  <2>4. n \in Nat /\ asked = n
    BY <2>1, NeedFacts
  <2>5. c \in Nat
    <3>1. Missing(p) \in SUBSET DOMAIN TurnsOf[p]
      BY DEF Missing
    <3> QED
      BY <2>1, <3>1, NeedFacts
  <2>6. l + c <= MaxChildren /\ used + s + n < MaxTurns
    BY <1>3 DEF TeamInv, Capacity
  <2> HIDE DEF n, c, asked, s, l
  <2>7. l + c <= MaxChildren /\ MaxTurns - used - ReservedTurns - asked >= 1
    BY <1>1, <2>4, <2>5, <2>6
  <2>8. Fits(c, asked)
    BY <2>7 DEF Fits, l
  <2> QED
    BY <2>2, <2>3, <2>8 DEF c, asked
<1> HIDE DEF s
<1>4. used + ReservedTurns + (IF root = "running" THEN 1 ELSE 0) <= MaxTurns
  BY <1>1, <1>2
<1> QED
  BY <1>3, <1>4 DEF ApplicationsFit, Missing

\* The root and its Specialists never have more turns between them than the Run
\* (specialistReservationsTx), and an application that BeginSpecialistDelegationApplication
\* began can be brought to its end: whatever other requests do to the capacity of the root,
\* what is still to be admitted fits, and no instruction is read before it is noted.
THEOREM ApplicationsAlwaysFit ==
    ASSUME Teams!DelegationConstants PROVE Teams!Spec => []ApplicationsFit
<1>1. TeamInv => ApplicationsFit
  BY TeamInvFits
<1> QED
  BY <1>1, TeamInvHolds, PTL

LEMMA TeamInvIsExact == ASSUME Teams!DelegationConstants, TeamInv PROVE TeamsAreExact
<1> SUFFICES ASSUME NEW p \in Proposals, NEW i \in DOMAIN TurnsOf[p]
             PROVE  LET team == WithKey(agents, <<p, i>>)
                        told == WithKey(messages, <<p, i>>)
                    IN  /\ team # {} => proposal[p] = "approved" /\ application[p].status # "none"
                        /\ Cardinality(team) <= 1 /\ Cardinality(told) <= 1
                        /\ \A n \in team : agents[n].turns = TurnsOf[p][i]
                        /\ \A m \in told : messages[m].to \in team
                        /\ application[p].status = "applied" =>
                             /\ team = {application[p].assignment[i].agent}
                             /\ told = {application[p].assignment[i].message}
  BY TeamTypes DEF TeamsAreExact
<1> DEFINE team == WithKey(agents, <<p, i>>)
           told == WithKey(messages, <<p, i>>)
<1>1. \A n \in team : /\ agents[n].turns = TurnsOf[p][i] /\ application[p].status # "none"
                      /\ proposal[p] = "approved"
  BY DEF TeamInv, Members, Alone
<1>2. \A m \in told : messages[m].to \in team
  BY DEF TeamInv, Members, WithKey
<1>3. /\ Cardinality(team) <= 1 /\ \A n \in team : team = {n}
      /\ Cardinality(told) <= 1 /\ \A m \in told : told = {m}
  BY OneWithKey DEF TeamInv, Members
<1>4. ASSUME application[p].status = "applied"
      PROVE  application[p].assignment[i].agent \in team /\ application[p].assignment[i].message \in told
  BY <1>4 DEF TeamInv, Noted
<1> HIDE DEF team, told
<1> QED
  BY <1>1, <1>2, <1>3, <1>4 DEF team, told

\* However often SpecialistDelegationService.Apply is repeated, at once or after a crash, each
\* assignment of an approved proposal gets at most one Specialist, with the turns it asks for,
\* and one instruction, and an application that is complete has exactly these.
THEOREM TeamsAreAlwaysExact ==
    ASSUME Teams!DelegationConstants PROVE Teams!Spec => []TeamsAreExact
<1>1. TeamInv => TeamsAreExact
  BY TeamInvIsExact
<1> QED
  BY <1>1, TeamInvHolds, PTL

\* The rows of proposals, applications, Specialists and instructions, and what each request
\* remembers of them, keep their types.
THEOREM DelegationTypes ==
    ASSUME Teams!DelegationConstants PROVE Teams!Spec => []Teams!TypeOK
<1>1. ASSUME TeamInv PROVE Teams!TypeOK
  <2>1. /\ run \in {"running", "paused", "ended"} /\ root \in {"ready", "running"}
        /\ used \in 0 .. MaxTurns /\ busy \in BOOLEAN
        /\ proposal \in [Proposals -> {"none", "proposed", "approved", "rejected"}]
        /\ application \in [Proposals -> ApplicationRow]
        /\ agents \in Seq(AgentRow) /\ messages \in Seq(MessageRow)
        /\ applier \in [Appliers -> ApplierRow]
    BY <1>1, TeamTypes
  <2>2. \A p \in Proposals :
            /\ application[p].status \in {"none", "applying", "applied", "aborted"}
            /\ application[p].assignment \in Seq(AssignmentRow)
    BY <2>1 DEF ApplicationRow
  <2>3. \A n \in DOMAIN agents : agents[n].turns \in Nat
    <3>1. \A n \in DOMAIN agents : agents[n] \in AgentRow
      BY <2>1
    <3> QED
      BY <3>1 DEF AgentRow
  <2>4. \A m \in DOMAIN messages : messages[m].to \in DOMAIN agents
    BY <1>1 DEF TeamInv, Members, WithKey
  <2>5. \A a \in Appliers :
            applier[a].pc \in {"idle", "admit", "note", "send", "confirm", "complete"}
    BY <2>1 DEF ApplierRow
  <2> QED
    BY <2>1, <2>2, <2>3, <2>4, <2>5 DEF Teams!TypeOK, AssignmentRow
<1> QED
  BY <1>1, TeamInvHolds, PTL
=============================================================================
