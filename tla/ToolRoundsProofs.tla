--------------------------- MODULE ToolRoundsProofs ---------------------------
(***************************************************************************)
(* Theorems about ToolRounds, for any number of workers, calls, rounds,    *)
(* turns and attempts: what a turn's calls have created is what their      *)
(* results say, and nobody is asked for more, nor is a turn committed,     *)
(* while a call is unresolved.                                             *)
(***************************************************************************)
EXTENDS ToolRounds, FiniteSetTheorems, NaturalsInduction, WellFoundedInduction,
        SequenceTheorems, TLAPS

(***************************************************************************)
(* The invariant.                                                          *)
(***************************************************************************)

Batch == {b \in Seq(Call) : Len(b) \in 1 .. MaxCalls}
AttemptRow == [turn : Turns, rounds : {q \in Seq(Batch) : Len(q) <= MaxRounds},
               answer : {"none", "tools", "action"}, committed : BOOLEAN]
Pcs == {"idle", "holding", "reading", "resuming", "executing", "recording", "calling", "answered"}
WorkerRow == [pc : Pcs, generation : 0 .. MaxGeneration, attempt : 0 .. MaxAttempts,
              round : 0 .. MaxRounds, todo : SUBSET Places,
              result : {"none", "completed", "failed"}]
CkRow == [generation : 0 .. MaxGeneration, turn : 1 .. MaxTurns + 1,
          phase : {"idle", "turn_started", "turn_failed"}, attempt : 0 .. MaxAttempts]

\* TypeOK, and that no intent of a turn has created two entities.
Types ==
    /\ status \in {"running", "paused", "ended"}
    /\ generation \in 0 .. MaxGeneration
    /\ authority \in {"live", "lapsed", "released"}
    /\ ck \in CkRow
    /\ attempts \in Seq(AttemptRow) /\ Len(attempts) <= MaxAttempts
    /\ consumed \in 0 .. MaxToolCalls
    /\ entities \in [Turns \X Intents -> {0, 1}]
    /\ worker \in [Workers -> WorkerRow]

\* Is c the place of a call of attempt a?
IsCall(a, c) == c[1] \in DOMAIN attempts[a].rounds /\ c[2] \in DOMAIN attempts[a].rounds[c[1]]

KeyOf(c) ==
    <<attempts[c.attempt].turn,
      attempts[c.attempt].rounds[First(c.todo)[1]][First(c.todo)[2]].intent>>

\* A worker resumes calls that its attempt has; the entity it is about to record exists; and
\* while it holds the lease it calls the model with every result.
WorkerIsSound(c) ==
    /\ c.generation <= generation
    /\ c.pc \notin {"idle", "holding"} => c.attempt \in DOMAIN attempts
    /\ c.pc \in {"resuming", "executing", "recording"} =>
           c.todo # {} /\ \A d \in c.todo : IsCall(c.attempt, d)
    /\ c.pc = "recording" => c.result # "none"
    /\ c.pc = "recording" /\ c.result = "completed" => entities[KeyOf(c)] = 1
    /\ c.pc = "calling" /\ c.generation = generation => PendingOf(c.attempt) = {}

WorkersAreSound == \A w \in Workers : WorkerIsSound(worker[w])

\* A lease is granted to one.
OneHolder ==
    \A v, w \in Workers :
        worker[v].pc # "idle" /\ worker[w].pc # "idle"
            /\ worker[v].generation = worker[w].generation => v = w

TurnIsOpen ==
    ck.phase = "turn_started" =>
        /\ ck.turn <= MaxTurns
        /\ ck.attempt \in DOMAIN attempts /\ ~attempts[ck.attempt].committed

Created == {e \in Turns \X Intents : entities[e] > 0}
Executors == {w \in Workers : worker[w].pc = "executing"}

\* Whoever executes has paid, beside what was created.
ChargesCover ==
    /\ IsFiniteSet(Created) /\ IsFiniteSet(Executors)
    /\ Cardinality(Created) + Cardinality(Executors) <= consumed

CompletedExist ==
    \A a \in DOMAIN attempts : \A r \in DOMAIN attempts[a].rounds :
        \A p \in DOMAIN attempts[a].rounds[r] :
            attempts[a].rounds[r][p].status = "completed" =>
                entities[<<attempts[a].turn, attempts[a].rounds[r][p].intent>>] = 1

\* Inductive: what the properties rest on.
ToolsInv ==
    /\ Types
    /\ WorkersAreSound
    /\ OneHolder
    /\ TurnIsOpen
    /\ ChargesCover
    /\ CompletedExist
    /\ RoundsAreResolved

(***************************************************************************)
(* Numbers, places and rows.                                               *)
(***************************************************************************)

LEMMA Numbers ==
    ASSUME ToolConstants
    PROVE  /\ MaxCalls \in Nat /\ MaxRounds \in Nat /\ MaxTurns \in Nat /\ MaxToolCalls \in Nat
           /\ MaxAttempts \in Nat /\ MaxGeneration \in Nat
           /\ MaxCalls > 0 /\ MaxRounds > 0 /\ MaxTurns > 0
  BY DEF ToolConstants

\* A set of numbers has a least one.
LEMMA LeastExists ==
    ASSUME NEW S \in SUBSET Nat, S # {}
    PROVE  \E m \in S : \A x \in S : m <= x
<1> DEFINE R == OpToRel(<, Nat)
<1>1. IsWellFoundedOn(R, Nat)
  BY NatLessThanWellFounded
<1>2. \A x, y \in Nat : y < x => <<y, x>> \in R
  BY DEF OpToRel
<1> HIDE DEF R
<1>3. PICK m \in S : \A y \in S : ~(<<y, m>> \in R)
  BY <1>1, WFMin
<1>4. ASSUME NEW x \in S PROVE m <= x
  <2>1. m \in Nat /\ x \in Nat /\ ~(x < m)
    BY <1>2, <1>3
  <2> QED
    BY <2>1
<1>5. QED
  BY <1>4

LEMMA FirstIn ==
    ASSUME ToolConstants, NEW todo \in SUBSET Places, todo # {}
    PROVE  First(todo) \in todo
<1>1. \A c \in todo : c[1] \in Nat /\ c[2] \in Nat
  BY Numbers DEF Places
<1> DEFINE R == {c[1] : c \in todo}
<1>2. R \in SUBSET Nat /\ R # {}
  BY <1>1
<1>3. PICK r \in R : \A x \in R : r <= x
  BY <1>2, LeastExists
<1> DEFINE P == {c[2] : c \in {d \in todo : d[1] = r}}
<1>4. P \in SUBSET Nat /\ P # {}
  BY <1>1
<1>5. PICK p \in P : \A x \in P : p <= x
  BY <1>4, LeastExists
<1>6. PICK c \in todo : c[1] = r /\ c[2] = p
  BY <1>5
<1>7. \A d \in todo : c[1] < d[1] \/ (c[1] = d[1] /\ c[2] <= d[2])
  <2> SUFFICES ASSUME NEW d \in todo PROVE c[1] < d[1] \/ (c[1] = d[1] /\ c[2] <= d[2])
    OBVIOUS
  <2>1. r <= d[1] /\ r \in Nat /\ d[1] \in Nat
    BY <1>1, <1>2, <1>3
  <2>2. d[1] = r => p <= d[2]
    BY <1>5
  <2> QED
    BY <1>6, <2>1, <2>2
<1>8. QED
  BY <1>6, <1>7 DEF First

LEMMA RowFields ==
    ASSUME ToolConstants, Types, NEW a \in DOMAIN attempts
    PROVE  /\ attempts[a] \in AttemptRow /\ attempts[a].turn \in Turns
           /\ attempts[a].rounds \in Seq(Batch)
           /\ \A r \in DOMAIN attempts[a].rounds :
                 /\ attempts[a].rounds[r] \in Batch
                 /\ r \in 1 .. MaxRounds
                 /\ \A p \in DOMAIN attempts[a].rounds[r] :
                       /\ attempts[a].rounds[r][p] \in Call
                       /\ p \in 1 .. MaxCalls /\ <<r, p>> \in Places
<1>1. attempts[a] \in AttemptRow
  BY DEF Types
<1>2. /\ attempts[a].turn \in Turns /\ attempts[a].rounds \in Seq(Batch)
      /\ Len(attempts[a].rounds) <= MaxRounds
  BY <1>1 DEF AttemptRow
<1>3. ASSUME NEW r \in DOMAIN attempts[a].rounds
      PROVE  attempts[a].rounds[r] \in Batch /\ r \in 1 .. MaxRounds
  BY <1>2, Numbers
<1>4. ASSUME NEW r \in DOMAIN attempts[a].rounds, NEW p \in DOMAIN attempts[a].rounds[r]
      PROVE  attempts[a].rounds[r][p] \in Call /\ p \in 1 .. MaxCalls
  <2>1. PICK b \in Batch : b = attempts[a].rounds[r]
    BY <1>3
  <2>2. b \in Seq(Call) /\ Len(b) <= MaxCalls /\ p \in DOMAIN b
    BY <2>1, Numbers DEF Batch
  <2>3. b[p] \in Call /\ p \in 1 .. MaxCalls
    BY <2>2, Numbers
  <2> QED
    BY <2>1, <2>3
<1>5. QED
  BY <1>1, <1>2, <1>3, <1>4 DEF Places

LEMMA SeqPut ==
    ASSUME NEW S, NEW q \in Seq(S), NEW i \in DOMAIN q, NEW x \in S, NEW q2,
           q2 = [q EXCEPT ![i] = x]
    PROVE  /\ q2 \in Seq(S) /\ Len(q2) = Len(q) /\ DOMAIN q2 = DOMAIN q /\ q2[i] = x
           /\ \A k \in DOMAIN q : k # i => q2[k] = q[k]
  OBVIOUS

LEMMA SeqAdd ==
    ASSUME NEW S, NEW q \in Seq(S), NEW x \in S, NEW q2, q2 = Append(q, x)
    PROVE  /\ q2 \in Seq(S) /\ Len(q2) = Len(q) + 1 /\ DOMAIN q2 = 1 .. Len(q) + 1
           /\ DOMAIN q = 1 .. Len(q) /\ Len(q) \in Nat
           /\ q2[Len(q) + 1] = x /\ \A k \in DOMAIN q : q2[k] = q[k] /\ k \in DOMAIN q2
  OBVIOUS

(***************************************************************************)
(* What a step does to the attempts, and what workers remember.            *)
(***************************************************************************)

\* Calls are never removed or changed, except for their results.
RowsKeep ==
    \A a \in DOMAIN attempts :
        /\ a \in DOMAIN attempts' /\ attempts'[a].turn = attempts[a].turn
        /\ \A r \in DOMAIN attempts[a].rounds :
               /\ r \in DOMAIN attempts'[a].rounds
               /\ \A p \in DOMAIN attempts[a].rounds[r] :
                      /\ p \in DOMAIN attempts'[a].rounds[r]
                      /\ attempts'[a].rounds[r][p].intent = attempts[a].rounds[r][p].intent

EntitiesGrow == \A e \in Turns \X Intents : entities[e] = 1 => entities'[e] = 1

LEMMA SameRows ==
    ASSUME UNCHANGED attempts
    PROVE  RowsKeep /\ \A a \in DOMAIN attempts : PendingOf(a)' = PendingOf(a)
  BY DEF RowsKeep, PendingOf

LEMMA KeyIs ==
    ASSUME ToolConstants, Types, NEW c \in WorkerRow, c.attempt \in DOMAIN attempts, c.todo # {},
           \A d \in c.todo : IsCall(c.attempt, d)
    PROVE  /\ KeyOf(c) \in Turns \X Intents
           /\ First(c.todo) \in c.todo /\ First(c.todo) \in Places
           /\ First(c.todo)[1] \in DOMAIN attempts[c.attempt].rounds
           /\ First(c.todo)[2] \in DOMAIN attempts[c.attempt].rounds[First(c.todo)[1]]
<1>1. c.todo \in SUBSET Places
  BY DEF WorkerRow
<1>2. First(c.todo) \in c.todo
  BY <1>1, FirstIn
<1>3. IsCall(c.attempt, First(c.todo))
  BY <1>2
<1>4. /\ First(c.todo)[1] \in DOMAIN attempts[c.attempt].rounds
      /\ First(c.todo)[2] \in DOMAIN attempts[c.attempt].rounds[First(c.todo)[1]]
  BY <1>3 DEF IsCall
<1>5. attempts[c.attempt].rounds[First(c.todo)[1]][First(c.todo)[2]] \in Call
      /\ attempts[c.attempt].turn \in Turns
  BY <1>4, RowFields
<1>6. QED
  BY <1>1, <1>2, <1>4, <1>5 DEF KeyOf, Call

LEMMA KeyKeeps ==
    ASSUME ToolConstants, Types, RowsKeep, NEW c \in WorkerRow, c.attempt \in DOMAIN attempts,
           c.todo # {}, \A d \in c.todo : IsCall(c.attempt, d)
    PROVE  KeyOf(c)' = KeyOf(c) /\ \A d \in c.todo : IsCall(c.attempt, d)'
<1>1. /\ First(c.todo)[1] \in DOMAIN attempts[c.attempt].rounds
      /\ First(c.todo)[2] \in DOMAIN attempts[c.attempt].rounds[First(c.todo)[1]]
  BY KeyIs
<1>2. QED
  BY <1>1 DEF KeyOf, RowsKeep, IsCall

LEMMA WorkerKeeps ==
    ASSUME ToolConstants, Types, RowsKeep, EntitiesGrow, NEW c \in WorkerRow, WorkerIsSound(c),
           c.generation <= generation',
           c.pc = "calling" /\ c.generation = generation' => PendingOf(c.attempt)' = {}
    PROVE  WorkerIsSound(c)'
<1>1. c.pc \notin {"idle", "holding"} => c.attempt \in DOMAIN attempts'
  BY DEF WorkerIsSound, RowsKeep
<1>2. ASSUME c.pc \in {"resuming", "executing", "recording"}
      PROVE  /\ c.todo # {} /\ \A d \in c.todo : IsCall(c.attempt, d)'
             /\ KeyOf(c)' = KeyOf(c) /\ KeyOf(c) \in Turns \X Intents
  <2>1. c.attempt \in DOMAIN attempts /\ c.todo # {} /\ \A d \in c.todo : IsCall(c.attempt, d)
    BY <1>2 DEF WorkerIsSound
  <2> QED
    BY <2>1, KeyIs, KeyKeeps
<1>3. ASSUME c.pc = "recording" /\ c.result = "completed"
      PROVE  entities'[KeyOf(c)'] = 1
  <2>1. entities[KeyOf(c)] = 1
    BY <1>3 DEF WorkerIsSound
  <2> QED
    BY <1>2, <1>3, <2>1 DEF EntitiesGrow
<1>4. QED
  BY <1>1, <1>2, <1>3 DEF WorkerIsSound

\* One worker moves, or nobody.
LEMMA WorkersKeep ==
    ASSUME ToolConstants, ToolsInv, RowsKeep, EntitiesGrow, generation' \in Nat,
           generation <= generation',
           \A v \in Workers : worker'[v] = worker[v] =>
               (worker[v].pc = "calling" /\ worker[v].generation = generation' =>
                   PendingOf(worker[v].attempt)' = {}),
           \/ UNCHANGED worker
           \/ \E w \in Workers : \E c \in WorkerRow :
                 worker' = [worker EXCEPT ![w] = c] /\ WorkerIsSound(c)'
    PROVE  WorkersAreSound'
<1>1. Types /\ \A v \in Workers : worker[v] \in WorkerRow /\ WorkerIsSound(worker[v])
  BY DEF ToolsInv, Types, WorkersAreSound
<1>2. ASSUME NEW v \in Workers, worker'[v] = worker[v] PROVE WorkerIsSound(worker[v])'
  <2>1. PICK c \in WorkerRow : c = worker[v]
    BY <1>1
  <2>2. WorkerIsSound(c) /\ c.generation \in Nat /\ c.generation <= generation
    BY <1>1, <2>1, Numbers DEF WorkerIsSound, WorkerRow
  <2>3. c.generation <= generation'
    BY <1>1, <2>2, Numbers DEF Types
  <2>4. c.pc = "calling" /\ c.generation = generation' => PendingOf(c.attempt)' = {}
    <3> SUFFICES ASSUME c.pc = "calling" /\ c.generation = generation'
                 PROVE  PendingOf(c.attempt)' = {}
      OBVIOUS
    <3>1. PICK a : a = c.attempt
      OBVIOUS
    <3>2. PendingOf(worker[v].attempt)' = {}
      BY <1>2, <2>1
    <3> QED
      BY <1>2, <2>1, <3>2 DEF PendingOf
  <2>5. WorkerIsSound(c)'
    BY <1>1, <2>2, <2>3, <2>4, WorkerKeeps
  <2> QED
    BY <1>2, <2>1, <2>5 DEF WorkerIsSound, KeyOf
<1>3. CASE UNCHANGED worker
  BY <1>2, <1>3 DEF WorkersAreSound
<1>4. ASSUME NEW w \in Workers, NEW c \in WorkerRow, worker' = [worker EXCEPT ![w] = c],
             WorkerIsSound(c)'
      PROVE  WorkersAreSound'
  <2>1. worker'[w] = c /\ \A v \in Workers : v # w => worker'[v] = worker[v]
    BY <1>1, <1>4 DEF Types
  <2>2. WorkerIsSound(worker[w])'
    BY <1>4, <2>1 DEF WorkerIsSound, KeyOf
  <2> QED
    BY <1>2, <2>1, <2>2 DEF WorkersAreSound
<1>5. QED
  BY <1>3, <1>4

LEMMA HolderKeeps ==
    ASSUME ToolsInv, NEW w \in Workers, NEW c, worker' = [worker EXCEPT ![w] = c],
           \/ c.pc = "idle"
           \/ worker[w].pc # "idle" /\ c.generation = worker[w].generation
           \/ \A v \in Workers : worker[v].generation # c.generation
    PROVE  OneHolder'
<1>1. worker'[w] = c /\ \A v \in Workers : v # w => worker'[v] = worker[v]
  BY DEF ToolsInv, Types
<1>2. QED
  BY <1>1 DEF OneHolder, ToolsInv

\* Nobody begins to execute, and nothing is created.
LEMMA ChargesKeep ==
    ASSUME ToolsInv, UNCHANGED <<entities, consumed>>,
           \A v \in Workers : worker'[v].pc = "executing" => worker[v].pc = "executing"
    PROVE  ChargesCover'
<1>1. Created' = Created
  BY DEF Created
<1>2. Executors' \subseteq Executors
  BY DEF Executors
<1>3. IsFiniteSet(Executors) /\ IsFiniteSet(Created)
      /\ Cardinality(Created) + Cardinality(Executors) <= consumed
  BY DEF ToolsInv, ChargesCover
<1>4. IsFiniteSet(Executors') /\ Cardinality(Executors') <= Cardinality(Executors)
  BY <1>2, <1>3, FS_Subset
<1>5. /\ Cardinality(Executors') \in Nat /\ Cardinality(Executors) \in Nat
      /\ Cardinality(Created) \in Nat /\ consumed \in Nat
  BY <1>3, <1>4, FS_CardinalityType DEF ToolsInv, Types
<1>6. QED
  BY <1>1, <1>3, <1>4, <1>5 DEF ChargesCover

\* A worker moves and neither attempts nor entities change.
LEMMA WorkerMoves ==
    ASSUME ToolConstants, ToolsInv, NEW w \in Workers, NEW c \in WorkerRow, WorkerIsSound(c),
           worker' = [worker EXCEPT ![w] = c], c.pc # "executing",
           c.pc = "idle" \/ (worker[w].pc # "idle" /\ c.generation = worker[w].generation),
           status' \in {"running", "paused", "ended"},
           authority' \in {"live", "lapsed", "released"},
           ck' \in CkRow, TurnIsOpen',
           UNCHANGED <<generation, attempts, consumed, entities>>
    PROVE  ToolsInv'
<1>1. Types'
  BY DEF ToolsInv, Types
<1>2. RowsKeep /\ \A a \in DOMAIN attempts : PendingOf(a)' = PendingOf(a)
  BY SameRows
<1>3. EntitiesGrow /\ generation' \in Nat /\ generation <= generation'
  BY Numbers DEF EntitiesGrow, ToolsInv, Types
<1>4. Types /\ c.generation <= generation'
  BY DEF ToolsInv, WorkerIsSound
<1>5. c.pc = "calling" /\ c.generation = generation' => PendingOf(c.attempt)' = {}
  BY <1>2 DEF WorkerIsSound
<1>6. WorkerIsSound(c)'
  BY <1>2, <1>3, <1>4, <1>5, WorkerKeeps
<1>7. \A v \in Workers : worker'[v] = worker[v] =>
          (worker[v].pc = "calling" /\ worker[v].generation = generation' =>
              PendingOf(worker[v].attempt)' = {})
  <2> SUFFICES ASSUME NEW v \in Workers, worker'[v] = worker[v], worker[v].pc = "calling",
                      worker[v].generation = generation'
               PROVE  PendingOf(worker[v].attempt)' = {}
    OBVIOUS
  <2>1. worker[v].attempt \in DOMAIN attempts /\ PendingOf(worker[v].attempt) = {}
    BY DEF ToolsInv, WorkersAreSound, WorkerIsSound
  <2> QED
    BY <2>1 DEF PendingOf
<1>8. WorkersAreSound'
  BY <1>2, <1>3, <1>6, <1>7, WorkersKeep
<1>9. OneHolder'
  BY HolderKeeps
<1>10. \A v \in Workers : worker'[v].pc = "executing" => worker[v].pc = "executing"
  BY <1>4 DEF Types
<1>11. ChargesCover'
  BY <1>10, ChargesKeep
<1>12. CompletedExist' /\ RoundsAreResolved'
  BY DEF ToolsInv, CompletedExist, RoundsAreResolved
<1>13. QED
  BY <1>1, <1>8, <1>9, <1>11, <1>12 DEF ToolsInv

\* Nobody but the operator or the clock moves.
LEMMA EnvironmentKeeps ==
    ASSUME ToolConstants, ToolsInv, Lapse \/ MoveRun \/ UNCHANGED vars
    PROVE  ToolsInv'
<1>1. UNCHANGED <<generation, ck, attempts, consumed, entities, worker>>
  BY DEF Lapse, MoveRun, vars, leaseVars
<1>2. status' \in {"running", "paused", "ended"} /\ authority' \in {"live", "lapsed", "released"}
  BY DEF Lapse, MoveRun, vars, leaseVars, ToolsInv, Types
<1>3. Types'
  BY <1>1, <1>2 DEF ToolsInv, Types
<1>4. RowsKeep /\ \A a \in DOMAIN attempts : PendingOf(a)' = PendingOf(a)
  BY <1>1, SameRows
<1>5. EntitiesGrow /\ generation' \in Nat /\ generation <= generation'
  BY <1>1, Numbers DEF EntitiesGrow, ToolsInv, Types
<1>6. \A v \in Workers : worker'[v] = worker[v] =>
          (worker[v].pc = "calling" /\ worker[v].generation = generation' =>
              PendingOf(worker[v].attempt)' = {})
  BY <1>1, <1>4 DEF ToolsInv, WorkersAreSound, WorkerIsSound, PendingOf
<1>7. WorkersAreSound'
  BY <1>1, <1>4, <1>5, <1>6, WorkersKeep
<1>8. OneHolder' /\ TurnIsOpen'
  BY <1>1 DEF ToolsInv, OneHolder, TurnIsOpen
<1>9. ChargesCover'
  BY <1>1, ChargesKeep
<1>10. CompletedExist' /\ RoundsAreResolved'
  BY <1>1 DEF ToolsInv, CompletedExist, RoundsAreResolved
<1>11. QED
  BY <1>3, <1>7, <1>8, <1>9, <1>10 DEF ToolsInv

(***************************************************************************)
(* Actions.                                                                *)
(***************************************************************************)

LEMMA WorkerIs ==
    ASSUME ToolConstants, ToolsInv, NEW w \in Workers
    PROVE  /\ worker[w] \in WorkerRow /\ WorkerIsSound(worker[w]) /\ Types
           /\ worker[w].generation \in 0 .. MaxGeneration /\ worker[w].generation \in Nat
           /\ generation \in Nat /\ worker[w].generation <= generation
           /\ worker[w].todo \in SUBSET Places
<1>1. worker[w] \in WorkerRow /\ WorkerIsSound(worker[w]) /\ Types
  BY DEF ToolsInv, Types, WorkersAreSound
<1>2. /\ worker[w].generation \in 0 .. MaxGeneration /\ worker[w].todo \in SUBSET Places
      /\ generation \in 0 .. MaxGeneration
  BY <1>1 DEF WorkerRow, Types
<1>3. worker[w].generation \in Nat /\ generation \in Nat
  BY <1>2, Numbers
<1>4. worker[w].generation <= generation
  BY <1>1 DEF WorkerIsSound
<1>5. QED
  BY <1>1, <1>2, <1>3, <1>4

LEMMA IdleIsSound ==
    ASSUME ToolConstants, ToolsInv
    PROVE  Idle \in WorkerRow /\ Idle.pc = "idle" /\ Idle.generation = 0 /\ WorkerIsSound(Idle)
<1>1. Idle \in WorkerRow /\ Idle.pc = "idle" /\ Idle.generation = 0
  BY Numbers DEF Idle, WorkerRow, Pcs
<1>2. 0 <= generation
  BY Numbers DEF ToolsInv, Types
<1>3. QED
  BY <1>1, <1>2 DEF WorkerIsSound

LEMMA LeavesKeep ==
    ASSUME ToolConstants, ToolsInv, NEW w \in Workers, Leave(w) \/ Crash(w)
    PROVE  ToolsInv'
<1>1. /\ worker' = [worker EXCEPT ![w] = Idle]
      /\ UNCHANGED <<status, generation, ck, attempts, consumed, entities>>
      /\ authority' \in {"live", "lapsed", "released"}
  BY DEF Leave, Crash, leaseVars, ToolsInv, Types
<1>2. status' \in {"running", "paused", "ended"} /\ ck' \in CkRow /\ TurnIsOpen'
  BY <1>1 DEF ToolsInv, Types, TurnIsOpen
<1>3. QED
  BY <1>1, <1>2, IdleIsSound, WorkerMoves

LEMMA ReadKeeps ==
    ASSUME ToolConstants, ToolsInv, NEW w \in Workers, ReadRounds(w)
    PROVE  ToolsInv'
<1>1. PICK pending : pending = PendingOf(worker[w].attempt)
  OBVIOUS
<1>2. PICK p \in {"calling", "resuming"} : p = IF pending = {} THEN "calling" ELSE "resuming"
  OBVIOUS
<1>3. PICK n : n = Len(attempts[worker[w].attempt].rounds)
  OBVIOUS
<1>4. PICK c : c = [worker[w] EXCEPT !.round = n, !.todo = pending, !.pc = p]
  OBVIOUS
<1>5. /\ worker[w].pc = "reading" /\ worker' = [worker EXCEPT ![w] = c]
      /\ UNCHANGED <<status, generation, authority, ck, attempts, consumed, entities>>
  BY <1>1, <1>2, <1>3, <1>4 DEF ReadRounds, leaseVars
<1>6. /\ worker[w] \in WorkerRow /\ WorkerIsSound(worker[w]) /\ Types
      /\ worker[w].attempt \in DOMAIN attempts
  BY <1>5, WorkerIs DEF WorkerIsSound
<1>7. n \in 0 .. MaxRounds
  <2>1. PICK q : q = attempts[worker[w].attempt].rounds
    OBVIOUS
  <2>2. attempts[worker[w].attempt] \in AttemptRow
    BY <1>6, RowFields
  <2>3. q \in Seq(Batch) /\ Len(q) <= MaxRounds
    BY <2>1, <2>2 DEF AttemptRow
  <2>4. Len(q) \in Nat
    BY <2>3
  <2> QED
    BY <1>3, <2>1, <2>3, <2>4, Numbers
<1>8. pending \in SUBSET Places
  BY <1>1 DEF PendingOf
<1>9. c \in WorkerRow
  BY <1>4, <1>6, <1>7, <1>8 DEF WorkerRow, Pcs
<1>10. /\ c.pc = p /\ c.todo = pending /\ c.attempt = worker[w].attempt
       /\ c.generation = worker[w].generation
  BY <1>4, <1>6 DEF WorkerRow
<1>11. \A d \in pending : IsCall(worker[w].attempt, d)
  BY <1>1 DEF PendingOf, IsCall
<1>12. WorkerIsSound(c)
  BY <1>1, <1>2, <1>6, <1>10, <1>11 DEF WorkerIsSound
<1>13. /\ status' \in {"running", "paused", "ended"} /\ ck' \in CkRow /\ TurnIsOpen'
       /\ authority' \in {"live", "lapsed", "released"}
  BY <1>5 DEF ToolsInv, Types, TurnIsOpen
<1>14. c.pc # "executing" /\ worker[w].pc # "idle"
  BY <1>2, <1>5, <1>10
<1>15. QED
  BY <1>5, <1>9, <1>10, <1>12, <1>13, <1>14, WorkerMoves

LEMMA RefuseKeeps ==
    ASSUME ToolConstants, ToolsInv, NEW w \in Workers, RefuseCall(w)
    PROVE  ToolsInv'
<1>1. PICK c : c = [worker[w] EXCEPT !.pc = "recording", !.result = "failed"]
  OBVIOUS
<1>2. /\ worker[w].pc \in {"resuming", "executing"} /\ worker' = [worker EXCEPT ![w] = c]
      /\ UNCHANGED <<status, generation, authority, ck, attempts, consumed, entities>>
  BY <1>1 DEF RefuseCall, leaseVars
<1>3. worker[w] \in WorkerRow /\ WorkerIsSound(worker[w])
  BY WorkerIs
<1>4. c \in WorkerRow
  BY <1>1, <1>3 DEF WorkerRow, Pcs
<1>5. /\ c.pc = "recording" /\ c.result = "failed" /\ c.todo = worker[w].todo
      /\ c.attempt = worker[w].attempt /\ c.generation = worker[w].generation
  BY <1>1, <1>3 DEF WorkerRow
<1>6. WorkerIsSound(c)
  BY <1>2, <1>3, <1>5 DEF WorkerIsSound
<1>7. /\ status' \in {"running", "paused", "ended"} /\ ck' \in CkRow /\ TurnIsOpen'
      /\ authority' \in {"live", "lapsed", "released"}
  BY <1>2 DEF ToolsInv, Types, TurnIsOpen
<1>8. c.pc # "executing" /\ worker[w].pc # "idle"
  BY <1>2, <1>5
<1>9. QED
  BY <1>2, <1>4, <1>5, <1>6, <1>7, <1>8, WorkerMoves

LEMMA FailKeeps ==
    ASSUME ToolConstants, ToolsInv, NEW w \in Workers, FailTurn(w)
    PROVE  ToolsInv'
<1>1. PICK c : c = [Idle EXCEPT !.pc = "holding", !.generation = generation]
  OBVIOUS
<1>2. /\ worker[w].pc \in {"reading", "calling"} /\ worker' = [worker EXCEPT ![w] = c]
      /\ UNCHANGED <<status, generation, authority, attempts, consumed, entities>>
      /\ ck' = [ck EXCEPT !.phase = "turn_failed", !.attempt = 0]
      /\ worker[w].generation = generation
  BY <1>1 DEF FailTurn, leaseVars, HoldsAttempt, Holds
<1>3. /\ generation \in 0 .. MaxGeneration /\ generation <= generation /\ ck \in CkRow
      /\ 0 \in 0 .. MaxAttempts
  BY Numbers DEF ToolsInv, Types
<1>4. c \in WorkerRow /\ c.pc = "holding" /\ c.generation = generation
  BY <1>1, <1>3, IdleIsSound DEF WorkerRow, Pcs
<1>5. WorkerIsSound(c)
  BY <1>3, <1>4 DEF WorkerIsSound
<1>6. ck' \in CkRow /\ ck'.phase = "turn_failed"
  BY <1>2, <1>3 DEF CkRow
<1>7. /\ status' \in {"running", "paused", "ended"} /\ TurnIsOpen'
      /\ authority' \in {"live", "lapsed", "released"}
  BY <1>2, <1>6 DEF ToolsInv, Types, TurnIsOpen
<1>8. c.pc # "executing" /\ worker[w].pc # "idle"
  BY <1>2, <1>4
<1>9. QED
  BY <1>2, <1>4, <1>5, <1>6, <1>7, <1>8, WorkerMoves

LEMMA AcquireKeeps ==
    ASSUME ToolConstants, ToolsInv, NEW w \in Workers, Acquire(w)
    PROVE  ToolsInv'
<1>1. PICK c : c = [Idle EXCEPT !.pc = "holding", !.generation = generation + 1]
  OBVIOUS
<1>2. /\ worker' = [worker EXCEPT ![w] = c] /\ generation' = generation + 1
      /\ generation < MaxGeneration /\ authority' = "live"
      /\ UNCHANGED <<status, ck, attempts, consumed, entities>>
  BY <1>1 DEF Acquire
<1>3. /\ generation \in Nat /\ generation + 1 \in 0 .. MaxGeneration /\ generation' \in Nat
      /\ generation <= generation' /\ generation < generation'
  BY <1>2, Numbers DEF ToolsInv, Types
<1>4. c \in WorkerRow /\ c.pc = "holding" /\ c.generation = generation'
  BY <1>1, <1>2, <1>3, IdleIsSound DEF WorkerRow, Pcs
<1>5. Types'
  BY <1>2, <1>3, <1>4 DEF ToolsInv, Types
<1>6. WorkerIsSound(c)'
  BY <1>3, <1>4 DEF WorkerIsSound
<1>7. \A v \in Workers : worker[v].generation \in Nat /\ worker[v].generation <= generation
  BY WorkerIs
<1>8. \A v \in Workers : worker[v].generation # generation'
  BY <1>3, <1>7
<1>9. RowsKeep /\ EntitiesGrow
  BY <1>2, SameRows DEF EntitiesGrow
<1>10. WorkersAreSound'
  BY <1>2, <1>3, <1>4, <1>6, <1>8, <1>9, WorkersKeep
<1>11. OneHolder'
  BY <1>2, <1>4, <1>8, HolderKeeps
<1>12. \A v \in Workers : worker'[v].pc = "executing" => worker[v].pc = "executing"
  BY <1>2, <1>4 DEF ToolsInv, Types
<1>13. ChargesCover'
  BY <1>2, <1>12, ChargesKeep
<1>14. TurnIsOpen' /\ CompletedExist' /\ RoundsAreResolved'
  BY <1>2 DEF ToolsInv, TurnIsOpen, CompletedExist, RoundsAreResolved
<1>15. QED
  BY <1>5, <1>10, <1>11, <1>13, <1>14 DEF ToolsInv

\* The holder moves, and with it its attempt.
LEMMA AttemptMoves ==
    ASSUME ToolConstants, ToolsInv, NEW w \in Workers, NEW c \in WorkerRow, WorkerIsSound(c)',
           worker' = [worker EXCEPT ![w] = c], c.pc # "executing",
           worker[w].pc # "idle", worker[w].generation = generation, c.generation = generation,
           status' \in {"running", "paused", "ended"}, ck' \in CkRow, TurnIsOpen',
           attempts' \in Seq(AttemptRow), Len(attempts') <= MaxAttempts, RowsKeep,
           CompletedExist', RoundsAreResolved',
           UNCHANGED <<generation, authority, consumed, entities>>
    PROVE  ToolsInv'
<1>1. Types'
  BY DEF ToolsInv, Types
<1>2. EntitiesGrow /\ generation' \in Nat /\ generation <= generation'
  BY Numbers DEF EntitiesGrow, ToolsInv, Types
<1>3. worker'[w] = c /\ \A v \in Workers : v # w => worker'[v] = worker[v]
  BY DEF ToolsInv, Types
<1>4. ASSUME NEW v \in Workers, worker'[v] = worker[v],
             worker[v].pc = "calling" /\ worker[v].generation = generation'
      PROVE  PendingOf(worker[v].attempt)' = {}
  <2>1. v = w
    BY <1>4 DEF ToolsInv, OneHolder
  <2>2. worker[v] = c
    BY <1>3, <1>4, <2>1
  <2>3. WorkerIsSound(worker[v])'
    BY <1>3, <2>1 DEF WorkerIsSound, KeyOf
  <2>4. worker'[v].pc = "calling" /\ worker'[v].generation = generation'
    BY <1>4
  <2>5. PendingOf(worker[v].attempt)' = {}
    BY <2>3, <2>4 DEF WorkerIsSound
  <2> QED
    BY <1>4, <2>5 DEF PendingOf
<1>5. WorkersAreSound'
  BY <1>2, <1>4, WorkersKeep
<1>6. OneHolder'
  BY HolderKeeps
<1>7. \A v \in Workers : worker'[v].pc = "executing" => worker[v].pc = "executing"
  BY <1>3
<1>8. ChargesCover'
  BY <1>7, ChargesKeep
<1>9. QED
  BY <1>1, <1>5, <1>6, <1>8 DEF ToolsInv

\* What is added is an attempt without rounds.
LEMMA BeginKeeps ==
    ASSUME ToolConstants, ToolsInv, NEW w \in Workers, BeginTurn(w)
    PROVE  ToolsInv'
<1>1. /\ worker[w].pc = "holding" /\ worker[w].generation = generation
      /\ ck.turn <= MaxTurns
      /\ worker' = [worker EXCEPT ![w].pc = "reading", ![w].attempt = ck'.attempt]
      /\ UNCHANGED <<status, generation, authority, consumed, entities>>
  BY DEF BeginTurn, Holds, leaseVars
<1>2. /\ worker[w] \in WorkerRow /\ WorkerIsSound(worker[w]) /\ Types /\ generation \in Nat
      /\ generation \in 0 .. MaxGeneration /\ ck \in CkRow
      /\ attempts \in Seq(AttemptRow) /\ Len(attempts) <= MaxAttempts /\ Len(attempts) \in Nat
  <2>1. worker[w] \in WorkerRow /\ WorkerIsSound(worker[w]) /\ Types /\ generation \in Nat
    BY WorkerIs
  <2>2. /\ generation \in 0 .. MaxGeneration /\ ck \in CkRow
        /\ attempts \in Seq(AttemptRow) /\ Len(attempts) <= MaxAttempts
    BY <2>1 DEF Types
  <2>3. Len(attempts) \in Nat
    BY <2>2
  <2> QED
    BY <2>1, <2>2, <2>3
<1>3. PICK c : c = [worker[w] EXCEPT !.pc = "reading", !.attempt = ck'.attempt]
  OBVIOUS
<1>4. worker' = [worker EXCEPT ![w] = c]
  BY <1>1, <1>2, <1>3 DEF Types
<1>5. CASE /\ ck.phase = "turn_started" /\ ck' = [ck EXCEPT !.generation = generation]
           /\ UNCHANGED attempts
  <2>1. ck' \in CkRow /\ ck'.phase = "turn_started" /\ ck'.attempt = ck.attempt /\ ck'.turn = ck.turn
    BY <1>2, <1>5 DEF CkRow
  <2>2. ck.attempt \in DOMAIN attempts /\ ck.attempt \in 0 .. MaxAttempts
    BY <1>2, <1>5 DEF ToolsInv, TurnIsOpen, CkRow
  <2>3. c \in WorkerRow
    BY <1>2, <1>3, <2>1, <2>2 DEF WorkerRow, Pcs
  <2>4. c.pc = "reading" /\ c.attempt = ck.attempt /\ c.generation = worker[w].generation
    BY <1>2, <1>3, <2>1 DEF WorkerRow
  <2>5. WorkerIsSound(c)
    BY <1>2, <2>2, <2>4 DEF WorkerIsSound
  <2>6. /\ status' \in {"running", "paused", "ended"} /\ TurnIsOpen'
        /\ authority' \in {"live", "lapsed", "released"}
    BY <1>1, <1>5, <2>1 DEF ToolsInv, Types, TurnIsOpen
  <2>7. c.pc # "executing" /\ worker[w].pc # "idle"
    BY <1>1, <2>4
  <2> QED
    BY <1>1, <1>4, <1>5, <2>1, <2>3, <2>4, <2>5, <2>6, <2>7, WorkerMoves
<1>6. ASSUME ck.phase # "turn_started", Len(attempts) < MaxAttempts,
             ck' = [ck EXCEPT !.generation = generation, !.phase = "turn_started",
                              !.attempt = Len(attempts) + 1],
             attempts' = Append(attempts, [turn |-> ck.turn, rounds |-> <<>>,
                                           answer |-> "none", committed |-> FALSE])
      PROVE  ToolsInv'
  <2>1. PICK x : x = [turn |-> ck.turn, rounds |-> <<>>, answer |-> "none", committed |-> FALSE]
    OBVIOUS
  <2>2. ck.turn \in Turns
    BY <1>1, <1>2, Numbers DEF CkRow, Turns
  <2>3. <<>> \in {q \in Seq(Batch) : Len(q) <= MaxRounds}
    BY Numbers
  <2>4. x \in AttemptRow /\ x.rounds = <<>> /\ ~x.committed
    BY <2>1, <2>2, <2>3 DEF AttemptRow
  <2>5. PICK n : n = Len(attempts) + 1
    OBVIOUS
  <2>6. /\ attempts' \in Seq(AttemptRow) /\ Len(attempts') = n
        /\ n \in DOMAIN attempts' /\ attempts'[n] = x /\ n \in 0 .. MaxAttempts
        /\ \A a \in DOMAIN attempts : attempts'[a] = attempts[a] /\ a \in DOMAIN attempts'
        /\ \A a \in DOMAIN attempts' : a = n \/ a \in DOMAIN attempts
    BY <1>2, <1>6, <2>1, <2>4, <2>5, SeqAdd, Numbers
  <2>7. ck' \in CkRow /\ ck'.phase = "turn_started" /\ ck'.attempt = n /\ ck'.turn = ck.turn
    BY <1>2, <1>6, <2>5, <2>6 DEF CkRow
  <2>8. c \in WorkerRow
    BY <1>2, <1>3, <2>6, <2>7 DEF WorkerRow, Pcs
  <2>9. c.pc = "reading" /\ c.attempt = n /\ c.generation = worker[w].generation
    BY <1>2, <1>3, <2>7 DEF WorkerRow
  <2>10. RowsKeep
    BY <2>6 DEF RowsKeep
  <2>11. c.generation \in Nat /\ c.generation <= generation'
    BY <1>1, <1>2, <2>9
  <2>12. WorkerIsSound(c)'
    BY <2>6, <2>9, <2>11 DEF WorkerIsSound
  <2>13. TurnIsOpen'
    BY <1>1, <2>4, <2>6, <2>7 DEF TurnIsOpen
  <2>14. DOMAIN x.rounds = {}
    BY <2>4
  <2>15. CompletedExist'
    <3> SUFFICES ASSUME NEW a \in DOMAIN attempts', NEW r \in DOMAIN attempts'[a].rounds,
                        NEW p \in DOMAIN attempts'[a].rounds[r],
                        attempts'[a].rounds[r][p].status = "completed"
                 PROVE  entities'[<<attempts'[a].turn, attempts'[a].rounds[r][p].intent>>] = 1
      BY DEF CompletedExist
    <3>1. a # n
      BY <2>6, <2>14
    <3>2. a \in DOMAIN attempts /\ attempts'[a] = attempts[a]
      BY <2>6, <3>1
    <3> QED
      BY <1>1, <3>2 DEF ToolsInv, CompletedExist
  <2>16. RoundsAreResolved'
    BY <2>6, <2>14 DEF ToolsInv, RoundsAreResolved
  <2>17. /\ status' \in {"running", "paused", "ended"} /\ c.pc # "executing"
         /\ worker[w].pc # "idle" /\ c.generation = generation
    BY <1>1, <2>9 DEF ToolsInv, Types
  <2>18. Len(attempts') <= MaxAttempts
    BY <2>6, Numbers
  <2> QED
    BY <1>1, <1>4, <2>6, <2>7, <2>8, <2>10, <2>12, <2>13, <2>15, <2>16, <2>17, <2>18, AttemptMoves
<1>7. QED
  BY <1>5, <1>6 DEF BeginTurn

\* Whoever begins to execute has paid.
LEMMA ChargeKeeps ==
    ASSUME ToolConstants, ToolsInv, NEW w \in Workers, Charge(w)
    PROVE  ToolsInv'
<1>1. PICK c : c = [worker[w] EXCEPT !.pc = "executing"]
  OBVIOUS
<1>2. /\ worker[w].pc = "resuming" /\ worker' = [worker EXCEPT ![w] = c]
      /\ consumed < MaxToolCalls /\ consumed' = consumed + 1
      /\ UNCHANGED <<status, generation, authority, ck, attempts, entities>>
  BY <1>1 DEF Charge, leaseVars
<1>3. worker[w] \in WorkerRow /\ WorkerIsSound(worker[w]) /\ Types
  BY WorkerIs
<1>4. c \in WorkerRow
  BY <1>1, <1>3 DEF WorkerRow, Pcs
<1>5. /\ c.pc = "executing" /\ c.todo = worker[w].todo
      /\ c.attempt = worker[w].attempt /\ c.generation = worker[w].generation
  BY <1>1, <1>3 DEF WorkerRow
<1>6. WorkerIsSound(c)
  BY <1>2, <1>3, <1>5 DEF WorkerIsSound
<1>7. consumed \in Nat /\ consumed' \in 0 .. MaxToolCalls
  BY <1>2, <1>3, Numbers DEF Types
<1>8. Types'
  BY <1>2, <1>3, <1>4, <1>7 DEF Types
<1>9. RowsKeep /\ \A a \in DOMAIN attempts : PendingOf(a)' = PendingOf(a)
  BY <1>2, SameRows
<1>10. EntitiesGrow /\ generation' \in Nat /\ generation <= generation'
  BY <1>2, <1>3, Numbers DEF EntitiesGrow, Types
<1>11. \A v \in Workers : worker'[v] = worker[v] =>
          (worker[v].pc = "calling" /\ worker[v].generation = generation' =>
              PendingOf(worker[v].attempt)' = {})
  BY <1>2, <1>9 DEF ToolsInv, WorkersAreSound, WorkerIsSound, PendingOf
<1>12. WorkerIsSound(c)'
  <2>1. c.generation <= generation'
    BY <1>2, <1>6 DEF WorkerIsSound
  <2>2. c.pc # "calling"
    BY <1>5
  <2> QED
    BY <1>3, <1>4, <1>6, <1>9, <1>10, <2>1, <2>2, WorkerKeeps
<1>13. WorkersAreSound'
  BY <1>2, <1>4, <1>9, <1>10, <1>11, <1>12, WorkersKeep
<1>14. OneHolder'
  BY <1>2, <1>5, HolderKeeps
<1>15. ChargesCover'
  <2>1. worker'[w] = c /\ \A v \in Workers : v # w => worker'[v] = worker[v]
    BY <1>2, <1>3 DEF Types
  <2>2. Executors' = Executors \union {w} /\ w \notin Executors
    BY <1>2, <1>5, <2>1 DEF Executors
  <2>3. Created' = Created
    BY <1>2 DEF Created
  <2>4. /\ IsFiniteSet(Created) /\ IsFiniteSet(Executors)
        /\ Cardinality(Created) + Cardinality(Executors) <= consumed
    BY DEF ToolsInv, ChargesCover
  <2>5. IsFiniteSet(Executors') /\ Cardinality(Executors') = Cardinality(Executors) + 1
    BY <2>2, <2>4, FS_AddElement
  <2>6. Cardinality(Created) \in Nat /\ Cardinality(Executors) \in Nat
    BY <2>4, FS_CardinalityType
  <2>7. Cardinality(Created) + Cardinality(Executors') <= consumed'
    BY <1>2, <1>7, <2>4, <2>5, <2>6
  <2> QED
    BY <2>3, <2>4, <2>5, <2>7 DEF ChargesCover
<1>16. TurnIsOpen' /\ CompletedExist' /\ RoundsAreResolved'
  BY <1>2 DEF ToolsInv, TurnIsOpen, CompletedExist, RoundsAreResolved
<1>17. QED
  BY <1>8, <1>13, <1>14, <1>15, <1>16 DEF ToolsInv

\* What is created was paid by whoever executes it, and has not been created before.
LEMMA CreateKeeps ==
    ASSUME ToolConstants, ToolsInv, NEW w \in Workers, CreateEntity(w)
    PROVE  ToolsInv'
<1>1. PICK key : key = Key(w)
  OBVIOUS
<1>2. PICK result \in {"completed", "failed"} :
          worker' = [worker EXCEPT ![w].pc = "recording", ![w].result = result]
  BY DEF CreateEntity
<1>3. PICK c : c = [worker[w] EXCEPT !.pc = "recording", !.result = result]
  OBVIOUS
<1>4. /\ worker[w].pc = "executing"
      /\ \/ entities[key] > 0 /\ entities' = entities
         \/ entities[key] = 0 /\ entities' = [entities EXCEPT ![key] = 1]
      /\ UNCHANGED <<status, generation, authority, ck, attempts, consumed>>
  BY <1>1 DEF CreateEntity, leaseVars
<1>5. worker[w] \in WorkerRow /\ WorkerIsSound(worker[w]) /\ Types
  BY WorkerIs
<1>6. worker' = [worker EXCEPT ![w] = c]
  BY <1>2, <1>3, <1>5 DEF Types
<1>7. c \in WorkerRow
  BY <1>3, <1>5 DEF WorkerRow, Pcs
<1>8. /\ c.pc = "recording" /\ c.result = result /\ c.todo = worker[w].todo
      /\ c.attempt = worker[w].attempt /\ c.generation = worker[w].generation
  BY <1>3, <1>5 DEF WorkerRow
<1>9. /\ c.attempt \in DOMAIN attempts /\ c.todo # {}
      /\ \A d \in c.todo : IsCall(c.attempt, d)
      /\ c.generation <= generation
  BY <1>4, <1>5, <1>8 DEF WorkerIsSound
<1>10. KeyOf(c) = key
  BY <1>1, <1>8 DEF KeyOf, Key
<1>11. key \in Turns \X Intents
  BY <1>5, <1>7, <1>9, <1>10, KeyIs
<1>12. /\ entities \in [Turns \X Intents -> {0, 1}] /\ entities' \in [Turns \X Intents -> {0, 1}]
       /\ entities'[key] = 1
       /\ \A e \in Turns \X Intents : e # key => entities'[e] = entities[e]
  <2>1. entities \in [Turns \X Intents -> {0, 1}]
    BY <1>5 DEF Types
  <2>2. CASE entities[key] > 0 /\ entities' = entities
    BY <1>11, <2>1, <2>2
  <2>3. CASE entities' = [entities EXCEPT ![key] = 1]
    BY <1>11, <2>1, <2>3
  <2> QED
    BY <1>4, <2>1, <2>2, <2>3
<1>13. EntitiesGrow
  BY <1>12 DEF EntitiesGrow
<1>14. Types'
  BY <1>4, <1>5, <1>6, <1>7, <1>12 DEF Types
<1>15. RowsKeep /\ \A a \in DOMAIN attempts : PendingOf(a)' = PendingOf(a)
  BY <1>4, SameRows
<1>16. generation' \in Nat /\ generation <= generation'
  BY <1>4, <1>5, Numbers DEF Types
<1>17. \A v \in Workers : worker'[v] = worker[v] =>
          (worker[v].pc = "calling" /\ worker[v].generation = generation' =>
              PendingOf(worker[v].attempt)' = {})
  BY <1>4, <1>15 DEF ToolsInv, WorkersAreSound, WorkerIsSound, PendingOf
<1>18. WorkerIsSound(c)'
  <2>1. KeyOf(c)' = KeyOf(c) /\ \A d \in c.todo : IsCall(c.attempt, d)'
    BY <1>5, <1>7, <1>9, <1>15, KeyKeeps
  <2>2. entities'[KeyOf(c)'] = 1
    BY <1>10, <1>12, <2>1
  <2>3. c.attempt \in DOMAIN attempts' /\ c.generation <= generation'
    BY <1>4, <1>9
  <2> QED
    BY <1>8, <1>9, <2>1, <2>2, <2>3 DEF WorkerIsSound
<1>19. WorkersAreSound'
  BY <1>6, <1>7, <1>13, <1>15, <1>16, <1>17, <1>18, WorkersKeep
<1>20. OneHolder'
  BY <1>4, <1>6, <1>8, HolderKeeps
<1>21. ChargesCover'
  <2>1. worker'[w] = c /\ \A v \in Workers : v # w => worker'[v] = worker[v]
    BY <1>5, <1>6 DEF Types
  <2>2. Executors' = Executors \ {w} /\ w \in Executors
    BY <1>4, <1>8, <2>1 DEF Executors
  <2>3. Created' \subseteq Created \union {key}
    BY <1>12 DEF Created
  <2>4. /\ IsFiniteSet(Created) /\ IsFiniteSet(Executors)
        /\ Cardinality(Created) + Cardinality(Executors) <= consumed
    BY DEF ToolsInv, ChargesCover
  <2>5. IsFiniteSet(Executors') /\ Cardinality(Executors') = Cardinality(Executors) - 1
    BY <2>2, <2>4, FS_RemoveElement
  <2>6. /\ IsFiniteSet(Created \union {key})
        /\ \/ Cardinality(Created \union {key}) = Cardinality(Created)
           \/ Cardinality(Created \union {key}) = Cardinality(Created) + 1
    BY <2>4, FS_AddElement
  <2>7. IsFiniteSet(Created') /\ Cardinality(Created') <= Cardinality(Created \union {key})
    BY <2>3, <2>6, FS_Subset
  <2>8. /\ Cardinality(Created) \in Nat /\ Cardinality(Executors) \in Nat
        /\ Cardinality(Created') \in Nat /\ consumed \in Nat /\ consumed' = consumed
    BY <1>4, <1>5, <2>4, <2>7, FS_CardinalityType, Numbers DEF Types
  <2>9. Cardinality(Created') + Cardinality(Executors') <= consumed'
    BY <2>4, <2>5, <2>6, <2>7, <2>8
  <2> QED
    BY <2>5, <2>7, <2>9 DEF ChargesCover
<1>22. CompletedExist'
  <2> SUFFICES ASSUME NEW a \in DOMAIN attempts, NEW r \in DOMAIN attempts[a].rounds,
                      NEW p \in DOMAIN attempts[a].rounds[r],
                      attempts[a].rounds[r][p].status = "completed"
               PROVE  entities'[<<attempts[a].turn, attempts[a].rounds[r][p].intent>>] = 1
    BY <1>4 DEF CompletedExist
  <2>1. <<attempts[a].turn, attempts[a].rounds[r][p].intent>> \in Turns \X Intents
    BY <1>5, RowFields DEF Call
  <2>2. entities[<<attempts[a].turn, attempts[a].rounds[r][p].intent>>] = 1
    BY DEF ToolsInv, CompletedExist
  <2> QED
    BY <1>13, <2>1, <2>2 DEF EntitiesGrow
<1>23. TurnIsOpen' /\ RoundsAreResolved'
  BY <1>4 DEF ToolsInv, TurnIsOpen, RoundsAreResolved
<1>24. QED
  BY <1>14, <1>19, <1>20, <1>21, <1>22, <1>23 DEF ToolsInv

\* The attempt of whoever passes the fence.
LEMMA HeldAttempt ==
    ASSUME ToolConstants, ToolsInv, NEW w \in Workers, HoldsAttempt(w),
           worker[w].pc \notin {"idle", "holding"}
    PROVE  /\ worker[w].attempt \in DOMAIN attempts
           /\ ~attempts[worker[w].attempt].committed
           /\ worker[w].generation = generation
           /\ ck.phase = "turn_started" /\ ck.attempt = worker[w].attempt /\ ck.turn <= MaxTurns
<1>1. WorkerIsSound(worker[w])
  BY WorkerIs
<1>2. /\ worker[w].generation = generation
      /\ ck.phase = "turn_started" /\ ck.attempt = worker[w].attempt
  BY DEF HoldsAttempt, Holds
<1>3. QED
  BY <1>1, <1>2 DEF WorkerIsSound, ToolsInv, TurnIsOpen

LEMMA RecordKeeps ==
    ASSUME ToolConstants, ToolsInv, NEW w \in Workers, RecordResult(w)
    PROVE  ToolsInv'
<1>1. PICK a : a = worker[w].attempt
  OBVIOUS
<1>2. PICK place : place = First(worker[w].todo)
  OBVIOUS
<1>3. PICK rest : rest = worker[w].todo \ {place}
  OBVIOUS
<1>4. PICK next \in {"reading", "resuming"} :
          next = IF rest = {} THEN "reading" ELSE "resuming"
  OBVIOUS
<1>5. PICK c : c = [worker[w] EXCEPT !.todo = rest, !.result = "none", !.pc = next]
  OBVIOUS
<1>6. /\ worker[w].pc = "recording" /\ HoldsAttempt(w)
      /\ attempts[a].rounds[place[1]][place[2]].status = "pending"
      /\ attempts' = [attempts EXCEPT
             ![a].rounds[place[1]][place[2]].status = worker[w].result]
      /\ worker' = [worker EXCEPT ![w] = c]
      /\ UNCHANGED <<status, generation, authority, ck, consumed, entities>>
  BY <1>1, <1>2, <1>3, <1>4, <1>5 DEF RecordResult, leaseVars
<1>7. /\ worker[w] \in WorkerRow /\ WorkerIsSound(worker[w]) /\ Types
      /\ worker[w].todo \in SUBSET Places /\ generation \in Nat
  BY WorkerIs
<1>8. /\ a \in DOMAIN attempts /\ ~attempts[a].committed /\ worker[w].generation = generation
      /\ ck.phase = "turn_started" /\ ck.attempt = a /\ ck.turn <= MaxTurns
  BY <1>1, <1>6, HeldAttempt
<1>9. /\ worker[w].todo # {} /\ \A d \in worker[w].todo : IsCall(a, d)
  BY <1>1, <1>6, <1>7 DEF WorkerIsSound
<1>10. /\ place[1] \in DOMAIN attempts[a].rounds
       /\ place[2] \in DOMAIN attempts[a].rounds[place[1]]
  BY <1>1, <1>2, <1>7, <1>8, <1>9, KeyIs
<1>11. PICK result \in {"completed", "failed"} : result = worker[w].result
  BY <1>6, <1>7 DEF WorkerRow, WorkerIsSound
<1>12. /\ c \in WorkerRow /\ c.pc = next /\ c.todo = rest /\ c.attempt = a
       /\ c.generation = generation
  <2>1. c \in WorkerRow
    BY <1>3, <1>4, <1>5, <1>7 DEF WorkerRow, Pcs
  <2> QED
    BY <1>1, <1>5, <1>7, <1>8, <2>1 DEF WorkerRow
<1> DEFINE x == attempts[a]
           b == x.rounds[place[1]]
           call == b[place[2]]
<1>13. PICK call2 : call2 = [call EXCEPT !.status = result]
  OBVIOUS
<1>14. PICK b2 : b2 = [b EXCEPT ![place[2]] = call2]
  OBVIOUS
<1>15. PICK rounds2 : rounds2 = [x.rounds EXCEPT ![place[1]] = b2]
  OBVIOUS
<1>16. PICK x2 : x2 = [x EXCEPT !.rounds = rounds2]
  OBVIOUS
<1>17. attempts' = [attempts EXCEPT ![a] = x2]
  BY <1>6, <1>11, <1>13, <1>14, <1>15, <1>16
<1>18. /\ x \in AttemptRow /\ x.rounds \in Seq(Batch) /\ b \in Batch /\ call \in Call
       /\ place[1] \in DOMAIN x.rounds /\ place[2] \in DOMAIN b
       /\ attempts \in Seq(AttemptRow) /\ Len(attempts) <= MaxAttempts
  <2>1. attempts \in Seq(AttemptRow) /\ Len(attempts) <= MaxAttempts
    BY <1>7 DEF Types
  <2> QED
    BY <1>7, <1>8, <1>10, <2>1, RowFields
<1>19. /\ call2 \in Call /\ call2.intent = call.intent /\ call2.status = result
  BY <1>13, <1>18 DEF Call
<1>20. /\ b2 \in Batch /\ DOMAIN b2 = DOMAIN b /\ b2[place[2]] = call2
       /\ \A p \in DOMAIN b : p # place[2] => b2[p] = b[p]
  <2>1. b \in Seq(Call) /\ Len(b) \in 1 .. MaxCalls
    BY <1>18 DEF Batch
  <2> HIDE DEF b, call
  <2>2. /\ b2 \in Seq(Call) /\ Len(b2) = Len(b) /\ DOMAIN b2 = DOMAIN b /\ b2[place[2]] = call2
        /\ \A p \in DOMAIN b : p # place[2] => b2[p] = b[p]
    BY <1>14, <1>18, <1>19, <2>1, SeqPut
  <2> QED
    BY <2>1, <2>2 DEF Batch
<1>21. /\ rounds2 \in Seq(Batch) /\ Len(rounds2) = Len(x.rounds) /\ DOMAIN rounds2 = DOMAIN x.rounds
       /\ rounds2[place[1]] = b2
       /\ \A r \in DOMAIN x.rounds : r # place[1] => rounds2[r] = x.rounds[r]
  <2>1. PICK q \in Seq(Batch) : q = x.rounds
    BY <1>18
  <2> HIDE DEF x, b
  <2> QED
    BY <1>15, <1>18, <1>20, <2>1, SeqPut
<1>22. /\ x2 \in AttemptRow /\ x2.rounds = rounds2 /\ x2.turn = x.turn /\ x2.answer = x.answer
       /\ x2.committed = x.committed
  <2>1. Len(x.rounds) <= MaxRounds
    BY <1>18 DEF AttemptRow
  <2> HIDE DEF x
  <2>2. rounds2 \in {q \in Seq(Batch) : Len(q) <= MaxRounds}
    BY <1>21, <2>1
  <2> QED
    BY <1>16, <1>18, <2>2 DEF AttemptRow
<1>23. /\ attempts' \in Seq(AttemptRow) /\ Len(attempts') = Len(attempts)
       /\ DOMAIN attempts' = DOMAIN attempts /\ attempts'[a] = x2
       /\ \A o \in DOMAIN attempts : o # a => attempts'[o] = attempts[o]
  <2> HIDE DEF x
  <2> QED
    BY <1>8, <1>17, <1>18, <1>22, SeqPut
\* Every call but one is as it was.
<1>24. ASSUME NEW o \in DOMAIN attempts, NEW r \in DOMAIN attempts[o].rounds,
              NEW p \in DOMAIN attempts[o].rounds[r]
       PROVE  /\ r \in DOMAIN attempts'[o].rounds /\ p \in DOMAIN attempts'[o].rounds[r]
              /\ attempts'[o].rounds[r][p].intent = attempts[o].rounds[r][p].intent
              /\ \/ attempts'[o].rounds[r][p] = attempts[o].rounds[r][p]
                 \/ /\ o = a /\ r = place[1] /\ p = place[2]
                    /\ attempts'[o].rounds[r][p].status = result
  <2>1. CASE o # a
    BY <1>23, <2>1
  <2>2. CASE o = a /\ r # place[1]
    BY <1>21, <1>22, <1>23, <2>2
  <2>3. CASE o = a /\ r = place[1] /\ p # place[2]
    BY <1>20, <1>21, <1>22, <1>23, <2>3
  <2>4. CASE o = a /\ r = place[1] /\ p = place[2]
    BY <1>19, <1>20, <1>21, <1>22, <1>23, <2>4
  <2> QED
    BY <2>1, <2>2, <2>3, <2>4
\* Nor is there a new one.
<1>25. ASSUME NEW o \in DOMAIN attempts', NEW r \in DOMAIN attempts'[o].rounds
       PROVE  /\ o \in DOMAIN attempts /\ r \in DOMAIN attempts[o].rounds
              /\ DOMAIN attempts'[o].rounds[r] = DOMAIN attempts[o].rounds[r]
              /\ Len(attempts'[o].rounds) = Len(attempts[o].rounds)
              /\ attempts'[o].answer = attempts[o].answer
              /\ attempts'[o].committed = attempts[o].committed
              /\ attempts'[o].turn = attempts[o].turn
  <2>1. CASE o # a
    BY <1>23, <2>1
  <2>2. CASE o = a
    BY <1>8, <1>20, <1>21, <1>22, <1>23, <2>2
  <2> QED
    BY <2>1, <2>2
<1>26. RowsKeep
  <2>1. \A o \in DOMAIN attempts : o \in DOMAIN attempts' /\ attempts'[o].turn = attempts[o].turn
    BY <1>22, <1>23
  <2>2. \A o \in DOMAIN attempts : \A r \in DOMAIN attempts[o].rounds : r \in DOMAIN attempts'[o].rounds
    BY <1>21, <1>22, <1>23
  <2> QED
    BY <1>24, <2>1, <2>2 DEF RowsKeep
<1>27. CompletedExist'
  <2> SUFFICES ASSUME NEW o \in DOMAIN attempts', NEW r \in DOMAIN attempts'[o].rounds,
                      NEW p \in DOMAIN attempts'[o].rounds[r],
                      attempts'[o].rounds[r][p].status = "completed"
               PROVE  entities'[<<attempts'[o].turn, attempts'[o].rounds[r][p].intent>>] = 1
    BY DEF CompletedExist
  <2>1. /\ o \in DOMAIN attempts /\ r \in DOMAIN attempts[o].rounds
        /\ p \in DOMAIN attempts[o].rounds[r] /\ attempts'[o].turn = attempts[o].turn
    BY <1>25
  <2>2. attempts'[o].rounds[r][p].intent = attempts[o].rounds[r][p].intent
    BY <1>24, <2>1
  <2>3. CASE attempts'[o].rounds[r][p] = attempts[o].rounds[r][p]
    <3>1. CompletedExist /\ attempts[o].rounds[r][p].status = "completed"
      BY <2>3 DEF ToolsInv
    <3>2. entities[<<attempts[o].turn, attempts[o].rounds[r][p].intent>>] = 1
      BY <2>1, <3>1 DEF CompletedExist
    <3> QED
      BY <1>6, <2>1, <2>2, <3>2
  <2>4. CASE o = a /\ r = place[1] /\ p = place[2] /\ result = "completed"
    <3>1. entities[KeyOf(worker[w])] = 1
      BY <1>6, <1>7, <1>11, <2>4 DEF WorkerIsSound
    <3>2. KeyOf(worker[w]) = <<attempts[o].turn, attempts[o].rounds[r][p].intent>>
      BY <1>1, <1>2, <2>4 DEF KeyOf
    <3> QED
      BY <1>6, <2>1, <2>2, <3>1, <3>2
  <2> QED
    BY <1>24, <2>1, <2>3, <2>4
<1>28. RoundsAreResolved'
  <2> SUFFICES ASSUME NEW o \in DOMAIN attempts', NEW r \in DOMAIN attempts'[o].rounds,
                      NEW p \in DOMAIN attempts'[o].rounds[r],
                      attempts'[o].rounds[r][p].status = "pending"
               PROVE  /\ r = Len(attempts'[o].rounds) /\ attempts'[o].answer = "tools"
                      /\ ~attempts'[o].committed
    BY DEF RoundsAreResolved
  <2>1. /\ o \in DOMAIN attempts /\ r \in DOMAIN attempts[o].rounds
        /\ p \in DOMAIN attempts[o].rounds[r]
        /\ Len(attempts'[o].rounds) = Len(attempts[o].rounds)
        /\ attempts'[o].answer = attempts[o].answer
        /\ attempts'[o].committed = attempts[o].committed
    BY <1>25
  <2>2. attempts[o].rounds[r][p].status = "pending"
    BY <1>24, <2>1
  <2>3. r = Len(attempts[o].rounds) /\ attempts[o].answer = "tools" /\ ~attempts[o].committed
    BY <2>1, <2>2 DEF ToolsInv, RoundsAreResolved
  <2> QED
    BY <2>1, <2>3
<1>29. WorkerIsSound(c)'
  <2>1. PICK old \in WorkerRow : old = worker[w]
    BY <1>7
  <2>2. \A d \in old.todo : IsCall(old.attempt, d)'
    BY <1>1, <1>7, <1>8, <1>9, <1>26, <2>1, KeyKeeps
  <2>3. \A d \in c.todo : IsCall(c.attempt, d)'
    <3>1. rest \subseteq old.todo /\ old.attempt = a
      BY <1>1, <1>3, <2>1
    <3> QED
      BY <1>12, <2>2, <3>1 DEF IsCall
  <2>4. c.generation <= generation' /\ c.attempt \in DOMAIN attempts'
    BY <1>6, <1>7, <1>8, <1>12, <1>23
  <2> QED
    BY <1>4, <1>12, <2>3, <2>4 DEF WorkerIsSound
<1>30. TurnIsOpen'
  BY <1>6, <1>8, <1>22, <1>23 DEF TurnIsOpen
<1>31. /\ status' \in {"running", "paused", "ended"} /\ ck' \in CkRow
       /\ Len(attempts') <= MaxAttempts
  BY <1>6, <1>7, <1>18, <1>23 DEF Types
<1>32. c.pc # "executing" /\ worker[w].pc # "idle"
  BY <1>6, <1>12
<1>33. QED
  BY <1>6, <1>8, <1>12, <1>23, <1>26, <1>27, <1>28, <1>29, <1>30, <1>31, <1>32, AttemptMoves

\* A batch is added where no call is pending.
LEMMA AnswerToolsKeeps ==
    ASSUME ToolConstants, ToolsInv, NEW w \in Workers, AnswerTools(w)
    PROVE  ToolsInv'
<1>1. PICK a : a = worker[w].attempt
  OBVIOUS
<1>2. PICK intents \in Batches :
          attempts' = [attempts EXCEPT
              ![a].answer = "tools",
              ![a].rounds = Append(@, [p \in DOMAIN intents |->
                                          [intent |-> intents[p], status |-> "pending"]])]
  BY <1>1 DEF AnswerTools
<1>3. PICK b : b = [p \in DOMAIN intents |-> [intent |-> intents[p], status |-> "pending"]]
  OBVIOUS
<1>4. PICK c : c = [worker[w] EXCEPT !.pc = "reading"]
  OBVIOUS
<1>5. /\ worker[w].pc = "calling" /\ HoldsAttempt(w)
      /\ Len(attempts[a].rounds) < MaxRounds
      /\ worker' = [worker EXCEPT ![w] = c]
      /\ UNCHANGED <<status, generation, authority, ck, consumed, entities>>
  BY <1>1, <1>4 DEF AnswerTools, leaseVars
<1>6. worker[w] \in WorkerRow /\ WorkerIsSound(worker[w]) /\ Types /\ generation \in Nat
  BY WorkerIs
<1>7. /\ a \in DOMAIN attempts /\ ~attempts[a].committed /\ worker[w].generation = generation
      /\ ck.phase = "turn_started" /\ ck.attempt = a /\ ck.turn <= MaxTurns
  BY <1>1, <1>5, HeldAttempt
<1>8. PendingOf(a) = {}
  BY <1>1, <1>5, <1>6, <1>7 DEF WorkerIsSound
<1>9. c \in WorkerRow /\ c.pc = "reading" /\ c.attempt = a /\ c.generation = generation
  <2>1. c \in WorkerRow
    BY <1>4, <1>6 DEF WorkerRow, Pcs
  <2> QED
    BY <1>1, <1>4, <1>6, <1>7, <2>1 DEF WorkerRow
<1>10. b \in Batch
  <2>1. PICK n \in 1 .. MaxCalls : intents \in [1 .. n -> Intents]
    BY DEF Batches
  <2>2. DOMAIN b = 1 .. n /\ n \in Nat
    BY <1>3, <2>1, Numbers
  <2>3. \A p \in 1 .. n : b[p] \in Call
    BY <1>3, <2>1 DEF Call
  <2>4. b \in [1 .. n -> Call]
    BY <1>3, <2>1, <2>3
  <2>5. b \in Seq(Call) /\ Len(b) = n
    BY <2>2, <2>4
  <2> QED
    BY <2>1, <2>5 DEF Batch
<1> DEFINE x == attempts[a]
<1>11. /\ x \in AttemptRow /\ x.rounds \in Seq(Batch)
       /\ attempts \in Seq(AttemptRow) /\ Len(attempts) <= MaxAttempts
  <2>1. attempts \in Seq(AttemptRow) /\ Len(attempts) <= MaxAttempts
    BY <1>6 DEF Types
  <2> QED
    BY <1>6, <1>7, <2>1, RowFields
<1>12. PICK n : n = Len(x.rounds) + 1
  OBVIOUS
<1>13. PICK rounds2 : rounds2 = Append(x.rounds, b)
  OBVIOUS
<1>14. PICK x2 : x2 = [x EXCEPT !.answer = "tools", !.rounds = rounds2]
  OBVIOUS
<1>15. attempts' = [attempts EXCEPT ![a] = x2]
  BY <1>2, <1>3, <1>7, <1>13, <1>14
<1>16. Len(x.rounds) < MaxRounds
  BY <1>5
<1> HIDE DEF x
<1>17. /\ rounds2 \in Seq(Batch) /\ Len(rounds2) = n /\ n \in DOMAIN rounds2 /\ rounds2[n] = b
       /\ \A r \in DOMAIN x.rounds : rounds2[r] = x.rounds[r] /\ r \in DOMAIN rounds2
       /\ \A r \in DOMAIN rounds2 : r = n \/ r \in DOMAIN x.rounds
       /\ n \in Nat /\ n <= MaxRounds
  BY <1>10, <1>11, <1>12, <1>13, <1>16, SeqAdd, Numbers
<1>18. x2 \in AttemptRow /\ x2.rounds = rounds2 /\ x2.turn = x.turn /\ x2.answer = "tools"
       /\ x2.committed = x.committed
  <2>1. rounds2 \in {q \in Seq(Batch) : Len(q) <= MaxRounds}
    BY <1>17
  <2> QED
    BY <1>11, <1>14, <2>1 DEF AttemptRow
<1>19. /\ attempts' \in Seq(AttemptRow) /\ Len(attempts') = Len(attempts)
       /\ DOMAIN attempts' = DOMAIN attempts /\ attempts'[a] = x2
       /\ \A o \in DOMAIN attempts : o # a => attempts'[o] = attempts[o]
  BY <1>7, <1>11, <1>15, <1>18, SeqPut
<1>20. RowsKeep
  <2> SUFFICES ASSUME NEW o \in DOMAIN attempts
               PROVE  /\ o \in DOMAIN attempts' /\ attempts'[o].turn = attempts[o].turn
                      /\ \A r \in DOMAIN attempts[o].rounds :
                            /\ r \in DOMAIN attempts'[o].rounds
                            /\ attempts'[o].rounds[r] = attempts[o].rounds[r]
    BY DEF RowsKeep
  <2>1. CASE o = a
    BY <1>17, <1>18, <1>19, <2>1 DEF x
  <2>2. CASE o # a
    BY <1>19, <2>2
  <2> QED
    BY <2>1, <2>2
\* A round that is not the new one is as it was.
<1>21. ASSUME NEW o \in DOMAIN attempts', NEW r \in DOMAIN attempts'[o].rounds,
              ~(o = a /\ r = n)
       PROVE  /\ o \in DOMAIN attempts /\ r \in DOMAIN attempts[o].rounds
              /\ attempts'[o].rounds[r] = attempts[o].rounds[r]
              /\ attempts'[o].turn = attempts[o].turn
              /\ o # a => attempts'[o] = attempts[o]
  <2>1. CASE o = a
    BY <1>17, <1>18, <1>19, <1>21, <2>1 DEF x
  <2>2. CASE o # a
    BY <1>19, <2>2
  <2> QED
    BY <2>1, <2>2
<1>22. ASSUME NEW o \in DOMAIN attempts', NEW r \in DOMAIN attempts'[o].rounds,
              NEW p \in DOMAIN attempts'[o].rounds[r], o = a, r = n
       PROVE  attempts'[o].rounds[r][p].status = "pending"
  BY <1>3, <1>17, <1>18, <1>19, <1>22
<1>23. CompletedExist'
  <2> SUFFICES ASSUME NEW o \in DOMAIN attempts', NEW r \in DOMAIN attempts'[o].rounds,
                      NEW p \in DOMAIN attempts'[o].rounds[r],
                      attempts'[o].rounds[r][p].status = "completed"
               PROVE  entities'[<<attempts'[o].turn, attempts'[o].rounds[r][p].intent>>] = 1
    BY DEF CompletedExist
  <2>1. ~(o = a /\ r = n)
    BY <1>22
  <2>2. /\ o \in DOMAIN attempts /\ r \in DOMAIN attempts[o].rounds
        /\ attempts'[o].rounds[r] = attempts[o].rounds[r]
        /\ attempts'[o].turn = attempts[o].turn
    BY <1>21, <2>1
  <2>3. entities[<<attempts[o].turn, attempts[o].rounds[r][p].intent>>] = 1
    BY <2>2 DEF ToolsInv, CompletedExist
  <2> QED
    BY <1>5, <2>2, <2>3
<1>24. RoundsAreResolved'
  <2> SUFFICES ASSUME NEW o \in DOMAIN attempts', NEW r \in DOMAIN attempts'[o].rounds,
                      NEW p \in DOMAIN attempts'[o].rounds[r],
                      attempts'[o].rounds[r][p].status = "pending"
               PROVE  /\ r = Len(attempts'[o].rounds) /\ attempts'[o].answer = "tools"
                      /\ ~attempts'[o].committed
    BY DEF RoundsAreResolved
  <2>1. CASE o = a /\ r = n
    BY <1>7, <1>17, <1>18, <1>19, <2>1 DEF x
  <2>2. CASE o # a
    BY <1>21, <2>2 DEF ToolsInv, RoundsAreResolved
  <2>3. CASE o = a /\ r # n
    <3>1. /\ r \in DOMAIN attempts[a].rounds /\ p \in DOMAIN attempts[a].rounds[r]
          /\ attempts[a].rounds[r][p].status = "pending"
      BY <1>21, <2>3
    <3>2. <<r, p>> \in Places
      BY <1>6, <1>7, <3>1, RowFields
    <3>3. <<r, p>> \in PendingOf(a)
      BY <3>1, <3>2 DEF PendingOf
    <3> QED
      BY <1>8, <3>3
  <2> QED
    BY <2>1, <2>2, <2>3
<1>25. WorkerIsSound(c)'
  <2>1. c.generation <= generation' /\ c.attempt \in DOMAIN attempts'
    BY <1>5, <1>6, <1>7, <1>9, <1>19
  <2> QED
    BY <1>9, <2>1 DEF WorkerIsSound
<1>26. TurnIsOpen'
  BY <1>5, <1>7, <1>18, <1>19 DEF TurnIsOpen, x
<1>27. /\ status' \in {"running", "paused", "ended"} /\ ck' \in CkRow
       /\ Len(attempts') <= MaxAttempts
  BY <1>5, <1>6, <1>11, <1>19 DEF Types
<1>28. c.pc # "executing" /\ worker[w].pc # "idle"
  BY <1>5, <1>9
<1>29. QED
  BY <1>5, <1>7, <1>9, <1>19, <1>20, <1>23, <1>24, <1>25, <1>26, <1>27, <1>28, AttemptMoves

\* The answer of an attempt, or whether it is committed, may change once nothing is pending.
LEMMA SameRounds ==
    ASSUME ToolConstants, ToolsInv, NEW a \in DOMAIN attempts, NEW x \in AttemptRow,
           attempts' = [attempts EXCEPT ![a] = x], x.turn = attempts[a].turn,
           x.rounds = attempts[a].rounds, PendingOf(a) = {}, UNCHANGED entities
    PROVE  /\ attempts' \in Seq(AttemptRow) /\ Len(attempts') <= MaxAttempts
           /\ DOMAIN attempts' = DOMAIN attempts /\ attempts'[a] = x
           /\ RowsKeep /\ CompletedExist' /\ RoundsAreResolved'
<1>1. Types /\ attempts \in Seq(AttemptRow) /\ Len(attempts) <= MaxAttempts
  BY DEF ToolsInv, Types
<1>2. /\ attempts' \in Seq(AttemptRow) /\ Len(attempts') = Len(attempts)
      /\ DOMAIN attempts' = DOMAIN attempts /\ attempts'[a] = x
      /\ \A o \in DOMAIN attempts : o # a => attempts'[o] = attempts[o]
  BY <1>1, SeqPut
<1>3. \A o \in DOMAIN attempts :
          attempts'[o].rounds = attempts[o].rounds /\ attempts'[o].turn = attempts[o].turn
  BY <1>2
<1>4. RowsKeep
  BY <1>2, <1>3 DEF RowsKeep
<1>5. CompletedExist'
  BY <1>2, <1>3 DEF ToolsInv, CompletedExist
<1>6. RoundsAreResolved'
  <2> SUFFICES ASSUME NEW o \in DOMAIN attempts', NEW r \in DOMAIN attempts'[o].rounds,
                      NEW p \in DOMAIN attempts'[o].rounds[r],
                      attempts'[o].rounds[r][p].status = "pending"
               PROVE  /\ r = Len(attempts'[o].rounds) /\ attempts'[o].answer = "tools"
                      /\ ~attempts'[o].committed
    BY DEF RoundsAreResolved
  <2>1. /\ o \in DOMAIN attempts /\ r \in DOMAIN attempts[o].rounds
        /\ p \in DOMAIN attempts[o].rounds[r] /\ attempts[o].rounds[r][p].status = "pending"
    BY <1>2, <1>3
  <2>2. <<r, p>> \in Places
    BY <1>1, <2>1, RowFields
  <2>3. <<r, p>> \in PendingOf(o)
    BY <2>1, <2>2 DEF PendingOf
  <2>4. o # a
    BY <2>3
  <2>5. attempts'[o] = attempts[o]
    BY <1>2, <2>1, <2>4
  <2> QED
    BY <2>1, <2>5 DEF ToolsInv, RoundsAreResolved
<1>7. QED
  BY <1>1, <1>2, <1>4, <1>5, <1>6

LEMMA AnswerActionKeeps ==
    ASSUME ToolConstants, ToolsInv, NEW w \in Workers, AnswerAction(w)
    PROVE  ToolsInv'
<1>1. PICK a : a = worker[w].attempt
  OBVIOUS
<1>2. PICK c : c = [worker[w] EXCEPT !.pc = "answered"]
  OBVIOUS
<1>3. PICK x : x = [attempts[a] EXCEPT !.answer = "action"]
  OBVIOUS
<1>4. /\ worker[w].pc = "calling" /\ HoldsAttempt(w)
      /\ attempts' = [attempts EXCEPT ![a] = x]
      /\ worker' = [worker EXCEPT ![w] = c]
      /\ UNCHANGED <<status, generation, authority, ck, consumed, entities>>
  BY <1>1, <1>2, <1>3 DEF AnswerAction, leaseVars
<1>5. worker[w] \in WorkerRow /\ WorkerIsSound(worker[w]) /\ Types /\ generation \in Nat
  BY WorkerIs
<1>6. /\ a \in DOMAIN attempts /\ ~attempts[a].committed /\ worker[w].generation = generation
      /\ ck.phase = "turn_started" /\ ck.attempt = a /\ ck.turn <= MaxTurns
  BY <1>1, <1>4, HeldAttempt
<1>7. PendingOf(a) = {}
  BY <1>1, <1>4, <1>5, <1>6 DEF WorkerIsSound
<1>8. c \in WorkerRow /\ c.pc = "answered" /\ c.attempt = a /\ c.generation = generation
  <2>1. c \in WorkerRow
    BY <1>2, <1>5 DEF WorkerRow, Pcs
  <2> QED
    BY <1>1, <1>2, <1>5, <1>6, <2>1 DEF WorkerRow
<1>9. attempts[a] \in AttemptRow
  BY <1>5, <1>6, RowFields
<1>10. /\ x \in AttemptRow /\ x.turn = attempts[a].turn /\ x.rounds = attempts[a].rounds
       /\ x.committed = attempts[a].committed
  BY <1>3, <1>9 DEF AttemptRow
<1>11. /\ attempts' \in Seq(AttemptRow) /\ Len(attempts') <= MaxAttempts
       /\ DOMAIN attempts' = DOMAIN attempts /\ attempts'[a] = x
       /\ RowsKeep /\ CompletedExist' /\ RoundsAreResolved'
  BY <1>4, <1>6, <1>7, <1>10, SameRounds
<1>12. WorkerIsSound(c)'
  <2>1. c.generation <= generation' /\ c.attempt \in DOMAIN attempts'
    BY <1>4, <1>5, <1>6, <1>8, <1>11
  <2> QED
    BY <1>8, <2>1 DEF WorkerIsSound
<1>13. TurnIsOpen'
  BY <1>4, <1>6, <1>10, <1>11 DEF TurnIsOpen
<1>14. status' \in {"running", "paused", "ended"} /\ ck' \in CkRow
  BY <1>4, <1>5 DEF Types
<1>15. c.pc # "executing" /\ worker[w].pc # "idle"
  BY <1>4, <1>8
<1>16. QED
  BY <1>4, <1>6, <1>8, <1>11, <1>12, <1>13, <1>14, <1>15, AttemptMoves

LEMMA CompleteKeeps ==
    ASSUME ToolConstants, ToolsInv, NEW w \in Workers, CompleteTurn(w)
    PROVE  ToolsInv'
<1>1. PICK a : a = worker[w].attempt
  OBVIOUS
<1>2. PICK c : c = [Idle EXCEPT !.pc = "holding", !.generation = generation]
  OBVIOUS
<1>3. PICK x : x = [attempts[a] EXCEPT !.committed = TRUE]
  OBVIOUS
<1>4. /\ worker[w].pc = "answered" /\ HoldsAttempt(w) /\ PendingOf(a) = {}
      /\ attempts' = [attempts EXCEPT ![a] = x]
      /\ ck' = [ck EXCEPT !.turn = @ + 1, !.phase = "idle", !.attempt = 0]
      /\ status' \in {"running", "paused", "ended"}
      /\ worker' = [worker EXCEPT ![w] = c]
      /\ UNCHANGED <<generation, authority, consumed, entities>>
  BY <1>1, <1>2, <1>3 DEF CompleteTurn, leaseVars
<1>5. worker[w] \in WorkerRow /\ WorkerIsSound(worker[w]) /\ Types /\ generation \in Nat
  BY WorkerIs
<1>6. /\ a \in DOMAIN attempts /\ ~attempts[a].committed /\ worker[w].generation = generation
      /\ ck.phase = "turn_started" /\ ck.attempt = a /\ ck.turn <= MaxTurns
  BY <1>1, <1>4, HeldAttempt
<1>7. c \in WorkerRow /\ c.pc = "holding" /\ c.generation = generation
  <2>1. generation \in 0 .. MaxGeneration
    BY <1>5 DEF Types
  <2> QED
    BY <1>2, <2>1, IdleIsSound DEF WorkerRow, Pcs
<1>8. attempts[a] \in AttemptRow
  BY <1>5, <1>6, RowFields
<1>9. x \in AttemptRow /\ x.turn = attempts[a].turn /\ x.rounds = attempts[a].rounds
  BY <1>3, <1>8 DEF AttemptRow
<1>10. /\ attempts' \in Seq(AttemptRow) /\ Len(attempts') <= MaxAttempts
       /\ RowsKeep /\ CompletedExist' /\ RoundsAreResolved'
  BY <1>4, <1>6, <1>9, SameRounds
<1>11. WorkerIsSound(c)'
  <2>1. c.generation <= generation'
    BY <1>4, <1>5, <1>7
  <2> QED
    BY <1>7, <2>1 DEF WorkerIsSound

<1>12. ck' \in CkRow /\ ck'.phase = "idle"
  <2>1. ck \in CkRow /\ ck.turn \in 1 .. MaxTurns + 1
    BY <1>5 DEF Types, CkRow
  <2>2. ck.turn + 1 \in 1 .. MaxTurns + 1 /\ 0 \in 0 .. MaxAttempts
    BY <1>6, <2>1, Numbers
  <2> QED
    BY <1>4, <2>1, <2>2 DEF CkRow
<1>13. TurnIsOpen'
  BY <1>12 DEF TurnIsOpen
<1>14. c.pc # "executing" /\ worker[w].pc # "idle"
  BY <1>4, <1>7
<1>15. QED
  BY <1>4, <1>6, <1>7, <1>10, <1>11, <1>12, <1>13, <1>14, AttemptMoves

(***************************************************************************)
(* The theorems.                                                           *)
(***************************************************************************)

LEMMA ToolsInit ==
    ASSUME ToolConstants, Init
    PROVE  ToolsInv
<1>1. Types
  <2>1. attempts \in Seq(AttemptRow) /\ Len(attempts) = 0
    BY DEF Init
  <2>2. ck \in CkRow
    BY Numbers DEF Init, CkRow
  <2>3. Idle \in WorkerRow
    BY Numbers DEF Idle, WorkerRow, Pcs
  <2>4. worker \in [Workers -> WorkerRow]
    BY <2>3 DEF Init
  <2> QED
    BY <2>1, <2>2, <2>4, Numbers DEF Init, Types
<1>2. DOMAIN attempts = {}
  BY DEF Init
<1>3. \A w \in Workers : worker[w] = Idle
  BY DEF Init
<1>4. Idle.pc = "idle" /\ Idle.generation = 0 /\ 0 <= generation
  BY DEF Idle, Init
<1>5. WorkersAreSound
  <2> SUFFICES ASSUME NEW w \in Workers PROVE WorkerIsSound(worker[w])
    BY DEF WorkersAreSound
  <2> QED
    BY <1>3, <1>4 DEF WorkerIsSound
<1>6. OneHolder /\ TurnIsOpen
  BY <1>3, <1>4 DEF OneHolder, TurnIsOpen, Init
<1>7. ChargesCover
  <2>1. Created = {}
    BY DEF Created, Init
  <2>2. Executors = {}
    BY <1>3, <1>4 DEF Executors
  <2> QED
    BY <2>1, <2>2, FS_EmptySet DEF ChargesCover, Init
<1>8. CompletedExist /\ RoundsAreResolved
  BY <1>2 DEF CompletedExist, RoundsAreResolved
<1>9. QED
  BY <1>1, <1>5, <1>6, <1>7, <1>8 DEF ToolsInv

LEMMA ToolsNext ==
    ASSUME ToolConstants, ToolsInv, [Next]_vars
    PROVE  ToolsInv'
<1>1. ASSUME NEW w \in Workers,
             \/ Acquire(w) \/ BeginTurn(w) \/ Leave(w) \/ Crash(w)
             \/ ReadRounds(w) \/ Charge(w) \/ CreateEntity(w) \/ RefuseCall(w) \/ RecordResult(w)
             \/ AnswerTools(w) \/ AnswerAction(w) \/ CompleteTurn(w) \/ FailTurn(w)
      PROVE  ToolsInv'
  BY <1>1, AcquireKeeps, BeginKeeps, LeavesKeep, ReadKeeps, ChargeKeeps, CreateKeeps, RefuseKeeps,
     RecordKeeps, AnswerToolsKeeps, AnswerActionKeeps, CompleteKeeps, FailKeeps
<1>2. CASE Lapse \/ MoveRun \/ UNCHANGED vars
  BY <1>2, EnvironmentKeeps
<1>3. QED
  BY <1>1, <1>2 DEF Next

LEMMA TypesAreOK ==
    ASSUME ToolConstants, Types
    PROVE  TypeOK
<1>1. ASSUME NEW a \in DOMAIN attempts
      PROVE  /\ attempts[a].turn \in Turns
             /\ attempts[a].answer \in {"none", "tools", "action"}
             /\ attempts[a].committed \in BOOLEAN
             /\ Len(attempts[a].rounds) <= MaxRounds
             /\ \A r \in DOMAIN attempts[a].rounds :
                    /\ attempts[a].rounds[r] \in Seq(Call)
                    /\ Len(attempts[a].rounds[r]) \in 1 .. MaxCalls
  <2>1. attempts[a] \in AttemptRow
    BY RowFields
  <2>2. \A r \in DOMAIN attempts[a].rounds : attempts[a].rounds[r] \in Batch
    BY RowFields
  <2> QED
    BY <2>1, <2>2 DEF AttemptRow, Batch
<1>2. ASSUME NEW w \in Workers
      PROVE  /\ worker[w].pc \in {"idle", "holding", "reading", "resuming", "executing",
                                  "recording", "calling", "answered"}
             /\ worker[w].generation \in 0 .. MaxGeneration
             /\ worker[w].attempt \in 0 .. MaxAttempts
             /\ worker[w].round \in 0 .. MaxRounds
             /\ worker[w].todo \subseteq Places
             /\ worker[w].result \in {"none", "completed", "failed"}
  <2>1. worker[w] \in WorkerRow
    BY DEF Types
  <2> QED
    BY <2>1 DEF WorkerRow, Pcs
<1>3. entities \in [Turns \X Intents -> Nat]
  BY DEF Types
<1>4. /\ status \in {"running", "paused", "ended"}
      /\ generation \in 0 .. MaxGeneration
      /\ authority \in {"live", "lapsed", "released"}
      /\ Len(attempts) <= MaxAttempts
      /\ consumed \in 0 .. MaxToolCalls
      /\ ck \in CkRow
  BY DEF Types
<1>5. QED
  BY <1>1, <1>2, <1>3, <1>4 DEF TypeOK, CkRow

LEMMA EffectsFollow ==
    ASSUME ToolConstants, ToolsInv
    PROVE  EffectsMatchResults
<1>1. Types /\ entities \in [Turns \X Intents -> {0, 1}]
  BY DEF ToolsInv, Types
<1>2. \A e \in DOMAIN entities : entities[e] <= 1
  BY <1>1
<1>3. {e \in DOMAIN entities : entities[e] > 0} = Created
  BY <1>1 DEF Created
<1>4. Cardinality(Created) <= consumed
  <2>1. /\ IsFiniteSet(Created) /\ IsFiniteSet(Executors)
        /\ Cardinality(Created) + Cardinality(Executors) <= consumed
    BY DEF ToolsInv, ChargesCover
  <2>2. /\ Cardinality(Created) \in Nat /\ Cardinality(Executors) \in Nat /\ consumed \in Nat
    BY <1>1, <2>1, FS_CardinalityType, Numbers DEF Types
  <2> QED
    BY <2>1, <2>2
<1>5. CompletedExist
  BY DEF ToolsInv
<1>6. QED
  BY <1>2, <1>3, <1>4, <1>5 DEF EffectsMatchResults, CompletedExist

\* The rows and what the workers remember are always well formed.
THEOREM ToolsTypeCorrect ==
    ASSUME ToolConstants
    PROVE  Spec => []TypeOK
<1>1. Init => ToolsInv
  BY ToolsInit
<1>2. ToolsInv /\ [Next]_vars => ToolsInv'
  BY ToolsNext
<1>3. ToolsInv => TypeOK
  BY TypesAreOK DEF ToolsInv
<1>4. QED
  BY <1>1, <1>2, <1>3, PTL DEF Spec

\* Whoever repeats a call, an intent of a turn creates one entity at most, what was created
\* was charged, and a call recorded as completed has its entity (CreateWorkItemToolOperation,
\* ChargeToolCall, RecordSupervisorToolResult).
THEOREM EffectsAlwaysMatchResults ==
    ASSUME ToolConstants
    PROVE  Spec => []EffectsMatchResults
<1>1. Init => ToolsInv
  BY ToolsInit
<1>2. ToolsInv /\ [Next]_vars => ToolsInv'
  BY ToolsNext
<1>3. ToolsInv => EffectsMatchResults
  BY EffectsFollow
<1>4. QED
  BY <1>1, <1>2, <1>3, PTL DEF Spec

\* No round is asked for, nor a turn committed, over an unresolved call (resumeSupervisorTools,
\* requireSupervisorToolsReadyTx).
THEOREM RoundsAreAlwaysResolved ==
    ASSUME ToolConstants
    PROVE  Spec => []RoundsAreResolved
<1>1. Init => ToolsInv
  BY ToolsInit
<1>2. ToolsInv /\ [Next]_vars => ToolsInv'
  BY ToolsNext
<1>3. ToolsInv => RoundsAreResolved
  BY DEF ToolsInv
<1>4. QED
  BY <1>1, <1>2, <1>3, PTL DEF Spec
=============================================================================
