---------------------------- MODULE RunWakeProofs ----------------------------
(***************************************************************************)
(* Theorems about RunWake, for any number of consumers, Runs, intents and  *)
(* attempts and any clock: a prepared generation keeps its intent until it *)
(* settles, and what it settles with is what the hand-off ledger says.     *)
(***************************************************************************)
EXTENDS RunWake, FiniteSetTheorems, NaturalsInduction, WellFoundedInduction, TLAPS

(***************************************************************************)
(* Rows.                                                                   *)
(***************************************************************************)

Moments == 0 .. MaxTime
RunRow  == [status : {"running", "paused", "ended"}, pending : SUBSET Messages,
            sent : 0 .. MaxMessages]
Statuses     == {"none", "queued", "leased", "cancelled", "exhausted"}
AttemptCount == 0 .. MaxAttempts
IntentRow == [status : Statuses, run : Runs \cup {Nobody}, attempts : AttemptCount,
              next : Nat, deadline : Nat, created : Nat]
LeaseRow  == [gen : AttemptCount, owner : Consumers \cup {Nobody}, expires : Nat,
              active : BOOLEAN]
ConsumptionStatuses == {"none", "prepared", "completed", "failed", "refused"}
HandoffStatuses     == {"none", "open", "completed", "failed"}
HandoffRow  == [items : SUBSET Messages, status : HandoffStatuses]
Outcomes    == {"none", "completed", "failed", "refused"}
Places      == {"idle", "read", "claim", "prepare", "handoff", "acquire", "deliver", "finish",
                "settle"}
ConsumerRow == [pc : Places, run : Runs \cup {Nobody}, intent : 0 .. MaxIntents,
                gen : AttemptCount, outcome : Outcomes]

\* Intents are numbered in the order in which they are scheduled, each for a Run.
IntentsAreNumbered ==
    /\ \E n \in 0 .. MaxIntents : {i \in Intents : intent[i].status # "none"} = 1 .. n
    /\ \A i \in Intents : intent[i].status # "none" => intent[i].run \in Runs

\* What a consumer remembers is of an intent of its Run and, once it has claimed one, of a
\* generation; and what it is about to settle with is what the ledger has, if it has run.
Sound(r) ==
    /\ r.pc # "idle" =>
           /\ r.run \in Runs
           /\ \E i \in Intents : intent[i].status # "none" /\ intent[i].run = r.run
    /\ r.pc \notin {"idle", "read"} => r.intent \in Intents
    /\ r.pc \notin {"idle", "read", "claim"} => r.gen \in Generations
    /\ r.pc = "finish" => r.outcome \in {"completed", "failed"}
    /\ r.pc = "settle" =>
           /\ r.outcome \in {"completed", "failed", "refused"}
           /\ r.outcome # "refused" => handoff[r.intent][r.gen].status = r.outcome

ConsumersAreSound == \A c \in Consumers : Sound(consumer[c])

\* The two properties, for what TypeOK says the tables are.
PreparedOwns ==
    \A i \in Intents : \A g \in Generations : consumption[i][g] = "prepared" =>
        /\ intent[i].status = "leased" /\ intent[i].attempts = g
        /\ lease[i].active /\ lease[i].gen = g

ResultsStay ==
    \A i \in Intents : \A g \in Generations :
        /\ consumption[i][g] \in {"completed", "failed"} =>
               handoff[i][g].status = consumption[i][g]
        /\ consumption[i][g] = "completed" =>
               intent[i].status = "exhausted" /\ intent[i].attempts = g

\* Inductive: what the two properties rest on.
WakeInv ==
    /\ TypeOK
    /\ IntentsAreNumbered
    /\ ConsumersAreSound
    /\ PreparedOwns
    /\ ResultsStay

LEMMA TypeRows ==
    TypeOK <=> /\ now \in Moments /\ faults \in 0 .. MaxFaults
               /\ run \in [Runs -> RunRow]
               /\ execution \in [Runs -> Consumers \cup {Nobody, Other}]
               /\ intent \in [Intents -> IntentRow]
               /\ lease \in [Intents -> LeaseRow]
               /\ consumption \in [Intents -> [Generations -> ConsumptionStatuses]]
               /\ handoff \in [Intents -> [Generations -> HandoffRow]]
               /\ consumer \in [Consumers -> ConsumerRow]
<1>1. Active \cup {"none", "cancelled", "exhausted"} = Statuses
  BY DEF Active, Statuses
<1>2. QED
  BY <1>1 DEF TypeOK, Moments, RunRow, IntentRow, LeaseRow, ConsumptionStatuses, HandoffRow,
     HandoffStatuses, ConsumerRow, Places, Outcomes, AttemptCount

LEMMA TypeRowsNext ==
    TypeOK' <=> /\ now' \in Moments /\ faults' \in 0 .. MaxFaults
                /\ run' \in [Runs -> RunRow]
                /\ execution' \in [Runs -> Consumers \cup {Nobody, Other}]
                /\ intent' \in [Intents -> IntentRow]
                /\ lease' \in [Intents -> LeaseRow]
                /\ consumption' \in [Intents -> [Generations -> ConsumptionStatuses]]
                /\ handoff' \in [Intents -> [Generations -> HandoffRow]]
                /\ consumer' \in [Consumers -> ConsumerRow]
<1>1. Active \cup {"none", "cancelled", "exhausted"} = Statuses
  BY DEF Active, Statuses
<1>2. QED
  BY <1>1 DEF TypeOK, Moments, RunRow, IntentRow, LeaseRow, ConsumptionStatuses, HandoffRow,
     HandoffStatuses, ConsumerRow, Places, Outcomes, AttemptCount

LEMMA Numbers ==
    ASSUME WakeConstants
    PROVE  /\ MaxIntents \in Nat \ {0} /\ MaxAttempts \in Nat \ {0} /\ Lease \in Nat
           /\ Elapsed \in Nat /\ BaseBackoff \in Nat /\ MaxBackoff \in Nat
           /\ MaxMessages \in Nat /\ MaxTime \in Nat /\ MaxFaults \in Nat
           /\ Intents \subseteq Nat /\ Intents \subseteq 0 .. MaxIntents
           /\ Generations \subseteq AttemptCount /\ 0 \in AttemptCount /\ 0 \in 0 .. MaxIntents
  BY DEF WakeConstants, Intents, Generations, AttemptCount

LEMMA IdleRow == ASSUME WakeConstants PROVE Idle \in ConsumerRow /\ Sound(Idle)
  BY Numbers DEF Idle, ConsumerRow, Places, Outcomes, Sound

\* Powers are numbers: those of two count the sets of so many.
LEMMA PowerType == ASSUME NEW n \in Nat PROVE 2 ^ n \in Nat
<1>1. IsFiniteSet(1 .. n) /\ Cardinality(1 .. n) = n
  BY FS_Interval
<1>2. IsFiniteSet(SUBSET (1 .. n)) /\ Cardinality(SUBSET (1 .. n)) = 2 ^ n
  BY <1>1, FS_SUBSET
<1> QED
  BY <1>2, FS_CardinalityType

LEMMA BackoffType ==
    ASSUME WakeConstants, NEW g \in Generations
    PROVE  Backoff(g) \in Nat
<1>1. g - 1 \in Nat
  BY Numbers DEF Generations
<1>2. 2 ^ (g - 1) \in Nat
  BY <1>1, PowerType
<1> DEFINE power == 2 ^ (g - 1)
<1> HIDE DEF power
<1>3. power \in Nat => BaseBackoff * power \in Nat
  BY Numbers
<1>4. BaseBackoff * 2 ^ (g - 1) \in Nat
  BY <1>2, <1>3 DEF power
<1>5. QED
  BY <1>4, Numbers DEF Backoff

\* A Run that has an intent has a latest one.
LEMMA LatestType ==
    ASSUME WakeConstants, NEW r, \E i \in Intents : intent[i].run = r
    PROVE  Latest(r) \in Intents /\ intent[Latest(r)].run = r
<1> DEFINE R == OpToRel(<, Nat)
           S == {i \in Intents : intent[i].run = r}
           T == {MaxIntents - i : i \in S}
<1>1. IsWellFoundedOn(R, Nat)
  BY NatLessThanWellFounded
<1>2. \A x, y \in Nat : y < x => <<y, x>> \in R
  BY DEF OpToRel
<1> HIDE DEF R
<1>3. T \subseteq Nat /\ T # {}
  BY Numbers DEF Intents
<1>4. PICK x \in T : \A y \in T : ~(<<y, x>> \in R)
  BY <1>1, <1>3, WFMin
<1>5. PICK i \in S : x = MaxIntents - i
  BY <1>4
<1>6. ASSUME NEW j \in S PROVE j <= i
  <2>1. MaxIntents - j \in T /\ MaxIntents - j \in Nat /\ MaxIntents - i \in Nat
    BY <1>3, <1>5
  <2>2. ~(MaxIntents - j < MaxIntents - i)
    BY <1>2, <1>4, <1>5, <2>1
  <2>3. i \in Nat /\ j \in Nat /\ MaxIntents \in Nat
    BY Numbers
  <2> QED
    BY <2>2, <2>3
<1>7. i \in Intents /\ intent[i].run = r /\ \A j \in Intents : intent[j].run = r => j <= i
  BY <1>6
<1> QED
  BY <1>7 DEF Latest

(***************************************************************************)
(* Steps.                                                                  *)
(***************************************************************************)

\* Intents stay scheduled, for the same Run, and hand-offs keep their results.
RowsMoveOn ==
    /\ \A i \in Intents : intent[i].status # "none" =>
           intent'[i].status # "none" /\ intent'[i].run = intent[i].run
    /\ \A i \in Intents, g \in Generations :
           handoff[i][g].status \in {"completed", "failed"} =>
               handoff'[i][g].status = handoff[i][g].status

LEMMA SoundStays ==
    ASSUME RowsMoveOn, NEW r, Sound(r)
    PROVE  Sound(r)'
<1>1. r.pc = "settle" /\ r.outcome # "refused" =>
          handoff'[r.intent][r.gen].status = handoff[r.intent][r.gen].status
  BY DEF RowsMoveOn, Sound
<1>2. QED
  BY <1>1 DEF RowsMoveOn, Sound

\* One consumer moves on; the others remember what they did.
LEMMA ConsumerStep ==
    ASSUME WakeInv, RowsMoveOn, NEW c \in Consumers, NEW r \in ConsumerRow, Sound(r)',
           consumer' = [consumer EXCEPT ![c] = r]
    PROVE  consumer' \in [Consumers -> ConsumerRow] /\ ConsumersAreSound'
<1>1. consumer \in [Consumers -> ConsumerRow]
  BY TypeRows DEF WakeInv
<1>2. ASSUME NEW d \in Consumers PROVE Sound(consumer[d])'
  <2>1. CASE d = c
    <3>1. consumer'[d] = r
      BY <1>1, <2>1
    <3> QED
      BY <3>1 DEF Sound
  <2>2. CASE d # c
    <3> DEFINE q == consumer[d]
    <3>1. consumer'[d] = q
      BY <1>1, <2>2
    <3>2. Sound(q)
      BY DEF WakeInv, ConsumersAreSound
    <3>3. PICK k : k = consumer[d]
      OBVIOUS
    <3>4. Sound(k)'
      BY <3>2, <3>3, SoundStays
    <3> QED
      BY <3>1, <3>3, <3>4 DEF Sound
  <2> QED
    BY <2>1, <2>2
<1>3. consumer' \in [Consumers -> ConsumerRow]
  BY <1>1
<1>4. QED
  BY <1>2, <1>3 DEF ConsumersAreSound

LEMMA ConsumersStay ==
    ASSUME WakeInv, RowsMoveOn, UNCHANGED consumer
    PROVE  consumer' \in [Consumers -> ConsumerRow] /\ ConsumersAreSound'
<1>1. ASSUME NEW d \in Consumers PROVE Sound(consumer[d])'
  <2>1. PICK k : k = consumer[d]
    OBVIOUS
  <2>2. Sound(k)'
    BY <2>1, SoundStays DEF WakeInv, ConsumersAreSound
  <2> QED
    BY <2>1, <2>2 DEF Sound
<1>2. consumer' \in [Consumers -> ConsumerRow]
  BY TypeRows DEF WakeInv
<1>3. QED
  BY <1>1, <1>2 DEF ConsumersAreSound

\* A step that leaves the ledgers alone keeps what they say.
LEMMA LedgersStay ==
    ASSUME WakeInv, UNCHANGED <<intent, lease, consumption, handoff>>
    PROVE  /\ RowsMoveOn /\ IntentsAreNumbered' /\ PreparedOwns' /\ ResultsStay'
           /\ intent' \in [Intents -> IntentRow] /\ lease' \in [Intents -> LeaseRow]
           /\ consumption' \in [Intents -> [Generations -> ConsumptionStatuses]]
           /\ handoff' \in [Intents -> [Generations -> HandoffRow]]
  BY TypeRows DEF WakeInv, RowsMoveOn, IntentsAreNumbered, PreparedOwns, ResultsStay

\* The clock, operators and executions by others.
LEMMA EnvironmentStep ==
    ASSUME WakeConstants, WakeInv, UNCHANGED <<intent, lease, consumption, handoff, consumer>>,
           \/ Tick
           \/ \E r \in Runs : Submit(r) \/ PauseOrResume(r) \/ EndRun(r) \/ OtherExecution(r)
                              \/ OtherExecutionEnds(r) \/ ExecutionLapses(r) \/ Stall(r)
    PROVE  WakeInv'
<1>0. /\ now \in Moments /\ faults \in 0 .. MaxFaults
      /\ run \in [Runs -> RunRow]
      /\ execution \in [Runs -> Consumers \cup {Nobody, Other}]
  BY TypeRows DEF WakeInv
<1> DEFINE Typed == /\ now' \in Moments /\ faults' \in 0 .. MaxFaults
                    /\ run' \in [Runs -> RunRow]
                    /\ execution' \in [Runs -> Consumers \cup {Nobody, Other}]
<1>1. CASE Tick
  <2>1. now' \in Moments
    BY <1>0, <1>1, Numbers DEF Tick, Moments
  <2> QED
    BY <1>0, <1>1, <2>1, LedgersStay, ConsumersStay, TypeRowsNext DEF Tick, WakeInv
<1>2. ASSUME NEW r \in Runs, Submit(r) PROVE Typed
  <2>1. run[r] \in RunRow /\ run[r].sent < MaxMessages
    BY <1>0, <1>2 DEF Submit
  <2>2. run[r].sent + 1 \in Messages /\ run[r].sent + 1 \in 0 .. MaxMessages
    BY <2>1, Numbers DEF RunRow, Messages
  <2>3. [run[r] EXCEPT !.sent = @ + 1, !.pending = @ \cup {run[r].sent + 1}] \in RunRow
    BY <2>1, <2>2 DEF RunRow
  <2>4. run' = [run EXCEPT ![r] = [run[r] EXCEPT !.sent = @ + 1, !.pending = @ \cup {run[r].sent + 1}]]
    BY <1>2 DEF Submit
  <2> QED
    BY <1>0, <1>2, <2>3, <2>4 DEF Submit
<1>3. ASSUME NEW r \in Runs, PauseOrResume(r) PROVE Typed
  <2>1. PICK t \in {"running", "paused"} : run' = [run EXCEPT ![r].status = t]
    BY <1>3 DEF PauseOrResume
  <2> QED
    BY <1>0, <1>3, <2>1 DEF PauseOrResume, RunRow
<1>4. ASSUME NEW r \in Runs, EndRun(r) PROVE Typed
  BY <1>0, <1>4 DEF EndRun, RunRow
<1>5. ASSUME NEW r \in Runs, OtherExecution(r) \/ ExecutionLapses(r) \/ Stall(r) PROVE Typed
  BY <1>0, <1>5, Numbers DEF OtherExecution, ExecutionLapses, Stall
<1>6. ASSUME NEW r \in Runs, OtherExecutionEnds(r) PROVE Typed
  <2>1. Commits(r, Selection(r)) \in [Runs -> RunRow]
    BY <1>0 DEF Commits, RunRow
  <2> QED
    BY <1>0, <1>6, <2>1 DEF OtherExecutionEnds
<1>7. ~Tick => Typed
  BY <1>2, <1>3, <1>4, <1>5, <1>6
<1>8. CASE ~Tick
  BY <1>7, <1>8, LedgersStay, ConsumersStay, TypeRowsNext DEF WakeInv
<1>9. QED
  BY <1>1, <1>8

\* What a consumer turns to.
LEMMA ConsumerRows ==
    ASSUME WakeConstants, NEW q \in ConsumerRow
    PROVE  /\ \A p \in Places : [q EXCEPT !.pc = p] \in ConsumerRow
           /\ \A p \in Places, r \in Runs : [q EXCEPT !.pc = p, !.run = r] \in ConsumerRow
           /\ \A p \in Places, o \in Outcomes : [q EXCEPT !.pc = p, !.outcome = o] \in ConsumerRow
           /\ \A p \in Places, g \in AttemptCount : [q EXCEPT !.pc = p, !.gen = g] \in ConsumerRow
           /\ \A p \in Places, r \in Runs, i \in Intents, g \in AttemptCount :
                  [Idle EXCEPT !.pc = p, !.run = r, !.intent = i, !.gen = g] \in ConsumerRow
  BY IdleRow, Numbers DEF ConsumerRow

\* A consumer comes to remember something sound.
TurnsTo(c) ==
    \E r \in ConsumerRow : consumer' = [consumer EXCEPT ![c] = r] /\ Sound(r)

LEMMA LookStep ==
    ASSUME WakeConstants, WakeInv, NEW c \in Consumers,
           Poll(c) \/ Command(c) \/ Read(c) \/ HandOffFails(c) \/ Crash(c)
    PROVE  WakeInv'
<1>0. /\ UNCHANGED <<now, run, execution, intent, lease, consumption, handoff>>
      /\ consumer \in [Consumers -> ConsumerRow] /\ consumer[c] \in ConsumerRow
      /\ intent \in [Intents -> IntentRow]
  BY TypeRows DEF WakeInv, Poll, Command, Read, HandOffFails, Crash
<1>1. faults' \in 0 .. MaxFaults
  BY TypeRows, Numbers DEF WakeInv, Poll, Command, Read, HandOffFails, Crash
<1> DEFINE q == consumer[c]
<1>2. TurnsTo(c)
  <2>1. ASSUME NEW i \in Intents, intent[i].status \in Active, Looks(c, intent[i].run)
        PROVE  TurnsTo(c)
    <3> DEFINE r == [q EXCEPT !.pc = "read", !.run = intent[i].run]
    <3>1. intent[i].status # "none" /\ intent[i].run \in Runs
      BY <2>1 DEF WakeInv, IntentsAreNumbered, Active
    <3>2. r \in ConsumerRow /\ r.pc = "read" /\ r.run = intent[i].run
      BY <1>0, <3>1 DEF ConsumerRow, Places
    <3>3. Sound(r)
      BY <3>1, <3>2 DEF Sound
    <3>4. consumer' = [consumer EXCEPT ![c] = r]
      BY <1>0, <2>1 DEF Looks
    <3> QED
      BY <3>2, <3>3, <3>4 DEF TurnsTo
  <2>2. CASE Poll(c)
    <3>1. PICK i \in Intents : FirstDue(i) /\ Looks(c, intent[i].run)
      BY <2>2 DEF Poll
    <3>2. intent[i].status \in Active
      BY <3>1 DEF FirstDue, Due, Active
    <3> QED
      BY <2>1, <3>1, <3>2
  <2>3. CASE Command(c)
    BY <2>1, <2>3 DEF Command
  <2>4. ASSUME Stops(c) PROVE TurnsTo(c)
    BY <2>4, IdleRow DEF Stops, TurnsTo
  <2>5. CASE Read(c)
    <3> DEFINE i == Latest(q.run)
    <3>1. q.run \in Runs /\ \E j \in Intents : intent[j].run = q.run
      BY <2>5 DEF Read, WakeInv, ConsumersAreSound, Sound
    <3>2. i \in Intents /\ intent[i].run = q.run
      BY <3>1, LatestType
    <3> HIDE DEF i
    <3>3. CASE Stops(c)
      BY <2>4, <3>3
    <3>4. ASSUME NEW g \in AttemptCount, NEW p \in {"claim", "handoff"},
                 Continues(c, i, g, p), intent[i].status # "none",
                 p = "handoff" => g \in Generations
          PROVE  TurnsTo(c)
      <4> DEFINE r == [Idle EXCEPT !.pc = p, !.run = intent[i].run, !.intent = i, !.gen = g]
      <4>1. p \in Places /\ intent[i].run \in Runs
        BY <3>1, <3>2, <3>4 DEF Places
      <4>2. r \in ConsumerRow
        BY <1>0, <3>2, <4>1, ConsumerRows
      <4>3. r.pc = p /\ r.run = intent[i].run /\ r.intent = i /\ r.gen = g
        BY DEF Idle
      <4>4. Sound(r)
        BY <3>2, <3>4, <4>1, <4>3 DEF Sound
      <4>5. consumer' = [consumer EXCEPT ![c] = r]
        BY <3>4 DEF Continues
      <4> QED
        BY <4>2, <4>4, <4>5 DEF TurnsTo
    <3>5. \/ Stops(c)
          \/ intent[i].status \in Active /\ Prepared(i) /\ Continues(c, i, intent[i].attempts, "handoff")
          \/ intent[i].status \in Active /\ Continues(c, i, 0, "claim")
      BY <2>5 DEF Read, i
    <3>6. /\ 0 \in AttemptCount /\ intent[i].attempts \in AttemptCount
          /\ Prepared(i) => intent[i].attempts \in Generations
      BY <1>0, <3>2, Numbers DEF IntentRow, Prepared, AttemptCount, Generations
    <3>7. intent[i].status \in Active => intent[i].status # "none"
      BY DEF Active
    <3>8. CASE intent[i].status \in Active /\ Prepared(i)
               /\ Continues(c, i, intent[i].attempts, "handoff")
      BY <3>4, <3>6, <3>7, <3>8
    <3>9. CASE intent[i].status \in Active /\ Continues(c, i, 0, "claim")
      <4>1. PICK g \in AttemptCount : g = 0
        BY <3>6
      <4>2. PICK p \in {"claim", "handoff"} : p = "claim"
        OBVIOUS
      <4>3. Continues(c, i, g, p) /\ intent[i].status # "none" /\ p # "handoff"
        BY <3>7, <3>9, <4>1, <4>2
      <4> QED
        BY <3>4, <4>3
    <3> QED
      BY <3>3, <3>5, <3>8, <3>9
  <2>6. CASE HandOffFails(c)
    <3> DEFINE r == [q EXCEPT !.pc = "settle", !.outcome = "refused"]
    <3>1. r \in ConsumerRow
      BY <1>0, ConsumerRows DEF Places, Outcomes
    <3>2. Sound(q) /\ q.pc = "handoff"
      BY <2>6 DEF HandOffFails, WakeInv, ConsumersAreSound
    <3>3. /\ r.pc = "settle" /\ r.outcome = "refused" /\ r.run = q.run /\ r.intent = q.intent
          /\ r.gen = q.gen
      BY <1>0 DEF ConsumerRow
    <3>4. Sound(r)
      BY <3>2, <3>3 DEF Sound
    <3>5. consumer' = [consumer EXCEPT ![c] = r]
      BY <1>0, <2>6 DEF HandOffFails, Settles
    <3> QED
      BY <3>1, <3>4, <3>5 DEF TurnsTo
  <2>7. CASE Crash(c)
    BY <2>4, <2>7 DEF Crash
  <2> QED
    BY <2>2, <2>3, <2>5, <2>6, <2>7
<1>3. PICK r \in ConsumerRow : consumer' = [consumer EXCEPT ![c] = r] /\ Sound(r)
  BY <1>2 DEF TurnsTo
<1>4. RowsMoveOn /\ Sound(r)'
  BY <1>0, <1>3, LedgersStay, SoundStays
<1>5. consumer' \in [Consumers -> ConsumerRow] /\ ConsumersAreSound'
  BY <1>3, <1>4, ConsumerStep
<1>6. QED
  BY <1>0, <1>1, <1>5, LedgersStay, TypeRows, TypeRowsNext DEF WakeInv

\* The execution of the Run: what the consumer does before and after is in the ledgers.
LEMMA ExecutionStep ==
    ASSUME WakeConstants, WakeInv, NEW c \in Consumers, Acquire(c) \/ Deliver(c)
    PROVE  WakeInv'
<1> DEFINE q == consumer[c]
<1>0. /\ UNCHANGED <<now, faults, intent, lease, consumption, handoff>>
      /\ consumer \in [Consumers -> ConsumerRow] /\ q \in ConsumerRow /\ Sound(q)
      /\ run \in [Runs -> RunRow] /\ execution \in [Runs -> Consumers \cup {Nobody, Other}]
  BY TypeRows DEF WakeInv, ConsumersAreSound, Acquire, Deliver
<1>1. /\ run' \in [Runs -> RunRow]
      /\ execution' \in [Runs -> Consumers \cup {Nobody, Other}]
  <2>1. CASE Acquire(c)
    BY <1>0, <2>1 DEF Acquire
  <2>2. CASE Deliver(c)
    <3> DEFINE items == handoff[q.intent][q.gen].items \cap run[q.run].pending
               after == Commits(q.run, items)
    <3>1. after \in [Runs -> RunRow]
      BY <1>0 DEF Commits, RunRow
    <3>2. \/ UNCHANGED run
          \/ run' = after
          \/ run' = [after EXCEPT ![q.run].status = "ended"]
          \/ run' = [after EXCEPT ![q.run].status = "paused"]
      BY <2>2 DEF Deliver
    <3>3. UNCHANGED execution
      BY <2>2 DEF Deliver
    <3> HIDE DEF after
    <3>4. run' \in [Runs -> RunRow]
      BY <1>0, <3>1, <3>2 DEF RunRow
    <3> QED
      BY <1>0, <3>3, <3>4
  <2> QED
    BY <2>1, <2>2
<1>2. TurnsTo(c)
  <2>1. CASE Stops(c)
    BY <2>1, IdleRow DEF Stops, TurnsTo
  <2>2. CASE q.pc = "acquire" /\ Goes(c, "deliver")
    <3> DEFINE r == [q EXCEPT !.pc = "deliver"]
    <3>1. r \in ConsumerRow
      BY <1>0, ConsumerRows DEF Places
    <3>2. r.pc = "deliver" /\ r.run = q.run /\ r.intent = q.intent /\ r.gen = q.gen
      BY <1>0 DEF ConsumerRow
    <3>3. Sound(r)
      BY <1>0, <2>2, <3>2 DEF Sound
    <3>4. consumer' = [consumer EXCEPT ![c] = r]
      BY <2>2 DEF Goes
    <3> QED
      BY <3>1, <3>3, <3>4 DEF TurnsTo
  <2>3. ASSUME NEW o \in {"completed", "failed"}, q.pc = "deliver",
               consumer' = [consumer EXCEPT ![c].pc = "finish", ![c].outcome = o]
        PROVE  TurnsTo(c)
    <3> DEFINE r == [q EXCEPT !.pc = "finish", !.outcome = o]
    <3>1. r \in ConsumerRow
      BY <1>0, ConsumerRows DEF Places, Outcomes
    <3>2. /\ r.pc = "finish" /\ r.outcome = o /\ r.run = q.run /\ r.intent = q.intent
          /\ r.gen = q.gen
      BY <1>0 DEF ConsumerRow
    <3>3. Sound(r)
      BY <1>0, <2>3, <3>2 DEF Sound
    <3>4. consumer' = [consumer EXCEPT ![c] = r]
      BY <1>0, <2>3
    <3> QED
      BY <3>1, <3>3, <3>4 DEF TurnsTo
  <2>4. \/ Stops(c)
        \/ q.pc = "acquire" /\ Goes(c, "deliver")
        \/ /\ q.pc = "deliver"
           /\ \E o \in {"completed", "failed"} :
                  consumer' = [consumer EXCEPT ![c].pc = "finish", ![c].outcome = o]
    BY DEF Acquire, LeavesPending, Deliver
  <2> QED
    BY <2>1, <2>2, <2>3, <2>4
<1>3. PICK r \in ConsumerRow : consumer' = [consumer EXCEPT ![c] = r] /\ Sound(r)
  BY <1>2 DEF TurnsTo
<1>4. RowsMoveOn /\ Sound(r)'
  BY <1>0, <1>3, LedgersStay, SoundStays
<1>5. consumer' \in [Consumers -> ConsumerRow] /\ ConsumersAreSound'
  BY <1>3, <1>4, ConsumerStep
<1>6. QED
  BY <1>0, <1>1, <1>5, LedgersStay, TypeRows, TypeRowsNext DEF WakeInv

\* Only the generation that has the lease of an intent may have prepared.
LEMMA NothingIsPrepared ==
    ASSUME WakeConstants, WakeInv, NEW i \in Intents, intent[i].status # "leased" \/ ~Prepared(i)
    PROVE  \A g \in Generations : consumption[i][g] # "prepared"
  BY Numbers DEF WakeInv, PreparedOwns, Prepared, Generations

\* A row of the intents changes, with its lease, while its generations do not.
LEMMA IntentStep ==
    ASSUME WakeConstants, WakeInv, UNCHANGED <<consumption, handoff>>, NEW i \in Intents,
           NEW row \in IntentRow, NEW held \in LeaseRow,
           intent' = [intent EXCEPT ![i] = row], lease' = [lease EXCEPT ![i] = held],
           intent[i].status \in {"queued", "leased"}, intent[i].status # "leased" \/ ~Prepared(i),
           row.status # "none", row.run = intent[i].run
    PROVE  /\ RowsMoveOn /\ IntentsAreNumbered' /\ PreparedOwns' /\ ResultsStay'
           /\ intent' \in [Intents -> IntentRow] /\ lease' \in [Intents -> LeaseRow]
           /\ consumption' \in [Intents -> [Generations -> ConsumptionStatuses]]
           /\ handoff' \in [Intents -> [Generations -> HandoffRow]]
<1>0. /\ intent \in [Intents -> IntentRow] /\ lease \in [Intents -> LeaseRow]
      /\ consumption' \in [Intents -> [Generations -> ConsumptionStatuses]]
      /\ handoff' \in [Intents -> [Generations -> HandoffRow]]
  BY TypeRows DEF WakeInv
<1>1. \A g \in Generations : consumption[i][g] \notin {"prepared", "completed"}
  BY NothingIsPrepared DEF WakeInv, ResultsStay
<1>2. /\ intent'[i] = row /\ \A j \in Intents : j # i => intent'[j] = intent[j]
      /\ lease'[i] = held /\ \A j \in Intents : j # i => lease'[j] = lease[j]
  BY <1>0
<1>3. RowsMoveOn
  BY <1>2 DEF RowsMoveOn
<1>4. IntentsAreNumbered'
  <2>1. \A j \in Intents : intent'[j].status # "none" <=> intent[j].status # "none"
    BY <1>2
  <2>2. \A j \in Intents : intent'[j].run = intent[j].run
    BY <1>2
  <2>3. {j \in Intents : intent[j].status # "none"}' = {j \in Intents : intent[j].status # "none"}
    BY <2>1
  <2> QED
    BY <2>1, <2>2, <2>3 DEF WakeInv, IntentsAreNumbered
<1>5. PreparedOwns'
  BY <1>1, <1>2 DEF WakeInv, PreparedOwns
<1>6. ResultsStay'
  BY <1>1, <1>2 DEF WakeInv, ResultsStay
<1>7. QED
  BY <1>0, <1>3, <1>4, <1>5, <1>6

\* The Run's next intent: its number is new, so no generation of it was prepared.
LEMMA ScheduleStep ==
    ASSUME WakeConstants, WakeInv, NEW r \in Runs, Schedule(r)
    PROVE  WakeInv'
<1>0. /\ UNCHANGED <<now, run, execution, lease, consumption, handoff, consumer, faults>>
      /\ intent \in [Intents -> IntentRow] /\ now \in Nat
  BY TypeRows, Numbers DEF WakeInv, Schedule, Moments
<1>1. PICK n \in 0 .. MaxIntents : {i \in Intents : intent[i].status # "none"} = 1 .. n
  BY DEF WakeInv, IntentsAreNumbered
<1> DEFINE k == n + 1
<1>2. NextIntent = k /\ k \in Intents /\ n \in Nat
  <2>1. n \in Nat
    BY Numbers
  <2>2. Cardinality(1 .. n) = n
    BY <2>1, FS_Interval
  <2> QED
    BY <1>1, <2>1, <2>2 DEF NextIntent, Schedule
<1>3. intent[k].status = "none"
  BY <1>1, <1>2
<1>4. PICK delay \in {0, 1} :
          intent' = [intent EXCEPT ![k] = [status |-> "queued", run |-> r, attempts |-> 0,
                         next |-> now + delay, deadline |-> now + Elapsed, created |-> now]]
  BY <1>2 DEF Schedule
<1> DEFINE row == [status |-> "queued", run |-> r, attempts |-> 0, next |-> now + delay,
                   deadline |-> now + Elapsed, created |-> now]
<1>5. row \in IntentRow /\ row.status = "queued" /\ row.run = r
  BY <1>0, Numbers DEF IntentRow, Statuses
<1> HIDE DEF row
<1>6. intent' = [intent EXCEPT ![k] = row]
  BY <1>4 DEF row
<1> HIDE DEF k
<1>7. intent'[k] = row /\ \A j \in Intents : j # k => intent'[j] = intent[j]
  BY <1>0, <1>2, <1>6
<1>8. intent' \in [Intents -> IntentRow]
  BY <1>0, <1>2, <1>5, <1>6
<1>9. RowsMoveOn
  BY <1>0, <1>3, <1>7 DEF RowsMoveOn
<1>10. IntentsAreNumbered'
  <2>1. \A j \in Intents : intent'[j].status # "none" <=> intent[j].status # "none" \/ j = k
    BY <1>5, <1>7
  <2>2. {j \in Intents : intent'[j].status # "none"} = 1 .. k
    <3>1. \A j \in Intents : intent[j].status # "none" <=> j \in 1 .. n
      BY <1>1
    <3>2. k = n + 1 /\ n \in Nat /\ k \in Intents
      BY <1>2 DEF k
    <3>3. \A j \in Nat : j \in Intents => (j \in 1 .. n \/ j = k <=> j \in 1 .. k)
      BY <3>2
    <3>4. 1 .. k \subseteq Intents
      BY <3>2, Numbers DEF Intents
    <3>5. \A j \in Intents : intent'[j].status # "none" <=> j \in 1 .. k
      BY <2>1, <3>1, <3>3, Numbers
    <3> QED
      BY <3>4, <3>5
  <2>3. k \in 0 .. MaxIntents
    BY <1>2, Numbers
  <2>4. \A j \in Intents : intent'[j].status # "none" => intent'[j].run \in Runs
    BY <1>5, <1>7 DEF WakeInv, IntentsAreNumbered
  <2> QED
    BY <2>2, <2>3, <2>4 DEF IntentsAreNumbered
<1>11. \A g \in Generations : consumption[k][g] \notin {"prepared", "completed"}
  BY <1>2, <1>3 DEF WakeInv, PreparedOwns, ResultsStay
<1>12. PreparedOwns'
  BY <1>0, <1>7, <1>11 DEF WakeInv, PreparedOwns
<1>13. ResultsStay'
  BY <1>0, <1>7, <1>11 DEF WakeInv, ResultsStay
<1>14. consumer' \in [Consumers -> ConsumerRow] /\ ConsumersAreSound'
  BY <1>0, <1>9, ConsumersStay
<1>15. TypeOK'
  BY <1>0, <1>8, <1>14, TypeRows, TypeRowsNext DEF WakeInv
<1>16. QED
  BY <1>10, <1>12, <1>13, <1>14, <1>15 DEF WakeInv

\* The operator cancels an intent that has nothing prepared.
LEMMA CancelStep ==
    ASSUME WakeConstants, WakeInv, NEW i \in Intents, Cancel(i)
    PROVE  WakeInv'
<1>0. /\ UNCHANGED <<now, run, execution, consumption, handoff, consumer, faults>>
      /\ intent \in [Intents -> IntentRow] /\ lease \in [Intents -> LeaseRow]
  BY TypeRows DEF WakeInv, Cancel
<1> DEFINE row == [intent[i] EXCEPT !.status = "cancelled"]
<1>1. row \in IntentRow /\ row.status # "none" /\ row.run = intent[i].run
  BY <1>0 DEF IntentRow, Statuses
<1>2. Ended(i) \in LeaseRow
  BY <1>0 DEF Ended, LeaseRow
<1>3. /\ intent' = [intent EXCEPT ![i] = row] /\ lease' = [lease EXCEPT ![i] = Ended(i)]
      /\ intent[i].status \in {"queued", "leased"} /\ ~Prepared(i)
  BY DEF Cancel, MayCancel, Active
<1> HIDE DEF row
<1>4. /\ RowsMoveOn /\ IntentsAreNumbered' /\ PreparedOwns' /\ ResultsStay'
      /\ intent' \in [Intents -> IntentRow] /\ lease' \in [Intents -> LeaseRow]
      /\ consumption' \in [Intents -> [Generations -> ConsumptionStatuses]]
      /\ handoff' \in [Intents -> [Generations -> HandoffRow]]
  BY <1>0, <1>1, <1>2, <1>3, IntentStep
<1>5. consumer' \in [Consumers -> ConsumerRow] /\ ConsumersAreSound'
  BY <1>0, <1>4, ConsumersStay
<1>6. QED
  BY <1>0, <1>4, <1>5, TypeRows, TypeRowsNext DEF WakeInv

\* AcquireRunWake takes back, exhausts or leases only what nobody has prepared.
LEMMA ClaimStep ==
    ASSUME WakeConstants, WakeInv, NEW c \in Consumers, Claim(c)
    PROVE  WakeInv'
<1> DEFINE q == consumer[c]
           i == q.intent
           gen == intent[i].attempts + 1
<1>0. /\ UNCHANGED <<now, run, execution, consumption, handoff, faults>>
      /\ intent \in [Intents -> IntentRow] /\ lease \in [Intents -> LeaseRow]
      /\ q \in ConsumerRow /\ Sound(q) /\ q.pc = "claim" /\ now \in Nat
      /\ consumer \in [Consumers -> ConsumerRow]
  BY TypeRows, Numbers DEF WakeInv, Claim, ConsumersAreSound, Moments
<1>1. i \in Intents /\ intent[i] \in IntentRow /\ lease[i] \in LeaseRow
  BY <1>0 DEF Sound
<1>2. Ended(i) \in LeaseRow
  BY <1>1 DEF Ended, LeaseRow
<1> DEFINE due == Reclaimable(i) \/ (intent[i].status = "queued" /\ now >= intent[i].next)
           row == [Queued(i, IF Reclaimable(i) THEN now ELSE intent[i].next)
                      EXCEPT !.status = "leased", !.attempts = gen]
           held == [gen |-> gen, owner |-> c, active |-> TRUE, expires |-> LeaseEnd(i)]
           next == [q EXCEPT !.pc = "prepare", !.gen = gen]
<1>3. due => intent[i].status \in {"queued", "leased"}
             /\ (intent[i].status # "leased" \/ ~Prepared(i))
  BY DEF Reclaimable
<1>4. \/ /\ due
         /\ intent' = [intent EXCEPT ![i] = Exhausted(i)]
         /\ lease' = [lease EXCEPT ![i] = Ended(i)]
         /\ consumer' = [consumer EXCEPT ![c] = Idle]
      \/ /\ due /\ ~Spent(i)
         /\ intent' = [intent EXCEPT ![i] = row]
         /\ lease' = [lease EXCEPT ![i] = held]
         /\ consumer' = [consumer EXCEPT ![c] = next]
      \/ UNCHANGED <<intent, lease>> /\ consumer' = [consumer EXCEPT ![c] = Idle]
  BY <1>0 DEF Claim, Stops
<1> DEFINE Kept == /\ RowsMoveOn /\ IntentsAreNumbered' /\ PreparedOwns' /\ ResultsStay'
                   /\ intent' \in [Intents -> IntentRow] /\ lease' \in [Intents -> LeaseRow]
                   /\ consumption' \in [Intents -> [Generations -> ConsumptionStatuses]]
                   /\ handoff' \in [Intents -> [Generations -> HandoffRow]]
           Turned == \E r \in ConsumerRow :
                         consumer' = [consumer EXCEPT ![c] = r] /\ Sound(r)
<1>5. ASSUME due, intent' = [intent EXCEPT ![i] = Exhausted(i)],
             lease' = [lease EXCEPT ![i] = Ended(i)],
             consumer' = [consumer EXCEPT ![c] = Idle]
      PROVE  Kept /\ Turned
  <2>1. /\ Exhausted(i) \in IntentRow /\ Exhausted(i).status # "none"
        /\ Exhausted(i).run = intent[i].run
    BY <1>1 DEF Exhausted, IntentRow, Statuses
  <2> HIDE DEF i, due
  <2>2. Kept
    BY <1>0, <1>1, <1>2, <1>3, <1>5, <2>1, IntentStep
  <2>3. Turned
    BY <1>5, IdleRow
  <2> QED
    BY <2>2, <2>3
<1>6. ASSUME due, ~Spent(i), intent' = [intent EXCEPT ![i] = row],
             lease' = [lease EXCEPT ![i] = held],
             consumer' = [consumer EXCEPT ![c] = next]
      PROVE  Kept /\ Turned
  <2>1. gen \in Generations /\ gen \in AttemptCount
    BY <1>1, <1>6, Numbers DEF Spent, IntentRow, AttemptCount, Generations
  <2>2. row \in IntentRow /\ row.status # "none" /\ row.run = intent[i].run
    BY <1>0, <1>1, <2>1 DEF Queued, IntentRow, Statuses
  <2>3. LeaseEnd(i) \in Nat
    BY <1>0, <1>1, Numbers DEF LeaseEnd, IntentRow
  <2>4. held \in LeaseRow
    BY <2>1, <2>3 DEF LeaseRow
  <2>5. next \in ConsumerRow
    BY <1>0, <2>1, ConsumerRows DEF Places
  <2>6. next.pc = "prepare" /\ next.run = q.run /\ next.intent = i /\ next.gen = gen
    BY <1>0 DEF ConsumerRow
  <2>7. Sound(next)
    BY <1>0, <2>1, <2>6 DEF Sound
  <2> HIDE DEF row, held, next, i, due
  <2>8. Kept
    BY <1>0, <1>1, <1>3, <1>6, <2>2, <2>4, IntentStep
  <2>9. Turned
    BY <1>6, <2>5, <2>7
  <2> QED
    BY <2>8, <2>9
<1>7. ASSUME UNCHANGED <<intent, lease>>, consumer' = [consumer EXCEPT ![c] = Idle]
      PROVE  Kept /\ Turned
  <2>1. Kept
    BY <1>0, <1>7, LedgersStay
  <2>2. Turned
    BY <1>7, IdleRow
  <2> QED
    BY <2>1, <2>2
<1>8. Kept /\ Turned
  BY <1>4, <1>5, <1>6, <1>7
<1>9. PICK r \in ConsumerRow : consumer' = [consumer EXCEPT ![c] = r] /\ Sound(r)
  BY <1>8
<1>10. Sound(r)'
  BY <1>8, <1>9, SoundStays
<1>11. consumer' \in [Consumers -> ConsumerRow] /\ ConsumersAreSound'
  BY <1>8, <1>9, <1>10, ConsumerStep
<1>12. QED
  BY <1>0, <1>8, <1>11, TypeRows, TypeRowsNext DEF WakeInv

\* A consumer that owns the lease of the intent writes its generation down as prepared.
LEMMA PrepareStep ==
    ASSUME WakeConstants, WakeInv, NEW c \in Consumers, Prepare(c)
    PROVE  WakeInv'
<1> DEFINE q == consumer[c]
           i == q.intent
           g == q.gen
           next == [q EXCEPT !.pc = "handoff"]
<1>0. /\ UNCHANGED <<now, run, execution, intent, lease, handoff, faults>>
      /\ intent \in [Intents -> IntentRow] /\ lease \in [Intents -> LeaseRow]
      /\ consumption \in [Intents -> [Generations -> ConsumptionStatuses]]
      /\ handoff \in [Intents -> [Generations -> HandoffRow]]
      /\ q \in ConsumerRow /\ Sound(q) /\ q.pc = "prepare"
      /\ consumer \in [Consumers -> ConsumerRow]
  BY TypeRows DEF WakeInv, Prepare, ConsumersAreSound
<1>1. i \in Intents /\ g \in Generations
  BY <1>0 DEF Sound
<1>2. /\ next \in ConsumerRow /\ next.pc = "handoff" /\ next.run = q.run /\ next.intent = i
      /\ next.gen = g
  <2>1. next \in ConsumerRow
    BY <1>0, ConsumerRows DEF Places
  <2>2. next.pc = "handoff" /\ next.run = q.run /\ next.intent = i /\ next.gen = g
    BY <1>0 DEF ConsumerRow
  <2> QED
    BY <2>1, <2>2
<1>3. Sound(next)
  BY <1>0, <1>2 DEF Sound
<1>4. RowsMoveOn /\ IntentsAreNumbered'
  BY <1>0 DEF RowsMoveOn, WakeInv, IntentsAreNumbered
<1>5. \/ /\ OwnsLease(c, i, g)
         /\ consumption' = [consumption EXCEPT ![i][g] = "prepared"]
         /\ consumer' = [consumer EXCEPT ![c] = next]
      \/ UNCHANGED consumption /\ consumer' = [consumer EXCEPT ![c] = Idle]
  BY <1>0 DEF Prepare, Goes, Stops
<1>6. PICK r \in ConsumerRow : consumer' = [consumer EXCEPT ![c] = r] /\ Sound(r)
  BY <1>2, <1>3, <1>5, IdleRow
<1>7. consumer' \in [Consumers -> ConsumerRow] /\ ConsumersAreSound'
  <2>1. Sound(r)'
    BY <1>4, <1>6, SoundStays
  <2> QED
    BY <1>4, <1>6, <2>1, ConsumerStep
<1>8. /\ PreparedOwns' /\ ResultsStay'
      /\ consumption' \in [Intents -> [Generations -> ConsumptionStatuses]]
  <2>1. CASE UNCHANGED consumption
    BY <1>0, <2>1 DEF WakeInv, PreparedOwns, ResultsStay
  <2>2. CASE OwnsLease(c, i, g) /\ consumption' = [consumption EXCEPT ![i][g] = "prepared"]
    <3>1. /\ intent[i].status = "leased" /\ intent[i].attempts = g
          /\ lease[i].active /\ lease[i].gen = g
      BY <2>2 DEF OwnsLease
    <3>2. consumption' \in [Intents -> [Generations -> ConsumptionStatuses]]
      BY <1>0, <2>2 DEF ConsumptionStatuses
    <3> HIDE DEF i, g
    <3>3. /\ consumption'[i][g] = "prepared"
          /\ \A j \in Intents, h \in Generations :
                 j # i \/ h # g => consumption'[j][h] = consumption[j][h]
      BY <1>0, <1>1, <2>2
    <3>4. PreparedOwns'
      BY <1>0, <1>1, <3>1, <3>3 DEF WakeInv, PreparedOwns
    <3>5. ResultsStay'
      BY <1>0, <1>1, <3>1, <3>3 DEF WakeInv, ResultsStay
    <3> QED
      BY <3>2, <3>4, <3>5
  <2> QED
    BY <1>5, <2>1, <2>2
<1>9. QED
  BY <1>0, <1>4, <1>7, <1>8, TypeRows, TypeRowsNext DEF WakeInv

\* The hand-off ledger: a row of a generation changes while it has no result.
LEMMA HandoffStep ==
    ASSUME WakeInv, UNCHANGED <<intent, lease, consumption>>, NEW i \in Intents,
           NEW g \in Generations, NEW row \in HandoffRow,
           handoff' = [handoff EXCEPT ![i][g] = row], handoff[i][g].status \in {"none", "open"}
    PROVE  /\ RowsMoveOn /\ IntentsAreNumbered' /\ PreparedOwns' /\ ResultsStay'
           /\ intent' \in [Intents -> IntentRow] /\ lease' \in [Intents -> LeaseRow]
           /\ consumption' \in [Intents -> [Generations -> ConsumptionStatuses]]
           /\ handoff' \in [Intents -> [Generations -> HandoffRow]]
<1>0. /\ intent' \in [Intents -> IntentRow] /\ lease' \in [Intents -> LeaseRow]
      /\ consumption' \in [Intents -> [Generations -> ConsumptionStatuses]]
      /\ handoff \in [Intents -> [Generations -> HandoffRow]]
  BY TypeRows DEF WakeInv
<1>1. handoff' \in [Intents -> [Generations -> HandoffRow]]
  BY <1>0
<1>2. \A j \in Intents, h \in Generations : j # i \/ h # g => handoff'[j][h] = handoff[j][h]
  BY <1>0
<1>3. RowsMoveOn
  BY <1>2 DEF RowsMoveOn
<1>4. IntentsAreNumbered' /\ PreparedOwns'
  BY DEF WakeInv, IntentsAreNumbered, PreparedOwns
<1>5. ResultsStay'
  BY <1>2 DEF WakeInv, ResultsStay
<1>6. QED
  BY <1>0, <1>1, <1>3, <1>4, <1>5

\* What the consumer goes on with, of the generation that it has.
LEMMA GoesOn ==
    ASSUME WakeConstants, NEW q \in ConsumerRow, Sound(q),
           q.pc \in {"handoff", "acquire", "deliver", "finish"}
    PROVE  /\ [q EXCEPT !.pc = "acquire"] \in ConsumerRow /\ Sound([q EXCEPT !.pc = "acquire"])
           /\ \A o \in {"completed", "failed", "refused"} :
                  LET next == [q EXCEPT !.pc = "settle", !.outcome = o]
                  IN  /\ next \in ConsumerRow /\ next.pc = "settle" /\ next.outcome = o
                      /\ next.run = q.run /\ next.intent = q.intent /\ next.gen = q.gen
                      /\ (o # "refused" => handoff[q.intent][q.gen].status = o) => Sound(next)
<1>1. [q EXCEPT !.pc = "acquire"] \in ConsumerRow /\ Sound([q EXCEPT !.pc = "acquire"])
  <2>1. [q EXCEPT !.pc = "acquire"] \in ConsumerRow
    BY ConsumerRows DEF Places
  <2> DEFINE next == [q EXCEPT !.pc = "acquire"]
  <2>2. next.pc = "acquire" /\ next.run = q.run /\ next.intent = q.intent /\ next.gen = q.gen
    BY DEF ConsumerRow
  <2>3. Sound(next)
    BY <2>2 DEF Sound
  <2> QED
    BY <2>1, <2>3
<1>2. ASSUME NEW o \in {"completed", "failed", "refused"}
      PROVE  LET next == [q EXCEPT !.pc = "settle", !.outcome = o]
             IN  /\ next \in ConsumerRow /\ next.pc = "settle" /\ next.outcome = o
                 /\ next.run = q.run /\ next.intent = q.intent /\ next.gen = q.gen
                 /\ (o # "refused" => handoff[q.intent][q.gen].status = o) => Sound(next)
  <2> DEFINE next == [q EXCEPT !.pc = "settle", !.outcome = o]
  <2>1. next \in ConsumerRow
    BY ConsumerRows DEF Places, Outcomes
  <2>2. /\ next.pc = "settle" /\ next.outcome = o
        /\ next.run = q.run /\ next.intent = q.intent /\ next.gen = q.gen
    BY DEF ConsumerRow
  <2>3. (o # "refused" => handoff[q.intent][q.gen].status = o) => Sound(next)
    BY <2>2 DEF Sound
  <2> QED
    BY <2>1, <2>2, <2>3
<1>3. QED
  BY <1>1, <1>2

\* What a consumer does last, on which the combined step rests.
Kept ==
    /\ RowsMoveOn /\ IntentsAreNumbered' /\ PreparedOwns' /\ ResultsStay'
    /\ intent' \in [Intents -> IntentRow] /\ lease' \in [Intents -> LeaseRow]
    /\ consumption' \in [Intents -> [Generations -> ConsumptionStatuses]]
    /\ handoff' \in [Intents -> [Generations -> HandoffRow]]

LEMMA HandOffStep ==
    ASSUME WakeConstants, WakeInv, NEW c \in Consumers, HandOff(c)
    PROVE  WakeInv'
<1> DEFINE q == consumer[c]
           i == q.intent
           g == q.gen
           to == [q EXCEPT !.pc = "acquire"]
           with(o) == [q EXCEPT !.pc = "settle", !.outcome = o]
<1>0. /\ UNCHANGED <<now, run, execution, intent, lease, consumption, faults>>
      /\ run \in [Runs -> RunRow]
      /\ handoff \in [Intents -> [Generations -> HandoffRow]]
      /\ q \in ConsumerRow /\ Sound(q) /\ q.pc = "handoff"
      /\ consumer \in [Consumers -> ConsumerRow]
  BY TypeRows DEF WakeInv, HandOff, ConsumersAreSound
<1>1. i \in Intents /\ g \in Generations /\ q.run \in Runs
  BY <1>0 DEF Sound
<1>2. handoff[i][g] \in HandoffRow
  BY <1>0, <1>1
<1>3. /\ to \in ConsumerRow /\ Sound(to)
      /\ \A o \in {"completed", "failed", "refused"} :
             /\ with(o) \in ConsumerRow /\ with(o).pc = "settle" /\ with(o).outcome = o
             /\ with(o).run = q.run /\ with(o).intent = i /\ with(o).gen = g
             /\ (o # "refused" => handoff[i][g].status = o) => Sound(with(o))
  BY <1>0, GoesOn
<1> DEFINE empty == [handoff[i][g] EXCEPT !.status = "completed"]
           opened == [status |-> "open", items |-> Selection(q.run)]
<1>4. /\ empty \in HandoffRow /\ empty.status = "completed"
      /\ opened \in HandoffRow
  BY <1>0, <1>1, <1>2 DEF HandoffRow, HandoffStatuses, Selection, RunRow
<1>5. \/ /\ handoff[i][g].status \in {"completed", "failed"}
         /\ consumer' = [consumer EXCEPT ![c] = with(handoff[i][g].status)]
         /\ UNCHANGED handoff
      \/ consumer' = [consumer EXCEPT ![c] = to] /\ UNCHANGED handoff
      \/ /\ handoff[i][g].status = "none"
         /\ handoff' = [handoff EXCEPT ![i][g] = empty]
         /\ consumer' = [consumer EXCEPT ![c] = with("completed")]
      \/ /\ handoff[i][g].status = "none"
         /\ handoff' = [handoff EXCEPT ![i][g] = opened]
         /\ consumer' = [consumer EXCEPT ![c] = to]
      \/ consumer' = [consumer EXCEPT ![c] = with("refused")] /\ UNCHANGED handoff
  BY <1>0 DEF HandOff, Settles, Goes
<1> DEFINE Turned == \E r \in ConsumerRow :
                         consumer' = [consumer EXCEPT ![c] = r] /\ Sound(r)'
<1>6. ASSUME UNCHANGED handoff, NEW r \in ConsumerRow, Sound(r),
             consumer' = [consumer EXCEPT ![c] = r]
      PROVE  Kept /\ Turned
  <2>1. Kept
    BY <1>0, <1>6, LedgersStay DEF Kept
  <2>2. Sound(r)'
    BY <1>6, <2>1, SoundStays DEF Kept
  <2> QED
    BY <1>6, <2>1, <2>2
<1>7. ASSUME NEW row \in HandoffRow, handoff' = [handoff EXCEPT ![i][g] = row],
             handoff[i][g].status = "none"
      PROVE  Kept /\ handoff'[i][g] = row
  <2> HIDE DEF i, g
  <2>1. Kept
    BY <1>0, <1>1, <1>7, HandoffStep DEF Kept
  <2>2. handoff'[i][g] = row
    BY <1>0, <1>1, <1>7
  <2> QED
    BY <2>1, <2>2
<1>8. Kept /\ Turned
  <2> HIDE DEF to, with, empty, opened, Turned, i, g
  <2>1. CASE /\ handoff[i][g].status \in {"completed", "failed"}
             /\ consumer' = [consumer EXCEPT ![c] = with(handoff[i][g].status)]
             /\ UNCHANGED handoff
    <3>1. PICK o \in {"completed", "failed", "refused"} : o = handoff[i][g].status
      BY <2>1
    <3>2. with(o) \in ConsumerRow /\ Sound(with(o))
      BY <1>3, <3>1
    <3> QED
      BY <1>6, <2>1, <3>1, <3>2
  <2>2. CASE consumer' = [consumer EXCEPT ![c] = to] /\ UNCHANGED handoff
    BY <1>3, <1>6, <2>2
  <2>3. CASE consumer' = [consumer EXCEPT ![c] = with("refused")] /\ UNCHANGED handoff
    BY <1>3, <1>6, <2>3
  <2>4. CASE /\ handoff[i][g].status = "none"
             /\ handoff' = [handoff EXCEPT ![i][g] = opened]
             /\ consumer' = [consumer EXCEPT ![c] = to]
    <3>1. Kept
      BY <1>4, <1>7, <2>4
    <3>2. PICK r \in ConsumerRow : r = to /\ Sound(r)
      BY <1>3
    <3>3. Sound(r)'
      BY <3>1, <3>2, SoundStays DEF Kept
    <3> QED
      BY <2>4, <3>1, <3>2, <3>3 DEF Turned
  <2>5. CASE /\ handoff[i][g].status = "none"
             /\ handoff' = [handoff EXCEPT ![i][g] = empty]
             /\ consumer' = [consumer EXCEPT ![c] = with("completed")]
    <3>1. Kept /\ handoff'[i][g].status = "completed"
      BY <1>4, <1>7, <2>5
    <3>2. PICK r \in ConsumerRow :
              /\ r = with("completed") /\ r.pc = "settle" /\ r.outcome = "completed"
              /\ r.run = q.run /\ r.intent = i /\ r.gen = g
      BY <1>3
    <3>3. \E j \in Intents : intent'[j].status # "none" /\ intent'[j].run = r.run
      BY <1>0, <3>2 DEF Sound
    <3>4. Sound(r)'
      BY <1>0, <1>1, <3>1, <3>2, <3>3 DEF Sound
    <3> QED
      BY <2>5, <3>1, <3>2, <3>4 DEF Turned
  <2> QED
    BY <1>5, <2>1, <2>2, <2>3, <2>4, <2>5
<1>9. consumer' \in [Consumers -> ConsumerRow] /\ ConsumersAreSound'
  BY <1>8, ConsumerStep DEF Kept
<1>10. QED
  BY <1>0, <1>8, <1>9, TypeRows, TypeRowsNext DEF WakeInv, Kept

\* The result is written once, into a hand-off that is open.
LEMMA FinishStep ==
    ASSUME WakeConstants, WakeInv, NEW c \in Consumers, Finish(c)
    PROVE  WakeInv'
<1> DEFINE q == consumer[c]
           i == q.intent
           g == q.gen
           row == [handoff[i][g] EXCEPT !.status = q.outcome]
           next == [q EXCEPT !.pc = "settle"]
<1>0. /\ UNCHANGED <<now, run, intent, lease, consumption, faults>>
      /\ execution \in [Runs -> Consumers \cup {Nobody, Other}]
      /\ handoff \in [Intents -> [Generations -> HandoffRow]]
      /\ q \in ConsumerRow /\ Sound(q) /\ q.pc = "finish"
      /\ consumer \in [Consumers -> ConsumerRow]
  BY TypeRows DEF WakeInv, Finish, ConsumersAreSound
<1>1. i \in Intents /\ g \in Generations /\ q.outcome \in {"completed", "failed"}
  BY <1>0 DEF Sound
<1>2. execution' \in [Runs -> Consumers \cup {Nobody, Other}]
  BY <1>0 DEF Finish, Release
<1>3. row \in HandoffRow /\ row.status = q.outcome
  <2>1. handoff[i][g] \in HandoffRow
    BY <1>0, <1>1
  <2> HIDE DEF i, g
  <2>2. q.outcome \in HandoffStatuses
    BY <1>1 DEF HandoffStatuses
  <2> QED
    BY <2>1, <2>2 DEF HandoffRow
<1>4. /\ next.pc = "settle" /\ next.outcome = q.outcome /\ next.run = q.run
      /\ next.intent = i /\ next.gen = g
  BY <1>0 DEF ConsumerRow
<1>5. next \in ConsumerRow
  BY <1>0, ConsumerRows DEF Places
<1>6. \/ /\ handoff[i][g].status = "open"
         /\ handoff' = [handoff EXCEPT ![i][g] = row]
         /\ consumer' = [consumer EXCEPT ![c] = next]
      \/ UNCHANGED handoff /\ consumer' = [consumer EXCEPT ![c] = Idle]
  BY <1>0 DEF Finish, Goes, LeavesPending, Stops
<1> HIDE DEF row, next
<1> DEFINE Turned == \E r \in ConsumerRow :
                         consumer' = [consumer EXCEPT ![c] = r] /\ Sound(r)'
<1>7. Kept /\ Turned
  <2>1. CASE UNCHANGED handoff /\ consumer' = [consumer EXCEPT ![c] = Idle]
    <3>1. Kept
      BY <1>0, <2>1, LedgersStay DEF Kept
    <3>2. Idle \in ConsumerRow /\ Sound(Idle)'
      <4>1. PICK r : r = Idle
        OBVIOUS
      <4>2. Sound(r)'
        BY <3>1, <4>1, IdleRow, SoundStays DEF Kept
      <4> QED
        BY <4>1, <4>2, IdleRow DEF Sound
    <3> QED
      BY <2>1, <3>1, <3>2
  <2>2. CASE /\ handoff[i][g].status = "open"
             /\ handoff' = [handoff EXCEPT ![i][g] = row]
             /\ consumer' = [consumer EXCEPT ![c] = next]
    <3> HIDE DEF i, g
    <3>1. Kept
      BY <1>0, <1>1, <1>3, <2>2, HandoffStep DEF Kept
    <3>2. handoff'[i][g].status = q.outcome
      BY <1>0, <1>1, <1>3, <2>2
    <3>3. PICK r \in ConsumerRow :
              /\ r = next /\ r.pc = "settle" /\ r.outcome = q.outcome
              /\ r.run = q.run /\ r.intent = i /\ r.gen = g
      BY <1>4, <1>5
    <3>4. q.run \in Runs /\ \E j \in Intents : intent'[j].status # "none" /\ intent'[j].run = r.run
      BY <1>0, <3>3 DEF Sound
    <3>5. Sound(r)'
      BY <1>1, <3>2, <3>3, <3>4 DEF Sound
    <3> QED
      BY <2>2, <3>1, <3>3, <3>5
  <2> QED
    BY <1>6, <2>1, <2>2
<1>8. consumer' \in [Consumers -> ConsumerRow] /\ ConsumersAreSound'
  BY <1>7, ConsumerStep DEF Kept
<1>9. QED
  BY <1>0, <1>2, <1>7, <1>8, TypeRows, TypeRowsNext DEF WakeInv, Kept

\* The generation settles with what the ledger says, and a completed one ends its intent.
LEMMA SettleStep ==
    ASSUME WakeConstants, WakeInv, NEW c \in Consumers, Settle(c)
    PROVE  WakeInv'
<1> DEFINE q == consumer[c]
           i == q.intent
           g == q.gen
           row == IF MayRetry(i, c) THEN Queued(i, now + Backoff(intent[i].attempts))
                  ELSE Exhausted(i)
<1>0. /\ UNCHANGED <<now, run, execution, handoff, faults>>
      /\ consumer' = [consumer EXCEPT ![c] = Idle]
      /\ intent \in [Intents -> IntentRow] /\ lease \in [Intents -> LeaseRow]
      /\ consumption \in [Intents -> [Generations -> ConsumptionStatuses]]
      /\ handoff \in [Intents -> [Generations -> HandoffRow]]
      /\ q \in ConsumerRow /\ Sound(q) /\ q.pc = "settle" /\ now \in Nat
      /\ consumer \in [Consumers -> ConsumerRow]
  BY TypeRows, Numbers DEF WakeInv, Settle, ConsumersAreSound, Stops, Moments
<1>1. /\ i \in Intents /\ g \in Generations
      /\ q.outcome \in {"completed", "failed", "refused"}
      /\ q.outcome # "refused" => handoff[i][g].status = q.outcome
  BY <1>0 DEF Sound
<1>2. Kept
  <2>1. CASE UNCHANGED <<consumption, intent, lease>>
    BY <1>0, <2>1, LedgersStay DEF Kept
  <2>2. CASE /\ MaySettle(i, g)
             /\ consumption' = [consumption EXCEPT ![i][g] = q.outcome]
             /\ intent' = [intent EXCEPT ![i] = row]
             /\ lease' = [lease EXCEPT ![i] = Ended(i)]
    <3>1. /\ intent[i] \in IntentRow /\ lease[i] \in LeaseRow
          /\ intent[i].status = "leased" /\ intent[i].attempts = g
      BY <1>0, <1>1, <2>2 DEF MaySettle
    <3>2. Backoff(intent[i].attempts) \in Nat
      BY <1>1, <3>1, BackoffType
    <3>3. Ended(i) \in LeaseRow
      BY <3>1 DEF Ended, LeaseRow
    <3>4. /\ row \in IntentRow /\ row.status \in {"queued", "exhausted"}
          /\ row.run = intent[i].run /\ row.attempts = g
          /\ q.outcome = "completed" => row.status = "exhausted"
      <4> DEFINE at == now + Backoff(intent[i].attempts)
      <4>1. at \in Nat
        BY <1>0, <3>2
      <4> HIDE DEF at, i, g, q
      <4>2. /\ Queued(i, at) \in IntentRow /\ Queued(i, at).status = "queued"
            /\ Queued(i, at).run = intent[i].run /\ Queued(i, at).attempts = g
        BY <3>1, <4>1 DEF Queued, IntentRow, Statuses
      <4>3. /\ Exhausted(i) \in IntentRow /\ Exhausted(i).status = "exhausted"
            /\ Exhausted(i).run = intent[i].run /\ Exhausted(i).attempts = g
        BY <3>1 DEF Exhausted, IntentRow, Statuses
      <4>4. q.outcome = "completed" => ~MayRetry(i, c)
        BY DEF MayRetry, q
      <4> QED
        BY <4>2, <4>3, <4>4 DEF at
    <3>5. /\ \A h \in Generations : h # g => consumption[i][h] # "prepared"
          /\ \A h \in Generations : consumption[i][h] # "completed"
      BY <1>1, <3>1 DEF WakeInv, PreparedOwns, ResultsStay
    <3> DEFINE outcome == q.outcome
    <3>6. outcome \in {"completed", "failed", "refused"}
      BY <1>1
    <3> HIDE DEF row, i, g, outcome
    <3>7. /\ intent'[i] = row /\ \A j \in Intents : j # i => intent'[j] = intent[j]
          /\ \A j \in Intents : j # i => lease'[j] = lease[j]
          /\ intent' \in [Intents -> IntentRow] /\ lease' \in [Intents -> LeaseRow]
      BY <1>0, <1>1, <2>2, <3>3, <3>4
    <3>8. consumption' \in [Intents -> [Generations -> ConsumptionStatuses]]
      BY <1>0, <1>1, <2>2, <3>6 DEF ConsumptionStatuses, outcome
    <3>9. /\ consumption'[i][g] = outcome
          /\ \A j \in Intents, h \in Generations :
                 j # i \/ h # g => consumption'[j][h] = consumption[j][h]
      BY <1>0, <1>1, <2>2 DEF outcome
    <3>10. RowsMoveOn
      BY <1>0, <3>4, <3>7 DEF RowsMoveOn
    <3>11. IntentsAreNumbered'
      <4>1. \A j \in Intents : /\ intent'[j].status # "none" <=> intent[j].status # "none"
                               /\ intent'[j].run = intent[j].run
        BY <3>1, <3>4, <3>7
      <4>2. {j \in Intents : intent'[j].status # "none"} = {j \in Intents : intent[j].status # "none"}
        BY <4>1
      <4> QED
        BY <4>1, <4>2 DEF WakeInv, IntentsAreNumbered
    <3>12. PreparedOwns'
      BY <1>0, <3>5, <3>6, <3>7, <3>9 DEF WakeInv, PreparedOwns
    <3>13. ResultsStay'
      <4> DEFINE Durable(j, h) ==
              /\ consumption'[j][h] \in {"completed", "failed"} =>
                     handoff'[j][h].status = consumption'[j][h]
              /\ consumption'[j][h] = "completed" =>
                     intent'[j].status = "exhausted" /\ intent'[j].attempts = h
      <4>1. Durable(i, g)
        BY <1>0, <1>1, <3>4, <3>6, <3>7, <3>9 DEF outcome
      <4>2. ASSUME NEW h \in Generations, h # g PROVE Durable(i, h)
        BY <1>0, <1>1, <3>5, <3>9, <4>2 DEF WakeInv, ResultsStay
      <4>3. ASSUME NEW j \in Intents, NEW h \in Generations, j # i PROVE Durable(j, h)
        BY <1>0, <3>7, <3>9, <4>3 DEF WakeInv, ResultsStay
      <4>4. \A j \in Intents, h \in Generations : Durable(j, h)
        <5> HIDE DEF Durable
        <5> QED
          BY <4>1, <4>2, <4>3
      <4> QED
        BY <4>4 DEF ResultsStay
    <3>14. handoff' \in [Intents -> [Generations -> HandoffRow]]
      BY <1>0
    <3> QED
      BY <3>7, <3>8, <3>10, <3>11, <3>12, <3>13, <3>14 DEF Kept
  <2> QED
    BY <1>0, <2>1, <2>2 DEF Settle
<1>3. Idle \in ConsumerRow /\ Sound(Idle)'
  <2>1. PICK r : r = Idle
    OBVIOUS
  <2>2. Sound(r)'
    BY <1>2, <2>1, IdleRow, SoundStays DEF Kept
  <2> QED
    BY <2>1, <2>2, IdleRow DEF Sound
<1>4. consumer' \in [Consumers -> ConsumerRow] /\ ConsumersAreSound'
  BY <1>0, <1>2, <1>3, ConsumerStep DEF Kept
<1>5. QED
  BY <1>0, <1>2, <1>4, TypeRows, TypeRowsNext DEF WakeInv, Kept

(***************************************************************************)
(* Theorems.                                                               *)
(***************************************************************************)

LEMMA WakeInit == ASSUME WakeConstants, Init PROVE WakeInv
<1>1. TypeOK
  <2>1. \A r \in Runs : [status |-> "running", pending |-> {}, sent |-> 0] \in RunRow
    BY Numbers DEF RunRow
  <2>2. [status |-> "none", run |-> Nobody, attempts |-> 0, next |-> 0, deadline |-> 0,
         created |-> 0] \in IntentRow
    BY Numbers DEF IntentRow, Statuses
  <2>3. NoLease \in LeaseRow
    BY Numbers DEF NoLease, LeaseRow
  <2>4. NoHandoff \in HandoffRow
    BY DEF NoHandoff, HandoffRow, HandoffStatuses
  <2>5. now \in Moments /\ faults \in 0 .. MaxFaults
    BY Numbers DEF Init, Moments
  <2> QED
    BY <2>1, <2>2, <2>3, <2>4, <2>5, IdleRow, TypeRows DEF Init, ConsumptionStatuses
<1>2. IntentsAreNumbered
  <2>1. {j \in Intents : intent[j].status # "none"} = 1 .. 0
    BY DEF Init
  <2> QED
    BY <2>1, Numbers DEF Init, IntentsAreNumbered
<1>3. ConsumersAreSound
  BY IdleRow DEF Init, ConsumersAreSound
<1>4. PreparedOwns /\ ResultsStay
  BY DEF Init, PreparedOwns, ResultsStay
<1>5. QED
  BY <1>1, <1>2, <1>3, <1>4 DEF WakeInv

LEMMA WakeNext == ASSUME WakeConstants, WakeInv, [Next]_vars PROVE WakeInv'
<1>1. CASE UNCHANGED vars
  <2>1. UNCHANGED <<now, run, execution, intent, lease, consumption, handoff, consumer, faults>>
    BY <1>1 DEF vars
  <2> QED
    BY <2>1, LedgersStay, ConsumersStay, TypeRows, TypeRowsNext DEF WakeInv
<1>2. CASE Tick
  BY <1>2, EnvironmentStep DEF Tick
<1>3. ASSUME NEW c \in Consumers, Poll(c) \/ Command(c) \/ HandOffFails(c) \/ Crash(c)
      PROVE  WakeInv'
  BY <1>3, LookStep
<1>4. ASSUME NEW c \in Consumers, Consume(c) PROVE WakeInv'
  BY <1>4, LookStep, ClaimStep, PrepareStep, HandOffStep, ExecutionStep, FinishStep, SettleStep
     DEF Consume
<1>5. ASSUME NEW r \in Runs, Schedule(r) PROVE WakeInv'
  BY <1>5, ScheduleStep
<1>6. ASSUME NEW r \in Runs,
             \/ Submit(r) \/ PauseOrResume(r) \/ EndRun(r) \/ OtherExecution(r)
             \/ OtherExecutionEnds(r) \/ ExecutionLapses(r) \/ Stall(r)
      PROVE  WakeInv'
  <2>1. UNCHANGED <<intent, lease, consumption, handoff, consumer>>
    BY <1>6 DEF Submit, PauseOrResume, EndRun, OtherExecution, OtherExecutionEnds,
       ExecutionLapses, Stall
  <2> QED
    BY <1>6, <2>1, EnvironmentStep
<1>7. ASSUME NEW i \in Intents, Cancel(i) PROVE WakeInv'
  BY <1>7, CancelStep
<1>8. QED
  BY <1>1, <1>2, <1>3, <1>4, <1>5, <1>6, <1>7 DEF Next

LEMMA TablesAreWhole ==
    ASSUME TypeOK
    PROVE  DOMAIN consumption = Intents /\ \A i \in Intents : DOMAIN consumption[i] = Generations
<1>1. consumption \in [Intents -> [Generations -> ConsumptionStatuses]]
  BY TypeRows
<1>2. QED
  BY <1>1

\* The rows of the wake tables, and what consumers remember, keep their types, and no intent
\* is attempted more often than its budget allows.
THEOREM WakeTypeCorrect == ASSUME WakeConstants PROVE Spec => []TypeOK
<1>1. Init => WakeInv
  BY WakeInit
<1>2. WakeInv /\ [Next]_vars => WakeInv'
  BY WakeNext
<1>3. WakeInv => TypeOK
  BY DEF WakeInv
<1>4. QED
  BY <1>1, <1>2, <1>3, PTL DEF Spec

\* However consumers, operators, clocks and crashes interleave, a generation that was
\* prepared keeps its intent and its lease row until it settles: the reconciliation of
\* lapsed leases, the next claim and the operator's cancellation pass it by.
THEOREM PreparedIsAlwaysOwned == ASSUME WakeConstants PROVE Spec => []PreparedIsOwned
<1>1. Init => WakeInv
  BY WakeInit
<1>2. WakeInv /\ [Next]_vars => WakeInv'
  BY WakeNext
<1>3. WakeInv => PreparedIsOwned
  BY TablesAreWhole DEF WakeInv, PreparedOwns, PreparedIsOwned
<1>4. QED
  BY <1>1, <1>2, <1>3, PTL DEF Spec

\* The result of a generation is the result of its hand-off, whoever wrote either, and a
\* generation that completed is its intent's last.
THEOREM ResultsAreAlwaysDurable == ASSUME WakeConstants PROVE Spec => []ResultsAreDurable
<1>1. Init => WakeInv
  BY WakeInit
<1>2. WakeInv /\ [Next]_vars => WakeInv'
  BY WakeNext
<1>3. WakeInv => ResultsAreDurable
  BY TablesAreWhole DEF WakeInv, ResultsStay, ResultsAreDurable
<1>4. QED
  BY <1>1, <1>2, <1>3, PTL DEF Spec
=============================================================================
