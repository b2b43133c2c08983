------------------------- MODULE ScheduledJobsProofs -------------------------
(***************************************************************************)
(* Theorems about ScheduledJobs, for any number of workers and jobs, any   *)
(* schedule and policy, and clocks that are set back: a job has one open   *)
(* round, its next occurrence is a new one, its reports skip no event, and *)
(* an occurrence is executed no more often than its retry policy allows.   *)
(***************************************************************************)
EXTENDS ScheduledJobs, FiniteSetTheorems, NaturalsInduction, WellFoundedInduction, TLAPS

(***************************************************************************)
(* Rows.                                                                   *)
(***************************************************************************)

Moments == 0 .. MaxTime
MaybeTimes == Times \cup {None}
Events == 0 .. MaxEvents + 1
Rounds == 0 .. MaxRounds
ModelCalls == 0 .. MaxModelCalls
AttemptCount == 0 .. MaxAttempts
JobStatuses == {"active", "paused", "completed", "failed", "cancelled", "exhausted"}
RoundStatuses == {"none", "claimed", "retry_wait", "completed", "unchanged", "failed", "skipped"}
JobRow == [status : JobStatuses, wake : MaybeTimes, pending : MaybeTimes, rounds : Rounds,
           calls : ModelCalls, unchanged : Rounds, seen : Events, observed : BOOLEAN,
           gen : Nat, expires : MaybeTimes, updated : Times]
RoundRow == [status : RoundStatuses, ordinal : Rounds, attempt : AttemptCount, gen : Nat]
Places == {"idle", "claim", "observe", "check", "execute", "fail", "reread", "complete"}
WorkerRow == [pc : Places, at : Moments \cup {None}, job : Jobs \cup {None},
              occurrence : MaybeTimes, attempt : AttemptCount, gen : Nat, expires : MaybeTimes,
              from : Events, upTo : Events, changed : BOOLEAN, calls : ModelCalls,
              first : BOOLEAN, called : BOOLEAN, terminal : BOOLEAN]
SpecRow == [kind : Kinds, misfire : Misfires, mode : Modes]
\* The last event ends the Run.
TargetRow == {r \in [events : Events, terminal : BOOLEAN, authority : BOOLEAN] :
                r.terminal \/ r.events <= MaxEvents}

\* What TypeOK says, and of every field of what workers remember.
Types ==
    /\ now \in Moments
    /\ target \in TargetRow
    /\ spec \in [Jobs -> SpecRow]
    /\ job \in [Jobs -> JobRow]
    /\ round \in [Jobs -> [Times -> RoundRow]]
    /\ worker \in [Workers -> WorkerRow]
    /\ reported \in [Jobs -> SUBSET (1 .. MaxEvents + 1)]
    /\ runs \in [Jobs -> [Times -> Nat]]

\* A job and its rounds.  It has one open round at most, its pending one, claimed while it
\* has a lease; and the times of its rounds are behind what a clock that is set back may
\* still make of its next wake.
Sound(row, rows) ==
    LET Taken(t) == rows[t].status # "none"
    IN  /\ row.gen > 0 => /\ row.status = "active" /\ row.pending \in Times
                          /\ row.expires \in Times /\ row.pending < row.expires
        /\ row.gen = 0 => row.expires = None
        /\ row.status \in Terminal => row.pending = None /\ row.gen = 0
        /\ row.status = "active" => row.wake \in Times
        /\ row.unchanged <= row.rounds
        /\ row.status \notin Terminal =>
               /\ row.pending # None => row.rounds < MaxRounds
               /\ \A t \in Times : Taken(t) =>
                      /\ t <= row.updated
                      /\ \/ rows[t].ordinal <= row.rounds
                         \/ t = row.pending /\ rows[t].ordinal = row.rounds + 1
                      /\ row.pending # None => t <= row.pending
                      /\ row.pending = None /\ row.status = "active" => t < row.wake
               /\ row.pending # None /\ row.status = "active" => row.pending <= row.wake
               /\ \A t \in Times : rows[t].status \in Open <=> t = row.pending
        /\ \A t \in Times : rows[t].status = "claimed" <=> row.gen > 0 /\ t = row.pending
        /\ \A t \in Times : ~Taken(t) => rows[t].ordinal = 0 /\ rows[t].attempt = 0 /\ rows[t].gen = 0

\* What a worker remembers of a claim is of its round; and while the claim stands, nobody
\* has reported since.
WorkerIsSound(c) ==
    /\ c.pc # "idle" => c.at \in Moments
    /\ c.pc \notin {"idle", "claim"} =>
           /\ c.job \in Jobs /\ c.occurrence \in Times /\ c.occurrence <= c.at
           /\ c.gen > 0 /\ c.attempt > 0
           /\ \E t \in Times : c.gen <= round[c.job][t].gen
           /\ job[c.job].gen = c.gen => c.from = job[c.job].seen
    /\ c.pc \in {"check", "execute", "reread", "complete"} => c.from <= c.upTo

\* Of the attempts of an occurrence, these have been executed; what a worker is still to
\* execute is another attempt, and no one else's.
MayStillExecute(c, j, t) ==
    c.pc \in {"observe", "check", "execute"} /\ c.job = j /\ c.occurrence = t

Executed(j, t, S) ==
    /\ Cardinality(S) = runs[j][t]
    /\ \A w \in Workers : MayStillExecute(worker[w], j, t) =>
           worker[w].attempt \in (1 .. round[j][t].attempt) \ S
    /\ \A v, w \in Workers :
           MayStillExecute(worker[v], j, t) /\ MayStillExecute(worker[w], j, t)
               /\ worker[v].attempt = worker[w].attempt => v = w

RunsAreAttempts ==
    \A j \in Jobs : \A t \in Times : \E S \in SUBSET (1 .. round[j][t].attempt) : Executed(j, t, S)

\* NoEventIsSkipped, for what Types says the tables are.
EventsAreReported == \A j \in Jobs : reported[j] = 1 .. job[j].seen

\* Nobody remembers more events than the Run has had.
EventsHappened ==
    /\ \A j \in Jobs : job[j].seen <= target.events
    /\ \A w \in Workers : worker[w].from <= target.events /\ worker[w].upTo <= target.events

\* Inductive: what the properties rest on.
JobsInv ==
    /\ Types
    /\ \A j \in Jobs : Sound(job[j], round[j])
    /\ \A w \in Workers : WorkerIsSound(worker[w])
    /\ EventsHappened
    /\ EventsAreReported
    /\ RunsAreAttempts

LEMMA Numbers ==
    ASSUME JobConstants
    PROVE  /\ Interval \in Nat /\ Interval > 0 /\ Lease \in Nat /\ Lease > 0
           /\ InitialBackoff \in Nat /\ MaxBackoff \in Nat /\ IdleCap \in Nat
           /\ MaxRounds \in Nat /\ MaxRounds > 0 /\ MaxAttempts \in Nat /\ MaxAttempts > 0
           /\ PageSize \in Nat /\ Anchor \in Nat /\ Deadline \in Nat /\ MaxElapsed \in Nat
           /\ MaxModelCalls \in Nat /\ MaxTime \in Nat /\ MaxEvents \in Nat
           /\ Anchor < Deadline /\ Deadline <= MaxTime
           /\ Times \subseteq Nat /\ Moments \subseteq Times /\ Jobs \subseteq Nat
           /\ Moments \subseteq Nat /\ 0 \in Moments /\ Anchor \in Moments
           /\ None \notin Nat /\ None \notin Times /\ None \notin Jobs /\ None \in Int
  BY DEF JobConstants, Times, Moments, None

LEMMA TypesImplyTypeOK == ASSUME JobConstants, Types PROVE TypeOK
<1>1. /\ {"active", "paused"} \cup Terminal = JobStatuses
      /\ {"none"} \cup Open \cup Closed = RoundStatuses
  BY DEF Terminal, JobStatuses, Open, Closed, RoundStatuses
<1>2. \A w \in Workers : worker[w].pc \in Places
  BY DEF Types, WorkerRow
<1>3. /\ target \in TargetRow /\ spec \in [Jobs -> SpecRow] /\ job \in [Jobs -> JobRow]
      /\ round \in [Jobs -> [Times -> RoundRow]] /\ now \in Moments
      /\ \A j \in Jobs : reported[j] \subseteq 1 .. MaxEvents + 1
  BY DEF Types
<1>4. QED
  BY <1>1, <1>2, <1>3 DEF TypeOK, Moments, TargetRow, Events, SpecRow, JobRow, MaybeTimes, Rounds,
     ModelCalls, RoundRow, AttemptCount, Places

LEMMA OpenFits ==
    ASSUME JobConstants, Types, \A j \in Jobs : Sound(job[j], round[j])
    PROVE  OneOpenRound
<1>0. DOMAIN job = Jobs /\ \A j \in Jobs : DOMAIN round[j] = Times
  BY DEF Types
<1> SUFFICES ASSUME NEW j \in Jobs
             PROVE  LET Status(S) == {t \in Times : round[j][t].status \in S} IN
                    /\ job[j].status \notin Terminal =>
                          Status(Open) = IF job[j].pending = None THEN {} ELSE {job[j].pending}
                    /\ Status({"claimed"}) = IF job[j].gen > 0 THEN {job[j].pending} ELSE {}
  BY <1>0 DEF OneOpenRound
<1>1. job[j].pending \in MaybeTimes /\ job[j] \in JobRow
  BY DEF Types, JobRow
<1>2. Sound(job[j], round[j])
  OBVIOUS
<1>3. job[j].status \notin Terminal =>
          {t \in Times : round[j][t].status \in Open} =
              IF job[j].pending = None THEN {} ELSE {job[j].pending}
  BY <1>1, <1>2, Numbers DEF Sound, MaybeTimes
<1>4. {t \in Times : round[j][t].status \in {"claimed"}} =
          IF job[j].gen > 0 THEN {job[j].pending} ELSE {}
  BY <1>1, <1>2, Numbers DEF Sound, MaybeTimes
<1>5. QED
  BY <1>3, <1>4

(***************************************************************************)
(* Schedules and generations.                                              *)
(***************************************************************************)

\* Powers are numbers: those of two count the sets of so many.
LEMMA PowerType == ASSUME NEW n \in Nat PROVE 2 ^ n \in Nat
<1>1. IsFiniteSet(1 .. n) /\ Cardinality(1 .. n) = n
  BY FS_Interval
<1>2. IsFiniteSet(SUBSET (1 .. n)) /\ Cardinality(SUBSET (1 .. n)) = 2 ^ n
  BY <1>1, FS_SUBSET
<1> QED
  BY <1>2, FS_CardinalityType

LEMMA BackoffTypes ==
    ASSUME JobConstants
    PROVE  /\ \A a \in AttemptCount : a > 0 => RetryBackoff(a) \in Nat
           /\ \A u \in Nat : IdleBackoff(u) \in Nat
<1>1. ASSUME NEW a \in Nat, a > 0, NEW b \in Nat PROVE b * 2 ^ (a - 1) \in Nat
  <2>1. a - 1 \in Nat
    BY <1>1
  <2>2. 2 ^ (a - 1) \in Nat
    BY <2>1, PowerType
  <2> DEFINE power == 2 ^ (a - 1)
  <2> HIDE DEF power
  <2>3. power \in Nat => b * power \in Nat
    OBVIOUS
  <2> QED
    BY <2>2, <2>3 DEF power
<1>2. ASSUME NEW a \in AttemptCount, a > 0 PROVE RetryBackoff(a) \in Nat
  <2>1. a \in Nat
    BY Numbers DEF AttemptCount
  <2>2. InitialBackoff * 2 ^ (a - 1) \in Nat
    BY <1>1, <1>2, <2>1, Numbers
  <2> QED
    BY <2>2, Numbers DEF RetryBackoff, Least
<1>3. ASSUME NEW u \in Nat PROVE IdleBackoff(u) \in Nat
  <2>1. CASE u < 1 \/ Interval >= IdleCap
    BY <2>1, Numbers DEF IdleBackoff
  <2>2. CASE ~(u < 1 \/ Interval >= IdleCap)
    <3>1. u > 0
      BY <2>2
    <3>2. Interval * 2 ^ (u - 1) \in Nat
      BY <1>1, <3>1, Numbers
    <3> QED
      BY <2>2, <3>2, Numbers DEF IdleBackoff, Least
  <2> QED
    BY <2>1, <2>2
<1>4. QED
  BY <1>2, <1>3

\* Dividing leaves less than the divisor.
LEMMA Beyond ==
    ASSUME NEW d \in Nat, d > 0, NEW n \in Nat
    PROVE  n \div d \in Nat /\ d * (n \div d + 1) \in Nat /\ d * (n \div d + 1) > n
<1>1. n \div d \in Nat
  OBVIOUS
<1>2. d * (n \div d) + (n % d) = n /\ (n % d) < d
  OBVIOUS
<1>3. d * (n \div d + 1) = d * (n \div d) + d
  BY <1>1
<1>4. QED
  BY <1>1, <1>2, <1>3

LEMMA NextIsLater ==
    ASSUME JobConstants, NEW j \in Jobs, NEW t \in Moments
    PROVE  \/ NextOccurrence(j, t) = None /\ spec[j].kind = "once"
           \/ NextOccurrence(j, t) \in Nat /\ t < NextOccurrence(j, t)
<1>1. CASE t < Anchor
  BY <1>1, Numbers DEF NextOccurrence
<1>2. CASE ~(t < Anchor)
  <2>1. t - Anchor \in Nat
    BY <1>2, Numbers
  <2> DEFINE n == Interval * ((t - Anchor) \div Interval + 1)
  <2>2. n \in Nat /\ n > t - Anchor
    BY <2>1, Beyond, Numbers
  <2>3. NextOccurrence(j, t) = IF spec[j].kind = "once" THEN None ELSE Anchor + n
    BY <1>2 DEF NextOccurrence
  <2> HIDE DEF n
  <2>4. Anchor + n \in Nat /\ t < Anchor + n
    BY <2>2, Numbers
  <2> QED
    BY <2>3, <2>4
<1>3. QED
  BY <1>1, <1>2

\* A set of numbers that is bounded has a greatest element.
LEMMA GreatestExists ==
    ASSUME NEW S \in SUBSET Nat, S # {}, NEW b \in Nat, \A x \in S : x <= b
    PROVE  \E g \in S : \A h \in S : h <= g
<1> DEFINE R == OpToRel(<, Nat)
           T == {b - x : x \in S}
<1>1. IsWellFoundedOn(R, Nat)
  BY NatLessThanWellFounded
<1>2. \A x, y \in Nat : y < x => <<y, x>> \in R
  BY DEF OpToRel
<1> HIDE DEF R
<1>3. T \subseteq Nat /\ T # {}
  <2>1. \A x \in S : b - x \in Nat
    OBVIOUS
  <2>2. T \subseteq Nat
    BY <2>1
  <2>3. PICK y \in S : TRUE
    OBVIOUS
  <2>4. b - y \in T
    BY <2>3
  <2> QED
    BY <2>2, <2>4
<1>4. PICK x \in T : \A y \in T : ~(<<y, x>> \in R)
  BY <1>1, <1>3, WFMin
<1>5. PICK g \in S : x = b - g
  BY <1>4
<1>6. ASSUME NEW h \in S PROVE h <= g
  <2>1. b - h \in T /\ b - h \in Nat /\ b - g \in Nat
    BY <1>3, <1>5
  <2>2. ~(b - h < b - g)
    BY <1>2, <1>4, <1>5, <2>1
  <2>3. g \in Nat /\ h \in Nat
    OBVIOUS
  <2> QED
    BY <2>2, <2>3
<1>7. QED
  BY <1>6

\* The numbers of finitely many times are bounded.
LEMMA BoundExists ==
    ASSUME NEW f, NEW m \in Nat, \A t \in 0 .. m : f[t] \in Nat
    PROVE  \E b \in Nat : \A t \in 0 .. m : f[t] <= b
<1> DEFINE R == OpToRel(<, Nat)
           Bounded(n) == \E b \in Nat : \A t \in 0 .. n : t <= m => f[t] <= b
           T == {n \in Nat : ~Bounded(n)}
<1>1. IsWellFoundedOn(R, Nat)
  BY NatLessThanWellFounded
<1>2. \A x, y \in Nat : y < x => <<y, x>> \in R
  BY DEF OpToRel
<1> HIDE DEF R
<1>3. Bounded(0)
  <2>1. f[0] \in Nat
    OBVIOUS
  <2>2. \A t \in 0 .. 0 : f[t] <= f[0]
    BY <2>1
  <2> QED
    BY <2>1, <2>2
<1>4. ASSUME NEW n \in Nat, Bounded(n) PROVE Bounded(n + 1)
  <2>1. PICK b \in Nat : \A t \in 0 .. n : t <= m => f[t] <= b
    BY <1>4
  <2>2. CASE n + 1 <= m
    <3>1. f[n + 1] \in Nat
      BY <2>2
    <3>2. PICK c \in Nat : b <= c /\ f[n + 1] <= c
      BY <3>1
    <3>3. \A t \in 0 .. n + 1 : t <= m => f[t] <= c
      <4> SUFFICES ASSUME NEW t \in 0 .. n + 1, t <= m PROVE f[t] <= c
        OBVIOUS
      <4>1. CASE t = n + 1
        BY <3>2, <4>1
      <4>2. CASE t # n + 1
        <5>1. t \in 0 .. n /\ f[t] \in Nat
          BY <4>2
        <5>2. f[t] <= b
          BY <2>1, <5>1
        <5> QED
          BY <3>2, <5>1, <5>2
      <4> QED
        BY <4>1, <4>2
    <3> QED
      BY <3>3
  <2>3. CASE ~(n + 1 <= m)
    <3>1. \A t \in 0 .. n + 1 : t <= m => t \in 0 .. n
      BY <2>3
    <3> QED
      BY <2>1, <3>1
  <2> QED
    BY <2>2, <2>3
<1>5. Bounded(m)
  <2> HIDE DEF Bounded
  <2> SUFFICES ASSUME ~Bounded(m) PROVE FALSE
    OBVIOUS
  <2>1. T \subseteq Nat /\ T # {}
    OBVIOUS
  <2>2. PICK x \in T : \A y \in T : ~(<<y, x>> \in R)
    BY <1>1, <2>1, WFMin
  <2>3. x # 0 /\ x \in Nat
    BY <1>3, <2>2
  <2>4. x - 1 \in Nat /\ x - 1 < x /\ x - 1 + 1 = x
    BY <2>3
  <2>5. x - 1 \notin T
    BY <1>2, <2>2, <2>3, <2>4
  <2>6. Bounded(x - 1)
    BY <2>4, <2>5
  <2>7. Bounded(x - 1 + 1)
    BY <1>4, <2>4, <2>6
  <2> QED
    BY <2>2, <2>4, <2>7
<1>6. QED
  BY <1>5

\* The next generation of a job is greater than any that one of its rounds has had.
LEMMA GenerationIsNew ==
    ASSUME JobConstants, Types, NEW j \in Jobs
    PROVE  NextGeneration(j) \in Nat /\ \A t \in Times : round[j][t].gen < NextGeneration(j)
<1> DEFINE gens == [t \in Times |-> round[j][t].gen]
           used == {round[j][t].gen : t \in Times}
<1>1. \A t \in Times : round[j][t].gen \in Nat
  BY DEF Types, RoundRow
<1>2. MaxTime + Lease \in Nat /\ Times = 0 .. MaxTime + Lease
  BY Numbers DEF Times
<1>3. \A t \in 0 .. MaxTime + Lease : gens[t] \in Nat
  BY <1>1, <1>2
<1> HIDE DEF gens
<1>4. PICK b \in Nat : \A t \in 0 .. MaxTime + Lease : gens[t] <= b
  BY <1>2, <1>3, BoundExists
<1>5. \A x \in used : x <= b
  BY <1>2, <1>4 DEF gens
<1>6. used \in SUBSET Nat /\ used # {}
  BY <1>1, Numbers
<1>7. \E g \in used : \A h \in used : h <= g
  BY <1>5, <1>6, GreatestExists
<1>8. HighWater(j) = CHOOSE g \in used : \A h \in used : h <= g
  BY DEF HighWater
<1>9. HighWater(j) \in used /\ \A h \in used : h <= HighWater(j)
  BY <1>7, <1>8
<1> DEFINE h == HighWater(j)
<1>10. h \in Nat /\ \A t \in Times : round[j][t].gen <= h
  BY <1>6, <1>9
<1>11. NextGeneration(j) = h + 1
  BY DEF NextGeneration
<1> HIDE DEF h
<1>12. h + 1 \in Nat /\ \A x \in Nat : x <= h => x < h + 1
  BY <1>10
<1>13. QED
  BY <1>1, <1>10, <1>11, <1>12

(***************************************************************************)
(* What transactions do to a job and its rounds.                           *)
(***************************************************************************)

\* A step of a job: its rows stay sound, and no claim of another generation comes to stand.
JobStep(row, rows, row2, rows2) ==
    /\ row2 \in JobRow /\ rows2 \in [Times -> RoundRow]
    /\ Sound(row2, rows2)
    /\ \A t \in Times : rows[t].gen <= rows2[t].gen /\ rows[t].attempt <= rows2[t].attempt
    /\ \/ row2.gen = 0
       \/ row2.gen = row.gen /\ row2.seen = row.seen
       \/ \A t \in Times : rows[t].gen < row2.gen

LEMMA NoStep ==
    ASSUME JobConstants, NEW row \in JobRow, NEW rows \in [Times -> RoundRow], Sound(row, rows)
    PROVE  JobStep(row, rows, row, rows)
<1>1. \A t \in Times : rows[t].gen \in Nat /\ rows[t].attempt \in Nat
  BY Numbers DEF RoundRow, AttemptCount
<1>2. QED
  BY <1>1 DEF JobStep

\* One of the rounds has another status.
LEMMA Turned ==
    ASSUME JobConstants, NEW rows \in [Times -> RoundRow], NEW o \in Times,
           NEW s \in RoundStatuses, NEW rows2, rows2 = [rows EXCEPT ![o].status = s]
    PROVE  /\ rows2 \in [Times -> RoundRow] /\ rows2[o].status = s
           /\ \A t \in Times : /\ t # o => rows2[t].status = rows[t].status
                               /\ rows2[t].ordinal = rows[t].ordinal
                               /\ rows2[t].attempt = rows[t].attempt
                               /\ rows2[t].gen = rows[t].gen
                               /\ rows[t].gen \in Nat /\ rows[t].attempt \in Nat
                               /\ rows[t].ordinal \in Nat
<1>1. [rows[o] EXCEPT !.status = s] \in RoundRow
  BY DEF RoundRow
<1>2. rows2 \in [Times -> RoundRow]
  BY <1>1
<1>3. /\ [rows[o] EXCEPT !.status = s].status = s
      /\ [rows[o] EXCEPT !.status = s].ordinal = rows[o].ordinal
      /\ [rows[o] EXCEPT !.status = s].attempt = rows[o].attempt
      /\ [rows[o] EXCEPT !.status = s].gen = rows[o].gen
  BY DEF RoundRow
<1>4. \A t \in Times : rows[t].gen \in Nat /\ rows[t].attempt \in Nat /\ rows[t].ordinal \in Nat
  BY Numbers DEF RoundRow, AttemptCount, Rounds
<1>5. rows2[o] = [rows[o] EXCEPT !.status = s] /\ \A t \in Times : t # o => rows2[t] = rows[t]
  OBVIOUS
<1>6. QED
  BY <1>2, <1>3, <1>4, <1>5

\* Numbers of a row.
LEMMA RowNumbers ==
    ASSUME JobConstants, NEW row \in JobRow
    PROVE  /\ row.rounds \in Nat /\ row.rounds <= MaxRounds /\ row.unchanged \in Nat
           /\ row.gen \in Nat /\ row.updated \in Nat /\ row.calls \in Nat
           /\ row.calls <= MaxModelCalls
           /\ row.wake \in Times \cup {None} /\ row.pending \in Times \cup {None}
           /\ row.expires \in Times \cup {None} /\ row.status \in JobStatuses
           /\ row.updated \in Times /\ row.seen \in Events
           /\ row.wake \in Int /\ row.pending \in Int /\ row.expires \in Int
  BY Numbers DEF JobRow, Rounds, ModelCalls, MaybeTimes

\* A job that ends gives up its claim.
LEMMA Ended ==
    ASSUME JobConstants, NEW row \in JobRow, NEW rows \in [Times -> RoundRow],
           NEW row2 \in JobRow, NEW rows2 \in [Times -> RoundRow],
           row2.status \in Terminal, row2.pending = None, row2.gen = 0, row2.expires = None,
           row2.unchanged <= row2.rounds,
           \A t \in Times : /\ rows2[t].status # "claimed"
                            /\ rows[t].gen <= rows2[t].gen /\ rows[t].attempt <= rows2[t].attempt
                            /\ rows2[t].status = "none" =>
                                  rows2[t].ordinal = 0 /\ rows2[t].attempt = 0 /\ rows2[t].gen = 0
    PROVE  JobStep(row, rows, row2, rows2)
<1>1. row2.status # "active"
  BY DEF Terminal
<1>2. QED
  BY <1>1 DEF JobStep, Sound

\* Somebody's claim of a round is taken away, or there is none.
RevokedOf(row, rows, s) ==
    IF row.gen = 0 \/ row.pending = None THEN rows ELSE [rows EXCEPT ![row.pending].status = s]

LEMMA RevokedRounds ==
    ASSUME JobConstants, NEW row \in JobRow, NEW rows \in [Times -> RoundRow], Sound(row, rows),
           NEW s \in {"failed", "retry_wait"}, NEW rows2, rows2 = RevokedOf(row, rows, s)
    PROVE  /\ rows2 \in [Times -> RoundRow]
           /\ \A t \in Times : /\ rows2[t].status # "claimed"
                               /\ \/ rows2[t].status = rows[t].status
                                  \/ t = row.pending /\ row.gen > 0 /\ rows2[t].status = s
                               /\ rows2[t].ordinal = rows[t].ordinal
                               /\ rows2[t].attempt = rows[t].attempt
                               /\ rows2[t].gen = rows[t].gen
                               /\ rows[t].gen \in Nat /\ rows[t].attempt \in Nat
                               /\ rows[t].ordinal \in Nat
<1>1. \A t \in Times : rows[t].gen \in Nat /\ rows[t].attempt \in Nat /\ rows[t].ordinal \in Nat
  BY Numbers DEF RoundRow, AttemptCount, Rounds
<1>2. \A t \in Times : rows[t].status = "claimed" <=> row.gen > 0 /\ t = row.pending
  BY DEF Sound
<1>3. CASE row.gen = 0 \/ row.pending = None
  BY <1>1, <1>2, <1>3, Numbers DEF RevokedOf
<1>4. CASE ~(row.gen = 0 \/ row.pending = None)
  <2>1. row.pending \in Times /\ row.gen > 0 /\ s \in RoundStatuses
    BY <1>4, RowNumbers DEF RoundStatuses
  <2>2. rows2 = [rows EXCEPT ![row.pending].status = s]
    BY <1>4 DEF RevokedOf
  <2> QED
    BY <1>1, <1>2, <2>1, <2>2, Turned
<1>5. QED
  BY <1>3, <1>4

LEMMA StopStep ==
    ASSUME JobConstants, NEW row \in JobRow, NEW rows \in [Times -> RoundRow], Sound(row, rows),
           NEW s \in Terminal, NEW t \in Moments,
           NEW row2, row2 = Stopped(row, s, t),
           NEW rows2, rows2 = RevokedOf(row, rows, "failed")
    PROVE  JobStep(row, rows, row2, rows2)
<1>1. row2 \in JobRow
  BY Numbers DEF Stopped, JobRow, Terminal, JobStatuses, MaybeTimes
<1>2. /\ row2.status = s /\ row2.pending = None /\ row2.gen = 0 /\ row2.expires = None
      /\ row2.unchanged = row.unchanged /\ row2.rounds = row.rounds
  BY DEF Stopped, JobRow
<1>3. PICK f \in {"failed", "retry_wait"} : f = "failed"
  OBVIOUS
<1>4. rows2 = RevokedOf(row, rows, f)
  BY <1>3
<1>5. /\ rows2 \in [Times -> RoundRow]
      /\ \A u \in Times : /\ rows2[u].status # "claimed"
                          /\ rows2[u].status = rows[u].status \/ rows2[u].status = f
                          /\ rows2[u].ordinal = rows[u].ordinal
                          /\ rows2[u].attempt = rows[u].attempt
                          /\ rows2[u].gen = rows[u].gen
                          /\ rows[u].gen \in Nat /\ rows[u].attempt \in Nat
  BY <1>4, RevokedRounds
<1>6. \A u \in Times : rows[u].status = "none" =>
          rows[u].ordinal = 0 /\ rows[u].attempt = 0 /\ rows[u].gen = 0
  BY DEF Sound
<1>7. row.unchanged <= row.rounds
  BY DEF Sound
<1>8. \A u \in Times : rows[u].gen <= rows2[u].gen /\ rows[u].attempt <= rows2[u].attempt
  BY <1>5
<1>9. \A u \in Times : rows2[u].status = "none" =>
          rows2[u].ordinal = 0 /\ rows2[u].attempt = 0 /\ rows2[u].gen = 0
  BY <1>3, <1>5, <1>6
<1>10. QED
  BY <1>1, <1>2, <1>5, <1>7, <1>8, <1>9, Ended

LEMMA PauseStep ==
    ASSUME JobConstants, NEW row \in JobRow, NEW rows \in [Times -> RoundRow], Sound(row, rows),
           row.status = "active", NEW t \in Moments, row.updated < t,
           NEW row2, row2 = [[row EXCEPT !.gen = 0, !.expires = None]
                               EXCEPT !.status = "paused", !.wake = None, !.updated = t],
           NEW rows2, rows2 = RevokedOf(row, rows, "retry_wait")
    PROVE  JobStep(row, rows, row2, rows2)
<1>1. row2 \in JobRow
  BY Numbers DEF JobRow, JobStatuses, MaybeTimes
<1>2. /\ row2.status = "paused" /\ row2.pending = row.pending /\ row2.gen = 0
      /\ row2.expires = None /\ row2.unchanged = row.unchanged /\ row2.rounds = row.rounds
      /\ row2.updated = t /\ row2.wake = None
  BY DEF JobRow
<1>3. PICK f \in {"failed", "retry_wait"} : f = "retry_wait"
  OBVIOUS
<1>4. rows2 = RevokedOf(row, rows, f)
  BY <1>3
<1>5. /\ rows2 \in [Times -> RoundRow]
      /\ \A u \in Times : /\ rows2[u].status # "claimed"
                          /\ \/ rows2[u].status = rows[u].status
                             \/ u = row.pending /\ row.gen > 0 /\ rows2[u].status = f
                          /\ rows2[u].ordinal = rows[u].ordinal
                          /\ rows2[u].attempt = rows[u].attempt
                          /\ rows2[u].gen = rows[u].gen
                          /\ rows[u].gen \in Nat /\ rows[u].attempt \in Nat
                          /\ rows[u].ordinal \in Nat
  BY <1>4, RevokedRounds
<1>6. row2.status \notin Terminal /\ row.status \notin Terminal
  BY <1>2 DEF Terminal
<1>7. \A u \in Times : rows2[u].status # "none" <=> rows[u].status # "none"
  BY <1>3, <1>5 DEF Sound
<1>8. \A u \in Times : rows2[u].status \in Open <=> u = row.pending
  BY <1>3, <1>5, <1>6 DEF Sound, Open
<1>9. \A u \in Times : u \in Nat
  BY Numbers
<1>10. Sound(row2, rows2)
  BY <1>1, <1>2, <1>5, <1>6, <1>7, <1>8, <1>9, RowNumbers, Numbers DEF Sound
<1>11. \A u \in Times : rows[u].gen <= rows2[u].gen /\ rows[u].attempt <= rows2[u].attempt
  BY <1>5
<1>12. QED
  BY <1>1, <1>2, <1>5, <1>10, <1>11 DEF JobStep

LEMMA ResumeStep ==
    ASSUME JobConstants, NEW row \in JobRow, NEW rows \in [Times -> RoundRow], Sound(row, rows),
           row.status = "paused", NEW t \in Moments, row.updated < t,
           NEW row2, row2 = [row EXCEPT !.status = "active", !.wake = t, !.updated = t]
    PROVE  JobStep(row, rows, row2, rows)
<1>1. row2 \in JobRow
  BY Numbers DEF JobRow, JobStatuses, MaybeTimes
<1>2. /\ row2.status = "active" /\ row2.pending = row.pending /\ row2.gen = row.gen
      /\ row2.expires = row.expires /\ row2.unchanged = row.unchanged /\ row2.rounds = row.rounds
      /\ row2.updated = t /\ row2.wake = t /\ row2.seen = row.seen
  BY DEF JobRow
<1>3. row2.status \notin Terminal /\ row.status \notin Terminal
  BY <1>2 DEF Terminal
<1>4. row.gen = 0
  BY RowNumbers DEF Sound
<1>5. \A u \in Times : u \in Nat
  BY Numbers
<1>6. t \in Times /\ t \in Nat /\ row.updated \in Nat
  BY RowNumbers, Numbers
<1>7. \A u \in Times : rows[u].status # "none" => u < t
  BY <1>3, <1>5, <1>6 DEF Sound
<1>8. row.pending # None => row.pending \in Times /\ row.pending < t
  <2> SUFFICES ASSUME row.pending # None PROVE row.pending \in Times /\ row.pending < t
    OBVIOUS
  <2>1. row.pending \in Times
    BY RowNumbers
  <2>2. rows[row.pending].status \in Open
    BY <1>3, <2>1 DEF Sound
  <2>3. rows[row.pending].status # "none"
    BY <2>2 DEF Open
  <2> QED
    BY <1>7, <2>1, <2>3
<1>9. Sound(row2, rows)
  BY <1>1, <1>2, <1>3, <1>4, <1>5, <1>6, <1>7, <1>8, RowNumbers, Numbers DEF Sound
<1>10. \A u \in Times : rows[u].gen \in Nat /\ rows[u].attempt \in Nat
  BY Numbers DEF RoundRow, AttemptCount
<1>11. QED
  BY <1>1, <1>2, <1>4, <1>9, <1>10 DEF JobStep

\* A claim that has expired is given up; the round waits for another.
LEMMA UnleaseStep ==
    ASSUME JobConstants, NEW row \in JobRow, NEW rows \in [Times -> RoundRow], Sound(row, rows),
           row.status = "active", row.gen > 0, NEW t \in Moments,
           row.pending \in Times, row.pending <= t, NEW wake \in Times, row.pending <= wake,
           NEW row2, row2 \in JobRow, row2.status = "active", row2.pending = row.pending,
           row2.gen = 0, row2.expires = None, row2.unchanged = row.unchanged,
           row2.rounds = row.rounds, row2.updated = t, row2.wake = wake,
           NEW rows2, rows2 = [rows EXCEPT ![row.pending].status = "retry_wait"]
    PROVE  JobStep(row, rows, row2, rows2)
<1> DEFINE o == row.pending
<1>1. PICK s \in RoundStatuses : s = "retry_wait"
  BY DEF RoundStatuses
<1>2. /\ rows2 \in [Times -> RoundRow] /\ rows2[o].status = s
      /\ \A u \in Times : /\ u # o => rows2[u].status = rows[u].status
                          /\ rows2[u].ordinal = rows[u].ordinal
                          /\ rows2[u].attempt = rows[u].attempt
                          /\ rows2[u].gen = rows[u].gen
                          /\ rows[u].gen \in Nat /\ rows[u].attempt \in Nat
                          /\ rows[u].ordinal \in Nat
  BY <1>1, Turned
<1>3. row2.status \notin Terminal /\ row.status \notin Terminal
  BY DEF Terminal
<1>4. rows[o].status \in Open
  BY <1>3 DEF Sound
<1>5. \A u \in Times : rows2[u].status # "none" <=> rows[u].status # "none"
  BY <1>1, <1>2, <1>4 DEF Open
<1>6. \A u \in Times : rows2[u].status \in Open <=> u = o
  BY <1>1, <1>2, <1>3 DEF Sound, Open
<1>7. \A u \in Times : rows2[u].status # "claimed"
  BY <1>1, <1>2 DEF Sound
<1>8. \A u \in Times : u \in Nat
  BY Numbers
<1>9. t \in Nat /\ o # None
  BY Numbers
<1>10. \A u \in Times : rows[u].status # "none" => u <= o
  BY <1>3, <1>9 DEF Sound
<1>11. \A u \in Times : rows[u].status # "none" => u <= t
  BY <1>8, <1>9, <1>10
<1>12. Sound(row2, rows2)
  BY <1>2, <1>3, <1>5, <1>6, <1>7, <1>8, <1>9, <1>10, <1>11, RowNumbers, Numbers DEF Sound
<1>13. \A u \in Times : rows[u].gen <= rows2[u].gen /\ rows[u].attempt <= rows2[u].attempt
  BY <1>2
<1>14. QED
  BY <1>2, <1>12, <1>13 DEF JobStep

\* A round is written anew, or over what it was.
LEMMA Written ==
    ASSUME JobConstants, NEW rows \in [Times -> RoundRow], NEW o \in Times,
           NEW r \in RoundRow, NEW rows2, rows2 = [rows EXCEPT ![o] = r]
    PROVE  /\ rows2 \in [Times -> RoundRow] /\ rows2[o] = r
           /\ \A t \in Times : /\ t # o => rows2[t] = rows[t]
                               /\ rows[t].gen \in Nat /\ rows[t].attempt \in Nat
                               /\ rows[t].ordinal \in Nat
<1>1. \A t \in Times : rows[t].gen \in Nat /\ rows[t].attempt \in Nat /\ rows[t].ordinal \in Nat
  BY Numbers DEF RoundRow, AttemptCount, Rounds
<1>2. QED
  BY <1>1

\* An occurrence is recorded as skipped.
LEMMA SkipStep ==
    ASSUME JobConstants, NEW row \in JobRow, NEW rows \in [Times -> RoundRow], Sound(row, rows),
           row.status = "active", row.pending = None, NEW t \in Moments, row.wake <= t,
           row.rounds < MaxRounds,
           NEW row2 \in JobRow, row2.pending = None, row2.gen = 0, row2.expires = None,
           row2.unchanged = row.unchanged, row2.rounds = row.rounds + 1, row2.updated = t,
           row2.status \in Terminal \/
               (row2.status = "active" /\ row2.wake \in Times /\ t < row2.wake),
           NEW rows2,
           rows2 = [rows EXCEPT ![row.wake] = [status |-> "skipped", ordinal |-> row.rounds + 1,
                                               attempt |-> 1, gen |-> 1]]
    PROVE  JobStep(row, rows, row2, rows2)
<1> DEFINE o == row.wake
<1>1. o \in Times /\ row.status \notin Terminal
  BY DEF Sound, Terminal
<1>2. row.rounds \in Nat /\ row.rounds + 1 \in Rounds /\ row.rounds + 1 \in Nat
  BY RowNumbers, Numbers DEF Rounds
<1>3. PICK r \in RoundRow : r = [status |-> "skipped", ordinal |-> row.rounds + 1,
                                 attempt |-> 1, gen |-> 1]
  BY <1>2, Numbers DEF RoundRow, RoundStatuses, AttemptCount
<1>4. /\ r.status = "skipped" /\ r.ordinal = row.rounds + 1 /\ r.attempt = 1 /\ r.gen = 1
  BY <1>3
<1>5. rows2 = [rows EXCEPT ![o] = r]
  BY <1>3
<1>6. /\ rows2 \in [Times -> RoundRow] /\ rows2[o] = r
      /\ \A u \in Times : /\ u # o => rows2[u] = rows[u]
                          /\ rows[u].gen \in Nat /\ rows[u].attempt \in Nat
                          /\ rows[u].ordinal \in Nat
  BY <1>1, <1>5, Written
<1>7. rows[o].status = "none"
  BY <1>1, Numbers DEF Sound
<1>8. rows[o].gen = 0 /\ rows[o].attempt = 0
  BY <1>1, <1>7 DEF Sound
<1>9. \A u \in Times : u \in Nat
  BY Numbers
<1>10. row.gen = 0
  BY RowNumbers, Numbers DEF Sound
<1>11. \A u \in Times : rows2[u].status # "claimed" /\ rows2[u].status \notin Open
  BY <1>1, <1>4, <1>6, Numbers DEF Sound, Open
<1>12. \A u \in Times : rows2[u].status = "none" =>
           rows2[u].ordinal = 0 /\ rows2[u].attempt = 0 /\ rows2[u].gen = 0
  BY <1>4, <1>6 DEF Sound
<1>13. \A u \in Times : rows[u].gen <= rows2[u].gen /\ rows[u].attempt <= rows2[u].attempt
  BY <1>4, <1>6, <1>8
<1>14. row.unchanged <= row.rounds /\ row2.unchanged <= row2.rounds
  BY <1>2, RowNumbers DEF Sound
<1>15. CASE row2.status \in Terminal
  BY <1>6, <1>11, <1>12, <1>13, <1>14, <1>15, Ended
<1>16. CASE row2.status \notin Terminal
  <2>1. row2.status = "active" /\ row2.wake \in Times /\ t < row2.wake
    BY <1>16
  <2>2. \A u \in Times : rows[u].status # "none" => u < o /\ rows[u].ordinal <= row.rounds
    BY <1>1, <1>9, Numbers DEF Sound
  <2>3. \A u \in Times : rows2[u].status # "none" => u <= t /\ rows2[u].ordinal <= row2.rounds
    BY <1>1, <1>2, <1>4, <1>6, <1>9, <2>2, Numbers
  <2>4. \A u \in Times : rows2[u].status # "none" => u < row2.wake
    BY <1>9, <2>1, <2>3, Numbers
  <2>5. \A u \in Times : u # None
    BY Numbers
  <2>6. Sound(row2, rows2)
    BY <1>11, <1>12, <1>14, <1>16, <2>1, <2>3, <2>4, <2>5 DEF Sound
  <2> QED
    BY <1>6, <1>13, <2>6 DEF JobStep
<1>17. QED
  BY <1>15, <1>16

\* A round is reported and closed.
LEMMA ReportStep ==
    ASSUME JobConstants, NEW row \in JobRow, NEW rows \in [Times -> RoundRow], Sound(row, rows),
           row.status = "active", row.gen > 0, NEW t \in Moments, row.pending <= t,
           NEW row2 \in JobRow, row2.pending = None, row2.gen = 0, row2.expires = None,
           row2.unchanged <= row2.rounds, row2.rounds = row.rounds + 1, row2.updated = t,
           row2.status \in Terminal \/
               (row2.status = "active" /\ row2.wake \in Times /\ t < row2.wake),
           NEW s \in Closed, NEW rows2, rows2 = [rows EXCEPT ![row.pending].status = s]
    PROVE  JobStep(row, rows, row2, rows2)
<1> DEFINE o == row.pending
<1>1. o \in Times /\ row.status \notin Terminal /\ o # None
  BY Numbers DEF Sound, Terminal
<1>2. s \in RoundStatuses /\ s # "none" /\ s # "claimed" /\ s \notin Open
  BY DEF Closed, RoundStatuses, Open
<1>3. /\ rows2 \in [Times -> RoundRow] /\ rows2[o].status = s
      /\ \A u \in Times : /\ u # o => rows2[u].status = rows[u].status
                          /\ rows2[u].ordinal = rows[u].ordinal
                          /\ rows2[u].attempt = rows[u].attempt
                          /\ rows2[u].gen = rows[u].gen
                          /\ rows[u].gen \in Nat /\ rows[u].attempt \in Nat
                          /\ rows[u].ordinal \in Nat
  BY <1>1, <1>2, Turned
<1>4. \A u \in Times : u \in Nat /\ u # None
  BY Numbers
<1>5. \A u \in Times : rows2[u].status # "claimed" /\ rows2[u].status \notin Open
  BY <1>1, <1>2, <1>3 DEF Sound
<1>6. \A u \in Times : rows2[u].status = "none" =>
          rows2[u].ordinal = 0 /\ rows2[u].attempt = 0 /\ rows2[u].gen = 0
  BY <1>2, <1>3 DEF Sound
<1>7. \A u \in Times : rows[u].gen <= rows2[u].gen /\ rows[u].attempt <= rows2[u].attempt
  BY <1>3
<1>8. CASE row2.status \in Terminal
  BY <1>3, <1>5, <1>6, <1>7, <1>8, Ended
<1>9. CASE row2.status \notin Terminal
  <2>1. row2.status = "active" /\ row2.wake \in Times /\ t < row2.wake
    BY <1>9
  <2>2. row.rounds \in Nat /\ t \in Nat
    BY RowNumbers, Numbers
  <2>3. rows[o].status # "none"
    BY <1>1 DEF Sound, Open
  <2>4. \A u \in Times : rows[u].status # "none" =>
            /\ u <= o
            /\ rows[u].ordinal <= row.rounds \/ rows[u].ordinal = row.rounds + 1
    BY <1>1, <1>4 DEF Sound
  <2>5. \A u \in Times : rows2[u].status # "none" => u <= t /\ rows2[u].ordinal <= row2.rounds
    BY <1>1, <1>3, <1>4, <2>2, <2>3, <2>4
  <2>6. \A u \in Times : rows2[u].status # "none" => u < row2.wake
    BY <1>4, <2>1, <2>2, <2>5
  <2>7. Sound(row2, rows2)
    BY <1>4, <1>5, <1>6, <1>9, <2>1, <2>5, <2>6 DEF Sound
  <2> QED
    BY <1>3, <1>7, <2>7 DEF JobStep
<1>10. QED
  BY <1>8, <1>9

\* A claimed job and its rounds.
ClaimFits(row, rows) ==
    /\ row.gen > 0 /\ row.gen # 0 /\ row.status = "active" /\ row.status \notin Terminal
    /\ row.pending \in Times /\ row.expires \in Times /\ row.pending < row.expires
    /\ row.wake \in Times /\ row.pending # None /\ row.rounds < MaxRounds
    /\ row.pending <= row.wake /\ row.unchanged <= row.rounds
    /\ \A u \in Times : rows[u].status # "none" =>
           /\ u <= row.updated /\ u <= row.pending
           /\ \/ rows[u].ordinal <= row.rounds
              \/ u = row.pending /\ rows[u].ordinal = row.rounds + 1
    /\ \A u \in Times : /\ rows[u].status \in Open <=> u = row.pending
                        /\ rows[u].status = "claimed" <=> row.gen > 0 /\ u = row.pending
    /\ \A u \in Times : rows[u].status = "none" =>
           rows[u].ordinal = 0 /\ rows[u].attempt = 0 /\ rows[u].gen = 0

LEMMA ClaimedFits ==
    ASSUME NEW row, NEW rows, ClaimFits(row, rows)
    PROVE  Sound(row, rows)
  BY DEF ClaimFits, Sound

\* A round is claimed: a new one, or one that waits for another attempt.
TakenRow(row, o, g, t) ==
    [row EXCEPT !.pending = o, !.gen = g, !.expires = t + Lease, !.updated = t]

TakenRounds(row, rows, o, g, a) ==
    [rows EXCEPT ![o] = [status |-> "claimed", attempt |-> a, gen |-> g,
                         ordinal |-> IF row.pending = None THEN row.rounds + 1 ELSE @.ordinal]]

MayTake(row, rows, t, o, g, a) ==
    /\ row \in JobRow /\ rows \in [Times -> RoundRow] /\ Sound(row, rows)
    /\ row.status = "active" /\ t \in Moments /\ row.wake <= t /\ row.rounds < MaxRounds
    /\ o \in Times /\ o = IF row.pending = None THEN row.wake ELSE row.pending
    /\ g \in Nat /\ \A u \in Times : rows[u].gen < g
    /\ a \in AttemptCount /\ a = IF row.pending = None THEN 1 ELSE rows[row.pending].attempt + 1

LEMMA TakeStep ==
    ASSUME JobConstants, NEW row, NEW rows, NEW t, NEW o, NEW g, NEW a,
           MayTake(row, rows, t, o, g, a),
           NEW row2, row2 = TakenRow(row, o, g, t),
           NEW rows2, rows2 = TakenRounds(row, rows, o, g, a)
    PROVE  /\ JobStep(row, rows, row2, rows2)
           /\ rows[o].attempt < a /\ rows2[o].attempt = a /\ rows2[o].gen = g /\ g > 0 /\ o <= t
<1> USE DEF MayTake
<1>1. row.status \notin Terminal /\ row.wake \in Times
  BY DEF Sound, Terminal
<1>2. row.rounds \in Nat /\ row.rounds + 1 \in Rounds /\ row.rounds + 1 \in Nat /\ t \in Nat
  BY RowNumbers, Numbers DEF Rounds
<1> DEFINE e == t + Lease
<1>3. e \in Times /\ t < e
  <2>1. t \in Nat /\ t <= MaxTime /\ MaxTime \in Nat /\ Lease \in Nat /\ Lease > 0
    BY Numbers DEF Moments
  <2>2. t + Lease \in 0 .. MaxTime + Lease /\ t < t + Lease
    BY <2>1
  <2> QED
    BY <2>2 DEF Times
<1>4. row2 = [row EXCEPT !.pending = o, !.gen = g, !.expires = e, !.updated = t]
  BY DEF TakenRow
<1> HIDE DEF e
<1>5. t \in Times
  BY Numbers
<1>6. row2 \in JobRow
  BY <1>3, <1>4, <1>5 DEF JobRow, MaybeTimes
<1>7. /\ row2.status = "active" /\ row2.pending = o /\ row2.gen = g /\ row2.expires = e
      /\ row2.unchanged = row.unchanged /\ row2.rounds = row.rounds
      /\ row2.updated = t /\ row2.wake = row.wake
  BY <1>4 DEF JobRow
<1> DEFINE n == IF row.pending = None THEN row.rounds + 1 ELSE rows[o].ordinal
<1>8. n \in Rounds
  BY <1>2 DEF RoundRow
<1>9. PICK r \in RoundRow : r = [status |-> "claimed", attempt |-> a, gen |-> g, ordinal |-> n]
  BY <1>8 DEF RoundRow, RoundStatuses
<1>10. r.status = "claimed" /\ r.attempt = a /\ r.gen = g /\ r.ordinal = n
  BY <1>9
<1>11. rows2 = [rows EXCEPT ![o] = r]
  BY <1>9 DEF TakenRounds
<1> HIDE DEF n
<1>12. /\ rows2 \in [Times -> RoundRow] /\ rows2[o] = r
       /\ \A u \in Times : /\ u # o => rows2[u] = rows[u]
                           /\ rows[u].gen \in Nat /\ rows[u].attempt \in Nat
                           /\ rows[u].ordinal \in Nat
  BY <1>11, Written
<1>13. \A u \in Times : u \in Nat /\ u # None
  BY Numbers
<1>14. /\ o <= row.wake /\ rows[o].attempt < a
       /\ n <= row.rounds \/ n = row.rounds + 1
       /\ \A u \in Times : u # o =>
             /\ rows[u].status # "none" => u <= o /\ rows[u].ordinal <= row.rounds
             /\ rows[u].status \notin Open /\ rows[u].status # "claimed"
  <2>1. CASE row.pending = None
    <3>1. o = row.wake /\ a = 1 /\ n = row.rounds + 1
      BY <2>1 DEF n
    <3>2. \A u \in Times : rows[u].status # "none" => u < o /\ rows[u].ordinal <= row.rounds
      BY <1>1, <1>13, <2>1, <3>1, Numbers DEF Sound
    <3>3. rows[o].status = "none"
      BY <1>13, <3>2
    <3>4. rows[o].attempt = 0
      BY <3>3 DEF Sound
    <3>5. \A u \in Times : rows[u].status \notin Open /\ rows[u].status # "claimed"
      BY <1>1, <1>13, <2>1 DEF Sound
    <3> QED
      BY <1>13, <3>1, <3>2, <3>4, <3>5
  <2>2. CASE row.pending # None
    <3>1. o = row.pending /\ a = rows[o].attempt + 1 /\ n = rows[o].ordinal
      BY <2>2 DEF n
    <3>2. o <= row.wake
      BY <1>1, <2>2, <3>1 DEF Sound
    <3>3. n <= row.rounds \/ n = row.rounds + 1
      BY <1>1, <2>2, <3>1 DEF Sound, Open
    <3>4. \A u \in Times : u # o =>
             /\ rows[u].status # "none" => u <= o /\ rows[u].ordinal <= row.rounds
             /\ rows[u].status \notin Open /\ rows[u].status # "claimed"
      BY <1>1, <2>2, <3>1 DEF Sound
    <3>5. rows[o].attempt < a
      BY <1>12, <3>1
    <3> QED
      BY <3>2, <3>3, <3>4, <3>5
  <2> QED
    BY <2>1, <2>2
<1>15. a \in Nat /\ n \in Nat /\ o <= t /\ o < e
  <2>1. o \in Nat /\ row.wake \in Nat /\ e \in Nat
    BY <1>1, <1>13, <1>3
  <2>2. a \in Nat /\ n \in Nat
    BY <1>8, Numbers DEF AttemptCount, Rounds
  <2> QED
    BY <1>2, <1>14, <1>3, <2>1, <2>2
<1>16. g > 0
  BY <1>12
<1>17. \A u \in Times : rows2[u].status # "none" =>
          /\ u <= t /\ u <= o
          /\ rows2[u].ordinal <= row.rounds \/ (u = o /\ rows2[u].ordinal = row.rounds + 1)
  BY <1>2, <1>10, <1>12, <1>13, <1>14, <1>15
<1>18. \A u \in Times : /\ rows2[u].status \in Open <=> u = o
                        /\ rows2[u].status = "claimed" <=> u = o
  BY <1>10, <1>12, <1>14 DEF Open
<1>19. \A u \in Times : rows2[u].status = "none" =>
          rows2[u].ordinal = 0 /\ rows2[u].attempt = 0 /\ rows2[u].gen = 0
  BY <1>10, <1>12 DEF Sound
<1>20. row.unchanged <= row.rounds
  BY DEF Sound
<1>21. row2.status \notin Terminal
  BY <1>1, <1>7
<1>22. Sound(row2, rows2)
  <2>1. /\ row2.gen > 0 /\ row2.gen # 0 /\ row2.status = "active" /\ row2.pending \in Times
        /\ row2.expires \in Times /\ row2.pending < row2.expires /\ row2.wake \in Times
        /\ row2.pending # None /\ row2.rounds < MaxRounds /\ row2.pending <= row2.wake
        /\ row2.unchanged <= row2.rounds /\ row2.updated = t
    BY <1>1, <1>3, <1>7, <1>13, <1>14, <1>15, <1>16, <1>20
  <2>2. \A u \in Times : rows2[u].status # "none" =>
            /\ u <= row2.updated /\ u <= row2.pending
            /\ \/ rows2[u].ordinal <= row2.rounds
               \/ u = row2.pending /\ rows2[u].ordinal = row2.rounds + 1
    BY <1>7, <1>17
  <2>3. \A u \in Times : /\ rows2[u].status \in Open <=> u = row2.pending
                         /\ rows2[u].status = "claimed" <=> row2.gen > 0 /\ u = row2.pending
    BY <1>7, <1>16, <1>18
  <2> QED
    <3>1. ClaimFits(row2, rows2)
      BY <1>19, <1>21, <2>1, <2>2, <2>3 DEF ClaimFits
    <3> QED
      BY <3>1, ClaimedFits
<1>23. \A u \in Times : rows[u].gen <= rows2[u].gen /\ rows[u].attempt <= rows2[u].attempt
  BY <1>10, <1>12, <1>14, <1>15
<1>24. QED
  BY <1>6, <1>7, <1>10, <1>12, <1>14, <1>15, <1>16, <1>22, <1>23 DEF JobStep

(***************************************************************************)
(* Steps of all jobs, and what workers remember.                           *)
(***************************************************************************)

\* Every job makes a step that is sound.
JobsStep ==
    /\ job' \in [Jobs -> JobRow] /\ round' \in [Jobs -> [Times -> RoundRow]]
    /\ \A k \in Jobs : JobStep(job[k], round[k], job'[k], round'[k])

WorkersAreSound == \A w \in Workers : WorkerIsSound(worker[w])

LEMMA SameJobs ==
    ASSUME JobConstants, JobsInv, UNCHANGED <<job, round>>
    PROVE  JobsStep
<1>1. \A k \in Jobs : job[k] \in JobRow /\ round[k] \in [Times -> RoundRow] /\ Sound(job[k], round[k])
  BY DEF JobsInv, Types
<1>2. \A k \in Jobs : JobStep(job[k], round[k], job[k], round[k])
  BY <1>1, NoStep
<1>3. QED
  BY <1>2 DEF JobsStep, JobsInv, Types

LEMMA OneJob ==
    ASSUME JobConstants, JobsInv, NEW j \in Jobs, NEW row2, NEW rows2,
           JobStep(job[j], round[j], row2, rows2),
           job' = [job EXCEPT ![j] = row2], round' = [round EXCEPT ![j] = rows2]
    PROVE  JobsStep
<1>1. \A k \in Jobs : job[k] \in JobRow /\ round[k] \in [Times -> RoundRow] /\ Sound(job[k], round[k])
  BY DEF JobsInv, Types
<1>2. \A k \in Jobs : JobStep(job[k], round[k], job[k], round[k])
  BY <1>1, NoStep
<1>3. row2 \in JobRow /\ rows2 \in [Times -> RoundRow]
  BY DEF JobStep
<1>4. job \in [Jobs -> JobRow] /\ round \in [Jobs -> [Times -> RoundRow]]
  BY DEF JobsInv, Types
<1>5. QED
  BY <1>2, <1>3, <1>4 DEF JobsStep

\* What a worker remembers stays true of its round, whatever the jobs do.
LEMMA WorkerKeeps ==
    ASSUME JobConstants, Types, JobsStep, NEW c \in WorkerRow, WorkerIsSound(c)
    PROVE  WorkerIsSound(c)'
<1>1. CASE c.pc \in {"idle", "claim"}
  BY <1>1 DEF WorkerIsSound
<1>2. CASE c.pc \notin {"idle", "claim"}
  <2>1. /\ c.job \in Jobs /\ c.gen > 0 /\ c.gen \in Nat
        /\ job[c.job].gen = c.gen => c.from = job[c.job].seen
    BY <1>2 DEF WorkerIsSound, WorkerRow
  <2>2. PICK j \in Jobs : j = c.job
    BY <2>1
  <2>3. PICK t \in Times : c.gen <= round[j][t].gen
    BY <1>2, <2>2 DEF WorkerIsSound
  <2>4. /\ \A u \in Times : round[j][u].gen <= round'[j][u].gen
        /\ \/ job'[j].gen = 0
           \/ job'[j].gen = job[j].gen /\ job'[j].seen = job[j].seen
           \/ \A u \in Times : round[j][u].gen < job'[j].gen
    BY DEF JobsStep, JobStep
  <2>5. round[j][t].gen \in Nat /\ round'[j][t].gen \in Nat /\ job'[j].gen \in Nat
    BY DEF Types, RoundRow, JobsStep, JobRow
  <2>6. c.gen <= round'[j][t].gen
    BY <2>1, <2>3, <2>4, <2>5
  <2>7. job'[j].gen = c.gen => c.from = job'[j].seen
    BY <2>1, <2>2, <2>3, <2>4, <2>5
  <2>8. \E u \in Times : c.gen <= round'[c.job][u].gen
    BY <2>2, <2>6
  <2>9. job'[c.job].gen = c.gen => c.from = job'[c.job].seen
    BY <2>2, <2>7
  <2>10. /\ c.pc # "idle" => c.at \in Moments
         /\ c.occurrence \in Times /\ c.occurrence <= c.at /\ c.attempt > 0
         /\ c.pc \in {"check", "execute", "reread", "complete"} => c.from <= c.upTo
    BY <1>2 DEF WorkerIsSound
  <2> QED
    BY <2>1, <2>8, <2>9, <2>10 DEF WorkerIsSound
<1>3. QED
  BY <1>1, <1>2

LEMMA WorkersKeep ==
    ASSUME JobConstants, JobsInv, JobsStep
    PROVE  /\ UNCHANGED worker => WorkersAreSound'
           /\ \A w \in Workers : \A c \in WorkerRow :
                 WorkerIsSound(c)' /\ worker' = [worker EXCEPT ![w] = c] => WorkersAreSound'
<1>1. \A v \in Workers : worker[v] \in WorkerRow /\ WorkerIsSound(worker[v])
  BY DEF JobsInv, Types
<1>2. Types
  BY DEF JobsInv
<1>3. \A c \in WorkerRow : WorkerIsSound(c) => WorkerIsSound(c)'
  BY <1>2, WorkerKeeps
<1>4. ASSUME NEW v \in Workers, worker'[v] = worker[v] PROVE WorkerIsSound(worker[v])'
  <2>1. PICK c \in WorkerRow : c = worker[v]
    BY <1>1
  <2>2. WorkerIsSound(c)' /\ c = worker'[v]
    BY <1>1, <1>3, <1>4, <2>1
  <2> QED
    BY <2>2 DEF WorkerIsSound
<1>5. UNCHANGED worker => WorkersAreSound'
  BY <1>4 DEF WorkersAreSound
<1>6. ASSUME NEW w \in Workers, NEW c \in WorkerRow, WorkerIsSound(c)',
             worker' = [worker EXCEPT ![w] = c]
      PROVE  WorkersAreSound'
  <2>1. worker'[w] = c /\ \A v \in Workers : v # w => worker'[v] = worker[v]
    BY <1>2, <1>6 DEF Types
  <2>2. WorkerIsSound(worker[w])'
    BY <1>6, <2>1 DEF WorkerIsSound
  <2> QED
    BY <1>4, <2>1, <2>2 DEF WorkersAreSound
<1>7. QED
  BY <1>5, <1>6

\* Nothing is executed and nobody begins to execute: the attempts stay what they were.
LEMMA RunsKeep ==
    ASSUME JobConstants, JobsInv, JobsStep, UNCHANGED runs,
           \A w \in Workers : worker'[w] = worker[w] \/ worker'[w].pc \notin {"observe", "check", "execute"}
               \/ (/\ worker[w].pc \in {"observe", "check", "execute"}
                   /\ worker'[w].job = worker[w].job /\ worker'[w].attempt = worker[w].attempt
                   /\ worker'[w].occurrence = worker[w].occurrence)
    PROVE  RunsAreAttempts'
<1> SUFFICES ASSUME NEW j \in Jobs, NEW t \in Times
             PROVE  \E S \in SUBSET (1 .. round'[j][t].attempt) : Executed(j, t, S)'
  BY DEF RunsAreAttempts
<1>1. PICK S \in SUBSET (1 .. round[j][t].attempt) : Executed(j, t, S)
  BY DEF JobsInv, RunsAreAttempts
<1>2. round[j][t].attempt <= round'[j][t].attempt
  BY DEF JobsStep, JobStep
<1>3. round[j][t].attempt \in Nat /\ round'[j][t].attempt \in Nat
  BY Numbers DEF JobsInv, Types, RoundRow, AttemptCount, JobsStep
<1>4. 1 .. round[j][t].attempt \subseteq 1 .. round'[j][t].attempt
  BY <1>2, <1>3
<1>5. \A w \in Workers : MayStillExecute(worker'[w], j, t) =>
          MayStillExecute(worker[w], j, t) /\ worker'[w].attempt = worker[w].attempt
  BY DEF MayStillExecute
<1>6. Executed(j, t, S)'
  BY <1>1, <1>4, <1>5 DEF Executed
<1>7. QED
  BY <1>1, <1>4, <1>6

\* What is remembered is of events that have happened.
LEMMA EventsKeep ==
    ASSUME JobConstants, JobsInv, target' \in TargetRow, target.events <= target'.events,
           job' \in [Jobs -> JobRow], worker' \in [Workers -> WorkerRow],
           \A k \in Jobs : job'[k].seen = job[k].seen \/ job'[k].seen <= target.events,
           \A w \in Workers :
               /\ worker'[w].from = worker[w].from \/ worker'[w].from <= target.events
               /\ worker'[w].upTo = worker[w].upTo \/ worker'[w].upTo <= target.events
    PROVE  EventsHappened'
<1>1. Events \subseteq Nat
  BY Numbers DEF Events
<1>2. target.events \in Nat /\ target'.events \in Nat
  BY <1>1 DEF JobsInv, Types, TargetRow
<1>3. \A k \in Jobs : job'[k].seen \in Nat /\ job'[k].seen <= target.events
  BY <1>1 DEF JobsInv, EventsHappened, JobRow
<1>4. \A w \in Workers : /\ worker'[w].from \in Nat /\ worker'[w].upTo \in Nat
                         /\ worker'[w].from <= target.events /\ worker'[w].upTo <= target.events
  BY <1>1 DEF JobsInv, EventsHappened, WorkerRow
<1>5. QED
  BY <1>2, <1>3, <1>4 DEF EventsHappened

LEMMA Composes ==
    ASSUME JobsInv, JobsStep, now' \in Moments, target' \in TargetRow, UNCHANGED spec,
           worker' \in [Workers -> WorkerRow],
           reported' \in [Jobs -> SUBSET (1 .. MaxEvents + 1)], runs' \in [Jobs -> [Times -> Nat]],
           WorkersAreSound', EventsHappened', EventsAreReported', RunsAreAttempts'
    PROVE  JobsInv'
<1>1. Types'
  BY DEF Types, JobsInv, JobsStep
<1>2. \A j \in Jobs : Sound(job'[j], round'[j])
  BY DEF JobsStep, JobStep
<1>3. QED
  BY <1>1, <1>2 DEF JobsInv, WorkersAreSound

(***************************************************************************)
(* Actions.                                                                *)
(***************************************************************************)

Executing == {"observe", "check", "execute"}

LEMMA IdleIsSound ==
    ASSUME JobConstants
    PROVE  /\ Idle \in WorkerRow /\ Idle.pc = "idle" /\ Idle.pc \notin Executing
           /\ WorkerIsSound(Idle) /\ WorkerIsSound(Idle)'
<1>1. Idle \in WorkerRow
  BY Numbers DEF Idle, WorkerRow, Places, MaybeTimes, AttemptCount, Events, ModelCalls
<1>2. Idle.pc = "idle"
  BY DEF Idle
<1>3. QED
  BY <1>1, <1>2 DEF WorkerIsSound, Executing

\* Seen stays, and so do the histories.
LEMMA HistoriesKeep ==
    ASSUME JobsInv, UNCHANGED reported, \A k \in Jobs : job'[k].seen = job[k].seen
    PROVE  EventsAreReported' /\ reported' \in [Jobs -> SUBSET (1 .. MaxEvents + 1)]
  BY DEF JobsInv, Types, EventsAreReported

\* Only a worker moves.
LEMMA WorkerMoves ==
    ASSUME JobConstants, JobsInv, NEW w \in Workers, NEW c \in WorkerRow, WorkerIsSound(c),
           worker' = [worker EXCEPT ![w] = c],
           c.pc \notin Executing \/
               (/\ worker[w].pc \in Executing /\ c.job = worker[w].job
                /\ c.attempt = worker[w].attempt /\ c.occurrence = worker[w].occurrence),
           c.from = worker[w].from \/ c.from <= target.events,
           c.upTo = worker[w].upTo \/ c.upTo <= target.events,
           UNCHANGED <<now, target, spec, job, round, reported, runs>>
    PROVE  JobsInv'
<1>1. JobsStep /\ Types
  BY SameJobs DEF JobsInv
<1>2. WorkerIsSound(c)'
  BY <1>1, WorkerKeeps
<1>3. WorkersAreSound'
  BY <1>1, <1>2, WorkersKeep
<1>4. worker'[w] = c /\ \A v \in Workers : v # w => worker'[v] = worker[v]
  BY <1>1 DEF Types
<1>5. RunsAreAttempts'
  BY <1>1, <1>4, RunsKeep DEF Executing
<1>6. EventsAreReported' /\ reported' \in [Jobs -> SUBSET (1 .. MaxEvents + 1)]
  BY HistoriesKeep
<1>7. worker' \in [Workers -> WorkerRow]
  BY <1>1 DEF Types
<1>8. /\ now' \in Moments /\ target' \in TargetRow /\ UNCHANGED spec
      /\ runs' \in [Jobs -> [Times -> Nat]]
  BY <1>1 DEF Types
<1>9. target.events <= target'.events
  BY <1>1, Numbers DEF Types, TargetRow, Events
<1>10. \A v \in Workers :
           /\ worker'[v].from = worker[v].from \/ worker'[v].from <= target.events
           /\ worker'[v].upTo = worker[v].upTo \/ worker'[v].upTo <= target.events
  BY <1>4
<1>11. EventsHappened'
  BY <1>1, <1>7, <1>8, <1>9, <1>10, EventsKeep DEF JobsStep
<1>12. QED
  BY <1>1, <1>3, <1>5, <1>6, <1>7, <1>8, <1>11, Composes

\* Nobody but the environment moves.
LEMMA EnvironmentMoves ==
    ASSUME JobConstants, JobsInv, now' \in Moments, target' \in TargetRow,
           target.events <= target'.events, UNCHANGED <<spec, job, round, worker, reported, runs>>
    PROVE  JobsInv'
<1>1. JobsStep /\ Types
  BY SameJobs DEF JobsInv
<1>2. WorkersAreSound'
  BY <1>1, WorkersKeep
<1>3. RunsAreAttempts'
  BY <1>1, RunsKeep
<1>4. EventsAreReported' /\ reported' \in [Jobs -> SUBSET (1 .. MaxEvents + 1)]
  BY HistoriesKeep
<1>5. worker' \in [Workers -> WorkerRow] /\ runs' \in [Jobs -> [Times -> Nat]]
  BY <1>1 DEF Types
<1>6. EventsHappened'
  BY <1>1, <1>5, EventsKeep DEF JobsStep
<1>7. QED
  BY <1>1, <1>2, <1>3, <1>4, <1>5, <1>6, Composes

LEMMA EnvironmentKeeps ==
    ASSUME JobConstants, JobsInv, Tick \/ ClockStepsBack \/ TargetEvent \/ AuthorityEnds
    PROVE  JobsInv'
<1>1. now \in Moments /\ target \in TargetRow /\ target.events \in Nat
  BY Numbers DEF JobsInv, Types, TargetRow, Events
<1>2. CASE Tick
  <2>1. now' \in Moments
    BY <1>1, <1>2, Numbers DEF Tick, Moments
  <2> QED
    BY <1>1, <1>2, <2>1, EnvironmentMoves DEF Tick
<1>3. CASE ClockStepsBack
  <2>1. now' \in Moments
    BY <1>1, <1>3, Numbers DEF ClockStepsBack, Moments
  <2> QED
    BY <1>1, <1>3, <2>1, EnvironmentMoves DEF ClockStepsBack
<1>4. CASE TargetEvent
  <2>1. PICK ends \in BOOLEAN :
            /\ ends \/ target.events < MaxEvents
            /\ target' = [target EXCEPT !.events = @ + 1, !.terminal = ends]
    BY <1>4 DEF TargetEvent
  <2>2. /\ target.events + 1 \in Events /\ (ends \/ target.events + 1 <= MaxEvents)
        /\ target \in [events : Events, terminal : BOOLEAN, authority : BOOLEAN]
    <3>1. target.terminal = FALSE
      BY <1>1, <1>4 DEF TargetEvent, TargetRow
    <3>2. target.events \in Events /\ target.events <= MaxEvents
      BY <1>1, <3>1 DEF TargetRow
    <3>3. target.events + 1 \in Events /\ (target.events < MaxEvents => target.events + 1 <= MaxEvents)
      BY <3>2, Numbers DEF Events
    <3> QED
      BY <1>1, <2>1, <3>3 DEF TargetRow
  <2>3. target' \in [events : Events, terminal : BOOLEAN, authority : BOOLEAN]
    BY <2>1, <2>2
  <2>4. /\ target'.events = target.events + 1 /\ target'.terminal = ends
        /\ target.events <= target.events + 1
    BY <1>1, <2>1, <2>2
  <2>5. target' \in TargetRow
    BY <2>2, <2>3, <2>4 DEF TargetRow
  <2> QED
    BY <1>1, <1>4, <2>4, <2>5, EnvironmentMoves DEF TargetEvent
<1>5. CASE AuthorityEnds
  <2>1. target' \in TargetRow
    BY <1>1, <1>5 DEF AuthorityEnds, TargetRow
  <2>2. target'.events = target.events
    BY <1>1, <1>5 DEF AuthorityEnds, TargetRow
  <2>3. target.events <= target.events
    BY <1>1
  <2> QED
    BY <1>1, <1>5, <2>1, <2>2, <2>3, EnvironmentMoves DEF AuthorityEnds
<1>6. QED
  BY <1>2, <1>3, <1>4, <1>5

LEMMA WorkerFields ==
    ASSUME JobConstants, NEW c \in WorkerRow, WorkerIsSound(c)
    PROVE  /\ c.pc \in Places /\ c.at \in Moments \cup {None} /\ c.job \in Jobs \cup {None}
           /\ c.occurrence \in MaybeTimes /\ c.attempt \in AttemptCount /\ c.gen \in Nat
           /\ c.from \in Events /\ c.upTo \in Events /\ c.expires \in MaybeTimes
           /\ c.from \in Nat /\ c.upTo \in Nat /\ c.attempt \in Nat
           /\ c.changed \in BOOLEAN /\ c.called \in BOOLEAN /\ c.terminal \in BOOLEAN
           /\ c.pc # "idle" => c.at \in Moments
           /\ c.pc \notin {"idle", "claim"} =>
                 /\ c.job \in Jobs /\ c.occurrence \in Times /\ c.occurrence <= c.at
                 /\ c.gen > 0 /\ c.attempt > 0
<1>1. Events \subseteq Nat /\ AttemptCount \subseteq Nat
  BY Numbers DEF Events, AttemptCount
<1>2. QED
  BY <1>1 DEF WorkerRow, WorkerIsSound

\* A worker goes to another place in the same round.
LEMMA GoesOn ==
    ASSUME JobConstants, NEW c \in WorkerRow, WorkerIsSound(c), c.pc \notin {"idle", "claim"},
           NEW d \in WorkerRow, d.at = c.at, d.job = c.job,
           d.occurrence = c.occurrence, d.attempt = c.attempt, d.gen = c.gen, d.from = c.from,
           d.pc \in {"check", "execute", "reread", "complete"} => d.from <= d.upTo
    PROVE  WorkerIsSound(d)
  BY DEF WorkerIsSound

LEMMA WorkerIs ==
    ASSUME JobConstants, JobsInv, NEW w \in Workers
    PROVE  /\ worker[w] \in WorkerRow /\ WorkerIsSound(worker[w])
           /\ worker[w].from <= target.events /\ worker[w].upTo <= target.events
           /\ target.events \in Events /\ target.events \in Nat
           /\ target.terminal \in BOOLEAN
<1>1. Events \subseteq Nat
  BY Numbers DEF Events
<1>2. QED
  BY <1>1 DEF JobsInv, Types, TargetRow, EventsHappened

LEMMA GoIdleKeeps ==
    ASSUME JobConstants, JobsInv, NEW w \in Workers, GoIdle(w),
           UNCHANGED <<now, target, spec, job, round, reported, runs>>
    PROVE  JobsInv'
<1>1. Idle.from <= target.events /\ Idle.upTo <= target.events
  BY WorkerIs DEF Idle
<1>2. worker' = [worker EXCEPT ![w] = Idle]
  BY DEF GoIdle
<1>3. QED
  BY <1>1, <1>2, IdleIsSound, WorkerMoves

LEMMA ObserveKeeps ==
    ASSUME JobConstants, JobsInv, NEW w \in Workers, Observe(w)
    PROVE  JobsInv'
<1> DEFINE upTo == Least(worker[w].from + PageSize, target.events)
           changed == worker[w].first \/ upTo > worker[w].from
           pc == IF changed /\ ~Executor /\ spec[worker[w].job].mode = "approved_repair"
                 THEN "fail"
                 ELSE IF changed /\ Executor /\ worker[w].calls < MaxModelCalls THEN "check"
                 ELSE "reread"
<1>1. worker[w].pc = "observe" /\ UNCHANGED <<now, target, spec, job, round, reported, runs>>
  BY DEF Observe
<1>2. worker' = [worker EXCEPT ![w] = [worker[w] EXCEPT !.pc = pc, !.upTo = upTo,
                                                       !.changed = changed]]
  BY DEF Observe
<1>3. /\ worker[w] \in WorkerRow /\ WorkerIsSound(worker[w])
      /\ worker[w].from <= target.events /\ target.events \in Events /\ target.events \in Nat
  BY WorkerIs
<1> HIDE DEF changed
<1>4. PICK p \in {"fail", "check", "reread"} : p = pc
  OBVIOUS
<1>5. PICK b \in BOOLEAN : b = changed
  BY <1>3 DEF changed, WorkerRow
<1> HIDE DEF pc
<1>6. worker[w].from \in Nat
  BY <1>3, WorkerFields
<1>7. upTo \in Events /\ worker[w].from <= upTo /\ upTo <= target.events
  BY <1>3, <1>6, Numbers DEF Least, Events
<1>8. PICK u \in Events : u = upTo
  BY <1>7
<1> HIDE DEF upTo
<1>9. PICK d : d = [worker[w] EXCEPT !.pc = p, !.upTo = u, !.changed = b]
  OBVIOUS
<1>10. d \in WorkerRow
  BY <1>3, <1>9 DEF WorkerRow, Places
<1>11. /\ d.pc = p /\ d.upTo = u /\ d.at = worker[w].at /\ d.job = worker[w].job
       /\ d.occurrence = worker[w].occurrence /\ d.attempt = worker[w].attempt
       /\ d.gen = worker[w].gen /\ d.from = worker[w].from
  BY <1>3, <1>9 DEF WorkerRow
<1>12. worker[w].pc \notin {"idle", "claim"} /\ worker[w].pc \in Executing
  BY <1>1 DEF Executing
<1>13. d.from <= d.upTo /\ d.upTo <= target.events
  BY <1>7, <1>8, <1>11
<1>14. WorkerIsSound(d)
  BY <1>3, <1>10, <1>11, <1>12, <1>13, GoesOn
<1>15. worker' = [worker EXCEPT ![w] = d]
  BY <1>2, <1>4, <1>5, <1>8, <1>9
<1>16. QED
  BY <1>1, <1>10, <1>11, <1>12, <1>13, <1>14, <1>15, WorkerMoves

\* A worker in a round goes to another place of it, and remembers no more than whether the
\* Run has ended.
LEMMA PlaceKeeps ==
    ASSUME JobConstants, JobsInv, NEW w \in Workers, NEW p \in Places, NEW d \in WorkerRow,
           d.pc = p, d.at = worker[w].at, d.job = worker[w].job,
           d.occurrence = worker[w].occurrence, d.attempt = worker[w].attempt,
           d.gen = worker[w].gen, d.from = worker[w].from, d.upTo = worker[w].upTo,
           worker[w].pc \notin {"idle", "claim"}, p \in Executing => worker[w].pc \in Executing,
           p \in {"check", "execute", "reread", "complete"} =>
               worker[w].pc \in {"check", "execute", "reread", "complete"},
           worker' = [worker EXCEPT ![w] = d],
           UNCHANGED <<now, target, spec, job, round, reported, runs>>
    PROVE  JobsInv'
<1>1. worker[w] \in WorkerRow /\ WorkerIsSound(worker[w])
  BY WorkerIs
<1>2. d.pc \in {"check", "execute", "reread", "complete"} => d.from <= d.upTo
  BY <1>1 DEF WorkerIsSound
<1>3. WorkerIsSound(d)
  BY <1>1, <1>2, GoesOn
<1>4. QED
  BY <1>3, WorkerMoves

LEMMA PcMoves ==
    ASSUME JobConstants, JobsInv, NEW w \in Workers, NEW p \in Places, Go(w, p)
    PROVE  \E d \in WorkerRow :
               /\ d.pc = p /\ d.at = worker[w].at /\ d.job = worker[w].job
               /\ d.occurrence = worker[w].occurrence /\ d.attempt = worker[w].attempt
               /\ d.gen = worker[w].gen /\ d.from = worker[w].from /\ d.upTo = worker[w].upTo
               /\ worker' = [worker EXCEPT ![w] = d]
<1>1. worker[w] \in WorkerRow
  BY WorkerIs
<1>2. PICK d : d = [worker[w] EXCEPT !.pc = p]
  OBVIOUS
<1>3. d \in WorkerRow
  BY <1>1, <1>2 DEF WorkerRow
<1>4. /\ d.pc = p /\ d.at = worker[w].at /\ d.job = worker[w].job
      /\ d.occurrence = worker[w].occurrence /\ d.attempt = worker[w].attempt
      /\ d.gen = worker[w].gen /\ d.from = worker[w].from /\ d.upTo = worker[w].upTo
  BY <1>1, <1>2 DEF WorkerRow
<1>5. worker' = [worker EXCEPT ![w] = d]
  BY <1>2 DEF Go
<1>6. QED
  BY <1>3, <1>4, <1>5

LEMMA PlacesKeep ==
    ASSUME JobConstants, JobsInv, NEW w \in Workers, ReadFails(w) \/ Check(w) \/ Reread(w)
    PROVE  JobsInv'
<1>1. CASE ReadFails(w)
  <2>1. PICK p \in Places : p = "fail"
    BY DEF Places
  <2>2. Go(w, p)
    BY <1>1, <2>1 DEF ReadFails
  <2>3. PICK d \in WorkerRow :
            /\ d.pc = p /\ d.at = worker[w].at /\ d.job = worker[w].job
            /\ d.occurrence = worker[w].occurrence /\ d.attempt = worker[w].attempt
            /\ d.gen = worker[w].gen /\ d.from = worker[w].from /\ d.upTo = worker[w].upTo
            /\ worker' = [worker EXCEPT ![w] = d]
    BY <2>2, PcMoves
  <2>4. p \notin Executing /\ p \notin {"check", "execute", "reread", "complete"}
    BY <2>1 DEF Executing
  <2>5. /\ worker[w].pc \notin {"idle", "claim"}
        /\ UNCHANGED <<now, target, spec, job, round, reported, runs>>
    BY <1>1 DEF ReadFails
  <2> QED
    BY <2>3, <2>4, <2>5, PlaceKeeps
<1>2. CASE Check(w)
  <2>1. PICK p \in {"fail", "execute"} :
            p = IF now >= worker[w].expires \/ Unauthorized(worker[w].job) THEN "fail"
                ELSE "execute"
    OBVIOUS
  <2>2. p \in Places /\ Go(w, p)
    BY <1>2, <2>1 DEF Check, Places
  <2>3. PICK d \in WorkerRow :
            /\ d.pc = p /\ d.at = worker[w].at /\ d.job = worker[w].job
            /\ d.occurrence = worker[w].occurrence /\ d.attempt = worker[w].attempt
            /\ d.gen = worker[w].gen /\ d.from = worker[w].from /\ d.upTo = worker[w].upTo
            /\ worker' = [worker EXCEPT ![w] = d]
    BY <2>2, PcMoves
  <2>4. /\ worker[w].pc = "check" /\ UNCHANGED <<now, target, spec, job, round, reported, runs>>
    BY <1>2 DEF Check
  <2>5. worker[w].pc \in Executing /\ worker[w].pc \notin {"idle", "claim"}
    BY <2>4 DEF Executing
  <2> QED
    BY <2>2, <2>3, <2>4, <2>5, PlaceKeeps
<1>3. CASE Reread(w)
  <2>1. worker[w] \in WorkerRow /\ target.terminal \in BOOLEAN
    BY WorkerIs
  <2>2. PICK d : d = [worker[w] EXCEPT !.pc = "complete", !.terminal = target.terminal]
    OBVIOUS
  <2>3. d \in WorkerRow
    BY <2>1, <2>2 DEF WorkerRow, Places
  <2>4. PICK p \in Places : p = "complete"
    BY DEF Places
  <2>5. /\ d.pc = p /\ d.at = worker[w].at /\ d.job = worker[w].job
        /\ d.occurrence = worker[w].occurrence /\ d.attempt = worker[w].attempt
        /\ d.gen = worker[w].gen /\ d.from = worker[w].from /\ d.upTo = worker[w].upTo
    BY <2>1, <2>2, <2>4 DEF WorkerRow
  <2>6. /\ worker[w].pc = "reread" /\ worker' = [worker EXCEPT ![w] = d]
        /\ UNCHANGED <<now, target, spec, job, round, reported, runs>>
    BY <1>3, <2>2 DEF Reread
  <2>7. p \notin Executing /\ worker[w].pc \notin {"idle", "claim"}
    BY <2>4, <2>6 DEF Executing
  <2> QED
    BY <2>3, <2>4, <2>5, <2>6, <2>7, PlaceKeeps
<1>4. QED
  BY <1>1, <1>2, <1>3

LEMMA LeavesKeep ==
    ASSUME JobConstants, JobsInv, NEW w \in Workers, ReportRefused(w) \/ Crash(w)
    PROVE  JobsInv'
<1>1. GoIdle(w) /\ UNCHANGED <<now, target, spec, job, round, reported, runs>>
  BY DEF ReportRefused, Crash
<1>2. QED
  BY <1>1, GoIdleKeeps

\* Jobs move, nothing is reported and nobody begins a round.
LEMMA JobsMove ==
    ASSUME JobConstants, JobsInv, JobsStep, \A k \in Jobs : job'[k].seen = job[k].seen,
           UNCHANGED <<now, target, spec, reported, runs>>,
           \/ UNCHANGED worker
           \/ \E w \in Workers : \E c \in WorkerRow :
                 /\ worker' = [worker EXCEPT ![w] = c]
                 /\ c.pc \notin Executing /\ WorkerIsSound(c)'
                 /\ c.from <= target.events /\ c.upTo <= target.events
    PROVE  JobsInv'
<1>1. Types /\ JobsStep
  BY DEF JobsInv
<1>2. WorkersAreSound'
  BY WorkersKeep
<1>3. worker' \in [Workers -> WorkerRow]
  BY <1>1 DEF Types
<1>4. \A v \in Workers : \/ worker'[v] = worker[v]
                         \/ /\ worker'[v].pc \notin Executing
                            /\ worker'[v].from <= target.events /\ worker'[v].upTo <= target.events
  BY <1>1 DEF Types
<1>5. RunsAreAttempts'
  BY <1>1, <1>4, RunsKeep DEF Executing
<1>6. EventsAreReported' /\ reported' \in [Jobs -> SUBSET (1 .. MaxEvents + 1)]
  BY HistoriesKeep
<1>7. /\ now' \in Moments /\ target' \in TargetRow /\ UNCHANGED spec
      /\ runs' \in [Jobs -> [Times -> Nat]]
  BY <1>1 DEF Types
<1>8. target.events <= target'.events
  BY <1>1, Numbers DEF Types, TargetRow, Events
<1>9. EventsHappened'
  BY <1>3, <1>4, <1>7, <1>8, EventsKeep DEF JobsStep
<1>10. QED
  BY <1>2, <1>3, <1>5, <1>6, <1>7, <1>9, Composes

\* One job moves, and nothing is reported.
LEMMA OneJobMoves ==
    ASSUME JobConstants, JobsInv, NEW j \in Jobs, NEW row2, NEW rows2,
           JobStep(job[j], round[j], row2, rows2), row2.seen = job[j].seen,
           job' = [job EXCEPT ![j] = row2], round' = [round EXCEPT ![j] = rows2]
    PROVE  JobsStep /\ \A k \in Jobs : job'[k].seen = job[k].seen
<1>1. JobsStep
  BY OneJob
<1>2. \A k \in Jobs : job'[k].seen = job[k].seen
  BY DEF JobsInv, Types
<1>3. QED
  BY <1>1, <1>2

LEMMA JobIs ==
    ASSUME JobConstants, JobsInv, NEW j \in Jobs
    PROVE  /\ job[j] \in JobRow /\ round[j] \in [Times -> RoundRow] /\ Sound(job[j], round[j])
           /\ now \in Moments /\ now \in Nat
  BY Numbers DEF JobsInv, Types

LEMMA StopsStep ==
    ASSUME JobConstants, JobsInv, NEW j \in Jobs, NEW s \in Terminal, NEW t \in Moments,
           Stop(j, s, t)
    PROVE  JobsStep /\ \A k \in Jobs : job'[k].seen = job[k].seen
<1>1. job[j] \in JobRow /\ round[j] \in [Times -> RoundRow] /\ Sound(job[j], round[j])
  BY JobIs
<1>2. PICK row2 : row2 = Stopped(job[j], s, t)
  OBVIOUS
<1>3. PICK rows2 : rows2 = RevokedOf(job[j], round[j], "failed")
  OBVIOUS
<1>4. JobStep(job[j], round[j], row2, rows2)
  BY <1>1, <1>2, <1>3, StopStep
<1>5. row2.seen = job[j].seen
  BY <1>1, <1>2 DEF Stopped, JobRow
<1>6. job' = [job EXCEPT ![j] = row2] /\ round' = [round EXCEPT ![j] = rows2]
  BY <1>2, <1>3 DEF Stop, Revoked, RevokedOf
<1>7. QED
  BY <1>4, <1>5, <1>6, OneJobMoves

LEMMA OperatorsKeep ==
    ASSUME JobConstants, JobsInv, NEW j \in Jobs, Pause(j) \/ Resume(j) \/ Cancel(j)
    PROVE  JobsInv'
<1>1. /\ job[j] \in JobRow /\ round[j] \in [Times -> RoundRow] /\ Sound(job[j], round[j])
      /\ now \in Moments
  BY JobIs
<1>2. job[j].updated \in Nat /\ now \in Nat
  BY <1>1, RowNumbers, Numbers
<1>3. job[j].updated < now /\ UNCHANGED <<now, target, spec, worker, reported, runs>>
  BY <1>2 DEF Pause, Resume, Cancel, InTime
<1>4. CASE Pause(j)
  <2>1. PICK row2 : row2 = [[job[j] EXCEPT !.gen = 0, !.expires = None]
                              EXCEPT !.status = "paused", !.wake = None, !.updated = now]
    OBVIOUS
  <2>2. PICK rows2 : rows2 = RevokedOf(job[j], round[j], "retry_wait")
    OBVIOUS
  <2>3. JobStep(job[j], round[j], row2, rows2)
    BY <1>1, <1>3, <1>4, <2>1, <2>2, PauseStep DEF Pause
  <2>4. row2.seen = job[j].seen
    BY <1>1, <2>1 DEF JobRow
  <2>5. job' = [job EXCEPT ![j] = row2] /\ round' = [round EXCEPT ![j] = rows2]
    BY <1>4, <2>1, <2>2 DEF Pause, Revoked, RevokedOf, Unleased
  <2>6. JobsStep /\ \A k \in Jobs : job'[k].seen = job[k].seen
    BY <2>3, <2>4, <2>5, OneJobMoves
  <2> QED
    BY <1>3, <2>6, JobsMove
<1>5. CASE Resume(j)
  <2>1. PICK row2 : row2 = [job[j] EXCEPT !.status = "active", !.wake = now, !.updated = now]
    OBVIOUS
  <2>2. JobStep(job[j], round[j], row2, round[j])
    BY <1>1, <1>3, <1>5, <2>1, ResumeStep DEF Resume
  <2>3. row2.seen = job[j].seen
    BY <1>1, <2>1 DEF JobRow
  <2>4. job' = [job EXCEPT ![j] = row2] /\ round' = [round EXCEPT ![j] = round[j]]
    BY <1>5, <2>1 DEF Resume, JobsInv, Types
  <2>5. JobsStep /\ \A k \in Jobs : job'[k].seen = job[k].seen
    BY <2>2, <2>3, <2>4, OneJobMoves
  <2> QED
    BY <1>3, <2>5, JobsMove
<1>6. CASE Cancel(j)
  <2>1. PICK s \in Terminal : s = "cancelled"
    BY DEF Terminal
  <2>2. Stop(j, s, now)
    BY <1>6, <2>1 DEF Cancel
  <2>3. JobsStep /\ \A k \in Jobs : job'[k].seen = job[k].seen
    BY <1>1, <2>2, StopsStep
  <2> QED
    BY <1>3, <2>3, JobsMove
<1>7. QED
  BY <1>4, <1>5, <1>6

LEMMA ReconcileKeeps ==
    ASSUME JobConstants, JobsInv, NEW w \in Workers, Reconcile(w)
    PROVE  JobsInv'
<1>1. UNCHANGED <<now, target, spec, reported, runs>> /\ now \in Moments /\ now \in Times
  BY Numbers DEF Reconcile, JobsInv, Types
<1>2. ASSUME NEW k \in Jobs
      PROVE  /\ job'[k] \in JobRow /\ round'[k] \in [Times -> RoundRow]
             /\ JobStep(job[k], round[k], job'[k], round'[k])
             /\ job'[k].seen = job[k].seen
  <2>1. /\ job[k] \in JobRow /\ round[k] \in [Times -> RoundRow] /\ Sound(job[k], round[k])
        /\ now \in Nat
    BY JobIs
  <2>2. CASE Expired(k, now)
    <3>1. PICK row2 : row2 = [[job[k] EXCEPT !.gen = 0, !.expires = None]
                                EXCEPT !.wake = now, !.updated = now]
      OBVIOUS
    <3>2. PICK rows2 : rows2 = [round[k] EXCEPT ![job[k].pending].status = "retry_wait"]
      OBVIOUS
    <3>3. job'[k] = row2 /\ round'[k] = rows2
      BY <2>2, <3>1, <3>2 DEF Reconcile, Unleased
    <3>4. /\ job[k].status = "active" /\ job[k].gen > 0 /\ job[k].pending \in Times
          /\ job[k].expires \in Times
          /\ job[k].pending < job[k].expires /\ job[k].expires <= now
      BY <2>1, <2>2 DEF Expired, Sound
    <3>5. job[k].pending <= now
      BY <2>1, <3>4, Numbers
    <3>6. row2 \in JobRow
      BY <1>1, <2>1, <3>1 DEF JobRow, MaybeTimes
    <3>7. /\ row2.status = job[k].status /\ row2.pending = job[k].pending
          /\ row2.gen = 0 /\ row2.expires = None /\ row2.unchanged = job[k].unchanged
          /\ row2.rounds = job[k].rounds /\ row2.updated = now /\ row2.wake = now
          /\ row2.seen = job[k].seen
      BY <2>1, <3>1 DEF JobRow
    <3>8. JobStep(job[k], round[k], row2, rows2)
      BY <1>1, <2>1, <3>2, <3>4, <3>5, <3>6, <3>7, UnleaseStep
    <3> QED
      BY <3>3, <3>6, <3>7, <3>8 DEF JobStep
  <2>3. CASE ~Expired(k, now)
    <3>1. job'[k] = job[k] /\ round'[k] = round[k]
      BY <2>3 DEF Reconcile
    <3> QED
      BY <2>1, <3>1, NoStep
  <2> QED
    BY <2>2, <2>3
<1>3. JobsStep /\ \A k \in Jobs : job'[k].seen = job[k].seen
  <2>1. job' = [k \in Jobs |-> job'[k]] /\ round' = [k \in Jobs |-> round'[k]]
    BY DEF Reconcile
  <2> QED
    BY <1>2, <2>1 DEF JobsStep
<1>4. PICK c : c = [Idle EXCEPT !.pc = "claim", !.at = now]
  OBVIOUS
<1>5. c \in WorkerRow /\ c.pc = "claim" /\ c.at = now /\ c.from = 0 /\ c.upTo = 0
  <2>1. Idle.from = 0 /\ Idle.upTo = 0
    BY DEF Idle
  <2> QED
    BY <1>1, <1>4, <2>1, IdleIsSound DEF WorkerRow, Places
<1>6. worker' = [worker EXCEPT ![w] = c]
  BY <1>4 DEF Reconcile
<1>7. c.pc \notin Executing /\ WorkerIsSound(c)'
  BY <1>1, <1>5 DEF Executing, WorkerIsSound
<1>8. c.from <= target.events /\ c.upTo <= target.events
  BY <1>5, WorkerIs
<1>9. QED
  BY <1>1, <1>3, <1>5, <1>6, <1>7, <1>8, JobsMove

\* A round is claimed: the worker is to execute an attempt nobody has had.
LEMMA TakeKeeps ==
    ASSUME JobConstants, JobsInv, NEW w \in Workers, NEW j \in Jobs, NEW t \in Moments,
           worker[w].at = t, Due(j, t), Verdict(j, t) = "take", Take(w, j, t),
           UNCHANGED <<now, target, spec, reported, runs>>
    PROVE  JobsInv'
<1> DEFINE row == job[j]
           rows == round[j]
<1>1. /\ row \in JobRow /\ rows \in [Times -> RoundRow] /\ Sound(row, rows)
      /\ worker[w] \in WorkerRow /\ worker \in [Workers -> WorkerRow]
  BY JobIs, WorkerIs DEF JobsInv, Types
<1>2. row.status = "active" /\ row.wake <= t /\ row.wake \in Times
  BY <1>1 DEF Due, Sound
<1>3. row.rounds < MaxRounds
  <2>1. ~OverBudget(j, t)
    BY DEF Verdict
  <2> QED
    BY <1>1, <2>1, RowNumbers, Numbers DEF OverBudget
<1>4. Attempt(j) <= MaxAttempts
  <2>1. ~Spent(j)
    BY DEF Verdict
  <2>2. Attempt(j) \in Nat
    BY <1>1, RowNumbers, Numbers DEF Attempt, RoundRow, AttemptCount
  <2> QED
    BY <2>1, <2>2, Numbers DEF Spent
<1>5. PICK o \in Times : o = IF row.pending = None THEN row.wake ELSE row.pending
  BY <1>1, <1>2, RowNumbers
<1>6. PICK a \in AttemptCount : a = Attempt(j) /\ a > 0
  <2>1. Attempt(j) \in Nat /\ Attempt(j) > 0
    BY <1>1, RowNumbers, Numbers DEF Attempt, RoundRow, AttemptCount
  <2>2. Attempt(j) \in AttemptCount
    BY <1>4, <2>1, Numbers DEF AttemptCount
  <2> QED
    BY <2>1, <2>2
<1>7. a = IF row.pending = None THEN 1 ELSE rows[row.pending].attempt + 1
  BY <1>6 DEF Attempt
<1>8. Types
  BY DEF JobsInv
<1>9. PICK g \in Nat : g = NextGeneration(j) /\ \A u \in Times : rows[u].gen < g
  BY <1>8, GenerationIsNew
<1>10. PICK row2 : row2 = TakenRow(row, o, g, t)
  OBVIOUS
<1>11. PICK rows2 : rows2 = TakenRounds(row, rows, o, g, a)
  OBVIOUS
<1>12. /\ JobStep(row, rows, row2, rows2)
       /\ rows[o].attempt < a /\ rows2[o].attempt = a /\ rows2[o].gen = g /\ g > 0 /\ o <= t
  <2>1. MayTake(row, rows, t, o, g, a)
    BY <1>1, <1>2, <1>3, <1>5, <1>6, <1>7, <1>9 DEF MayTake
  <2> QED
    BY <1>10, <1>11, <2>1, TakeStep
<1>13. /\ row2.seen = row.seen /\ row2.gen = g
       /\ row2 \in JobRow /\ rows2 \in [Times -> RoundRow] /\ row2.expires = t + Lease
       /\ t + Lease \in Int
  BY <1>1, <1>10, <1>12, Numbers DEF JobRow, JobStep, TakenRow
<1>14. job' = [job EXCEPT ![j] = row2]
  BY <1>5, <1>9, <1>10 DEF Take, TakenRow
<1>15. round' = [round EXCEPT ![j] = rows2]
  BY <1>5, <1>6, <1>9, <1>11 DEF Take, TakenRounds
<1>16. JobsStep /\ \A k \in Jobs : job'[k].seen = job[k].seen
  BY <1>12, <1>13, <1>14, <1>15, OneJobMoves
<1>17. PICK c : c = [worker[w] EXCEPT !.pc = "observe", !.job = j, !.occurrence = o,
                        !.attempt = a, !.gen = g, !.expires = t + Lease,
                        !.from = job[j].seen, !.first = ~job[j].observed, !.calls = job[j].calls]
  OBVIOUS
<1>18. worker' = [worker EXCEPT ![w] = c]
  BY <1>5, <1>6, <1>9, <1>17 DEF Take
<1>19. /\ row.seen \in Events /\ row.observed \in BOOLEAN /\ row.calls \in ModelCalls
       /\ t + Lease \in MaybeTimes
  BY <1>1, <1>13 DEF JobRow
<1>20. c \in WorkerRow
  <2>1. PICK e \in MaybeTimes : e = t + Lease
    BY <1>19
  <2>2. PICK b \in BOOLEAN : b = ~job[j].observed
    BY <1>19
  <2>3. c = [worker[w] EXCEPT !.pc = "observe", !.job = j, !.occurrence = o,
                        !.attempt = a, !.gen = g, !.expires = e,
                        !.from = job[j].seen, !.first = b, !.calls = job[j].calls]
    BY <1>17, <2>1, <2>2
  <2> QED
    BY <1>1, <1>19, <2>3 DEF WorkerRow, Places, MaybeTimes
<1>21. /\ c.pc = "observe" /\ c.job = j /\ c.occurrence = o /\ c.attempt = a /\ c.gen = g
       /\ c.from = row.seen /\ c.at = t /\ c.upTo = worker[w].upTo
  BY <1>1, <1>17 DEF WorkerRow
<1>22. round'[j][o].gen = g /\ job'[j].seen = row.seen /\ round'[j][o].attempt = a
  BY <1>8, <1>12, <1>13, <1>14, <1>15 DEF Types
<1>23. g <= g
  OBVIOUS
<1>24. WorkerIsSound(c)'
  BY <1>6, <1>12, <1>21, <1>22, <1>23 DEF WorkerIsSound
<1>25. WorkersAreSound'
  BY <1>16, <1>18, <1>20, <1>24, WorkersKeep
<1>26. worker' \in [Workers -> WorkerRow] /\ worker'[w] = c
       /\ \A v \in Workers : v # w => worker'[v] = worker[v]
  BY <1>1, <1>18, <1>20
<1>27. EventsHappened'
  <2>1. /\ row.seen <= target.events /\ worker[w].upTo <= target.events
        /\ target.events <= target.events
    BY <1>8, WorkerIs DEF JobsInv, EventsHappened
  <2>2. \A v \in Workers :
           /\ worker'[v].from = worker[v].from \/ worker'[v].from <= target.events
           /\ worker'[v].upTo = worker[v].upTo \/ worker'[v].upTo <= target.events
    BY <1>21, <1>26, <2>1
  <2>3. target' \in TargetRow /\ target.events <= target'.events
    BY <1>8, <2>1 DEF Types
  <2> QED
    BY <1>16, <1>26, <2>2, <2>3, EventsKeep DEF JobsStep
<1>28. EventsAreReported' /\ reported' \in [Jobs -> SUBSET (1 .. MaxEvents + 1)]
  BY <1>16, HistoriesKeep
<1>29. RunsAreAttempts'
  <2> SUFFICES ASSUME NEW k \in Jobs, NEW u \in Times
               PROVE  \E S \in SUBSET (1 .. round'[k][u].attempt) : Executed(k, u, S)'
    BY DEF RunsAreAttempts
  <2>1. PICK S \in SUBSET (1 .. round[k][u].attempt) : Executed(k, u, S)
    BY DEF JobsInv, RunsAreAttempts
  <2>2. round[k][u].attempt <= round'[k][u].attempt
    BY <1>16 DEF JobsStep, JobStep
  <2>3. round[k][u].attempt \in Nat /\ round'[k][u].attempt \in Nat
    BY <1>8, <1>16, Numbers DEF Types, RoundRow, AttemptCount, JobsStep
  <2>4. 1 .. round[k][u].attempt \subseteq 1 .. round'[k][u].attempt
    BY <2>2, <2>3
  <2>5. CASE ~(k = j /\ u = o)
    <3>1. \A v \in Workers : MayStillExecute(worker'[v], k, u) => v # w /\ worker'[v] = worker[v]
      BY <1>21, <1>26, <2>5 DEF MayStillExecute
    <3>2. Executed(k, u, S)'
      BY <2>1, <2>4, <3>1 DEF Executed
    <3> QED
      BY <2>1, <2>4, <3>2
  <2>6. CASE k = j /\ u = o
    <3>1. a \in 1 .. round'[k][u].attempt /\ a \notin 1 .. round[k][u].attempt
      <4>1. a \in Nat
        BY Numbers DEF AttemptCount
      <4> QED
        BY <1>6, <1>12, <1>22, <2>3, <2>6, <4>1
    <3>2. \A v \in Workers : v # w => worker'[v] = worker[v]
      BY <1>26
    <3>3. worker'[w].attempt = a
      BY <1>21, <1>26
    <3>4. \A v \in Workers : MayStillExecute(worker[v], k, u) =>
              worker[v].attempt \in (1 .. round[k][u].attempt) \ S
      BY <2>1 DEF Executed
    <3>5. \A v \in Workers : MayStillExecute(worker'[v], k, u) =>
              worker'[v].attempt \in (1 .. round'[k][u].attempt) \ S
      BY <2>1, <2>4, <3>1, <3>2, <3>3, <3>4
    <3>6. \A v, x \in Workers :
             MayStillExecute(worker'[v], k, u) /\ MayStillExecute(worker'[x], k, u)
                 /\ worker'[v].attempt = worker'[x].attempt => v = x
      BY <2>1, <3>1, <3>2, <3>3, <3>4 DEF Executed
    <3>7. Executed(k, u, S)'
      BY <2>1, <3>5, <3>6 DEF Executed
    <3> QED
      BY <2>1, <2>4, <3>7
  <2> QED
    BY <2>5, <2>6
<1>30. /\ now' \in Moments /\ target' \in TargetRow /\ UNCHANGED spec
       /\ runs' \in [Jobs -> [Times -> Nat]]
  BY <1>8 DEF Types
<1>31. QED
  BY <1>16, <1>25, <1>26, <1>27, <1>28, <1>29, <1>30, Composes

LEMMA SkipsStep ==
    ASSUME JobConstants, JobsInv, NEW j \in Jobs, NEW t \in Moments,
           Due(j, t), Verdict(j, t) = "skip", Skip(j, t)
    PROVE  JobsStep /\ \A k \in Jobs : job'[k].seen = job[k].seen
<1>1. /\ job[j] \in JobRow /\ round[j] \in [Times -> RoundRow] /\ Sound(job[j], round[j])
      /\ t \in Times /\ t \in Nat
  BY JobIs, Numbers
<1>2. job[j].status = "active" /\ job[j].wake <= t
  BY DEF Due
<1>3. job[j].rounds < MaxRounds /\ job[j].pending = None
  <2>1. ~OverBudget(j, t) /\ Skips(j, t)
    BY DEF Verdict
  <2> QED
    BY <1>1, <2>1, RowNumbers, Numbers DEF OverBudget, Skips
<1>4. job[j].gen = 0 /\ job[j].expires = None
  BY <1>1, <1>3, RowNumbers, Numbers DEF Sound
<1>5. PICK n \in Rounds : n = job[j].rounds + 1
  BY <1>1, <1>3, RowNumbers, Numbers DEF Rounds
<1>6. PICK row : row = [job[j] EXCEPT !.rounds = n, !.updated = t]
  OBVIOUS
<1>7. row \in JobRow /\ row.rounds = n
  BY <1>1, <1>6 DEF JobRow
<1>8. /\ row.status = "active" /\ row.pending = None /\ row.gen = 0 /\ row.expires = None
      /\ row.unchanged = job[j].unchanged /\ row.updated = t /\ row.seen = job[j].seen
  BY <1>1, <1>2, <1>3, <1>4, <1>6 DEF JobRow
<1>9. PICK next : next = NextOccurrence(j, t)
  OBVIOUS
<1>10. next = None \/ (next \in Nat /\ t < next)
  BY <1>9, NextIsLater
<1>11. PICK row2 : row2 = IF row.rounds >= MaxRounds \/ next = None \/ next >= Deadline
                          THEN Stopped(row, "exhausted", t) ELSE [row EXCEPT !.wake = next]
  OBVIOUS
<1>12. PICK rows2 :
           rows2 = [round[j] EXCEPT ![job[j].wake] =
                      [status |-> "skipped", ordinal |-> job[j].rounds + 1,
                       attempt |-> 1, gen |-> 1]]
  OBVIOUS
<1>13. /\ job' = [job EXCEPT ![j] = row2]
       /\ round' = [round EXCEPT ![j] = rows2]
  <2>1. row = [job[j] EXCEPT !.rounds = job[j].rounds + 1, !.updated = t]
    BY <1>5, <1>6
  <2>2. row.rounds = job[j].rounds + 1
    BY <1>5, <1>7
  <2>3. job' = [job EXCEPT ![j] = row2]
    BY <1>9, <1>11, <2>1 DEF Skip
  <2>4. round' = [round EXCEPT ![j] = rows2]
    BY <1>12, <2>1, <2>2 DEF Skip
  <2> QED
    BY <2>3, <2>4
<1>14. /\ row2 \in JobRow /\ row2.pending = None /\ row2.gen = 0 /\ row2.expires = None
       /\ row2.unchanged = job[j].unchanged /\ row2.rounds = job[j].rounds + 1
       /\ row2.updated = t /\ row2.seen = job[j].seen
       /\ row2.status \in Terminal \/
             (row2.status = "active" /\ row2.wake \in Times /\ t < row2.wake)
  <2>1. CASE row.rounds >= MaxRounds \/ next = None \/ next >= Deadline
    <3>1. row2 = Stopped(row, "exhausted", t)
      BY <1>11, <2>1
    <3>2. row2 \in JobRow
      BY <1>1, <1>7, <3>1 DEF Stopped, JobRow, JobStatuses, MaybeTimes
    <3>3. /\ row2.pending = None /\ row2.gen = 0 /\ row2.expires = None
          /\ row2.unchanged = row.unchanged /\ row2.rounds = row.rounds
          /\ row2.updated = t /\ row2.seen = row.seen /\ row2.status = "exhausted"
      BY <1>7, <3>1 DEF Stopped, JobRow
    <3> QED
      BY <1>5, <1>7, <1>8, <3>2, <3>3 DEF Terminal
  <2>2. CASE ~(row.rounds >= MaxRounds \/ next = None \/ next >= Deadline)
    <3>1. row2 = [row EXCEPT !.wake = next]
      BY <1>11, <2>2
    <3>2. next \in Nat /\ t < next /\ next < Deadline
      BY <1>10, <2>2, Numbers
    <3>3. next \in Times
      BY <3>2, Numbers DEF Times
    <3>4. row2 \in JobRow
      BY <1>7, <3>1, <3>3 DEF JobRow, MaybeTimes
    <3>5. /\ row2.pending = None /\ row2.gen = 0 /\ row2.expires = None
          /\ row2.unchanged = row.unchanged /\ row2.rounds = row.rounds
          /\ row2.updated = t /\ row2.seen = row.seen /\ row2.status = "active"
          /\ row2.wake = next
      BY <1>7, <1>8, <3>1 DEF JobRow
    <3> QED
      BY <1>5, <1>7, <1>8, <3>2, <3>3, <3>4, <3>5
  <2> QED
    BY <2>1, <2>2
<1>15. JobStep(job[j], round[j], row2, rows2)
  BY <1>1, <1>2, <1>3, <1>12, <1>14, SkipStep
<1>16. QED
  BY <1>13, <1>14, <1>15, OneJobMoves

LEMMA ClaimKeeps ==
    ASSUME JobConstants, JobsInv, NEW w \in Workers, Claim(w)
    PROVE  JobsInv'
<1>1. worker[w].pc = "claim" /\ UNCHANGED <<now, target, spec, reported, runs>>
  BY DEF Claim
<1>2. PICK t \in Moments : t = worker[w].at
  BY <1>1, WorkerIs, WorkerFields
<1>3. CASE ~(\E j \in Jobs : Due(j, t)) /\ GoIdle(w) /\ UNCHANGED <<job, round>>
  BY <1>1, <1>3, GoIdleKeeps
<1>4. ASSUME NEW j \in Jobs, Due(j, t), Verdict(j, t) = "take", Take(w, j, t)
      PROVE  JobsInv'
  BY <1>1, <1>2, <1>4, TakeKeeps
<1>5. ASSUME JobsStep, \A k \in Jobs : job'[k].seen = job[k].seen, GoIdle(w)
      PROVE  JobsInv'
  <2>1. Idle.from <= target.events /\ Idle.upTo <= target.events
    BY WorkerIs DEF Idle
  <2>2. worker' = [worker EXCEPT ![w] = Idle]
    BY <1>5 DEF GoIdle
  <2> QED
    BY <1>1, <1>5, <2>1, <2>2, IdleIsSound, JobsMove
<1>6. ASSUME NEW j \in Jobs, Due(j, t), Verdict(j, t) = "skip", Skip(j, t), GoIdle(w)
      PROVE  JobsInv'
  BY <1>5, <1>6, SkipsStep
<1>7. ASSUME NEW j \in Jobs, Verdict(j, t) \in Terminal, Stop(j, Verdict(j, t), t), GoIdle(w)
      PROVE  JobsInv'
  <2>1. PICK s \in Terminal : s = Verdict(j, t)
    BY <1>7
  <2>2. Stop(j, s, t)
    BY <1>7, <2>1
  <2> QED
    BY <1>5, <1>7, <2>2, StopsStep
<1>8. ASSUME GoIdle(w), UNCHANGED <<job, round>>
      PROVE  JobsInv'
  BY <1>1, <1>8, GoIdleKeeps
<1>9. \/ ~(\E j \in Jobs : Due(j, t)) /\ GoIdle(w) /\ UNCHANGED <<job, round>>
      \/ \E j \in Jobs :
            /\ Due(j, t)
            /\ \/ Verdict(j, t) = "take" /\ Take(w, j, t)
               \/ Verdict(j, t) = "skip" /\ Skip(j, t) /\ GoIdle(w)
               \/ Verdict(j, t) = "refuse" /\ GoIdle(w) /\ UNCHANGED <<job, round>>
               \/ Verdict(j, t) \in Terminal /\ Stop(j, Verdict(j, t), t) /\ GoIdle(w)
  BY <1>2 DEF Claim, FirstDue
<1>10. QED
  BY <1>3, <1>4, <1>6, <1>7, <1>8, <1>9

\* The attempt that is executed is one that had not been.
LEMMA ExecuteKeeps ==
    ASSUME JobConstants, JobsInv, NEW w \in Workers, Execute(w)
    PROVE  JobsInv'
<1>1. /\ worker[w].pc = "execute" /\ UNCHANGED <<now, target, spec, job, round, reported>>
      /\ runs' = [runs EXCEPT ![worker[w].job][worker[w].occurrence] = @ + 1]
  BY DEF Execute
<1>2. PICK called \in BOOLEAN, pc \in {"reread", "fail"} :
          worker' = [worker EXCEPT ![w] = [worker[w] EXCEPT !.pc = pc, !.called = called]]
  BY DEF Execute
<1>3. /\ worker[w] \in WorkerRow /\ WorkerIsSound(worker[w])
      /\ worker[w].from <= target.events /\ worker[w].upTo <= target.events
  BY WorkerIs
<1>4. PICK d : d = [worker[w] EXCEPT !.pc = pc, !.called = called]
  OBVIOUS
<1>5. d \in WorkerRow
  BY <1>3, <1>4 DEF WorkerRow, Places
<1>6. /\ d.pc = pc /\ d.at = worker[w].at /\ d.job = worker[w].job
      /\ d.occurrence = worker[w].occurrence /\ d.attempt = worker[w].attempt
      /\ d.gen = worker[w].gen /\ d.from = worker[w].from /\ d.upTo = worker[w].upTo
  BY <1>3, <1>4 DEF WorkerRow
<1>7. worker[w].from <= worker[w].upTo
  BY <1>1, <1>3 DEF WorkerIsSound
<1>8. WorkerIsSound(d)
  BY <1>1, <1>3, <1>5, <1>6, <1>7, GoesOn
<1>9. JobsStep /\ Types
  BY <1>1, SameJobs DEF JobsInv
<1>10. WorkerIsSound(d)'
  BY <1>5, <1>8, <1>9, WorkerKeeps
<1>11. worker' = [worker EXCEPT ![w] = d]
  BY <1>2, <1>4
<1>12. WorkersAreSound'
  BY <1>5, <1>9, <1>10, <1>11, WorkersKeep
<1>13. /\ worker' \in [Workers -> WorkerRow] /\ worker'[w] = d
       /\ \A v \in Workers : v # w => worker'[v] = worker[v]
  BY <1>5, <1>9, <1>11 DEF Types
<1>14. PICK j \in Jobs, t \in Times, a \in AttemptCount :
           j = worker[w].job /\ t = worker[w].occurrence /\ a = worker[w].attempt
  BY <1>1, <1>3, WorkerFields
<1>15. /\ runs \in [Jobs -> [Times -> Nat]] /\ runs[j][t] \in Nat
       /\ runs' = [runs EXCEPT ![j] = [runs[j] EXCEPT ![t] = runs[j][t] + 1]]
  BY <1>1, <1>9, <1>14 DEF Types
<1>16. PICK f : f = [runs[j] EXCEPT ![t] = runs[j][t] + 1]
  OBVIOUS
<1>17. f \in [Times -> Nat] /\ f[t] = runs[j][t] + 1 /\ \A u \in Times : u # t => f[u] = runs[j][u]
  BY <1>15, <1>16
<1>18. /\ runs' \in [Jobs -> [Times -> Nat]] /\ runs'[j][t] = runs[j][t] + 1
       /\ \A k \in Jobs, u \in Times : ~(k = j /\ u = t) => runs'[k][u] = runs[k][u]
  BY <1>15, <1>16, <1>17
<1>19. RunsAreAttempts'
  <2> SUFFICES ASSUME NEW k \in Jobs, NEW u \in Times
               PROVE  \E S \in SUBSET (1 .. round'[k][u].attempt) : Executed(k, u, S)'
    BY DEF RunsAreAttempts
  <2>1. PICK S \in SUBSET (1 .. round[k][u].attempt) : Executed(k, u, S)
    BY DEF JobsInv, RunsAreAttempts
  <2>2. round'[k][u].attempt = round[k][u].attempt
    BY <1>1
  <2>3. d.pc \notin Executing
    BY <1>6 DEF Executing
  <2>4. ~MayStillExecute(worker'[w], k, u)
    BY <1>13, <2>3 DEF MayStillExecute, Executing
  <2>5. \A v \in Workers : v # w => worker'[v] = worker[v]
    BY <1>13
  <2>6. CASE ~(k = j /\ u = t)
    <3>1. runs'[k][u] = runs[k][u]
      BY <1>18, <2>6
    <3>2. Executed(k, u, S)'
      BY <2>1, <2>2, <2>4, <2>5, <3>1 DEF Executed
    <3> QED
      BY <2>1, <2>2, <3>2
  <2>7. CASE k = j /\ u = t
    <3>1. MayStillExecute(worker[w], k, u)
      BY <1>1, <1>14, <2>7 DEF MayStillExecute
    <3>2. a \in 1 .. round[k][u].attempt /\ a \notin S
      BY <1>14, <2>1, <3>1 DEF Executed
    <3>3. round[k][u].attempt \in Nat
      BY <1>9, Numbers DEF Types, RoundRow, AttemptCount
    <3>4. IsFiniteSet(S)
      <4>1. PICK m \in Nat : m = round[k][u].attempt
        BY <3>3
      <4>2. IsFiniteSet(1 .. m)
        BY FS_Interval
      <4> QED
        BY <2>1, <4>1, <4>2, FS_Subset
    <3>5. Cardinality(S \cup {a}) = Cardinality(S) + 1
      BY <3>2, <3>4, FS_AddElement
    <3>6. Cardinality(S \cup {a}) = runs'[k][u]
      BY <1>18, <2>1, <2>7, <3>5 DEF Executed
    <3>7. \A v \in Workers : MayStillExecute(worker'[v], k, u) =>
              v # w /\ worker'[v] = worker[v] /\ worker'[v].attempt # a
      BY <1>14, <2>1, <2>4, <2>5, <3>1 DEF Executed
    <3>8. \A v \in Workers : MayStillExecute(worker'[v], k, u) =>
              worker'[v].attempt \in (1 .. round'[k][u].attempt) \ (S \cup {a})
      BY <2>1, <2>2, <3>7 DEF Executed
    <3>9. \A v, x \in Workers :
             MayStillExecute(worker'[v], k, u) /\ MayStillExecute(worker'[x], k, u)
                 /\ worker'[v].attempt = worker'[x].attempt => v = x
      BY <2>1, <3>7 DEF Executed
    <3>10. Executed(k, u, S \cup {a})'
      BY <3>6, <3>8, <3>9 DEF Executed
    <3>11. S \cup {a} \in SUBSET (1 .. round'[k][u].attempt)
      BY <2>1, <2>2, <3>2
    <3> QED
      BY <3>10, <3>11
  <2> QED
    BY <2>6, <2>7
<1>20. EventsAreReported' /\ reported' \in [Jobs -> SUBSET (1 .. MaxEvents + 1)]
  BY <1>1, HistoriesKeep
<1>21. EventsHappened'
  <2>1. target' \in TargetRow /\ target.events <= target'.events
    BY <1>1, <1>9, WorkerIs DEF Types
  <2>2. \A v \in Workers :
           /\ worker'[v].from = worker[v].from \/ worker'[v].from <= target.events
           /\ worker'[v].upTo = worker[v].upTo \/ worker'[v].upTo <= target.events
    BY <1>6, <1>13
  <2> QED
    BY <1>1, <1>9, <1>13, <2>1, <2>2, EventsKeep DEF JobsStep
<1>22. now' \in Moments /\ target' \in TargetRow /\ UNCHANGED spec
  BY <1>1, <1>9 DEF Types
<1>23. QED
  BY <1>9, <1>12, <1>13, <1>18, <1>19, <1>20, <1>21, <1>22, Composes

\* What a report is of: the pending round of an active job, not before it was claimed.
LEMMA FencedFacts ==
    ASSUME JobConstants, JobsInv, NEW w \in Workers, worker[w].pc \in {"complete", "fail"},
           Fenced(w), NEW j, j = worker[w].job, NEW t, t = ReportTime(w)
    PROVE  /\ j \in Jobs /\ t \in Moments /\ t \in Times /\ t \in Nat
           /\ job[j].status = "active" /\ job[j].pending = worker[w].occurrence
           /\ job[j].gen > 0 /\ job[j].pending \in Times /\ job[j].pending <= t
           /\ job[j].rounds < MaxRounds /\ job[j].seen = worker[w].from
<1>1. worker[w].pc \notin {"idle", "claim"} /\ worker[w].pc # "idle"
  OBVIOUS
<1>2. worker[w] \in WorkerRow /\ WorkerIsSound(worker[w])
  BY WorkerIs
<1>3. /\ j \in Jobs /\ worker[w].occurrence \in Times /\ worker[w].occurrence <= worker[w].at
      /\ worker[w].gen > 0 /\ worker[w].at \in Moments
  BY <1>1, <1>2, WorkerFields
<1>4. /\ job[j].status = "active" /\ job[j].pending = worker[w].occurrence
      /\ job[j].gen = worker[w].gen
  BY DEF Fenced
<1>5. now \in Moments /\ Sound(job[j], round[j])
  BY <1>3, JobIs
<1>6. t \in Moments /\ worker[w].at <= t
  BY <1>3, <1>5, Numbers DEF ReportTime, Latest, Moments
<1>7. t \in Times /\ t \in Nat /\ worker[w].at \in Nat /\ worker[w].occurrence \in Nat
  BY <1>3, <1>6, Numbers
<1>8. job[j].pending <= t
  BY <1>3, <1>4, <1>6, <1>7
<1>9. job[j].rounds < MaxRounds
  BY <1>3, <1>4, <1>5, Numbers DEF Sound, Terminal
<1>10. job[j].seen = worker[w].from
  BY <1>1, <1>2, <1>4 DEF WorkerIsSound
<1>11. QED
  BY <1>3, <1>4, <1>6, <1>7, <1>8, <1>9, <1>10

LEMMA ChargedFits ==
    ASSUME JobConstants, JobsInv, NEW w \in Workers, worker[w].job \in Jobs, MayCharge(w)
    PROVE  Charged(w) \in ModelCalls
<1>1. PICK r \in JobRow : r = job[worker[w].job]
  BY DEF JobsInv, Types
<1>2. r.calls \in Nat /\ r.calls <= MaxModelCalls
  BY RowNumbers
<1>3. CASE worker[w].called
  BY <1>1, <1>2, <1>3, Numbers DEF Charged, MayCharge, ModelCalls
<1>4. CASE ~worker[w].called
  BY <1>1, <1>2, <1>4, Numbers DEF Charged, MayCharge, ModelCalls
<1>5. QED
  BY <1>3, <1>4

\* A job whose claim was given up ends, or goes on at another time.
LEMMA EndOrGoOn ==
    ASSUME JobConstants, NEW row \in JobRow, row.status = "active", NEW t \in Moments,
           row.gen = 0, row.expires = None, row.pending = None, row.updated = t, NEW row2,
           \/ \E s \in Terminal : row2 = Stopped(row, s, t)
           \/ \E v \in Nat : row2 = [row EXCEPT !.wake = v] /\ t < v /\ v < Deadline
    PROVE  /\ row2 \in JobRow /\ row2.pending = None /\ row2.gen = 0 /\ row2.expires = None
           /\ row2.unchanged = row.unchanged /\ row2.rounds = row.rounds
           /\ row2.updated = t /\ row2.seen = row.seen
           /\ row2.status \in Terminal \/
                 (row2.status = "active" /\ row2.wake \in Times /\ t < row2.wake)
<1>1. ASSUME NEW s \in Terminal, row2 = Stopped(row, s, t)
      PROVE  /\ row2 \in JobRow /\ row2.pending = None /\ row2.gen = 0 /\ row2.expires = None
             /\ row2.unchanged = row.unchanged /\ row2.rounds = row.rounds
             /\ row2.updated = t /\ row2.seen = row.seen /\ row2.status \in Terminal
  <2>1. row2 \in JobRow
    BY <1>1, Numbers DEF Stopped, JobRow, Terminal, JobStatuses, MaybeTimes
  <2> QED
    BY <1>1, <2>1 DEF Stopped, JobRow
<1>2. ASSUME NEW v \in Nat, row2 = [row EXCEPT !.wake = v], t < v, v < Deadline
      PROVE  /\ row2 \in JobRow /\ row2.pending = None /\ row2.gen = 0 /\ row2.expires = None
             /\ row2.unchanged = row.unchanged /\ row2.rounds = row.rounds
             /\ row2.updated = t /\ row2.seen = row.seen
             /\ row2.status = "active" /\ row2.wake \in Times /\ t < row2.wake
  <2>1. v \in Times
    BY <1>2, Numbers DEF Times
  <2>2. row2 \in JobRow
    BY <1>2, <2>1 DEF JobRow, MaybeTimes
  <2>3. row2.wake = v
    BY <1>2 DEF JobRow
  <2> QED
    BY <1>2, <2>1, <2>2, <2>3 DEF JobRow
<1>3. QED
  BY <1>1, <1>2

\* What a completed round makes of its job.
LEMMA AfterRoundFits ==
    ASSUME JobConstants, JobsInv, NEW w \in Workers, worker[w].pc = "complete",
           Fenced(w), MayCharge(w), NEW j, j = worker[w].job, NEW t, t = ReportTime(w),
           NEW row2, row2 = AfterRound(w, t)
    PROVE  /\ row2 \in JobRow /\ row2.pending = None /\ row2.gen = 0 /\ row2.expires = None
           /\ row2.unchanged <= row2.rounds /\ row2.rounds = job[j].rounds + 1
           /\ row2.updated = t /\ row2.seen = worker[w].upTo
           /\ row2.status \in Terminal \/
                 (row2.status = "active" /\ row2.wake \in Times /\ t < row2.wake)
<1>1. /\ j \in Jobs /\ t \in Moments /\ t \in Times /\ t \in Nat
      /\ job[j].status = "active" /\ job[j].rounds < MaxRounds
  BY FencedFacts
<1>2. job[j] \in JobRow /\ Sound(job[j], round[j])
  BY <1>1, JobIs
<1>3. /\ worker[w] \in WorkerRow /\ worker[w].upTo \in Events /\ worker[w].changed \in BOOLEAN
  BY WorkerIs, WorkerFields
<1>4. Charged(w) \in ModelCalls
  BY <1>1, ChargedFits
<1>5. PICK n \in Rounds : n = job[j].rounds + 1
  BY <1>1, <1>2, RowNumbers, Numbers DEF Rounds
<1>6. PICK u \in Rounds : u = (IF worker[w].changed THEN 0 ELSE job[j].unchanged + 1) /\ u <= n
  <2>1. job[j].unchanged \in Nat /\ job[j].rounds \in Nat /\ job[j].unchanged <= job[j].rounds
    BY <1>2, RowNumbers DEF Sound
  <2>2. job[j].unchanged + 1 \in Rounds /\ job[j].unchanged + 1 <= n /\ 0 \in Rounds /\ 0 <= n
    BY <1>1, <1>5, <2>1, Numbers DEF Rounds
  <2> QED
    BY <2>2
<1>7. PICK row : row = [[job[j] EXCEPT !.gen = 0, !.expires = None] EXCEPT
                   !.rounds = n, !.calls = Charged(w), !.pending = None, !.observed = TRUE,
                   !.unchanged = u, !.seen = worker[w].upTo, !.updated = t]
  OBVIOUS
<1>8. row \in JobRow
  BY <1>1, <1>2, <1>3, <1>4, <1>7 DEF JobRow, MaybeTimes
<1>9. /\ row.status = "active" /\ row.gen = 0 /\ row.expires = None /\ row.pending = None
      /\ row.updated = t /\ row.rounds = n /\ row.unchanged = u /\ row.seen = worker[w].upTo
  BY <1>1, <1>2, <1>7 DEF JobRow
<1>10. row = [Unleased(j) EXCEPT
                !.rounds = @ + 1, !.calls = Charged(w), !.pending = None, !.observed = TRUE,
                !.unchanged = IF worker[w].changed THEN 0 ELSE @ + 1,
                !.seen = Reported(w), !.updated = t]
  BY <1>2, <1>5, <1>6, <1>7 DEF Unleased, Reported, JobRow
<1>11. PICK next : next = NextOccurrence(j, t)
  OBVIOUS
<1>12. next = None \/ (next \in Nat /\ t < next)
  BY <1>1, <1>11, NextIsLater
<1>13. PICK wake : wake = IF worker[w].changed THEN next
                          ELSE Latest(next, t + IdleBackoff(row.unchanged))
  OBVIOUS
<1>14. next # None => wake \in Nat /\ t < wake
  <2>1. row.unchanged \in Nat
    BY <1>6, <1>9, Numbers DEF Rounds
  <2>2. IdleBackoff(row.unchanged) \in Nat
    BY <2>1, BackoffTypes
  <2> QED
    BY <1>1, <1>12, <1>13, <2>2 DEF Latest
<1>15. row2 = IF (StopOnTerminal /\ worker[w].terminal) \/ spec[j].kind = "once"
              THEN Stopped(row, "completed", t)
              ELSE IF \/ row.rounds >= MaxRounds
                      \/ MaxModelCalls > 0 /\ row.calls >= MaxModelCalls
                      \/ next = None \/ wake >= Deadline
                   THEN Stopped(row, "exhausted", t)
                   ELSE [row EXCEPT !.wake = wake]
  BY <1>10, <1>11, <1>13 DEF AfterRound
<1>16. \/ row2 = Stopped(row, "completed", t)
       \/ row2 = Stopped(row, "exhausted", t)
       \/ row2 = [row EXCEPT !.wake = wake] /\ next # None /\ ~(wake >= Deadline)
  BY <1>15
<1>17. \/ \E s \in Terminal : row2 = Stopped(row, s, t)
       \/ \E v \in Nat : row2 = [row EXCEPT !.wake = v] /\ t < v /\ v < Deadline
  BY <1>14, <1>16, Numbers DEF Terminal
<1>18. /\ row2 \in JobRow /\ row2.pending = None /\ row2.gen = 0 /\ row2.expires = None
       /\ row2.unchanged = row.unchanged /\ row2.rounds = row.rounds
       /\ row2.updated = t /\ row2.seen = row.seen
       /\ row2.status \in Terminal \/
             (row2.status = "active" /\ row2.wake \in Times /\ t < row2.wake)
  BY <1>1, <1>8, <1>9, <1>17, EndOrGoOn
<1>19. QED
  BY <1>5, <1>6, <1>9, <1>18

LEMMA CompleteKeeps ==
    ASSUME JobConstants, JobsInv, NEW w \in Workers, Complete(w)
    PROVE  JobsInv'
<1>1. /\ worker[w].pc = "complete" /\ Fenced(w) /\ MayCharge(w) /\ GoIdle(w)
      /\ UNCHANGED <<now, target, spec, runs>>
  BY DEF Complete
<1>2. PICK j : j = worker[w].job
  OBVIOUS
<1>3. PICK t : t = ReportTime(w)
  OBVIOUS
<1>4. /\ j \in Jobs /\ t \in Moments /\ t \in Times /\ t \in Nat
      /\ job[j].status = "active" /\ job[j].pending = worker[w].occurrence
      /\ job[j].gen > 0 /\ job[j].pending \in Times /\ job[j].pending <= t
      /\ job[j].rounds < MaxRounds /\ job[j].seen = worker[w].from
  BY <1>1, <1>2, <1>3, FencedFacts
<1>5. job[j] \in JobRow /\ round[j] \in [Times -> RoundRow] /\ Sound(job[j], round[j])
  BY <1>4, JobIs
<1>6. PICK row2 : row2 = AfterRound(w, t)
  OBVIOUS
<1>7. /\ row2 \in JobRow /\ row2.pending = None /\ row2.gen = 0 /\ row2.expires = None
      /\ row2.unchanged <= row2.rounds /\ row2.rounds = job[j].rounds + 1
      /\ row2.updated = t /\ row2.seen = worker[w].upTo
      /\ row2.status \in Terminal \/
            (row2.status = "active" /\ row2.wake \in Times /\ t < row2.wake)
  BY <1>1, <1>2, <1>3, <1>6, AfterRoundFits
<1>8. PICK s \in Closed : s = IF worker[w].changed THEN "completed" ELSE "unchanged"
  BY DEF Closed
<1>9. PICK rows2 : rows2 = [round[j] EXCEPT ![job[j].pending].status = s]
  OBVIOUS
<1>10. JobStep(job[j], round[j], row2, rows2)
  BY <1>4, <1>5, <1>7, <1>9, ReportStep
<1>11. job' = [job EXCEPT ![j] = row2]
  BY <1>2, <1>3, <1>6 DEF Complete
<1>12. round' = [round EXCEPT ![j] = rows2]
  BY <1>2, <1>4, <1>8, <1>9 DEF Complete
<1>13. JobsStep /\ Types
  BY <1>4, <1>10, <1>11, <1>12, OneJob DEF JobsInv
<1>14. WorkersAreSound' /\ worker' = [worker EXCEPT ![w] = Idle]
  BY <1>1, <1>13, IdleIsSound, WorkersKeep DEF GoIdle
<1>15. worker' \in [Workers -> WorkerRow] /\ worker'[w] = Idle
       /\ \A v \in Workers : v # w => worker'[v] = worker[v]
  BY <1>13, <1>14, IdleIsSound DEF Types
<1>16. RunsAreAttempts'
  BY <1>1, <1>13, <1>15, IdleIsSound, RunsKeep DEF Executing
<1>17. /\ worker[w] \in WorkerRow /\ WorkerIsSound(worker[w]) /\ worker[w].upTo <= target.events
       /\ target.events \in Nat
  BY WorkerIs
<1>18. /\ worker[w].from <= worker[w].upTo /\ worker[w].from \in Nat /\ worker[w].upTo \in Nat
       /\ worker[w].upTo \in Events
  BY <1>1, <1>17, WorkerFields DEF WorkerIsSound
<1>19. \A k \in Jobs : k # j => job'[k] = job[k]
  BY <1>11, <1>13 DEF Types
<1>20. job'[j].seen = worker[w].upTo
  BY <1>4, <1>7, <1>11, <1>13 DEF Types
<1>21. EventsHappened'
  <2>1. Idle.from <= target.events /\ Idle.upTo <= target.events
    BY <1>17 DEF Idle
  <2>2. target' \in TargetRow /\ target.events <= target'.events
    BY <1>1, <1>13, <1>17 DEF Types
  <2>3. \A k \in Jobs : job'[k].seen = job[k].seen \/ job'[k].seen <= target.events
    BY <1>17, <1>19, <1>20
  <2>4. \A v \in Workers :
           /\ worker'[v].from = worker[v].from \/ worker'[v].from <= target.events
           /\ worker'[v].upTo = worker[v].upTo \/ worker'[v].upTo <= target.events
    BY <1>15, <2>1
  <2> QED
    BY <1>13, <1>15, <2>2, <2>3, <2>4, EventsKeep DEF JobsStep
<1>22. reported' = [reported EXCEPT ![j] = reported[j] \cup (worker[w].from + 1 .. worker[w].upTo)]
  BY <1>2 DEF Complete
<1>23. reported[j] = 1 .. worker[w].from /\ reported \in [Jobs -> SUBSET (1 .. MaxEvents + 1)]
  BY <1>4, <1>13 DEF JobsInv, EventsAreReported, Types
<1>24. (1 .. worker[w].from) \cup (worker[w].from + 1 .. worker[w].upTo) = 1 .. worker[w].upTo
  BY <1>18
<1>25. reported'[j] = 1 .. worker[w].upTo /\ \A k \in Jobs : k # j => reported'[k] = reported[k]
  BY <1>4, <1>22, <1>23, <1>24
<1>26. EventsAreReported'
  BY <1>19, <1>20, <1>25 DEF JobsInv, EventsAreReported
<1>27. reported' \in [Jobs -> SUBSET (1 .. MaxEvents + 1)]
  <2>1. 1 .. worker[w].upTo \subseteq 1 .. MaxEvents + 1
    BY <1>18, Numbers DEF Events
  <2>2. reported' = [reported EXCEPT ![j] = 1 .. worker[w].upTo]
    BY <1>4, <1>22, <1>23, <1>24
  <2> QED
    BY <1>23, <2>1, <2>2
<1>28. /\ now' \in Moments /\ target' \in TargetRow /\ UNCHANGED spec
       /\ runs' \in [Jobs -> [Times -> Nat]]
  BY <1>1, <1>13 DEF Types
<1>29. QED
  BY <1>13, <1>14, <1>15, <1>16, <1>21, <1>26, <1>27, <1>28, Composes

LEMMA FailKeeps ==
    ASSUME JobConstants, JobsInv, NEW w \in Workers, Fail(w)
    PROVE  JobsInv'
<1>1. /\ worker[w].pc = "fail" /\ Fenced(w) /\ MayCharge(w) /\ GoIdle(w)
      /\ UNCHANGED <<now, target, spec, reported, runs>>
  BY DEF Fail
<1>2. PICK j : j = worker[w].job
  OBVIOUS
<1>3. PICK t : t = ReportTime(w)
  OBVIOUS
<1>4. /\ j \in Jobs /\ t \in Moments /\ t \in Times /\ t \in Nat
      /\ job[j].status = "active" /\ job[j].pending = worker[w].occurrence
      /\ job[j].gen > 0 /\ job[j].pending \in Times /\ job[j].pending <= t
      /\ job[j].rounds < MaxRounds
  BY <1>1, <1>2, <1>3, FencedFacts
<1>5. job[j] \in JobRow /\ round[j] \in [Times -> RoundRow] /\ Sound(job[j], round[j])
  BY <1>4, JobIs
<1>6. /\ worker[w] \in WorkerRow /\ WorkerIsSound(worker[w]) /\ worker[w].attempt \in AttemptCount
      /\ worker[w].attempt > 0
  BY <1>1, WorkerIs, WorkerFields
<1>7. PICK row : row = [[job[j] EXCEPT !.gen = 0, !.expires = None] EXCEPT
                          !.calls = Charged(w), !.updated = t]
  OBVIOUS
<1>8. row \in JobRow
  BY <1>1, <1>2, <1>4, <1>5, <1>7, ChargedFits DEF JobRow, MaybeTimes
<1>9. /\ row.status = "active" /\ row.gen = 0 /\ row.expires = None /\ row.pending = job[j].pending
      /\ row.updated = t /\ row.rounds = job[j].rounds /\ row.unchanged = job[j].unchanged
      /\ row.seen = job[j].seen
  BY <1>4, <1>5, <1>7 DEF JobRow
<1>10. PICK retryAt : retryAt = t + RetryBackoff(worker[w].attempt)
  OBVIOUS
<1>11. retryAt \in Nat /\ t <= retryAt
  <2>1. RetryBackoff(worker[w].attempt) \in Nat
    BY <1>6, BackoffTypes
  <2> QED
    BY <1>4, <1>10, <2>1
<1>12. PICK row2 : row2 = AfterFailure(w, t)
  OBVIOUS
<1>13. PICK last : last = [row EXCEPT !.rounds = @ + 1]
  OBVIOUS
<1>14. \/ row2 = [row EXCEPT !.wake = retryAt] /\ ~(retryAt >= Deadline)
       \/ \E s \in {"exhausted", "failed"} : row2 = Stopped(last, s, t)
  BY <1>2, <1>7, <1>10, <1>12, <1>13 DEF AfterFailure, Unleased
<1>15. PICK rows2 : rows2 = [round[j] EXCEPT ![job[j].pending].status =
                               IF row2.status = "active" THEN "retry_wait" ELSE "failed"]
  OBVIOUS
<1>16. job' = [job EXCEPT ![j] = row2] /\ round' = [round EXCEPT ![j] = rows2]
  BY <1>2, <1>3, <1>4, <1>12, <1>15 DEF Fail
<1>17. ASSUME row2 = [row EXCEPT !.wake = retryAt], ~(retryAt >= Deadline)
       PROVE  JobStep(job[j], round[j], row2, rows2) /\ row2.seen = job[j].seen
  <2>1. retryAt \in Times
    BY <1>11, <1>17, Numbers DEF Times
  <2>2. row2 \in JobRow
    BY <1>8, <1>17, <2>1 DEF JobRow, MaybeTimes
  <2>3. /\ row2.status = "active" /\ row2.pending = job[j].pending /\ row2.gen = 0
        /\ row2.expires = None /\ row2.unchanged = job[j].unchanged
        /\ row2.rounds = job[j].rounds /\ row2.updated = t /\ row2.wake = retryAt
        /\ row2.seen = job[j].seen
    BY <1>8, <1>9, <1>17 DEF JobRow
  <2>4. rows2 = [round[j] EXCEPT ![job[j].pending].status = "retry_wait"]
    BY <1>15, <2>3
  <2>5. job[j].pending <= retryAt
    <3>1. PICK p \in Nat : p = job[j].pending
      BY <1>4, Numbers
    <3> QED
      BY <1>4, <1>11, <3>1
  <2>6. JobStep(job[j], round[j], row2, rows2)
    BY <1>4, <1>5, <2>1, <2>2, <2>3, <2>4, <2>5, UnleaseStep
  <2> QED
    BY <2>3, <2>6
<1>18. ASSUME NEW s \in {"exhausted", "failed"}, row2 = Stopped(last, s, t)
       PROVE  JobStep(job[j], round[j], row2, rows2) /\ row2.seen = job[j].seen
  <2>1. PICK n \in Rounds : n = job[j].rounds + 1
    BY <1>4, <1>5, RowNumbers, Numbers DEF Rounds
  <2>2. last = [row EXCEPT !.rounds = n]
    BY <1>9, <1>13, <2>1
  <2>3. /\ last \in JobRow /\ last.rounds = n /\ last.unchanged = job[j].unchanged
        /\ last.seen = job[j].seen
    BY <1>8, <1>9, <2>2 DEF JobRow
  <2>4. row2 \in JobRow
    BY <1>4, <1>18, <2>3 DEF Stopped, JobRow, JobStatuses, MaybeTimes
  <2>5. /\ row2.pending = None /\ row2.gen = 0 /\ row2.expires = None
        /\ row2.unchanged = job[j].unchanged /\ row2.rounds = n
        /\ row2.updated = t /\ row2.seen = job[j].seen /\ row2.status = s
    BY <1>18, <2>3 DEF Stopped, JobRow
  <2>6. row2.status \in Terminal /\ row2.status # "active"
    BY <2>5 DEF Terminal
  <2>7. row2.unchanged <= row2.rounds
    BY <1>5, <2>1, <2>5, RowNumbers DEF Sound
  <2>8. PICK c \in Closed : c = "failed"
    BY DEF Closed
  <2>9. rows2 = [round[j] EXCEPT ![job[j].pending].status = c]
    BY <1>15, <2>6, <2>8
  <2>10. JobStep(job[j], round[j], row2, rows2)
    BY <1>4, <1>5, <2>1, <2>4, <2>5, <2>6, <2>7, <2>9, ReportStep
  <2> QED
    BY <2>5, <2>10
<1>19. JobStep(job[j], round[j], row2, rows2) /\ row2.seen = job[j].seen
  BY <1>14, <1>17, <1>18
<1>20. JobsStep /\ \A k \in Jobs : job'[k].seen = job[k].seen
  BY <1>4, <1>16, <1>19, OneJobMoves
<1>21. Idle.from <= target.events /\ Idle.upTo <= target.events
  BY WorkerIs DEF Idle
<1>22. worker' = [worker EXCEPT ![w] = Idle]
  BY <1>1 DEF GoIdle
<1>23. QED
  BY <1>1, <1>20, <1>21, <1>22, IdleIsSound, JobsMove

LEMMA JobsInit == ASSUME JobConstants, Init PROVE JobsInv
<1>1. Types
  <2>1. target \in TargetRow
    BY Numbers DEF Init, TargetRow, Events
  <2>2. spec \in [Jobs -> SpecRow]
    BY DEF Init, SpecRow
  <2>3. PICK row : row = [status |-> "active", wake |-> Anchor, pending |-> None,
                          rounds |-> 0, calls |-> 0, unchanged |-> 0, seen |-> 0,
                          observed |-> FALSE, gen |-> 0, expires |-> None, updated |-> 0]
    OBVIOUS
  <2>4. 0 \in Rounds /\ 0 \in ModelCalls /\ 0 \in Events /\ 0 \in Times /\ Anchor \in Times
    BY Numbers DEF Rounds, ModelCalls, Events
  <2>5. row \in JobRow
    BY <2>3, <2>4 DEF JobRow, JobStatuses, MaybeTimes
  <2>6. job \in [Jobs -> JobRow]
    BY <2>3, <2>5 DEF Init
  <2>7. [status |-> "none", ordinal |-> 0, attempt |-> 0, gen |-> 0] \in RoundRow
    BY <2>4, Numbers DEF RoundRow, RoundStatuses, AttemptCount
  <2>8. round \in [Jobs -> [Times -> RoundRow]]
    BY <2>7 DEF Init
  <2>9. worker \in [Workers -> WorkerRow]
    BY IdleIsSound DEF Init
  <2>10. now \in Moments
    BY Numbers DEF Init
  <2> QED
    BY <2>1, <2>2, <2>6, <2>8, <2>9, <2>10 DEF Types, Init
<1>2. ASSUME NEW j \in Jobs PROVE Sound(job[j], round[j])
  <2>1. /\ job[j].status = "active" /\ job[j].wake = Anchor /\ job[j].pending = None
        /\ job[j].rounds = 0 /\ job[j].unchanged = 0 /\ job[j].gen = 0 /\ job[j].expires = None
    BY DEF Init
  <2>2. \A t \in Times : /\ round[j][t].status = "none" /\ round[j][t].ordinal = 0
                         /\ round[j][t].attempt = 0 /\ round[j][t].gen = 0
    BY DEF Init
  <2>3. \A t \in Times : t # None
    BY Numbers
  <2> QED
    BY <2>1, <2>2, <2>3, Numbers DEF Sound, Terminal, Open
<1>3. \A w \in Workers : WorkerIsSound(worker[w])
  BY IdleIsSound DEF Init
<1>4. EventsHappened
  BY DEF Init, EventsHappened, Idle
<1>5. EventsAreReported
  BY DEF Init, EventsAreReported
<1>6. RunsAreAttempts
  <2>1. IsFiniteSet({}) /\ Cardinality({}) = 0
    BY FS_EmptySet
  <2>2. \A j \in Jobs : \A t \in Times : Executed(j, t, {})
    BY <2>1, IdleIsSound DEF Init, Executed, MayStillExecute, Executing
  <2> QED
    BY <2>2 DEF RunsAreAttempts
<1>7. QED
  BY <1>1, <1>2, <1>3, <1>4, <1>5, <1>6 DEF JobsInv

LEMMA JobsNext == ASSUME JobConstants, JobsInv, [Next]_vars PROVE JobsInv'
<1>1. ASSUME NEW w \in Workers, Poll(w) \/ Crash(w) PROVE JobsInv'
  BY <1>1, ReconcileKeeps, ClaimKeeps, ObserveKeeps, PlacesKeep, ExecuteKeeps, CompleteKeeps,
     FailKeeps, LeavesKeep DEF Poll
<1>2. ASSUME NEW j \in Jobs, Pause(j) \/ Resume(j) \/ Cancel(j) PROVE JobsInv'
  BY <1>2, OperatorsKeep
<1>3. CASE TargetEvent \/ AuthorityEnds \/ Tick \/ ClockStepsBack
  BY <1>3, EnvironmentKeeps
<1>4. CASE UNCHANGED vars
  <2>1. now \in Moments /\ target \in TargetRow /\ target.events \in Nat
    BY Numbers DEF JobsInv, Types, TargetRow, Events
  <2>2. UNCHANGED <<now, target, spec, job, round, worker, reported, runs>>
    BY <1>4 DEF vars
  <2>3. target.events <= target'.events
    BY <2>1, <2>2
  <2> QED
    BY <2>1, <2>2, <2>3, EnvironmentMoves
<1>5. QED
  BY <1>1, <1>2, <1>3, <1>4 DEF Next

LEMMA JobsInvHolds == JobConstants => (Spec => []JobsInv)
<1> SUFFICES ASSUME JobConstants PROVE Spec => []JobsInv
  OBVIOUS
<1>1. Init => JobsInv
  BY JobsInit
<1>2. JobsInv /\ [Next]_vars => JobsInv'
  BY JobsNext
<1>3. QED
  BY <1>1, <1>2, PTL DEF Spec

(***************************************************************************)
(* Theorems.                                                               *)
(***************************************************************************)

\* Rows, copies and histories keep their types, and no counter exceeds its budget: rounds,
\* model calls and attempts are counted within what the specification of a job allows.
THEOREM JobsTypeCorrect == ASSUME JobConstants PROVE Spec => []TypeOK
<1>1. JobsInv => TypeOK
  BY TypesImplyTypeOK DEF JobsInv
<1>2. QED
  BY <1>1, JobsInvHolds, PTL

\* However many workers claim, report late, crash or are paused, a job that may go on has one
\* open round at most, its pending one, claimed while the job has a lease.
THEOREM OneRoundIsAlwaysOpen == ASSUME JobConstants PROVE Spec => []OneOpenRound
<1>1. JobsInv => OneOpenRound
  BY OpenFits DEF JobsInv
<1>2. QED
  BY <1>1, JobsInvHolds, PTL

\* The insert of the next round is never refused, although occurrences come from the schedule,
\* idle backoffs, resumes and a clock that is set back.
THEOREM OccurrencesAreAlwaysNew == ASSUME JobConstants PROVE Spec => []OccurrencesAreNew
<1>1. ASSUME JobsInv PROVE OccurrencesAreNew
  <2>0. DOMAIN job = Jobs /\ \A j \in Jobs : DOMAIN round[j] = Times
    BY <1>1 DEF JobsInv, Types
  <2> SUFFICES ASSUME NEW j \in Jobs, job[j].status = "active", job[j].pending = None
               PROVE  /\ round[j][job[j].wake].status = "none"
                      /\ \A t \in Times : round[j][t].ordinal # job[j].rounds + 1
    BY <2>0 DEF OccurrencesAreNew
  <2>1. job[j] \in JobRow /\ Sound(job[j], round[j])
    BY <1>1, JobIs
  <2>2. job[j].wake \in Times /\ job[j].rounds \in Nat
    BY <2>1, RowNumbers DEF Sound
  <2>3. \A t \in Times : t \in Nat /\ t # None
    BY Numbers
  <2>4. \A t \in Times : round[j][t].status # "none" =>
            t < job[j].wake /\ round[j][t].ordinal <= job[j].rounds
    BY <2>1, <2>3 DEF Sound, Terminal
  <2>5. round[j][job[j].wake].status = "none"
    BY <2>2, <2>3, <2>4
  <2>6. \A t \in Times : round[j][t].ordinal \in Nat
    BY <1>1, Numbers DEF JobsInv, Types, RoundRow, Rounds
  <2>7. \A t \in Times : round[j][t].ordinal <= job[j].rounds
    BY <2>1, <2>2, <2>4 DEF Sound
  <2> QED
    BY <2>2, <2>5, <2>6, <2>7
<1>2. QED
  BY <1>1, JobsInvHolds, PTL

\* Every event up to the one a job remembers was observed by a round that completed.
THEOREM NoEventIsEverSkipped == ASSUME JobConstants PROVE Spec => []NoEventIsSkipped
<1>1. JobsInv => NoEventIsSkipped
  BY DEF JobsInv, Types, EventsAreReported, NoEventIsSkipped
<1>2. QED
  BY <1>1, JobsInvHolds, PTL

\* Takeovers, crashes, pauses and resumes do not run an occurrence more often than its retry
\* policy allows: its runs are runs of different attempts.
THEOREM RunsAreAlwaysBounded == ASSUME JobConstants PROVE Spec => []RunsAreBounded
<1>1. ASSUME JobsInv PROVE RunsAreBounded
  <2> SUFFICES ASSUME NEW j \in Jobs, NEW t \in Times PROVE runs[j][t] <= MaxAttempts
    BY <1>1 DEF RunsAreBounded, JobsInv, Types
  <2>1. PICK S \in SUBSET (1 .. round[j][t].attempt) : Executed(j, t, S)
    BY <1>1 DEF JobsInv, RunsAreAttempts
  <2>2. PICK m \in Nat : m = round[j][t].attempt /\ m <= MaxAttempts
    BY <1>1, Numbers DEF JobsInv, Types, RoundRow, AttemptCount
  <2>3. IsFiniteSet(1 .. m) /\ Cardinality(1 .. m) = m
    BY FS_Interval
  <2>4. Cardinality(S) <= m /\ Cardinality(S) \in Nat
    BY <2>1, <2>2, <2>3, FS_Subset, FS_CardinalityType
  <2> QED
    BY <2>1, <2>2, <2>4, Numbers DEF Executed
<1>2. QED
  BY <1>1, JobsInvHolds, PTL
=============================================================================
