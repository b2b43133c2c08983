-------------------------- MODULE SpecialistsProofs --------------------------
(***************************************************************************)
(* Theorems about Specialists, for any number of children, of processes    *)
(* that schedule them, of leases and of faults.  The ledger of attempts    *)
(* agrees with the children, instructions are read once and in order, the  *)
(* parent is told once of every end, and schedules count their turns,      *)
(* although goroutines outlive the lease under which they were started.    *)
(***************************************************************************)
EXTENDS Specialists, FiniteSetTheorems, SequenceTheorems, NaturalsInduction, TLAPS

(***************************************************************************)
(* Rows.                                                                   *)
(***************************************************************************)

AttemptStatuses == {"running"} \union Ended
Repairs == {"none", "pending", "completed", "exhausted", "aborted"}
AttemptRow == [status : AttemptStatuses, generation : Nat, usage : BOOLEAN, tokens : Nat,
               repair : Repairs]
ChildStatuses == {"ready", "running", "waiting"} \union Terminal
ChildRow == [status : ChildStatuses, turns : 0 .. TurnLimit, tokens : Nat,
             active : 0 .. TurnLimit]
DeliveryRow == [turn : 0 .. TurnLimit, items : SUBSET (1 .. MaxInstructions)]
MessageRow == [from : Children, turn : 1 .. TurnLimit, kind : {"result", "failure"}]
ScheduleRow == [status : {"running", "completed", "failed", "abandoned"}, generation : Nat,
                request : Requests \union {"none"}, rounds : 0 .. MaxRounds, turns : Nat,
                recovered : Nat]
Working == {"recover", "round", "wait", "finish"}
SchedulerRow == [pc : Working \union {"idle", "start", "release"}, row : 0 .. MaxLeases,
                 rounds : 0 .. MaxRounds, turns : Nat, recovered : Nat, failed : BOOLEAN]
WorkerRow == [step : {"idle", "begin", "prepare", "call", "continue", "finish", "fail", "done"},
              turn : 0 .. TurnLimit, failed : BOOLEAN]

\* What TypeOK says, and of every field of a row or of a memory.
LedgerTypes ==
    /\ child \in [Children -> ChildRow] /\ attempt \in [Children -> Seq(AttemptRow)]
    /\ instruction \in [Children -> Seq(0 .. TurnLimit)]
    /\ delivery \in [Children -> DeliveryRow] /\ inbox \in Seq(MessageRow)
    /\ \A c \in Children : Len(instruction[c]) <= MaxInstructions

ProcessTypes ==
    /\ run \in {"running", "paused", "ended"} /\ root \in {"ready", "running"}
    /\ lease \in [holder : Schedulers \union {"none", "root"}, generation : 0 .. MaxLeases]
    /\ requested \in SUBSET Requests /\ schedule \in Seq(ScheduleRow)
    /\ scheduler \in [Schedulers -> SchedulerRow]
    /\ worker \in [Schedulers -> [Children -> WorkerRow]]
    /\ faults \in 0 .. MaxFaults

(***************************************************************************)
(* The inductive invariant.                                                *)
(***************************************************************************)

\* A child and its attempts.
Agrees(node, rows) ==
    /\ node.turns = Len(rows) /\ node.tokens = Used(rows)
    /\ node.active = (IF node.status = "running" THEN Len(rows) ELSE 0)
    /\ \A t \in 1 .. Len(rows) :
           rows[t].status = "running" <=> t = Len(rows) /\ node.status = "running"
    /\ node.status \in {"running", "completed"} => Len(rows) # 0
    /\ node.status = "completed" => rows[Len(rows)].status = "finished"

\* What is prepared is for the turn that runs, and is pending: the oldest instructions.
Delivers(prepared, node, letters) ==
    prepared.turn # 0 =>
        /\ node.status = "running" /\ prepared.turn = node.active
        /\ \A i \in prepared.items :
               /\ i \in 1 .. Len(letters) /\ letters[i] = 0
               /\ \A j \in 1 .. i : letters[j] = 0 => j \in prepared.items

\* Instructions were read in order, by attempts that went on or finished.
Reads(letters, rows) ==
    \A i \in 1 .. Len(letters) : letters[i] # 0 =>
        /\ letters[i] \in 1 .. Len(rows)
        /\ rows[letters[i]].status \in {"continued", "finished"}
        /\ \A j \in 1 .. i : letters[j] # 0 /\ letters[j] <= letters[i]

Sound(c) ==
    /\ Agrees(child[c], attempt[c])
    /\ Delivers(delivery[c], child[c], instruction[c])
    /\ Reads(instruction[c], attempt[c])

\* The messages are of attempts that finished or crashed, of each of them one.
Told(box, rows) ==
    /\ \A n \in 1 .. Len(box) :
           /\ box[n].turn \in 1 .. Len(rows[box[n].from])
           /\ rows[box[n].from][box[n].turn].status \in {"finished", "crashed"}
    /\ \A m, n \in 1 .. Len(box) :
           box[m].from = box[n].from /\ box[m].turn = box[n].turn => m = n
    /\ \A c \in Children : \A t \in 1 .. Len(rows[c]) :
           rows[c][t].status \in {"finished", "crashed"} =>
               \E n \in 1 .. Len(box) : box[n].from = c /\ box[n].turn = t

LedgerInv ==
    /\ LedgerTypes /\ read \in 0 .. Len(inbox)
    /\ \A c \in Children : Sound(c)
    /\ Told(inbox, attempt)

\* The attempts of a table that were begun under a lease.
Turns(table, g) ==
    UNION {{c} \X {t \in DOMAIN table[c] : table[c][t].generation = g} : c \in DOMAIN table}

\* A lease began what bears its generation, and no two schedules are of one lease.
Known(held, rows, table) ==
    /\ Len(rows) <= held.generation
    /\ \A k \in 1 .. Len(rows) : rows[k].generation <= held.generation
    /\ \A j, k \in 1 .. Len(rows) : j < k => rows[j].generation < rows[k].generation
    /\ \A c \in Children : \A t \in 1 .. Len(table[c]) :
           table[c][t].generation <= held.generation

\* What SchedulesCount says.
Counted(rows, table) ==
    \A k \in 1 .. Len(rows) :
        IF rows[k].status = "running" THEN k = Len(rows)
        ELSE rows[k].turns = Cardinality(Turns(table, rows[k].generation))

\* What a process p knows of its lease and of its schedule: a fresh lease has
\* begun nothing, and while the row of the schedule runs, the turns that p
\* has counted and those of its goroutines are what its lease began.
Begun(team) == {c \in Children : team[c].turn # 0}

Knows(p, self, team, held, rows, table) ==
    /\ self.pc \in {"idle", "start"} => self.turns = 0
    /\ self.pc = "start" /\ held.holder = p =>
           /\ Len(rows) < held.generation
           /\ \A k \in 1 .. Len(rows) : rows[k].generation < held.generation
           /\ Turns(table, held.generation) = {}
    /\ self.pc \in Working =>
           /\ self.row \in 1 .. Len(rows)
           /\ held.holder = p => /\ rows[self.row].generation = held.generation
                                 /\ rows[self.row].status = "running"
           /\ rows[self.row].status = "running" =>
                  self.turns + Cardinality(Begun(team))
                      = Cardinality(Turns(table, rows[self.row].generation))

\* Its goroutines live while it waits for them.
Minds(self, team) ==
    /\ self.pc # "wait" => \A c \in Children : team[c] = NoWorker
    /\ self.pc = "wait" => self.rounds < MaxRounds
    /\ \A c \in Children : team[c].step \in {"idle", "begin"} => team[c].turn = 0

\* No two of them work on one schedule.
Apart(selves) ==
    \A p, q \in Schedulers :
        /\ selves[p].pc \in Working /\ selves[q].pc \in Working
        /\ selves[p].row = selves[q].row
        => p = q

ScheduleInv ==
    /\ ProcessTypes
    /\ Known(lease, schedule, attempt) /\ Counted(schedule, attempt) /\ Apart(scheduler)
    /\ \A p \in Schedulers :
           /\ Knows(p, scheduler[p], worker[p], lease, schedule, attempt)
           /\ Minds(scheduler[p], worker[p])

SpecialistsInv == LedgerInv /\ ScheduleInv

(***************************************************************************)
(* What attempts have used up.                                             *)
(***************************************************************************)

\* Induction over the numbers, for a set of them.
LEMMA NaturalsByInduction ==
    ASSUME NEW S, 0 \in S, \A n \in Nat : n \in S => n + 1 \in S
    PROVE  Nat \subseteq S
<1> DEFINE R == OpToRel(<, Nat)
           T == Nat \ S
<1>1. IsWellFoundedOn(R, Nat)
  BY NatLessThanWellFounded
<1>2. \A x, y \in Nat : y < x => <<y, x>> \in R
  BY DEF OpToRel
<1> HIDE DEF R
<1>3. ASSUME T # {} PROVE FALSE
  <2>1. PICK x \in T : \A y \in T : ~(<<y, x>> \in R)
    BY <1>1, <1>3, WFMin
  <2>2. x \in Nat /\ x # 0
    OBVIOUS
  <2>3. x - 1 \in Nat /\ x - 1 < x /\ (x - 1) + 1 = x
    BY <2>2
  <2>4. x - 1 \in S
    BY <1>2, <2>1, <2>2, <2>3
  <2> QED
    BY <2>2, <2>3, <2>4
<1> QED
  BY <1>3

\* f is the function by which Used adds up n attempts.
AddsUp(f, rows, n) ==
    f = [t \in 0 .. n |-> IF t = 0 THEN 0 ELSE f[t - 1] + rows[t].tokens]

LEMMA AddsUpIs ==
    ASSUME NEW f, NEW rows, NEW n \in Nat, AddsUp(f, rows, n)
    PROVE  /\ f[0] = 0
           /\ \A k \in Nat : k + 1 <= n => f[k + 1] = f[k] + rows[k + 1].tokens
<1>1. \A t \in 0 .. n : f[t] = IF t = 0 THEN 0 ELSE f[t - 1] + rows[t].tokens
  BY DEF AddsUp
<1>2. 0 \in 0 .. n
  OBVIOUS
<1>3. ASSUME NEW k \in Nat, k + 1 <= n PROVE f[k + 1] = f[k] + rows[k + 1].tokens
  <2>1. k + 1 \in 0 .. n /\ k + 1 # 0 /\ (k + 1) - 1 = k
    BY <1>3
  <2> QED
    BY <1>1, <2>1
<1> QED
  BY <1>1, <1>2, <1>3

LEMMA AddsUpExists ==
    ASSUME NEW rows, NEW m \in Nat
    PROVE  \E f : AddsUp(f, rows, m)
<1> DEFINE S == {n \in Nat : \E f : AddsUp(f, rows, n)}
<1>1. 0 \in S
  <2>1. AddsUp([t \in 0 .. 0 |-> 0], rows, 0)
    BY DEF AddsUp
  <2> QED
    BY <2>1
<1>2. ASSUME NEW n \in Nat, n \in S PROVE n + 1 \in S
  <2>1. PICK f : AddsUp(f, rows, n)
    BY <1>2
  <2>2. PICK g : g = [t \in 0 .. n + 1 |-> IF t = n + 1 THEN f[n] + rows[n + 1].tokens ELSE f[t]]
    OBVIOUS
  <2>3. \A t \in 0 .. n + 1 : g[t] = IF t = 0 THEN 0 ELSE g[t - 1] + rows[t].tokens
    <3> SUFFICES ASSUME NEW t \in 0 .. n + 1
                 PROVE  g[t] = IF t = 0 THEN 0 ELSE g[t - 1] + rows[t].tokens
      OBVIOUS
    <3>1. CASE t = 0
      BY <2>1, <2>2, <3>1, AddsUpIs
    <3>2. CASE t # 0 /\ t # n + 1
      <4>1. /\ t - 1 \in Nat /\ (t - 1) + 1 = t /\ t <= n /\ t - 1 \in 0 .. n + 1
            /\ t - 1 # n + 1
        BY <3>2
      <4>2. f[t] = f[t - 1] + rows[t].tokens
        BY <2>1, <4>1, AddsUpIs
      <4> QED
        BY <2>2, <3>2, <4>1, <4>2
    <3>3. CASE t = n + 1
      <4>1. (n + 1) - 1 = n /\ n \in 0 .. n + 1 /\ n # n + 1 /\ n + 1 # 0
        OBVIOUS
      <4> QED
        BY <2>2, <3>3, <4>1
    <3> QED
      BY <3>1, <3>2, <3>3
  <2>4. DOMAIN g = 0 .. n + 1 /\ g = [t \in DOMAIN g |-> g[t]]
    BY <2>2
  <2>5. AddsUp(g, rows, n + 1)
    BY <2>3, <2>4 DEF AddsUp
  <2> QED
    BY <2>5
<1> HIDE DEF S
<1>3. Nat \subseteq S
  BY <1>1, <1>2, NaturalsByInduction
<1>4. m \in S
  BY <1>3
<1> QED
  BY <1>4 DEF S

LEMMA UsedIs ==
    ASSUME NEW rows, Len(rows) \in Nat
    PROVE  \E f : AddsUp(f, rows, Len(rows)) /\ Used(rows) = f[Len(rows)]
<1> DEFINE f == CHOOSE f : AddsUp(f, rows, Len(rows))
<1>1. AddsUp(f, rows, Len(rows))
  BY AddsUpExists
<1>2. Used(rows) = f[Len(rows)]
  BY DEF Used, AddsUp
<1> QED
  BY <1>1, <1>2

SameTokens(old, new, n) ==
    \A t \in 1 .. n : old[t].tokens \in Nat /\ old[t].tokens = new[t].tokens

\* The sum of the first k attempts is a number, and theirs alone.
LEMMA AddsUpAgrees ==
    ASSUME NEW old, NEW new, NEW n \in Nat, NEW m \in Nat, NEW k \in Nat, k <= n, k <= m,
           SameTokens(old, new, k), NEW f, AddsUp(f, old, n), NEW g, AddsUp(g, new, m)
    PROVE  f[k] = g[k] /\ f[k] \in Nat
<1> DEFINE S == {j \in Nat : j <= k => f[j] = g[j] /\ f[j] \in Nat}
<1>1. 0 \in S
  BY AddsUpIs
<1>2. ASSUME NEW j \in Nat, j \in S PROVE j + 1 \in S
  <2>1. CASE j + 1 <= k
    <3>1. j <= k /\ j + 1 <= n /\ j + 1 <= m /\ j + 1 \in 1 .. k
      BY <2>1
    <3>2. f[j] = g[j] /\ f[j] \in Nat
      BY <1>2, <3>1
    <3>3. f[j + 1] = f[j] + old[j + 1].tokens /\ g[j + 1] = g[j] + new[j + 1].tokens
      BY <3>1, AddsUpIs
    <3>4. old[j + 1].tokens \in Nat /\ old[j + 1].tokens = new[j + 1].tokens
      BY <3>1 DEF SameTokens
    <3> QED
      BY <3>1, <3>2, <3>3, <3>4
  <2> QED
    BY <2>1
<1> HIDE DEF S
<1>3. k \in S
  BY <1>1, <1>2, NaturalsByInduction
<1> QED
  BY <1>3 DEF S

LEMMA RowTypes ==
    ASSUME NEW rows \in Seq(AttemptRow)
    PROVE  /\ Len(rows) \in Nat
           /\ \A t \in 1 .. Len(rows) :
                  rows[t] \in AttemptRow /\ rows[t].tokens \in Nat /\ rows[t].generation \in Nat
<1>1. \A row \in AttemptRow : row.tokens \in Nat /\ row.generation \in Nat
  BY DEF AttemptRow
<1>2. \A t \in 1 .. Len(rows) : rows[t] \in AttemptRow
  BY ElementOfSeq
<1> QED
  BY <1>1, <1>2

\* It does not depend on anything but the tokens.
LEMMA UsedSame ==
    ASSUME NEW old \in Seq(AttemptRow), NEW new \in Seq(AttemptRow), Len(new) = Len(old),
           \A t \in 1 .. Len(old) : new[t].tokens = old[t].tokens
    PROVE  Used(new) = Used(old)
<1>1. PICK n \in Nat : n = Len(old) /\ n <= n
  BY RowTypes
<1>2. PICK f : AddsUp(f, old, n) /\ Used(old) = f[n]
  BY <1>1, UsedIs
<1>3. PICK g : AddsUp(g, new, n) /\ Used(new) = g[n]
  BY <1>1, UsedIs
<1>4. SameTokens(old, new, n)
  BY <1>1, RowTypes DEF SameTokens
<1>5. f[n] = g[n]
  BY <1>1, <1>2, <1>3, <1>4, AddsUpAgrees
<1> QED
  BY <1>2, <1>3, <1>5

\* The last attempt adds its tokens to those of the others.
LEMMA UsedLast ==
    ASSUME NEW old \in Seq(AttemptRow), NEW new \in Seq(AttemptRow), Len(new) = Len(old) + 1,
           \A t \in 1 .. Len(old) : new[t].tokens = old[t].tokens
    PROVE  Used(old) \in Nat /\ Used(new) = Used(old) + new[Len(new)].tokens
<1>1. PICK n \in Nat : n = Len(old) /\ n <= n /\ n <= n + 1 /\ n + 1 \in Nat
  BY RowTypes
<1>2. PICK f : AddsUp(f, old, n) /\ Used(old) = f[n]
  BY <1>1, UsedIs
<1>3. PICK g : AddsUp(g, new, n + 1) /\ Used(new) = g[n + 1]
  BY <1>1, UsedIs
<1>4. SameTokens(old, new, n)
  BY <1>1, RowTypes DEF SameTokens
<1>5. f[n] = g[n] /\ f[n] \in Nat
  BY <1>1, <1>2, <1>3, <1>4, AddsUpAgrees
<1>6. g[n + 1] = g[n] + new[n + 1].tokens
  BY <1>3, AddsUpIs
<1> QED
  BY <1>1, <1>2, <1>3, <1>5, <1>6

(***************************************************************************)
(* One row is replaced.                                                    *)
(***************************************************************************)

Replaces(old, new, t, row) ==
    /\ new \in Seq(AttemptRow) /\ Len(new) = Len(old) /\ new[t] = row
    /\ \A k \in 1 .. Len(old) : k # t => new[k] = old[k]

\* An answer is charged to the last attempt.
LEMMA UsedCharged ==
    ASSUME NEW old \in Seq(AttemptRow), Len(old) # 0, NEW row \in AttemptRow, NEW new,
           Replaces(old, new, Len(old), row), NEW cost \in Nat,
           row.tokens = old[Len(old)].tokens + cost
    PROVE  Used(new) = Used(old) + cost
<1>1. PICK n \in Nat : Len(old) = n + 1 /\ n <= Len(old)
  <2>1. Len(old) \in Nat
    BY RowTypes
  <2>2. Len(old) - 1 \in Nat /\ Len(old) = (Len(old) - 1) + 1 /\ Len(old) - 1 <= Len(old)
    BY <2>1
  <2> WITNESS Len(old) - 1 \in Nat
  <2> QED
    BY <2>2
<1>2. PICK part : part = SubSeq(old, 1, n)
  OBVIOUS
<1>3. \A t \in 1 .. n : t \in 1 .. Len(old) /\ t # Len(old)
  BY <1>1
<1>4. part \in Seq(AttemptRow) /\ Len(part) = n /\ \A t \in 1 .. n : part[t] = old[t]
  BY <1>1, <1>2, <1>3
<1>5. new \in Seq(AttemptRow) /\ Len(new) = n + 1 /\ new[n + 1] = row
      /\ \A t \in 1 .. n : new[t] = old[t]
  BY <1>1, <1>3 DEF Replaces
<1>6. Used(part) \in Nat /\ Used(old) = Used(part) + old[n + 1].tokens
  BY <1>1, <1>4, UsedLast
<1>7. Used(new) = Used(part) + new[n + 1].tokens
  BY <1>4, <1>5, UsedLast
<1>8. old[n + 1].tokens \in Nat
  BY <1>1, RowTypes
<1> QED
  BY <1>1, <1>5, <1>6, <1>7, <1>8

(***************************************************************************)
(* A child and its attempts.                                               *)
(***************************************************************************)

LEMMA AgreesBegins ==
    ASSUME NEW node \in ChildRow, NEW old \in Seq(AttemptRow), Agrees(node, old),
           node.status = "ready", NEW row \in AttemptRow, row.status = "running",
           row.tokens = 0, NEW next, next.status = "running", next.turns = node.turns + 1,
           next.active = node.turns + 1, next.tokens = node.tokens
    PROVE  Agrees(next, Append(old, row))
<1>1. PICK new : new = Append(old, row)
  OBVIOUS
<1>2. /\ new \in Seq(AttemptRow) /\ Len(new) = Len(old) + 1 /\ new[Len(new)] = row
      /\ \A t \in 1 .. Len(old) : new[t] = old[t]
  BY <1>1
<1>3. Len(old) \in Nat /\ node.turns = Len(old) /\ node.tokens = Used(old)
  BY RowTypes DEF Agrees
<1>4. next.tokens = Used(new)
  BY <1>2, <1>3, UsedLast
<1>5. ASSUME NEW t \in 1 .. Len(new)
      PROVE  new[t].status = "running" <=> t = Len(new)
  <2>1. CASE t = Len(new)
    BY <1>2, <2>1
  <2>2. CASE t # Len(new)
    <3>1. t \in 1 .. Len(old)
      BY <1>2, <1>3, <1>5, <2>2
    <3>2. old[t].status # "running"
      BY <3>1 DEF Agrees
    <3> QED
      BY <1>2, <2>2, <3>1, <3>2
  <2> QED
    BY <2>1, <2>2
<1>6. Agrees(next, new)
  BY <1>2, <1>3, <1>4, <1>5 DEF Agrees
<1> QED
  BY <1>1, <1>6

LEMMA AgreesCharged ==
    ASSUME NEW node \in ChildRow, NEW old \in Seq(AttemptRow), Agrees(node, old),
           node.status = "running", NEW row \in AttemptRow, NEW cost \in Nat,
           row.status = old[Len(old)].status, row.tokens = old[Len(old)].tokens + cost,
           NEW new, Replaces(old, new, Len(old), row),
           NEW next, next.status = node.status, next.turns = node.turns,
           next.active = node.active, next.tokens = node.tokens + cost
    PROVE  Agrees(next, new)
<1>1. Len(old) \in Nat /\ Len(old) # 0 /\ node.turns = Len(old) /\ node.tokens = Used(old)
      /\ node.active = Len(old)
  BY RowTypes DEF Agrees
<1>2. Used(new) = Used(old) + cost
  BY <1>1, UsedCharged
<1>3. Len(new) = Len(old) /\ new[Len(old)] = row
      /\ \A k \in 1 .. Len(old) : k # Len(old) => new[k] = old[k]
  BY DEF Replaces
<1>4. \A t \in 1 .. Len(old) : old[t].status = "running" <=> t = Len(old)
  BY DEF Agrees
<1> QED
  BY <1>1, <1>2, <1>3, <1>4 DEF Agrees

LEMMA AgreesEnds ==
    ASSUME NEW node \in ChildRow, NEW old \in Seq(AttemptRow), Agrees(node, old),
           node.status = "running", NEW row \in AttemptRow, row.status # "running",
           row.tokens = old[Len(old)].tokens,
           NEW new, Replaces(old, new, Len(old), row),
           NEW next, next.status # "running", next.turns = node.turns, next.active = 0,
           next.tokens = node.tokens, next.status = "completed" => row.status = "finished"
    PROVE  Agrees(next, new)
<1>1. Len(old) \in Nat /\ Len(old) # 0 /\ node.turns = Len(old) /\ node.tokens = Used(old)
      /\ node.active = Len(old)
  BY RowTypes DEF Agrees
<1>2. new \in Seq(AttemptRow) /\ Len(new) = Len(old) /\ new[Len(old)] = row
      /\ \A k \in 1 .. Len(old) : k # Len(old) => new[k] = old[k]
  BY DEF Replaces
<1>3. \A t \in 1 .. Len(old) : new[t].tokens = old[t].tokens
  BY <1>2
<1>4. Used(new) = Used(old)
  BY <1>2, <1>3, UsedSame
<1>5. \A t \in 1 .. Len(old) : old[t].status = "running" <=> t = Len(old)
  BY DEF Agrees
<1>6. \A t \in 1 .. Len(old) : new[t].status # "running"
  BY <1>2, <1>5
<1> QED
  BY <1>1, <1>2, <1>4, <1>6 DEF Agrees

LEMMA AgreesRests ==
    ASSUME NEW node \in ChildRow, NEW rows, Agrees(node, rows), node.status # "running",
           NEW next, next.status \notin {"running", "completed"}, next.turns = node.turns,
           next.active = 0, next.tokens = node.tokens
    PROVE  Agrees(next, rows)
  BY DEF Agrees

(***************************************************************************)
(* Instructions and their deliveries.                                      *)
(***************************************************************************)

\* An attempt that runs has read nothing, so that it may end in any way.
LEMMA ReadsReplaced ==
    ASSUME NEW letters \in Seq(0 .. TurnLimit), NEW old, Reads(letters, old), NEW new, NEW t,
           NEW row, Replaces(old, new, t, row), old[t].status = "running"
    PROVE  Reads(letters, new)
<1> SUFFICES ASSUME NEW i \in 1 .. Len(letters), letters[i] # 0
             PROVE  /\ letters[i] \in 1 .. Len(new)
                    /\ new[letters[i]].status \in {"continued", "finished"}
                    /\ \A j \in 1 .. i : letters[j] # 0 /\ letters[j] <= letters[i]
  BY DEF Reads
<1>1. /\ letters[i] \in 1 .. Len(old)
      /\ old[letters[i]].status \in {"continued", "finished"}
      /\ \A j \in 1 .. i : letters[j] # 0 /\ letters[j] <= letters[i]
  BY DEF Reads
<1>2. letters[i] # t
  BY <1>1
<1> QED
  BY <1>1, <1>2 DEF Replaces

LEMMA ReadsAppended ==
    ASSUME NEW letters, NEW old \in Seq(AttemptRow), Reads(letters, old),
           NEW row \in AttemptRow
    PROVE  Reads(letters, Append(old, row))
<1>1. Len(old) \in Nat /\ Len(Append(old, row)) = Len(old) + 1
      /\ \A t \in 1 .. Len(old) : Append(old, row)[t] = old[t]
  OBVIOUS
<1>2. 1 .. Len(old) \subseteq 1 .. Len(Append(old, row))
  BY <1>1
<1> QED
  BY <1>1, <1>2 DEF Reads

\* One more instruction is pending.
LEMMA LettersAppended ==
    ASSUME NEW letters \in Seq(0 .. TurnLimit), 0 \in 0 .. TurnLimit, NEW rows,
           NEW prepared, NEW node, Reads(letters, rows), Delivers(prepared, node, letters)
    PROVE  Reads(Append(letters, 0), rows) /\ Delivers(prepared, node, Append(letters, 0))
<1>1. PICK more : more = Append(letters, 0)
  OBVIOUS
<1>2. /\ Len(letters) \in Nat /\ Len(more) = Len(letters) + 1 /\ more[Len(letters) + 1] = 0
      /\ \A i \in 1 .. Len(letters) : more[i] = letters[i]
  BY <1>1
<1>3. \A i \in 1 .. Len(more) : i \in 1 .. Len(letters) \/ i = Len(letters) + 1
  BY <1>2
<1>4. \A i \in 1 .. Len(letters) : \A j \in 1 .. i : j \in 1 .. Len(letters)
  BY <1>2
<1>5. Reads(more, rows)
  BY <1>2, <1>3, <1>4 DEF Reads
<1>6. 1 .. Len(letters) \subseteq 1 .. Len(more)
  BY <1>2
<1>7. Delivers(prepared, node, more)
  BY <1>2, <1>4, <1>6 DEF Delivers
<1> QED
  BY <1>1, <1>5, <1>7

LEMMA FunctionIsSeq ==
    ASSUME NEW S, NEW n \in Nat, NEW f \in [1 .. n -> S]
    PROVE  f \in Seq(S) /\ Len(f) = n
  OBVIOUS

\* What was prepared is read by the last attempt, when it goes on or finishes.
Consumed(letters, prepared, t) ==
    [i \in DOMAIN letters |-> IF prepared.turn = t /\ i \in prepared.items THEN t ELSE letters[i]]

LEMMA LettersCommitted ==
    ASSUME NEW letters \in Seq(0 .. TurnLimit), NEW old \in Seq(AttemptRow), Reads(letters, old),
           NEW node, NEW prepared, Delivers(prepared, node, letters),
           node.active = Len(old), old[Len(old)].status = "running", Len(old) \in 1 .. TurnLimit,
           NEW row, row.status \in {"continued", "finished"},
           NEW new, Replaces(old, new, Len(old), row),
           NEW more, more = Consumed(letters, prepared, Len(old))
    PROVE  more \in Seq(0 .. TurnLimit) /\ Len(more) = Len(letters) /\ Reads(more, new)
<1>1. Len(letters) \in Nat /\ DOMAIN letters = 1 .. Len(letters)
      /\ \A i \in 1 .. Len(letters) : letters[i] \in 0 .. TurnLimit
  BY ElementOfSeq, LenProperties
<1>2. Len(old) \in Nat /\ Len(old) # 0
  BY RowTypes
<1>3. \A i \in 1 .. Len(letters) :
          /\ more[i] \in 0 .. TurnLimit
          /\ more[i] = IF prepared.turn = Len(old) /\ i \in prepared.items THEN Len(old)
                       ELSE letters[i]
  BY <1>1, <1>2 DEF Consumed
<1>4. more \in [1 .. Len(letters) -> 0 .. TurnLimit]
  BY <1>1, <1>3 DEF Consumed
<1>5. more \in Seq(0 .. TurnLimit) /\ Len(more) = Len(letters)
  <2>1. PICK n \in Nat : n = Len(letters)
    BY <1>1
  <2>2. more \in [1 .. n -> 0 .. TurnLimit]
    BY <1>4, <2>1
  <2>3. PICK S : S = 0 .. TurnLimit
    OBVIOUS
  <2>4. more \in [1 .. n -> S]
    BY <2>2, <2>3
  <2>5. more \in Seq(S) /\ Len(more) = n
    BY <2>4, FunctionIsSeq
  <2> QED
    BY <2>1, <2>3, <2>5
<1>6. Reads(letters, new)
  BY ReadsReplaced
<1>7. /\ Len(new) = Len(old) /\ new[Len(old)] = row /\ Len(old) \in 1 .. Len(new)
  BY <1>2 DEF Replaces
<1>8. \A i \in 1 .. Len(letters) : letters[i] # 0 => letters[i] <= Len(old)
  BY <1>1, <1>2 DEF Reads
<1>9. Reads(more, new)
  <2> SUFFICES ASSUME NEW i \in 1 .. Len(letters), more[i] # 0
               PROVE  /\ more[i] \in 1 .. Len(new)
                      /\ new[more[i]].status \in {"continued", "finished"}
                      /\ \A j \in 1 .. i : more[j] # 0 /\ more[j] <= more[i]
    BY <1>5 DEF Reads
  <2>1. \A j \in 1 .. i : j \in 1 .. Len(letters)
    BY <1>1
  <2>2. CASE more[i] = Len(old) /\ prepared.turn = Len(old) /\ i \in prepared.items
    <3>1. ASSUME NEW j \in 1 .. i PROVE more[j] # 0 /\ more[j] <= Len(old)
      <4>1. j \in 1 .. Len(letters)
        BY <2>1, <3>1
      <4>2. CASE letters[j] = 0
        <5>1. j \in prepared.items
          BY <1>2, <2>2, <3>1, <4>2 DEF Delivers
        <5> QED
          BY <1>2, <1>3, <2>2, <4>1, <5>1
      <4>3. CASE letters[j] # 0
        BY <1>2, <1>3, <1>8, <4>1, <4>3
      <4> QED
        BY <4>2, <4>3
    <3> QED
      BY <1>7, <2>2, <3>1
  <2>3. CASE ~(prepared.turn = Len(old) /\ i \in prepared.items)
    <3>1. more[i] = letters[i]
      BY <1>3, <2>3
    <3>2. /\ letters[i] \in 1 .. Len(new) /\ new[letters[i]].status \in {"continued", "finished"}
          /\ \A j \in 1 .. i : letters[j] # 0 /\ letters[j] <= letters[i]
      BY <1>6, <3>1 DEF Reads
    <3>3. \A j \in 1 .. i : more[j] = letters[j]
      <4> SUFFICES ASSUME NEW j \in 1 .. i PROVE more[j] = letters[j]
        OBVIOUS
      <4>1. letters[j] # 0 /\ j \in 1 .. Len(letters)
        BY <2>1, <3>2
      <4>2. ~(prepared.turn = Len(old) /\ j \in prepared.items)
        BY <1>2, <4>1 DEF Delivers
      <4> QED
        BY <1>3, <4>1, <4>2
    <3> QED
      BY <3>1, <3>2, <3>3
  <2> QED
    BY <1>3, <2>2, <2>3
<1> QED
  BY <1>5, <1>9

(***************************************************************************)
(* Messages to the parent.                                                 *)
(***************************************************************************)

\* A finite set is enumerated without repetition.
LEMMA SetToSeqEnumerates ==
    ASSUME NEW S, IsFiniteSet(S)
    PROVE  /\ SetToSeq(S) \in Seq(S) /\ Len(SetToSeq(S)) = Cardinality(S)
           /\ \A i, j \in 1 .. Len(SetToSeq(S)) : SetToSeq(S)[i] = SetToSeq(S)[j] => i = j
           /\ \A x \in S : \E i \in 1 .. Len(SetToSeq(S)) : SetToSeq(S)[i] = x
<1>1. PICK n \in Nat : n = Cardinality(S)
  BY FS_CardinalityType
<1>2. \E f \in [1 .. n -> S] : IsInjective(f)
  BY <1>1, FS_CardinalityType DEF ExistsBijection, Bijection, Injection
<1>3. PICK f : f = SetToSeq(S)
  OBVIOUS
<1>4. f \in [1 .. n -> S] /\ IsInjective(f)
  BY <1>1, <1>2, <1>3 DEF SetToSeq
<1>5. f \in Seq(S) /\ Len(f) = n /\ DOMAIN f = 1 .. n
  BY <1>4
<1>6. f \in Injection(1 .. n, S)
  BY <1>4 DEF Injection
<1>7. Cardinality(1 .. n) = n
  BY FS_Interval
<1>8. f \in Surjection(1 .. n, S)
  BY <1>1, <1>6, <1>7, FS_Injection
<1> QED
  BY <1>1, <1>3, <1>4, <1>5, <1>8 DEF IsInjective, Surjection

Reported(status) == status \in {"finished", "crashed"}

LEMMA ToldOf ==
    ASSUME NEW box, NEW rows, Told(box, rows), NEW c \in Children, NEW t \in 1 .. Len(rows[c]),
           Reported(rows[c][t].status)
    PROVE  \E n \in 1 .. Len(box) : box[n].from = c /\ box[n].turn = t
  BY DEF Told, Reported

\* No attempt comes to an end of which the parent is told.
LEMMA ToldStays ==
    ASSUME NEW box, (\A n \in 1 .. Len(box) : box[n].from \in Children), NEW old, NEW new,
           Told(box, old),
           \A c \in Children :
               /\ 1 .. Len(old[c]) \subseteq 1 .. Len(new[c])
               /\ \A t \in 1 .. Len(old[c]) :
                      Reported(new[c][t].status) <=> Reported(old[c][t].status)
               /\ \A t \in 1 .. Len(new[c]) :
                      t \in 1 .. Len(old[c]) \/ ~Reported(new[c][t].status)
    PROVE  Told(box, new)
<1>1. ASSUME NEW n \in 1 .. Len(box)
      PROVE  /\ box[n].turn \in 1 .. Len(new[box[n].from])
             /\ Reported(new[box[n].from][box[n].turn].status)
  <2>1. PICK c \in Children : c = box[n].from
    OBVIOUS
  <2>2. PICK t \in 1 .. Len(old[c]) : t = box[n].turn /\ Reported(old[c][t].status)
    BY <2>1 DEF Told, Reported
  <2>3. t \in 1 .. Len(new[c]) /\ Reported(new[c][t].status)
    BY <2>2
  <2> QED
    BY <2>1, <2>2, <2>3
<1>2. ASSUME NEW m \in 1 .. Len(box), NEW n \in 1 .. Len(box), box[m].from = box[n].from,
             box[m].turn = box[n].turn
      PROVE  m = n
  BY <1>2 DEF Told
<1>3. ASSUME NEW c \in Children, NEW t \in 1 .. Len(new[c]), Reported(new[c][t].status)
      PROVE  \E n \in 1 .. Len(box) : box[n].from = c /\ box[n].turn = t
  <2>1. t \in 1 .. Len(old[c]) /\ Reported(old[c][t].status)
    BY <1>3
  <2> QED
    BY <2>1, ToldOf
<1>4. QED
  BY <1>1, <1>2, <1>3 DEF Told, Reported

\* The last attempts of the children in S come to such an end, and news tells of each.
Joins(all, box, news) == all = box \o news

Announces(news, S, last, old, new) ==
    /\ \A c \in Children : Len(new[c]) = Len(old[c])
    /\ \A c \in Children : \A t \in 1 .. Len(old[c]) : ~(c \in S /\ t = last[c]) =>
           (Reported(new[c][t].status) <=> Reported(old[c][t].status))
    /\ \A c \in S : /\ last[c] \in 1 .. Len(old[c]) /\ ~Reported(old[c][last[c]].status)
                     /\ Reported(new[c][last[c]].status)
    /\ \A n \in 1 .. Len(news) : news[n].from \in S /\ news[n].turn = last[news[n].from]
    /\ \A m, n \in 1 .. Len(news) : news[m].from = news[n].from => m = n
    /\ \A c \in S : \E n \in 1 .. Len(news) : news[n].from = c

LEMMA ToldMore ==
    ASSUME NEW box \in Seq(MessageRow), NEW news \in Seq(MessageRow), NEW old, NEW new,
           NEW S \in SUBSET Children, NEW last, Told(box, old), Announces(news, S, last, old, new),
           NEW all, Joins(all, box, news)
    PROVE  all \in Seq(MessageRow) /\ Len(all) = Len(box) + Len(news) /\ Told(all, new)
<1>1. /\ \A c \in Children : Len(new[c]) = Len(old[c])
      /\ \A c \in Children : \A t \in 1 .. Len(old[c]) : ~(c \in S /\ t = last[c]) =>
             (Reported(new[c][t].status) <=> Reported(old[c][t].status))
      /\ \A c \in S : /\ last[c] \in 1 .. Len(old[c]) /\ ~Reported(old[c][last[c]].status)
                       /\ Reported(new[c][last[c]].status)
      /\ \A n \in 1 .. Len(news) : news[n].from \in S /\ news[n].turn = last[news[n].from]
      /\ \A m, n \in 1 .. Len(news) : news[m].from = news[n].from => m = n
      /\ \A c \in S : \E n \in 1 .. Len(news) : news[n].from = c
  BY DEF Announces
<1>2. PICK b \in Nat, k \in Nat : b = Len(box) /\ k = Len(news)
  BY LenProperties
<1>3. /\ all \in Seq(MessageRow) /\ Len(all) = b + k
      /\ \A i \in 1 .. b + k : all[i] = IF i <= b THEN box[i] ELSE news[i - b]
  BY <1>2, ConcatProperties DEF Joins
<1>4. \A i \in 1 .. b : i \in 1 .. b + k /\ all[i] = box[i]
  BY <1>3
<1>5. \A i \in 1 .. k : i + b \in 1 .. b + k /\ all[i + b] = news[i]
  BY <1>3
<1>6. \A i \in 1 .. b + k : i \in 1 .. b \/ (i - b \in 1 .. k /\ i = (i - b) + b)
  OBVIOUS
<1>7. \A i \in 1 .. b :
          /\ box[i].from \in Children /\ box[i].turn \in 1 .. Len(old[box[i].from])
          /\ Reported(old[box[i].from][box[i].turn].status)
          /\ ~(box[i].from \in S /\ box[i].turn = last[box[i].from])
  <2>1. \A i \in 1 .. b : box[i] \in MessageRow
    BY <1>2, ElementOfSeq
  <2>2. \A i \in 1 .. b : box[i].from \in Children
    BY <2>1 DEF MessageRow
  <2>3. \A i \in 1 .. b : /\ box[i].turn \in 1 .. Len(old[box[i].from])
                          /\ Reported(old[box[i].from][box[i].turn].status)
    BY <1>2 DEF Told, Reported
  <2>4. \A c \in S : ~Reported(old[c][last[c]].status)
    BY <1>1
  <2> QED
    BY <2>2, <2>3, <2>4
<1>8. \A c \in Children : \A t \in 1 .. Len(old[c]) :
           Reported(old[c][t].status) /\ ~(c \in S /\ t = last[c]) =>
               t \in 1 .. Len(new[c]) /\ Reported(new[c][t].status)
  BY <1>1
<1>9. \A i \in 1 .. k : /\ news[i].from \in S /\ news[i].turn = last[news[i].from]
                         /\ \A j \in 1 .. k : news[i].from = news[j].from => i = j
  BY <1>1, <1>2
<1>10. \A c \in S : last[c] \in 1 .. Len(new[c]) /\ Reported(new[c][last[c]].status)
  BY <1>1
<1>11. ASSUME NEW i \in 1 .. b + k
      PROVE  /\ all[i].turn \in 1 .. Len(new[all[i].from])
             /\ Reported(new[all[i].from][all[i].turn].status)
  <2>1. CASE i \in 1 .. b
    <3>1. PICK c, t : c \in Children /\ c = box[i].from /\ t = box[i].turn
      BY <1>7, <2>1
    <3>2. t \in 1 .. Len(new[c]) /\ Reported(new[c][t].status)
      BY <1>7, <1>8, <2>1, <3>1
    <3> QED
      BY <1>4, <2>1, <3>1, <3>2
  <2>2. CASE i - b \in 1 .. k /\ i = (i - b) + b
    <3>1. PICK j \in 1 .. k : i = j + b
      BY <2>2
    <3>2. PICK c \in S : c = news[j].from /\ news[j].turn = last[c]
      BY <1>9
    <3>3. all[i].from = c /\ all[i].turn = last[c]
      BY <1>5, <3>1, <3>2
    <3>4. last[c] \in 1 .. Len(new[c]) /\ Reported(new[c][last[c]].status)
      BY <1>10
    <3> QED
      BY <3>3, <3>4
  <2> QED
    BY <1>6, <2>1, <2>2
<1>12. ASSUME NEW i \in 1 .. b + k, NEW j \in 1 .. b + k, all[i].from = all[j].from,
             all[i].turn = all[j].turn
      PROVE  i = j
  <2>1. CASE i \in 1 .. b /\ j \in 1 .. b
    BY <1>2, <1>4, <1>12, <2>1 DEF Told
  <2>2. ASSUME NEW m \in 1 .. k, i = m + b, NEW n \in 1 .. k, j = n + b PROVE i = j
    <3>1. all[i] = news[m] /\ all[j] = news[n]
      BY <1>5, <2>2
    <3>2. m = n
      BY <1>9, <1>12, <3>1
    <3> QED
      BY <2>2, <3>2
  <2>3. ASSUME NEW m \in 1 .. b, NEW n \in 1 .. k,
               all[m].from = all[n + b].from, all[m].turn = all[n + b].turn
        PROVE  FALSE
    <3>1. all[m] = box[m] /\ all[n + b] = news[n]
      BY <1>4, <1>5
    <3>2. box[m].from \in S /\ box[m].turn = last[box[m].from]
      BY <1>9, <2>3, <3>1
    <3> QED
      BY <1>7, <3>2
  <2>4. CASE i \in 1 .. b /\ j \notin 1 .. b
    <3>1. PICK n \in 1 .. k : j = n + b
      BY <1>6, <2>4
    <3> QED
      BY <1>12, <2>3, <2>4, <3>1
  <2>5. CASE i \notin 1 .. b /\ j \in 1 .. b
    <3>1. PICK n \in 1 .. k : i = n + b
      BY <1>6, <2>5
    <3> QED
      BY <1>12, <2>3, <2>5, <3>1
  <2>6. CASE i \notin 1 .. b /\ j \notin 1 .. b
    <3>1. PICK m \in 1 .. k : i = m + b
      BY <1>6, <2>6
    <3>2. PICK n \in 1 .. k : j = n + b
      BY <1>6, <2>6
    <3> QED
      BY <2>2, <3>1, <3>2
  <2> QED
    BY <2>1, <2>4, <2>5, <2>6
<1>13. ASSUME NEW c \in Children, NEW t \in 1 .. Len(new[c]), Reported(new[c][t].status)
       PROVE  \E n \in 1 .. b + k : all[n].from = c /\ all[n].turn = t
  <2>1. CASE c \in S /\ t = last[c]
    <3>1. PICK n \in 1 .. k : news[n].from = c
      BY <1>1, <1>2, <2>1
    <3>2. news[n].turn = t
      BY <1>1, <1>2, <2>1, <3>1
    <3> QED
      BY <1>5, <3>1, <3>2
  <2>2. CASE ~(c \in S /\ t = last[c])
    <3>1. t \in 1 .. Len(old[c]) /\ Reported(old[c][t].status)
      BY <1>1, <1>13, <2>2
    <3>2. \E n \in 1 .. Len(box) : box[n].from = c /\ box[n].turn = t
      BY <3>1, ToldOf
    <3>3. PICK n \in 1 .. b : box[n].from = c /\ box[n].turn = t
      BY <1>2, <3>2
    <3> QED
      BY <1>4, <3>3
  <2> QED
    BY <2>1, <2>2
<1>14. Told(all, new)
  BY <1>3, <1>11, <1>12, <1>13 DEF Told, Reported
<1> QED
  BY <1>2, <1>3, <1>14

(***************************************************************************)
(* Steps of the ledger.                                                    *)
(***************************************************************************)

LEMMA Numbers ==
    ASSUME SpecialistConstants
    PROVE  /\ TurnLimit \in Nat \ {0} /\ MaxRounds \in Nat \ {0} /\ MaxLeases \in Nat
           /\ MaxInstructions \in Nat /\ MaxFaults \in Nat /\ Tokens \subseteq Nat
           /\ Batch \in Nat \ {0} /\ 0 \in 0 .. TurnLimit /\ IsFiniteSet(Children)
           /\ "none" \notin Schedulers /\ "root" \notin Schedulers
  BY DEF SpecialistConstants

\* Of a table of attempts one row is replaced.
LEMMA TableReplaced ==
    ASSUME NEW old \in [Children -> Seq(AttemptRow)], NEW c \in Children,
           NEW t \in 1 .. Len(old[c]), NEW row \in AttemptRow,
           NEW new, new = [old EXCEPT ![c] = [@ EXCEPT ![t] = row]]
    PROVE  /\ new \in [Children -> Seq(AttemptRow)] /\ Replaces(old[c], new[c], t, row)
           /\ \A d \in Children : d # c => new[d] = old[d]
<1>1. PICK rows \in Seq(AttemptRow) : rows = old[c]
  OBVIOUS
<1>2. PICK more : more = [rows EXCEPT ![t] = row]
  OBVIOUS
<1>3. Replaces(rows, more, t, row)
  BY <1>1, <1>2, ExceptSeq DEF Replaces
<1>4. new = [old EXCEPT ![c] = more]
  BY <1>1, <1>2
<1> QED
  BY <1>1, <1>3, <1>4 DEF Replaces

\* What a table of attempts knows of a child that runs.
LEMMA RunningChild ==
    ASSUME LedgerInv, NEW c \in Children, child[c].status = "running"
    PROVE  /\ child[c].active = Len(attempt[c]) /\ Len(attempt[c]) \in 1 .. Len(attempt[c])
           /\ Len(attempt[c]) \in 1 .. TurnLimit
           /\ attempt[c][Len(attempt[c])] \in AttemptRow
           /\ attempt[c][Len(attempt[c])].status = "running"
<1>1. attempt[c] \in Seq(AttemptRow) /\ child[c] \in ChildRow /\ Agrees(child[c], attempt[c])
  BY DEF LedgerInv, LedgerTypes, Sound
<1>2. Len(attempt[c]) \in Nat
  BY <1>1, RowTypes
<1>3. Len(attempt[c]) \in 1 .. Len(attempt[c]) /\ child[c].active = Len(attempt[c])
  BY <1>1, <1>2 DEF Agrees
<1>4. child[c].active \in 0 .. TurnLimit
  BY <1>1 DEF ChildRow
<1> QED
  BY <1>1, <1>2, <1>3, <1>4, RowTypes DEF Agrees

\* Only child c changes.
OnlyChild(c) ==
    \A d \in Children : d # c =>
        /\ child'[d] = child[d] /\ attempt'[d] = attempt[d]
        /\ instruction'[d] = instruction[d] /\ delivery'[d] = delivery[d]

LEMMA OthersStaySound ==
    ASSUME LedgerInv, NEW c \in Children, OnlyChild(c), Sound(c)'
    PROVE  \A d \in Children : Sound(d)'
<1>1. ASSUME NEW d \in Children, d # c PROVE Sound(d)'
  BY <1>1 DEF LedgerInv, OnlyChild, Sound
<1> QED
  BY <1>1

\* The parent need not know of a step that ends nothing.
LEMMA NothingToTell ==
    ASSUME LedgerInv, UNCHANGED inbox,
           \A c \in Children :
               /\ 1 .. Len(attempt[c]) \subseteq 1 .. Len(attempt'[c])
               /\ \A t \in 1 .. Len(attempt[c]) :
                      Reported(attempt'[c][t].status) <=> Reported(attempt[c][t].status)
               /\ \A t \in 1 .. Len(attempt'[c]) :
                      t \in 1 .. Len(attempt[c]) \/ ~Reported(attempt'[c][t].status)
    PROVE  Told(inbox', attempt')
<1>1. \A n \in 1 .. Len(inbox) : inbox[n] \in MessageRow
  BY ElementOfSeq DEF LedgerInv, LedgerTypes
<1>2. \A n \in 1 .. Len(inbox) : inbox[n].from \in Children
  BY <1>1 DEF MessageRow
<1>3. Told(inbox, attempt)
  BY DEF LedgerInv
<1>4. Told(inbox, attempt')
  BY <1>2, <1>3, ToldStays
<1> QED
  BY <1>4

LEMMA LedgerStays == ASSUME LedgerInv, UNCHANGED ledger, UNCHANGED read PROVE LedgerInv'
<1>1. UNCHANGED <<child, attempt, instruction, delivery, inbox, read>>
  BY DEF ledger
<1> QED
  BY <1>1 DEF LedgerInv, LedgerTypes, Sound

\* BeginSpecialistAttempt.
LEMMA BeginKeepsLedger ==
    ASSUME SpecialistConstants, LedgerInv, ProcessTypes, NEW p \in Schedulers,
           NEW c \in Children, Begin(p, c)
    PROVE  LedgerInv'
<1>1. PICK node \in ChildRow, rows \in Seq(AttemptRow) :
          /\ node = child[c] /\ rows = attempt[c] /\ Agrees(node, rows)
          /\ Delivers(delivery[c], node, instruction[c]) /\ Reads(instruction[c], rows)
  BY DEF LedgerInv, LedgerTypes, Sound
<1>2. CASE node.status = "ready" /\ BudgetLeft(node) /\ ~UNCHANGED ledger
  <2>1. PICK row : row = [status |-> "running", generation |-> lease.generation,
                          usage |-> FALSE, tokens |-> 0, repair |-> "none"]
    OBVIOUS
  <2>2. PICK next : next = [node EXCEPT !.status = "running", !.active = node.turns + 1,
                                        !.turns = node.turns + 1]
    OBVIOUS
  <2>3. /\ attempt' = [attempt EXCEPT ![c] = Append(rows, row)]
        /\ child' = [child EXCEPT ![c] = next]
        /\ UNCHANGED <<instruction, delivery, inbox, read>>
    BY <1>1, <1>2, <2>1, <2>2 DEF Begin, Local, LedgerInv, LedgerTypes, ledger
  <2>4. lease.generation \in Nat
    BY Numbers DEF ProcessTypes
  <2>5. row \in AttemptRow
    BY <2>1, <2>4 DEF AttemptRow, AttemptStatuses, Repairs
  <2>6. node.turns + 1 \in 0 .. TurnLimit
    BY <1>2, Numbers DEF ChildRow, BudgetLeft
  <2>7. next \in ChildRow /\ next.status = "running" /\ next.turns = node.turns + 1
        /\ next.active = node.turns + 1 /\ next.tokens = node.tokens
    BY <2>2, <2>6 DEF ChildRow, ChildStatuses
  <2>8. /\ child'[c] = next /\ attempt'[c] = Append(rows, row)
        /\ \A d \in Children : d # c => child'[d] = child[d] /\ attempt'[d] = attempt[d]
    BY <2>3 DEF LedgerInv, LedgerTypes
  <2>9. LedgerTypes' /\ read' \in 0 .. Len(inbox')
    BY <1>1, <2>3, <2>5, <2>7 DEF LedgerInv, LedgerTypes
  <2>10. Agrees(next, Append(rows, row))
    BY <1>1, <1>2, <2>1, <2>5, <2>7, AgreesBegins
  <2>11. Reads(instruction[c], Append(rows, row))
    BY <1>1, <2>5, ReadsAppended
  <2>12. Delivers(delivery[c], next, instruction[c])
    BY <1>1, <1>2 DEF Delivers
  <2>13. Sound(c)' /\ OnlyChild(c)
    BY <2>3, <2>8, <2>10, <2>11, <2>12 DEF Sound, OnlyChild
  <2>14. Told(inbox', attempt')
    <3>1. Len(rows) \in Nat /\ Len(Append(rows, row)) = Len(rows) + 1
          /\ Append(rows, row)[Len(rows) + 1] = row
          /\ \A t \in 1 .. Len(rows) : Append(rows, row)[t] = rows[t]
      BY <2>5
    <3>2. ~Reported(row.status)
      BY <2>1 DEF Reported
    <3>3. ASSUME NEW d \in Children
          PROVE  /\ 1 .. Len(attempt[d]) \subseteq 1 .. Len(attempt'[d])
                 /\ \A t \in 1 .. Len(attempt[d]) :
                        Reported(attempt'[d][t].status) <=> Reported(attempt[d][t].status)
                 /\ \A t \in 1 .. Len(attempt'[d]) :
                        t \in 1 .. Len(attempt[d]) \/ ~Reported(attempt'[d][t].status)
      <4>1. CASE d = c
        BY <1>1, <2>8, <3>1, <3>2, <4>1
      <4>2. CASE d # c
        BY <2>8, <4>2
      <4> QED
        BY <4>1, <4>2
    <3> QED
      BY <2>3, <3>3, NothingToTell
  <2> QED
    BY <2>9, <2>13, <2>14, OthersStaySound DEF LedgerInv
<1>3. CASE UNCHANGED ledger
  BY <1>3, LedgerStays DEF Begin, Local
<1> QED
  BY <1>1, <1>2, <1>3 DEF Begin

\* PrepareSpecialistContext: what is pending and older than something prepared is prepared.
LEMMA OldestFirst ==
    ASSUME SpecialistConstants, NEW c \in Children, instruction[c] \in Seq(0 .. TurnLimit),
           NEW i \in Oldest(c), NEW j \in 1 .. i, instruction[c][j] = 0
    PROVE  j \in Oldest(c)
<1>1. PICK letters \in Seq(0 .. TurnLimit) : letters = instruction[c]
  OBVIOUS
<1>2. Len(letters) \in Nat /\ DOMAIN letters = 1 .. Len(letters)
  BY LenProperties
<1>3. i \in 1 .. Len(letters) /\ i \in Pending(c)
  BY <1>1, <1>2 DEF Oldest, Pending
<1>4. j \in Pending(c) /\ Pending(c) \subseteq 1 .. Len(letters)
  BY <1>1, <1>2, <1>3 DEF Pending
<1>5. IsFiniteSet(1 .. Len(letters))
  BY <1>2, FS_Interval
<1>6. PICK S : S = {k \in Pending(c) : k < i}
  OBVIOUS
<1>7. PICK T : T = {k \in Pending(c) : k < j}
  OBVIOUS
<1>8. T \subseteq S /\ S \subseteq 1 .. Len(letters)
  BY <1>3, <1>4, <1>6, <1>7
<1>9. IsFiniteSet(S) /\ IsFiniteSet(T)
  BY <1>5, <1>8, FS_Subset
<1>10. Cardinality(T) <= Cardinality(S) /\ Cardinality(S) \in Nat /\ Cardinality(T) \in Nat
  BY <1>8, <1>9, FS_Subset, FS_CardinalityType
<1>11. Cardinality(S) < Batch
  BY <1>6 DEF Oldest
<1>12. Cardinality(T) < Batch
  BY <1>10, <1>11, Numbers
<1> QED
  BY <1>4, <1>7, <1>12 DEF Oldest

LEMMA PrepareKeepsLedger ==
    ASSUME SpecialistConstants, LedgerInv, NEW p \in Schedulers, NEW c \in Children, Prepare(p, c)
    PROVE  LedgerInv'
<1>1. UNCHANGED <<child, attempt, instruction, inbox, read>>
  BY DEF Prepare, Local
<1>2. CASE UNCHANGED delivery
  BY <1>1, <1>2, LedgerStays DEF ledger
<1>3. ASSUME NEW t, Active(c, t),
             delivery' = [delivery EXCEPT ![c] = [turn |-> t, items |-> Oldest(c)]]
      PROVE  LedgerInv'
  <2>1. child[c].status = "running" /\ t = child[c].active
    BY <1>3 DEF Active
  <2>2. t \in 1 .. TurnLimit
    BY <2>1, RunningChild
  <2>3. instruction[c] \in Seq(0 .. TurnLimit) /\ Len(instruction[c]) <= MaxInstructions
    BY DEF LedgerInv, LedgerTypes
  <2>4. \A i \in Oldest(c) : i \in 1 .. Len(instruction[c]) /\ instruction[c][i] = 0
    BY <2>3 DEF Oldest, Pending
  <2>5. Oldest(c) \subseteq 1 .. MaxInstructions
    <3>1. Len(instruction[c]) \in Nat
      BY <2>3
    <3> QED
      BY <2>3, <2>4, <3>1, Numbers
  <2>6. PICK row \in DeliveryRow : row.turn = t /\ row.items = Oldest(c)
                                  /\ row = [turn |-> t, items |-> Oldest(c)]
    <3>1. t \in 0 .. TurnLimit /\ Oldest(c) \in SUBSET (1 .. MaxInstructions)
      BY <2>2, <2>5
    <3>2. [turn |-> t, items |-> Oldest(c)] \in DeliveryRow
      BY <3>1 DEF DeliveryRow
    <3> QED
      BY <3>2
  <2>7. /\ delivery' \in [Children -> DeliveryRow] /\ delivery'[c] = row
        /\ \A d \in Children : d # c => delivery'[d] = delivery[d]
    BY <1>3, <2>6 DEF LedgerInv, LedgerTypes
  <2>8. Delivers(row, child[c], instruction[c])
    BY <2>1, <2>3, <2>4, <2>6, OldestFirst DEF Delivers
  <2>9. Sound(c)' /\ OnlyChild(c)
    BY <1>1, <2>7, <2>8 DEF LedgerInv, Sound, OnlyChild
  <2>10. LedgerTypes' /\ read' \in 0 .. Len(inbox') /\ Told(inbox', attempt')
    BY <1>1, <2>7 DEF LedgerInv, LedgerTypes
  <2> QED
    BY <2>9, <2>10, OthersStaySound DEF LedgerInv
<1> QED
  BY <1>2, <1>3 DEF Prepare

LEMMA AnsweredRow ==
    ASSUME NEW status \in AttemptStatuses, NEW generation \in Nat, NEW tokens \in Nat,
           NEW repair \in Repairs
    PROVE  [status |-> status, generation |-> generation, usage |-> TRUE, tokens |-> tokens,
            repair |-> repair] \in AttemptRow
  BY DEF AttemptRow

Charged(r, cost, outcome) ==
    [r EXCEPT !.usage = TRUE, !.tokens = @ + cost, !.repair = outcome]

LEMMA RowCharged ==
    ASSUME NEW r \in AttemptRow, NEW cost \in Nat, NEW outcome \in Repairs
    PROVE  /\ Charged(r, cost, outcome) \in AttemptRow
           /\ Charged(r, cost, outcome).status = r.status
           /\ Charged(r, cost, outcome).tokens = r.tokens + cost
           /\ Charged(r, cost, outcome).generation = r.generation
<1>1. PICK tokens \in Nat : tokens = r.tokens + cost
  BY DEF AttemptRow
<1>2. PICK row : row = Charged(r, cost, outcome)
  OBVIOUS
<1>3. row = [status |-> r.status, generation |-> r.generation, usage |-> TRUE,
             tokens |-> tokens, repair |-> outcome]
  BY <1>1, <1>2 DEF AttemptRow, Charged
<1>4. r.status \in AttemptStatuses /\ r.generation \in Nat
  BY DEF AttemptRow
<1>5. [status |-> r.status, generation |-> r.generation, usage |-> TRUE,
       tokens |-> tokens, repair |-> outcome] \in AttemptRow
  BY <1>1, <1>4, AnsweredRow, Zenon
<1> QED
  BY <1>1, <1>2, <1>3, <1>5

\* An answer is charged with its record; the attempt goes on.
LEMMA AnswerCharges ==
    ASSUME SpecialistConstants, LedgerInv, NEW p \in Schedulers, NEW c \in Children, Answer(p, c)
    PROVE  /\ child[c].status = "running"
           /\ attempt' \in [Children -> Seq(AttemptRow)]
           /\ \A d \in Children : d # c => attempt'[d] = attempt[d]
           /\ \E cost \in Nat, row \in AttemptRow :
                  /\ row.status = attempt[c][Len(attempt[c])].status
                  /\ row.tokens = attempt[c][Len(attempt[c])].tokens + cost
                  /\ row.generation = attempt[c][Len(attempt[c])].generation
                  /\ Replaces(attempt[c], attempt'[c], Len(attempt[c]), row)
                  /\ child' = [child EXCEPT ![c].tokens = @ + cost]
<1>1. PICK t : t = worker[p][c].turn
  OBVIOUS
<1>2. child[c].status = "running" /\ t = child[c].active
  BY <1>1 DEF Answer, Active
<1>3. attempt \in [Children -> Seq(AttemptRow)]
  BY DEF LedgerInv, LedgerTypes
<1>4. PICK rows \in Seq(AttemptRow) : rows = attempt[c]
  BY <1>3
<1>5. t = Len(rows) /\ t \in 1 .. Len(rows) /\ rows[t] \in AttemptRow
  BY <1>2, <1>4, RunningChild
<1>6. PICK cost \in Tokens, outcome \in Repairs :
          /\ attempt' = [attempt EXCEPT ![c][t].usage = TRUE, ![c][t].tokens = @ + cost,
                                        ![c][t].repair = outcome]
          /\ child' = [child EXCEPT ![c].tokens = @ + cost]
  <2>1. rows[t].repair \in Repairs
    BY <1>5 DEF AttemptRow
  <2> QED
    BY <1>1, <1>4, <2>1 DEF Answer, Repairs
<1>7. cost \in Nat /\ outcome \in Repairs
  BY <1>6, Numbers
<1>8. PICK row \in AttemptRow : /\ row = Charged(rows[t], cost, outcome)
                               /\ row.status = rows[t].status
                               /\ row.tokens = rows[t].tokens + cost
                               /\ row.generation = rows[t].generation
  BY <1>5, <1>7, RowCharged
<1>9. PICK more : more = [rows EXCEPT ![t].usage = TRUE, ![t].tokens = @ + cost,
                                      ![t].repair = outcome]
  OBVIOUS
<1>10. DOMAIN rows = 1 .. Len(rows)
  BY LenProperties
<1>11. more = [rows EXCEPT ![t] = row]
  BY <1>5, <1>8, <1>9, <1>10 DEF Charged
<1>12. Replaces(rows, more, t, row)
  BY <1>5, <1>11, ExceptSeq DEF Replaces
<1>13. attempt' = [attempt EXCEPT ![c] = more]
  BY <1>3, <1>4, <1>6, <1>9
<1>14. /\ attempt' \in [Children -> Seq(AttemptRow)] /\ attempt'[c] = more
       /\ \A d \in Children : d # c => attempt'[d] = attempt[d]
  BY <1>3, <1>12, <1>13 DEF Replaces
<1>15. /\ row.status = attempt[c][Len(attempt[c])].status
       /\ row.tokens = attempt[c][Len(attempt[c])].tokens + cost
       /\ row.generation = attempt[c][Len(attempt[c])].generation
       /\ Replaces(attempt[c], attempt'[c], Len(attempt[c]), row)
       /\ child' = [child EXCEPT ![c].tokens = @ + cost]
  BY <1>4, <1>5, <1>6, <1>8, <1>12, <1>14
<1> QED
  BY <1>2, <1>7, <1>14, <1>15

LEMMA AnswerKeepsLedger ==
    ASSUME SpecialistConstants, LedgerInv, NEW p \in Schedulers, NEW c \in Children, Answer(p, c)
    PROVE  LedgerInv'
<1>1. PICK node \in ChildRow, rows \in Seq(AttemptRow) :
          /\ node = child[c] /\ rows = attempt[c] /\ Agrees(node, rows)
          /\ Delivers(delivery[c], node, instruction[c]) /\ Reads(instruction[c], rows)
  BY DEF LedgerInv, LedgerTypes, Sound
<1>2. PICK t : t = Len(rows)
  OBVIOUS
<1>3. PICK cost \in Nat, row \in AttemptRow :
          /\ row.status = rows[t].status /\ row.tokens = rows[t].tokens + cost
          /\ Replaces(rows, attempt'[c], t, row)
          /\ child' = [child EXCEPT ![c].tokens = @ + cost]
  BY <1>1, <1>2, AnswerCharges
<1>4. /\ node.status = "running" /\ attempt' \in [Children -> Seq(AttemptRow)]
      /\ \A d \in Children : d # c => attempt'[d] = attempt[d]
  BY <1>1, AnswerCharges
<1>5. t \in 1 .. Len(rows) /\ rows[t].status = "running"
  BY <1>1, <1>2, <1>4, RunningChild
<1>6. UNCHANGED <<instruction, delivery, inbox, read>>
  BY DEF Answer, Local
<1>7. PICK next : next = [node EXCEPT !.tokens = @ + cost]
  OBVIOUS
<1>8. /\ next \in ChildRow /\ next.status = node.status /\ next.turns = node.turns
      /\ next.active = node.active /\ next.tokens = node.tokens + cost
  BY <1>3, <1>7 DEF ChildRow
<1>9. /\ child' \in [Children -> ChildRow] /\ child'[c] = next
      /\ \A d \in Children : d # c => child'[d] = child[d]
  BY <1>1, <1>3, <1>7, <1>8 DEF LedgerInv, LedgerTypes
<1>10. Agrees(next, attempt'[c])
  <2>1. PICK new : new = attempt'[c]
    OBVIOUS
  <2>2. /\ Replaces(rows, new, Len(rows), row) /\ row.status = rows[Len(rows)].status
        /\ row.tokens = rows[Len(rows)].tokens + cost
    BY <1>2, <1>3, <2>1
  <2>3. Agrees(next, new)
    BY <1>1, <1>3, <1>4, <1>8, <2>2, AgreesCharged
  <2> QED
    BY <2>1, <2>3
<1>11. Reads(instruction[c], attempt'[c])
  BY <1>1, <1>3, <1>5, ReadsReplaced DEF LedgerInv, LedgerTypes
<1>12. Delivers(delivery[c], next, instruction[c])
  BY <1>1, <1>8 DEF Delivers
<1>13. Sound(c)' /\ OnlyChild(c)
  BY <1>4, <1>6, <1>9, <1>10, <1>11, <1>12 DEF Sound, OnlyChild
<1>14. Told(inbox', attempt')
  <2>1. ASSUME NEW d \in Children
        PROVE  /\ 1 .. Len(attempt[d]) \subseteq 1 .. Len(attempt'[d])
               /\ \A k \in 1 .. Len(attempt[d]) :
                      Reported(attempt'[d][k].status) <=> Reported(attempt[d][k].status)
               /\ \A k \in 1 .. Len(attempt'[d]) :
                      k \in 1 .. Len(attempt[d]) \/ ~Reported(attempt'[d][k].status)
    <3>1. CASE d = c
      <4>1. ~Reported("running")
        BY DEF Reported
      <4> QED
        BY <1>1, <1>3, <1>5, <3>1, <4>1 DEF Replaces
    <3>2. CASE d # c
      BY <1>4, <3>2
    <3> QED
      BY <3>1, <3>2
  <2> QED
    BY <1>6, <2>1, NothingToTell
<1>15. LedgerTypes' /\ read' \in 0 .. Len(inbox')
  BY <1>4, <1>6, <1>9 DEF LedgerInv, LedgerTypes
<1> QED
  BY <1>13, <1>14, <1>15, OthersStaySound DEF LedgerInv

\* An attempt that goes on or finishes commits what was prepared for it.
LEMMA StatusRow ==
    ASSUME NEW r \in AttemptRow, NEW status \in AttemptStatuses,
           NEW row, row = [r EXCEPT !.status = status]
    PROVE  row \in AttemptRow /\ row.status = status /\ row.tokens = r.tokens
           /\ row.generation = r.generation
  BY DEF AttemptRow

Commits(c, t, status, to) ==
    /\ Active(c, t) /\ CommitContext(c, t)
    /\ attempt' = [attempt EXCEPT ![c][t].status = status]
    /\ child' = [child EXCEPT ![c].status = to, ![c].active = 0]

LEMMA CommitIsSound ==
    ASSUME SpecialistConstants, LedgerInv, NEW c \in Children, NEW t,
           NEW status \in {"continued", "finished"}, NEW to \in {"ready", "completed"},
           to = "completed" => status = "finished", Commits(c, t, status, to)
    PROVE  /\ child' \in [Children -> ChildRow] /\ attempt' \in [Children -> Seq(AttemptRow)]
           /\ instruction' \in [Children -> Seq(0 .. TurnLimit)]
           /\ delivery' \in [Children -> DeliveryRow]
           /\ \A d \in Children : Len(instruction'[d]) = Len(instruction[d])
           /\ \A d \in Children : Sound(d)'
           /\ t = Len(attempt[c]) /\ t \in 1 .. TurnLimit /\ t \in 1 .. Len(attempt[c])
           /\ attempt[c][t].status = "running" /\ child[c].active = t
           /\ Len(attempt'[c]) = Len(attempt[c]) /\ attempt'[c][t].status = status
           /\ attempt'[c][t].generation = attempt[c][t].generation
           /\ \A k \in 1 .. Len(attempt[c]) : k # t => attempt'[c][k] = attempt[c][k]
           /\ \A d \in Children : d # c => attempt'[d] = attempt[d]
<1>1. child[c].status = "running" /\ t = child[c].active
  BY DEF Commits, Active
<1>2. PICK node \in ChildRow, rows \in Seq(AttemptRow), letters \in Seq(0 .. TurnLimit) :
          /\ node = child[c] /\ rows = attempt[c] /\ letters = instruction[c]
          /\ Agrees(node, rows) /\ Delivers(delivery[c], node, letters) /\ Reads(letters, rows)
  BY DEF LedgerInv, LedgerTypes, Sound
<1>3. /\ t = Len(rows) /\ t \in 1 .. Len(rows) /\ rows[t] \in AttemptRow
      /\ rows[t].status = "running" /\ t \in 1 .. TurnLimit /\ node.active = t
      /\ node.status = "running"
  BY <1>1, <1>2, RunningChild
<1>4. PICK row : row = [rows[t] EXCEPT !.status = status]
  OBVIOUS
<1>5. /\ row \in AttemptRow /\ row.status = status /\ row.tokens = rows[t].tokens
      /\ row.generation = rows[t].generation
  BY <1>3, <1>4, StatusRow DEF AttemptStatuses, Ended
<1>6. /\ child \in [Children -> ChildRow] /\ attempt \in [Children -> Seq(AttemptRow)]
      /\ instruction \in [Children -> Seq(0 .. TurnLimit)]
      /\ delivery \in [Children -> DeliveryRow]
  BY DEF LedgerInv, LedgerTypes
<1>7. PICK done : done = [rows EXCEPT ![t] = row]
  OBVIOUS
<1>8. Replaces(rows, done, t, row)
  BY <1>3, <1>5, <1>7, ExceptSeq DEF Replaces
<1>9. attempt' = [attempt EXCEPT ![c] = done]
  BY <1>2, <1>4, <1>6, <1>7 DEF Commits
<1>10. /\ attempt' \in [Children -> Seq(AttemptRow)] /\ attempt'[c] = done
       /\ \A d \in Children : d # c => attempt'[d] = attempt[d]
  BY <1>6, <1>8, <1>9 DEF Replaces
<1>11. PICK next : next = [node EXCEPT !.status = to, !.active = 0]
  OBVIOUS
<1>12. /\ next \in ChildRow /\ next.status = to /\ next.turns = node.turns
       /\ next.active = 0 /\ next.tokens = node.tokens
  BY <1>11, Numbers DEF ChildRow, ChildStatuses, Terminal
<1>13. /\ child' \in [Children -> ChildRow] /\ child'[c] = next
       /\ \A d \in Children : d # c => child'[d] = child[d]
  BY <1>2, <1>6, <1>11, <1>12 DEF Commits
<1>14. PICK more : more = Consumed(letters, delivery[c], t)
  OBVIOUS
<1>15. instruction' = [instruction EXCEPT ![c] = more]
  BY <1>2, <1>6, <1>14 DEF Commits, CommitContext, Consumed
<1>16. more \in Seq(0 .. TurnLimit) /\ Len(more) = Len(letters) /\ Reads(more, done)
  BY <1>2, <1>3, <1>5, <1>8, <1>14, LettersCommitted
<1>17. /\ instruction' \in [Children -> Seq(0 .. TurnLimit)] /\ instruction'[c] = more
       /\ \A d \in Children : d # c => instruction'[d] = instruction[d]
  BY <1>6, <1>15, <1>16
<1>18. /\ delivery' \in [Children -> DeliveryRow] /\ delivery'[c] = NoDelivery
       /\ \A d \in Children : d # c => delivery'[d] = delivery[d]
  <2>1. NoDelivery \in DeliveryRow
    BY Numbers DEF NoDelivery, DeliveryRow
  <2> QED
    BY <1>6, <2>1 DEF Commits, CommitContext, Supersede
<1>19. Agrees(next, done)
  BY <1>2, <1>3, <1>5, <1>8, <1>12, AgreesEnds
<1>20. Delivers(NoDelivery, next, more)
  BY DEF Delivers, NoDelivery
<1>21. Sound(c)' /\ OnlyChild(c)
  BY <1>10, <1>13, <1>16, <1>17, <1>18, <1>19, <1>20 DEF Sound, OnlyChild
<1>22. \A d \in Children : Sound(d)'
  BY <1>21, OthersStaySound
<1>23. \A d \in Children : Len(instruction'[d]) = Len(instruction[d])
  BY <1>2, <1>16, <1>17
<1> QED
  BY <1>2, <1>3, <1>5, <1>8, <1>10, <1>13, <1>17, <1>18, <1>22, <1>23 DEF Replaces

LEMMA ContinueKeepsLedger ==
    ASSUME SpecialistConstants, LedgerInv, NEW p \in Schedulers, NEW c \in Children,
           Continue(p, c)
    PROVE  LedgerInv'
<1>1. UNCHANGED read
  BY DEF Continue, Local
<1>2. CASE UNCHANGED ledger
  BY <1>1, <1>2, LedgerStays
<1>3. ASSUME NEW t, Commits(c, t, "continued", "ready"), UNCHANGED inbox PROVE LedgerInv'
  <2>1. /\ child' \in [Children -> ChildRow] /\ attempt' \in [Children -> Seq(AttemptRow)]
        /\ instruction' \in [Children -> Seq(0 .. TurnLimit)]
        /\ delivery' \in [Children -> DeliveryRow]
        /\ \A d \in Children : Len(instruction'[d]) = Len(instruction[d])
        /\ \A d \in Children : Sound(d)'
        /\ t = Len(attempt[c]) /\ t \in 1 .. Len(attempt[c])
        /\ attempt[c][t].status = "running"
        /\ Len(attempt'[c]) = Len(attempt[c]) /\ attempt'[c][t].status = "continued"
        /\ \A k \in 1 .. Len(attempt[c]) : k # t => attempt'[c][k] = attempt[c][k]
        /\ \A d \in Children : d # c => attempt'[d] = attempt[d]
    BY <1>3, CommitIsSound
  <2>2. LedgerTypes' /\ read' \in 0 .. Len(inbox')
    BY <1>1, <1>3, <2>1 DEF LedgerInv, LedgerTypes
  <2>3. ASSUME NEW d \in Children
        PROVE  /\ 1 .. Len(attempt[d]) \subseteq 1 .. Len(attempt'[d])
               /\ \A k \in 1 .. Len(attempt[d]) :
                      Reported(attempt'[d][k].status) <=> Reported(attempt[d][k].status)
               /\ \A k \in 1 .. Len(attempt'[d]) :
                      k \in 1 .. Len(attempt[d]) \/ ~Reported(attempt'[d][k].status)
    <3>1. CASE d = c
      BY <2>1, <3>1 DEF Reported
    <3>2. CASE d # c
      BY <2>1, <3>2
    <3> QED
      BY <3>1, <3>2
  <2>4. Told(inbox', attempt')
    BY <1>3, <2>3, NothingToTell
  <2> QED
    BY <2>1, <2>2, <2>4 DEF LedgerInv
<1> QED
  BY <1>2, <1>3 DEF Continue, Commits

LEMMA MessageTypes ==
    ASSUME NEW c \in Children, child[c].active \in 1 .. TurnLimit,
           NEW kind \in {"result", "failure"}
    PROVE  /\ Message(c, kind) \in MessageRow
           /\ Message(c, kind).from = c /\ Message(c, kind).turn = child[c].active
  BY DEF Message, MessageRow

\* FinishSpecialist: the parent is told with it.
LEMMA FinishKeepsLedger ==
    ASSUME SpecialistConstants, LedgerInv, NEW p \in Schedulers, NEW c \in Children,
           Finish(p, c)
    PROVE  LedgerInv'
<1>1. UNCHANGED read
  BY DEF Finish, Local
<1>2. CASE UNCHANGED ledger
  BY <1>1, <1>2, LedgerStays
<1>3. ASSUME NEW t, Commits(c, t, "finished", "completed"),
             inbox' = Append(inbox, Message(c, "result"))
      PROVE  LedgerInv'
  <2>1. /\ child' \in [Children -> ChildRow] /\ attempt' \in [Children -> Seq(AttemptRow)]
        /\ instruction' \in [Children -> Seq(0 .. TurnLimit)]
        /\ delivery' \in [Children -> DeliveryRow]
        /\ \A d \in Children : Len(instruction'[d]) = Len(instruction[d])
        /\ \A d \in Children : Sound(d)'
        /\ t = Len(attempt[c]) /\ t \in 1 .. TurnLimit /\ t \in 1 .. Len(attempt[c])
        /\ attempt[c][t].status = "running" /\ child[c].active = t
        /\ Len(attempt'[c]) = Len(attempt[c]) /\ attempt'[c][t].status = "finished"
        /\ \A k \in 1 .. Len(attempt[c]) : k # t => attempt'[c][k] = attempt[c][k]
        /\ \A d \in Children : d # c => attempt'[d] = attempt[d]
    BY <1>3, CommitIsSound
  <2>2. PICK message \in MessageRow :
            message = Message(c, "result") /\ message.from = c /\ message.turn = t
    BY <2>1, MessageTypes
  <2>3. PICK news : news = <<message>>
    OBVIOUS
  <2>4. news \in Seq(MessageRow) /\ Len(news) = 1 /\ news[1] = message
    BY <2>2, <2>3
  <2>5. inbox \in Seq(MessageRow) /\ Len(inbox) \in Nat /\ Told(inbox, attempt)
    BY LenProperties DEF LedgerInv, LedgerTypes
  <2>6. Joins(inbox', inbox, news)
    BY <1>3, <2>2, <2>3, <2>5, AppendIsConcat DEF Joins
  <2>7. PICK last : last = [d \in Children |-> t]
    OBVIOUS
  <2>8. PICK S : S = {c}
    OBVIOUS
  <2>9. S \in SUBSET Children /\ \A d \in Children : Len(attempt'[d]) = Len(attempt[d])
    BY <2>1, <2>8
  <2>10. \A d \in Children : \A k \in 1 .. Len(attempt[d]) : ~(d \in S /\ k = last[d]) =>
             (Reported(attempt'[d][k].status) <=> Reported(attempt[d][k].status))
    <3> SUFFICES ASSUME NEW d \in Children, NEW k \in 1 .. Len(attempt[d]),
                        ~(d \in S /\ k = last[d])
                 PROVE  attempt'[d][k] = attempt[d][k]
      BY DEF Reported
    <3> QED
      BY <2>1, <2>7, <2>8
  <2>11. \A d \in S : /\ last[d] \in 1 .. Len(attempt[d])
                      /\ ~Reported(attempt[d][last[d]].status)
                      /\ Reported(attempt'[d][last[d]].status)
    BY <2>1, <2>7, <2>8 DEF Reported
  <2>12. \A n \in 1 .. Len(news) : n = 1
    BY <2>4
  <2>13. /\ \A n \in 1 .. Len(news) : news[n].from \in S /\ news[n].turn = last[news[n].from]
         /\ \A m, n \in 1 .. Len(news) : news[m].from = news[n].from => m = n
         /\ \A d \in S : \E n \in 1 .. Len(news) : news[n].from = d
    BY <2>2, <2>4, <2>7, <2>8, <2>12
  <2>14. /\ inbox' \in Seq(MessageRow) /\ Len(inbox') = Len(inbox) + Len(news)
         /\ Told(inbox', attempt')
    <3>1. Announces(news, S, last, attempt, attempt')
      BY <2>9, <2>10, <2>11, <2>13 DEF Announces
    <3> QED
      BY <2>4, <2>5, <2>6, <2>9, <3>1, ToldMore
  <2>15. read' \in 0 .. Len(inbox')
    <3>1. read \in 0 .. Len(inbox) /\ Len(inbox') = Len(inbox) + 1
      BY <2>4, <2>14 DEF LedgerInv
    <3> QED
      BY <1>1, <2>5, <3>1
  <2>16. LedgerTypes'
    BY <2>1, <2>14 DEF LedgerInv, LedgerTypes
  <2> QED
    BY <2>1, <2>14, <2>15, <2>16 DEF LedgerInv
<1> QED
  BY <1>2, <1>3 DEF Finish, Commits

\* Attempts that crash or are interrupted.
EndedAs(r, status) ==
    [r EXCEPT !.status = status, !.repair = IF @ = "pending" THEN "aborted" ELSE @]

LEMMA EndedRow ==
    ASSUME NEW r \in AttemptRow, NEW status \in Ended
    PROVE  /\ EndedAs(r, status) \in AttemptRow /\ EndedAs(r, status).status = status
           /\ EndedAs(r, status).tokens = r.tokens
           /\ EndedAs(r, status).generation = r.generation
<1>1. PICK repair \in Repairs : repair = IF r.repair = "pending" THEN "aborted" ELSE r.repair
  BY DEF AttemptRow, Repairs
<1>2. PICK row : row = EndedAs(r, status)
  OBVIOUS
<1>3. row = [r EXCEPT !.status = status, !.repair = repair]
  BY <1>1, <1>2 DEF EndedAs, AttemptRow
<1>4. status \in AttemptStatuses
  BY DEF AttemptStatuses
<1>5. row \in AttemptRow /\ row.status = status /\ row.tokens = r.tokens
      /\ row.generation = r.generation
  BY <1>1, <1>3, <1>4 DEF AttemptRow
<1> QED
  BY <1>2, <1>5

LEMMA AttemptsEnd ==
    ASSUME SpecialistConstants, LedgerInv, NEW S \in SUBSET Children,
           \A c \in S : child[c].status = "running", NEW status \in Ended,
           EndAttempts(S, status), Supersede(S)
    PROVE  /\ attempt' \in [Children -> Seq(AttemptRow)]
           /\ delivery' \in [Children -> DeliveryRow]
           /\ \A c \in Children \ S : attempt'[c] = attempt[c] /\ delivery'[c] = delivery[c]
           /\ \A c \in S :
                  /\ delivery'[c] = NoDelivery
                  /\ \E row \in AttemptRow :
                         /\ row.status = status
                         /\ row.tokens = attempt[c][Len(attempt[c])].tokens
                         /\ row.generation = attempt[c][Len(attempt[c])].generation
                         /\ Replaces(attempt[c], attempt'[c], Len(attempt[c]), row)
<1>1. attempt \in [Children -> Seq(AttemptRow)] /\ delivery \in [Children -> DeliveryRow]
  BY DEF LedgerInv, LedgerTypes
<1>2. DOMAIN attempt' = Children /\ attempt' = [c \in Children |-> attempt'[c]]
      /\ \A c \in Children \ S : attempt'[c] = attempt[c]
  BY DEF EndAttempts
<1>3. ASSUME NEW c \in S
      PROVE  /\ attempt'[c] \in Seq(AttemptRow)
             /\ \E row \in AttemptRow :
                    /\ row.status = status
                    /\ row.tokens = attempt[c][Len(attempt[c])].tokens
                    /\ row.generation = attempt[c][Len(attempt[c])].generation
                    /\ Replaces(attempt[c], attempt'[c], Len(attempt[c]), row)
  <2>1. PICK rows, t : rows \in Seq(AttemptRow) /\ rows = attempt[c] /\ t = Len(attempt[c])
    BY <1>1
  <2>2. t \in 1 .. Len(rows) /\ t = child[c].active /\ rows[t] \in AttemptRow /\ t = Len(rows)
    BY <2>1, RunningChild
  <2>3. PICK row \in AttemptRow :
            /\ row = EndedAs(rows[t], status) /\ row.status = status
            /\ row.tokens = rows[t].tokens /\ row.generation = rows[t].generation
    BY <2>2, EndedRow
  <2>4. PICK done : done = [rows EXCEPT ![t] = row]
    OBVIOUS
  <2>5. Replaces(rows, done, t, row)
    BY <2>1, <2>2, <2>4, ExceptSeq DEF Replaces
  <2>6. attempt'[c] = [rows EXCEPT ![t].status = status,
                                   ![t].repair = IF @ = "pending" THEN "aborted" ELSE @]
    BY <2>1, <2>2 DEF EndAttempts
  <2>7. DOMAIN rows = 1 .. Len(rows)
    BY LenProperties
  <2>8. attempt'[c] = done
    BY <2>2, <2>3, <2>4, <2>6, <2>7 DEF EndedAs
  <2> QED
    BY <2>1, <2>3, <2>5, <2>8 DEF Replaces
<1>4. attempt' \in [Children -> Seq(AttemptRow)]
  BY <1>1, <1>2, <1>3
<1>5. /\ delivery' \in [Children -> DeliveryRow]
      /\ \A c \in Children : delivery'[c] = IF c \in S THEN NoDelivery ELSE delivery[c]
  <2>1. NoDelivery \in DeliveryRow
    BY Numbers DEF NoDelivery, DeliveryRow
  <2> QED
    BY <1>1, <2>1 DEF Supersede
<1> QED
  BY <1>2, <1>3, <1>4, <1>5

\* A child is given up with its attempt, or rests.
Leaves(old, new) ==
    /\ new.status \notin {"running", "completed"} /\ new.active = 0
    /\ new.turns = old.turns /\ new.tokens = old.tokens

LEMMA EndsAreSound ==
    ASSUME SpecialistConstants, LedgerInv, NEW S \in SUBSET Children,
           \A c \in S : child[c].status = "running",
           NEW status \in Ended \ {"continued", "finished"},
           EndAttempts(S, status), Supersede(S), UNCHANGED instruction,
           \A c \in S : Leaves(child[c], child'[c]),
           \A c \in Children \ S : \/ child'[c] = child[c]
                                   \/ child[c].status # "running" /\ Leaves(child[c], child'[c])
    PROVE  \A c \in Children : Sound(c)'
<1> SUFFICES ASSUME NEW c \in Children PROVE Sound(c)'
  OBVIOUS
<1>1. PICK node \in ChildRow, rows \in Seq(AttemptRow), letters \in Seq(0 .. TurnLimit) :
          /\ node = child[c] /\ rows = attempt[c] /\ letters = instruction[c]
          /\ Agrees(node, rows) /\ Delivers(delivery[c], node, letters) /\ Reads(letters, rows)
  BY DEF LedgerInv, LedgerTypes, Sound
<1>2. CASE c \in S
  <2>1. PICK row \in AttemptRow :
            /\ row.status = status /\ row.tokens = rows[Len(rows)].tokens
            /\ Replaces(rows, attempt'[c], Len(rows), row)
    BY <1>1, <1>2, AttemptsEnd
  <2>2. rows[Len(rows)].status = "running" /\ node.status = "running"
    BY <1>1, <1>2, RunningChild
  <2>3. PICK done, next : done = attempt'[c] /\ next = child'[c]
    OBVIOUS
  <2>4. Leaves(node, next) /\ row.status # "running"
    BY <1>1, <1>2, <2>1, <2>3 DEF Ended
  <2>5. Agrees(next, done)
    BY <1>1, <2>1, <2>2, <2>3, <2>4, AgreesEnds DEF Leaves
  <2>6. Reads(letters, done)
    BY <1>1, <2>1, <2>2, <2>3, ReadsReplaced
  <2>7. delivery'[c] = NoDelivery
    BY <1>2, AttemptsEnd
  <2>8. Delivers(delivery'[c], next, letters)
    BY <2>7 DEF Delivers, NoDelivery
  <2> QED
    BY <1>1, <2>3, <2>5, <2>6, <2>8 DEF Sound
<1>3. CASE c \notin S
  <2>1. attempt'[c] = rows /\ delivery'[c] = delivery[c]
    BY <1>1, <1>3, AttemptsEnd
  <2>2. CASE child'[c] = child[c]
    BY <1>1, <2>1, <2>2 DEF Sound
  <2>3. CASE node.status # "running" /\ Leaves(node, child'[c])
    <3>1. PICK next : next = child'[c]
      OBVIOUS
    <3>2. Agrees(next, rows)
      BY <1>1, <2>3, <3>1, AgreesRests DEF Leaves
    <3>3. Delivers(delivery[c], next, letters)
      BY <1>1, <2>3 DEF Delivers
    <3> QED
      BY <1>1, <2>1, <3>1, <3>2, <3>3 DEF Sound
  <2> QED
    BY <1>1, <1>3, <2>2, <2>3
<1> QED
  BY <1>2, <1>3

\* crashAgentAttemptTx.
LEMMA CrashKeepsLedger ==
    ASSUME SpecialistConstants, LedgerInv, NEW S \in SUBSET Children,
           \A c \in S : child[c].status = "running", Crash(S), UNCHANGED read
    PROVE  LedgerInv'
<1>1. /\ child \in [Children -> ChildRow] /\ inbox \in Seq(MessageRow)
      /\ Told(inbox, attempt) /\ instruction' = instruction
  BY DEF LedgerInv, LedgerTypes, Crash
<1>2. PICK last : last = [c \in Children |-> child[c].active]
  OBVIOUS
<1>3. \A c \in S : /\ last[c] = Len(attempt[c]) /\ last[c] \in 1 .. Len(attempt[c])
                   /\ last[c] \in 1 .. TurnLimit /\ child[c].active = last[c]
                   /\ attempt[c][last[c]].status = "running"
  BY <1>2, RunningChild
<1>4. /\ attempt' \in [Children -> Seq(AttemptRow)] /\ delivery' \in [Children -> DeliveryRow]
      /\ \A c \in Children \ S : attempt'[c] = attempt[c]
      /\ \A c \in S : \E row \in AttemptRow :
             row.status = "crashed" /\ Replaces(attempt[c], attempt'[c], Len(attempt[c]), row)
  <2>1. EndAttempts(S, "crashed") /\ Supersede(S) /\ "crashed" \in Ended
    BY DEF Crash, Ended
  <2> QED
    BY <2>1, AttemptsEnd
<1>5. /\ child' \in [Children -> ChildRow]
      /\ \A c \in Children \ S : child'[c] = child[c]
      /\ \A c \in S : Leaves(child[c], child'[c])
  <2>1. /\ DOMAIN child' = Children /\ child' = [c \in Children |-> child'[c]]
        /\ \A c \in Children \ S : child'[c] = child[c]
    BY DEF Crash
  <2>2. ASSUME NEW c \in S PROVE child'[c] \in ChildRow /\ Leaves(child[c], child'[c])
    <3>1. PICK node \in ChildRow, to \in {"ready", "failed"} :
              /\ node = child[c]
              /\ child'[c] = [node EXCEPT !.active = 0, !.status = to]
      BY <1>1 DEF Crash
    <3>2. PICK next : next = [node EXCEPT !.active = 0, !.status = to]
      OBVIOUS
    <3>3. next \in ChildRow /\ Leaves(node, next)
      BY <3>2, Numbers DEF ChildRow, ChildStatuses, Terminal, Leaves
    <3> QED
      BY <3>1, <3>2, <3>3
  <2> QED
    BY <1>1, <2>1, <2>2
<1>6. \A c \in Children : Sound(c)'
  BY <1>1, <1>5, EndsAreSound DEF Crash, Ended
<1>7. PICK M : M = {Message(c, "failure") : c \in S}
  OBVIOUS
<1>8. \A c \in S : /\ Message(c, "failure") \in MessageRow /\ Message(c, "failure").from = c
                   /\ Message(c, "failure").turn = last[c]
  BY <1>3, MessageTypes
<1>9. IsFiniteSet(M)
  <2>1. IsFiniteSet(S)
    BY Numbers, FS_Subset
  <2>2. [c \in S |-> Message(c, "failure")] \in Surjection(S, M)
    BY <1>7 DEF Surjection
  <2> QED
    BY <2>1, <2>2, FS_Surjection
<1>10. PICK news : news = SetToSeq(M)
  OBVIOUS
<1>11. /\ news \in Seq(M) /\ \A i, j \in 1 .. Len(news) : news[i] = news[j] => i = j
       /\ \A x \in M : \E i \in 1 .. Len(news) : news[i] = x
  BY <1>9, <1>10, SetToSeqEnumerates
<1>12. M \subseteq MessageRow
  BY <1>7, <1>8
<1>13. news \in Seq(MessageRow) /\ \A n \in 1 .. Len(news) : news[n] \in M
  BY <1>11, <1>12, SeqMonotonic, ElementOfSeq
<1>14. \A n \in 1 .. Len(news) :
           /\ news[n].from \in S /\ news[n] = Message(news[n].from, "failure")
           /\ news[n].turn = last[news[n].from]
  BY <1>7, <1>8, <1>13
<1>15. \A m, n \in 1 .. Len(news) : news[m].from = news[n].from => m = n
  BY <1>11, <1>14
<1>16. \A c \in S : \E n \in 1 .. Len(news) : news[n].from = c
  BY <1>7, <1>8, <1>11
<1>17. \A c \in Children : Len(attempt'[c]) = Len(attempt[c])
  BY <1>4 DEF Replaces
<1>18. \A c \in Children : \A k \in 1 .. Len(attempt[c]) : ~(c \in S /\ k = last[c]) =>
           (Reported(attempt'[c][k].status) <=> Reported(attempt[c][k].status))
  <2> SUFFICES ASSUME NEW c \in Children, NEW k \in 1 .. Len(attempt[c]),
                      ~(c \in S /\ k = last[c])
               PROVE  attempt'[c][k] = attempt[c][k]
    BY DEF Reported
  <2> QED
    BY <1>3, <1>4 DEF Replaces
<1>19. \A c \in S : /\ last[c] \in 1 .. Len(attempt[c])
                    /\ ~Reported(attempt[c][last[c]].status)
                    /\ Reported(attempt'[c][last[c]].status)
  <2> SUFFICES ASSUME NEW c \in S
               PROVE  /\ ~Reported(attempt[c][last[c]].status)
                      /\ attempt'[c][last[c]].status = "crashed"
    BY <1>3 DEF Reported
  <2> QED
    BY <1>3, <1>4 DEF Reported, Replaces
<1>20. Joins(inbox', inbox, news)
  BY <1>7, <1>10 DEF Crash, Joins
<1>21. /\ inbox' \in Seq(MessageRow) /\ Len(inbox') = Len(inbox) + Len(news)
       /\ Told(inbox', attempt')
  <2>1. inbox \in Seq(MessageRow) /\ Told(inbox, attempt) /\ news \in Seq(MessageRow)
    BY <1>1, <1>13
  <2>2. \A n \in 1 .. Len(news) : news[n].from \in S /\ news[n].turn = last[news[n].from]
    BY <1>14
  <2>3. Announces(news, S, last, attempt, attempt')
    BY <1>15, <1>16, <1>17, <1>18, <1>19, <2>2 DEF Announces
  <2> QED
    BY <1>20, <2>1, <2>3, ToldMore
<1>22. read' \in 0 .. Len(inbox')
  <2>1. Len(inbox) \in Nat /\ Len(news) \in Nat /\ read \in 0 .. Len(inbox)
    BY <1>1, <1>13, LenProperties DEF LedgerInv
  <2> QED
    BY <1>21, <2>1
<1>23. LedgerTypes'
  BY <1>1, <1>4, <1>5, <1>21 DEF LedgerInv, LedgerTypes
<1> QED
  BY <1>6, <1>21, <1>22, <1>23 DEF LedgerInv

\* syncSpecialistLifecycleTx.
LEMMA InterruptKeepsLedger ==
    ASSUME SpecialistConstants, LedgerInv, NEW from \in SUBSET ChildStatuses,
           NEW to \in {"ready", "waiting", "cancelled"}, Interrupt(from, to),
           UNCHANGED <<instruction, inbox, read>>
    PROVE  LedgerInv'
<1>1. child \in [Children -> ChildRow]
  BY DEF LedgerInv, LedgerTypes
<1>2. PICK S : S = {c \in Children : child[c].status \in from /\ child[c].status = "running"}
  OBVIOUS
<1>3. S \in SUBSET Children /\ \A c \in S : child[c].status = "running"
  BY <1>2
<1>4. {c \in {d \in Children : child[d].status \in from} : child[c].status = "running"} = S
  BY <1>2
<1>5. EndAttempts(S, "interrupted") /\ Supersede(S)
  BY <1>4 DEF Interrupt
<1>6. /\ DOMAIN child' = Children /\ child' = [c \in Children |-> child'[c]]
      /\ \A c \in Children : child'[c] = IF child[c].status \in from
                                         THEN [child[c] EXCEPT !.status = to, !.active = 0]
                                         ELSE child[c]
  BY DEF Interrupt
<1>7. ASSUME NEW c \in Children
      PROVE  /\ child'[c] \in ChildRow
             /\ child[c].status \notin from => child'[c] = child[c]
             /\ child[c].status \in from => Leaves(child[c], child'[c])
  <2>1. CASE child[c].status \in from
    <3>1. PICK node \in ChildRow : node = child[c]
      BY <1>1
    <3>2. PICK next : next = [node EXCEPT !.status = to, !.active = 0]
      OBVIOUS
    <3>3. next \in ChildRow /\ Leaves(node, next)
      BY <3>2, Numbers DEF ChildRow, ChildStatuses, Terminal, Leaves
    <3> QED
      BY <1>6, <2>1, <3>1, <3>2, <3>3
  <2>2. CASE child[c].status \notin from
    BY <1>1, <1>6, <2>2
  <2> QED
    BY <2>1, <2>2
<1>8. child' \in [Children -> ChildRow]
  BY <1>6, <1>7
<1>9. /\ attempt' \in [Children -> Seq(AttemptRow)] /\ delivery' \in [Children -> DeliveryRow]
      /\ \A c \in Children \ S : attempt'[c] = attempt[c]
      /\ \A c \in S : \E row \in AttemptRow :
             row.status = "interrupted"
             /\ Replaces(attempt[c], attempt'[c], Len(attempt[c]), row)
  BY <1>3, <1>5, AttemptsEnd DEF Ended
<1>10. /\ \A c \in S : Leaves(child[c], child'[c])
       /\ \A c \in Children \ S : \/ child'[c] = child[c]
                                  \/ child[c].status # "running" /\ Leaves(child[c], child'[c])
  BY <1>2, <1>7
<1>11. \A c \in Children : Sound(c)'
  BY <1>3, <1>5, <1>10, EndsAreSound DEF Ended
<1>12. ASSUME NEW d \in Children
       PROVE  /\ 1 .. Len(attempt[d]) \subseteq 1 .. Len(attempt'[d])
              /\ \A k \in 1 .. Len(attempt[d]) :
                     Reported(attempt'[d][k].status) <=> Reported(attempt[d][k].status)
              /\ \A k \in 1 .. Len(attempt'[d]) :
                     k \in 1 .. Len(attempt[d]) \/ ~Reported(attempt'[d][k].status)
  <2>1. CASE d \in S
    <3>1. PICK row \in AttemptRow :
              /\ row.status = "interrupted"
              /\ Replaces(attempt[d], attempt'[d], Len(attempt[d]), row)
      BY <1>9, <2>1
    <3>2. attempt[d][Len(attempt[d])].status = "running"
      BY <1>3, <2>1, RunningChild
    <3>3. ~Reported("running") /\ ~Reported("interrupted")
      BY DEF Reported
    <3> QED
      BY <3>1, <3>2, <3>3 DEF Replaces
  <2>2. CASE d \notin S
    BY <1>9, <2>2
  <2> QED
    BY <2>1, <2>2
<1>13. Told(inbox', attempt')
  BY <1>12, NothingToTell
<1>14. LedgerTypes' /\ read' \in 0 .. Len(inbox')
  BY <1>8, <1>9 DEF LedgerInv, LedgerTypes
<1> QED
  BY <1>11, <1>13, <1>14 DEF LedgerInv

LEMMA InstructKeepsLedger ==
    ASSUME SpecialistConstants, LedgerInv, NEW c \in Children, Instruct(c)
    PROVE  LedgerInv'
<1>1. PICK letters \in Seq(0 .. TurnLimit) :
          /\ letters = instruction[c] /\ Delivers(delivery[c], child[c], letters)
          /\ Reads(letters, attempt[c]) /\ Len(letters) < MaxInstructions
  BY DEF LedgerInv, LedgerTypes, Sound, Instruct
<1>2. PICK more : more = Append(letters, 0)
  OBVIOUS
<1>3. more \in Seq(0 .. TurnLimit) /\ Len(more) = Len(letters) + 1 /\ Len(letters) \in Nat
  BY <1>2, Numbers
<1>4. instruction \in [Children -> Seq(0 .. TurnLimit)]
      /\ instruction' = [instruction EXCEPT ![c] = more]
      /\ UNCHANGED <<child, attempt, delivery, inbox, read>>
  BY <1>1, <1>2 DEF Instruct, LedgerInv, LedgerTypes
<1>5. /\ instruction' \in [Children -> Seq(0 .. TurnLimit)] /\ instruction'[c] = more
      /\ \A d \in Children : d # c => instruction'[d] = instruction[d]
  BY <1>3, <1>4
<1>6. Reads(more, attempt[c]) /\ Delivers(delivery[c], child[c], more)
  BY <1>1, <1>2, Numbers, LettersAppended
<1>7. Sound(c)' /\ OnlyChild(c)
  BY <1>4, <1>5, <1>6 DEF LedgerInv, Sound, OnlyChild
<1>8. Len(more) <= MaxInstructions
  BY <1>1, <1>3, Numbers
<1>9. LedgerTypes'
  BY <1>4, <1>5, <1>8 DEF LedgerInv, LedgerTypes
<1> QED
  BY <1>4, <1>7, <1>9, OthersStaySound DEF LedgerInv

(***************************************************************************)
(* What a lease began.                                                     *)
(***************************************************************************)

SameTurns(old, new) ==
    \A c \in Children :
        /\ Len(new[c]) = Len(old[c])
        /\ \A t \in 1 .. Len(old[c]) : new[c][t].generation = old[c][t].generation

IsTurn(u, table, g) ==
    \E c \in Children : \E t \in 1 .. Len(table[c]) :
        u = <<c, t>> /\ table[c][t].generation = g

LEMMA TurnsAre ==
    ASSUME NEW table \in [Children -> Seq(AttemptRow)], NEW g, NEW u
    PROVE  u \in Turns(table, g) <=> IsTurn(u, table, g)
<1>1. \A c \in Children : DOMAIN table[c] = 1 .. Len(table[c])
  <2>1. \A c \in Children : table[c] \in Seq(AttemptRow)
    OBVIOUS
  <2> QED
    BY <2>1, LenProperties
<1>2. DOMAIN table = Children
  OBVIOUS
<1>3. ASSUME u \in Turns(table, g)
      PROVE  \E c \in Children : \E t \in 1 .. Len(table[c]) :
                 u = <<c, t>> /\ table[c][t].generation = g
  <2>1. PICK c \in Children : u \in {c} \X {t \in 1 .. Len(table[c]) : table[c][t].generation = g}
    BY <1>1, <1>2, <1>3 DEF Turns
  <2>2. PICK t \in 1 .. Len(table[c]) : u = <<c, t>> /\ table[c][t].generation = g
    BY <2>1
  <2> QED
    BY <2>2
<1>4. ASSUME NEW c \in Children, NEW t \in 1 .. Len(table[c]), u = <<c, t>>,
             table[c][t].generation = g
      PROVE  u \in Turns(table, g)
  <2>1. t \in {k \in DOMAIN table[c] : table[c][k].generation = g}
    BY <1>1, <1>4
  <2>2. u \in {c} \X {k \in DOMAIN table[c] : table[c][k].generation = g}
    BY <1>4, <2>1
  <2> QED
    BY <1>2, <2>2 DEF Turns
<1> QED
  BY <1>3, <1>4 DEF IsTurn

LEMMA TurnsSame ==
    ASSUME NEW old \in [Children -> Seq(AttemptRow)], NEW new \in [Children -> Seq(AttemptRow)],
           SameTurns(old, new), NEW g
    PROVE  Turns(new, g) = Turns(old, g)
<1> SUFFICES ASSUME NEW u PROVE u \in Turns(new, g) <=> u \in Turns(old, g)
  OBVIOUS
<1>1. /\ u \in Turns(new, g) <=> IsTurn(u, new, g)
      /\ u \in Turns(old, g) <=> IsTurn(u, old, g)
  BY TurnsAre
<1> QED
  BY <1>1 DEF SameTurns, IsTurn

LEMMA TurnsFinite ==
    ASSUME SpecialistConstants, LedgerInv, NEW g
    PROVE  IsFiniteSet(Turns(attempt, g)) /\ Cardinality(Turns(attempt, g)) \in Nat
<1>1. attempt \in [Children -> Seq(AttemptRow)] /\ child \in [Children -> ChildRow]
      /\ \A c \in Children : Agrees(child[c], attempt[c])
  BY DEF LedgerInv, LedgerTypes, Sound
<1>2. ASSUME NEW c \in Children PROVE 1 .. Len(attempt[c]) \subseteq 1 .. TurnLimit
  <2>1. child[c].turns \in 0 .. TurnLimit /\ child[c].turns = Len(attempt[c])
    BY <1>1 DEF ChildRow, Agrees
  <2> QED
    BY <2>1, Numbers
<1>3. Turns(attempt, g) \in SUBSET (Children \X (1 .. TurnLimit))
  <2>1. ASSUME NEW u \in Turns(attempt, g) PROVE u \in Children \X (1 .. TurnLimit)
    <3>1. PICK c \in Children : \E t \in 1 .. Len(attempt[c]) : u = <<c, t>>
      BY <1>1, <2>1, TurnsAre DEF IsTurn
    <3>2. PICK t \in 1 .. Len(attempt[c]) : u = <<c, t>>
      BY <3>1
    <3>3. t \in 1 .. TurnLimit
      BY <1>2, <3>2
    <3> QED
      BY <3>2, <3>3
  <2> QED
    BY <2>1
<1>4. IsFiniteSet(1 .. TurnLimit)
  BY Numbers, FS_Interval
<1>5. IsFiniteSet(Children \X (1 .. TurnLimit))
  BY <1>4, Numbers, FS_Product
<1> QED
  BY <1>3, <1>5, FS_Subset, FS_CardinalityType

\* One attempt more.
Extends(old, new, row) ==
    /\ Len(new) = Len(old) + 1 /\ new[Len(old) + 1] = row
    /\ \A t \in 1 .. Len(old) : new[t] = old[t]

BeginsTurn(old, new, c, row) ==
    Extends(old[c], new[c], row) /\ \A d \in Children : d # c => new[d] = old[d]

LEMMA TurnsBegun ==
    ASSUME NEW old \in [Children -> Seq(AttemptRow)], NEW new \in [Children -> Seq(AttemptRow)],
           NEW c \in Children, NEW row \in AttemptRow, BeginsTurn(old, new, c, row), NEW g
    PROVE  /\ row.generation # g => Turns(new, g) = Turns(old, g)
           /\ row.generation = g =>
                  /\ Turns(new, g) = Turns(old, g) \union {<<c, Len(old[c]) + 1>>}
                  /\ <<c, Len(old[c]) + 1>> \notin Turns(old, g)
<1> USE DEF BeginsTurn
<1>1. PICK rows \in Seq(AttemptRow), n \in Nat : rows = old[c] /\ n = Len(rows)
  BY RowTypes
<1>2. PICK more : more = new[c]
  OBVIOUS
<1>3. Len(more) = n + 1 /\ more[n + 1] = row /\ \A t \in 1 .. n : more[t] = rows[t]
  BY <1>1, <1>2 DEF Extends
<1>4. ASSUME NEW u
      PROVE  u \in Turns(new, g) <=>
                 u \in Turns(old, g) \/ (row.generation = g /\ u = <<c, n + 1>>)
  <2>1. /\ u \in Turns(new, g) <=> IsTurn(u, new, g)
        /\ u \in Turns(old, g) <=> IsTurn(u, old, g)
    BY TurnsAre
  <2>2. ASSUME u \in Turns(new, g)
        PROVE  u \in Turns(old, g) \/ (row.generation = g /\ u = <<c, n + 1>>)
    <3>1. PICK d, t : /\ d \in Children /\ t \in 1 .. Len(new[d])
                      /\ u = <<d, t>> /\ new[d][t].generation = g
      BY <2>1, <2>2 DEF IsTurn
    <3>2. CASE d # c
      BY <2>1, <3>1, <3>2 DEF IsTurn
    <3>3. CASE d = c /\ t = n + 1
      BY <1>2, <1>3, <3>1, <3>3
    <3>4. CASE d = c /\ t # n + 1
      <4>1. t \in 1 .. n + 1
        BY <1>2, <1>3, <3>1, <3>4
      <4>2. t \in 1 .. n
        BY <3>4, <4>1
      <4>3. t \in 1 .. Len(old[c]) /\ old[c][t].generation = g
        BY <1>1, <1>2, <1>3, <3>1, <3>4, <4>2
      <4> QED
        BY <2>1, <3>1, <3>4, <4>3 DEF IsTurn
    <3> QED
      BY <3>2, <3>3, <3>4
  <2>3. ASSUME u \in Turns(old, g) PROVE u \in Turns(new, g)
    <3>1. PICK d, t : /\ d \in Children /\ t \in 1 .. Len(old[d])
                      /\ u = <<d, t>> /\ old[d][t].generation = g
      BY <2>1, <2>3 DEF IsTurn
    <3>2. t \in 1 .. Len(new[d]) /\ new[d][t].generation = g
      <4>1. CASE d # c
        BY <3>1, <4>1
      <4>2. CASE d = c
        BY <1>1, <1>2, <1>3, <3>1, <4>2
      <4> QED
        BY <4>1, <4>2
    <3> QED
      BY <2>1, <3>1, <3>2 DEF IsTurn
  <2>4. ASSUME row.generation = g, u = <<c, n + 1>> PROVE u \in Turns(new, g)
    <3>1. n + 1 \in 1 .. Len(new[c]) /\ new[c][n + 1].generation = g
      BY <1>2, <1>3, <2>4
    <3> QED
      BY <2>1, <2>4, <3>1 DEF IsTurn
  <2> QED
    BY <2>2, <2>3, <2>4
<1>5. <<c, n + 1>> \notin Turns(old, g)
  <2> SUFFICES ASSUME NEW d \in Children, NEW t \in 1 .. Len(old[d]), <<c, n + 1>> = <<d, t>>
               PROVE  FALSE
    BY TurnsAre DEF IsTurn
  <2> QED
    BY <1>1
<1> QED
  BY <1>1, <1>4, <1>5

LEMMA SameByReplacing ==
    ASSUME NEW old, NEW new, NEW c \in Children, NEW t, NEW row,
           Replaces(old[c], new[c], t, row), row.generation = old[c][t].generation,
           \A d \in Children : d # c => new[d] = old[d]
    PROVE  SameTurns(old, new)
  BY DEF SameTurns, Replaces

LEMMA SameByEnding ==
    ASSUME SpecialistConstants, LedgerInv, NEW S \in SUBSET Children,
           \A c \in S : child[c].status = "running", NEW status \in Ended,
           EndAttempts(S, status), Supersede(S)
    PROVE  SameTurns(attempt, attempt')
<1>1. \A c \in Children \ S : attempt'[c] = attempt[c]
  BY AttemptsEnd
<1>2. ASSUME NEW c \in S
      PROVE  /\ Len(attempt'[c]) = Len(attempt[c])
             /\ \A t \in 1 .. Len(attempt[c]) :
                    attempt'[c][t].generation = attempt[c][t].generation
  <2>1. PICK row \in AttemptRow :
            /\ row.generation = attempt[c][Len(attempt[c])].generation
            /\ Replaces(attempt[c], attempt'[c], Len(attempt[c]), row)
    BY <1>2, AttemptsEnd
  <2> QED
    BY <2>1 DEF Replaces
<1> QED
  BY <1>1, <1>2 DEF SameTurns

LEMMA AnswerKeepsTurns ==
    ASSUME SpecialistConstants, LedgerInv, NEW p \in Schedulers, NEW c \in Children, Answer(p, c)
    PROVE  SameTurns(attempt, attempt')
<1>1. PICK row \in AttemptRow :
          /\ row.generation = attempt[c][Len(attempt[c])].generation
          /\ Replaces(attempt[c], attempt'[c], Len(attempt[c]), row)
  BY AnswerCharges
<1>2. \A d \in Children : d # c => attempt'[d] = attempt[d]
  BY AnswerCharges
<1> QED
  BY <1>1, <1>2, SameByReplacing

LEMMA CommitKeepsTurns ==
    ASSUME SpecialistConstants, LedgerInv, NEW c \in Children, NEW t,
           NEW status \in {"continued", "finished"}, NEW to \in {"ready", "completed"},
           to = "completed" => status = "finished", Commits(c, t, status, to)
    PROVE  SameTurns(attempt, attempt')
<1>1. /\ Len(attempt'[c]) = Len(attempt[c])
      /\ attempt'[c][t].generation = attempt[c][t].generation
      /\ \A k \in 1 .. Len(attempt[c]) : k # t => attempt'[c][k] = attempt[c][k]
      /\ \A d \in Children : d # c => attempt'[d] = attempt[d]
  BY CommitIsSound
<1> QED
  BY <1>1 DEF SameTurns

LEMMA CrashKeepsTurns ==
    ASSUME SpecialistConstants, LedgerInv, NEW S \in SUBSET Children,
           \A c \in S : child[c].status = "running", Crash(S)
    PROVE  SameTurns(attempt, attempt')
  BY SameByEnding DEF Crash, Ended

LEMMA InterruptKeepsTurns ==
    ASSUME SpecialistConstants, LedgerInv, NEW from, NEW to, Interrupt(from, to)
    PROVE  SameTurns(attempt, attempt')
<1>1. PICK S : S = {c \in Children : child[c].status \in from /\ child[c].status = "running"}
  OBVIOUS
<1>2. S \in SUBSET Children /\ \A c \in S : child[c].status = "running"
  BY <1>1
<1>3. {c \in {d \in Children : child[d].status \in from} : child[c].status = "running"} = S
  BY <1>1
<1>4. EndAttempts(S, "interrupted") /\ Supersede(S)
  BY <1>3 DEF Interrupt
<1> QED
  BY <1>2, <1>4, SameByEnding DEF Ended

(***************************************************************************)
(* Schedules that a step does not touch.                                   *)
(***************************************************************************)

LEMMA KnowsStays ==
    ASSUME NEW q, NEW self, NEW team, NEW held, NEW rows, NEW table,
           NEW others, NEW now, NEW next,
           Knows(q, self, team, held, rows, table), Begun(others) = Begun(team),
           now.holder = q => now = held, \A g : Turns(next, g) = Turns(table, g)
    PROVE  Knows(q, self, others, now, rows, next)
  BY DEF Knows

LEMMA SchedulesStay ==
    ASSUME SpecialistConstants, LedgerInv, LedgerInv', ScheduleInv, ProcessTypes',
           SameTurns(attempt, attempt'), UNCHANGED schedule,
           lease'.generation >= lease.generation
    PROVE  /\ \A g : Turns(attempt', g) = Turns(attempt, g)
           /\ Known(lease', schedule', attempt') /\ Counted(schedule', attempt')
<1>1. attempt \in [Children -> Seq(AttemptRow)] /\ attempt' \in [Children -> Seq(AttemptRow)]
  BY DEF LedgerInv, LedgerTypes
<1>2. \A g : Turns(attempt', g) = Turns(attempt, g)
  BY <1>1, TurnsSame
<1>3. lease.generation \in Nat /\ lease'.generation \in Nat /\ schedule \in Seq(ScheduleRow)
  BY Numbers DEF ScheduleInv, ProcessTypes
<1>4. \A k \in 1 .. Len(schedule) : schedule[k].generation \in Nat
  <2>1. \A k \in 1 .. Len(schedule) : schedule[k] \in ScheduleRow
    BY <1>3, ElementOfSeq
  <2> QED
    BY <2>1 DEF ScheduleRow
<1>5. \A c \in Children : \A t \in 1 .. Len(attempt[c]) : attempt[c][t].generation \in Nat
  BY <1>1, RowTypes
<1>6. Len(schedule) \in Nat
  BY <1>3, LenProperties
<1>7. Known(lease, schedule, attempt)
  BY DEF ScheduleInv
<1>8. \A c \in Children : \A t \in 1 .. Len(attempt'[c]) :
          attempt'[c][t].generation <= lease'.generation
  <2> SUFFICES ASSUME NEW c \in Children, NEW t \in 1 .. Len(attempt[c])
               PROVE  attempt'[c][t].generation <= lease'.generation
    BY DEF SameTurns
  <2>1. attempt'[c][t].generation = attempt[c][t].generation
    BY DEF SameTurns
  <2>2. attempt[c][t].generation <= lease.generation
    BY <1>7 DEF Known
  <2> QED
    BY <1>3, <1>5, <2>1, <2>2
<1>9. Known(lease', schedule', attempt')
  <2>1. PICK g \in Nat, h \in Nat : g = lease.generation /\ h = lease'.generation /\ h >= g
    BY <1>3
  <2>2. Len(schedule) <= h
    BY <1>6, <1>7, <2>1 DEF Known
  <2>3. \A k \in 1 .. Len(schedule) : schedule[k].generation <= h
    <3> SUFFICES ASSUME NEW k \in 1 .. Len(schedule) PROVE schedule[k].generation <= h
      OBVIOUS
    <3>1. schedule[k].generation <= g /\ schedule[k].generation \in Nat
      BY <1>4, <1>7, <2>1 DEF Known
    <3> QED
      BY <2>1, <3>1
  <2>4. \A j, k \in 1 .. Len(schedule) : j < k => schedule[j].generation < schedule[k].generation
    BY <1>7 DEF Known
  <2> QED
    BY <1>8, <2>1, <2>2, <2>3, <2>4 DEF Known
<1>10. Counted(schedule', attempt')
  BY <1>2 DEF ScheduleInv, Counted
<1> QED
  BY <1>2, <1>9, <1>10

\* Goroutines go on with their turns.
QuietWorkers ==
    \A q \in Schedulers : \A d \in Children :
        \/ worker'[q][d] = worker[q][d]
        \/ /\ worker[q][d].step # "idle" /\ worker'[q][d].turn = worker[q][d].turn
           /\ worker'[q][d].step \notin {"idle", "begin"}

LEMMA QuietStep ==
    ASSUME SpecialistConstants, LedgerInv, LedgerInv', ScheduleInv, ProcessTypes',
           SameTurns(attempt, attempt'), UNCHANGED <<schedule, scheduler>>,
           lease'.generation >= lease.generation,
           \A q \in Schedulers : lease'.holder = q => lease' = lease, QuietWorkers
    PROVE  ScheduleInv'
<1>1. /\ \A g : Turns(attempt', g) = Turns(attempt, g)
      /\ Known(lease', schedule', attempt') /\ Counted(schedule', attempt')
  BY SchedulesStay
<1>2. ASSUME NEW q \in Schedulers
      PROVE  /\ Knows(q, scheduler[q], worker'[q], lease', schedule, attempt')
             /\ Minds(scheduler[q], worker'[q])
  <2>1. Knows(q, scheduler[q], worker[q], lease, schedule, attempt) /\ Minds(scheduler[q], worker[q])
    BY DEF ScheduleInv
  <2>2. Begun(worker'[q]) = Begun(worker[q])
    BY DEF QuietWorkers, Begun
  <2>3. Minds(scheduler[q], worker'[q])
    BY <2>1 DEF QuietWorkers, Minds, NoWorker
  <2>4. lease'.holder = q => lease' = lease
    OBVIOUS
  <2> QED
    BY <1>1, <2>1, <2>2, <2>3, <2>4, KnowsStays
<1> QED
  BY <1>1, <1>2 DEF ScheduleInv

\* One process goes on with its schedule, begins or ends.
LEMMA OneProcess ==
    ASSUME SpecialistConstants, LedgerInv, LedgerInv', ScheduleInv, ProcessTypes',
           SameTurns(attempt, attempt'), UNCHANGED schedule,
           lease'.generation >= lease.generation, NEW p \in Schedulers,
           \A q \in Schedulers : q # p =>
               /\ scheduler'[q] = scheduler[q] /\ worker'[q] = worker[q]
               /\ lease'.holder = q => lease' = lease,
           Knows(p, scheduler'[p], worker'[p], lease', schedule, attempt),
           Minds(scheduler'[p], worker'[p]),
           scheduler'[p].pc \in Working =>
               scheduler[p].pc \in Working /\ scheduler'[p].row = scheduler[p].row
    PROVE  ScheduleInv'
<1>1. /\ \A g : Turns(attempt', g) = Turns(attempt, g)
      /\ Known(lease', schedule', attempt') /\ Counted(schedule', attempt')
  BY SchedulesStay
<1>2. ASSUME NEW q \in Schedulers
      PROVE  /\ Knows(q, scheduler'[q], worker'[q], lease', schedule, attempt')
             /\ Minds(scheduler'[q], worker'[q])
  <2>1. CASE q = p
    BY <1>1, <2>1, KnowsStays
  <2>2. CASE q # p
    <3>1. /\ scheduler'[q] = scheduler[q] /\ worker'[q] = worker[q]
          /\ lease'.holder = q => lease' = lease
      BY <2>2
    <3>2. Knows(q, scheduler[q], worker[q], lease, schedule, attempt)
          /\ Minds(scheduler[q], worker[q])
      BY DEF ScheduleInv
    <3>3. Knows(q, scheduler[q], worker[q], lease', schedule, attempt')
      BY <1>1, <3>1, <3>2, KnowsStays
    <3> QED
      BY <3>1, <3>2, <3>3
  <2> QED
    BY <2>1, <2>2
<1>3. Apart(scheduler')
  BY DEF ScheduleInv, Apart
<1> QED
  BY <1>1, <1>2, <1>3 DEF ScheduleInv

(***************************************************************************)
(* Steps and their schedules.                                              *)
(***************************************************************************)

Steps == {"prepare", "call", "continue", "finish", "fail", "done"}

LEMMA SameIfUnchanged ==
    ASSUME UNCHANGED attempt
    PROVE  SameTurns(attempt, attempt')
  BY DEF SameTurns

LEMMA GoroutineGoesOn ==
    ASSUME ProcessTypes, NEW p \in Schedulers, NEW c \in Children, worker[p][c].step # "idle",
           \/ UNCHANGED worker
           \/ \E step \in Steps : Goto(p, c, step)
           \/ \E failed \in BOOLEAN : Done(p, c, failed)
    PROVE  worker' \in [Schedulers -> [Children -> WorkerRow]] /\ QuietWorkers
<1>1. worker \in [Schedulers -> [Children -> WorkerRow]]
  BY DEF ProcessTypes
<1>2. CASE UNCHANGED worker
  BY <1>1, <1>2 DEF QuietWorkers
<1>3. PICK team, w : team = worker[p] /\ w = worker[p][c]
  OBVIOUS
<1>4. team \in [Children -> WorkerRow] /\ w \in WorkerRow /\ w.step # "idle" /\ w = team[c]
  BY <1>1, <1>3
<1>5. ASSUME NEW next \in WorkerRow, next.turn = w.turn, next.step \in Steps,
             worker' = [worker EXCEPT ![p] = [team EXCEPT ![c] = next]]
      PROVE  worker' \in [Schedulers -> [Children -> WorkerRow]] /\ QuietWorkers
  <2>1. PICK others \in [Children -> WorkerRow] : others = [team EXCEPT ![c] = next]
    BY <1>4, <1>5
  <2>2. worker' = [worker EXCEPT ![p] = others]
    BY <1>5, <2>1
  <2>3. worker' \in [Schedulers -> [Children -> WorkerRow]]
    BY <1>1, <2>1, <2>2
  <2>4. ASSUME NEW q \in Schedulers, NEW d \in Children
        PROVE  \/ worker'[q][d] = worker[q][d]
               \/ /\ worker[q][d].step # "idle" /\ worker'[q][d].turn = worker[q][d].turn
                  /\ worker'[q][d].step \notin {"idle", "begin"}
    <3>1. CASE q = p /\ d = c
      <4>1. worker'[q][d] = next /\ worker[q][d] = w
        BY <1>1, <1>3, <1>4, <2>1, <2>2, <3>1
      <4> QED
        BY <1>4, <1>5, <4>1 DEF Steps
    <3>2. CASE ~(q = p /\ d = c)
      BY <1>1, <1>3, <1>4, <2>1, <2>2, <3>2
    <3> QED
      BY <3>1, <3>2
  <2> QED
    BY <2>3, <2>4 DEF QuietWorkers
<1>6. ASSUME NEW step \in Steps, Goto(p, c, step)
      PROVE  worker' \in [Schedulers -> [Children -> WorkerRow]] /\ QuietWorkers
  <2>1. PICK next : next = [w EXCEPT !.step = step]
    OBVIOUS
  <2>2. next \in WorkerRow /\ next.turn = w.turn /\ next.step = step
    BY <1>4, <1>6, <2>1 DEF WorkerRow, Steps
  <2>3. worker' = [worker EXCEPT ![p] = [team EXCEPT ![c] = next]]
    BY <1>1, <1>3, <1>4, <1>6, <2>1 DEF Goto
  <2> QED
    BY <1>5, <1>6, <2>2, <2>3
<1>7. ASSUME NEW failed \in BOOLEAN, Done(p, c, failed)
      PROVE  worker' \in [Schedulers -> [Children -> WorkerRow]] /\ QuietWorkers
  <2>1. PICK next : next = [w EXCEPT !.step = "done", !.failed = failed]
    OBVIOUS
  <2>2. next \in WorkerRow /\ next.turn = w.turn /\ next.step = "done"
    BY <1>4, <2>1 DEF WorkerRow
  <2>3. worker' = [worker EXCEPT ![p] = [team EXCEPT ![c] = next]]
    BY <1>1, <1>3, <1>4, <1>7, <2>1 DEF Done
  <2> QED
    BY <1>5, <2>2, <2>3 DEF Steps
<1> QED
  BY <1>2, <1>6, <1>7

LEMMA QuietTurn ==
    ASSUME SpecialistConstants, LedgerInv, LedgerInv', ScheduleInv, NEW p \in Schedulers,
           NEW c \in Children, SameTurns(attempt, attempt'), UNCHANGED Local,
           worker[p][c].step # "idle",
           \/ UNCHANGED worker
           \/ \E step \in Steps : Goto(p, c, step)
           \/ \E failed \in BOOLEAN : Done(p, c, failed)
    PROVE  ScheduleInv'
<1>1. ProcessTypes
  BY DEF ScheduleInv
<1>2. worker' \in [Schedulers -> [Children -> WorkerRow]] /\ QuietWorkers
  BY <1>1, GoroutineGoesOn
<1>3. UNCHANGED <<run, root, lease, read, requested, schedule, scheduler, faults>>
  BY DEF Local
<1>4. ProcessTypes'
  BY <1>1, <1>2, <1>3 DEF ProcessTypes
<1>5. lease.generation \in Nat
  BY <1>1, Numbers DEF ProcessTypes
<1>6. lease'.generation >= lease.generation
  BY <1>3, <1>5
<1> QED
  BY <1>2, <1>3, <1>4, <1>6, QuietStep

LEMMA PrepareKeepsSchedules ==
    ASSUME SpecialistConstants, LedgerInv, LedgerInv', ScheduleInv, NEW p \in Schedulers,
           NEW c \in Children, Prepare(p, c)
    PROVE  ScheduleInv'
<1>1. SameTurns(attempt, attempt')
  BY SameIfUnchanged DEF Prepare
<1>2. worker[p][c].step # "idle" /\ UNCHANGED Local /\ \E step \in Steps : Goto(p, c, step)
  BY DEF Prepare, Local, Steps
<1> QED
  BY <1>1, <1>2, QuietTurn

LEMMA AnswerKeepsSchedules ==
    ASSUME SpecialistConstants, LedgerInv, LedgerInv', ScheduleInv, NEW p \in Schedulers,
           NEW c \in Children, Answer(p, c)
    PROVE  ScheduleInv'
<1>1. SameTurns(attempt, attempt')
  BY AnswerKeepsTurns
<1>2. /\ worker[p][c].step # "idle" /\ UNCHANGED Local
      /\ UNCHANGED worker \/ \E step \in Steps : Goto(p, c, step)
  BY DEF Answer, Local, Steps
<1> QED
  BY <1>1, <1>2, QuietTurn

LEMMA ContinueKeepsSchedules ==
    ASSUME SpecialistConstants, LedgerInv, LedgerInv', ScheduleInv, NEW p \in Schedulers,
           NEW c \in Children, Continue(p, c)
    PROVE  ScheduleInv'
<1>1. ASSUME NEW t, Commits(c, t, "continued", "ready") PROVE SameTurns(attempt, attempt')
  BY <1>1, CommitKeepsTurns
<1>2. SameTurns(attempt, attempt')
  BY <1>1, SameIfUnchanged DEF Continue, Commits, ledger
<1>3. /\ worker[p][c].step # "idle" /\ UNCHANGED Local
      /\ \/ \E step \in Steps : Goto(p, c, step)
         \/ \E failed \in BOOLEAN : Done(p, c, failed)
  BY DEF Continue, Local, Steps
<1> QED
  BY <1>2, <1>3, QuietTurn

LEMMA FinishKeepsSchedules ==
    ASSUME SpecialistConstants, LedgerInv, LedgerInv', ScheduleInv, NEW p \in Schedulers,
           NEW c \in Children, Finish(p, c)
    PROVE  ScheduleInv'
<1>1. ASSUME NEW t, Commits(c, t, "finished", "completed") PROVE SameTurns(attempt, attempt')
  BY <1>1, CommitKeepsTurns
<1>2. SameTurns(attempt, attempt')
  BY <1>1, SameIfUnchanged DEF Finish, Commits, ledger
<1>3. /\ worker[p][c].step # "idle" /\ UNCHANGED Local
      /\ \/ \E step \in Steps : Goto(p, c, step)
         \/ \E failed \in BOOLEAN : Done(p, c, failed)
  BY DEF Finish, Local, Steps
<1> QED
  BY <1>2, <1>3, QuietTurn

LEMMA FailKeepsSchedules ==
    ASSUME SpecialistConstants, LedgerInv, LedgerInv', ScheduleInv, NEW p \in Schedulers,
           NEW c \in Children, Fails(p, c) \/ FailAttempt(p, c)
    PROVE  ScheduleInv'
<1>1. ASSUME Crash({c}), Active(c, worker[p][c].turn) PROVE SameTurns(attempt, attempt')
  <2>1. PICK S \in SUBSET Children : S = {c}
    OBVIOUS
  <2>2. Crash(S) /\ \A d \in S : child[d].status = "running"
    BY <1>1, <2>1 DEF Active
  <2> QED
    BY <2>2, CrashKeepsTurns
<1>2. SameTurns(attempt, attempt')
  BY <1>1, SameIfUnchanged DEF Fails, FailAttempt, ledger
<1>3. /\ worker[p][c].step # "idle" /\ UNCHANGED Local
      /\ \/ \E step \in Steps : Goto(p, c, step)
         \/ \E failed \in BOOLEAN : Done(p, c, failed)
  BY DEF Fails, FailAttempt, Local, Steps
<1> QED
  BY <1>2, <1>3, QuietTurn

\* BeginSpecialistAttempt: one attempt more, and one goroutine more that has begun.
LEMMA BeginKeepsSchedules ==
    ASSUME SpecialistConstants, LedgerInv, LedgerInv', ScheduleInv, NEW p \in Schedulers,
           NEW c \in Children, Begin(p, c)
    PROVE  ScheduleInv'
<1>1. UNCHANGED Local /\ worker[p][c].step = "begin"
  BY DEF Begin
<1>2. CASE Done(p, c, TRUE) /\ UNCHANGED ledger
  <2>1. SameTurns(attempt, attempt')
    BY <1>2, SameIfUnchanged DEF ledger
  <2>2. worker[p][c].step # "idle" /\ \E failed \in BOOLEAN : Done(p, c, failed)
    BY <1>1, <1>2
  <2> QED
    BY <1>1, <2>1, <2>2, QuietTurn
<1>3. ASSUME NEW t, t = child[c].turns + 1, child[c].status = "ready", BudgetLeft(child[c]),
             lease.holder = p,
             attempt' = [attempt EXCEPT ![c] = Append(@,
                   [status |-> "running", generation |-> lease.generation, usage |-> FALSE,
                    tokens |-> 0, repair |-> "none"])],
             worker' = [worker EXCEPT ![p][c].step = "prepare", ![p][c].turn = t]
      PROVE  ScheduleInv'
  <2>1. /\ UNCHANGED <<run, root, lease, read, requested, schedule, scheduler, faults>>
        /\ ProcessTypes /\ attempt \in [Children -> Seq(AttemptRow)]
        /\ attempt' \in [Children -> Seq(AttemptRow)] /\ child[c] \in ChildRow
    BY <1>1 DEF Local, ScheduleInv, LedgerInv, LedgerTypes
  <2>2. PICK g \in Nat : g = lease.generation
    BY <2>1, Numbers DEF ProcessTypes
  <2>3. t \in 1 .. TurnLimit /\ t # 0
    <3>1. PICK m \in 0 .. TurnLimit : m = child[c].turns /\ m < TurnLimit
      BY <1>3, <2>1 DEF ChildRow, BudgetLeft
    <3> QED
      BY <1>3, <3>1, Numbers
  <2>4. PICK row : row = [status |-> "running", generation |-> g, usage |-> FALSE, tokens |-> 0,
                          repair |-> "none"]
    OBVIOUS
  <2>5. row \in AttemptRow /\ row.generation = g
    BY <2>4 DEF AttemptRow, AttemptStatuses, Repairs
  <2>6. PICK rows \in Seq(AttemptRow) : rows = attempt[c]
    BY <2>1
  <2>7. attempt' = [attempt EXCEPT ![c] = Append(rows, row)]
    BY <1>3, <2>1, <2>2, <2>4, <2>6
  <2>8. /\ Extends(attempt[c], attempt'[c], row)
        /\ \A d \in Children : d # c => attempt'[d] = attempt[d]
    BY <2>1, <2>5, <2>6, <2>7 DEF Extends
  <2>9. \A h : /\ h # g => Turns(attempt', h) = Turns(attempt, h)
               /\ h = g => /\ Turns(attempt', h) = Turns(attempt, h)
                                  \union {<<c, Len(attempt[c]) + 1>>}
                           /\ <<c, Len(attempt[c]) + 1>> \notin Turns(attempt, h)
    <3> SUFFICES ASSUME NEW h
                 PROVE  /\ h # g => Turns(attempt', h) = Turns(attempt, h)
                        /\ h = g => /\ Turns(attempt', h) = Turns(attempt, h)
                                           \union {<<c, Len(attempt[c]) + 1>>}
                                    /\ <<c, Len(attempt[c]) + 1>> \notin Turns(attempt, h)
      OBVIOUS
    <3>1. PICK old, new : old = attempt /\ new = attempt'
      OBVIOUS
    <3>2. /\ old \in [Children -> Seq(AttemptRow)] /\ new \in [Children -> Seq(AttemptRow)]
          /\ BeginsTurn(old, new, c, row)
      BY <2>1, <2>8, <3>1 DEF BeginsTurn
    <3>3. /\ row.generation # h => Turns(new, h) = Turns(old, h)
          /\ row.generation = h => /\ Turns(new, h) = Turns(old, h)
                                          \union {<<c, Len(old[c]) + 1>>}
                                   /\ <<c, Len(old[c]) + 1>> \notin Turns(old, h)
      BY <2>5, <3>2, TurnsBegun
    <3>4. row.generation = g
      BY <2>5
    <3> QED
      BY <3>1, <3>3, <3>4
  <2>10. \A h : /\ h # g => Cardinality(Turns(attempt', h)) = Cardinality(Turns(attempt, h))
                /\ h = g => Cardinality(Turns(attempt', h)) = Cardinality(Turns(attempt, h)) + 1
    <3> SUFFICES ASSUME NEW h
                 PROVE  h = g => Cardinality(Turns(attempt', h)) = Cardinality(Turns(attempt, h)) + 1
      BY <2>9
    <3>1. PICK S : S = Turns(attempt, h)
      OBVIOUS
    <3>2. PICK u : u = <<c, Len(attempt[c]) + 1>>
      OBVIOUS
    <3>3. h = g => Turns(attempt', h) = S \union {u} /\ u \notin S
      BY <2>9, <3>1, <3>2
    <3>4. IsFiniteSet(S)
      BY <3>1, TurnsFinite
    <3>5. u \notin S => Cardinality(S \union {u}) = Cardinality(S) + 1
      BY <3>4, FS_AddElement
    <3> QED
      BY <3>1, <3>3, <3>5
  <2>11. /\ worker \in [Schedulers -> [Children -> WorkerRow]]
         /\ scheduler \in [Schedulers -> SchedulerRow] /\ schedule \in Seq(ScheduleRow)
    BY <2>1 DEF ProcessTypes
  <2>12. PICK team \in [Children -> WorkerRow] : team = worker[p]
    BY <2>11
  <2>13. PICK next : next = [team[c] EXCEPT !.step = "prepare", !.turn = t]
    OBVIOUS
  <2>14. next \in WorkerRow /\ next.step = "prepare" /\ next.turn = t
    <3>1. team[c] \in WorkerRow /\ t \in 0 .. TurnLimit
      BY <2>3, <2>12
    <3> QED
      BY <2>13, <3>1 DEF WorkerRow
  <2>15. PICK others \in [Children -> WorkerRow] : others = [team EXCEPT ![c] = next]
    BY <2>14
  <2>16. worker' = [worker EXCEPT ![p] = others]
    BY <1>3, <2>11, <2>12, <2>13, <2>15
  <2>17. /\ worker' \in [Schedulers -> [Children -> WorkerRow]] /\ worker'[p] = others
         /\ \A q \in Schedulers : q # p => worker'[q] = worker[q]
    BY <2>11, <2>15, <2>16
  <2>18. ProcessTypes'
    BY <2>1, <2>17 DEF ProcessTypes
  <2>19. PICK self \in SchedulerRow : self = scheduler[p]
    BY <2>11
  <2>20. Knows(p, self, team, lease, schedule, attempt) /\ Minds(self, team)
    BY <2>12, <2>19 DEF ScheduleInv
  <2>21. team[c].step = "begin" /\ team[c].turn = 0
    BY <1>1, <2>12, <2>20 DEF Minds
  <2>22. self.pc = "wait" /\ self.pc \in Working
    BY <2>20, <2>21 DEF Minds, NoWorker, Working
  <2>23. PICK k \in 1 .. Len(schedule) : k = self.row
    BY <2>20, <2>22 DEF Knows
  <2>24. schedule[k].generation = g /\ schedule[k].status = "running"
    BY <1>3, <2>2, <2>20, <2>22, <2>23 DEF Knows
  <2>25. \A j \in 1 .. Len(schedule) : j # k => schedule[j].generation # g
    <3> SUFFICES ASSUME NEW j \in 1 .. Len(schedule), j # k PROVE schedule[j].generation # g
      OBVIOUS
    <3>1. schedule[j] \in ScheduleRow
      BY <2>11, ElementOfSeq
    <3>2. schedule[j].generation \in Nat /\ (j < k \/ k < j)
      BY <3>1 DEF ScheduleRow
    <3>3. /\ j < k => schedule[j].generation < schedule[k].generation
          /\ k < j => schedule[k].generation < schedule[j].generation
      BY DEF ScheduleInv, Known
    <3> QED
      BY <2>24, <3>2, <3>3
  <2>26. Cardinality(Begun(others)) = Cardinality(Begun(team)) + 1
         /\ Cardinality(Begun(team)) \in Nat
    <3>1. Begun(others) = Begun(team) \union {c} /\ c \notin Begun(team)
      BY <2>3, <2>14, <2>15, <2>21 DEF Begun
    <3>2. Begun(team) \in SUBSET Children
      BY DEF Begun
    <3>3. IsFiniteSet(Begun(team))
      BY <3>2, Numbers, FS_Subset
    <3> QED
      BY <3>1, <3>3, FS_AddElement, FS_CardinalityType
  <2>27. Known(lease', schedule', attempt')
    <3>1. Known(lease, schedule, attempt)
      BY DEF ScheduleInv
    <3>2. ASSUME NEW d \in Children, NEW n \in 1 .. Len(attempt'[d])
          PROVE  attempt'[d][n].generation <= lease.generation
      <4>1. CASE d # c
        BY <2>8, <3>1, <3>2, <4>1 DEF Known
      <4>2. CASE d = c
        <5>1. Len(rows) \in Nat /\ Len(attempt'[c]) = Len(rows) + 1
              /\ attempt'[c][Len(rows) + 1] = row
              /\ \A m \in 1 .. Len(rows) : attempt'[c][m] = rows[m]
          BY <2>6, <2>8, RowTypes DEF Extends
        <5>2. CASE n = Len(rows) + 1
          BY <2>2, <2>5, <4>2, <5>1, <5>2
        <5>3. CASE n # Len(rows) + 1
          <6>1. n \in 1 .. Len(rows)
            BY <3>2, <4>2, <5>1, <5>3
          <6> QED
            BY <2>6, <3>1, <4>2, <5>1, <6>1 DEF Known
        <5> QED
          BY <5>2, <5>3
      <4> QED
        BY <4>1, <4>2
    <3> QED
      BY <2>1, <3>1, <3>2 DEF Known
  <2>28. Counted(schedule', attempt')
    <3>1. Counted(schedule, attempt)
      BY DEF ScheduleInv
    <3>2. \A j \in 1 .. Len(schedule) : schedule[j].status # "running" =>
              Cardinality(Turns(attempt', schedule[j].generation))
                  = Cardinality(Turns(attempt, schedule[j].generation))
      BY <2>10, <2>24, <2>25
    <3> QED
      BY <2>1, <3>1, <3>2 DEF Counted
  <2>29. Knows(p, self, others, lease, schedule, attempt') /\ Minds(self, others)
    <3>1. Cardinality(Turns(attempt', g)) = Cardinality(Turns(attempt, g)) + 1
          /\ Cardinality(Turns(attempt, g)) \in Nat
      BY <2>10, TurnsFinite
    <3>2. self.turns \in Nat
      BY <2>19 DEF SchedulerRow
    <3>3. self.turns + Cardinality(Begun(team)) = Cardinality(Turns(attempt, g))
      BY <2>20, <2>22, <2>23, <2>24 DEF Knows
    <3>4. self.turns + Cardinality(Begun(others)) = Cardinality(Turns(attempt', g))
      BY <2>26, <3>1, <3>2, <3>3
    <3>5. Minds(self, others)
      BY <2>14, <2>15, <2>20, <2>22 DEF Minds
    <3> QED
      BY <2>2, <2>20, <2>22, <2>23, <2>24, <3>4, <3>5 DEF Knows
  <2>30. ASSUME NEW q \in Schedulers, q # p
         PROVE  Knows(q, scheduler[q], worker[q], lease, schedule, attempt')
    <3>1. Knows(q, scheduler[q], worker[q], lease, schedule, attempt)
      BY DEF ScheduleInv
    <3>2. lease.holder # q
      BY <1>3, <2>30
    <3>3. CASE scheduler[q].pc \in Working
      <4>1. scheduler[q].row # k /\ scheduler[q].row \in 1 .. Len(schedule)
        BY <2>19, <2>22, <2>23, <2>30, <3>1, <3>3 DEF ScheduleInv, Apart, Knows
      <4>2. Turns(attempt', schedule[scheduler[q].row].generation)
                = Turns(attempt, schedule[scheduler[q].row].generation)
        BY <2>9, <2>25, <4>1
      <4> QED
        BY <3>1, <3>2, <3>3, <4>2 DEF Knows
    <3>4. CASE scheduler[q].pc \notin Working
      BY <3>1, <3>2, <3>4 DEF Knows
    <3> QED
      BY <3>3, <3>4
  <2>31. \A q \in Schedulers : /\ Knows(q, scheduler'[q], worker'[q], lease', schedule', attempt')
                               /\ Minds(scheduler'[q], worker'[q])
    <3> SUFFICES ASSUME NEW q \in Schedulers
                 PROVE  /\ Knows(q, scheduler[q], worker'[q], lease, schedule, attempt')
                        /\ Minds(scheduler[q], worker'[q])
      BY <2>1
    <3>1. CASE q = p
      BY <2>17, <2>19, <2>29, <3>1
    <3>2. CASE q # p
      BY <2>17, <2>30, <3>2 DEF ScheduleInv
    <3> QED
      BY <3>1, <3>2
  <2> QED
    BY <2>1, <2>18, <2>27, <2>28, <2>31 DEF ScheduleInv
<1> QED
  BY <1>2, <1>3 DEF Begin

\* What operators, the root Agent and faults do.
LEMMA OthersKeepSchedules ==
    ASSUME SpecialistConstants, LedgerInv, LedgerInv', ScheduleInv,
           \/ \E q \in Requests : Ask(q)
           \/ \E c \in Children : Instruct(c)
           \/ RootBegins \/ RootEnds \/ Pause \/ Resume \/ EndRun \/ Lapse
    PROVE  ScheduleInv'
<1>1. UNCHANGED <<schedule, scheduler, worker>>
  BY DEF Ask, Instruct, RootBegins, RootEnds, Pause, Resume, EndRun, Lapse
<1>2. \/ UNCHANGED attempt
      \/ \E from, to : Interrupt(from, to)
  BY DEF Ask, Instruct, RootBegins, RootEnds, Pause, Resume, EndRun, Lapse, ledger
<1>3. SameTurns(attempt, attempt')
  BY <1>2, SameIfUnchanged, InterruptKeepsTurns
<1>4. PICK held \in [holder : Schedulers \union {"none", "root"}, generation : 0 .. MaxLeases] :
          held = lease
  BY DEF ScheduleInv, ProcessTypes
<1>5. \/ lease' = held
      \/ lease' = [held EXCEPT !.holder = "none"]
      \/ lease' = [holder |-> "root", generation |-> held.generation + 1]
         /\ held.generation < MaxLeases
  BY <1>4 DEF Ask, Instruct, RootBegins, RootEnds, Pause, Resume, EndRun, Lapse
<1>6. held.generation \in Nat /\ held.generation \in 0 .. MaxLeases
  BY <1>4, Numbers
<1>7. /\ lease' \in [holder : Schedulers \union {"none", "root"}, generation : 0 .. MaxLeases]
      /\ lease'.generation >= held.generation
      /\ lease'.holder \in {held.holder, "none", "root"}
      /\ lease'.holder \in Schedulers => lease' = held
  <2>1. CASE lease' = held
    BY <1>4, <1>6, <2>1
  <2>2. CASE lease' = [held EXCEPT !.holder = "none"]
    BY <1>4, <1>6, <2>2, Numbers
  <2>3. CASE /\ lease' = [holder |-> "root", generation |-> held.generation + 1]
             /\ held.generation < MaxLeases
    BY <1>6, <2>3, Numbers
  <2> QED
    BY <1>5, <2>1, <2>2, <2>3
<1>8. \A q \in Schedulers : lease'.holder = q => lease' = lease
  BY <1>4, <1>7
<1>9. /\ run' \in {"running", "paused", "ended"} /\ root' \in {"ready", "running"}
      /\ requested' \in SUBSET Requests /\ faults' \in 0 .. MaxFaults
  <2>1. /\ run \in {"running", "paused", "ended"} /\ root \in {"ready", "running"}
        /\ requested \in SUBSET Requests /\ faults \in 0 .. MaxFaults
    BY DEF ScheduleInv, ProcessTypes
  <2>2. run' \in {"running", "paused", "ended"} /\ root' \in {"ready", "running"}
    BY <2>1 DEF Ask, Instruct, RootBegins, RootEnds, Pause, Resume, EndRun, Lapse
  <2>3. requested' \in SUBSET Requests
    BY <2>1 DEF Ask, Instruct, RootBegins, RootEnds, Pause, Resume, EndRun, Lapse
  <2>4. UNCHANGED faults \/ Fault
    BY DEF Ask, Instruct, RootBegins, RootEnds, Pause, Resume, EndRun, Lapse
  <2>5. faults' \in 0 .. MaxFaults
    BY <2>1, <2>4, Numbers DEF Fault
  <2> QED
    BY <2>2, <2>3, <2>5
<1>10. ProcessTypes'
  BY <1>1, <1>7, <1>9 DEF ScheduleInv, ProcessTypes
<1>11. QuietWorkers
  BY <1>1 DEF QuietWorkers
<1> QED
  BY <1>1, <1>3, <1>4, <1>7, <1>8, <1>10, <1>11, QuietStep

\* The memory of a process.
LEMMA StepIs ==
    ASSUME ProcessTypes, NEW p \in Schedulers, NEW pc \in Working \union {"idle", "start", "release"},
           NEW failed \in BOOLEAN,
           \/ Step(p, pc)
           \/ pc = "finish" /\ Stop(p, failed)
    PROVE  /\ scheduler' \in [Schedulers -> SchedulerRow]
           /\ scheduler'[p].pc = pc /\ scheduler'[p].row = scheduler[p].row
           /\ scheduler'[p].turns = scheduler[p].turns
           /\ scheduler'[p].rounds = scheduler[p].rounds
           /\ \A q \in Schedulers : q # p => scheduler'[q] = scheduler[q]
<1>1. scheduler \in [Schedulers -> SchedulerRow]
  BY DEF ProcessTypes
<1>2. PICK self \in SchedulerRow : self = scheduler[p]
  BY <1>1
<1>3. PICK next \in SchedulerRow :
          /\ scheduler' = [scheduler EXCEPT ![p] = next]
          /\ next.pc = pc /\ next.row = self.row /\ next.turns = self.turns
          /\ next.rounds = self.rounds
  <2>1. CASE Step(p, pc)
    <3>1. PICK next : next = [self EXCEPT !.pc = pc]
      OBVIOUS
    <3>2. /\ next \in SchedulerRow /\ next.pc = pc /\ next.row = self.row
          /\ next.turns = self.turns /\ next.rounds = self.rounds
      BY <3>1 DEF SchedulerRow
    <3>3. scheduler' = [scheduler EXCEPT ![p] = next]
      BY <1>1, <1>2, <2>1, <3>1 DEF Step
    <3> QED
      BY <3>2, <3>3
  <2>2. CASE pc = "finish" /\ Stop(p, failed)
    <3>1. PICK next : next = [self EXCEPT !.pc = "finish", !.failed = failed]
      OBVIOUS
    <3>2. /\ next \in SchedulerRow /\ next.pc = pc /\ next.row = self.row
          /\ next.turns = self.turns /\ next.rounds = self.rounds
      BY <2>2, <3>1 DEF SchedulerRow
    <3>3. scheduler' = [scheduler EXCEPT ![p] = next]
      BY <1>1, <1>2, <2>2, <3>1 DEF Stop
    <3> QED
      BY <3>2, <3>3
  <2> QED
    BY <2>1, <2>2
<1> QED
  BY <1>1, <1>2, <1>3

LEMMA AcquireKeepsSchedules ==
    ASSUME SpecialistConstants, LedgerInv, LedgerInv', ScheduleInv, NEW p \in Schedulers,
           Acquire(p)
    PROVE  ScheduleInv'
<1>1. ProcessTypes /\ SameTurns(attempt, attempt')
      /\ UNCHANGED <<run, root, read, requested, schedule, worker, faults, attempt>>
  BY SameIfUnchanged DEF Acquire, ScheduleInv, ledger
<1>2. PICK g \in Nat : g = lease.generation /\ g < MaxLeases /\ g + 1 \in 0 .. MaxLeases
  BY <1>1, Numbers DEF ProcessTypes, Acquire
<1>3. lease' = [holder |-> p, generation |-> g + 1]
  BY <1>2 DEF Acquire
<1>4. /\ scheduler' \in [Schedulers -> SchedulerRow]
      /\ scheduler'[p].pc = "start" /\ scheduler'[p].turns = scheduler[p].turns
      /\ \A q \in Schedulers : q # p => scheduler'[q] = scheduler[q]
  BY <1>1, StepIs DEF Acquire
<1>5. lease' \in [holder : Schedulers \union {"none", "root"}, generation : 0 .. MaxLeases]
  BY <1>2, <1>3
<1>6. ProcessTypes'
  BY <1>1, <1>4, <1>5 DEF ProcessTypes
<1>7. Known(lease, schedule, attempt)
      /\ Knows(p, scheduler[p], worker[p], lease, schedule, attempt)
      /\ Minds(scheduler[p], worker[p])
  BY DEF ScheduleInv
<1>8. scheduler[p].pc = "idle" /\ scheduler[p].turns = 0
  BY <1>7 DEF Acquire, Knows
<1>9. attempt \in [Children -> Seq(AttemptRow)] /\ schedule \in Seq(ScheduleRow)
  BY <1>1 DEF LedgerInv, LedgerTypes, ProcessTypes
<1>10. Turns(attempt, g + 1) = {}
  <2> SUFFICES ASSUME NEW u, u \in Turns(attempt, g + 1) PROVE FALSE
    OBVIOUS
  <2>1. IsTurn(u, attempt, g + 1)
    BY <1>9, TurnsAre
  <2>2. PICK c \in Children : \E t \in 1 .. Len(attempt[c]) : attempt[c][t].generation = g + 1
    BY <2>1 DEF IsTurn
  <2>3. \A t \in 1 .. Len(attempt[c]) : attempt[c][t].generation <= g
    BY <1>2, <1>7 DEF Known
  <2> QED
    BY <2>2, <2>3
<1>11. Len(schedule) < g + 1 /\ \A k \in 1 .. Len(schedule) : schedule[k].generation < g + 1
  <2>1. Len(schedule) \in Nat /\ \A k \in 1 .. Len(schedule) : schedule[k] \in ScheduleRow
    BY <1>9, LenProperties, ElementOfSeq
  <2>2. \A k \in 1 .. Len(schedule) : schedule[k].generation \in Nat
    BY <2>1 DEF ScheduleRow
  <2> QED
    BY <1>2, <1>7, <2>1, <2>2 DEF Known
<1>12. Knows(p, scheduler'[p], worker'[p], lease', schedule, attempt)
  BY <1>3, <1>4, <1>8, <1>10, <1>11 DEF Knows, Working
<1>13. Minds(scheduler'[p], worker'[p])
  BY <1>1, <1>4, <1>7, <1>8 DEF Minds
<1>14. scheduler'[p].pc \notin Working /\ lease'.generation >= lease.generation
  BY <1>2, <1>3, <1>4 DEF Working
<1>15. \A q \in Schedulers : q # p =>
           /\ scheduler'[q] = scheduler[q] /\ worker'[q] = worker[q]
           /\ lease'.holder = q => lease' = lease
  BY <1>1, <1>3, <1>4
<1> QED
  BY <1>1, <1>6, <1>12, <1>13, <1>14, <1>15, OneProcess

\* A process goes on with its schedule, and has no goroutines.
LEMMA GoesOn ==
    ASSUME SpecialistConstants, LedgerInv, LedgerInv', ScheduleInv, NEW p \in Schedulers,
           scheduler[p].pc \in {"recover", "round"}, scheduler'[p].pc \in {"round", "finish"},
           scheduler' \in [Schedulers -> SchedulerRow],
           scheduler'[p].row = scheduler[p].row, scheduler'[p].turns = scheduler[p].turns,
           \A q \in Schedulers : q # p => scheduler'[q] = scheduler[q],
           SameTurns(attempt, attempt'),
           UNCHANGED <<run, root, lease, requested, schedule, worker, faults>>
    PROVE  ScheduleInv'
<1>1. ProcessTypes' /\ lease.generation \in Nat
  BY Numbers DEF ScheduleInv, ProcessTypes
<1>2. Knows(p, scheduler[p], worker[p], lease, schedule, attempt)
      /\ Minds(scheduler[p], worker[p])
  BY DEF ScheduleInv
<1>3. Knows(p, scheduler'[p], worker'[p], lease', schedule, attempt)
  BY <1>2 DEF Knows, Working
<1>4. Minds(scheduler'[p], worker'[p])
  BY <1>2 DEF Minds
<1>5. lease'.generation >= lease.generation
  BY <1>1
<1>6. scheduler[p].pc \in Working
  BY DEF Working
<1>7. \A q \in Schedulers : q # p =>
          /\ scheduler'[q] = scheduler[q] /\ worker'[q] = worker[q]
          /\ lease'.holder = q => lease' = lease
  OBVIOUS
<1> QED
  BY <1>1, <1>3, <1>4, <1>5, <1>6, <1>7, OneProcess

LEMMA StaleRun ==
    ASSUME SpecialistConstants, LedgerInv
    PROVE  /\ Stale \in SUBSET Children /\ \A c \in Stale : child[c].status = "running"
           /\ IsFiniteSet(Stale) /\ Cardinality(Stale) \in Nat
<1>1. Stale \in SUBSET Children
  BY DEF Stale
<1>2. ASSUME NEW c \in Stale PROVE child[c].status = "running"
  BY <1>1, <1>2 DEF Stale, LedgerInv, Sound, Agrees
<1> QED
  BY <1>1, <1>2, Numbers, FS_Subset, FS_CardinalityType

LEMMA RecoverKeepsSchedules ==
    ASSUME SpecialistConstants, LedgerInv, LedgerInv', ScheduleInv, NEW p \in Schedulers,
           Recover(p)
    PROVE  ScheduleInv'
<1>1. ProcessTypes /\ scheduler[p].pc = "recover"
      /\ UNCHANGED <<run, root, lease, requested, schedule, worker, faults>>
  BY DEF Recover, ScheduleInv
<1>2. CASE Stop(p, TRUE) /\ UNCHANGED ledger
  <2>1. SameTurns(attempt, attempt')
    BY <1>2, SameIfUnchanged DEF ledger
  <2>2. /\ scheduler' \in [Schedulers -> SchedulerRow] /\ scheduler'[p].pc = "finish"
        /\ scheduler'[p].row = scheduler[p].row /\ scheduler'[p].turns = scheduler[p].turns
        /\ \A q \in Schedulers : q # p => scheduler'[q] = scheduler[q]
    BY <1>1, <1>2, StepIs DEF Working
  <2> QED
    BY <1>1, <2>1, <2>2, GoesOn
<1>3. CASE /\ Crash(Stale)
           /\ scheduler' = [scheduler EXCEPT ![p].pc = "round",
                                             ![p].recovered = Cardinality(Stale)]
  <2>1. SameTurns(attempt, attempt')
    BY <1>3, StaleRun, CrashKeepsTurns
  <2>2. PICK n \in Nat : n = Cardinality(Stale)
    BY StaleRun
  <2>3. PICK self \in SchedulerRow : self = scheduler[p]
    BY <1>1 DEF ProcessTypes
  <2>4. PICK next : next = [self EXCEPT !.pc = "round", !.recovered = n]
    OBVIOUS
  <2>5. next \in SchedulerRow /\ next.pc = "round" /\ next.row = self.row
        /\ next.turns = self.turns
    BY <2>2, <2>4 DEF SchedulerRow, Working
  <2>6. scheduler \in [Schedulers -> SchedulerRow]
    BY <1>1 DEF ProcessTypes
  <2>7. scheduler' = [scheduler EXCEPT ![p] = next]
    BY <1>3, <2>2, <2>3, <2>4, <2>6
  <2>8. /\ scheduler' \in [Schedulers -> SchedulerRow] /\ scheduler'[p].pc = "round"
        /\ scheduler'[p].row = scheduler[p].row /\ scheduler'[p].turns = scheduler[p].turns
        /\ \A q \in Schedulers : q # p => scheduler'[q] = scheduler[q]
    BY <2>3, <2>5, <2>6, <2>7
  <2> QED
    BY <1>1, <2>1, <2>8, GoesOn
<1> QED
  BY <1>2, <1>3 DEF Recover

LEMMA CancelledKeepsSchedules ==
    ASSUME SpecialistConstants, LedgerInv, LedgerInv', ScheduleInv, NEW p \in Schedulers,
           Cancelled(p)
    PROVE  ScheduleInv'
<1>1. ProcessTypes /\ scheduler[p].pc \in {"recover", "round"} /\ Stop(p, TRUE)
      /\ UNCHANGED <<run, root, lease, requested, schedule, worker, faults>>
      /\ SameTurns(attempt, attempt')
  BY SameIfUnchanged DEF Cancelled, ScheduleInv, ledger
<1>2. /\ scheduler' \in [Schedulers -> SchedulerRow] /\ scheduler'[p].pc = "finish"
      /\ scheduler'[p].row = scheduler[p].row /\ scheduler'[p].turns = scheduler[p].turns
      /\ \A q \in Schedulers : q # p => scheduler'[q] = scheduler[q]
  BY <1>1, StepIs DEF Working
<1> QED
  BY <1>1, <1>2, GoesOn

LEMMA NoWorkerTypes == ASSUME SpecialistConstants PROVE NoWorker \in WorkerRow
  BY Numbers DEF NoWorker, WorkerRow

LEMMA RoundKeepsSchedules ==
    ASSUME SpecialistConstants, LedgerInv, LedgerInv', ScheduleInv, NEW p \in Schedulers,
           Round(p)
    PROVE  ScheduleInv'
<1>1. ProcessTypes /\ scheduler[p].pc = "round"
      /\ UNCHANGED <<run, root, lease, requested, schedule, faults>>
      /\ SameTurns(attempt, attempt')
  BY SameIfUnchanged DEF Round, ScheduleInv, ledger
<1>2. ASSUME NEW failed \in BOOLEAN, Stop(p, failed), UNCHANGED worker PROVE ScheduleInv'
  <2>1. /\ scheduler' \in [Schedulers -> SchedulerRow] /\ scheduler'[p].pc = "finish"
        /\ scheduler'[p].row = scheduler[p].row /\ scheduler'[p].turns = scheduler[p].turns
        /\ \A q \in Schedulers : q # p => scheduler'[q] = scheduler[q]
    BY <1>1, <1>2, StepIs DEF Working
  <2> QED
    BY <1>1, <1>2, <2>1, GoesOn
<1>3. ASSUME NEW ready, scheduler[p].rounds # MaxRounds, Step(p, "wait"),
             worker' = [worker EXCEPT ![p] = [c \in Children |->
                       IF c \in ready THEN [NoWorker EXCEPT !.step = "begin"] ELSE NoWorker]]
      PROVE  ScheduleInv'
  <2>1. /\ scheduler' \in [Schedulers -> SchedulerRow] /\ scheduler'[p].pc = "wait"
        /\ scheduler'[p].row = scheduler[p].row /\ scheduler'[p].turns = scheduler[p].turns
        /\ scheduler'[p].rounds = scheduler[p].rounds
        /\ \A q \in Schedulers : q # p => scheduler'[q] = scheduler[q]
    BY <1>1, <1>3, StepIs DEF Working
  <2>2. PICK fresh : fresh = [NoWorker EXCEPT !.step = "begin"]
    OBVIOUS
  <2>3. fresh \in WorkerRow /\ fresh.turn = 0 /\ NoWorker \in WorkerRow /\ NoWorker.turn = 0
    BY <2>2, Numbers DEF WorkerRow, NoWorker
  <2>4. PICK team : team = [c \in Children |-> IF c \in ready THEN fresh ELSE NoWorker]
    OBVIOUS
  <2>5. team \in [Children -> WorkerRow] /\ \A c \in Children : team[c].turn = 0
    BY <2>3, <2>4
  <2>6. worker' = [worker EXCEPT ![p] = team] /\ worker \in [Schedulers -> [Children -> WorkerRow]]
    BY <1>1, <1>3, <2>2, <2>4 DEF ProcessTypes
  <2>7. /\ worker' \in [Schedulers -> [Children -> WorkerRow]] /\ worker'[p] = team
        /\ \A q \in Schedulers : q # p => worker'[q] = worker[q]
    BY <2>5, <2>6
  <2>8. ProcessTypes' /\ lease.generation \in Nat
    BY <1>1, <2>1, <2>7, Numbers DEF ProcessTypes
  <2>9. Knows(p, scheduler[p], worker[p], lease, schedule, attempt)
        /\ Minds(scheduler[p], worker[p])
    BY DEF ScheduleInv
  <2>10. Begun(team) = {} /\ Begun(worker[p]) = {}
    BY <1>1, <2>5, <2>9 DEF Begun, Minds, NoWorker
  <2>11. Knows(p, scheduler'[p], worker'[p], lease', schedule, attempt)
    BY <1>1, <2>1, <2>7, <2>9, <2>10 DEF Knows, Working
  <2>12. Minds(scheduler'[p], worker'[p])
    <3>1. scheduler[p].rounds \in 0 .. MaxRounds
      BY <1>1 DEF ProcessTypes, SchedulerRow
    <3>2. scheduler[p].rounds < MaxRounds
      BY <1>3, <3>1, Numbers
    <3> QED
      BY <2>1, <2>5, <2>7, <3>2 DEF Minds
  <2>13. lease'.generation >= lease.generation /\ scheduler[p].pc \in Working
    BY <1>1, <2>8 DEF Working
  <2>14. \A q \in Schedulers : q # p =>
             /\ scheduler'[q] = scheduler[q] /\ worker'[q] = worker[q]
             /\ lease'.holder = q => lease' = lease
    BY <1>1, <2>1, <2>7
  <2> QED
    BY <1>1, <2>1, <2>8, <2>11, <2>12, <2>13, <2>14, OneProcess
<1> QED
  BY <1>2, <1>3 DEF Round

\* The turns of a round are counted when its goroutines are done.
LEMMA GatherKeepsSchedules ==
    ASSUME SpecialistConstants, LedgerInv, LedgerInv', ScheduleInv, NEW p \in Schedulers,
           Gather(p)
    PROVE  ScheduleInv'
<1>1. ProcessTypes /\ scheduler[p].pc = "wait"
      /\ UNCHANGED <<run, root, lease, requested, schedule, faults>>
      /\ SameTurns(attempt, attempt')
  BY SameIfUnchanged DEF Gather, ScheduleInv, ledger
<1>2. Knows(p, scheduler[p], worker[p], lease, schedule, attempt)
      /\ Minds(scheduler[p], worker[p])
  BY DEF ScheduleInv
<1>3. PICK workers : workers = {c \in Children : worker[p][c].step # "idle"}
  OBVIOUS
<1>4. {c \in workers : worker[p][c].turn # 0} = Begun(worker[p])
  BY <1>2, <1>3 DEF Minds, Begun
<1>5. PICK n \in Nat : n = Cardinality(Begun(worker[p]))
  <2>1. Begun(worker[p]) \in SUBSET Children
    BY DEF Begun
  <2> QED
    BY <2>1, Numbers, FS_Subset, FS_CardinalityType
<1>6. PICK failed \in BOOLEAN : failed = \E c \in workers : worker[p][c].failed
  OBVIOUS
<1>7. /\ scheduler \in [Schedulers -> SchedulerRow]
      /\ worker \in [Schedulers -> [Children -> WorkerRow]]
  BY <1>1 DEF ProcessTypes
<1>8. PICK self \in SchedulerRow : self = scheduler[p]
  BY <1>7
<1>9. PICK pc \in {"finish", "round"} :
          scheduler' = [scheduler EXCEPT ![p].rounds = @ + 1, ![p].turns = @ + n,
                                         ![p].failed = failed, ![p].pc = pc]
  BY <1>3, <1>4, <1>5, <1>6 DEF Gather
<1>10. PICK next : next = [self EXCEPT !.rounds = @ + 1, !.turns = @ + n, !.failed = failed,
                                       !.pc = pc]
  OBVIOUS
<1>11. self.rounds + 1 \in 0 .. MaxRounds
  <2>1. self.rounds \in 0 .. MaxRounds /\ self.rounds < MaxRounds
    BY <1>1, <1>2, <1>8 DEF Minds, SchedulerRow
  <2> QED
    BY <2>1, Numbers
<1>12. next \in SchedulerRow /\ next.pc = pc /\ next.row = self.row
       /\ next.turns = self.turns + n
  <2>1. PICK m \in Nat : m = self.turns + n
    BY DEF SchedulerRow
  <2>2. PICK rounds \in 0 .. MaxRounds : rounds = self.rounds + 1
    BY <1>11
  <2>3. next = [self EXCEPT !.rounds = rounds, !.turns = m, !.failed = failed, !.pc = pc]
    BY <1>10, <2>1, <2>2
  <2>4. next \in SchedulerRow /\ next.pc = pc /\ next.row = self.row /\ next.turns = m
    BY <2>1, <2>2, <2>3 DEF SchedulerRow, Working
  <2> QED
    BY <2>1, <2>4
<1>13. scheduler' = [scheduler EXCEPT ![p] = next]
  BY <1>7, <1>8, <1>9, <1>10
<1>14. /\ scheduler' \in [Schedulers -> SchedulerRow] /\ scheduler'[p] = next
       /\ \A q \in Schedulers : q # p => scheduler'[q] = scheduler[q]
  BY <1>7, <1>12, <1>13
<1>15. PICK team : team = [c \in Children |-> NoWorker]
  OBVIOUS
<1>16. team \in [Children -> WorkerRow] /\ \A c \in Children : team[c] = NoWorker
  BY <1>15, NoWorkerTypes
<1>17. worker' = [worker EXCEPT ![p] = team]
  BY <1>15 DEF Gather
<1>18. /\ worker' \in [Schedulers -> [Children -> WorkerRow]] /\ worker'[p] = team
       /\ \A q \in Schedulers : q # p => worker'[q] = worker[q]
  BY <1>7, <1>16, <1>17
<1>19. ProcessTypes' /\ lease.generation \in Nat
  BY <1>1, <1>14, <1>18, Numbers DEF ProcessTypes
<1>20. Begun(team) = {} /\ Cardinality(Begun(team)) = 0
  <2>1. Begun(team) = {}
    BY <1>16 DEF Begun, NoWorker
  <2> QED
    BY <2>1, FS_EmptySet
<1>21. Knows(p, scheduler'[p], worker'[p], lease', schedule, attempt)
  <2>1. next.turns + Cardinality(Begun(team)) = self.turns + Cardinality(Begun(worker[p]))
    <3>1. self.turns \in Nat
      BY DEF SchedulerRow
    <3> QED
      BY <1>5, <1>12, <1>20, <3>1
  <2> QED
    BY <1>1, <1>2, <1>8, <1>9, <1>12, <1>14, <1>18, <2>1 DEF Knows, Working
<1>22. Minds(scheduler'[p], worker'[p])
  BY <1>9, <1>12, <1>14, <1>16, <1>18 DEF Minds, NoWorker
<1>23. lease'.generation >= lease.generation /\ scheduler[p].pc \in Working
       /\ scheduler'[p].row = scheduler[p].row
  BY <1>1, <1>8, <1>12, <1>14, <1>19 DEF Working
<1>24. \A q \in Schedulers : q # p =>
           /\ scheduler'[q] = scheduler[q] /\ worker'[q] = worker[q]
           /\ lease'.holder = q => lease' = lease
  BY <1>1, <1>14, <1>18
<1> QED
  BY <1>1, <1>19, <1>21, <1>22, <1>23, <1>24, OneProcess


\* A process ends, or dies, and holds the lease no more.
LEMMA EndKeepsSchedules ==
    ASSUME SpecialistConstants, LedgerInv, LedgerInv', ScheduleInv, NEW p \in Schedulers,
           Release(p) \/ Die(p)
    PROVE  ScheduleInv'
<1>1. /\ ProcessTypes /\ SameTurns(attempt, attempt')
      /\ UNCHANGED <<run, root, requested, schedule, attempt>>
      /\ scheduler' = [scheduler EXCEPT ![p] = NoScheduler]
      /\ lease' = IF lease.holder = p THEN [lease EXCEPT !.holder = "none"] ELSE lease
  BY SameIfUnchanged DEF Release, Die, ScheduleInv, ledger
<1>2. Knows(p, scheduler[p], worker[p], lease, schedule, attempt)
      /\ Minds(scheduler[p], worker[p])
  BY DEF ScheduleInv
<1>3. /\ scheduler \in [Schedulers -> SchedulerRow]
      /\ worker \in [Schedulers -> [Children -> WorkerRow]] /\ faults \in 0 .. MaxFaults
      /\ run \in {"running", "paused", "ended"} /\ root \in {"ready", "running"}
      /\ requested \in SUBSET Requests /\ schedule \in Seq(ScheduleRow)
  BY <1>1 DEF ProcessTypes
<1>4. faults' \in 0 .. MaxFaults
  <2>1. UNCHANGED faults \/ Fault
    BY DEF Release, Die
  <2> QED
    BY <1>3, <2>1, Numbers DEF Fault
<1>5. PICK self : self = NoScheduler
  OBVIOUS
<1>6. self \in SchedulerRow /\ self.pc = "idle" /\ self.turns = 0
  BY <1>5, Numbers DEF SchedulerRow, NoScheduler
<1>7. /\ scheduler' \in [Schedulers -> SchedulerRow] /\ scheduler'[p] = self
      /\ \A q \in Schedulers : q # p => scheduler'[q] = scheduler[q]
  BY <1>1, <1>3, <1>5, <1>6
<1>8. PICK team : team = [c \in Children |-> NoWorker]
  OBVIOUS
<1>9. team \in [Children -> WorkerRow] /\ \A c \in Children : team[c] = NoWorker
  BY <1>8, NoWorkerTypes
<1>10. /\ worker' \in [Schedulers -> [Children -> WorkerRow]]
       /\ \A c \in Children : worker'[p][c] = NoWorker
       /\ \A q \in Schedulers : q # p => worker'[q] = worker[q]
  <2>1. CASE Release(p)
    <3>1. worker' = worker /\ scheduler[p].pc # "wait"
      BY <2>1 DEF Release
    <3> QED
      BY <1>2, <1>3, <3>1 DEF Minds
  <2>2. CASE Die(p)
    <3>1. worker' = [worker EXCEPT ![p] = team]
      BY <1>8, <2>2 DEF Die
    <3> QED
      BY <1>3, <1>9, <3>1
  <2> QED
    BY <2>1, <2>2
<1>11. PICK held \in [holder : Schedulers \union {"none", "root"}, generation : 0 .. MaxLeases] :
           held = lease
  BY <1>1 DEF ProcessTypes
<1>12. held.generation \in Nat /\ p # "none"
  BY <1>11, Numbers
<1>13. /\ lease' \in [holder : Schedulers \union {"none", "root"}, generation : 0 .. MaxLeases]
       /\ lease'.generation = held.generation /\ lease'.holder # p
       /\ \A q \in Schedulers : lease'.holder = q => lease' = held
  <2>1. CASE held.holder = p
    <3>1. lease' = [held EXCEPT !.holder = "none"]
      BY <1>1, <1>11, <2>1
    <3> QED
      BY <1>12, <3>1, Numbers
  <2>2. CASE held.holder # p
    BY <1>1, <1>11, <2>2
  <2> QED
    BY <2>1, <2>2
<1>14. ProcessTypes'
  BY <1>1, <1>3, <1>4, <1>7, <1>10, <1>13 DEF ProcessTypes
<1>15. Knows(p, scheduler'[p], worker'[p], lease', schedule, attempt)
  BY <1>6, <1>7, <1>13 DEF Knows, Working
<1>16. Minds(scheduler'[p], worker'[p])
  BY <1>6, <1>7, <1>10 DEF Minds, NoWorker
<1>17. scheduler'[p].pc \notin Working /\ lease'.generation >= lease.generation
  BY <1>6, <1>7, <1>11, <1>12, <1>13 DEF Working
<1>18. \A q \in Schedulers : q # p =>
           /\ scheduler'[q] = scheduler[q] /\ worker'[q] = worker[q]
           /\ lease'.holder = q => lease' = lease
  BY <1>7, <1>10, <1>11, <1>13
<1> QED
  BY <1>1, <1>14, <1>15, <1>16, <1>17, <1>18, OneProcess

\* A process leaves its schedule as it is and lets go of the lease next.
LEMMA LetsGo ==
    ASSUME SpecialistConstants, LedgerInv, LedgerInv', ScheduleInv, NEW p \in Schedulers,
           scheduler[p].pc # "wait", Step(p, "release"),
           UNCHANGED <<run, root, lease, ledger, requested, schedule, worker, faults>>
    PROVE  ScheduleInv'
<1>1. ProcessTypes /\ SameTurns(attempt, attempt') /\ UNCHANGED attempt
  BY SameIfUnchanged DEF ScheduleInv, ledger
<1>2. Minds(scheduler[p], worker[p])
  BY DEF ScheduleInv
<1>3. /\ scheduler' \in [Schedulers -> SchedulerRow] /\ scheduler'[p].pc = "release"
      /\ \A q \in Schedulers : q # p => scheduler'[q] = scheduler[q]
  BY <1>1, StepIs
<1>4. ProcessTypes' /\ lease.generation \in Nat
  BY <1>1, <1>3, Numbers DEF ProcessTypes
<1>5. Knows(p, scheduler'[p], worker'[p], lease', schedule, attempt)
      /\ Minds(scheduler'[p], worker'[p])
  BY <1>2, <1>3 DEF Knows, Minds, Working
<1>6. scheduler'[p].pc \notin Working /\ lease'.generation >= lease.generation
  BY <1>3, <1>4 DEF Working
<1>7. \A q \in Schedulers : q # p =>
           /\ scheduler'[q] = scheduler[q] /\ worker'[q] = worker[q]
           /\ lease'.holder = q => lease' = lease
  BY <1>3
<1> QED
  BY <1>1, <1>4, <1>5, <1>6, <1>7, OneProcess


\* FinishSpecialistSchedule: the row counts what its lease began.
LEMMA FinishScheduleKeepsSchedules ==
    ASSUME SpecialistConstants, LedgerInv, LedgerInv', ScheduleInv, NEW p \in Schedulers,
           FinishSchedule(p)
    PROVE  ScheduleInv'
<1>1. /\ ProcessTypes /\ scheduler[p].pc = "finish" /\ Step(p, "release")
      /\ UNCHANGED <<run, root, lease, ledger, requested, worker, faults>> /\ UNCHANGED attempt
  BY DEF FinishSchedule, ScheduleInv, ledger
<1>2. CASE UNCHANGED schedule
  BY <1>1, <1>2, LetsGo
<1>3. PICK self \in SchedulerRow : self = scheduler[p]
  BY <1>1 DEF ProcessTypes
<1>4. CASE /\ schedule[self.row].status = "running"
           /\ schedule' = [schedule EXCEPT ![self.row].status = IF self.failed THEN "failed"
                                                                ELSE "completed",
                                           ![self.row].rounds = self.rounds,
                                           ![self.row].turns = self.turns,
                                           ![self.row].recovered = self.recovered]
  <2>1. Knows(p, self, worker[p], lease, schedule, attempt) /\ Minds(self, worker[p])
        /\ self.pc = "finish"
    BY <1>1, <1>3 DEF ScheduleInv
  <2>2. PICK rows \in Seq(ScheduleRow) : rows = schedule
    BY <1>1 DEF ProcessTypes
  <2>3. PICK k \in 1 .. Len(rows) : k = self.row
    BY <2>1, <2>2 DEF Knows, Working
  <2>4. rows[k] \in ScheduleRow
    BY ElementOfSeq
  <2>5. PICK status \in {"failed", "completed"} :
            status = IF self.failed THEN "failed" ELSE "completed"
    OBVIOUS
  <2>6. PICK row : row = [rows[k] EXCEPT !.status = status, !.rounds = self.rounds,
                                         !.turns = self.turns, !.recovered = self.recovered]
    OBVIOUS
  <2>7. /\ row \in ScheduleRow /\ row.status # "running" /\ row.turns = self.turns
        /\ row.generation = rows[k].generation
    <3>1. self.rounds \in 0 .. MaxRounds /\ self.turns \in Nat /\ self.recovered \in Nat
      BY DEF SchedulerRow
    <3> QED
      BY <2>4, <2>6, <3>1 DEF ScheduleRow
  <2>8. schedule' = [rows EXCEPT ![k] = row]
    BY <1>4, <2>2, <2>3, <2>5, <2>6
  <2>9. PICK more \in Seq(ScheduleRow) :
            /\ more = schedule' /\ Len(more) = Len(rows) /\ more[k] = row
            /\ \A j \in 1 .. Len(rows) : j # k => more[j] = rows[j]
    BY <2>7, <2>8, ExceptSeq
  <2>10. /\ scheduler' \in [Schedulers -> SchedulerRow] /\ scheduler'[p].pc = "release"
         /\ \A q \in Schedulers : q # p => scheduler'[q] = scheduler[q]
    BY <1>1, StepIs
  <2>11. ProcessTypes'
    BY <1>1, <2>9, <2>10 DEF ProcessTypes
  <2>12. \A j \in 1 .. Len(rows) : more[j].generation = rows[j].generation
    BY <2>7, <2>9
  <2>13. Known(lease', schedule', attempt')
    <3>1. Known(lease, rows, attempt)
      BY <2>2 DEF ScheduleInv
    <3> QED
      BY <1>1, <2>9, <2>12, <3>1 DEF Known
  <2>14. self.turns = Cardinality(Turns(attempt, rows[k].generation))
    <3>1. Begun(worker[p]) = {}
      BY <2>1 DEF Minds, Begun, NoWorker
    <3>2. Cardinality(Begun(worker[p])) = 0 /\ self.turns \in Nat
      BY <3>1, FS_EmptySet DEF SchedulerRow
    <3>3. self.turns + Cardinality(Begun(worker[p]))
              = Cardinality(Turns(attempt, rows[k].generation))
      BY <1>4, <2>1, <2>2, <2>3 DEF Knows, Working
    <3> QED
      BY <3>2, <3>3
  <2>15. Counted(schedule', attempt')
    <3>1. Counted(rows, attempt)
      BY <2>2 DEF ScheduleInv
    <3>2. ASSUME NEW j \in 1 .. Len(rows)
          PROVE  IF more[j].status = "running" THEN j = Len(rows)
                 ELSE more[j].turns = Cardinality(Turns(attempt, more[j].generation))
      <4>1. CASE j = k
        BY <2>7, <2>9, <2>14, <4>1
      <4>2. CASE j # k
        BY <2>9, <3>1, <4>2 DEF Counted
      <4> QED
        BY <4>1, <4>2
    <3> QED
      BY <1>1, <2>9, <3>2 DEF Counted
  <2>16. Apart(scheduler)
    BY DEF ScheduleInv
  <2>17. Apart(scheduler')
    BY <2>10, <2>16 DEF Apart, Working
  <2>18. ASSUME NEW q \in Schedulers
         PROVE  /\ Knows(q, scheduler'[q], worker'[q], lease', schedule', attempt')
                /\ Minds(scheduler'[q], worker'[q])
    <3>1. CASE q = p
      BY <1>1, <1>3, <2>1, <2>10, <3>1 DEF Knows, Minds, Working
    <3>2. CASE q # p
      <4>1. PICK other : other = scheduler[q] /\ other = scheduler'[q]
        BY <2>10, <3>2
      <4>2. Knows(q, other, worker[q], lease, rows, attempt) /\ Minds(other, worker[q])
        BY <2>2, <4>1 DEF ScheduleInv
      <4>3. other.pc \in Working => other.row # k
        BY <1>3, <2>1, <2>3, <2>16, <3>2, <4>1 DEF Apart, Working
      <4>4. other.pc \in Working => other.row \in 1 .. Len(rows) /\ more[other.row] = rows[other.row]
        BY <2>9, <4>2, <4>3 DEF Knows
      <4>5. Knows(q, other, worker[q], lease, more, attempt)
        BY <2>9, <2>12, <4>2, <4>4 DEF Knows
      <4> QED
        BY <1>1, <2>9, <4>1, <4>2, <4>5
    <3> QED
      BY <3>1, <3>2
  <2> QED
    BY <2>11, <2>13, <2>15, <2>17, <2>18 DEF ScheduleInv
<1> QED
  BY <1>2, <1>3, <1>4 DEF FinishSchedule

\* The row of a lost worker counts what its lease began.
LEMMA AbandonedRow ==
    ASSUME SpecialistConstants, LedgerInv, NEW row \in ScheduleRow
    PROVE  /\ Abandoned(row) \in ScheduleRow /\ Abandoned(row).status = "abandoned"
           /\ Abandoned(row).generation = row.generation
           /\ Abandoned(row).turns = Cardinality(Turns(attempt, row.generation))
<1>1. PICK g \in Nat : g = row.generation
  BY DEF ScheduleRow
<1>2. TurnsUnder(g) = Turns(attempt, g)
  BY DEF TurnsUnder, Turns
<1>3. PICK n \in Nat : n = Cardinality(TurnsUnder(g))
  BY <1>2, TurnsFinite
<1>4. PICK m \in Nat : m = Cardinality(StillRunning(g))
  <2>1. IsFiniteSet(TurnsUnder(g))
    BY <1>2, TurnsFinite
  <2>2. StillRunning(g) \in SUBSET TurnsUnder(g)
    BY DEF StillRunning
  <2> QED
    BY <2>1, <2>2, FS_Subset, FS_CardinalityType
<1>5. PICK next : next = [row EXCEPT !.status = "abandoned", !.turns = n, !.recovered = m]
  OBVIOUS
<1>6. Abandoned(row) = next
  BY <1>1, <1>3, <1>4, <1>5 DEF Abandoned
<1>7. /\ next \in ScheduleRow /\ next.status = "abandoned" /\ next.generation = row.generation
      /\ next.turns = n
  BY <1>5 DEF ScheduleRow
<1> QED
  BY <1>1, <1>2, <1>3, <1>6, <1>7


\* StartSpecialistSchedule: what runs is abandoned, and a row of the fresh lease comes last.
LEMMA StartKeepsSchedules ==
    ASSUME SpecialistConstants, LedgerInv, LedgerInv', ScheduleInv, NEW p \in Schedulers, Start(p)
    PROVE  ScheduleInv'
<1>1. /\ ProcessTypes /\ scheduler[p].pc = "start" /\ UNCHANGED attempt
      /\ UNCHANGED <<run, root, lease, ledger, requested, worker, faults>>
  BY DEF Start, ScheduleInv, ledger
<1>2. CASE Step(p, "release") /\ UNCHANGED schedule
  BY <1>1, <1>2, LetsGo
<1>3. ASSUME NEW q \in Requests \union {"none"}, lease.holder = p,
             schedule' = Append([k \in DOMAIN schedule |->
                                     IF k \in RunningRows THEN Abandoned(schedule[k])
                                     ELSE schedule[k]],
                       [status |-> "running", generation |-> lease.generation, request |-> q,
                        rounds |-> 0, turns |-> 0, recovered |-> 0]),
             scheduler' = [scheduler EXCEPT ![p].pc = "recover", ![p].row = Len(schedule) + 1]
      PROVE  ScheduleInv'
  <2>1. PICK old \in Seq(ScheduleRow) : old = schedule
    BY <1>1 DEF ProcessTypes
  <2>2. PICK n \in Nat : n = Len(old) /\ DOMAIN old = 1 .. n
    BY LenProperties
  <2>3. PICK g \in 0 .. MaxLeases : g = lease.generation
    BY <1>1 DEF ProcessTypes
  <2>4. PICK self \in SchedulerRow : self = scheduler[p]
    BY <1>1 DEF ProcessTypes
  <2>5. Knows(p, self, worker[p], lease, old, attempt) /\ Minds(self, worker[p])
        /\ self.pc = "start"
    BY <1>1, <2>1, <2>4 DEF ScheduleInv
  <2>6. /\ self.turns = 0 /\ n < g /\ Turns(attempt, g) = {}
        /\ \A k \in 1 .. n : old[k].generation < g
    BY <1>3, <2>2, <2>3, <2>5 DEF Knows
  <2>7. PICK rows : rows = [k \in 1 .. n |-> IF k \in RunningRows THEN Abandoned(old[k])
                                             ELSE old[k]]
    OBVIOUS
  <2>8. \A k \in 1 .. n :
            /\ rows[k] \in ScheduleRow /\ rows[k].generation = old[k].generation
            /\ rows[k].status # "running"
            /\ rows[k].turns = Cardinality(Turns(attempt, rows[k].generation))
    <3> SUFFICES ASSUME NEW k \in 1 .. n
                 PROVE  /\ rows[k] \in ScheduleRow /\ rows[k].generation = old[k].generation
                        /\ rows[k].status # "running"
                        /\ rows[k].turns = Cardinality(Turns(attempt, rows[k].generation))
      OBVIOUS
    <3>1. old[k] \in ScheduleRow
      BY <2>2, ElementOfSeq
    <3>2. CASE k \in RunningRows
      <4>1. rows[k] = Abandoned(old[k])
        BY <2>7, <3>2
      <4> QED
        BY <3>1, <4>1, AbandonedRow
    <3>3. CASE k \notin RunningRows
      <4>1. rows[k] = old[k] /\ old[k].status # "running"
        BY <2>1, <2>2, <2>7, <3>3 DEF RunningRows
      <4>2. Counted(old, attempt)
        BY <2>1 DEF ScheduleInv
      <4> QED
        BY <2>2, <3>1, <4>1, <4>2 DEF Counted
    <3> QED
      BY <3>2, <3>3
  <2>9. rows \in Seq(ScheduleRow) /\ Len(rows) = n
    <3>1. rows \in [1 .. n -> ScheduleRow]
      BY <2>7, <2>8
    <3> QED
      BY <3>1, FunctionIsSeq
  <2>10. PICK row : row = [status |-> "running", generation |-> g, request |-> q, rounds |-> 0,
                           turns |-> 0, recovered |-> 0]
    OBVIOUS
  <2>11. row \in ScheduleRow /\ row.status = "running" /\ row.generation = g
    BY <2>3, <2>10, Numbers DEF ScheduleRow
  <2>12. schedule' = Append(rows, row)
    BY <1>3, <2>1, <2>2, <2>3, <2>7, <2>10
  <2>13. PICK all \in Seq(ScheduleRow) :
             /\ all = schedule' /\ Len(all) = n + 1 /\ all[n + 1] = row
             /\ \A k \in 1 .. n : all[k] = rows[k]
    <3>1. PICK all : all = Append(rows, row)
      OBVIOUS
    <3>2. /\ all \in Seq(ScheduleRow) /\ Len(all) = n + 1 /\ all[n + 1] = row
          /\ \A k \in 1 .. n : all[k] = rows[k]
      BY <2>9, <2>11, <3>1, AppendProperties
    <3>3. all = schedule'
      BY <2>12, <3>1
    <3> QED
      BY <3>2, <3>3
  <2>14. PICK next : next = [self EXCEPT !.pc = "recover", !.row = n + 1]
    OBVIOUS
  <2>15. n + 1 \in 0 .. MaxLeases
    BY <2>6, Numbers
  <2>16. next \in SchedulerRow /\ next.pc = "recover" /\ next.row = n + 1 /\ next.turns = 0
    BY <2>6, <2>14, <2>15 DEF SchedulerRow, Working
  <2>17. scheduler \in [Schedulers -> SchedulerRow]
    BY <1>1 DEF ProcessTypes
  <2>18. scheduler' = [scheduler EXCEPT ![p] = next]
    BY <1>3, <2>1, <2>2, <2>4, <2>14, <2>17
  <2>19. /\ scheduler' \in [Schedulers -> SchedulerRow] /\ scheduler'[p] = next
         /\ \A o \in Schedulers : o # p => scheduler'[o] = scheduler[o]
    BY <2>16, <2>17, <2>18
  <2>20. ProcessTypes'
    BY <1>1, <2>13, <2>19 DEF ProcessTypes
  <2>21. Known(lease', schedule', attempt')
    <3>1. Known(lease, old, attempt)
      BY <2>1 DEF ScheduleInv
    <3>2. \A k \in 1 .. n + 1 : k \in 1 .. n \/ k = n + 1
      OBVIOUS
    <3>3. Len(all) <= g /\ g \in Nat
      BY <2>3, <2>6, <2>13, Numbers
    <3>4. \A k \in 1 .. n : all[k].generation = old[k].generation /\ old[k].generation \in Nat
      BY <2>2, <2>8, <2>13, ElementOfSeq DEF ScheduleRow
    <3>5. ASSUME NEW k \in 1 .. n + 1 PROVE all[k].generation <= g
      <4>1. CASE k \in 1 .. n
        BY <2>6, <3>3, <3>4, <4>1
      <4>2. CASE k = n + 1
        BY <2>11, <2>13, <3>3, <4>2
      <4> QED
        BY <3>2, <4>1, <4>2
    <3>6. ASSUME NEW j \in 1 .. n + 1, NEW k \in 1 .. n + 1, j < k
          PROVE  all[j].generation < all[k].generation
      <4>1. j \in 1 .. n
        BY <3>6
      <4>2. CASE k = n + 1
        BY <2>6, <2>11, <2>13, <3>4, <4>1, <4>2
      <4>3. CASE k \in 1 .. n
        BY <2>2, <3>1, <3>4, <3>6, <4>1, <4>3 DEF Known
      <4> QED
        BY <3>2, <4>2, <4>3
    <3> QED
      BY <1>1, <2>3, <2>13, <3>1, <3>3, <3>5, <3>6 DEF Known
  <2>22. Counted(schedule', attempt')
    <3>1. \A k \in 1 .. n + 1 : k \in 1 .. n \/ k = n + 1
      OBVIOUS
    <3> QED
      BY <1>1, <2>8, <2>11, <2>13, <3>1 DEF Counted
  <2>23. ASSUME NEW o \in Schedulers, o # p, scheduler'[o].pc \in Working
         PROVE  scheduler'[o].row \in 1 .. n
    BY <2>1, <2>2, <2>19, <2>23 DEF ScheduleInv, Knows
  <2>24. Apart(scheduler')
    <3>1. Apart(scheduler)
      BY DEF ScheduleInv
    <3> QED
      BY <2>16, <2>19, <2>23, <3>1 DEF Apart
  <2>25. ASSUME NEW o \in Schedulers
         PROVE  /\ Knows(o, scheduler'[o], worker'[o], lease', schedule', attempt')
                /\ Minds(scheduler'[o], worker'[o])
    <3>1. CASE o = p
      <4>1. Begun(worker[p]) = {} /\ Minds(next, worker[p])
        BY <2>5, <2>16 DEF Minds, Begun, NoWorker
      <4>2. Cardinality(Begun(worker[p])) = 0 /\ Cardinality(Turns(attempt, g)) = 0
        BY <2>6, <4>1, FS_EmptySet
      <4>3. /\ n + 1 \in 1 .. Len(all) /\ next.turns + Cardinality(Begun(worker[p])) = 0
        BY <2>13, <2>16, <4>2
      <4>4. Knows(p, next, worker[p], lease, all, attempt)
        BY <2>3, <2>11, <2>13, <2>16, <4>2, <4>3 DEF Knows, Working
      <4> QED
        BY <1>1, <2>13, <2>19, <3>1, <4>1, <4>4
    <3>2. CASE o # p
      <4>1. PICK other : other = scheduler[o] /\ other = scheduler'[o]
        BY <2>19, <3>2
      <4>2. Knows(o, other, worker[o], lease, old, attempt) /\ Minds(other, worker[o])
        BY <2>1, <4>1 DEF ScheduleInv
      <4>3. other.pc \in Working =>
                /\ other.row \in 1 .. Len(all) /\ all[other.row].status # "running"
        <5>1. other.pc \in Working => other.row \in 1 .. n
          BY <2>23, <3>2, <4>1
        <5> QED
          BY <2>8, <2>13, <5>1
      <4>4. lease.holder # o
        BY <1>3, <3>2
      <4>5. Knows(o, other, worker[o], lease, all, attempt)
        BY <4>2, <4>3, <4>4 DEF Knows
      <4> QED
        BY <1>1, <2>13, <4>1, <4>2, <4>5
    <3> QED
      BY <3>1, <3>2
  <2> QED
    BY <2>20, <2>21, <2>22, <2>24, <2>25 DEF ScheduleInv
<1>4. RequestOf[p] \in Requests \union {"none"}
  BY DEF SpecialistConstants
<1> QED
  BY <1>2, <1>3, <1>4 DEF Start


(***************************************************************************)
(* Every step.                                                             *)
(***************************************************************************)

LEMMA InitHolds == ASSUME SpecialistConstants, Init PROVE SpecialistsInv
<1>1. /\ run = "running" /\ root = "ready" /\ read = 0 /\ requested = {} /\ faults = 0
      /\ inbox = << >> /\ schedule = << >> /\ lease = [holder |-> "none", generation |-> 0]
      /\ attempt = [c \in Children |-> << >>] /\ instruction = [c \in Children |-> << >>]
      /\ delivery = [c \in Children |-> NoDelivery]
  BY DEF Init
<1>2. PICK node : node = [status |-> "ready", turns |-> 0, tokens |-> 0, active |-> 0]
  OBVIOUS
<1>3. PICK self : self = NoScheduler
  OBVIOUS
<1>4. child = [c \in Children |-> node] /\ scheduler = [p \in Schedulers |-> self]
  BY <1>2, <1>3 DEF Init
<1>5. PICK team : team = [c \in Children |-> NoWorker]
  OBVIOUS
<1>6. worker = [p \in Schedulers |-> team]
  BY <1>5 DEF Init
<1>7. node \in ChildRow /\ node.status = "ready"
  BY <1>2, Numbers DEF ChildRow, ChildStatuses
<1>8. self \in SchedulerRow /\ self.pc = "idle" /\ self.turns = 0
  BY <1>3, Numbers DEF SchedulerRow, NoScheduler
<1>9. team \in [Children -> WorkerRow] /\ \A c \in Children : team[c] = NoWorker
  BY <1>5, NoWorkerTypes
<1>10. PICK prepared \in DeliveryRow : prepared = NoDelivery /\ prepared.turn = 0
  <2>1. PICK prepared : prepared = NoDelivery
    OBVIOUS
  <2>2. {} \in SUBSET (1 .. MaxInstructions)
    OBVIOUS
  <2>3. prepared \in DeliveryRow /\ prepared.turn = 0
    BY <2>1, <2>2, Numbers DEF NoDelivery, DeliveryRow
  <2> QED
    BY <2>1, <2>3
<1>11. Len(<< >>) = 0 /\ \A S : << >> \in Seq(S)
  BY EmptySeq
<1>12. Used(<< >>) = 0
  BY <1>11, UsedIs DEF AddsUp
<1>13. LedgerTypes
  BY <1>1, <1>4, <1>7, <1>10, <1>11, Numbers DEF LedgerTypes
<1>14. ASSUME NEW c \in Children PROVE Sound(c)
  <2>1. child[c] = node /\ attempt[c] = << >> /\ instruction[c] = << >> /\ delivery[c].turn = 0
    BY <1>1, <1>4, <1>10
  <2>2. Agrees(node, << >>)
    BY <1>2, <1>11, <1>12 DEF Agrees
  <2>3. Reads(<< >>, << >>)
    BY <1>11 DEF Reads
  <2> QED
    BY <2>1, <2>2, <2>3 DEF Sound, Delivers
<1>15. Told(inbox, attempt)
  <2>1. \A c \in Children : Len(attempt[c]) = 0
    BY <1>1, <1>11
  <2> QED
    BY <1>1, <1>11, <2>1 DEF Told
<1>16. LedgerInv
  BY <1>1, <1>11, <1>13, <1>14, <1>15 DEF LedgerInv
<1>17. ProcessTypes
  <2>1. lease \in [holder : Schedulers \union {"none", "root"}, generation : 0 .. MaxLeases]
    BY <1>1, Numbers
  <2>2. faults \in 0 .. MaxFaults
    BY <1>1, Numbers
  <2> QED
    BY <1>1, <1>4, <1>6, <1>8, <1>9, <1>11, <2>1, <2>2 DEF ProcessTypes
<1>18. Known(lease, schedule, attempt) /\ Counted(schedule, attempt)
  <2>1. \A c \in Children : Len(attempt[c]) = 0
    BY <1>1, <1>11
  <2> QED
    BY <1>1, <1>11, <2>1 DEF Known, Counted
<1>19. \A p \in Schedulers : scheduler[p] = self /\ worker[p] = team
  BY <1>4, <1>6
<1>20. Apart(scheduler)
  BY <1>8, <1>19 DEF Apart, Working
<1>21. ASSUME NEW p \in Schedulers
       PROVE  /\ Knows(p, scheduler[p], worker[p], lease, schedule, attempt)
              /\ Minds(scheduler[p], worker[p])
  <2>1. Knows(p, self, team, lease, schedule, attempt)
    BY <1>8 DEF Knows, Working
  <2>2. NoWorker.turn = 0
    BY DEF NoWorker
  <2>3. Minds(self, team)
    BY <1>8, <1>9, <2>2 DEF Minds
  <2> QED
    BY <1>19, <2>1, <2>3
<1> QED
  BY <1>16, <1>17, <1>18, <1>20, <1>21 DEF SpecialistsInv, ScheduleInv

\* The root has consumed no more messages than there are.
LEMMA RootReads == ASSUME SpecialistConstants, LedgerInv, RootEnds PROVE LedgerInv'
<1>1. UNCHANGED <<child, attempt, instruction, delivery, inbox>>
  BY DEF RootEnds, ledger
<1>2. read' \in 0 .. Len(inbox')
  <2>1. PICK n \in Nat : n = Len(inbox)
    BY LenProperties DEF LedgerInv, LedgerTypes
  <2>2. PICK m \in 0 .. n : m = read
    BY <2>1 DEF LedgerInv
  <2>3. read' = m \/ (read' = m + Batch /\ m + Batch < n) \/ read' = n
    BY <2>1, <2>2 DEF RootEnds
  <2> QED
    BY <1>1, <2>1, <2>2, <2>3, Numbers
<1> QED
  BY <1>1, <1>2 DEF LedgerInv, LedgerTypes, Sound

LEMMA FailKeepsLedger ==
    ASSUME SpecialistConstants, LedgerInv, NEW p \in Schedulers, NEW c \in Children,
           Fails(p, c) \/ FailAttempt(p, c)
    PROVE  LedgerInv'
<1>1. UNCHANGED read
  BY DEF Fails, FailAttempt, Local
<1>2. CASE UNCHANGED ledger
  BY <1>1, <1>2, LedgerStays
<1>3. CASE Active(c, worker[p][c].turn) /\ Crash({c})
  <2>1. PICK S \in SUBSET Children : S = {c}
    OBVIOUS
  <2>2. Crash(S) /\ \A d \in S : child[d].status = "running"
    BY <1>3, <2>1 DEF Active
  <2> QED
    BY <1>1, <2>2, CrashKeepsLedger
<1> QED
  BY <1>2, <1>3 DEF Fails, FailAttempt

LEMMA RecoverKeepsLedger ==
    ASSUME SpecialistConstants, LedgerInv, NEW p \in Schedulers, Recover(p)
    PROVE  LedgerInv'
<1>1. UNCHANGED read
  BY DEF Recover
<1>2. CASE UNCHANGED ledger
  BY <1>1, <1>2, LedgerStays
<1>3. CASE Crash(Stale)
  BY <1>1, <1>3, StaleRun, CrashKeepsLedger
<1> QED
  BY <1>2, <1>3 DEF Recover

LEMMA LifecycleKeepsLedger ==
    ASSUME SpecialistConstants, LedgerInv, Pause \/ Resume \/ EndRun
    PROVE  LedgerInv'
<1>1. UNCHANGED <<instruction, inbox, read>>
  BY DEF Pause, Resume, EndRun
<1>2. \E from \in SUBSET ChildStatuses : \E to \in {"ready", "waiting", "cancelled"} :
          Interrupt(from, to)
  <2>1. /\ {"ready", "running"} \in SUBSET ChildStatuses
        /\ {"waiting"} \in SUBSET ChildStatuses
        /\ {"ready", "running", "waiting"} \in SUBSET ChildStatuses
    BY DEF ChildStatuses
  <2>2. CASE Pause
    BY <2>1, <2>2 DEF Pause
  <2>3. CASE Resume
    BY <2>1, <2>3 DEF Resume
  <2>4. CASE EndRun
    BY <2>1, <2>4 DEF EndRun
  <2> QED
    BY <2>2, <2>3, <2>4
<1> QED
  BY <1>1, <1>2, InterruptKeepsLedger


LEMMA TurnKeepsAll ==
    ASSUME SpecialistConstants, SpecialistsInv, NEW p \in Schedulers, NEW c \in Children,
           Turn(p, c)
    PROVE  SpecialistsInv'
<1>1. LedgerInv /\ ScheduleInv /\ ProcessTypes
  BY DEF SpecialistsInv, ScheduleInv
<1>2. CASE Begin(p, c)
  BY <1>1, <1>2, BeginKeepsLedger, BeginKeepsSchedules DEF SpecialistsInv
<1>3. CASE Prepare(p, c)
  BY <1>1, <1>3, PrepareKeepsLedger, PrepareKeepsSchedules DEF SpecialistsInv
<1>4. CASE Answer(p, c)
  BY <1>1, <1>4, AnswerKeepsLedger, AnswerKeepsSchedules DEF SpecialistsInv
<1>5. CASE Continue(p, c)
  BY <1>1, <1>5, ContinueKeepsLedger, ContinueKeepsSchedules DEF SpecialistsInv
<1>6. CASE Finish(p, c)
  BY <1>1, <1>6, FinishKeepsLedger, FinishKeepsSchedules DEF SpecialistsInv
<1>7. CASE Fails(p, c) \/ FailAttempt(p, c)
  BY <1>1, <1>7, FailKeepsLedger, FailKeepsSchedules DEF SpecialistsInv
<1> QED
  BY <1>2, <1>3, <1>4, <1>5, <1>6, <1>7 DEF Turn

LEMMA ProcessKeepsAll ==
    ASSUME SpecialistConstants, SpecialistsInv, NEW p \in Schedulers,
           \/ Acquire(p) \/ Start(p) \/ Recover(p) \/ Round(p) \/ Gather(p) \/ Cancelled(p)
           \/ FinishSchedule(p) \/ Release(p) \/ Die(p)
    PROVE  SpecialistsInv'
<1>1. LedgerInv /\ ScheduleInv
  BY DEF SpecialistsInv
<1>2. CASE Recover(p)
  BY <1>1, <1>2, RecoverKeepsLedger, RecoverKeepsSchedules DEF SpecialistsInv
<1>3. CASE ~Recover(p)
  <2>1. UNCHANGED ledger /\ UNCHANGED read
    BY <1>3 DEF Acquire, Start, Round, Gather, Cancelled, FinishSchedule, Release, Die
  <2>2. LedgerInv'
    BY <1>1, <2>1, LedgerStays
  <2>3. ScheduleInv'
    BY <1>1, <1>3, <2>2, AcquireKeepsSchedules, StartKeepsSchedules, RoundKeepsSchedules,
       GatherKeepsSchedules, CancelledKeepsSchedules, FinishScheduleKeepsSchedules,
       EndKeepsSchedules
  <2> QED
    BY <2>2, <2>3 DEF SpecialistsInv
<1> QED
  BY <1>2, <1>3

LEMMA OthersKeepAll ==
    ASSUME SpecialistConstants, SpecialistsInv,
           \/ \E q \in Requests : Ask(q)
           \/ \E c \in Children : Instruct(c)
           \/ RootBegins \/ RootEnds \/ Pause \/ Resume \/ EndRun \/ Lapse
    PROVE  SpecialistsInv'
<1>1. LedgerInv /\ ScheduleInv
  BY DEF SpecialistsInv
<1>2. LedgerInv'
  <2>1. CASE (\E q \in Requests : Ask(q)) \/ RootBegins \/ Lapse
    <3>1. UNCHANGED ledger /\ UNCHANGED read
      BY <2>1 DEF Ask, RootBegins, Lapse
    <3> QED
      BY <1>1, <3>1, LedgerStays
  <2>2. CASE \E c \in Children : Instruct(c)
    BY <1>1, <2>2, InstructKeepsLedger
  <2>3. CASE RootEnds
    BY <1>1, <2>3, RootReads
  <2>4. CASE Pause \/ Resume \/ EndRun
    BY <1>1, <2>4, LifecycleKeepsLedger
  <2> QED
    BY <2>1, <2>2, <2>3, <2>4
<1>3. ScheduleInv'
  BY <1>1, <1>2, OthersKeepSchedules
<1> QED
  BY <1>2, <1>3 DEF SpecialistsInv

LEMMA StepKeepsAll ==
    ASSUME SpecialistConstants, SpecialistsInv, [Next]_vars
    PROVE  SpecialistsInv'
<1>1. CASE UNCHANGED vars
  BY <1>1 DEF vars, SpecialistsInv, LedgerInv, LedgerTypes, ScheduleInv, ProcessTypes, Sound,
              ledger
<1>2. CASE Next
  BY <1>2, TurnKeepsAll, ProcessKeepsAll, OthersKeepAll DEF Next
<1> QED
  BY <1>1, <1>2

LEMMA SpecialistsInvHolds == ASSUME SpecialistConstants PROVE Spec => []SpecialistsInv
<1>1. Init => SpecialistsInv
  BY InitHolds
<1>2. SpecialistsInv /\ [Next]_vars => SpecialistsInv'
  BY StepKeepsAll
<1> QED
  BY <1>1, <1>2, PTL DEF Spec

(***************************************************************************)
(* What follows.                                                           *)
(***************************************************************************)

\* The rows of attempts and of schedules, the messages, and what processes and their
\* goroutines remember, keep their types; no child takes more turns than its limit.
THEOREM SpecialistTypeCorrect == ASSUME SpecialistConstants PROVE Spec => []TypeOK
<1>1. ASSUME SpecialistsInv PROVE TypeOK
  <2>1. LedgerTypes /\ read \in 0 .. Len(inbox) /\ ProcessTypes
    BY <1>1 DEF SpecialistsInv, LedgerInv, ScheduleInv
  <2>2. /\ run \in {"running", "paused", "ended"} /\ root \in {"ready", "running"}
        /\ inbox \in Seq([from : Children, turn : 1 .. TurnLimit, kind : {"result", "failure"}])
        /\ requested \subseteq Requests /\ faults \in 0 .. MaxFaults
    BY <2>1 DEF LedgerTypes, ProcessTypes, MessageRow
  <2>3. lease \in [holder : Schedulers \union {"none", "root"}, generation : Nat]
    BY <2>1, Numbers DEF ProcessTypes
  <2>4. child \in [Children -> [status : {"ready", "running", "waiting"} \union Terminal,
                               turns : 0 .. TurnLimit, tokens : Nat, active : 0 .. TurnLimit]]
    BY <2>1 DEF LedgerTypes, ChildRow, ChildStatuses
  <2>5. ASSUME NEW c \in Children
        PROVE  /\ \A t \in DOMAIN attempt[c] : attempt[c][t] \in AttemptRow
               /\ \A i \in DOMAIN instruction[c] : instruction[c][i] \in 0 .. TurnLimit
               /\ delivery[c] \in DeliveryRow
    <3>1. PICK rows \in Seq(AttemptRow) : rows = attempt[c]
      BY <2>1 DEF LedgerTypes
    <3>2. PICK letters \in Seq(0 .. TurnLimit) : letters = instruction[c]
      BY <2>1 DEF LedgerTypes
    <3>3. \A t \in DOMAIN rows : rows[t] \in AttemptRow
      BY LenProperties, ElementOfSeq
    <3>4. \A i \in DOMAIN letters : letters[i] \in 0 .. TurnLimit
      BY LenProperties, ElementOfSeq
    <3> QED
      BY <2>1, <3>1, <3>2, <3>3, <3>4 DEF LedgerTypes
  <2>6. \A k \in DOMAIN schedule : schedule[k] \in ScheduleRow
    BY <2>1, LenProperties, ElementOfSeq DEF ProcessTypes
  <2>7. ASSUME NEW p \in Schedulers
        PROVE  /\ scheduler[p].pc \in Working \union {"idle", "start", "release"}
               /\ scheduler[p].row \in 0 .. MaxLeases /\ scheduler[p].rounds \in 0 .. MaxRounds
               /\ \A c \in Children : worker[p][c] \in WorkerRow
    <3>1. scheduler[p] \in SchedulerRow /\ worker[p] \in [Children -> WorkerRow]
      BY <2>1 DEF ProcessTypes
    <3> QED
      BY <3>1 DEF SchedulerRow
  <2> QED
    BY <2>1, <2>2, <2>3, <2>4, <2>5, <2>6, <2>7
    DEF TypeOK, AttemptRow, AttemptStatuses, Repairs, DeliveryRow, ScheduleRow, Working, WorkerRow
<1>2. QED
  BY <1>1, SpecialistsInvHolds, PTL

\* Whoever loses the lease, dies or is told to stop in between: a child is running exactly
\* while its last attempt is, and has used what its attempts say.
THEOREM AttemptsAlwaysAgree == ASSUME SpecialistConstants PROVE Spec => []AttemptsAgree
<1>1. ASSUME SpecialistsInv PROVE AttemptsAgree
  <2>1. attempt \in [Children -> Seq(AttemptRow)] /\ \A c \in Children : Agrees(child[c], attempt[c])
    BY <1>1 DEF SpecialistsInv, LedgerInv, LedgerTypes, Sound
  <2> QED
    BY <2>1 DEF AttemptsAgree, Agrees
<1>2. QED
  BY <1>1, SpecialistsInvHolds, PTL

\* Every instruction is consumed by one attempt that continued or finished, in the order in
\* which the root sent them; what a crash or an interruption cut off is delivered again.
THEOREM InstructionsAreAlwaysRead ==
    ASSUME SpecialistConstants PROVE Spec => []InstructionsAreRead
<1>1. ASSUME SpecialistsInv PROVE InstructionsAreRead
  <2>1. LedgerInv
    BY <1>1 DEF SpecialistsInv
  <2>2. DOMAIN instruction = Children
    BY <2>1 DEF LedgerInv, LedgerTypes
  <2>3. ASSUME NEW c \in Children
        PROVE  /\ \A i \in DOMAIN instruction[c] : instruction[c][i] # 0 =>
                      /\ attempt[c][instruction[c][i]].status \in {"continued", "finished"}
                      /\ \A j \in 1 .. i : /\ instruction[c][j] # 0
                                           /\ instruction[c][j] <= instruction[c][i]
               /\ delivery[c].turn # 0 =>
                      /\ attempt[c][delivery[c].turn].status = "running"
                      /\ \A i \in delivery[c].items : instruction[c][i] = 0
    <3>1. instruction[c] \in Seq(0 .. TurnLimit) /\ Sound(c)
      BY <2>1 DEF LedgerInv, LedgerTypes
    <3>2. DOMAIN instruction[c] = 1 .. Len(instruction[c])
      BY <3>1, LenProperties
    <3>3. delivery[c].turn # 0 => attempt[c][delivery[c].turn].status = "running"
      BY <2>1, <3>1, RunningChild DEF Sound, Delivers
    <3> QED
      BY <3>1, <3>2, <3>3 DEF Sound, Delivers, Reads
  <2> QED
    BY <2>2, <2>3 DEF InstructionsAreRead
<1>2. QED
  BY <1>1, SpecialistsInvHolds, PTL

\* The root gets one message of every attempt that finished or crashed, and of no other, also
\* when an attempt ends under another lease than the one that began it.
THEOREM ParentIsAlwaysTold == ASSUME SpecialistConstants PROVE Spec => []ParentIsTold
<1>1. ASSUME SpecialistsInv PROVE ParentIsTold
  <2>1. attempt \in [Children -> Seq(AttemptRow)] /\ inbox \in Seq(MessageRow) /\ Told(inbox, attempt)
    BY <1>1 DEF SpecialistsInv, LedgerInv, LedgerTypes
  <2>2. ASSUME NEW c \in Children, NEW t \in 1 .. Len(attempt[c])
        PROVE  Cardinality({n \in DOMAIN inbox : inbox[n].from = c /\ inbox[n].turn = t})
                   = IF attempt[c][t].status \in {"finished", "crashed"} THEN 1 ELSE 0
    <3>1. PICK S : S = {n \in 1 .. Len(inbox) : inbox[n].from = c /\ inbox[n].turn = t}
      OBVIOUS
    <3>2. S = {n \in DOMAIN inbox : inbox[n].from = c /\ inbox[n].turn = t}
      BY <2>1, <3>1, LenProperties
    <3>3. CASE attempt[c][t].status \in {"finished", "crashed"}
      <4>1. PICK n \in 1 .. Len(inbox) : inbox[n].from = c /\ inbox[n].turn = t
        BY <2>1, <3>3 DEF Told
      <4>2. S = {n}
        BY <2>1, <3>1, <4>1 DEF Told
      <4> QED
        BY <3>2, <3>3, <4>2, FS_Singleton
    <3>4. CASE attempt[c][t].status \notin {"finished", "crashed"}
      <4>1. S = {}
        BY <2>1, <3>1, <3>4 DEF Told
      <4> QED
        BY <3>2, <3>4, <4>1, FS_EmptySet
    <3> QED
      BY <3>3, <3>4
  <2>3. DOMAIN attempt = Children /\ \A c \in Children : DOMAIN attempt[c] = 1 .. Len(attempt[c])
    <3>1. \A c \in Children : attempt[c] \in Seq(AttemptRow)
      BY <2>1
    <3> QED
      BY <2>1, <3>1, LenProperties
  <2> QED
    BY <2>2, <2>3 DEF ParentIsTold
<1>2. QED
  BY <1>1, SpecialistsInvHolds, PTL

\* A Run has one running schedule at most, the last; a schedule that has ended counts the
\* attempts its lease began, whether its process wrote the row or the next one found it
\* abandoned, and although goroutines of a lost lease go on for a while.
THEOREM SchedulesAlwaysCount == ASSUME SpecialistConstants PROVE Spec => []SchedulesCount
<1>1. ASSUME SpecialistsInv PROVE SchedulesCount
  <2>1. schedule \in Seq(ScheduleRow) /\ Counted(schedule, attempt)
    BY <1>1 DEF SpecialistsInv, ScheduleInv, ProcessTypes
  <2>2. DOMAIN schedule = 1 .. Len(schedule)
    BY <2>1, LenProperties
  <2>3. \A g : TurnsUnder(g) = Turns(attempt, g)
    BY DEF TurnsUnder, Turns
  <2>4. \A k \in RunningRows : k = Len(schedule)
    BY <2>1, <2>2 DEF RunningRows, Counted
  <2>5. \A k \in DOMAIN schedule \ RunningRows :
            schedule[k].turns = Cardinality(TurnsUnder(schedule[k].generation))
    BY <2>1, <2>2, <2>3 DEF RunningRows, Counted
  <2> QED
    BY <2>4, <2>5 DEF SchedulesCount
<1>2. QED
  BY <1>1, SpecialistsInvHolds, PTL

=============================================================================
