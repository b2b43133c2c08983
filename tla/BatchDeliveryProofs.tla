------------------------- MODULE BatchDeliveryProofs -------------------------
(***************************************************************************)
(* Theorems about BatchDelivery, for any number of tasks, requests,        *)
(* generations, commits and queues: what a queue merges was reviewed, and  *)
(* an open queue has its plan to itself.                                   *)
(***************************************************************************)
EXTENDS BatchDelivery, NaturalsInduction, WellFoundedInduction, TLAPS

(***************************************************************************)
(* The invariant.                                                          *)
(***************************************************************************)

Statuses == Active \cup Terminal
                \cup {"dispatched", "ready_for_review", "changes_requested", "accepted"}
Verdicts == {"none", "accepted", "changes_requested"}
Row == [generation : Generations, status : Statuses, live : BOOLEAN]
Tree == [present : BOOLEAN, dirty : BOOLEAN, head : Heads]
Queue == [number : 0 .. MaxQueues,
          status : {"none", "prepared", "running", "completed", "blocked", "aborted"},
          base : 0 .. MaxDrift, next : 0 .. Count, head : Seq(Merges),
          code : {"none", "other", "recovery"}]
Integration == [present : BOOLEAN, head : Seq(Merges)]

\* What a request that works for a queue, and one that cancels the plan, remember.
Merger == [pc : MergePcs, queue : 0 .. MaxQueues, status : {"prepared", "running"},
           from : {"prepared", "running"}, base : 0 .. MaxDrift, next : 0 .. Count - 1,
           head : Seq(Merges), post : Seq(Merges), code : {"other", "recovery"}]
Canceller == [pc : CancelPcs, final : {"none", "cancelled", "orphaned"}, failed : BOOLEAN,
              queue : 0 .. MaxQueues, from : {"none", "prepared", "running", "blocked"},
              todo : SUBSET Tasks, generation : [Tasks -> Generations]]
Request == Requests \cup Merger \cup Canceller

Types ==
    /\ running \in BOOLEAN
    /\ source \in 0 .. MaxDrift
    /\ plan \in {"active", "reviewing", "blocked", "merging", "completed", "aborted"}
    /\ row \in [Tasks -> Row]
    /\ tree \in [Tasks -> Tree]
    /\ receipt \in [Tasks -> [Generations -> Heads]]
    /\ review \in [Tasks -> [Generations -> Verdicts]]
    /\ queue \in Queue
    /\ integration \in Integration
    /\ handler \in [Handlers -> Request]

Open == queue.status \in {"prepared", "running"}

\* The current generation of a task has a head that was accepted.
WasReviewed(t) == ReceiptOf(t) # 0 /\ review[t][row[t].generation] = "accepted"

RowIsSound(t) ==
    /\ row[t].status = "ready_for_review" => ReceiptOf(t) # 0
    /\ row[t].status = "accepted" => WasReviewed(t)

RowsAreSound == \A t \in Tasks : RowIsSound(t)

\* An open queue has the plan to itself; after a completed one no child works again.
QueueIsSealed ==
    /\ Open => /\ plan = "merging" /\ queue.next < Count
               /\ \A t \in Tasks : row[t].status \in {"accepted", "cancelled", "orphaned"}
    /\ queue.status = "completed" => \A t \in Tasks : row[t].status \in Terminal
    /\ Open \/ queue.status = "completed" => \A t \in Tasks : WasReviewed(t)

\* The heads that were recorded are the receipts, in order.
HeadIsMerged ==
    /\ queue.status = "prepared" => queue.next = 0 /\ queue.head = <<>>
    /\ queue.status \in {"running", "completed"} =>
           /\ Len(queue.head) = queue.next
           /\ \A t \in 1 .. queue.next : queue.head[t] = <<t, ReceiptOf(t)>>

\* Who is as far as the open queue it works for knows its head; and what it is going to
\* record is that head and the next receipt.
MergerIsSound(m) ==
    /\ m.queue <= queue.number
    /\ Open /\ m.queue = queue.number =>
           /\ m.next <= queue.next
           /\ m.next = queue.next => m.head = queue.head
           /\ m.next = queue.next /\ m.pc = "recording" =>
                  m.post = Append(m.head, <<m.next + 1, ReceiptOf(m.next + 1)>>)

\* Who cancels has yet to end the children that it remembers and, unless it met with a
\* failure, no other ones; when it ends the plan no queue is open.
CancellerIsSound(c) ==
    ~c.failed => /\ \A t \in Tasks : row[t].status \in Terminal \/ t \in c.todo
                 /\ c.pc \in {"aborting", "ending"} => c.todo = {}
                 /\ c.pc = "ending" => ~Open

RequestIsSound(x) ==
    /\ x.pc \in MergePcs => MergerIsSound(x)
    /\ x.pc \in {"cleaning", "aborting", "ending", "fencing"} => CancellerIsSound(x)
    /\ x.pc = "fencing" => x.todo # {} /\ x.final # "none"

RequestsAreSound == \A h \in Handlers : RequestIsSound(handler[h])

\* Inductive: what the properties rest on.
BatchInv ==
    /\ Types
    /\ RowsAreSound
    /\ QueueIsSealed
    /\ HeadIsMerged
    /\ RequestsAreSound

(***************************************************************************)
(* Numbers, rows and requests.                                             *)
(***************************************************************************)

LEMMA Numbers ==
    ASSUME BatchConstants
    PROVE  /\ Count \in Nat /\ MaxGeneration \in Nat /\ MaxCommits \in Nat /\ MaxQueues \in Nat
           /\ MaxDrift \in Nat /\ Count > 0 /\ MaxGeneration > 0 /\ MaxCommits > 0 /\ MaxQueues > 0
           /\ 1 \in Tasks /\ 1 \in Generations /\ 1 \in Heads /\ 0 \in Heads
<1>1. /\ Count \in Nat /\ MaxGeneration \in Nat /\ MaxCommits \in Nat /\ MaxQueues \in Nat
      /\ MaxDrift \in Nat /\ Count > 0 /\ MaxGeneration > 0 /\ MaxCommits > 0 /\ MaxQueues > 0
  BY DEF BatchConstants
<1>2. QED
  BY <1>1 DEF Tasks, Generations, Heads

\* A set of tasks has a first one.
LEMMA FirstIn ==
    ASSUME NEW todo \in SUBSET Tasks, todo # {}
    PROVE  First(todo) \in todo
<1> DEFINE R == OpToRel(<, Nat)
<1>1. IsWellFoundedOn(R, Nat)
  BY NatLessThanWellFounded
<1>2. \A x, y \in Nat : y < x => <<y, x>> \in R
  BY DEF OpToRel
<1>3. todo \in SUBSET Nat
  BY DEF Tasks
<1> HIDE DEF R
<1>4. PICK t \in todo : \A u \in todo : ~(<<u, t>> \in R)
  BY <1>1, <1>3, WFMin
<1>5. ASSUME NEW u \in todo PROVE t <= u
  <2>1. t \in Nat /\ u \in Nat /\ ~(u < t)
    BY <1>2, <1>3, <1>4
  <2> QED
    BY <2>1
<1>6. QED
  BY <1>5 DEF First

LEMMA TaskFields ==
    ASSUME BatchConstants, Types, NEW t \in Tasks
    PROVE  /\ row[t] \in Row /\ row[t].generation \in Generations /\ row[t].status \in Statuses
           /\ tree[t] \in Tree /\ receipt[t] \in [Generations -> Heads]
           /\ review[t] \in [Generations -> Verdicts]
           /\ ReceiptOf(t) \in Heads
<1>1. /\ row[t] \in Row /\ tree[t] \in Tree /\ receipt[t] \in [Generations -> Heads]
      /\ review[t] \in [Generations -> Verdicts]
  BY DEF Types
<1>2. row[t].generation \in Generations /\ row[t].status \in Statuses
  BY <1>1 DEF Row
<1>3. QED
  BY <1>1, <1>2 DEF ReceiptOf

LEMMA QueueFields ==
    ASSUME BatchConstants, Types
    PROVE  /\ queue.number \in 0 .. MaxQueues /\ queue.number \in Nat
           /\ queue.status \in {"none", "prepared", "running", "completed", "blocked", "aborted"}
           /\ queue.base \in 0 .. MaxDrift /\ queue.next \in 0 .. Count /\ queue.next \in Nat
           /\ queue.head \in Seq(Merges) /\ queue.code \in {"none", "other", "recovery"}
<1>1. queue \in Queue
  BY DEF Types
<1>2. QED
  BY <1>1, Numbers DEF Queue

\* What kind of request it is says its program counter.
LEMMA Kinds ==
    ASSUME NEW x \in Request
    PROVE  /\ x.pc \in MergePcs => x \in Merger
           /\ x.pc \in CancelPcs => x \in Canceller
           /\ x.pc = "submitting" =>
                  /\ x.task \in Tasks /\ x.generation \in Generations /\ x.head \in Heads \ {0}
           /\ x.pc = "reviewing" =>
                  /\ x.task \in Tasks /\ x.generation \in Generations
                  /\ x.verdict \in {"accepted", "changes_requested"}
           /\ x.pc = "creating" => x.base \in 0 .. MaxDrift
           /\ x.pc \in MergePcs \cup CancelPcs \cup {"idle", "submitting", "reviewing", "creating"}
<1>1. CASE x \in Requests
  BY <1>1 DEF Requests, MergePcs, CancelPcs
<1>2. CASE x \in Merger
  BY <1>2 DEF Merger, MergePcs, CancelPcs
<1>3. CASE x \in Canceller
  BY <1>3 DEF Canceller, MergePcs, CancelPcs
<1>4. QED
  BY <1>1, <1>2, <1>3 DEF Request

LEMMA RequestIs ==
    ASSUME BatchInv, NEW h \in Handlers
    PROVE  handler[h] \in Request /\ RequestIsSound(handler[h])
  BY DEF BatchInv, Types, RequestsAreSound

LEMMA IdleIsSound == Idle \in Request /\ Idle.pc = "idle" /\ RequestIsSound(Idle)
<1>1. Idle \in Request /\ Idle.pc = "idle"
  BY DEF Idle, Request, Requests
<1>2. QED
  BY <1>1 DEF RequestIsSound, MergePcs

(***************************************************************************)
(* What a step does to the rows and the queue, and what requests remember. *)
(***************************************************************************)

TerminalStays == \A t \in Tasks : row[t].status \in Terminal => row'[t].status \in Terminal

\* A queue that stays open keeps its head and its receipts, or is a step further; a queue
\* is opened only while children are at work.
QueueKeeps ==
    /\ queue.number <= queue'.number
    /\ Open' /\ queue'.number = queue.number =>
           /\ Open
           /\ \/ /\ queue'.next = queue.next /\ queue'.head = queue.head
                 /\ \A t \in Tasks : ReceiptOf(t)' = ReceiptOf(t)
              \/ queue'.next = queue.next + 1
    /\ Open' /\ ~Open => \E t \in Tasks : row'[t].status \notin Terminal

LEMMA MergerKeeps ==
    ASSUME BatchConstants, BatchInv, QueueKeeps, queue'.number \in Nat, NEW m \in Merger,
           MergerIsSound(m)
    PROVE  MergerIsSound(m)'
<1>1. /\ queue.number \in Nat /\ queue.next \in Nat
  BY QueueFields DEF BatchInv
<1>2. m.queue \in Nat /\ m.next \in Nat /\ m.next + 1 \in Tasks
  BY Numbers DEF Merger, Tasks
<1>3. m.queue <= queue'.number
  BY <1>1, <1>2 DEF MergerIsSound, QueueKeeps
<1>4. ASSUME Open', m.queue = queue'.number
      PROVE  /\ m.next <= queue'.next
             /\ m.next = queue'.next => m.head = queue'.head
             /\ m.next = queue'.next /\ m.pc = "recording" =>
                    m.post = Append(m.head, <<m.next + 1, ReceiptOf(m.next + 1)'>>)
  <2>1. queue'.number = queue.number
    BY <1>1, <1>2, <1>4 DEF MergerIsSound, QueueKeeps
  <2>2. /\ Open
        /\ \/ /\ queue'.next = queue.next /\ queue'.head = queue.head
              /\ \A t \in Tasks : ReceiptOf(t)' = ReceiptOf(t)
           \/ queue'.next = queue.next + 1
    BY <1>4, <2>1 DEF QueueKeeps
  <2>3. /\ m.next <= queue.next
        /\ m.next = queue.next => m.head = queue.head
        /\ m.next = queue.next /\ m.pc = "recording" =>
               m.post = Append(m.head, <<m.next + 1, ReceiptOf(m.next + 1)>>)
    BY <1>4, <2>1, <2>2 DEF MergerIsSound
  <2>4. CASE /\ queue'.next = queue.next /\ queue'.head = queue.head
             /\ \A t \in Tasks : ReceiptOf(t)' = ReceiptOf(t)
    BY <1>2, <2>3, <2>4
  <2>5. CASE queue'.next = queue.next + 1
    BY <1>1, <1>2, <2>3, <2>5
  <2> QED
    BY <2>2, <2>4, <2>5
<1>5. QED
  BY <1>3, <1>4 DEF MergerIsSound

LEMMA CancellerKeeps ==
    ASSUME QueueKeeps, TerminalStays, NEW c, CancellerIsSound(c)
    PROVE  CancellerIsSound(c)'
<1> SUFFICES ASSUME ~c.failed
             PROVE  /\ \A t \in Tasks : row'[t].status \in Terminal \/ t \in c.todo
                    /\ c.pc \in {"aborting", "ending"} => c.todo = {}
                    /\ c.pc = "ending" => ~Open'
  BY DEF CancellerIsSound
<1>1. /\ \A t \in Tasks : row[t].status \in Terminal \/ t \in c.todo
      /\ c.pc \in {"aborting", "ending"} => c.todo = {}
      /\ c.pc = "ending" => ~Open
  BY DEF CancellerIsSound
<1>2. \A t \in Tasks : row'[t].status \in Terminal \/ t \in c.todo
  BY <1>1 DEF TerminalStays
<1>3. c.pc = "ending" => ~Open'
  BY <1>1, <1>2 DEF QueueKeeps
<1>4. QED
  BY <1>1, <1>2, <1>3

LEMMA RequestKeeps ==
    ASSUME BatchConstants, BatchInv, QueueKeeps, TerminalStays, queue'.number \in Nat,
           NEW x \in Request, RequestIsSound(x)
    PROVE  RequestIsSound(x)'
<1>1. x.pc \in MergePcs => MergerIsSound(x)'
  BY Kinds, MergerKeeps DEF RequestIsSound
<1>2. x.pc \in {"cleaning", "aborting", "ending", "fencing"} => CancellerIsSound(x)'
  BY CancellerKeeps DEF RequestIsSound
<1>3. QED
  BY <1>1, <1>2 DEF RequestIsSound

\* One request moves, or nobody.
LEMMA RequestsKeep ==
    ASSUME BatchConstants, BatchInv, QueueKeeps, TerminalStays, queue'.number \in Nat,
           \/ UNCHANGED handler
           \/ \E h \in Handlers : \E x \in Request :
                 handler' = [handler EXCEPT ![h] = x] /\ RequestIsSound(x)'
    PROVE  RequestsAreSound'
<1>1. handler \in [Handlers -> Request]
  BY DEF BatchInv, Types
<1>2. ASSUME NEW g \in Handlers, handler'[g] = handler[g] PROVE RequestIsSound(handler[g])'
  <2>1. PICK x \in Request : x = handler[g]
    BY <1>1
  <2>2. RequestIsSound(x)
    BY <2>1, RequestIs
  <2>3. RequestIsSound(x)'
    BY <2>2, RequestKeeps
  <2> QED
    BY <1>2, <2>1, <2>3 DEF RequestIsSound, MergerIsSound, CancellerIsSound
<1>3. CASE UNCHANGED handler
  BY <1>2, <1>3 DEF RequestsAreSound
<1>4. ASSUME NEW h \in Handlers, NEW x \in Request, handler' = [handler EXCEPT ![h] = x],
             RequestIsSound(x)'
      PROVE  RequestsAreSound'
  <2>1. handler'[h] = x /\ \A g \in Handlers : g # h => handler'[g] = handler[g]
    BY <1>1, <1>4
  <2>2. RequestIsSound(handler[h])'
    BY <1>4, <2>1 DEF RequestIsSound, MergerIsSound, CancellerIsSound
  <2> QED
    BY <1>2, <2>1, <2>2 DEF RequestsAreSound
<1>5. QED
  BY <1>3, <1>4

\* The children and the queue stay as they are; the request that moves, if any, becomes x.
LEMMA StayKeeps ==
    ASSUME BatchConstants, BatchInv, UNCHANGED <<row, receipt, review, queue>>,
           running' \in BOOLEAN, source' \in 0 .. MaxDrift, tree' \in [Tasks -> Tree],
           integration' \in Integration,
           plan' \in {"active", "reviewing", "blocked", "merging", "completed", "aborted"},
           Open => plan' = "merging",
           \/ UNCHANGED handler
           \/ \E h \in Handlers : \E x \in Request :
                 handler' = [handler EXCEPT ![h] = x] /\ RequestIsSound(x)
    PROVE  BatchInv'
<1>1. handler' \in [Handlers -> Request]
  BY DEF BatchInv, Types
<1>2. Types'
  BY <1>1 DEF BatchInv, Types
<1>3. /\ Open' = Open /\ TerminalStays
      /\ \A t \in Tasks : ReceiptOf(t)' = ReceiptOf(t) /\ WasReviewed(t)' = WasReviewed(t)
                          /\ RowIsSound(t)' = RowIsSound(t)
  BY DEF Open, TerminalStays, ReceiptOf, WasReviewed, RowIsSound
<1>4. queue.number \in Nat /\ queue'.number \in Nat
  BY QueueFields DEF BatchInv
<1>5. QueueKeeps
  BY <1>3, <1>4 DEF QueueKeeps
<1>6. RequestsAreSound'
  <2>1. CASE UNCHANGED handler
    BY <1>3, <1>4, <1>5, <2>1, RequestsKeep
  <2>2. ASSUME NEW h \in Handlers, NEW x \in Request, handler' = [handler EXCEPT ![h] = x],
               RequestIsSound(x)
        PROVE  RequestsAreSound'
    <3>1. RequestIsSound(x)'
      BY <1>3, <1>4, <1>5, <2>2, RequestKeeps
    <3> QED
      BY <1>3, <1>4, <1>5, <2>2, <3>1, RequestsKeep
  <2> QED
    BY <2>1, <2>2
<1>7. RowsAreSound'
  BY <1>3 DEF BatchInv, RowsAreSound
<1>8. QueueIsSealed'
  BY <1>3 DEF BatchInv, QueueIsSealed
<1>9. HeadIsMerged'
  <2>1. \A t \in 1 .. queue.next : t \in Tasks
    BY QueueFields, Numbers DEF BatchInv, Tasks
  <2> QED
    BY <1>3, <2>1 DEF BatchInv, HeadIsMerged
<1>10. QED
  BY <1>2, <1>6, <1>7, <1>8, <1>9 DEF BatchInv

\* A child at work moves; a request may end.
LEMMA WorkKeeps ==
    ASSUME BatchConstants, BatchInv, NEW t \in Tasks, NEW r \in Row,
           row[t].status \notin Terminal \cup {"accepted"},
           row' = [row EXCEPT ![t] = r], RowIsSound(t)',
           receipt' \in [Tasks -> [Generations -> Heads]],
           review' \in [Tasks -> [Generations -> Verdicts]],
           \A u \in Tasks : u # t => receipt'[u] = receipt[u] /\ review'[u] = review[u],
           plan' \in {"active", "reviewing", "blocked", "merging", "completed", "aborted"},
           UNCHANGED <<running, source, tree, queue, integration>>,
           UNCHANGED handler \/ \E h \in Handlers : handler' = [handler EXCEPT ![h] = Idle]
    PROVE  BatchInv'
<1>1. Types /\ row \in [Tasks -> Row] /\ handler \in [Handlers -> Request]
  BY DEF BatchInv, Types
<1>2. row'[t] = r /\ \A u \in Tasks : u # t => row'[u] = row[u]
  BY <1>1
<1>3. Types'
  BY <1>1, IdleIsSound DEF Types
<1>4. ~Open /\ ~Open' /\ queue.status # "completed"
  BY DEF BatchInv, QueueIsSealed, Open, Terminal
<1>5. QueueIsSealed' /\ HeadIsMerged'
  BY <1>4 DEF QueueIsSealed, HeadIsMerged, Open
<1>6. RowsAreSound'
  <2> SUFFICES ASSUME NEW u \in Tasks, u # t PROVE RowIsSound(u)'
    BY DEF RowsAreSound
  <2>1. RowIsSound(u)
    BY DEF BatchInv, RowsAreSound
  <2> QED
    BY <1>2, <2>1 DEF RowIsSound, WasReviewed, ReceiptOf
<1>7. TerminalStays
  BY <1>2 DEF TerminalStays
<1>8. queue.number \in Nat /\ queue'.number \in Nat
  BY <1>1, QueueFields
<1>9. QueueKeeps
  BY <1>4, <1>8 DEF QueueKeeps
<1>10. RequestIsSound(Idle)'
  BY <1>7, <1>8, <1>9, IdleIsSound, RequestKeeps
<1>11. RequestsAreSound'
  BY <1>7, <1>8, <1>9, <1>10, IdleIsSound, RequestsKeep
<1>12. QED
  BY <1>3, <1>5, <1>6, <1>11 DEF BatchInv

(***************************************************************************)
(* Worktrees, the Run and the plan.                                        *)
(***************************************************************************)

LEMMA TypesAre ==
    ASSUME BatchInv
    PROVE  /\ Types /\ running \in BOOLEAN /\ source \in 0 .. MaxDrift
           /\ plan \in {"active", "reviewing", "blocked", "merging", "completed", "aborted"}
           /\ tree \in [Tasks -> Tree] /\ integration \in Integration
           /\ Open => plan = "merging"
<1>1. Types /\ QueueIsSealed
  BY DEF BatchInv
<1>2. QED
  BY <1>1 DEF Types, QueueIsSealed

LEMMA TreesKeep ==
    ASSUME BatchConstants, BatchInv, NEW t \in Tasks, Edit(t) \/ Commit(t) \/ RestoreTree(t)
    PROVE  BatchInv'
<1>1. tree \in [Tasks -> Tree] /\ tree[t] \in Tree
  BY TypesAre
<1>2. PICK old \in Tree : old = tree[t]
  BY <1>1
<1>3. old.present \in BOOLEAN /\ old.dirty \in BOOLEAN /\ old.head \in Heads
  BY DEF Tree
<1>4. \E new \in Tree : tree' = [tree EXCEPT ![t] = new]
  <2>1. CASE Edit(t)
    <3>1. PICK new : new = [old EXCEPT !.dirty = TRUE]
      OBVIOUS
    <3>2. new \in Tree
      BY <3>1 DEF Tree
    <3>3. tree' = [tree EXCEPT ![t] = new]
      BY <1>2, <2>1, <3>1 DEF Edit
    <3> QED
      BY <3>2, <3>3
  <2>2. CASE Commit(t)
    <3>1. PICK n : n = old.head + 1
      OBVIOUS
    <3>2. n \in Heads
      BY <1>2, <1>3, <2>2, <3>1, Numbers DEF Commit, Heads
    <3>3. PICK new : new = [old EXCEPT !.dirty = FALSE, !.head = n]
      OBVIOUS
    <3>4. new \in Tree
      BY <3>2, <3>3 DEF Tree
    <3>5. tree' = [tree EXCEPT ![t] = new]
      BY <1>1, <1>2, <2>2, <3>1, <3>3 DEF Commit
    <3> QED
      BY <3>4, <3>5
  <2>3. CASE RestoreTree(t)
    <3>1. PICK new : new = [old EXCEPT !.present = TRUE]
      OBVIOUS
    <3>2. new \in Tree
      BY <3>1 DEF Tree
    <3>3. tree' = [tree EXCEPT ![t] = new]
      BY <1>2, <2>3, <3>1 DEF RestoreTree
    <3> QED
      BY <3>2, <3>3
  <2> QED
    BY <2>1, <2>2, <2>3
<1>5. tree' \in [Tasks -> Tree]
  BY <1>1, <1>4
<1>6. UNCHANGED <<running, source, plan, row, receipt, review, queue, integration, handler>>
  BY DEF Edit, Commit, RestoreTree
<1>7. QED
  BY <1>5, <1>6, TypesAre, StayKeeps

LEMMA WorldKeeps ==
    ASSUME BatchConstants, BatchInv,
           ForeignMerge \/ SourceAdvances \/ MoveRun \/ PrepareAgain \/ UNCHANGED vars
    PROVE  BatchInv'
<1>1. UNCHANGED <<row, tree, receipt, review, queue, handler>>
  BY DEF ForeignMerge, SourceAdvances, MoveRun, PrepareAgain, vars
<1>2. running' \in BOOLEAN
  BY TypesAre DEF ForeignMerge, SourceAdvances, MoveRun, PrepareAgain, vars
<1>3. source' \in 0 .. MaxDrift
  <2>1. source \in 0 .. MaxDrift /\ MaxDrift \in Nat
    BY TypesAre, Numbers
  <2> QED
    BY <2>1 DEF ForeignMerge, SourceAdvances, MoveRun, PrepareAgain, vars
<1>4. /\ plan' \in {"active", "reviewing", "blocked", "merging", "completed", "aborted"}
      /\ Open => plan' = "merging"
  BY TypesAre DEF ForeignMerge, SourceAdvances, MoveRun, PrepareAgain, vars
<1>5. integration' \in Integration
  <2>1. integration \in Integration
    BY TypesAre
  <2>2. CASE ForeignMerge
    <3>1. PICK head : head = Append(integration.head, Foreign)
      OBVIOUS
    <3>2. integration' = [integration EXCEPT !.head = head]
      BY <2>2, <3>1 DEF ForeignMerge
    <3>3. Foreign \in Merges
      BY Numbers DEF Foreign, Merges
    <3>4. integration.head \in Seq(Merges)
      BY <2>1 DEF Integration
    <3>5. head \in Seq(Merges)
      BY <3>1, <3>3, <3>4
    <3> QED
      BY <2>1, <3>2, <3>5 DEF Integration
  <2>3. CASE UNCHANGED integration
    BY <2>1, <2>3
  <2> QED
    BY <2>2, <2>3 DEF SourceAdvances, MoveRun, PrepareAgain, vars
<1>6. QED
  BY <1>1, <1>2, <1>3, <1>4, <1>5, TypesAre, StayKeeps

(***************************************************************************)
(* Delivery and review.                                                    *)
(***************************************************************************)

\* A message, an expired lease or a new owner.
LEMMA OwnersKeep ==
    ASSUME BatchConstants, BatchInv, NEW t \in Tasks,
           \/ LeaseExpires(t)
           \/ \E kind \in {"ack", "progress", "question"} : SendMessage(t, kind)
           \/ \E retry \in BOOLEAN : RenewOwner(t, retry)
    PROVE  BatchInv'
<1>1. Types /\ row \in [Tasks -> Row] /\ row[t] \in Row /\ row[t].generation \in Generations
      /\ RowIsSound(t)
  BY TaskFields DEF BatchInv, Types, RowsAreSound
<1>2. PICK x \in Row : x = row[t]
  BY <1>1
<1>3. UNCHANGED <<running, source, plan, tree, receipt, review, queue, integration, handler>>
  BY DEF LeaseExpires, SendMessage, RenewOwner
<1>4. x.generation \in Generations /\ x.live \in BOOLEAN /\ x.status \in Statuses
  BY DEF Row
<1>5. PICK r \in Row :
          /\ row' = [row EXCEPT ![t] = r]
          /\ x.status \notin Terminal \cup {"accepted", "ready_for_review"}
          /\ r.status \notin {"accepted", "ready_for_review"}
  <2>1. CASE LeaseExpires(t)
    <3>1. PICK r : r = [x EXCEPT !.live = FALSE]
      OBVIOUS
    <3>2. r \in Row /\ r.status = x.status
      BY <3>1 DEF Row
    <3>3. row' = [row EXCEPT ![t] = r]
      BY <1>2, <2>1, <3>1 DEF LeaseExpires
    <3>4. x.status \in {"acknowledged", "working", "question", "dispatched", "changes_requested"}
      BY <1>2, <2>1 DEF LeaseExpires, Active
    <3>5. x.status \notin Terminal \cup {"accepted", "ready_for_review"}
      BY <3>4 DEF Terminal
    <3> QED
      BY <3>2, <3>3, <3>5
  <2>2. ASSUME NEW kind \in {"ack", "progress", "question"}, SendMessage(t, kind)
        PROVE  \E r \in Row :
                  /\ row' = [row EXCEPT ![t] = r]
                  /\ x.status \notin Terminal \cup {"accepted", "ready_for_review"}
                  /\ r.status \notin {"accepted", "ready_for_review"}
    <3>1. PICK s \in {"acknowledged", "working", "question"} :
              /\ s = Transition(t, kind).to
              /\ Transition(t, kind).from \subseteq
                     {"dispatched", "acknowledged", "working", "question", "changes_requested"}
      BY DEF Transition, Active
    <3>2. PICK r : r = [x EXCEPT !.status = s]
      OBVIOUS
    <3>3. s \in Statuses
      BY DEF Statuses, Active
    <3>4. r \in Row /\ r.status = s
      BY <3>2, <3>3 DEF Row
    <3>5. row' = [row EXCEPT ![t] = r] /\ x.status \in Transition(t, kind).from
      BY <1>2, <2>2, <3>1, <3>2 DEF SendMessage
    <3>6. x.status \notin Terminal \cup {"accepted", "ready_for_review"}
      BY <3>1, <3>5 DEF Terminal
    <3>7. r.status \notin {"accepted", "ready_for_review"}
      BY <3>4
    <3> QED
      BY <3>4, <3>5, <3>6, <3>7
  <2>3. ASSUME NEW retry \in BOOLEAN, RenewOwner(t, retry)
        PROVE  \E r \in Row :
                  /\ row' = [row EXCEPT ![t] = r]
                  /\ x.status \notin Terminal \cup {"accepted", "ready_for_review"}
                  /\ r.status \notin {"accepted", "ready_for_review"}
    <3>1. PICK s \in {"working", "dispatched"} : s = IF retry THEN "working" ELSE "dispatched"
      OBVIOUS
    <3>2. PICK g : g = x.generation + 1
      OBVIOUS
    <3>3. PICK r : r = [generation |-> g, live |-> TRUE, status |-> s]
      OBVIOUS
    <3>4. /\ x.generation < MaxGeneration
          /\ x.status \in IF retry THEN {"changes_requested"} ELSE Active \cup {"dispatched"}
          /\ row' = [row EXCEPT ![t] = r]
      BY <1>2, <2>3, <3>1, <3>2, <3>3 DEF RenewOwner
    <3>5. g \in Generations
      BY <1>4, <3>2, <3>4, Numbers DEF Generations
    <3>6. s \in Statuses
      BY DEF Statuses, Active
    <3>7. r \in Row /\ r.status = s
      BY <3>3, <3>5, <3>6 DEF Row
    <3>8. x.status \in {"changes_requested", "dispatched", "acknowledged", "working", "question"}
      BY <3>4 DEF Active
    <3>9. x.status \notin Terminal \cup {"accepted", "ready_for_review"}
      BY <3>8 DEF Terminal
    <3>10. r.status \notin {"accepted", "ready_for_review"}
      BY <3>7
    <3> QED
      BY <3>4, <3>7, <3>9, <3>10
  <2> QED
    BY <2>1, <2>2, <2>3
<1>6. row[t].status \notin Terminal \cup {"accepted"}
  BY <1>2, <1>5
<1>7. row'[t] = r
  BY <1>1, <1>5
<1>8. RowIsSound(t)'
  BY <1>5, <1>7 DEF RowIsSound
<1>9. /\ receipt' \in [Tasks -> [Generations -> Heads]]
      /\ review' \in [Tasks -> [Generations -> Verdicts]]
      /\ plan' \in {"active", "reviewing", "blocked", "merging", "completed", "aborted"}
  BY <1>1, <1>3 DEF Types
<1>10. QED
  BY <1>3, <1>5, <1>6, <1>8, <1>9, WorkKeeps

LEMMA ReceiptKeeps ==
    ASSUME BatchConstants, BatchInv, NEW h \in Handlers, RecordReceipt(h)
    PROVE  BatchInv'
<1>1. PICK x \in Request : x = handler[h]
  BY RequestIs
<1>2. x.pc = "submitting" /\ x.task \in Tasks /\ x.generation \in Generations /\ x.head \in Heads \ {0}
  BY <1>1, Kinds DEF RecordReceipt
<1>3. PICK t \in Tasks : t = x.task
  BY <1>2
<1>4. PICK r : r = [row[t] EXCEPT !.status = "ready_for_review"]
  OBVIOUS
<1>5. PICK q : q = [receipt[t] EXCEPT ![x.generation] = x.head]
  OBVIOUS
<1>6. /\ row[t].generation = x.generation /\ row[t].status \in Active
      /\ receipt' = [receipt EXCEPT ![t] = q]
      /\ row' = [row EXCEPT ![t] = r]
      /\ plan' = IF plan \in {"active", "blocked"} THEN "reviewing" ELSE plan
      /\ handler' = [handler EXCEPT ![h] = Idle]
      /\ UNCHANGED <<running, source, tree, review, queue, integration>>
  BY <1>1, <1>3, <1>4, <1>5 DEF RecordReceipt, Stop
<1>7. /\ Types /\ row[t] \in Row /\ receipt[t] \in [Generations -> Heads]
      /\ row \in [Tasks -> Row] /\ receipt \in [Tasks -> [Generations -> Heads]]
      /\ review \in [Tasks -> [Generations -> Verdicts]]
  <2>1. Types
    BY DEF BatchInv
  <2>2. row[t] \in Row /\ receipt[t] \in [Generations -> Heads]
    BY <2>1, TaskFields
  <2> QED
    BY <2>1, <2>2 DEF Types
<1>8. r \in Row /\ r.status = "ready_for_review" /\ r.generation = x.generation
  <2>1. "ready_for_review" \in Statuses
    BY DEF Statuses
  <2> QED
    BY <1>4, <1>6, <1>7, <2>1 DEF Row
<1>9. q \in [Generations -> Heads] /\ q[x.generation] = x.head
  BY <1>2, <1>5, <1>7
<1>10. receipt' \in [Tasks -> [Generations -> Heads]] /\ receipt'[t] = q /\ row'[t] = r
       /\ \A u \in Tasks : u # t => receipt'[u] = receipt[u] /\ review'[u] = review[u]
  BY <1>6, <1>7, <1>9
<1>11. RowIsSound(t)'
  BY <1>2, <1>8, <1>9, <1>10 DEF RowIsSound, ReceiptOf
<1>12. /\ plan' \in {"active", "reviewing", "blocked", "merging", "completed", "aborted"}
       /\ review' \in [Tasks -> [Generations -> Verdicts]]
  BY <1>6, <1>7, TypesAre
<1>13. row[t].status \notin Terminal \cup {"accepted"}
  BY <1>6 DEF Active, Terminal
<1>14. QED
  BY <1>6, <1>8, <1>10, <1>11, <1>12, <1>13, WorkKeeps

LEMMA VerdictKeeps ==
    ASSUME BatchConstants, BatchInv, NEW h \in Handlers, RecordReview(h)
    PROVE  BatchInv'
<1>1. PICK x \in Request : x = handler[h]
  BY RequestIs
<1>2. /\ x.pc = "reviewing" /\ x.task \in Tasks /\ x.generation \in Generations
      /\ x.verdict \in {"accepted", "changes_requested"}
  BY <1>1, Kinds DEF RecordReview
<1>3. PICK t \in Tasks : t = x.task
  BY <1>2
<1>4. PICK r : r = [row[t] EXCEPT !.status = x.verdict]
  OBVIOUS
<1>5. PICK q : q = [review[t] EXCEPT ![x.generation] = x.verdict]
  OBVIOUS
<1>6. /\ row[t].generation = x.generation /\ row[t].status = "ready_for_review"
      /\ review' = [review EXCEPT ![t] = q]
      /\ row' = [row EXCEPT ![t] = r]
      /\ handler' = [handler EXCEPT ![h] = Idle]
      /\ UNCHANGED <<running, source, plan, tree, receipt, queue, integration>>
  BY <1>1, <1>3, <1>4, <1>5 DEF RecordReview, Stop
<1>7. /\ Types /\ row[t] \in Row /\ review[t] \in [Generations -> Verdicts]
      /\ row \in [Tasks -> Row] /\ receipt \in [Tasks -> [Generations -> Heads]]
      /\ review \in [Tasks -> [Generations -> Verdicts]]
      /\ ReceiptOf(t) # 0
  <2>1. Types /\ RowIsSound(t)
    BY DEF BatchInv, RowsAreSound
  <2>2. row[t] \in Row /\ review[t] \in [Generations -> Verdicts]
    BY <2>1, TaskFields
  <2>3. ReceiptOf(t) # 0
    BY <1>6, <2>1 DEF RowIsSound
  <2> QED
    BY <2>1, <2>2, <2>3 DEF Types
<1>8. r \in Row /\ r.status = x.verdict /\ r.generation = x.generation
  <2>1. x.verdict \in Statuses
    BY <1>2 DEF Statuses
  <2> QED
    BY <1>4, <1>6, <1>7, <2>1 DEF Row
<1>9. q \in [Generations -> Verdicts] /\ q[x.generation] = x.verdict
  <2>1. x.verdict \in Verdicts
    BY <1>2 DEF Verdicts
  <2> QED
    BY <1>2, <1>5, <1>7, <2>1
<1>10. review' \in [Tasks -> [Generations -> Verdicts]] /\ review'[t] = q /\ row'[t] = r
       /\ \A u \in Tasks : u # t => receipt'[u] = receipt[u] /\ review'[u] = review[u]
  BY <1>6, <1>7, <1>9
<1>11. RowIsSound(t)'
  <2>1. ReceiptOf(t)' = ReceiptOf(t)
    BY <1>6, <1>8, <1>10 DEF ReceiptOf
  <2> QED
    BY <1>2, <1>7, <1>8, <1>9, <1>10, <2>1 DEF RowIsSound, WasReviewed
<1>12. /\ plan' \in {"active", "reviewing", "blocked", "merging", "completed", "aborted"}
       /\ receipt' \in [Tasks -> [Generations -> Heads]]
  BY <1>6, <1>7, TypesAre
<1>13. row[t].status \notin Terminal \cup {"accepted"}
  BY <1>6 DEF Terminal
<1>14. QED
  BY <1>6, <1>8, <1>10, <1>11, <1>12, <1>13, WorkKeeps

(***************************************************************************)
(* What a request reads, and what it does to the worktrees.                *)
(***************************************************************************)

\* A request that remembers something which is no promise.
LEMMA PlainIsSound ==
    ASSUME NEW x \in Requests
    PROVE  x \in Request /\ RequestIsSound(x)
<1>1. x.pc \in {"idle", "submitting", "reviewing", "creating"}
  BY DEF Requests
<1>2. QED
  BY <1>1 DEF Request, RequestIsSound, MergePcs

LEMMA AsksKeep ==
    ASSUME BatchConstants, BatchInv, NEW h \in Handlers,
           \/ Die(h) \/ Superseded(h)
           \/ \E t \in Tasks : \/ Submit(h, t)
                               \/ \E verdict \in {"accepted", "changes_requested"} :
                                     Review(h, t, verdict)
           \/ \E confirmed \in BOOLEAN : Merge(h, confirmed)
    PROVE  BatchInv'
<1>1. UNCHANGED <<running, source, row, tree, receipt, review, queue, integration>>
  BY DEF Die, Superseded, Submit, Review, Merge
<1>2. Types
  BY TypesAre
<1>3. UNCHANGED handler \/ \E x \in Requests : handler' = [handler EXCEPT ![h] = x]
  <2>1. CASE Die(h) \/ Superseded(h)
    <3>1. Idle \in Requests
      BY DEF Idle, Requests
    <3> QED
      BY <2>1, <3>1 DEF Die, Superseded, Stop
  <2>2. ASSUME NEW t \in Tasks, Submit(h, t)
        PROVE  \E x \in Requests : handler' = [handler EXCEPT ![h] = x]
    <3>1. PICK x : x = [pc |-> "submitting", task |-> t, generation |-> row[t].generation,
                        head |-> tree[t].head]
      OBVIOUS
    <3>2. /\ handler' = [handler EXCEPT ![h] = x] /\ tree[t].head > 0
          /\ row[t].generation \in Generations /\ tree[t] \in Tree
      BY <1>2, <2>2, <3>1, TaskFields DEF Submit
    <3>3. tree[t].head \in Heads \ {0}
      BY <3>2, Numbers DEF Tree, Heads
    <3>4. x \in Requests
      BY <3>1, <3>2, <3>3 DEF Requests
    <3> QED
      BY <3>2, <3>4
  <2>3. ASSUME NEW t \in Tasks, NEW verdict \in {"accepted", "changes_requested"},
               Review(h, t, verdict)
        PROVE  \E x \in Requests : handler' = [handler EXCEPT ![h] = x]
    <3>1. PICK x : x = [pc |-> "reviewing", task |-> t, generation |-> row[t].generation,
                        verdict |-> verdict]
      OBVIOUS
    <3>2. handler' = [handler EXCEPT ![h] = x] /\ row[t].generation \in Generations
      BY <1>2, <2>3, <3>1, TaskFields DEF Review
    <3>3. x \in Requests
      BY <3>1, <3>2 DEF Requests
    <3> QED
      BY <3>2, <3>3
  <2>4. ASSUME NEW confirmed \in BOOLEAN, Merge(h, confirmed)
        PROVE  UNCHANGED handler \/ \E x \in Requests : handler' = [handler EXCEPT ![h] = x]
    <3>1. PICK x : x = [pc |-> "creating", base |-> source]
      OBVIOUS
    <3>2. x \in Requests
      BY <3>1, TypesAre DEF Requests
    <3> QED
      BY <2>4, <3>1, <3>2 DEF Merge
  <2> QED
    BY <2>1, <2>2, <2>3, <2>4
<1>4. /\ plan' \in {"active", "reviewing", "blocked", "merging", "completed", "aborted"}
      /\ Open => plan' = "merging"
  BY TypesAre DEF Die, Superseded, Submit, Review, Merge
<1>5. QED
  BY <1>1, <1>3, <1>4, TypesAre, PlainIsSound, StayKeeps

(***************************************************************************)
(* The merge queue, as far as Git is concerned.                            *)
(***************************************************************************)

LEMMA MergerMoves ==
    ASSUME NEW m \in Merger, MergerIsSound(m), NEW n \in Merger,
           n.queue = m.queue, n.next = m.next, n.head = m.head,
           n.pc = "recording" => n.post = Append(n.head, <<n.next + 1, ReceiptOf(n.next + 1)>>)
    PROVE  n \in Request /\ RequestIsSound(n)
<1>1. n \in Request /\ n.pc \in MergePcs
  BY DEF Request, Merger
<1>2. MergerIsSound(n)
  BY DEF MergerIsSound
<1>3. n.pc \notin {"cleaning", "aborting", "ending", "fencing"}
  BY <1>1 DEF MergePcs
<1>4. QED
  BY <1>1, <1>2, <1>3 DEF RequestIsSound

LEMMA AtWorkIs ==
    ASSUME BatchConstants, BatchInv, NEW h \in Handlers, NEW pc \in MergePcs, AtWork(h, pc)
    PROVE  /\ handler[h] \in Merger /\ MergerIsSound(handler[h])
           /\ handler[h].pc = pc /\ handler[h].queue = queue.number
           /\ handler[h].next \in 0 .. Count - 1 /\ handler[h].next \in Nat
           /\ handler[h].next + 1 \in Tasks
           /\ handler[h].head \in Seq(Merges) /\ handler[h].post \in Seq(Merges)
           /\ Append(handler[h].head, <<handler[h].next + 1, ReceiptOf(handler[h].next + 1)>>)
                  \in Seq(Merges)
<1>1. PICK m \in Request : m = handler[h]
  BY RequestIs
<1>2. m.pc = pc /\ m.queue = queue.number /\ RequestIsSound(m)
  BY <1>1, RequestIs DEF AtWork
<1>3. m \in Merger
  BY <1>2, Kinds
<1>4. MergerIsSound(m)
  BY <1>2 DEF RequestIsSound
<1>5. m.next \in 0 .. Count - 1 /\ m.head \in Seq(Merges) /\ m.post \in Seq(Merges)
  BY <1>3 DEF Merger
<1>6. m.next \in Nat /\ m.next + 1 \in Tasks /\ m.next + 1 \in 0 .. Count
  BY <1>5, Numbers DEF Tasks
<1>7. ReceiptOf(m.next + 1) \in Heads
  BY <1>6, TaskFields DEF BatchInv
<1>8. <<m.next + 1, ReceiptOf(m.next + 1)>> \in Merges
  BY <1>6, <1>7 DEF Merges
<1>9. Append(m.head, <<m.next + 1, ReceiptOf(m.next + 1)>>) \in Seq(Merges)
  BY <1>5, <1>8
<1>10. QED
  BY <1>1, <1>2, <1>3, <1>4, <1>5, <1>6, <1>9

LEMMA ResumeKeeps ==
    ASSUME BatchConstants, BatchInv, NEW h \in Handlers, NEW from \in {"prepared", "running"},
           Resume(h, from)
    PROVE  BatchInv'
<1>1. PICK pc \in {"materializing", "blocking"} :
          pc = IF source = queue.base THEN "materializing" ELSE "blocking"
  OBVIOUS
<1>2. PICK m : m = Work(pc, queue, from)
  OBVIOUS
<1>3. /\ handler' = [handler EXCEPT ![h] = m] /\ Open
      /\ UNCHANGED <<running, source, plan, row, tree, receipt, review, queue, integration>>
  BY <1>1, <1>2 DEF Resume, Open
<1>4. /\ m.pc = pc /\ m.queue = queue.number /\ m.next = queue.next /\ m.head = queue.head
  BY <1>2 DEF Work
<1>5. queue.next \in 0 .. Count - 1
  <2>1. queue.next < Count
    BY <1>3 DEF BatchInv, QueueIsSealed
  <2>2. queue.next \in Nat
    BY QueueFields DEF BatchInv
  <2> QED
    BY <2>1, <2>2, Numbers
<1>6. m \in Merger
  <2>1. /\ queue.number \in 0 .. MaxQueues /\ queue.base \in 0 .. MaxDrift
        /\ queue.head \in Seq(Merges) /\ queue.status \in {"prepared", "running"}
    BY <1>3, QueueFields DEF BatchInv, Open
  <2>2. <<>> \in Seq(Merges) /\ pc \in MergePcs
    BY DEF MergePcs
  <2> QED
    BY <1>2, <1>5, <2>1, <2>2 DEF Work, Merger
<1>7. MergerIsSound(m)
  <2>1. queue.number \in Nat /\ queue.next \in Nat
    BY QueueFields DEF BatchInv
  <2>2. m.pc # "recording"
    BY <1>4
  <2> QED
    BY <1>4, <2>1, <2>2 DEF MergerIsSound
<1>8. m.pc # "recording"
  BY <1>4
<1>9. m \in Request /\ RequestIsSound(m)
  BY <1>6, <1>7, <1>8, MergerMoves
<1>10. QED
  BY <1>3, <1>9, TypesAre, StayKeeps

LEMMA StepsKeep ==
    ASSUME BatchConstants, BatchInv, NEW h \in Handlers,
           Materialize(h) \/ CheckStep(h) \/ MergeStep(h) \/ ValidateStep(h)
    PROVE  BatchInv'
<1>1. PICK pc \in {"materializing", "checking", "merging", "validating"} : AtWork(h, pc)
  BY DEF Materialize, CheckStep, MergeStep, ValidateStep
<1>2. PICK m \in Merger : m = handler[h]
  BY <1>1, AtWorkIs DEF MergePcs
<1>3. PICK post : post = Append(m.head, <<m.next + 1, ReceiptOf(m.next + 1)>>)
  OBVIOUS
<1>4. /\ MergerIsSound(m) /\ post \in Seq(Merges) /\ m.head \in Seq(Merges)
      /\ integration \in Integration /\ integration.head \in Seq(Merges)
  BY <1>1, <1>2, <1>3, AtWorkIs, TypesAre DEF MergePcs, Integration
<1>5. /\ UNCHANGED <<running, source, plan, row, tree, receipt, review, queue>>
  BY DEF Materialize, CheckStep, MergeStep, ValidateStep
\* What becomes of the request, ...
<1>6. \E n \in Merger :
          /\ handler' = [handler EXCEPT ![h] = n]
          /\ n.queue = m.queue /\ n.next = m.next /\ n.head = m.head
          /\ n.pc = "recording" => n.post = post
  <2>1. ASSUME NEW p \in MergePcs \ {"recording"}, handler' = [handler EXCEPT ![h].pc = p]
        PROVE  \E n \in Merger :
                  /\ handler' = [handler EXCEPT ![h] = n]
                  /\ n.queue = m.queue /\ n.next = m.next /\ n.head = m.head
                  /\ n.pc = "recording" => n.post = post
    <3>1. PICK n : n = [m EXCEPT !.pc = p]
      OBVIOUS
    <3>2. /\ n \in Merger /\ n.pc = p /\ n.queue = m.queue /\ n.next = m.next /\ n.head = m.head
      BY <3>1 DEF Merger
    <3>3. handler' = [handler EXCEPT ![h] = n]
      BY <1>2, <2>1, <3>1
    <3> QED
      BY <3>2, <3>3
  <2>2. ASSUME NEW q \in Seq(Merges), NEW p \in MergePcs, p = "validating",
               handler' = [handler EXCEPT ![h].pc = p, ![h].post = q]
        PROVE  \E n \in Merger :
                  /\ handler' = [handler EXCEPT ![h] = n]
                  /\ n.queue = m.queue /\ n.next = m.next /\ n.head = m.head
                  /\ n.pc = "recording" => n.post = post
    <3>1. PICK n : n = [m EXCEPT !.pc = p, !.post = q]
      OBVIOUS
    <3>2. /\ n \in Merger /\ n.pc = p /\ n.queue = m.queue /\ n.next = m.next /\ n.head = m.head
      BY <3>1 DEF Merger
    <3>3. handler' = [handler EXCEPT ![h] = n]
      BY <1>2, <2>2, <3>1, TypesAre DEF Types
    <3> QED
      BY <2>2, <3>2, <3>3
  <2>3. CASE Materialize(h)
    <3>1. PICK p \in MergePcs \ {"recording"} :
              \/ handler' = [handler EXCEPT ![h].pc = p]
              \/ handler' = [handler EXCEPT ![h].pc = p, ![h].code = "recovery"]
      BY <2>3 DEF Materialize, Go, MergePcs
    <3>2. ASSUME handler' = [handler EXCEPT ![h].pc = p, ![h].code = "recovery"]
          PROVE  \E n \in Merger :
                    /\ handler' = [handler EXCEPT ![h] = n]
                    /\ n.queue = m.queue /\ n.next = m.next /\ n.head = m.head
                    /\ n.pc = "recording" => n.post = post
      <4>1. PICK n : n = [m EXCEPT !.pc = p, !.code = "recovery"]
        OBVIOUS
      <4>2. /\ n \in Merger /\ n.pc = p /\ n.queue = m.queue /\ n.next = m.next
            /\ n.head = m.head
        BY <4>1 DEF Merger
      <4>3. handler' = [handler EXCEPT ![h] = n]
        BY <1>2, <3>2, <4>1, TypesAre DEF Types
      <4> QED
        BY <4>2, <4>3
    <3> QED
      BY <2>1, <3>1, <3>2
  <2>4. CASE CheckStep(h)
    <3>1. \/ \E p \in MergePcs \ {"recording"} : handler' = [handler EXCEPT ![h].pc = p]
          \/ handler' = [handler EXCEPT ![h].pc = "validating", ![h].post = integration.head]
      BY <2>4 DEF CheckStep, Go, MergePcs
    <3>2. PICK p \in MergePcs : p = "validating"
      BY DEF MergePcs
    <3> QED
      BY <1>4, <2>1, <2>2, <3>1, <3>2
  <2>5. CASE MergeStep(h)
    <3>1. \/ \E p \in MergePcs \ {"recording"} : handler' = [handler EXCEPT ![h].pc = p]
          \/ handler' = [handler EXCEPT ![h].pc = "validating", ![h].post = post]
      BY <1>2, <1>3, <2>5 DEF MergeStep, Go, MergePcs
    <3>2. PICK p \in MergePcs : p = "validating"
      BY DEF MergePcs
    <3> QED
      BY <1>4, <2>1, <2>2, <3>1, <3>2
  <2>6. CASE ValidateStep(h)
    <3>1. PICK p \in MergePcs : p = "recording"
      BY DEF MergePcs
    <3>2. \/ \E o \in MergePcs \ {"recording"} : handler' = [handler EXCEPT ![h].pc = o]
          \/ handler' = [handler EXCEPT ![h].pc = p] /\ m.post = post
      BY <1>2, <1>3, <2>6, <3>1 DEF ValidateStep, Go, MergePcs, VerifyBatchMergeCommit
    <3>3. ASSUME handler' = [handler EXCEPT ![h].pc = p], m.post = post
          PROVE  \E n \in Merger :
                    /\ handler' = [handler EXCEPT ![h] = n]
                    /\ n.queue = m.queue /\ n.next = m.next /\ n.head = m.head
                    /\ n.pc = "recording" => n.post = post
      <4>1. PICK n : n = [m EXCEPT !.pc = p]
        OBVIOUS
      <4>2. /\ n \in Merger /\ n.post = m.post /\ n.queue = m.queue /\ n.next = m.next
            /\ n.head = m.head
        BY <4>1 DEF Merger
      <4>3. handler' = [handler EXCEPT ![h] = n]
        BY <1>2, <3>3, <4>1
      <4> QED
        BY <3>3, <4>2, <4>3
    <3> QED
      BY <2>1, <3>2, <3>3
  <2> QED
    BY <2>3, <2>4, <2>5, <2>6
\* ... and of the integration worktree.
<1>7. integration' \in Integration
  <2>1. PICK head \in Seq(Merges), present \in BOOLEAN :
            \/ integration' = [integration EXCEPT !.present = present]
            \/ integration' = [integration EXCEPT !.head = head]
            \/ UNCHANGED integration
    BY <1>2, <1>3, <1>4 DEF Materialize, CheckStep, MergeStep, ValidateStep
  <2> QED
    BY <1>4, <2>1 DEF Integration
<1>8. PICK n \in Merger :
          /\ handler' = [handler EXCEPT ![h] = n]
          /\ n.queue = m.queue /\ n.next = m.next /\ n.head = m.head
          /\ n.pc = "recording" => n.post = post
  BY <1>6
<1>9. n \in Request /\ RequestIsSound(n)
  BY <1>3, <1>4, <1>8, MergerMoves
<1>10. QED
  BY <1>5, <1>7, <1>8, <1>9, TypesAre, StayKeeps

(***************************************************************************)
(* Cancellation.                                                           *)
(***************************************************************************)

LEMMA CancellerIs ==
    ASSUME BatchConstants, BatchInv, NEW h \in Handlers, handler[h].pc \in CancelPcs
    PROVE  /\ handler[h] \in Canceller /\ CancellerIsSound(handler[h])
           /\ handler[h].todo \in SUBSET Tasks
           /\ handler[h].todo # {} => First(handler[h].todo) \in handler[h].todo
           /\ handler[h].pc = "fencing" =>
                  handler[h].todo # {} /\ handler[h].final \in {"cancelled", "orphaned"}
<1>1. PICK c \in Request : c = handler[h]
  BY RequestIs
<1>2. c \in Canceller /\ RequestIsSound(c)
  BY <1>1, Kinds, RequestIs
<1>3. c.todo \in SUBSET Tasks /\ c.final \in {"none", "cancelled", "orphaned"}
  BY <1>2 DEF Canceller
<1>4. CancellerIsSound(c)
  BY <1>1, <1>2 DEF RequestIsSound, CancelPcs
<1>5. c.todo # {} => First(c.todo) \in c.todo
  BY <1>3, FirstIn
<1>6. c.pc = "fencing" => c.todo # {} /\ c.final \in {"cancelled", "orphaned"}
  BY <1>2, <1>3 DEF RequestIsSound
<1>7. QED
  BY <1>1, <1>2, <1>3, <1>4, <1>5, <1>6

LEMMA CancelIsSound ==
    ASSUME NEW c \in Canceller, CancellerIsSound(c),
           c.pc = "fencing" => c.todo # {} /\ c.final # "none"
    PROVE  c \in Request /\ RequestIsSound(c)
<1>1. c \in Request /\ c.pc \in CancelPcs
  BY DEF Request, Canceller
<1>2. c.pc \notin MergePcs
  BY <1>1 DEF CancelPcs, MergePcs
<1>3. QED
  BY <1>1, <1>2 DEF RequestIsSound

LEMMA CancelsKeep ==
    ASSUME BatchConstants, BatchInv, NEW h \in Handlers,
           Cancel(h) \/ CleanTree(h) \/ CleanIntegration(h) \/ EndCancel(h)
    PROVE  BatchInv'
<1>1. UNCHANGED <<running, source, row, receipt, review, queue>>
  BY DEF Cancel, CleanTree, CleanIntegration, EndCancel
<1>2. CASE Cancel(h)
  <2>1. PICK c : c = [pc |-> "cleaning", final |-> "none", failed |-> FALSE, queue |-> 0,
                      from |-> "none", todo |-> {t \in Tasks : row[t].status \notin Terminal},
                      generation |-> [t \in Tasks |-> row[t].generation]]
    OBVIOUS
  <2>2. handler' = [handler EXCEPT ![h] = c] /\ UNCHANGED <<plan, tree, integration>>
    BY <1>2, <2>1 DEF Cancel
  <2>3. [t \in Tasks |-> row[t].generation] \in [Tasks -> Generations]
    BY TaskFields DEF BatchInv
  <2>4. 0 \in 0 .. MaxQueues /\ "cleaning" \in CancelPcs
    BY Numbers DEF CancelPcs
  <2>5. c \in Canceller
    BY <2>1, <2>3, <2>4 DEF Canceller
  <2>6. CancellerIsSound(c) /\ c.pc # "fencing"
    BY <2>1 DEF CancellerIsSound
  <2>7. c \in Request /\ RequestIsSound(c)
    BY <2>5, <2>6, CancelIsSound
  <2> QED
    BY <1>1, <2>2, <2>7, TypesAre, StayKeeps
<1>3. CASE CleanTree(h)
  <2>1. handler[h].pc \in CancelPcs /\ handler[h].pc = "cleaning" /\ handler[h].todo # {}
    BY <1>3 DEF CleanTree, CancelPcs
  <2>2. PICK c \in Canceller : c = handler[h]
    BY <2>1, CancellerIs
  <2>3. PICK t \in Tasks : t = First(handler[h].todo)
    BY <2>1, CancellerIs
  <2>4. PICK final \in {"cancelled", "orphaned"} :
            final = IF tree[t].present /\ tree[t].dirty THEN "orphaned" ELSE "cancelled"
    OBVIOUS
  <2>5. PICK d : d = [c EXCEPT !.pc = "fencing", !.final = final]
    OBVIOUS
  <2>6. /\ handler' = [handler EXCEPT ![h].pc = "fencing", ![h].final = final]
        /\ UNCHANGED <<plan, integration>>
        /\ tree' = tree \/ tree' = [tree EXCEPT ![t].present = FALSE]
    BY <1>3, <2>3, <2>4 DEF CleanTree
  <2>7. handler' = [handler EXCEPT ![h] = d]
    BY <2>2, <2>5, <2>6, TypesAre DEF Types
  <2>8. d \in Canceller /\ d.pc = "fencing" /\ d.final = final /\ d.todo = c.todo
        /\ d.failed = c.failed
    BY <2>5 DEF Canceller, CancelPcs
  <2>9. CancellerIsSound(c)
    BY <2>1, <2>2, CancellerIs
  <2>10. CancellerIsSound(d)
    BY <2>8, <2>9 DEF CancellerIsSound
  <2>11. d \in Request /\ RequestIsSound(d)
    BY <2>1, <2>2, <2>8, <2>10, CancelIsSound
  <2>12. tree' \in [Tasks -> Tree]
    BY <2>6, TypesAre DEF Tree
  <2> QED
    BY <1>1, <2>6, <2>7, <2>11, <2>12, TypesAre, StayKeeps
<1>4. CASE CleanIntegration(h)
  <2>1. handler[h].pc \in CancelPcs /\ handler[h].pc = "cleaning" /\ handler[h].todo = {}
    BY <1>4 DEF CleanIntegration, CancelPcs
  <2>2. PICK c \in Canceller : c = handler[h]
    BY <2>1, CancellerIs
  <2>3. CancellerIsSound(c) /\ c.todo = {}
    BY <2>1, <2>2, CancellerIs
  <2>4. integration' \in Integration /\ UNCHANGED <<plan, tree>>
    BY <1>4, TypesAre DEF CleanIntegration, Integration
  <2>5. \E d \in Canceller :
            /\ handler' = [handler EXCEPT ![h] = d]
            /\ d.todo = c.todo /\ d.failed = c.failed
            /\ d.pc \in {"aborting", "ending"} /\ (d.pc = "ending" => ~Open)
    <3>1. CASE queue.status \in {"prepared", "running", "blocked"}
      <4>1. PICK d : d = [c EXCEPT !.pc = "aborting", !.queue = queue.number,
                                   !.from = queue.status]
        OBVIOUS
      <4>2. handler' = [handler EXCEPT ![h].pc = "aborting", ![h].queue = queue.number,
                                       ![h].from = queue.status]
        BY <1>4, <3>1 DEF CleanIntegration
      <4>3. handler' = [handler EXCEPT ![h] = d]
        BY <2>2, <4>1, <4>2, TypesAre DEF Types
      <4>4. queue.number \in 0 .. MaxQueues
        BY QueueFields DEF BatchInv
      <4>5. d \in Canceller /\ d.todo = c.todo /\ d.failed = c.failed /\ d.pc = "aborting"
        BY <3>1, <4>1, <4>4 DEF Canceller, CancelPcs
      <4> QED
        BY <4>3, <4>5
    <3>2. CASE queue.status \notin {"prepared", "running", "blocked"}
      <4>1. PICK d : d = [c EXCEPT !.pc = "ending"]
        OBVIOUS
      <4>2. handler' = [handler EXCEPT ![h] = d]
        BY <1>4, <2>2, <3>2, <4>1 DEF CleanIntegration, Go
      <4>3. d \in Canceller /\ d.todo = c.todo /\ d.failed = c.failed /\ d.pc = "ending"
        BY <4>1 DEF Canceller, CancelPcs
      <4>4. ~Open
        BY <3>2 DEF Open
      <4> QED
        BY <4>2, <4>3, <4>4
    <3> QED
      BY <3>1, <3>2
  <2>6. PICK d \in Canceller :
            /\ handler' = [handler EXCEPT ![h] = d]
            /\ d.todo = c.todo /\ d.failed = c.failed
            /\ d.pc \in {"aborting", "ending"} /\ (d.pc = "ending" => ~Open)
    BY <2>5
  <2>7. CancellerIsSound(d)
    BY <2>3, <2>6 DEF CancellerIsSound
  <2>8. d \in Request /\ RequestIsSound(d)
    BY <2>6, <2>7, CancelIsSound
  <2> QED
    BY <1>1, <2>4, <2>6, <2>8, TypesAre, StayKeeps
<1>5. CASE EndCancel(h)
  <2>1. handler[h].pc = "ending" /\ handler[h].pc \in CancelPcs
    BY <1>5 DEF EndCancel, CancelPcs
  <2>2. CancellerIsSound(handler[h])
    BY <2>1, CancellerIs
  <2>3. ~handler[h].failed => ~Open
    BY <2>1, <2>2 DEF CancellerIsSound
  <2>4. /\ plan' = IF handler[h].failed THEN plan ELSE "aborted"
        /\ handler' = [handler EXCEPT ![h] = Idle]
        /\ UNCHANGED <<tree, integration>>
    BY <1>5 DEF EndCancel, Stop
  <2>5. /\ plan' \in {"active", "reviewing", "blocked", "merging", "completed", "aborted"}
        /\ Open => plan' = "merging"
    BY <2>3, <2>4, TypesAre
  <2> QED
    BY <1>1, <2>4, <2>5, TypesAre, IdleIsSound, StayKeeps
<1>6. QED
  BY <1>2, <1>3, <1>4, <1>5

\* A child that has not ended is ended; the request is told when it had.
LEMMA AbortKeeps ==
    ASSUME BatchConstants, BatchInv, NEW h \in Handlers, AbortWorkspace(h)
    PROVE  BatchInv'
<1>1. handler[h].pc \in CancelPcs /\ handler[h].pc = "fencing"
  BY DEF AbortWorkspace, CancelPcs
<1>2. PICK c \in Canceller : c = handler[h]
  BY <1>1, CancellerIs
<1>3. /\ CancellerIsSound(c) /\ c.todo # {} /\ c.final \in {"cancelled", "orphaned"}
      /\ c.todo \in SUBSET Tasks /\ First(c.todo) \in c.todo
  BY <1>1, <1>2, CancellerIs
<1>4. PICK t \in Tasks : t = First(c.todo)
  BY <1>3
<1>5. PICK current \in BOOLEAN :
          current = (row[t].generation = c.generation[t] /\ row[t].status \notin Terminal)
  OBVIOUS
<1>6. PICK rest : rest = c.todo \ {t}
  OBVIOUS
<1>7. PICK failed \in BOOLEAN : failed <=> (c.failed \/ ~current)
  OBVIOUS
<1>8. PICK d : d = [c EXCEPT !.pc = "cleaning", !.todo = rest, !.failed = failed]
  OBVIOUS
<1>9. PICK r : r = [row[t] EXCEPT !.status = c.final, !.live = FALSE]
  OBVIOUS
<1>10. /\ Types /\ row \in [Tasks -> Row] /\ row[t] \in Row /\ handler \in [Handlers -> Request]
       /\ c.failed \in BOOLEAN
  BY TaskFields DEF BatchInv, Types, Canceller
<1>11. r \in Row /\ r.status = c.final /\ r.generation = row[t].generation
  <2>1. c.final \in Statuses
    BY <1>3 DEF Statuses, Terminal
  <2> QED
    BY <1>9, <1>10, <2>1 DEF Row
<1>12. row' = IF current THEN [row EXCEPT ![t] = r] ELSE row
  BY <1>2, <1>4, <1>5, <1>9, <1>10 DEF AbortWorkspace
<1>13. /\ handler' = [handler EXCEPT ![h].pc = "cleaning", ![h].todo = c.todo \ {t},
                                     ![h].failed = c.failed \/ ~current]
       /\ UNCHANGED <<running, source, plan, tree, receipt, review, queue, integration>>
  BY <1>2, <1>4, <1>5 DEF AbortWorkspace
<1>14. handler' = [handler EXCEPT ![h] = d]
  <2>1. failed = (c.failed \/ ~current)
    BY <1>5, <1>7, <1>10
  <2> QED
    BY <1>2, <1>6, <1>8, <1>10, <1>13, <2>1
<1>15. d \in Canceller /\ d.pc = "cleaning" /\ d.todo = rest /\ d.failed = failed
  <2>1. rest \in SUBSET Tasks /\ "cleaning" \in CancelPcs
    BY <1>3, <1>6 DEF CancelPcs
  <2> QED
    BY <1>8, <2>1 DEF Canceller
<1>16. row' \in [Tasks -> Row] /\ \A u \in Tasks : u # t \/ ~current => row'[u] = row[u]
  BY <1>10, <1>11, <1>12
<1>17. current => row'[t] = r
  BY <1>10, <1>12
<1>18. \A u \in Tasks : row'[u].generation = row[u].generation
  BY <1>11, <1>16, <1>17
<1>19. \A u \in Tasks : ReceiptOf(u)' = ReceiptOf(u) /\ WasReviewed(u)' = WasReviewed(u)
  BY <1>13, <1>18 DEF ReceiptOf, WasReviewed
<1>20. TerminalStays
  BY <1>5, <1>16 DEF TerminalStays
<1>21. queue.number \in Nat /\ queue'.number \in Nat /\ Open' = Open
  BY <1>10, <1>13, QueueFields DEF Open
<1>22. QueueKeeps
  BY <1>13, <1>19, <1>21 DEF QueueKeeps
<1>23. RequestIsSound(d)'
  <2>1. CancellerIsSound(d)'
    <3> SUFFICES ASSUME ~d.failed, NEW u \in Tasks
                 PROVE  row'[u].status \in Terminal \/ u \in d.todo
      BY <1>15 DEF CancellerIsSound
    <3>1. current /\ ~c.failed
      BY <1>7, <1>15
    <3>2. row'[t].status \in Terminal
      BY <1>3, <1>11, <1>17, <3>1 DEF Terminal
    <3>3. row[u].status \in Terminal \/ u \in c.todo
      BY <1>3, <3>1 DEF CancellerIsSound
    <3> QED
      BY <1>6, <1>15, <1>16, <3>2, <3>3
  <2> QED
    BY <1>15, <2>1 DEF RequestIsSound, MergePcs
<1>24. RequestsAreSound'
  BY <1>14, <1>15, <1>20, <1>21, <1>22, <1>23, RequestsKeep DEF Request
<1>25. Types'
  <2>1. handler' \in [Handlers -> Request]
    BY <1>10, <1>14, <1>15 DEF Request
  <2> QED
    BY <1>10, <1>13, <1>16, <2>1 DEF Types
<1>26. RowsAreSound'
  <2> SUFFICES ASSUME NEW u \in Tasks PROVE RowIsSound(u)'
    BY DEF RowsAreSound
  <2>1. RowIsSound(u)
    BY DEF BatchInv, RowsAreSound
  <2>2. CASE u = t /\ current
    BY <1>3, <1>11, <1>17, <2>2 DEF RowIsSound
  <2>3. CASE u # t \/ ~current
    BY <1>16, <1>19, <2>1, <2>3 DEF RowIsSound
  <2> QED
    BY <2>2, <2>3
<1>27. QueueIsSealed'
  <2>1. QueueIsSealed
    BY DEF BatchInv
  <2>2. Open' => /\ plan' = "merging" /\ queue'.next < Count
                 /\ \A u \in Tasks : row'[u].status \in {"accepted", "cancelled", "orphaned"}
    BY <1>3, <1>11, <1>13, <1>16, <1>17, <1>21, <2>1 DEF QueueIsSealed
  <2>3. queue'.status = "completed" => \A u \in Tasks : row'[u].status \in Terminal
    BY <1>13, <1>20, <2>1 DEF QueueIsSealed, TerminalStays
  <2>4. Open' \/ queue'.status = "completed" => \A u \in Tasks : WasReviewed(u)'
    BY <1>13, <1>19, <1>21, <2>1 DEF QueueIsSealed
  <2> QED
    BY <2>2, <2>3, <2>4 DEF QueueIsSealed
<1>28. HeadIsMerged'
  <2>1. \A u \in 1 .. queue.next : u \in Tasks
    BY <1>10, QueueFields, Numbers DEF Tasks
  <2> QED
    BY <1>13, <1>19, <2>1 DEF BatchInv, HeadIsMerged
<1>29. QED
  BY <1>24, <1>25, <1>26, <1>27, <1>28 DEF BatchInv

(***************************************************************************)
(* The rows of the queue.                                                  *)
(***************************************************************************)

\* A queue ends without having been completed.
LEMMA ClosingKeeps ==
    ASSUME BatchConstants, BatchInv, NEW h \in Handlers, NEW x \in Request,
           queue' \in Queue, queue'.number = queue.number, queue'.status \in {"blocked", "aborted"},
           plan' \in {"active", "reviewing", "blocked", "merging", "completed", "aborted"},
           UNCHANGED <<running, source, row, tree, receipt, review, integration>>,
           handler' = [handler EXCEPT ![h] = x],
           \/ RequestIsSound(x)
           \/ /\ x.pc = "ending"
              /\ ~x.failed => x.todo = {} /\ \A t \in Tasks : row[t].status \in Terminal
    PROVE  BatchInv'
<1>1. Types /\ queue.number \in Nat /\ queue'.number \in Nat
  BY QueueFields, TypesAre
<1>2. Types'
  BY <1>1 DEF Types
<1>3. ~Open' /\ queue'.status \notin {"completed", "prepared", "running"}
  BY DEF Open
<1>4. QueueIsSealed' /\ HeadIsMerged'
  BY <1>3 DEF QueueIsSealed, HeadIsMerged
<1>5. RowsAreSound'
  BY DEF BatchInv, RowsAreSound, RowIsSound, WasReviewed, ReceiptOf
<1>6. TerminalStays /\ QueueKeeps
  BY <1>1, <1>3 DEF TerminalStays, QueueKeeps
<1>7. RequestIsSound(x)'
  <2>1. CASE RequestIsSound(x)
    BY <1>1, <1>6, <2>1, RequestKeeps
  <2>2. CASE /\ x.pc = "ending"
             /\ ~x.failed => x.todo = {} /\ \A t \in Tasks : row[t].status \in Terminal
    <3>1. CancellerIsSound(x)'
      BY <1>3, <2>2 DEF CancellerIsSound
    <3> QED
      BY <2>2, <3>1 DEF RequestIsSound, MergePcs
  <2> QED
    BY <2>1, <2>2
<1>8. RequestsAreSound'
  BY <1>1, <1>6, <1>7, RequestsKeep
<1>9. QED
  BY <1>2, <1>4, <1>5, <1>8 DEF BatchInv

LEMMA AbortQueueKeeps ==
    ASSUME BatchConstants, BatchInv, NEW h \in Handlers, AbortQueue(h)
    PROVE  BatchInv'
<1>1. handler[h].pc \in CancelPcs /\ handler[h].pc = "aborting"
  BY DEF AbortQueue, CancelPcs
<1>2. PICK c \in Canceller : c = handler[h]
  BY <1>1, CancellerIs
<1>3. CancellerIsSound(c) /\ c.pc = "aborting"
  BY <1>1, <1>2, CancellerIs
<1>4. UNCHANGED <<running, source, plan, row, tree, receipt, review, integration>>
  BY DEF AbortQueue
<1>5. Types /\ queue \in Queue /\ handler \in [Handlers -> Request]
  BY TypesAre DEF Types
<1>6. CASE c.queue = queue.number /\ queue.status = c.from
  <2>1. PICK d : d = [c EXCEPT !.pc = "ending"]
    OBVIOUS
  <2>2. queue' = [queue EXCEPT !.status = "aborted"] /\ handler' = [handler EXCEPT ![h] = d]
    BY <1>2, <1>6, <2>1 DEF AbortQueue, Go
  <2>3. d \in Canceller /\ d.pc = "ending" /\ d.todo = c.todo /\ d.failed = c.failed
    BY <2>1 DEF Canceller, CancelPcs
  <2>4. queue' \in Queue /\ queue'.number = queue.number /\ queue'.status = "aborted"
    BY <1>5, <2>2 DEF Queue
  <2>5. ~d.failed => d.todo = {} /\ \A t \in Tasks : row[t].status \in Terminal
    BY <1>3, <2>3 DEF CancellerIsSound
  <2> QED
    BY <1>4, <2>2, <2>3, <2>4, <2>5, TypesAre, ClosingKeeps DEF Request
<1>7. CASE ~(c.queue = queue.number /\ queue.status = c.from)
  <2>1. PICK failed \in BOOLEAN :
            failed <=> (c.failed \/ c.queue # queue.number \/ queue.status # "aborted")
    OBVIOUS
  <2>2. PICK d : d = [c EXCEPT !.pc = "ending", !.failed = failed]
    OBVIOUS
  <2>3. /\ handler' = [handler EXCEPT ![h].pc = "ending",
               ![h].failed = c.failed \/ ~(c.queue = queue.number) \/ queue.status # "aborted"]
        /\ UNCHANGED queue
    BY <1>2, <1>7 DEF AbortQueue
  <2>4. handler' = [handler EXCEPT ![h] = d]
    <3>1. c.failed \in BOOLEAN
      BY DEF Canceller
    <3>2. failed = (c.failed \/ ~(c.queue = queue.number) \/ queue.status # "aborted")
      BY <2>1, <3>1
    <3> QED
      BY <1>2, <1>5, <2>2, <2>3, <3>2
  <2>5. d \in Canceller /\ d.pc = "ending" /\ d.todo = c.todo /\ d.failed = failed
    BY <2>2 DEF Canceller, CancelPcs
  <2>6. CancellerIsSound(d)
    <3> SUFFICES ASSUME ~d.failed
                 PROVE  /\ \A t \in Tasks : row[t].status \in Terminal \/ t \in d.todo
                        /\ d.todo = {} /\ ~Open
      BY <2>5 DEF CancellerIsSound
    <3>1. ~c.failed /\ queue.status = "aborted"
      BY <2>1, <2>5
    <3> QED
      BY <1>3, <2>5, <3>1 DEF CancellerIsSound, Open
  <2>7. d \in Request /\ RequestIsSound(d)
    BY <2>5, <2>6, CancelIsSound
  <2> QED
    BY <1>4, <2>3, <2>4, <2>7, TypesAre, StayKeeps
<1>8. QED
  BY <1>6, <1>7

LEMMA FailuresKeep ==
    ASSUME BatchConstants, BatchInv, NEW h \in Handlers, FailStep(h) \/ BlockQueue(h)
    PROVE  BatchInv'
<1>1. PICK pc \in {"failing", "blocking"} : AtWork(h, pc)
  BY DEF FailStep, BlockQueue
<1>2. PICK m \in Merger : m = handler[h]
  BY <1>1, AtWorkIs DEF MergePcs
<1>3. /\ handler' = [handler EXCEPT ![h] = Idle]
      /\ UNCHANGED <<running, source, row, tree, receipt, review, integration>>
  BY DEF FailStep, BlockQueue, Stop
<1>4. CASE Blocks(h)
  <2>1. queue' = [queue EXCEPT !.status = "blocked", !.head = m.head, !.code = m.code]
    BY <1>2, <1>4 DEF Blocks
  <2>2. m.head \in Seq(Merges) /\ m.code \in {"none", "other", "recovery"} /\ queue \in Queue
    BY TypesAre DEF Merger, Types
  <2>3. queue' \in Queue /\ queue'.number = queue.number /\ queue'.status = "blocked"
    BY <2>1, <2>2 DEF Queue
  <2>4. plan' \in {"active", "reviewing", "blocked", "merging", "completed", "aborted"}
    BY <1>4, TypesAre DEF Blocks
  <2> QED
    BY <1>3, <2>3, <2>4, IdleIsSound, ClosingKeeps
<1>5. CASE UNCHANGED <<plan, queue>>
  BY <1>3, <1>5, TypesAre, IdleIsSound, StayKeeps
<1>6. QED
  BY <1>4, <1>5 DEF FailStep, BlockQueue

LEMMA MarkKeeps ==
    ASSUME BatchConstants, BatchInv, NEW h \in Handlers, MarkRunning(h)
    PROVE  BatchInv'
<1>1. AtWork(h, "marking") /\ "marking" \in MergePcs
  BY DEF MarkRunning, MergePcs
<1>2. PICK m \in Merger : m = handler[h]
  BY <1>1, AtWorkIs
<1>3. MergerIsSound(m)
  BY <1>1, <1>2, AtWorkIs
<1>4. UNCHANGED <<running, source, plan, row, tree, receipt, review, integration>>
  BY DEF MarkRunning
<1>5. CASE queue.status # "prepared"
  <2>1. handler' = [handler EXCEPT ![h] = Idle] /\ UNCHANGED queue
    BY <1>5 DEF MarkRunning, Stop
  <2> QED
    BY <1>4, <2>1, TypesAre, IdleIsSound, StayKeeps
<1>6. CASE queue.status = "prepared"
  <2>1. PICK n : n = [m EXCEPT !.pc = "checking", !.status = "running", !.from = "running"]
    OBVIOUS
  <2>2. /\ queue' = [queue EXCEPT !.status = "running"]
        /\ handler' = [handler EXCEPT ![h].pc = "checking", ![h].status = "running",
                                      ![h].from = "running"]
    BY <1>6 DEF MarkRunning
  <2>3. Types /\ queue \in Queue /\ handler \in [Handlers -> Request]
    BY TypesAre DEF Types
  <2>4. handler' = [handler EXCEPT ![h] = n]
    BY <1>2, <2>1, <2>2, <2>3
  <2>5. n \in Merger /\ n.pc = "checking" /\ n.queue = m.queue /\ n.next = m.next /\ n.head = m.head
    BY <2>1 DEF Merger, MergePcs
  <2>6. /\ queue' \in Queue /\ queue'.number = queue.number /\ queue'.status = "running"
        /\ queue'.next = queue.next /\ queue'.head = queue.head
    BY <2>2, <2>3 DEF Queue
  <2>7. Open /\ Open'
    BY <1>6, <2>6 DEF Open
  <2>8. n \in Request /\ RequestIsSound(n)
    BY <1>3, <2>5, MergerMoves
  <2>9. queue.number \in Nat /\ queue'.number \in Nat
    BY <2>3, <2>6, QueueFields
  <2>10. \A t \in Tasks : ReceiptOf(t)' = ReceiptOf(t) /\ WasReviewed(t)' = WasReviewed(t)
    BY <1>4 DEF ReceiptOf, WasReviewed
  <2>11. TerminalStays /\ QueueKeeps
    BY <1>4, <2>6, <2>7, <2>9, <2>10 DEF TerminalStays, QueueKeeps
  <2>12. RequestIsSound(n)'
    BY <2>8, <2>9, <2>11, RequestKeeps
  <2>13. RequestsAreSound'
    BY <2>4, <2>8, <2>9, <2>11, <2>12, RequestsKeep
  <2>14. Types'
    BY <1>4, <2>3, <2>4, <2>6, <2>8 DEF Types
  <2>15. RowsAreSound'
    BY <1>4, <2>10 DEF BatchInv, RowsAreSound, RowIsSound
  <2>16. QueueIsSealed'
    BY <1>4, <2>6, <2>7, <2>10 DEF BatchInv, QueueIsSealed
  <2>17. HeadIsMerged'
    <3>1. queue.next = 0 /\ queue.head = <<>>
      BY <1>6 DEF BatchInv, HeadIsMerged
    <3> QED
      BY <2>6, <3>1 DEF HeadIsMerged
  <2> QED
    BY <2>13, <2>14, <2>15, <2>16, <2>17 DEF BatchInv
<1>7. QED
  BY <1>5, <1>6

\* Every delivery is accepted when a queue is created.
LEMMA CreateKeeps ==
    ASSUME BatchConstants, BatchInv, NEW h \in Handlers, CreateQueue(h)
    PROVE  BatchInv'
<1>1. PICK x \in Request : x = handler[h]
  BY RequestIs
<1>2. x.base \in 0 .. MaxDrift
  BY <1>1, Kinds DEF CreateQueue
<1>3. PICK n : n = queue.number + 1
  OBVIOUS
<1>4. PICK q : q = NewQueue(h)
  OBVIOUS
<1>5. PICK m : m = Work("materializing", q, "prepared")
  OBVIOUS
<1>6. /\ queue.number < MaxQueues /\ plan \in {"reviewing", "blocked"}
      /\ \A t \in Tasks : row[t].status = "accepted"
      /\ queue' = q /\ integration' = [present |-> FALSE, head |-> <<>>] /\ plan' = "merging"
      /\ handler' = [handler EXCEPT ![h] = m]
      /\ UNCHANGED <<running, source, row, tree, receipt, review>>
  BY <1>4, <1>5 DEF CreateQueue
<1>7. Types /\ queue.number \in Nat /\ handler \in [Handlers -> Request] /\ ~Open
  <2>1. Types /\ ~Open
    BY <1>6, TypesAre
  <2>2. queue.number \in Nat
    BY <2>1, QueueFields
  <2> QED
    BY <2>1, <2>2 DEF Types
<1>8. n \in 0 .. MaxQueues /\ n \in Nat /\ n > queue.number
  BY <1>3, <1>6, <1>7, Numbers
<1>9. /\ q.number = n /\ q.status = "prepared" /\ q.base = x.base /\ q.next = 0 /\ q.head = <<>>
      /\ q.code = "none"
  BY <1>1, <1>3, <1>4 DEF NewQueue, NoQueue
<1>10. q \in Queue
  <2>1. <<>> \in Seq(Merges) /\ 0 \in 0 .. Count
    BY Numbers
  <2>2. q = [number |-> n, status |-> "prepared", base |-> x.base, next |-> 0, head |-> <<>>,
             code |-> "none"]
    BY <1>1, <1>3, <1>4 DEF NewQueue, NoQueue
  <2> QED
    BY <1>2, <1>8, <2>1, <2>2 DEF Queue
<1>11. /\ m \in Merger /\ m.pc = "materializing" /\ m.queue = n /\ m.next = 0 /\ m.head = <<>>
  <2>1. <<>> \in Seq(Merges) /\ 0 \in 0 .. Count - 1 /\ "materializing" \in MergePcs
    BY Numbers DEF MergePcs
  <2> QED
    BY <1>2, <1>5, <1>8, <1>9, <2>1 DEF Work, Merger
<1>12. m \in Request
  BY <1>11 DEF Request
<1>13. Types'
  <2>1. [present |-> FALSE, head |-> <<>>] \in Integration
    BY DEF Integration
  <2> QED
    BY <1>6, <1>7, <1>10, <1>12, <2>1 DEF Types
<1>14. \A t \in Tasks : RowIsSound(t)' /\ WasReviewed(t)'
  <2> SUFFICES ASSUME NEW t \in Tasks PROVE RowIsSound(t)' /\ WasReviewed(t)'
    OBVIOUS
  <2>1. RowIsSound(t) /\ WasReviewed(t)
    BY <1>6 DEF BatchInv, RowsAreSound, RowIsSound
  <2> QED
    BY <1>6, <2>1 DEF RowIsSound, WasReviewed, ReceiptOf
<1>15. RowsAreSound'
  BY <1>14 DEF RowsAreSound
<1>16. QueueIsSealed'
  BY <1>6, <1>9, <1>14, Numbers DEF QueueIsSealed, Open
<1>17. HeadIsMerged'
  BY <1>6, <1>9 DEF HeadIsMerged
<1>18. TerminalStays
  BY <1>6 DEF TerminalStays
<1>19. QueueKeeps
  <2>1. row'[1].status \notin Terminal /\ 1 \in Tasks
    BY <1>6, Numbers DEF Terminal
  <2>2. queue'.number = n
    BY <1>6, <1>9
  <2> QED
    BY <1>7, <1>8, <2>1, <2>2 DEF QueueKeeps
<1>20. RequestIsSound(m)'
  <2>1. MergerIsSound(m)'
    BY <1>6, <1>8, <1>9, <1>11 DEF MergerIsSound
  <2> QED
    BY <1>11, <2>1 DEF RequestIsSound
<1>21. queue'.number \in Nat
  BY <1>6, <1>8, <1>9
<1>22. RequestsAreSound'
  BY <1>6, <1>12, <1>18, <1>19, <1>20, <1>21, RequestsKeep
<1>23. QED
  BY <1>13, <1>15, <1>16, <1>17, <1>22 DEF BatchInv

\* The step that is recorded is the next one, and is the merge of what was reviewed.
LEMMA RecordKeeps ==
    ASSUME BatchConstants, BatchInv, NEW h \in Handlers, RecordStep(h)
    PROVE  BatchInv'
<1>1. AtWork(h, "recording") /\ "recording" \in MergePcs
  BY DEF RecordStep, MergePcs
<1>2. PICK m \in Merger : m = handler[h]
  BY <1>1, AtWorkIs
<1>3. PICK post : post = Append(m.head, <<m.next + 1, ReceiptOf(m.next + 1)>>)
  OBVIOUS
<1>4. /\ MergerIsSound(m) /\ m.pc = "recording" /\ m.queue = queue.number
      /\ m.next \in 0 .. Count - 1 /\ m.next \in Nat /\ m.next + 1 \in Tasks
      /\ m.head \in Seq(Merges) /\ post \in Seq(Merges)
  BY <1>1, <1>2, <1>3, AtWorkIs
<1>5. UNCHANGED <<running, source, tree, receipt, review, integration>>
  BY DEF RecordStep
<1>6. /\ Types /\ queue \in Queue /\ handler \in [Handlers -> Request] /\ row \in [Tasks -> Row]
      /\ queue.number \in Nat /\ queue.next \in Nat
  <2>1. Types
    BY TypesAre
  <2>2. queue.number \in Nat /\ queue.next \in Nat
    BY <2>1, QueueFields
  <2> QED
    BY <2>1, <2>2 DEF Types
<1>7. CASE handler' = [handler EXCEPT ![h] = Idle] /\ UNCHANGED <<plan, row, queue>>
  BY <1>5, <1>7, TypesAre, IdleIsSound, StayKeeps
<1>8. CASE handler' = [handler EXCEPT ![h].pc = "blocking"] /\ UNCHANGED <<plan, row, queue>>
  <2>1. PICK n : n = [m EXCEPT !.pc = "blocking"]
    OBVIOUS
  <2>2. /\ n \in Merger /\ n.pc = "blocking" /\ n.queue = m.queue /\ n.next = m.next
        /\ n.head = m.head
    BY <2>1 DEF Merger, MergePcs
  <2>3. handler' = [handler EXCEPT ![h] = n]
    BY <1>2, <1>8, <2>1
  <2>4. n \in Request /\ RequestIsSound(n)
    BY <1>4, <2>2, MergerMoves
  <2> QED
    BY <1>5, <1>8, <2>3, <2>4, TypesAre, StayKeeps
<1>9. ASSUME NEW last \in BOOLEAN, last <=> m.next + 1 = Count,
             queue.status = "running", queue.next = m.next,
             queue' = [queue EXCEPT !.next = m.next + 1, !.head = m.post,
                                    !.status = IF last THEN "completed" ELSE "running"],
             plan' = IF last /\ plan = "merging" THEN "completed" ELSE plan,
             row' = [t \in Tasks |->
                        IF last /\ row[t].status = "accepted"
                        THEN [row[t] EXCEPT !.status = "merged"] ELSE row[t]],
             handler' = [handler EXCEPT ![h] =
                            IF last THEN Idle
                            ELSE [m EXCEPT !.pc = "checking", !.next = m.next + 1,
                                           !.head = m.post, !.post = <<>>]]
      PROVE  BatchInv'
  <2>1. Open
    BY <1>9 DEF Open
  <2>2. /\ m.head = queue.head /\ m.post = post
    BY <1>3, <1>4, <1>9, <2>1 DEF MergerIsSound
  <2>3. PICK n : n = m.next + 1
    OBVIOUS
  <2>4. n \in Tasks /\ n \in Nat /\ n \in 0 .. Count /\ n = queue.next + 1
    BY <1>4, <1>9, <2>3, Numbers DEF Tasks
  <2>5. PICK status \in {"completed", "running"} :
            status = IF last THEN "completed" ELSE "running"
    OBVIOUS
  <2>6. /\ queue' \in Queue /\ queue'.number = queue.number /\ queue'.next = n
        /\ queue'.head = post /\ queue'.status = status
    BY <1>4, <1>6, <1>9, <2>2, <2>3, <2>4, <2>5 DEF Queue
  \* The children.
  <2>7. ASSUME NEW t \in Tasks
        PROVE  /\ row'[t] \in Row /\ row'[t].generation = row[t].generation
               /\ last /\ row[t].status = "accepted" => row'[t].status = "merged"
               /\ ~(last /\ row[t].status = "accepted") => row'[t] = row[t]
    <3>1. row[t] \in Row
      BY <1>6
    <3>2. CASE last /\ row[t].status = "accepted"
      <4>1. PICK r : r = [row[t] EXCEPT !.status = "merged"]
        OBVIOUS
      <4>2. row'[t] = r
        BY <1>9, <3>2, <4>1
      <4>3. r \in Row /\ r.status = "merged" /\ r.generation = row[t].generation
        BY <3>1, <4>1 DEF Row, Statuses, Terminal
      <4> QED
        BY <3>2, <4>2, <4>3
    <3>3. CASE ~(last /\ row[t].status = "accepted")
      BY <1>9, <3>1, <3>3
    <3> QED
      BY <3>2, <3>3
  <2>8. \A t \in Tasks : ReceiptOf(t)' = ReceiptOf(t) /\ WasReviewed(t)' = WasReviewed(t)
    BY <1>5, <2>7 DEF ReceiptOf, WasReviewed
  <2>9. row' \in [Tasks -> Row]
    <3>1. row' = [t \in Tasks |-> row'[t]]
      BY <1>9
    <3> QED
      BY <2>7, <3>1
  <2>10. TerminalStays
    BY <2>7 DEF TerminalStays, Terminal
  <2>11. RowsAreSound'
    <3> SUFFICES ASSUME NEW t \in Tasks PROVE RowIsSound(t)'
      BY DEF RowsAreSound
    <3>1. RowIsSound(t)
      BY DEF BatchInv, RowsAreSound
    <3>2. CASE last /\ row[t].status = "accepted"
      BY <2>7, <3>2 DEF RowIsSound
    <3>3. CASE ~(last /\ row[t].status = "accepted")
      BY <2>7, <2>8, <3>1, <3>3 DEF RowIsSound
    <3> QED
      BY <3>2, <3>3
  \* The plan and the queue.
  <2>12. /\ plan = "merging" /\ \A t \in Tasks : WasReviewed(t)
         /\ \A t \in Tasks : row[t].status \in {"accepted", "cancelled", "orphaned"}
    BY <2>1 DEF BatchInv, QueueIsSealed
  <2>13. plan' \in {"merging", "completed"} /\ (~last => plan' = "merging")
    BY <1>9, <2>12
  <2>14. QueueIsSealed'
    <3>1. CASE last
      <4>1. \A t \in Tasks : row'[t].status \in Terminal
        BY <2>7, <2>12, <3>1 DEF Terminal
      <4>2. queue'.status = "completed"
        BY <2>5, <2>6, <3>1
      <4> QED
        BY <2>8, <2>12, <4>1, <4>2 DEF QueueIsSealed, Open
    <3>2. CASE ~last
      <4>1. \A t \in Tasks : row'[t].status \in {"accepted", "cancelled", "orphaned"}
        BY <2>7, <2>12, <3>2
      <4>2. queue'.status = "running"
        BY <2>5, <2>6, <3>2
      <4>3. queue'.next < Count
        BY <1>9, <2>3, <2>4, <2>6, <3>2, Numbers
      <4> QED
        BY <2>8, <2>12, <2>13, <3>2, <4>1, <4>2, <4>3 DEF QueueIsSealed, Open
    <3> QED
      BY <3>1, <3>2
  <2>15. HeadIsMerged'
    <3>1. Len(queue.head) = queue.next /\ \A t \in 1 .. queue.next : queue.head[t] = <<t, ReceiptOf(t)>>
      BY <1>9 DEF BatchInv, HeadIsMerged
    <3>2. PICK step \in Merges : step = <<n, ReceiptOf(n)>>
      <4>1. ReceiptOf(n) \in Heads
        BY <1>6, <2>4, TaskFields
      <4> QED
        BY <2>4, <4>1 DEF Merges
    <3>3. post = Append(queue.head, step) /\ queue.head \in Seq(Merges)
      BY <1>3, <1>4, <2>2, <2>3, <3>2
    <3>4. Len(post) = n
      BY <2>4, <3>1, <3>3
    <3>5. ASSUME NEW t \in 1 .. n PROVE post[t] = <<t, ReceiptOf(t)>>
      <4>1. t \in Nat /\ (t \in 1 .. queue.next \/ t = n)
        BY <1>6, <2>4
      <4>2. CASE t = n
        <5>1. post[n] = step
          BY <2>4, <3>1, <3>3
        <5> QED
          BY <3>2, <4>2, <5>1
      <4>3. CASE t \in 1 .. queue.next
        <5>1. post[t] = queue.head[t]
          BY <1>6, <3>1, <3>3, <4>3
        <5> QED
          BY <3>1, <4>3, <5>1
      <4> QED
        BY <4>1, <4>2, <4>3
    <3>6. \A t \in 1 .. n : t \in Tasks
      BY <2>4, Numbers DEF Tasks
    <3>7. \A t \in 1 .. n : post[t] = <<t, ReceiptOf(t)'>>
      BY <2>8, <3>5, <3>6
    <3>8. queue'.status # "prepared"
      BY <2>5, <2>6
    <3> QED
      BY <2>6, <3>4, <3>7, <3>8 DEF HeadIsMerged
  <2>16. queue'.number \in Nat /\ QueueKeeps
    BY <1>6, <2>1, <2>4, <2>6 DEF QueueKeeps
  \* The requests.
  <2>17. PICK x \in Request : handler' = [handler EXCEPT ![h] = x] /\ RequestIsSound(x)'
    <3>1. CASE last
      <4>1. handler' = [handler EXCEPT ![h] = Idle]
        BY <1>9, <3>1
      <4>2. RequestIsSound(Idle)'
        BY <2>10, <2>16, IdleIsSound, RequestKeeps
      <4> QED
        BY <4>1, <4>2, IdleIsSound
    <3>2. CASE ~last
      <4>1. PICK x : x = [m EXCEPT !.pc = "checking", !.next = n, !.head = post, !.post = <<>>]
        OBVIOUS
      <4>2. handler' = [handler EXCEPT ![h] = x]
        BY <1>9, <2>2, <2>3, <3>2, <4>1
      <4>3. n \in 0 .. Count - 1
        BY <1>9, <2>3, <2>4, <3>2, Numbers
      <4>4. /\ x \in Merger /\ x.pc = "checking" /\ x.queue = m.queue /\ x.next = n
            /\ x.head = post
        <5>1. <<>> \in Seq(Merges)
          OBVIOUS
        <5> QED
          BY <1>4, <4>1, <4>3, <5>1 DEF Merger, MergePcs
      <4>5. x.queue <= queue'.number
        BY <1>4, <1>6, <2>6, <4>4
      <4>6. x.next <= queue'.next
        BY <2>4, <2>6, <4>4
      <4>7. MergerIsSound(x)'
        BY <2>6, <4>4, <4>5, <4>6 DEF MergerIsSound
      <4>8. x \in Request /\ RequestIsSound(x)'
        BY <4>4, <4>7 DEF RequestIsSound, Request
      <4> QED
        BY <4>2, <4>8
    <3> QED
      BY <3>1, <3>2
  <2>18. RequestsAreSound'
    BY <2>10, <2>16, <2>17, RequestsKeep
  <2>19. Types'
    BY <1>5, <1>6, <2>6, <2>9, <2>13, <2>17 DEF Types
  <2> QED
    BY <2>11, <2>14, <2>15, <2>18, <2>19 DEF BatchInv
<1>10. QED
  <2>1. PICK last \in BOOLEAN : last = (m.next + 1 = Count)
    OBVIOUS
  <2> QED
    BY <1>2, <1>7, <1>8, <1>9, <2>1 DEF RecordStep, Stop, Go

(***************************************************************************)
(* The theorems.                                                           *)
(***************************************************************************)

LEMMA BatchInit ==
    ASSUME BatchConstants, Init
    PROVE  BatchInv
<1>1. Types
  <2>1. running \in BOOLEAN /\ source \in 0 .. MaxDrift
    BY Numbers DEF Init
  <2>2. plan \in {"active", "reviewing", "blocked", "merging", "completed", "aborted"}
    BY DEF Init
  <2>3. row \in [Tasks -> Row]
    BY Numbers DEF Init, Row, Statuses
  <2>4. tree \in [Tasks -> Tree]
    BY Numbers DEF Init, Tree
  <2>5. receipt \in [Tasks -> [Generations -> Heads]]
    BY Numbers DEF Init
  <2>6. review \in [Tasks -> [Generations -> Verdicts]]
    BY DEF Init, Verdicts
  <2>7. queue \in Queue
    <3>1. <<>> \in Seq(Merges) /\ 0 \in 0 .. Count /\ 0 \in 0 .. MaxQueues /\ 0 \in 0 .. MaxDrift
      BY Numbers
    <3> QED
      BY <3>1 DEF Init, NoQueue, Queue
  <2>8. integration \in Integration
    BY DEF Init, Integration
  <2>9. handler \in [Handlers -> Request]
    BY IdleIsSound DEF Init
  <2> QED
    BY <2>1, <2>2, <2>3, <2>4, <2>5, <2>6, <2>7, <2>8, <2>9 DEF Types
<1>2. queue.status = "none"
  BY DEF Init, NoQueue
<1>3. RowsAreSound
  <2> SUFFICES ASSUME NEW t \in Tasks PROVE RowIsSound(t)
    BY DEF RowsAreSound
  <2>1. CASE Reviewed
    <3>1. row[t].generation = 1 /\ receipt[t][1] = 1 /\ review[t][1] = "accepted"
      BY <2>1, Numbers DEF Init
    <3> QED
      BY <3>1 DEF RowIsSound, WasReviewed, ReceiptOf
  <2>2. CASE ~Reviewed
    <3>1. row[t].status = "dispatched"
      BY <2>2 DEF Init
    <3> QED
      BY <3>1 DEF RowIsSound
  <2> QED
    BY <2>1, <2>2
<1>4. QueueIsSealed /\ HeadIsMerged
  BY <1>2 DEF QueueIsSealed, HeadIsMerged, Open
<1>5. RequestsAreSound
  <2>1. \A h \in Handlers : handler[h] = Idle
    BY DEF Init
  <2> QED
    BY <2>1, IdleIsSound DEF RequestsAreSound
<1>6. QED
  BY <1>1, <1>3, <1>4, <1>5 DEF BatchInv

LEMMA BatchNext ==
    ASSUME BatchConstants, BatchInv, [Next]_vars
    PROVE  BatchInv'
<1>1. CASE ForeignMerge \/ SourceAdvances \/ MoveRun \/ PrepareAgain \/ UNCHANGED vars
  BY <1>1, WorldKeeps
<1>2. ASSUME NEW t \in Tasks,
             \/ Edit(t) \/ Commit(t) \/ LeaseExpires(t) \/ RestoreTree(t)
             \/ \E kind \in {"ack", "progress", "question"} : SendMessage(t, kind)
             \/ \E retry \in BOOLEAN : RenewOwner(t, retry)
      PROVE  BatchInv'
  BY <1>2, TreesKeep, OwnersKeep
<1>3. ASSUME NEW h \in Handlers,
             \/ \E t \in Tasks :
                   \/ Submit(h, t)
                   \/ \E verdict \in {"accepted", "changes_requested"} : Review(h, t, verdict)
             \/ Die(h) \/ Superseded(h)
             \/ \E confirmed \in BOOLEAN : Merge(h, confirmed)
      PROVE  BatchInv'
  BY <1>3, AsksKeep
<1>4. ASSUME NEW h \in Handlers,
             \/ RecordReceipt(h) \/ RecordReview(h)
             \/ \E from \in {"prepared", "running"} : Resume(h, from)
             \/ CreateQueue(h) \/ Materialize(h) \/ MarkRunning(h) \/ CheckStep(h)
             \/ MergeStep(h) \/ ValidateStep(h) \/ RecordStep(h) \/ FailStep(h)
             \/ BlockQueue(h)
      PROVE  BatchInv'
  BY <1>4, ReceiptKeeps, VerdictKeeps, ResumeKeeps, CreateKeeps, StepsKeep, MarkKeeps,
     RecordKeeps, FailuresKeep
<1>5. ASSUME NEW h \in Handlers,
             \/ Cancel(h) \/ CleanTree(h) \/ AbortWorkspace(h) \/ CleanIntegration(h)
             \/ AbortQueue(h) \/ EndCancel(h)
      PROVE  BatchInv'
  BY <1>5, CancelsKeep, AbortKeeps, AbortQueueKeeps
<1>6. QED
  BY <1>1, <1>2, <1>3, <1>4, <1>5 DEF Next

LEMMA TypesAreOK ==
    ASSUME BatchConstants, Types
    PROVE  TypeOK
<1>1. /\ queue.number \in 0 .. MaxQueues
      /\ queue.status \in {"none", "prepared", "running", "completed", "blocked", "aborted"}
      /\ queue.next \in 0 .. Count /\ queue.head \in Seq(Merges)
  BY QueueFields
<1>2. integration.present \in BOOLEAN /\ integration.head \in Seq(Merges)
  BY DEF Types, Integration
<1>3. ASSUME NEW h \in Handlers
      PROVE  \/ handler[h] \in Requests
             \/ /\ handler[h].pc \in MergePcs
                /\ handler[h].status \in {"prepared", "running"}
                /\ handler[h].next \in 0 .. Count - 1
                /\ handler[h].head \in Seq(Merges)
             \/ handler[h].pc \in CancelPcs /\ handler[h].todo \subseteq Tasks
  <2>1. handler[h] \in Requests \/ handler[h] \in Merger \/ handler[h] \in Canceller
    BY DEF Types, Request
  <2> QED
    BY <2>1 DEF Merger, Canceller
<1>4. row \in [Tasks -> [generation : Generations, live : BOOLEAN,
                         status : Active \cup Terminal \cup
                             {"dispatched", "ready_for_review", "changes_requested",
                              "accepted"}]]
  <2>1. row \in [Tasks -> Row]
    BY DEF Types
  <2> QED
    BY <2>1 DEF Row, Statuses
<1>5. /\ tree \in [Tasks -> [present : BOOLEAN, dirty : BOOLEAN, head : Heads]]
      /\ receipt \in [Tasks -> [Generations -> Heads]]
      /\ review \in [Tasks -> [Generations -> {"none", "accepted", "changes_requested"}]]
  BY DEF Types, Tree, Verdicts
<1>6. /\ running \in BOOLEAN
      /\ source \in 0 .. MaxDrift
      /\ plan \in {"active", "reviewing", "blocked", "merging", "completed", "aborted"}
  BY DEF Types
<1>7. QED
  BY <1>1, <1>2, <1>3, <1>4, <1>5, <1>6 DEF TypeOK

LEMMA MergedFollows ==
    ASSUME BatchConstants, BatchInv
    PROVE  MergedWasReviewed
<1> SUFFICES ASSUME queue.status \in {"running", "completed"}
             PROVE  /\ Len(queue.head) = queue.next
                    /\ \A t \in 1 .. queue.next :
                           /\ queue.head[t] = <<t, ReceiptOf(t)>>
                           /\ ReceiptOf(t) # 0
                           /\ review[t][row[t].generation] = "accepted"
  BY DEF MergedWasReviewed
<1>1. Len(queue.head) = queue.next /\ \A t \in 1 .. queue.next : queue.head[t] = <<t, ReceiptOf(t)>>
  BY DEF BatchInv, HeadIsMerged
<1>2. \A t \in Tasks : WasReviewed(t)
  BY DEF BatchInv, QueueIsSealed, Open
<1>3. \A t \in 1 .. queue.next : t \in Tasks
  BY QueueFields, Numbers DEF BatchInv, Tasks
<1>4. QED
  BY <1>1, <1>2, <1>3 DEF WasReviewed

\* The rows, the worktrees and what requests remember are always well formed.
THEOREM BatchTypeCorrect == ASSUME BatchConstants PROVE Spec => []TypeOK
<1>1. Init => BatchInv
  BY BatchInit
<1>2. BatchInv /\ [Next]_vars => BatchInv'
  BY BatchNext
<1>3. BatchInv => TypeOK
  BY TypesAreOK DEF BatchInv
<1>4. QED
  BY <1>1, <1>2, <1>3, PTL DEF Spec

\* Whatever happens in the worktrees and whoever else works for it, a queue has merged the
\* reviewed heads of its tasks, in order (runBatchMergeQueue, CompleteBatchDeliveryMergeStep).
THEOREM WhatIsMergedWasReviewed == ASSUME BatchConstants PROVE Spec => []MergedWasReviewed
<1>1. Init => BatchInv
  BY BatchInit
<1>2. BatchInv /\ [Next]_vars => BatchInv'
  BY BatchNext
<1>3. BatchInv => MergedWasReviewed
  BY MergedFollows
<1>4. QED
  BY <1>1, <1>2, <1>3, PTL DEF Spec

\* An open queue has its plan to itself: no delivery, review, second queue or cancellation
\* that succeeds gets in between (CreateBatchDeliveryMergeQueue, Cancel).
THEOREM QueueAlwaysOwnsPlan == ASSUME BatchConstants PROVE Spec => []QueueOwnsPlan
<1>1. Init => BatchInv
  BY BatchInit
<1>2. BatchInv /\ [Next]_vars => BatchInv'
  BY BatchNext
<1>3. BatchInv => QueueOwnsPlan
  BY DEF BatchInv, Types, QueueIsSealed, QueueOwnsPlan, Open
<1>4. QED
  BY <1>1, <1>2, <1>3, PTL DEF Spec
=============================================================================
