---------------------------- MODULE BatchDelivery ----------------------------
(***************************************************************************)
(* One batch delivery plan: child tasks work in worktrees of their own,    *)
(* submit a committed head, have it reviewed, and are merged in order into *)
(* an integration worktree by a durable queue.                             *)
(*                                                                         *)
(* The database and the worktrees are not written together.  A handler     *)
(* inspects Git, runs validations for minutes, and records what it saw in  *)
(* a transaction of its own; the owner, a user in a shell, or another      *)
(* handler of the same operation may act in between, and any handler may   *)
(* die.  What a worktree contains is the number of its commits; what the   *)
(* integration worktree contains is the sequence of heads merged there.    *)
(***************************************************************************)
EXTENDS BatchDeliveryPromises, FiniteSets

CONSTANTS
    Count,           \* number of tasks, merged in the order of their ordinals
    Deps,            \* pairs <<task, the task it depends on>>
    Handlers,        \* requests in flight
    Reviewed,        \* whether the plan starts with every delivery accepted
    MaxGeneration,   \* domain.MaxBatchDeliveryGenerations
    MaxCommits,      \* bound: commits of a child
    MaxQueues,       \* bound: merge queues ever created
    MaxDrift         \* bound: advances of the source branch

BatchConstants ==
    /\ {Count, MaxGeneration, MaxCommits, MaxQueues} \subseteq Nat \ {0}
    /\ MaxDrift \in Nat
    /\ Reviewed \in BOOLEAN
    /\ \A d \in Deps : d[1] \in 1 .. Count /\ d[2] \in 1 .. d[1] - 1

VARIABLES
    running,       \* whether the Run is running
    source,        \* head of the source branch, counted from the plan's base
    tree,          \* the child worktrees
    integration,   \* the integration worktree and branch of that queue
    handler        \* what each request has read and does next

vars == <<running, source, plan, row, tree, receipt, review, queue, integration, handler>>

Tasks == 1 .. Count
Generations == 1 .. MaxGeneration
Heads == 0 .. MaxCommits

\* A merge into the integration branch; the one of task 0 was made by hand.
Merges == (0 .. Count) \X Heads
Foreign == <<0, 0>>

Terminal == {"merged", "cancelled", "orphaned"}
Active == {"acknowledged", "working", "question"}

Idle == [pc |-> "idle"]

NoQueue == [number |-> 0, status |-> "none", base |-> 0, next |-> 0, head |-> <<>>,
            code |-> "none"]

Requests ==
    [pc : {"idle"}]
    \cup [pc : {"submitting"}, task : Tasks, generation : Generations, head : Heads \ {0}]
    \cup [pc : {"reviewing"}, task : Tasks, generation : Generations,
          verdict : {"accepted", "changes_requested"}]
    \cup [pc : {"creating"}, base : 0 .. MaxDrift]

MergePcs == {"materializing", "marking", "checking", "merging", "validating", "recording",
             "failing", "blocking"}

CancelPcs == {"cleaning", "fencing", "aborting", "ending"}

TypeOK ==
    /\ running \in BOOLEAN
    /\ source \in 0 .. MaxDrift
    /\ plan \in {"active", "reviewing", "blocked", "merging", "completed", "aborted"}
    /\ row \in [Tasks -> [generation : Generations, live : BOOLEAN,
                          status : Active \cup Terminal \cup
                              {"dispatched", "ready_for_review", "changes_requested",
                               "accepted"}]]
    /\ tree \in [Tasks -> [present : BOOLEAN, dirty : BOOLEAN, head : Heads]]
    /\ receipt \in [Tasks -> [Generations -> Heads]]
    /\ review \in [Tasks -> [Generations -> {"none", "accepted", "changes_requested"}]]
    /\ queue.number \in 0 .. MaxQueues
    /\ queue.status \in {"none", "prepared", "running", "completed", "blocked", "aborted"}
    /\ queue.next \in 0 .. Count
    /\ queue.head \in Seq(Merges)
    /\ integration.present \in BOOLEAN /\ integration.head \in Seq(Merges)
    /\ \A h \in Handlers :
           \/ handler[h] \in Requests
           \/ /\ handler[h].pc \in MergePcs
              /\ handler[h].status \in {"prepared", "running"}
              /\ handler[h].next \in 0 .. Count - 1
              /\ handler[h].head \in Seq(Merges)
           \/ handler[h].pc \in CancelPcs /\ handler[h].todo \subseteq Tasks

Init ==
    /\ running = TRUE
    /\ source = 0
    /\ plan = IF Reviewed THEN "reviewing" ELSE "active"
    /\ row = [t \in Tasks |-> [generation |-> 1, live |-> TRUE,
                  status |-> IF Reviewed THEN "accepted" ELSE "dispatched"]]
    /\ tree = [t \in Tasks |-> [present |-> TRUE, dirty |-> FALSE,
                                head |-> IF Reviewed THEN 1 ELSE 0]]
    /\ receipt = [t \in Tasks |-> [g \in Generations |->
                                       IF Reviewed /\ g = 1 THEN 1 ELSE 0]]
    /\ review = [t \in Tasks |-> [g \in Generations |->
                                      IF Reviewed /\ g = 1 THEN "accepted" ELSE "none"]]
    /\ queue = NoQueue
    /\ integration = [present |-> FALSE, head |-> <<>>]
    /\ handler = [h \in Handlers |-> Idle]

Go(h, pc) == handler' = [handler EXCEPT ![h].pc = pc]
Stop(h) == handler' = [handler EXCEPT ![h] = Idle]

\* Review's second inspection and every check of the merge queue.
ChildUnchanged(t) ==
    tree[t].present /\ ~tree[t].dirty /\ tree[t].head = ReceiptOf(t)

Accepted(t) ==
    row[t].status = "accepted" /\ review[t][row[t].generation] = "accepted"

DependenciesMet(t) ==
    \A d \in Deps : d[1] = t => row[d[2]].status \in {"accepted", "merged"}

-----------------------------------------------------------------------------
(* The world around the handlers *)

\* A worktree is a directory: its owner, an owner that was replaced, or a user
\* may edit and commit in it whatever the database says.
Edit(t) ==
    /\ tree[t].present /\ ~tree[t].dirty
    /\ tree' = [tree EXCEPT ![t].dirty = TRUE]
    /\ UNCHANGED <<running, source, plan, row, receipt, review, queue, integration, handler>>

Commit(t) ==
    /\ tree[t].present /\ tree[t].dirty /\ tree[t].head < MaxCommits
    /\ tree' = [tree EXCEPT ![t].dirty = FALSE, ![t].head = @ + 1]
    /\ UNCHANGED <<running, source, plan, row, receipt, review, queue, integration, handler>>

ForeignMerge ==
    /\ integration.present
    /\ \A i \in DOMAIN integration.head : integration.head[i] # Foreign
    /\ integration' = [integration EXCEPT !.head = Append(@, Foreign)]
    /\ UNCHANGED <<running, source, plan, row, tree, receipt, review, queue, handler>>

SourceAdvances ==
    /\ source < MaxDrift
    /\ source' = source + 1
    /\ UNCHANGED <<running, plan, row, tree, receipt, review, queue, integration, handler>>

MoveRun ==
    /\ running' = ~running
    /\ UNCHANGED <<source, plan, row, tree, receipt, review, queue, integration, handler>>

LeaseExpires(t) ==
    /\ row[t].live
    /\ row[t].status \in Active \cup {"dispatched", "changes_requested"}
    /\ row' = [row EXCEPT ![t].live = FALSE]
    /\ UNCHANGED <<running, source, plan, tree, receipt, review, queue, integration, handler>>

\* The process of a handler ends, or its context is cancelled.
Die(h) ==
    /\ handler[h] # Idle
    /\ Stop(h)
    /\ UNCHANGED <<running, source, plan, row, tree, receipt, review, queue, integration>>

-----------------------------------------------------------------------------
(* Delivery and review *)

Transition(t, kind) ==
    CASE kind = "ack" -> [from |-> {"dispatched"}, to |-> "acknowledged"]
      [] kind = "progress" -> [from |-> Active \cup {"changes_requested"}, to |-> "working"]
      [] kind = "question" -> [from |-> {"acknowledged", "working"}, to |-> "question"]

SendMessage(t, kind) ==
    /\ running /\ row[t].live
    /\ kind = "progress" => DependenciesMet(t)
    /\ row[t].status \in Transition(t, kind).from
    /\ row' = [row EXCEPT ![t].status = Transition(t, kind).to]
    /\ UNCHANGED <<running, source, plan, tree, receipt, review, queue, integration, handler>>

\* The same key returns the receipt that exists; another one is refused.
Submit(h, t) ==
    /\ handler[h] = Idle
    /\ running /\ row[t].live
    /\ DependenciesMet(t)
    /\ ReceiptOf(t) = 0
    /\ tree[t].present /\ ~tree[t].dirty /\ tree[t].head > 0
    /\ handler' = [handler EXCEPT ![h] =
           [pc |-> "submitting", task |-> t, generation |-> row[t].generation,
            head |-> tree[t].head]]
    /\ UNCHANGED <<running, source, plan, row, tree, receipt, review, queue, integration>>

AcceptsDeliveries == running /\ plan \notin {"completed", "aborted", "merging"}

RecordReceipt(h) ==
    /\ handler[h].pc = "submitting"
    /\ LET s == handler[h]
           t == s.task IN
       /\ AcceptsDeliveries
       /\ row[t].generation = s.generation /\ row[t].live /\ row[t].status \in Active
       /\ receipt[t][s.generation] = 0
       /\ receipt' = [receipt EXCEPT ![t][s.generation] = s.head]
       /\ row' = [row EXCEPT ![t].status = "ready_for_review"]
    /\ plan' = IF plan \in {"active", "blocked"} THEN "reviewing" ELSE plan
    /\ Stop(h)
    /\ UNCHANGED <<running, source, tree, review, queue, integration>>

Review(h, t, verdict) ==
    /\ handler[h] = Idle
    /\ running
    /\ row[t].status = "ready_for_review"
    /\ ChildUnchanged(t)
    /\ handler' = [handler EXCEPT ![h] =
           [pc |-> "reviewing", task |-> t, generation |-> row[t].generation,
            verdict |-> verdict]]
    /\ UNCHANGED <<running, source, plan, row, tree, receipt, review, queue, integration>>

RecordReview(h) ==
    /\ handler[h].pc = "reviewing"
    /\ LET r == handler[h]
           t == r.task IN
       /\ AcceptsDeliveries
       /\ row[t].status = "ready_for_review" /\ row[t].generation = r.generation
       /\ review[t][r.generation] = "none"
       /\ review' = [review EXCEPT ![t][r.generation] = r.verdict]
       /\ row' = [row EXCEPT ![t].status = r.verdict]
    /\ Stop(h)
    /\ UNCHANGED <<running, source, plan, tree, receipt, queue, integration>>

\* A review asked for changes, or the owner's token was lost.
RenewOwner(t, retry) ==
    /\ running /\ plan \notin {"completed", "aborted"}
    /\ row[t].generation < MaxGeneration
    /\ row[t].status \in IF retry THEN {"changes_requested"} ELSE Active \cup {"dispatched"}
    /\ row' = [row EXCEPT ![t] =
           [generation |-> @.generation + 1, live |-> TRUE,
            status |-> IF retry THEN "working" ELSE "dispatched"]]
    /\ UNCHANGED <<running, source, plan, tree, receipt, review, queue, integration, handler>>

\* A replay of Prepare finds nothing to materialize and opens a blocked plan again.
PrepareAgain ==
    /\ running /\ plan = "blocked"
    /\ plan' = "active"
    /\ UNCHANGED <<running, source, row, tree, receipt, review, queue, integration, handler>>

-----------------------------------------------------------------------------
(* The merge queue *)

\* A drift of the source needs a confirmation, without which the plan is blocked.
Merge(h, confirmed) ==
    /\ handler[h] = Idle
    /\ running /\ plan \in {"reviewing", "blocked"}
    /\ \A t \in Tasks : Accepted(t)
    /\ \/ /\ source = 0 \/ confirmed
          /\ handler' = [handler EXCEPT ![h] = [pc |-> "creating", base |-> source]]
          /\ UNCHANGED plan
       \/ /\ source # 0 /\ ~confirmed
          /\ plan' = "blocked"
          /\ UNCHANGED handler
    /\ UNCHANGED <<running, source, row, tree, receipt, review, queue, integration>>

\* What a handler knows of the queue it works for.  A failure of Git blocks a
\* queue in the status "from"; Reconcile always says that it is running.
Work(pc, q, from) ==
    [pc |-> pc, queue |-> q.number, status |-> q.status, from |-> from, base |-> q.base,
     next |-> q.next, head |-> q.head, post |-> <<>>, code |-> "other"]

NewQueue(h) ==
    [NoQueue EXCEPT !.number = queue.number + 1, !.status = "prepared",
                    !.base = handler[h].base]

\* Faulty: the transaction trusts what the handler read before it.
CreateUnchecked(h) ==
    /\ handler[h].pc = "creating" /\ queue.number < MaxQueues
    /\ queue' = NewQueue(h)
    /\ integration' = [present |-> FALSE, head |-> <<>>]
    /\ plan' = "merging"
    /\ handler' = [handler EXCEPT ![h] = Work("materializing", NewQueue(h), "prepared")]
    /\ UNCHANGED <<running, source, row, tree, receipt, review>>

CreateQueue(h) ==
    /\ handler[h].pc = "creating" /\ queue.number < MaxQueues
    /\ plan \in {"reviewing", "blocked"}
    /\ \A t \in Tasks : row[t].status = "accepted"
    /\ queue' = NewQueue(h)
    /\ integration' = [present |-> FALSE, head |-> <<>>]
    /\ plan' = "merging"
    /\ handler' = [handler EXCEPT ![h] = Work("materializing", NewQueue(h), "prepared")]
    /\ UNCHANGED <<running, source, row, tree, receipt, review>>

\* Merge with the key of the queue, or Reconcile after a restart.
Resume(h, from) ==
    /\ handler[h] = Idle
    /\ running /\ plan \notin {"completed", "aborted"}
    /\ queue.status \in {"prepared", "running"}
    /\ from \in {queue.status, "running"}
    /\ \A t \in Tasks : Accepted(t)
    /\ handler' = [handler EXCEPT ![h] =
           Work(IF source = queue.base THEN "materializing" ELSE "blocking", queue, from)]
    /\ UNCHANGED <<running, source, plan, row, tree, receipt, review, queue, integration>>

\* A handler whose queue was ended and followed by another one cannot change
\* anything any more.
AtWork(h, pc) == handler[h].pc = pc /\ handler[h].queue = queue.number

Superseded(h) ==
    /\ handler[h].pc \in MergePcs /\ handler[h].queue # queue.number
    /\ Stop(h)
    /\ UNCHANGED <<running, source, plan, row, tree, receipt, review, queue, integration>>

\* The head of the integration branch must be exactly the recorded one.
Materialize(h) ==
    /\ AtWork(h, "materializing")
    /\ \/ /\ integration.head = handler[h].head
          /\ integration' = [integration EXCEPT !.present = TRUE]
          /\ Go(h, IF handler[h].status = "prepared" THEN "marking" ELSE "checking")
       \/ /\ integration.head # handler[h].head
          /\ handler' = [handler EXCEPT ![h].pc = "blocking", ![h].code = "recovery"]
          /\ UNCHANGED integration
    /\ UNCHANGED <<running, source, plan, row, tree, receipt, review, queue>>

MarkRunning(h) ==
    /\ AtWork(h, "marking")
    /\ \/ /\ queue.status = "prepared"
          /\ queue' = [queue EXCEPT !.status = "running"]
          /\ handler' = [handler EXCEPT ![h].pc = "checking", ![h].status = "running",
                                        ![h].from = "running"]
       \/ /\ queue.status # "prepared"
          /\ Stop(h)
          /\ UNCHANGED queue
    /\ UNCHANGED <<running, source, plan, row, tree, receipt, review, integration>>

\* Faulty: any descendant of the recorded head passes for the merge.
VerifyDescends(post, pre, t) ==
    Len(post) > Len(pre) /\ SubSeq(post, 1, Len(pre)) = pre

\* Parents, tree and metadata of the merge of a task's reviewed head.
VerifyBatchMergeCommit(post, pre, t) == post = Append(pre, <<t, ReceiptOf(t)>>)

\* The next task is merged, or was merged by a handler that did not record it.
CheckStep(h) ==
    /\ AtWork(h, "checking")
    /\ LET m == handler[h]
           t == m.next + 1
           bound == /\ running /\ ChildUnchanged(t) /\ source = m.base
                    /\ integration.present
           merged == VerifyBatchMergeCommit(integration.head, m.head, t)
       IN \/ /\ bound /\ integration.head = m.head
             /\ Go(h, "merging")
          \/ /\ bound /\ integration.head # m.head /\ merged
             /\ handler' = [handler EXCEPT ![h].pc = "validating",
                                           ![h].post = integration.head]
          \/ /\ ~bound \/ (integration.head # m.head /\ ~merged)
             /\ Go(h, "blocking")
    /\ UNCHANGED <<running, source, plan, row, tree, receipt, review, queue, integration>>

\* Git may find a conflict, and leaves nothing of the merge then.
MergeStep(h) ==
    /\ AtWork(h, "merging")
    /\ LET m == handler[h]
           post == Append(m.head, <<m.next + 1, ReceiptOf(m.next + 1)>>)
       IN \/ /\ integration.present /\ integration.head = m.head
             /\ integration' = [integration EXCEPT !.head = post]
             /\ handler' = [handler EXCEPT ![h].pc = "validating", ![h].post = post]
          \/ Go(h, "failing") /\ UNCHANGED integration
    /\ UNCHANGED <<running, source, plan, row, tree, receipt, review, queue>>

\* The validations may fail, or the source move while the checks go on: then the
\* merge is rolled back.
ValidateStep(h) ==
    /\ AtWork(h, "validating")
    /\ LET m == handler[h]
           same == /\ running /\ source = m.base /\ \A t \in Tasks : ChildUnchanged(t)
                   /\ integration.present /\ integration.head = m.post
                   /\ VerifyBatchMergeCommit(m.post, m.head, m.next + 1)
       IN \/ /\ same
             /\ Go(h, "recording")
             /\ UNCHANGED integration
          \/ /\ same
             /\ integration' = [integration EXCEPT !.head = m.head]
             /\ Go(h, "failing")
          \/ /\ ~same
             /\ Go(h, "blocking")
             /\ UNCHANGED integration
    /\ UNCHANGED <<running, source, plan, row, tree, receipt, review, queue>>

\* The step, and with the last one the queue, the plan and the deliveries.
RecordStep(h) ==
    /\ AtWork(h, "recording")
    /\ LET m == handler[h]
           last == m.next + 1 = Count
       IN \/ /\ running /\ queue.status = "running" /\ queue.next = m.next
             /\ queue' = [queue EXCEPT !.next = m.next + 1, !.head = m.post,
                                       !.status = IF last THEN "completed" ELSE "running"]
             /\ plan' = IF last /\ plan = "merging" THEN "completed" ELSE plan
             /\ row' = [t \in Tasks |->
                    IF last /\ row[t].status = "accepted"
                    THEN [row[t] EXCEPT !.status = "merged"] ELSE row[t]]
             /\ handler' = [handler EXCEPT ![h] =
                    IF last THEN Idle
                    ELSE [m EXCEPT !.pc = "checking", !.next = @ + 1, !.head = m.post,
                                   !.post = <<>>]]
          \/ /\ ~(running /\ queue.status = "running" /\ queue.next = m.next)
             /\ Stop(h)
             /\ UNCHANGED <<plan, row, queue>>
          \/ ~running /\ Go(h, "blocking") /\ UNCHANGED <<plan, row, queue>>
    /\ UNCHANGED <<running, source, tree, receipt, review, integration>>

\* A step that failed is recorded and ends the queue; so does a refused check.
Blocks(h) ==
    /\ queue' = [queue EXCEPT !.status = "blocked", !.head = handler[h].head,
                              !.code = handler[h].code]
    /\ plan' = IF plan = "merging" THEN "blocked" ELSE plan

FailStep(h) ==
    /\ AtWork(h, "failing")
    /\ \/ queue.status = "running" /\ queue.next = handler[h].next /\ Blocks(h)
       \/ /\ queue.status # "running" \/ queue.next # handler[h].next
          /\ UNCHANGED <<plan, queue>>
    /\ Stop(h)
    /\ UNCHANGED <<running, source, row, tree, receipt, review, integration>>

BlockQueue(h) ==
    /\ AtWork(h, "blocking")
    /\ \/ queue.status = handler[h].from /\ Blocks(h)
       \/ queue.status # handler[h].from /\ UNCHANGED <<plan, queue>>
    /\ Stop(h)
    /\ UNCHANGED <<running, source, row, tree, receipt, review, integration>>

-----------------------------------------------------------------------------
(* Cancellation and recovery *)

\* A user, or Reconcile when the lease of a child has expired.
Cancel(h) ==
    /\ handler[h] = Idle
    /\ plan \notin {"completed", "aborted"}
    /\ handler' = [handler EXCEPT ![h] =
           [pc |-> "cleaning", final |-> "none", failed |-> FALSE, queue |-> 0, from |-> "none",
            todo |-> {t \in Tasks : row[t].status \notin Terminal},
            generation |-> [t \in Tasks |-> row[t].generation]]]
    /\ UNCHANGED <<running, source, plan, row, tree, receipt, review, queue, integration>>

\* The children are cleaned up in the order of their ordinals.
First(todo) == CHOOSE t \in todo : \A u \in todo : t <= u

\* A clean worktree is removed, its branch is kept when it has commits; a dirty
\* one is left to the user.
CleanTree(h) ==
    /\ handler[h].pc = "cleaning" /\ handler[h].todo # {}
    /\ LET t == First(handler[h].todo)
           keep == tree[t].present /\ tree[t].dirty IN
       /\ tree' = IF keep THEN tree ELSE [tree EXCEPT ![t].present = FALSE]
       /\ handler' = [handler EXCEPT ![h].pc = "fencing",
                          ![h].final = IF keep THEN "orphaned" ELSE "cancelled"]
    /\ UNCHANGED <<running, source, plan, row, receipt, review, queue, integration>>

AbortWorkspace(h) ==
    /\ handler[h].pc = "fencing"
    /\ LET c == handler[h]
           t == First(c.todo)
           current == row[t].generation = c.generation[t] /\ row[t].status \notin Terminal IN
       /\ row' = IF current THEN [row EXCEPT ![t].status = c.final, ![t].live = FALSE] ELSE row
       /\ handler' = [handler EXCEPT ![h].pc = "cleaning", ![h].todo = @ \ {t},
                                     ![h].failed = @ \/ ~current]
    /\ UNCHANGED <<running, source, plan, tree, receipt, review, queue, integration>>

\* The integration worktree may be in use, and is preserved then.
CleanIntegration(h) ==
    /\ handler[h].pc = "cleaning" /\ handler[h].todo = {}
    /\ \/ /\ queue.status \in {"prepared", "running", "blocked"}
          /\ handler' = [handler EXCEPT ![h].pc = "aborting", ![h].queue = queue.number,
                                        ![h].from = queue.status]
          /\ \/ integration' = [integration EXCEPT !.present = FALSE]
             \/ UNCHANGED integration
       \/ /\ queue.status \notin {"prepared", "running", "blocked"}
          /\ Go(h, "ending")
          /\ UNCHANGED integration
    /\ UNCHANGED <<running, source, plan, row, tree, receipt, review, queue>>

AbortQueue(h) ==
    /\ handler[h].pc = "aborting"
    /\ LET c == handler[h]
           ours == c.queue = queue.number
       IN \/ /\ ours /\ queue.status = c.from
             /\ queue' = [queue EXCEPT !.status = "aborted"]
             /\ Go(h, "ending")
          \/ /\ ~(ours /\ queue.status = c.from)
             /\ handler' = [handler EXCEPT ![h].pc = "ending",
                                ![h].failed = @ \/ ~ours \/ queue.status # "aborted"]
             /\ UNCHANGED queue
    /\ UNCHANGED <<running, source, plan, row, tree, receipt, review, integration>>

\* The status is read again and replaced, whatever it is, unless a part failed.
EndCancel(h) ==
    /\ handler[h].pc = "ending"
    /\ plan' = IF handler[h].failed THEN plan ELSE "aborted"
    /\ Stop(h)
    /\ UNCHANGED <<running, source, row, tree, receipt, review, queue, integration>>

\* Reconcile restores the worktree of a child from its branch.
RestoreTree(t) ==
    /\ running /\ plan \notin {"completed", "aborted"}
    /\ row[t].status \notin Terminal
    /\ ~tree[t].present /\ tree[t].head > 0
    /\ tree' = [tree EXCEPT ![t].present = TRUE]
    /\ UNCHANGED <<running, source, plan, row, receipt, review, queue, integration, handler>>

-----------------------------------------------------------------------------
Next ==
    \/ ForeignMerge \/ SourceAdvances \/ MoveRun \/ PrepareAgain
    \/ \E t \in Tasks :
           \/ Edit(t) \/ Commit(t) \/ LeaseExpires(t) \/ RestoreTree(t)
           \/ \E kind \in {"ack", "progress", "question"} : SendMessage(t, kind)
           \/ \E retry \in BOOLEAN : RenewOwner(t, retry)
           \/ \E h \in Handlers :
                  \/ Submit(h, t)
                  \/ \E verdict \in {"accepted", "changes_requested"} : Review(h, t, verdict)
    \/ \E h \in Handlers :
           \/ RecordReceipt(h) \/ RecordReview(h) \/ Die(h) \/ Superseded(h)
           \/ \E confirmed \in BOOLEAN : Merge(h, confirmed)
           \/ \E from \in {"prepared", "running"} : Resume(h, from)
           \/ CreateQueue(h) \/ Materialize(h) \/ MarkRunning(h) \/ CheckStep(h)
           \/ MergeStep(h) \/ ValidateStep(h) \/ RecordStep(h) \/ FailStep(h)
           \/ BlockQueue(h)
           \/ Cancel(h) \/ CleanTree(h) \/ AbortWorkspace(h) \/ CleanIntegration(h)
           \/ AbortQueue(h) \/ EndCancel(h)

Spec == Init /\ [][Next]_vars

-----------------------------------------------------------------------------
(* Properties *)

\* docs/adr/0119: crash recovery accepts the exact two-parent merge.  A queue is
\* not given up because the merge of its next task had been made, but not
\* recorded.
InterruptedMergeRecovers ==
    queue.code = "recovery" =>
        ~(queue.next < Count
          /\ VerifyBatchMergeCommit(integration.head, queue.head, queue.next + 1))
=============================================================================
