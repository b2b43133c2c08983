---------------------- MODULE BatchDeliveryPromises -----------------------
(***************************************************************************)
(* The tables of batch delivery, and what is promised of them.             *)
(***************************************************************************)
EXTENDS Naturals, Sequences

VARIABLES
    plan,          \* batch_delivery_plans.status
    row,           \* batch_delivery_workspaces: generation, status, live lease
    receipt,       \* head submitted in each generation, 0 when none was
    review,        \* verdict on each receipt
    queue          \* the latest row of batch_delivery_merge_queues

ReceiptOf(t) == receipt[t][row[t].generation]

\* What a queue has merged is, in order, the head that each child submitted in
\* its current generation and that was accepted in review: whatever was committed
\* in a worktree since then, whoever else worked for the queue, and whatever was
\* committed in the integration worktree by hand.
MergedWasReviewed ==
    queue.status \in {"running", "completed"} =>
        /\ Len(queue.head) = queue.next
        /\ \A t \in 1 .. queue.next :
               /\ queue.head[t] = <<t, ReceiptOf(t)>>
               /\ ReceiptOf(t) # 0
               /\ review[t][row[t].generation] = "accepted"

\* While a queue is open the plan is merging, so that no delivery, review or
\* second queue can get in between, and no child works: each is accepted, or was
\* cancelled meanwhile.  A cancelled plan has no open queue.
QueueOwnsPlan ==
    queue.status \in {"prepared", "running"} =>
        /\ plan = "merging"
        /\ \A t \in DOMAIN row : row[t].status \in {"accepted", "cancelled", "orphaned"}
=============================================================================
