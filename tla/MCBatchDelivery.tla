--------------------------- MODULE MCBatchDelivery ---------------------------
(***************************************************************************)
(* Instances of BatchDelivery for TLC, one of which is chosen in the       *)
(* initial state.  The properties are those of BatchDeliveryPromises.      *)
(***************************************************************************)
EXTENDS BatchDeliveryPromises, TLC

CONSTANTS w1, w2    \* model values: requests in flight

VARIABLES part, running, source, tree, integration, handler

vars == <<part, running, source, plan, row, tree, receipt, review, queue, integration,
          handler>>

\* One child from its dispatch to its merge: two requests, and a commit more than the
\* one that is delivered.
Delivery == INSTANCE BatchDelivery WITH
    Count <- 1, Deps <- {}, Handlers <- {w1, w2}, Reviewed <- FALSE, MaxGeneration <- 1,
    MaxCommits <- 2, MaxQueues <- 1, MaxDrift <- 0

\* The same with a second owner, a source that moves on and a second queue.
Owners == INSTANCE BatchDelivery WITH
    Count <- 1, Deps <- {}, Handlers <- {w1}, Reviewed <- FALSE, MaxGeneration <- 2,
    MaxCommits <- 2, MaxQueues <- 2, MaxDrift <- 1

\* Two accepted deliveries, merged in two steps by two requests.
Merges == INSTANCE BatchDelivery WITH
    Count <- 2, Deps <- {<<2, 1>>}, Handlers <- {w1, w2}, Reviewed <- TRUE,
    MaxGeneration <- 1, MaxCommits <- 1, MaxQueues <- 1, MaxDrift <- 0

\* Two requests and two queues, one of which may have been given up.
Queues == INSTANCE BatchDelivery WITH
    Count <- 1, Deps <- {}, Handlers <- {w1, w2}, Reviewed <- TRUE, MaxGeneration <- 1,
    MaxCommits <- 1, MaxQueues <- 2, MaxDrift <- 1

ASSUME BatchConstants ==
    /\ Delivery!BatchConstants
    /\ Owners!BatchConstants
    /\ Merges!BatchConstants
    /\ Queues!BatchConstants

Init ==
    \/ part = "delivery" /\ Delivery!Init
    \/ part = "owners" /\ Owners!Init
    \/ part = "merges" /\ Merges!Init
    \/ part = "queues" /\ Queues!Init

Next ==
    /\ UNCHANGED part
    /\ \/ part = "delivery" /\ Delivery!Next
       \/ part = "owners" /\ Owners!Next
       \/ part = "merges" /\ Merges!Next
       \/ part = "queues" /\ Queues!Next

Spec == Init /\ [][Next]_vars

\* Requests are interchangeable.
RequestSymmetry == Permutations({w1, w2})
=============================================================================
