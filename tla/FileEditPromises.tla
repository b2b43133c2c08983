------------------------- MODULE FileEditPromises -------------------------
(***************************************************************************)
(* The tables of file edits, and what is promised of them.                 *)
(***************************************************************************)

VARIABLES
    edit,       \* status of each edit, and the text it was proposed against
    approval,   \* what was decided on it
    operation,  \* edits with a prepared application
    result,     \* outcome recorded for it
    boundary,   \* checkpoint transaction of each application
    cursor,     \* checkpoint the Run is at
    written     \* edits whose text was put in the file (history)

\* A review binds, however two reviewers and a slow one interleave: the edit
\* never says something else than the approval, a denied edit is never put in
\* the file, and an application is never reported as applied whose text was
\* not put there.
\* (The approval, the edit, the file and the result are four steps.)
ReviewsBind ==
    \A e \in DOMAIN edit :
        /\ edit[e].status \in {"approved", "applied", "failed"} => approval[e] = "approved"
        /\ edit[e].status = "denied" => approval[e] = "denied"
        /\ e \in written => approval[e] = "approved" /\ e \in operation
        /\ result[e] = "applied" => e \in written

\* With one request at a time and one crash, or one edit, an open boundary can be closed:
\* it is the only one, and the cursor is where it put it or expects it.
\* (Otherwise neither the request repeated nor any later start gets past it.)
BoundariesReconcile ==
    \A e \in DOMAIN edit : boundary[e].status = "prepared" =>
        /\ \A f \in DOMAIN edit \ {e} : boundary[f].status # "prepared"
        /\ cursor \in {<<e, "before">>, boundary[e].expected}
=============================================================================
