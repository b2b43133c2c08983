------------------------------ MODULE FileEdits ------------------------------
(***************************************************************************)
(* Edits of one file of a Workspace: proposed by a tool, reviewed by an    *)
(* operator, applied by a request, inside a checkpoint boundary.           *)
(*                                                                         *)
(* The file and the database do not change together, and neither do the    *)
(* rows of the database: the approval and the edit are saved one after the *)
(* other, and so are a boundary (a transaction row between a checkpoint    *)
(* before and one after) and the cursor, the checkpoint the Run is said to *)
(* be at.  A request that dies leaves its operation row, and perhaps an    *)
(* open boundary, to the request repeated under the same key, or to the    *)
(* reconciliation at the next start.                                       *)
(***************************************************************************)
EXTENDS FileEditPromises, Naturals

CONSTANTS
    Edits,      \* proposals, each with a text of its own
    Reviewers, Appliers,    \* requests served at a time
    UserTexts,  \* what the user saves in the file, never the text of an edit
    MaxFaults   \* bound: requests and starts that die on the way

FileEditsConstants ==
    /\ "base" \in UserTexts /\ UserTexts \intersect Edits = {} /\ MaxFaults \in Nat

VARIABLES
    run,
    file,       \* its text
    reviewer, applier,  \* what each request remembers
    faults

vars == <<run, file, edit, approval, operation, result, boundary, cursor,
          reviewer, applier, faults, written>>
database == <<edit, approval, operation, result, boundary, cursor>>

None == << >>
Checkpoint(e, phase) == <<e, phase>>
Checkpoints == {None} \union (Edits \X {"before", "after", "reconciled"})
Closed == {"completed", "failed", "interrupted"}
NoEdit == [status |-> "none", base |-> "base"]
NoBoundary == [status |-> "none", expected |-> None, after |-> None]
Idle == [pc |-> "idle"]
Text(e) == e

\* Rows and memories keep their types, and every open boundary is bound.
TypeOK ==
    /\ run \in {"running", "paused", "ended"}
    /\ file \in UserTexts \union {Text(e) : e \in Edits}
    /\ \A e \in Edits :
         /\ edit[e].status \in {"none", "proposed", "approved", "denied", "applied", "failed"}
         /\ approval[e] \in {"none", "pending", "approved", "denied"}
         /\ result[e] \in {"none", "applied", "failed"}
         /\ boundary[e].status \in {"none", "prepared"} \union Closed
         /\ {boundary[e].expected, boundary[e].after} \subseteq Checkpoints
    /\ faults \in 0 .. MaxFaults /\ operation \subseteq Edits /\ written \subseteq Edits
    /\ cursor \in Checkpoints
    /\ \A a \in Appliers :
         applier[a].pc \in {"idle", "look", "find", "open", "advance", "apply", "claim",
                            "recheck", "rename", "verify", "save", "record", "close", "move"}

Init ==
    /\ run = "running" /\ file = "base"
    /\ edit = [e \in Edits |-> NoEdit] /\ approval = [e \in Edits |-> "none"]
    /\ operation = {} /\ result = [e \in Edits |-> "none"]
    /\ boundary = [e \in Edits |-> NoBoundary] /\ cursor = None
    /\ reviewer = [r \in Reviewers |-> Idle] /\ applier = [a \in Appliers |-> Idle]
    /\ written = {} /\ faults = 0

---------------------------------------------------------------------------
(* Proposal and review *)

\* SaveFileEdit asks the approval for what the new status rests on, and the
\* old row for nothing.
Needs(status) == IF status = "denied" THEN "denied" ELSE "approved"
MaySave(e, status) == approval[e] = Needs(status)
SaveEdit(e, status) == edit' = [edit EXCEPT ![e].status = status]

\* The proposal and its pending approval are one transaction.
Propose(e) ==
    /\ edit[e].status = "none" /\ file # Text(e)
    /\ edit' = [edit EXCEPT ![e] = [status |-> "proposed", base |-> file]]
    /\ approval' = [approval EXCEPT ![e] = "pending"]
    /\ UNCHANGED <<run, file, operation, result, boundary, cursor, reviewer, applier, faults, written>>

\* Review starts from the edit and the approval it reads.
StartReview(r, e, verdict) ==
    /\ reviewer[r] = Idle /\ edit[e].status = "proposed"
    /\ \E pc \in {"decide", "read"} :
         /\ IF pc = "decide" THEN approval[e] = "pending" /\ run # "ended"
            ELSE approval[e] = verdict
         /\ reviewer' = [reviewer EXCEPT ![r] = [pc |-> pc, edit |-> e, verdict |-> verdict]]
    /\ UNCHANGED <<run, file, database, applier, faults, written>>

\* Faulty: a decision replaces an earlier one.
DecidedAgain(e, verdict) == approval[e] # "none"

\* The first decision stands, the same one again is a replay.
Decided(e, verdict) == approval[e] \in {"pending", verdict}

\* DecideApproval, a transaction of its own.
Decide(r) ==
    LET e == reviewer[r].edit  verdict == reviewer[r].verdict
    IN  /\ reviewer[r].pc = "decide" /\ Decided(e, verdict)
        /\ approval' = [approval EXCEPT ![e] = verdict]
        /\ reviewer' = [reviewer EXCEPT ![r].pc = "read"]
        /\ UNCHANGED <<run, file, edit, operation, result, boundary, cursor, applier, faults, written>>

\* ApproveIntent and Deny read the edit again; only a proposed one is saved.
ReadEdit(r) ==
    /\ reviewer[r].pc = "read"
    /\ reviewer' = [reviewer EXCEPT ![r] =
         IF edit[@.edit].status = "proposed" THEN [@ EXCEPT !.pc = "save"] ELSE Idle]
    /\ UNCHANGED <<run, file, database, applier, faults, written>>

SaveReview(r) ==
    LET e == reviewer[r].edit  verdict == reviewer[r].verdict
    IN  /\ reviewer[r].pc = "save"
        /\ IF MaySave(e, verdict) THEN SaveEdit(e, verdict) ELSE edit' = edit
        /\ reviewer' = [reviewer EXCEPT ![r] = Idle]
        /\ UNCHANGED <<run, file, approval, operation, result, boundary, cursor, applier, faults, written>>

ReviewEnds(r) ==
    /\ reviewer[r] # Idle
    /\ reviewer' = [reviewer EXCEPT ![r] = Idle]
    /\ UNCHANGED <<run, file, database, applier, faults, written>>

---------------------------------------------------------------------------
(* A request to apply an edit, up to its boundary *)

EditOf(a) == applier[a].edit
Goto(a, pc) == applier' = [applier EXCEPT ![a].pc = pc]
Return(a) == applier' = [applier EXCEPT ![a] = Idle]
\* What the request gives back decides how its boundary is closed.
Close(a, outcome) == applier' = [applier EXCEPT ![a].pc = "close", ![a].outcome = outcome]

Prepared(e) == e \in operation
MayPrepare(e) ==
    /\ run = "running" /\ approval[e] = "approved" /\ edit[e].status = "approved"
    /\ file \in {edit[e].base, Text(e)}

\* A key that is known is a repetition; one with a result changes nothing.
Request(a, e) ==
    /\ applier[a] = Idle /\ result[e] = "none"
    /\ Prepared(e) \/ MayPrepare(e)
    /\ operation' = operation \union {e}
    /\ applier' = [applier EXCEPT ![a] =
         [pc |-> "look", edit |-> e, seen |-> "none", previous |-> None, outcome |-> "none"]]
    /\ UNCHANGED <<run, file, edit, approval, result, boundary, cursor, reviewer, faults, written>>

\* The bindings of the operation, and the conditions of a write to come.
Look(a) ==
    LET e == EditOf(a)
    IN  /\ applier[a].pc = "look"
        /\ IF /\ approval[e] = "approved" /\ file \in {edit[e].base, Text(e)}
              /\ (edit[e].status = "approved" /\ file = edit[e].base) => run = "running"
           THEN applier' = [applier EXCEPT ![a].pc = "find", ![a].seen = edit[e].status]
           ELSE Return(a)
        /\ UNCHANGED <<run, file, database, reviewer, faults, written>>

Open(e) == boundary[e].status = "prepared"
NoneOpen == \A e \in Edits : ~ Open(e)
Cas(old, new) == cursor' = IF cursor = old THEN new ELSE cursor

\* BeginBoundary of an application that has one: an open one takes the cursor
\* again, a closed one only mends it.
Replay(a) ==
    LET e == EditOf(a)  before == Checkpoint(e, "before")
    IN  /\ applier[a].pc = "find" /\ boundary[e].status # "none"
        /\ \/ /\ Open(e) /\ cursor \in {before, boundary[e].expected}
              /\ cursor' = before /\ Goto(a, "apply")
           \/ /\ Open(e) /\ cursor \notin {before, boundary[e].expected}
              /\ cursor' = cursor /\ Return(a)
           \/ /\ ~ Open(e)
              /\ Cas(before, boundary[e].after) /\ Goto(a, "apply")
        /\ UNCHANGED <<run, file, edit, approval, operation, result, boundary, reviewer, faults, written>>

\* Faulty: the open boundaries are not asked for.
FindAnyhow(a) ==
    /\ applier[a].pc = "find" /\ boundary[EditOf(a)].status = "none"
    /\ applier' = [applier EXCEPT ![a].pc = "open", ![a].previous = cursor]
    /\ UNCHANGED <<run, file, database, reviewer, faults, written>>

\* Otherwise no boundary of the Run may be open.  The cursor is read, and
\* the checkpoint before captured, ahead of the transaction that opens one.
Find(a) ==
    /\ applier[a].pc = "find" /\ boundary[EditOf(a)].status = "none"
    /\ IF NoneOpen
       THEN applier' = [applier EXCEPT ![a].pc = "open", ![a].previous = cursor]
       ELSE Return(a)
    /\ UNCHANGED <<run, file, database, reviewer, faults, written>>

\* The row is unique for its key, and for nothing else.
OpenBoundary(a) ==
    LET e == EditOf(a)
        new == [status |-> "prepared", expected |-> applier[a].previous, after |-> None]
    IN  /\ applier[a].pc = "open"
        /\ \/ boundary[e].status = "none" /\ boundary' = [boundary EXCEPT ![e] = new]
                                          /\ Goto(a, "advance")
           \/ boundary[e].status # "none" /\ boundary' = boundary
                /\ IF boundary[e].expected = new.expected THEN Goto(a, "advance") ELSE Return(a)
        /\ UNCHANGED <<run, file, edit, approval, operation, result, cursor, reviewer, faults, written>>

\* A lost race for the cursor closes the boundary, unless it is closed.
Advance(a) ==
    LET e == EditOf(a)  before == Checkpoint(e, "before")
    IN  /\ applier[a].pc = "advance"
        /\ IF cursor \in {applier[a].previous, before}
           THEN cursor' = before /\ boundary' = boundary /\ Goto(a, "apply")
           ELSE /\ cursor' = cursor /\ Return(a)
                /\ boundary' = IF ~ Open(e) THEN boundary ELSE
                     [boundary EXCEPT ![e].status = "failed", ![e].after = before]
        /\ UNCHANGED <<run, file, edit, approval, operation, result, reviewer, faults, written>>

---------------------------------------------------------------------------
(* The write: Manager.Approve, one step for each read or write of the file *)
(* or of the edit *)

Outcome(a, outcome) == applier' = [applier EXCEPT ![a].pc = "save", ![a].outcome = outcome]

\* What an earlier request finished is only recorded.
Approve(a) ==
    LET e == EditOf(a)
    IN  /\ applier[a].pc = "apply"
        /\ \/ /\ applier[a].seen \in {"applied", "failed"}
              /\ applier' = [applier EXCEPT ![a].pc = "record", ![a].outcome = applier[a].seen]
           \/ /\ applier[a].seen = "approved" /\ edit[e].status # "approved"
              /\ applier' = [applier EXCEPT ![a].pc = "record", ![a].outcome =
                               IF edit[e].status = "applied" THEN "applied" ELSE "failed"]
           \/ /\ applier[a].seen = "approved" /\ edit[e].status = "approved"
              /\ \/ file = Text(e) /\ Outcome(a, "applied")
                 \/ file = edit[e].base /\ Goto(a, "claim")
                 \/ file \notin {Text(e), edit[e].base} /\ Outcome(a, "failed")
        /\ UNCHANGED <<run, file, database, reviewer, faults, written>>

\* The edit is saved as approved once more before the file is touched.
Claim(a) ==
    LET e == EditOf(a)
    IN  /\ applier[a].pc = "claim"
        /\ IF MaySave(e, "approved") THEN SaveEdit(e, "approved") /\ Goto(a, "recheck")
           ELSE edit' = edit /\ applier' = [applier EXCEPT ![a].pc = "record", ![a].outcome = "failed"]
        /\ UNCHANGED <<run, file, approval, operation, result, boundary, cursor, reviewer, faults, written>>

\* The last look at the file before it is replaced.
Recheck(a) ==
    /\ applier[a].pc = "recheck"
    /\ IF file = edit[EditOf(a)].base THEN Goto(a, "rename") ELSE Outcome(a, "failed")
    /\ UNCHANGED <<run, file, database, reviewer, faults, written>>

\* The staged text replaces the file, or the file system refuses.
Rename(a) ==
    LET e == EditOf(a)
    IN  /\ applier[a].pc = "rename"
        /\ \/ file' = Text(e) /\ written' = written \union {e} /\ Goto(a, "verify")
           \/ UNCHANGED <<file, written>> /\ Outcome(a, "failed")
        /\ UNCHANGED <<run, database, reviewer, faults>>

Verify(a) ==
    /\ applier[a].pc = "verify"
    /\ Outcome(a, IF file = Text(EditOf(a)) THEN "applied" ELSE "failed")
    /\ UNCHANGED <<run, file, database, reviewer, faults, written>>

SaveOutcome(a) ==
    LET e == EditOf(a)
    IN  /\ applier[a].pc = "save"
        /\ IF MaySave(e, applier[a].outcome) THEN SaveEdit(e, applier[a].outcome)
           ELSE edit' = edit
        /\ Goto(a, "record")
        /\ UNCHANGED <<run, file, approval, operation, result, boundary, cursor, reviewer, faults, written>>

\* CompleteFileEditApply, after a last look at the file: the result must be
\* what the edit says, and what an earlier result said.
Record(a) ==
    LET e == EditOf(a)  outcome == applier[a].outcome
        agrees == /\ outcome = "applied" => file = Text(e)
                  /\ result[e] = outcome \/ (result[e] = "none" /\ edit[e].status = outcome)
    IN  /\ applier[a].pc = "record"
        /\ result' = [result EXCEPT ![e] = IF agrees THEN outcome ELSE @]
        /\ Close(a, IF agrees THEN outcome ELSE "failed")
        /\ UNCHANGED <<run, file, edit, approval, operation, boundary, cursor, reviewer, faults, written>>

\* A caller that hangs up fails every call but those that close the boundary.
Cancel(a) ==
    /\ applier[a].pc \in {"apply", "claim", "recheck", "rename", "verify", "save", "record"}
    /\ Close(a, "failed")
    /\ UNCHANGED <<run, file, database, reviewer, faults, written>>

\* CompleteBoundary: the row, and in a transaction of its own the cursor.
CloseBoundary(a) ==
    LET e == EditOf(a)  after == Checkpoint(e, "after")
    IN  /\ applier[a].pc = "close"
        /\ \/ /\ Open(e) /\ Goto(a, "move") /\ cursor' = cursor
              /\ boundary' = [boundary EXCEPT ![e].after = after, ![e].status =
                                IF applier[a].outcome = "applied" THEN "completed" ELSE "failed"]
           \/ /\ ~ Open(e) /\ Return(a) /\ boundary' = boundary
              /\ Cas(Checkpoint(e, "before"), boundary[e].after)
        /\ UNCHANGED <<run, file, edit, approval, operation, result, reviewer, faults, written>>

MoveCursor(a) ==
    LET e == EditOf(a)
    IN  /\ applier[a].pc = "move"
        /\ Cas(Checkpoint(e, "before"), Checkpoint(e, "after")) /\ Return(a)
        /\ UNCHANGED <<run, file, edit, approval, operation, result, boundary, reviewer, faults, written>>

Fault == faults < MaxFaults /\ faults' = faults + 1

\* The process dies, or the database refuses the steps that are left.
Crash(a) ==
    /\ applier[a] # Idle /\ Return(a) /\ Fault
    /\ UNCHANGED <<run, file, database, reviewer, written>>

---------------------------------------------------------------------------
(* Reconcile, at the start of a process and so with no request under way;  *)
(* each step reads everything again, as the next start would if it died    *)

Quiet == \A a \in Appliers : applier[a] = Idle

TakeCursor(e) ==
    /\ Quiet /\ Open(e) /\ cursor = boundary[e].expected
    /\ cursor' = Checkpoint(e, "before")
    /\ UNCHANGED <<run, file, edit, approval, operation, result, boundary, reviewer, applier, faults, written>>

\* The row is closed and the cursor moved after it, unless the start dies first.
Interrupt(e) ==
    /\ Quiet /\ Open(e) /\ cursor = Checkpoint(e, "before")
    /\ \/ cursor' = Checkpoint(e, "reconciled") /\ faults' = faults
       \/ cursor' = cursor /\ Fault
    /\ boundary' = [boundary EXCEPT ![e].status = "interrupted",
                                    ![e].after = Checkpoint(e, "reconciled")]
    /\ UNCHANGED <<run, file, edit, approval, operation, result, reviewer, applier, written>>

\* Once none is open, the cursor a closed boundary left behind is mended.
MendCursor(e) ==
    /\ Quiet /\ NoneOpen /\ boundary[e].status \in Closed /\ cursor = Checkpoint(e, "before")
    /\ cursor' = boundary[e].after
    /\ UNCHANGED <<run, file, edit, approval, operation, result, boundary, reviewer, applier, faults, written>>

UserSaves(t) ==
    /\ file # t /\ file' = t
    /\ UNCHANGED <<run, database, reviewer, applier, faults, written>>

\* Pause, resume and the end of the Run.
RunChanges(status) ==
    /\ run # "ended" /\ run # status /\ run' = status
    /\ UNCHANGED <<file, database, reviewer, applier, faults, written>>

Next ==
    \/ \E e \in Edits : Propose(e) \/ TakeCursor(e) \/ Interrupt(e) \/ MendCursor(e)
    \/ \E r \in Reviewers : \/ \E e \in Edits, v \in {"approved", "denied"} : StartReview(r, e, v)
                            \/ Decide(r) \/ ReadEdit(r) \/ SaveReview(r) \/ ReviewEnds(r)
    \/ \E a \in Appliers :
         \/ \E e \in Edits : Request(a, e)
         \/ Look(a) \/ Replay(a) \/ Find(a) \/ OpenBoundary(a) \/ Advance(a)
         \/ Approve(a) \/ Claim(a) \/ Recheck(a) \/ Rename(a) \/ Verify(a) \/ SaveOutcome(a)
         \/ Record(a) \/ Cancel(a) \/ CloseBoundary(a) \/ MoveCursor(a) \/ Crash(a)
    \/ \E t \in UserTexts : UserSaves(t)
    \/ \E status \in {"running", "paused", "ended"} : RunChanges(status)

Spec == Init /\ [][Next]_vars

---------------------------------------------------------------------------
\* docs/adr/0118-transactional-workspace-checkpoints.md: "One Run cannot have
\* two open Workspace transactions."  The list of open rows is read in one
\* transaction and the row inserted in another.
OneOpenBoundary == \A e, f \in Edits : Open(e) /\ Open(f) => e = f
=============================================================================
