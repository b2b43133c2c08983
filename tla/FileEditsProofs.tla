--------------------------- MODULE FileEditsProofs ---------------------------
(***************************************************************************)
(* Theorems about FileEdits, for any number of edits, reviews and          *)
(* requests at a time, and whatever the user writes: reviews bind.  The    *)
(* approval, the edit, the file and the recorded result change in steps of *)
(* their own, so the argument is about what a request may still remember   *)
(* when another one has moved on.  And for one request at a time and one   *)
(* death: the boundary that is left open can be closed.                    *)
(***************************************************************************)
EXTENDS FileEdits, TLAPS

(***************************************************************************)
(* Rows.                                                                   *)
(***************************************************************************)

Texts == UserTexts \union {Text(e) : e \in Edits}
EditStatuses == {"none", "proposed", "approved", "denied", "applied", "failed"}
EditRow == [status : EditStatuses, base : Texts]
Approvals == {"none", "pending", "approved", "denied"}
Results == {"none", "applied", "failed"}
BoundaryStatuses == {"none", "prepared", "completed", "failed", "interrupted"}
BoundaryRow == [status : BoundaryStatuses, expected : Checkpoints, after : Checkpoints]
ReviewerRow == [pc : {"decide", "read", "save"}, edit : Edits, verdict : {"approved", "denied"}]
Places == {"look", "find", "open", "advance", "apply", "claim", "recheck", "rename", "verify",
           "save", "record", "close", "move"}
ApplierRow == [pc : Places, edit : Edits, seen : EditStatuses, previous : Checkpoints,
               outcome : Results]

\* What TypeOK says, and of every field of a row or of a memory.
Types ==
    /\ run \in {"running", "paused", "ended"} /\ faults \in 0 .. MaxFaults
    /\ file \in Texts /\ written \in SUBSET Edits /\ operation \in SUBSET Edits
    /\ edit \in [Edits -> EditRow] /\ approval \in [Edits -> Approvals]
    /\ result \in [Edits -> Results]
    /\ boundary \in [Edits -> BoundaryRow] /\ cursor \in Checkpoints
    /\ reviewer \in [Reviewers -> ReviewerRow \union {Idle}]
    /\ applier \in [Appliers -> ApplierRow \union {Idle}]

\* A text of an edit is in the file only after the edit was written.
FileIsKnown == file \in UserTexts \/ file \in written

\* There is nothing to decide on before the proposal.
NothingToDecide == \A e \in Edits : edit[e].status = "none" => approval[e] = "none"

\* A request has prepared its edit; past its first look it is an approved one.
Sound(q) ==
    q.pc # "idle" =>
        /\ q.edit \in operation
        /\ q.pc # "look" => approval[q.edit] = "approved"
        /\ q.pc \in {"save", "record"} => q.outcome \in {"applied", "failed"}

AppliersAreSound == \A a \in Appliers : Sound(applier[a])

\* ReviewsBind, for what Types says the tables are.
EditsAreBound ==
    \A e \in Edits :
        /\ edit[e].status \in {"approved", "applied", "failed"} => approval[e] = "approved"
        /\ edit[e].status = "denied" => approval[e] = "denied"
        /\ e \in written => approval[e] = "approved" /\ Prepared(e)
        /\ result[e] = "applied" => e \in written

\* Inductive: what ReviewsBind rests on.
FilesInv == Types /\ FileIsKnown /\ NothingToDecide /\ AppliersAreSound /\ EditsAreBound

LEMMA TypesImplyTypeOK == Types => TypeOK
<1> SUFFICES ASSUME Types PROVE TypeOK
  OBVIOUS
<1>1. \A e \in Edits :
          /\ edit[e].status \in EditStatuses /\ approval[e] \in Approvals
          /\ result[e] \in Results /\ boundary[e].status \in BoundaryStatuses
          /\ boundary[e].expected \in Checkpoints /\ boundary[e].after \in Checkpoints
  BY DEF Types, EditRow, BoundaryRow
<1>2. \A a \in Appliers : applier[a].pc \in Places \union {"idle"}
  BY DEF Types, ApplierRow, Idle
<1>3. BoundaryStatuses = {"none", "prepared"} \union Closed
  BY DEF BoundaryStatuses, Closed
<1>4. QED
  BY <1>1, <1>2, <1>3 DEF TypeOK, Types, Texts, EditStatuses, Approvals, Results, Places

(***************************************************************************)
(* Steps.                                                                  *)
(***************************************************************************)

\* Operations stay and an approval that was given is not taken back.
ApprovalsStand ==
    /\ operation \subseteq operation'
    /\ \A e \in Edits : approval[e] = "approved" => approval'[e] = "approved"

LEMMA SoundStays ==
    ASSUME ApprovalsStand, NEW q \in ApplierRow \union {Idle}, Sound(q)
    PROVE  Sound(q)'
<1>1. q.pc # "idle" => q.edit \in Edits
  BY DEF ApplierRow, Idle
<1>2. QED
  BY <1>1 DEF ApprovalsStand, Sound

\* One request moves on and the others remember what they did.
LEMMA ApplierStep ==
    ASSUME FilesInv, ApprovalsStand, NEW a \in Appliers, NEW q \in ApplierRow \union {Idle},
           Sound(q)', applier' = [applier EXCEPT ![a] = q]
    PROVE  applier' \in [Appliers -> ApplierRow \union {Idle}] /\ AppliersAreSound'
<1>1. applier \in [Appliers -> ApplierRow \union {Idle}]
  BY DEF FilesInv, Types
<1>2. ASSUME NEW b \in Appliers PROVE Sound(applier[b])'
  <2>1. CASE b = a
    <3>1. applier'[b] = q
      BY <1>1, <2>1
    <3> QED
      BY <3>1 DEF Sound
  <2>2. CASE b # a
    <3>1. PICK p \in ApplierRow \union {Idle} : p = applier[b]
      BY <1>1
    <3>2. Sound(p)'
      BY <3>1, SoundStays DEF FilesInv, AppliersAreSound
    <3>3. applier'[b] = p
      BY <1>1, <2>2, <3>1
    <3> QED
      BY <3>2, <3>3 DEF Sound
  <2> QED
    BY <2>1, <2>2
<1>3. applier' \in [Appliers -> ApplierRow \union {Idle}]
  BY <1>1
<1>4. QED
  BY <1>2, <1>3 DEF AppliersAreSound

LEMMA AppliersStay ==
    ASSUME FilesInv, ApprovalsStand, UNCHANGED applier
    PROVE  applier' \in [Appliers -> ApplierRow \union {Idle}] /\ AppliersAreSound'
<1>1. applier \in [Appliers -> ApplierRow \union {Idle}]
  BY DEF FilesInv, Types
<1>2. ASSUME NEW b \in Appliers PROVE Sound(applier[b])'
  <2>1. PICK p \in ApplierRow \union {Idle} : p = applier[b]
    BY <1>1
  <2>2. Sound(p)'
    BY <2>1, SoundStays DEF FilesInv, AppliersAreSound
  <2> QED
    BY <2>1, <2>2 DEF Sound
<1>3. QED
  BY <1>1, <1>2 DEF AppliersAreSound

\* Where a request may go from where it is.
LEMMA Goes ==
    ASSUME NEW q \in ApplierRow, Sound(q), q.pc # "look"
    PROVE  /\ Idle \in ApplierRow \union {Idle} /\ Sound(Idle)
           /\ \A p \in Places \ {"save", "record"} :
                  /\ [q EXCEPT !.pc = p] \in ApplierRow /\ Sound([q EXCEPT !.pc = p])
           /\ \A p \in Places, o \in {"applied", "failed"} :
                  /\ [q EXCEPT !.pc = p, !.outcome = o] \in ApplierRow
                  /\ Sound([q EXCEPT !.pc = p, !.outcome = o])
           /\ \A c \in Checkpoints :
                  /\ [q EXCEPT !.pc = "open", !.previous = c] \in ApplierRow
                  /\ Sound([q EXCEPT !.pc = "open", !.previous = c])
<1>1. q.pc \in Places /\ q.edit \in operation /\ approval[q.edit] = "approved"
  BY DEF ApplierRow, Places, Sound
<1>2. Sound(Idle)
  BY DEF Sound, Idle
<1>3. ASSUME NEW p \in Places \ {"save", "record"}
      PROVE  [q EXCEPT !.pc = p] \in ApplierRow /\ Sound([q EXCEPT !.pc = p])
  <2> DEFINE n == [q EXCEPT !.pc = p]
  <2>1. n \in ApplierRow /\ n.pc = p /\ n.edit = q.edit
    BY DEF ApplierRow
  <2> QED
    BY <1>1, <2>1 DEF Sound
<1>4. ASSUME NEW p \in Places, NEW o \in {"applied", "failed"}
      PROVE  /\ [q EXCEPT !.pc = p, !.outcome = o] \in ApplierRow
             /\ Sound([q EXCEPT !.pc = p, !.outcome = o])
  <2> DEFINE n == [q EXCEPT !.pc = p, !.outcome = o]
  <2>1. n \in ApplierRow /\ n.pc = p /\ n.edit = q.edit /\ n.outcome = o
    BY DEF ApplierRow, Results
  <2> QED
    BY <1>1, <2>1 DEF Sound
<1>5. ASSUME NEW c \in Checkpoints
      PROVE  /\ [q EXCEPT !.pc = "open", !.previous = c] \in ApplierRow
             /\ Sound([q EXCEPT !.pc = "open", !.previous = c])
  <2> DEFINE n == [q EXCEPT !.pc = "open", !.previous = c]
  <2>1. n \in ApplierRow /\ n.pc = "open" /\ n.edit = q.edit
    BY DEF ApplierRow, Places
  <2> QED
    BY <1>1, <2>1 DEF Sound
<1>6. QED
  BY <1>2, <1>3, <1>4, <1>5

\* Checkpoints are checkpoints.
LEMMA CheckpointType ==
    ASSUME NEW e \in Edits
    PROVE  {Checkpoint(e, "before"), Checkpoint(e, "after"), Checkpoint(e, "reconciled"), None}
               \subseteq Checkpoints
  BY DEF Checkpoint, Checkpoints

\* A step that leaves alone what reviews bind.
LEMMA BoundStays ==
    ASSUME FilesInv, UNCHANGED <<edit, approval, operation, result, written, file>>
    PROVE  /\ ApprovalsStand /\ FileIsKnown' /\ NothingToDecide' /\ EditsAreBound'
  BY DEF FilesInv, ApprovalsStand, FileIsKnown, NothingToDecide, EditsAreBound, Prepared

\* The start of a process, the user and the Run.
LEMMA EnvironmentStep ==
    ASSUME FileEditsConstants, FilesInv,
           \/ \E e \in Edits : TakeCursor(e) \/ Interrupt(e) \/ MendCursor(e)
           \/ \E t \in UserTexts : UserSaves(t)
           \/ \E status \in {"running", "paused", "ended"} : RunChanges(status)
    PROVE  FilesInv'
<1>0. Types
  BY DEF FilesInv
<1>1. ASSUME NEW e \in Edits, TakeCursor(e) \/ Interrupt(e) \/ MendCursor(e) PROVE FilesInv'
  <2>1. UNCHANGED <<run, file, edit, approval, operation, result, reviewer, applier, written>>
    BY <1>1 DEF TakeCursor, Interrupt, MendCursor
  <2>2. faults' \in 0 .. MaxFaults
    BY <1>0, <1>1 DEF Types, TakeCursor, Interrupt, MendCursor, Fault, FileEditsConstants
  <2>3. boundary' \in [Edits -> BoundaryRow]
    <3>1. CASE UNCHANGED boundary
      BY <1>0, <3>1 DEF Types
    <3>2. CASE boundary' = [boundary EXCEPT ![e].status = "interrupted",
                                            ![e].after = Checkpoint(e, "reconciled")]
      BY <1>0, <3>2, CheckpointType DEF Types, BoundaryRow, BoundaryStatuses
    <3> QED
      BY <1>1, <3>1, <3>2 DEF TakeCursor, Interrupt, MendCursor
  <2>4. cursor' \in Checkpoints
    BY <1>0, <1>1, CheckpointType DEF Types, TakeCursor, Interrupt, MendCursor, BoundaryRow
  <2>5. ApprovalsStand /\ FileIsKnown' /\ NothingToDecide' /\ EditsAreBound'
    BY <2>1, BoundStays
  <2>6. applier' \in [Appliers -> ApplierRow \union {Idle}] /\ AppliersAreSound'
    BY <2>1, <2>5, AppliersStay
  <2>7. Types'
    BY <1>0, <2>1, <2>2, <2>3, <2>4, <2>6 DEF Types
  <2> QED
    BY <2>5, <2>6, <2>7 DEF FilesInv
<1>2. ASSUME NEW t \in UserTexts, UserSaves(t) PROVE FilesInv'
  <2>1. UNCHANGED <<run, edit, approval, operation, result, boundary, cursor, reviewer, applier,
                    faults, written>> /\ file' = t
    BY <1>2 DEF UserSaves, database
  <2>2. ApprovalsStand /\ FileIsKnown' /\ NothingToDecide' /\ EditsAreBound'
    BY <2>1 DEF FilesInv, ApprovalsStand, FileIsKnown, NothingToDecide, EditsAreBound, Prepared
  <2>3. applier' \in [Appliers -> ApplierRow \union {Idle}] /\ AppliersAreSound'
    BY <2>1, <2>2, AppliersStay
  <2>4. Types'
    BY <1>0, <2>1, <2>3 DEF Types, Texts
  <2> QED
    BY <2>2, <2>3, <2>4 DEF FilesInv
<1>3. ASSUME NEW status \in {"running", "paused", "ended"}, RunChanges(status) PROVE FilesInv'
  <2>1. UNCHANGED <<file, edit, approval, operation, result, boundary, cursor, reviewer, applier,
                    faults, written>> /\ run' = status
    BY <1>3 DEF RunChanges, database
  <2>2. ApprovalsStand /\ FileIsKnown' /\ NothingToDecide' /\ EditsAreBound'
    BY <2>1, BoundStays
  <2>3. applier' \in [Appliers -> ApplierRow \union {Idle}] /\ AppliersAreSound'
    BY <2>1, <2>2, AppliersStay
  <2>4. Types'
    BY <1>0, <2>1, <2>3 DEF Types
  <2> QED
    BY <2>2, <2>3, <2>4 DEF FilesInv
<1>4. QED
  BY <1>1, <1>2, <1>3

\* An edit is proposed while there is nothing of it yet.
LEMMA ProposeStep ==
    ASSUME FileEditsConstants, FilesInv, NEW e \in Edits, Propose(e)
    PROVE  FilesInv'
<1>0. /\ Types /\ edit[e].status = "none" /\ approval[e] = "none"
      /\ UNCHANGED <<run, file, operation, result, boundary, cursor, reviewer, applier, faults,
                     written>>
      /\ edit' = [edit EXCEPT ![e] = [status |-> "proposed", base |-> file]]
      /\ approval' = [approval EXCEPT ![e] = "pending"]
  BY DEF FilesInv, Propose, NothingToDecide
<1>1. /\ edit'[e].status = "proposed" /\ \A f \in Edits : f # e => edit'[f] = edit[f]
      /\ approval'[e] = "pending" /\ \A f \in Edits : f # e => approval'[f] = approval[f]
      /\ edit' \in [Edits -> EditRow] /\ approval' \in [Edits -> Approvals]
  BY <1>0 DEF Types, EditRow, EditStatuses, Approvals
<1>2. ApprovalsStand
  BY <1>0, <1>1 DEF ApprovalsStand
<1>3. FileIsKnown' /\ NothingToDecide' /\ EditsAreBound'
  BY <1>0, <1>1 DEF FilesInv, FileIsKnown, NothingToDecide, EditsAreBound, Prepared
<1>4. applier' \in [Appliers -> ApplierRow \union {Idle}] /\ AppliersAreSound'
  BY <1>0, <1>2, AppliersStay
<1>5. Types'
  BY <1>0, <1>1, <1>4 DEF Types
<1>6. QED
  BY <1>3, <1>4, <1>5 DEF FilesInv

\* A review: of all that can come between its steps, nothing takes the first decision back.
LEMMA ReviewStep ==
    ASSUME FileEditsConstants, FilesInv, NEW r \in Reviewers,
           \/ \E e \in Edits, v \in {"approved", "denied"} : StartReview(r, e, v)
           \/ Decide(r) \/ ReadEdit(r) \/ SaveReview(r) \/ ReviewEnds(r)
    PROVE  FilesInv'
<1>0. /\ Types /\ reviewer[r] \in ReviewerRow \union {Idle}
      /\ UNCHANGED <<run, file, operation, result, boundary, cursor, applier, faults, written>>
  BY DEF FilesInv, Types, StartReview, Decide, ReadEdit, SaveReview, ReviewEnds, database
<1>1. reviewer' \in [Reviewers -> ReviewerRow \union {Idle}]
  <2>1. ASSUME NEW e \in Edits, NEW v \in {"approved", "denied"}, StartReview(r, e, v)
        PROVE  reviewer' \in [Reviewers -> ReviewerRow \union {Idle}]
    BY <1>0, <2>1 DEF StartReview, Types, ReviewerRow
  <2>2. CASE Decide(r)
    <3>1. reviewer[r] \in ReviewerRow
      BY <1>0, <2>2 DEF Decide, Idle
    <3>2. [reviewer[r] EXCEPT !.pc = "read"] \in ReviewerRow
      BY <3>1 DEF ReviewerRow
    <3> QED
      BY <1>0, <2>2, <3>2 DEF Decide, Types
  <2>3. CASE ReadEdit(r)
    <3>1. reviewer[r] \in ReviewerRow
      BY <1>0, <2>3 DEF ReadEdit, Idle
    <3>2. [reviewer[r] EXCEPT !.pc = "save"] \in ReviewerRow
      BY <3>1 DEF ReviewerRow
    <3> QED
      BY <1>0, <2>3, <3>2 DEF ReadEdit, Types
  <2>4. CASE SaveReview(r) \/ ReviewEnds(r)
    BY <1>0, <2>4 DEF SaveReview, ReviewEnds, Types
  <2> QED
    BY <2>1, <2>2, <2>3, <2>4
<1> DEFINE Bound == /\ ApprovalsStand /\ FileIsKnown' /\ NothingToDecide' /\ EditsAreBound'
                    /\ edit' \in [Edits -> EditRow] /\ approval' \in [Edits -> Approvals]
<1>2. Bound
  <2>1. CASE UNCHANGED <<edit, approval>>
    BY <1>0, <2>1, BoundStays DEF Types
  <2>2. CASE Decide(r)
    <3> DEFINE e == reviewer[r].edit
               v == reviewer[r].verdict
    <3>1. e \in Edits /\ v \in {"approved", "denied"}
      BY <1>0, <2>2 DEF Decide, Idle, ReviewerRow
    <3>2. /\ approval' = [approval EXCEPT ![e] = v] /\ UNCHANGED edit
          /\ approval[e] \in {"pending", v}
      BY <2>2 DEF Decide, Decided
    <3> HIDE DEF e, v
    <3>3. /\ approval'[e] = v /\ \A f \in Edits : f # e => approval'[f] = approval[f]
          /\ approval' \in [Edits -> Approvals]
      BY <1>0, <3>1, <3>2 DEF Types, Approvals
    <3>4. edit[e].status # "none"
      BY <3>1, <3>2 DEF FilesInv, NothingToDecide
    <3>5. ApprovalsStand
      BY <1>0, <3>2, <3>3 DEF ApprovalsStand
    <3>6. FileIsKnown' /\ NothingToDecide'
      BY <1>0, <3>2, <3>3, <3>4 DEF FilesInv, FileIsKnown, NothingToDecide
    <3>7. EditsAreBound'
      BY <1>0, <3>2, <3>3 DEF FilesInv, EditsAreBound, Prepared
    <3> QED
      BY <1>0, <3>2, <3>3, <3>5, <3>6, <3>7 DEF Types
  <2>3. CASE SaveReview(r)
    <3> DEFINE e == reviewer[r].edit
               v == reviewer[r].verdict
    <3>1. e \in Edits /\ v \in {"approved", "denied"}
      BY <1>0, <2>3 DEF SaveReview, Idle, ReviewerRow
    <3>2. UNCHANGED approval
      BY <2>3 DEF SaveReview
    <3> HIDE DEF e, v
    <3>3. CASE approval[e] = v /\ edit' = [edit EXCEPT ![e].status = v]
      <4>1. /\ edit'[e].status = v /\ \A f \in Edits : f # e => edit'[f] = edit[f]
            /\ edit' \in [Edits -> EditRow]
        BY <1>0, <3>1, <3>3 DEF Types, EditRow, EditStatuses
      <4>2. ApprovalsStand /\ FileIsKnown'
        BY <1>0, <3>2 DEF FilesInv, FileIsKnown, ApprovalsStand
      <4>3. NothingToDecide' /\ EditsAreBound'
        BY <1>0, <3>1, <3>2, <3>3, <4>1 DEF FilesInv, NothingToDecide, EditsAreBound, Prepared
      <4> QED
        BY <1>0, <3>2, <4>1, <4>2, <4>3 DEF Types
    <3>4. CASE UNCHANGED edit
      BY <2>1, <3>2, <3>4
    <3>5. \/ approval[e] = v /\ edit' = [edit EXCEPT ![e].status = v]
          \/ UNCHANGED edit
      BY <2>3, <3>1 DEF SaveReview, MaySave, Needs, SaveEdit, e, v
    <3> QED
      BY <3>3, <3>4, <3>5
  <2> QED
    BY <2>1, <2>2, <2>3 DEF StartReview, ReadEdit, ReviewEnds, database
<1>3. applier' \in [Appliers -> ApplierRow \union {Idle}] /\ AppliersAreSound'
  BY <1>0, <1>2, AppliersStay
<1>4. Types'
  BY <1>0, <1>1, <1>2, <1>3 DEF Types
<1>5. QED
  BY <1>2, <1>3, <1>4 DEF FilesInv

\* What a request remembers after its step.
Turns(a) ==
    \E q \in ApplierRow \union {Idle} : applier' = [applier EXCEPT ![a] = q] /\ Sound(q)

\* The steps of a request that change nothing a review binds.
PassingStep(a) ==
    \/ Look(a) \/ Replay(a) \/ Find(a) \/ OpenBoundary(a) \/ Advance(a) \/ Approve(a)
    \/ Recheck(a) \/ Verify(a) \/ Cancel(a) \/ CloseBoundary(a) \/ MoveCursor(a) \/ Crash(a)

LEMMA IdleTurns ==
    ASSUME NEW a \in Appliers, applier' = [applier EXCEPT ![a] = Idle] PROVE Turns(a)
<1>1. Sound(Idle)
  BY DEF Sound, Idle
<1>2. Idle \in ApplierRow \union {Idle}
  OBVIOUS
<1>3. QED
  BY <1>1, <1>2 DEF Turns

LEMMA GotoTurns ==
    ASSUME NEW a \in Appliers, applier[a] \in ApplierRow, Sound(applier[a]),
           applier[a].pc # "look", NEW p \in Places \ {"save", "record"}, Goto(a, p)
    PROVE  Turns(a)
<1>1. applier' = [applier EXCEPT ![a] = [applier[a] EXCEPT !.pc = p]]
  BY DEF Goto
<1>2. [applier[a] EXCEPT !.pc = p] \in ApplierRow /\ Sound([applier[a] EXCEPT !.pc = p])
  BY Goes
<1>3. QED
  BY <1>1, <1>2 DEF Turns

LEMMA OutcomeTurns ==
    ASSUME NEW a \in Appliers, applier[a] \in ApplierRow, Sound(applier[a]),
           applier[a].pc # "look", NEW p \in Places, NEW o \in {"applied", "failed"},
           applier' = [applier EXCEPT ![a].pc = p, ![a].outcome = o]
    PROVE  Turns(a)
<1>1. applier' = [applier EXCEPT ![a] = [applier[a] EXCEPT !.pc = p, !.outcome = o]]
  OBVIOUS
<1>2. /\ [applier[a] EXCEPT !.pc = p, !.outcome = o] \in ApplierRow
      /\ Sound([applier[a] EXCEPT !.pc = p, !.outcome = o])
  BY Goes
<1>3. QED
  BY <1>1, <1>2 DEF Turns

LEMMA PassingTurns ==
    ASSUME FilesInv, NEW a \in Appliers, PassingStep(a)
    PROVE  Turns(a)
<1> DEFINE q == applier[a]
<1>0. Types /\ Sound(q)
  BY DEF FilesInv, AppliersAreSound
<1>1. q.pc # "idle" => q \in ApplierRow
  BY <1>0 DEF Types, Idle
<1>2. CASE Look(a)
  <2>1. q \in ApplierRow /\ q.pc = "look" /\ q.edit \in operation /\ q.edit \in Edits
    BY <1>0, <1>1, <1>2 DEF Look, Sound, ApplierRow
  <2>2. CASE Return(a)
    BY <2>2, IdleTurns DEF Return
  <2>3. CASE ~Return(a)
    <3> DEFINE n == [q EXCEPT !.pc = "find", !.seen = edit[q.edit].status]
    <3>1. approval[q.edit] = "approved" /\ applier' = [applier EXCEPT ![a] = n]
      BY <1>2, <2>3 DEF Look, EditOf
    <3>2. edit[q.edit].status \in EditStatuses
      BY <1>0, <2>1 DEF Types, EditRow
    <3>3. n \in ApplierRow /\ n.pc = "find" /\ n.edit = q.edit
      BY <2>1, <3>2 DEF ApplierRow, Places
    <3>4. Sound(n)
      BY <2>1, <3>1, <3>3 DEF Sound
    <3> QED
      BY <3>1, <3>3, <3>4 DEF Turns
  <2> QED
    BY <2>2, <2>3
<1>3. ASSUME q.pc \in Places \ {"look"} PROVE q \in ApplierRow /\ q.pc # "look"
  BY <1>1, <1>3 DEF Places
<1>4. CASE Crash(a)
  BY <1>4, IdleTurns DEF Crash, Return
<1>5. CASE Replay(a)
  <2>1. q \in ApplierRow /\ q.pc # "look"
    BY <1>3, <1>5 DEF Replay, Places
  <2>2. Return(a) \/ Goto(a, "apply")
    BY <1>5 DEF Replay
  <2> QED
    BY <1>0, <2>1, <2>2, IdleTurns, GotoTurns DEF Return, Places
<1>6. CASE Find(a)
  <2>1. q \in ApplierRow /\ q.pc # "look"
    BY <1>3, <1>6 DEF Find, Places
  <2>2. CASE Return(a)
    BY <2>2, IdleTurns DEF Return
  <2>3. CASE ~Return(a)
    <3>1. applier' = [applier EXCEPT ![a] = [q EXCEPT !.pc = "open", !.previous = cursor]]
      BY <1>6, <2>3 DEF Find
    <3>2. /\ [q EXCEPT !.pc = "open", !.previous = cursor] \in ApplierRow
          /\ Sound([q EXCEPT !.pc = "open", !.previous = cursor])
      BY <1>0, <2>1, Goes DEF Types
    <3> QED
      BY <3>1, <3>2 DEF Turns
  <2> QED
    BY <2>2, <2>3
<1>7. CASE OpenBoundary(a) \/ Advance(a)
  <2>1. q \in ApplierRow /\ q.pc # "look"
    BY <1>3, <1>7 DEF OpenBoundary, Advance, Places
  <2>2. Return(a) \/ Goto(a, "advance") \/ Goto(a, "apply")
    BY <1>7 DEF OpenBoundary, Advance
  <2> QED
    BY <1>0, <2>1, <2>2, IdleTurns, GotoTurns DEF Return, Places
<1>8. CASE Approve(a)
  <2>1. q \in ApplierRow /\ q.pc # "look"
    BY <1>3, <1>8 DEF Approve, Places
  <2>2. \/ Goto(a, "claim")
        \/ \E p \in {"save", "record"}, o \in {"applied", "failed"} :
               applier' = [applier EXCEPT ![a].pc = p, ![a].outcome = o]
    <3>1. CASE q.seen \in {"applied", "failed"}
               /\ applier' = [applier EXCEPT ![a].pc = "record", ![a].outcome = q.seen]
      BY <3>1
    <3>2. CASE applier' = [applier EXCEPT ![a].pc = "record", ![a].outcome =
                             IF edit[EditOf(a)].status = "applied" THEN "applied" ELSE "failed"]
      <4>1. CASE edit[EditOf(a)].status = "applied"
        <5>1. applier' = [applier EXCEPT ![a].pc = "record", ![a].outcome = "applied"]
          BY <3>2, <4>1
        <5> QED
          BY <5>1
      <4>2. CASE edit[EditOf(a)].status # "applied"
        <5>1. applier' = [applier EXCEPT ![a].pc = "record", ![a].outcome = "failed"]
          BY <3>2, <4>2
        <5> QED
          BY <5>1
      <4> QED
        BY <4>1, <4>2
    <3>3. CASE Outcome(a, "applied")
      BY <3>3 DEF Outcome
    <3>4. CASE Outcome(a, "failed")
      BY <3>4 DEF Outcome
    <3> QED
      BY <1>8, <3>1, <3>2, <3>3, <3>4 DEF Approve
  <2>3. \A p \in {"save", "record"} : p \in Places
    BY DEF Places
  <2>4. "claim" \in Places \ {"save", "record"}
    BY DEF Places
  <2>5. CASE Goto(a, "claim")
    BY <1>0, <2>1, <2>4, <2>5, GotoTurns
  <2>6. ASSUME NEW p \in {"save", "record"}, NEW o \in {"applied", "failed"},
               applier' = [applier EXCEPT ![a].pc = p, ![a].outcome = o]
        PROVE  Turns(a)
    BY <1>0, <2>1, <2>3, <2>6, OutcomeTurns
  <2> QED
    BY <2>2, <2>5, <2>6
<1>9. CASE Recheck(a) \/ Verify(a)
  <2>1. q \in ApplierRow /\ q.pc # "look"
    BY <1>3, <1>9 DEF Recheck, Verify, Places
  <2>2. Goto(a, "rename") \/ Outcome(a, "failed") \/ Outcome(a, "applied")
    <3>1. CASE Recheck(a)
      BY <3>1 DEF Recheck
    <3>2. CASE Verify(a) /\ file = Text(EditOf(a))
      BY <3>2 DEF Verify
    <3>3. CASE Verify(a) /\ file # Text(EditOf(a))
      BY <3>3 DEF Verify
    <3> QED
      BY <1>9, <3>1, <3>2, <3>3
  <2>3. "rename" \in Places \ {"save", "record"} /\ "save" \in Places
    BY DEF Places
  <2>4. CASE Goto(a, "rename")
    BY <1>0, <2>1, <2>3, <2>4, GotoTurns
  <2>5. CASE Outcome(a, "failed")
    BY <1>0, <2>1, <2>3, <2>5, OutcomeTurns DEF Outcome
  <2>6. CASE Outcome(a, "applied")
    BY <1>0, <2>1, <2>3, <2>6, OutcomeTurns DEF Outcome
  <2> QED
    BY <2>2, <2>4, <2>5, <2>6
<1>10. CASE Cancel(a)
  <2>1. q \in ApplierRow /\ q.pc # "look"
    BY <1>3, <1>10 DEF Cancel, Places
  <2>2. applier' = [applier EXCEPT ![a].pc = "close", ![a].outcome = "failed"]
    BY <1>10 DEF Cancel, Close
  <2>3. "close" \in Places
    BY DEF Places
  <2> QED
    BY <1>0, <2>1, <2>2, <2>3, OutcomeTurns
<1>11. CASE CloseBoundary(a) \/ MoveCursor(a)
  <2>1. q \in ApplierRow /\ q.pc # "look"
    BY <1>3, <1>11 DEF CloseBoundary, MoveCursor, Places
  <2>2. Return(a) \/ Goto(a, "move")
    BY <1>11 DEF CloseBoundary, MoveCursor
  <2> QED
    BY <1>0, <2>1, <2>2, IdleTurns, GotoTurns DEF Return, Places
<1>12. QED
  BY <1>2, <1>4, <1>5, <1>6, <1>7, <1>8, <1>9, <1>10, <1>11 DEF PassingStep

LEMMA PassingTypes ==
    ASSUME FileEditsConstants, FilesInv, NEW a \in Appliers, PassingStep(a)
    PROVE  /\ UNCHANGED <<run, file, edit, approval, operation, result, reviewer, written>>
           /\ boundary' \in [Edits -> BoundaryRow] /\ cursor' \in Checkpoints
           /\ faults' \in 0 .. MaxFaults
<1> DEFINE q == applier[a]
           e == q.edit
<1>0. Types /\ boundary \in [Edits -> BoundaryRow] /\ cursor \in Checkpoints
      /\ faults \in 0 .. MaxFaults
  BY DEF FilesInv, Types
<1>1. UNCHANGED <<run, file, edit, approval, operation, result, reviewer, written>>
  BY DEF PassingStep, Look, Replay, Find, OpenBoundary, Advance, Approve, Recheck, Verify,
     Cancel, CloseBoundary, MoveCursor, Crash, database
<1>2. faults' \in 0 .. MaxFaults
  BY <1>0 DEF PassingStep, Look, Replay, Find, OpenBoundary, Advance, Approve, Recheck, Verify,
     Cancel, CloseBoundary, MoveCursor, Crash, database, Fault, FileEditsConstants
<1>3. q.pc # "idle" => e \in Edits /\ q.previous \in Checkpoints
  BY <1>0 DEF Types, Idle, ApplierRow
<1>4. boundary' \in [Edits -> BoundaryRow] /\ cursor' \in Checkpoints
  <2>1. CASE Look(a) \/ Find(a) \/ Approve(a) \/ Recheck(a) \/ Verify(a) \/ Cancel(a) \/ Crash(a)
    BY <1>0, <2>1 DEF Look, Find, Approve, Recheck, Verify, Cancel, Crash, database
  <2>2. CASE Replay(a)
    <3>1. e \in Edits /\ UNCHANGED boundary
      BY <1>3, <2>2 DEF Replay
    <3>2. Checkpoint(e, "before") \in Checkpoints /\ boundary[e].after \in Checkpoints
      BY <1>0, <3>1, CheckpointType DEF BoundaryRow
    <3> QED
      BY <1>0, <2>2, <3>1, <3>2 DEF Replay, EditOf, Cas
  <2>3. CASE OpenBoundary(a)
    <3>1. e \in Edits /\ q.previous \in Checkpoints /\ UNCHANGED cursor
      BY <1>3, <2>3 DEF OpenBoundary
    <3>2. [status |-> "prepared", expected |-> q.previous, after |-> None] \in BoundaryRow
      BY <3>1, CheckpointType DEF BoundaryRow, BoundaryStatuses
    <3> QED
      BY <1>0, <2>3, <3>1, <3>2 DEF OpenBoundary, EditOf
  <2>4. CASE Advance(a)
    <3>1. e \in Edits
      BY <1>3, <2>4 DEF Advance
    <3>2. Checkpoint(e, "before") \in Checkpoints
      BY <3>1, CheckpointType
    <3>3. [boundary[e] EXCEPT !.status = "failed", !.after = Checkpoint(e, "before")] \in BoundaryRow
      BY <1>0, <3>1, <3>2 DEF BoundaryRow, BoundaryStatuses
    <3>4. \/ UNCHANGED boundary
          \/ boundary' = [boundary EXCEPT ![e] =
                 [boundary[e] EXCEPT !.status = "failed", !.after = Checkpoint(e, "before")]]
      BY <2>4 DEF Advance, EditOf
    <3>5. cursor' \in {cursor, Checkpoint(e, "before")}
      BY <2>4 DEF Advance, EditOf
    <3> QED
      BY <1>0, <3>1, <3>2, <3>3, <3>4, <3>5
  <2>5. CASE CloseBoundary(a)
    <3>1. e \in Edits
      BY <1>3, <2>5 DEF CloseBoundary
    <3>2. Checkpoint(e, "after") \in Checkpoints /\ boundary[e].after \in Checkpoints
          /\ boundary[e] \in BoundaryRow
      BY <1>0, <3>1, CheckpointType DEF BoundaryRow
    <3>3. \A s \in {"completed", "failed"} :
              [boundary[e] EXCEPT !.status = s, !.after = Checkpoint(e, "after")] \in BoundaryRow
      BY <3>2 DEF BoundaryRow, BoundaryStatuses
    <3>4. \/ UNCHANGED boundary
          \/ \E s \in {"completed", "failed"} : boundary' = [boundary EXCEPT ![e] =
                 [boundary[e] EXCEPT !.status = s, !.after = Checkpoint(e, "after")]]
      <4>1. CASE Open(e)
        <5>1. PICK s \in {"completed", "failed"} :
                  s = IF applier[a].outcome = "applied" THEN "completed" ELSE "failed"
          OBVIOUS
        <5>2. boundary' = [boundary EXCEPT ![e] =
                  [boundary[e] EXCEPT !.status = s, !.after = Checkpoint(e, "after")]]
          BY <1>0, <2>5, <3>1, <4>1, <5>1 DEF CloseBoundary, EditOf
        <5> QED
          BY <5>2
      <4>2. CASE ~Open(e)
        BY <2>5, <4>2 DEF CloseBoundary, EditOf
      <4> QED
        BY <4>1, <4>2
    <3>5. cursor' \in {cursor, boundary[e].after}
      BY <2>5 DEF CloseBoundary, EditOf, Cas
    <3> QED
      BY <1>0, <3>1, <3>2, <3>3, <3>4, <3>5
  <2>6. CASE MoveCursor(a)
    <3>1. e \in Edits /\ UNCHANGED boundary
      BY <1>3, <2>6 DEF MoveCursor
    <3>2. Checkpoint(e, "after") \in Checkpoints
      BY <3>1, CheckpointType
    <3> QED
      BY <1>0, <2>6, <3>1, <3>2 DEF MoveCursor, EditOf, Cas
  <2> QED
    BY <2>1, <2>2, <2>3, <2>4, <2>5, <2>6 DEF PassingStep
<1>5. QED
  BY <1>1, <1>2, <1>4

LEMMA PassingKeeps ==
    ASSUME FileEditsConstants, FilesInv, NEW a \in Appliers, PassingStep(a)
    PROVE  FilesInv'
<1>1. /\ UNCHANGED <<run, file, edit, approval, operation, result, reviewer, written>>
      /\ boundary' \in [Edits -> BoundaryRow] /\ cursor' \in Checkpoints
      /\ faults' \in 0 .. MaxFaults
  BY PassingTypes
<1>2. ApprovalsStand /\ FileIsKnown' /\ NothingToDecide' /\ EditsAreBound'
  BY <1>1, BoundStays
<1>3. PICK q \in ApplierRow \union {Idle} : applier' = [applier EXCEPT ![a] = q] /\ Sound(q)
  BY PassingTurns DEF Turns
<1>4. applier' \in [Appliers -> ApplierRow \union {Idle}] /\ AppliersAreSound'
  BY <1>2, <1>3, SoundStays, ApplierStep
<1>5. Types'
  BY <1>1, <1>4 DEF FilesInv, Types
<1>6. QED
  BY <1>2, <1>4, <1>5 DEF FilesInv

\* The operation is prepared, or known already.
LEMMA RequestStep ==
    ASSUME FileEditsConstants, FilesInv, NEW a \in Appliers, NEW e \in Edits, Request(a, e)
    PROVE  FilesInv'
<1> DEFINE q == [pc |-> "look", edit |-> e, seen |-> "none", previous |-> None,
                 outcome |-> "none"]
<1>0. /\ Types /\ operation' = operation \union {e} /\ applier' = [applier EXCEPT ![a] = q]
      /\ UNCHANGED <<run, file, edit, approval, result, boundary, cursor, reviewer, faults,
                     written>>
  BY DEF FilesInv, Request
<1>1. q \in ApplierRow
  BY CheckpointType DEF ApplierRow, Places, EditStatuses, Results
<1>2. ApprovalsStand /\ FileIsKnown' /\ NothingToDecide' /\ EditsAreBound'
  BY <1>0 DEF FilesInv, ApprovalsStand, FileIsKnown, NothingToDecide, EditsAreBound, Prepared
<1>3. Sound(q)'
  BY <1>0 DEF Sound
<1> HIDE DEF q
<1>4. applier' \in [Appliers -> ApplierRow \union {Idle}] /\ AppliersAreSound'
  BY <1>0, <1>1, <1>2, <1>3, ApplierStep
<1>5. Types'
  BY <1>0, <1>4 DEF Types
<1>6. QED
  BY <1>2, <1>4, <1>5 DEF FilesInv

\* Claim and SaveOutcome: the edit takes a status that its approval allows.
LEMMA SaveKeeps ==
    ASSUME FilesInv, NEW e \in Edits, NEW status \in {"approved", "applied", "failed"},
           UNCHANGED <<approval, operation, result, written, file>>,
           (MaySave(e, status) /\ SaveEdit(e, status)) \/ edit' = edit
    PROVE  /\ ApprovalsStand /\ FileIsKnown' /\ NothingToDecide' /\ EditsAreBound'
           /\ edit' \in [Edits -> EditRow]
<1>0. edit \in [Edits -> EditRow]
  BY DEF FilesInv, Types
<1>1. CASE edit' = edit
  BY <1>0, <1>1, BoundStays
<1>2. CASE MaySave(e, status) /\ SaveEdit(e, status)
  <2>1. approval[e] = "approved" /\ edit' = [edit EXCEPT ![e].status = status]
    BY <1>2 DEF MaySave, Needs, SaveEdit
  <2>2. /\ edit'[e].status = status /\ \A f \in Edits : f # e => edit'[f] = edit[f]
        /\ edit' \in [Edits -> EditRow]
    BY <1>0, <2>1 DEF EditRow, EditStatuses
  <2>3. ApprovalsStand /\ FileIsKnown'
    BY DEF FilesInv, FileIsKnown, ApprovalsStand
  <2>4. NothingToDecide' /\ EditsAreBound'
    BY <2>1, <2>2 DEF FilesInv, NothingToDecide, EditsAreBound, Prepared
  <2> QED
    BY <2>2, <2>3, <2>4
<1>3. QED
  BY <1>1, <1>2

\* The write, what is saved and recorded of it.
LEMMA WriteStep ==
    ASSUME FileEditsConstants, FilesInv, NEW a \in Appliers,
           Claim(a) \/ Rename(a) \/ SaveOutcome(a) \/ Record(a)
    PROVE  FilesInv'
<1> DEFINE q == applier[a]
           e == q.edit
           agrees == /\ q.outcome = "applied" => file = Text(e)
                     /\ result[e] = q.outcome \/ (result[e] = "none" /\ edit[e].status = q.outcome)
<1>0. /\ Types /\ Sound(q) /\ UNCHANGED <<run, approval, operation, boundary, cursor, reviewer, faults>>
  BY DEF FilesInv, AppliersAreSound, Claim, Rename, SaveOutcome, Record, database
<1>1. q \in ApplierRow /\ q.pc \in {"claim", "rename", "save", "record"}
  BY <1>0 DEF Types, Idle, Claim, Rename, SaveOutcome, Record
<1>2. /\ e \in Edits /\ e \in operation /\ approval[e] = "approved"
      /\ q.pc \in {"save", "record"} => q.outcome \in {"applied", "failed"}
  BY <1>0, <1>1 DEF Sound, ApplierRow
<1> DEFINE Bound == /\ ApprovalsStand /\ FileIsKnown' /\ NothingToDecide' /\ EditsAreBound'
                    /\ edit' \in [Edits -> EditRow] /\ result' \in [Edits -> Results]
                    /\ file' \in Texts /\ written' \in SUBSET Edits
<1>3. Bound
  <2>1. CASE Claim(a)
    <3>1. /\ UNCHANGED <<result, written, file>>
          /\ (MaySave(e, "approved") /\ SaveEdit(e, "approved")) \/ edit' = edit
      BY <2>1 DEF Claim, EditOf
    <3> QED
      BY <1>0, <1>2, <3>1, SaveKeeps DEF Types
  <2>2. CASE SaveOutcome(a)
    <3>1. /\ UNCHANGED <<result, written, file>>
          /\ (MaySave(e, q.outcome) /\ SaveEdit(e, q.outcome)) \/ edit' = edit
      BY <2>2 DEF SaveOutcome, EditOf
    <3>2. PICK o \in {"applied", "failed"} : o = q.outcome
      BY <1>2, <2>2 DEF SaveOutcome
    <3> QED
      BY <1>0, <1>2, <3>1, <3>2, SaveKeeps DEF Types
  <2>3. CASE Rename(a)
    <3>1. CASE UNCHANGED <<file, written>>
      <4>1. UNCHANGED <<edit, result>>
        BY <2>3 DEF Rename, database
      <4> QED
        BY <1>0, <3>1, <4>1, BoundStays DEF Types
    <3>2. CASE file' = Text(e) /\ written' = written \union {e}
      <4>1. UNCHANGED <<edit, result>>
        BY <2>3 DEF Rename, database
      <4>2. ApprovalsStand /\ FileIsKnown' /\ NothingToDecide'
        BY <1>0, <3>2, <4>1 DEF FilesInv, ApprovalsStand, FileIsKnown, NothingToDecide, Text
      <4>3. EditsAreBound'
        BY <1>0, <1>2, <3>2, <4>1 DEF FilesInv, EditsAreBound, Prepared
      <4> QED
        BY <1>0, <1>2, <3>2, <4>1, <4>2, <4>3 DEF Types, Texts
    <3> QED
      BY <2>3, <3>1, <3>2 DEF Rename, EditOf
  <2>4. CASE Record(a)
    <3>1. /\ UNCHANGED <<file, edit, written>>
          /\ result' = [result EXCEPT ![e] = IF agrees THEN q.outcome ELSE @]
      BY <2>4 DEF Record, EditOf
    <3>2. PICK o \in {"applied", "failed"} : o = q.outcome
      BY <1>2, <2>4 DEF Record
    <3>3. CASE ~agrees
      <4>1. UNCHANGED result
        BY <1>0, <3>1, <3>3 DEF Types
      <4> QED
        BY <1>0, <3>1, <4>1, BoundStays DEF Types
    <3>4. CASE agrees
      <4>1. result' = [result EXCEPT ![e] = o]
        BY <3>1, <3>2, <3>4
      <4>2. o = "applied" => e \in written
        BY <1>2, <3>2, <3>4 DEF FilesInv, FileIsKnown, Text, FileEditsConstants
      <4> HIDE DEF agrees, e, q
      <4>3. /\ result'[e] = o /\ \A f \in Edits : f # e => result'[f] = result[f]
            /\ result' \in [Edits -> Results]
        BY <1>0, <1>2, <4>1 DEF Types, Results
      <4>4. ApprovalsStand /\ FileIsKnown' /\ NothingToDecide'
        BY <1>0, <3>1 DEF FilesInv, ApprovalsStand, FileIsKnown, NothingToDecide
      <4>5. EditsAreBound'
        BY <1>0, <3>1, <4>2, <4>3 DEF FilesInv, EditsAreBound, Prepared
      <4> QED
        BY <1>0, <3>1, <4>3, <4>4, <4>5 DEF Types
    <3> QED
      BY <3>3, <3>4
  <2> QED
    BY <2>1, <2>2, <2>3, <2>4
<1>4. Turns(a)
  <2>0. /\ {"recheck", "verify"} \subseteq Places \ {"save", "record"}
        /\ {"record", "save", "close"} \subseteq Places /\ q.pc # "look"
    BY <1>1 DEF Places
  <2>1. CASE Goto(a, "recheck")
    BY <1>0, <1>1, <2>0, <2>1, GotoTurns
  <2>2. CASE Goto(a, "verify")
    BY <1>0, <1>1, <2>0, <2>2, GotoTurns
  <2>3. ASSUME NEW p \in {"record", "save", "close"}, NEW o \in {"applied", "failed"},
               applier' = [applier EXCEPT ![a].pc = p, ![a].outcome = o]
        PROVE  Turns(a)
    BY <1>0, <1>1, <2>0, <2>3, OutcomeTurns
  <2>4. CASE Claim(a)
    BY <2>1, <2>3, <2>4 DEF Claim
  <2>5. CASE Rename(a)
    BY <2>2, <2>3, <2>5 DEF Rename, Outcome
  <2>6. CASE SaveOutcome(a)
    <3>1. PICK o \in {"applied", "failed"} : o = q.outcome
      BY <1>2, <2>6 DEF SaveOutcome
    <3>2. applier' = [applier EXCEPT ![a].pc = "record"]
      BY <2>6 DEF SaveOutcome, Goto
    <3>3. applier' = [applier EXCEPT ![a] = [q EXCEPT !.pc = "record", !.outcome = o]]
      <4>1. [q EXCEPT !.pc = "record"] = [q EXCEPT !.pc = "record", !.outcome = o]
        BY <1>1, <3>1 DEF ApplierRow
      <4> QED
        BY <3>2, <4>1
    <3>4. /\ [q EXCEPT !.pc = "record", !.outcome = o] \in ApplierRow
          /\ Sound([q EXCEPT !.pc = "record", !.outcome = o])
      BY <1>0, <1>1, <2>0, Goes
    <3> QED
      BY <3>3, <3>4 DEF Turns
  <2>7. CASE Record(a)
    <3>1. PICK o \in {"applied", "failed"} : o = q.outcome
      BY <1>2, <2>7 DEF Record
    <3>2. PICK p \in {"applied", "failed"} : p = IF agrees THEN q.outcome ELSE "failed"
      BY <3>1
    <3>3. applier' = [applier EXCEPT ![a].pc = "close", ![a].outcome = p]
      BY <2>7, <3>2 DEF Record, EditOf, Close
    <3> QED
      BY <2>3, <3>3
  <2> QED
    BY <2>4, <2>5, <2>6, <2>7
<1>5. PICK n \in ApplierRow \union {Idle} : applier' = [applier EXCEPT ![a] = n] /\ Sound(n)
  BY <1>4 DEF Turns
<1>6. applier' \in [Appliers -> ApplierRow \union {Idle}] /\ AppliersAreSound'
  BY <1>3, <1>5, SoundStays, ApplierStep
<1>7. Types'
  BY <1>0, <1>3, <1>6 DEF Types
<1>8. QED
  BY <1>3, <1>6, <1>7 DEF FilesInv

(***************************************************************************)
(* Boundaries, when requests are served one at a time and at most one dies *)
(* or start of a process does.                                             *)
(***************************************************************************)

Befores == {Checkpoint(e, "before") : e \in Edits}

\* The steps of a request that has a boundary.
Bounded == {"advance", "apply", "claim", "recheck", "rename", "verify", "save", "record", "close"}

Prepares(b, e) == b[e].status = "prepared"
Keeps(q, e)    == q.pc \in Bounded /\ q.edit = e

\* Of the request q, the boundaries b and the cursor c, when f requests or starts have died.
\* An open boundary is the only one and has the cursor; it is that of the request, or what
\* was left by the one that died.  Boundaries begin where the Run is and leave the cursor
\* past their beginning, so one that begins at the beginning of another one (which died
\* before it moved the cursor) is never left open itself.
Reconcilable(q, b, c, f) ==
    /\ \A e \in Edits : b[e].after \notin Befores
    /\ \A e \in Edits : Prepares(b, e) =>
           /\ \A g \in Edits \ {e} : ~Prepares(b, g)
           /\ c \in {Checkpoint(e, "before"), b[e].expected}
           /\ f < MaxFaults => Keeps(q, e)
           /\ f < MaxFaults \/ ~Keeps(q, e) => b[e].expected \notin Befores
    /\ f < MaxFaults => \A e \in Edits : c = Checkpoint(e, "before") =>
           Prepares(b, e) \/ (q.pc = "move" /\ q.edit = e)
    /\ q.pc = "open" =>
           /\ q.previous = c
           /\ \A e \in Edits : ~Prepares(b, e)
           /\ b[q.edit].status = "none"
    /\ q.pc = "advance" =>
           Prepares(b, q.edit) /\ b[q.edit].expected = q.previous /\ q.previous = c
    /\ q.pc = "move" => \A e \in Edits : ~Prepares(b, e)

BoundaryInv(a) == Reconcilable(applier[a], boundary, cursor, faults)

\* The same boundaries and the same cursor, and the request is a step further.
LEMMA RequestGoesOn ==
    ASSUME NEW q, NEW q2, NEW b, NEW c, NEW f, Reconcilable(q, b, c, f),
           \/ q.pc \in Bounded /\ q2.pc \in Bounded \ {"advance"} /\ q2.edit = q.edit
           \/ q.pc \notin Bounded \union {"move"} /\ q2.pc \in {"idle", "look", "find"}
    PROVE  Reconcilable(q2, b, c, f)
  BY DEF Reconcilable, Keeps, Bounded

\* The request has found no open boundary.
LEMMA RequestOpens ==
    ASSUME NEW q, NEW q2, NEW b, NEW c, NEW f, Reconcilable(q, b, c, f),
           q.pc = "find", q2.pc = "open", q2.previous = c, \A e \in Edits : ~Prepares(b, e),
           b[q2.edit].status = "none"
    PROVE  Reconcilable(q2, b, c, f)
  BY DEF Reconcilable, Bounded

\* The request dies: a boundary that it leaves open was the first thing that went wrong.
LEMMA RequestDies ==
    ASSUME NEW q, NEW b, NEW c, NEW f, NEW f2, Reconcilable(q, b, c, f),
           f < MaxFaults, ~(f2 < MaxFaults)
    PROVE  Reconcilable(Idle, b, c, f2)
  BY DEF Reconcilable, Keeps, Bounded, Idle

LEMMA CheckpointsDiffer ==
    /\ \A e, f \in Edits : Checkpoint(e, "before") = Checkpoint(f, "before") => e = f
    /\ \A e \in Edits : /\ Checkpoint(e, "before") \in Befores
                        /\ Checkpoint(e, "after") \notin Befores
                        /\ Checkpoint(e, "reconciled") \notin Befores
    /\ None \notin Befores
  BY DEF Checkpoint, Befores, None

\* The request opens a boundary where the Run is.
LEMMA BoundaryOpens ==
    ASSUME NEW q, NEW q2, NEW b \in [Edits -> BoundaryRow], NEW c, NEW f, Reconcilable(q, b, c, f),
           q.pc = "open", q.edit \in Edits, q2.pc = "advance", q2.edit = q.edit,
           q2.previous = q.previous,
           NEW row, row.status = "prepared", row.expected = q.previous, row.after = None
    PROVE  Reconcilable(q2, [b EXCEPT ![q.edit] = row], c, f)
<1> DEFINE b2 == [b EXCEPT ![q.edit] = row]
<1>1. b2[q.edit] = row /\ \A e \in Edits \ {q.edit} : b2[e] = b[e]
  OBVIOUS
<1>2. c = q.previous /\ \A e \in Edits : ~Prepares(b, e)
  BY DEF Reconcilable
<1>3. f < MaxFaults => c \notin Befores
  BY <1>2 DEF Reconcilable, Befores
<1>4. \A e \in Edits : Prepares(b2, e) <=> e = q.edit
  BY <1>1, <1>2 DEF Prepares
<1>5. \A e \in Edits : b2[e].after \notin Befores
  BY <1>1, CheckpointsDiffer DEF Reconcilable
<1> HIDE DEF b2
<1>6. Reconcilable(q2, b2, c, f)
  BY <1>1, <1>2, <1>3, <1>4, <1>5 DEF Reconcilable, Keeps, Bounded, Befores
<1>7. QED
  BY <1>6 DEF b2

\* The Run is taken, or taken again, to the checkpoint before.
LEMMA CursorTaken ==
    ASSUME NEW q, NEW q2, NEW b, NEW c, NEW f, Reconcilable(q, b, c, f), NEW e \in Edits,
           Prepares(b, e),
           \/ q.pc \in {"find", "advance"} /\ q.edit = e /\ q2.pc = "apply" /\ q2.edit = e
           \/ q.pc = "idle" /\ q2 = q
    PROVE  Reconcilable(q2, b, Checkpoint(e, "before"), f)
  BY CheckpointsDiffer DEF Reconcilable, Keeps, Bounded

\* A closed boundary takes the Run away from its checkpoint before: it is not where another
\* boundary begins.
LEMMA CursorMended ==
    ASSUME NEW q, NEW q2, NEW b, NEW c, NEW f, Reconcilable(q, b, c, f), NEW e \in Edits,
           ~Prepares(b, e), NEW x, x \notin Befores,
           \/ q.pc = "find" /\ q2.pc = "apply" /\ q2.edit = e
           \/ q.pc \in {"close", "move"} /\ q.edit = e /\ q2 = Idle
           \/ q.pc = "idle" /\ q2 = q
    PROVE  Reconcilable(q2, b, IF c = Checkpoint(e, "before") THEN x ELSE c, f)
<1>1. \A g \in Edits : Prepares(b, g) => ~Keeps(q, g)
  BY DEF Reconcilable, Keeps, Bounded
<1>2. CASE c = Checkpoint(e, "before")
  <2>1. \A g \in Edits : ~Prepares(b, g)
    <3> SUFFICES ASSUME NEW g \in Edits, Prepares(b, g) PROVE FALSE
      OBVIOUS
    <3>1. g # e /\ c \in {Checkpoint(g, "before"), b[g].expected} /\ b[g].expected \notin Befores
      BY <1>1 DEF Reconcilable
    <3> QED
      BY <1>2, <3>1, CheckpointsDiffer
  <2>2. \A g \in Edits : x # Checkpoint(g, "before")
    BY DEF Befores
  <2>3. Reconcilable(q2, b, x, f)
    BY <2>1, <2>2 DEF Reconcilable, Keeps, Bounded, Idle
  <2> QED
    BY <1>2, <2>3
<1>3. CASE c # Checkpoint(e, "before")
  <2>1. Reconcilable(q2, b, c, f)
    BY <1>1, <1>3 DEF Reconcilable, Keeps, Bounded, Idle
  <2> QED
    BY <1>3, <2>1
<1>4. QED
  BY <1>2, <1>3

\* The boundary is closed, by the request before it moves the Run, or by a later start that
\* does both.
LEMMA BoundaryCloses ==
    ASSUME NEW q, NEW q2, NEW b \in [Edits -> BoundaryRow], NEW c, NEW c2, NEW f,
           Reconcilable(q, b, c, f), NEW e \in Edits, Prepares(b, e),
           NEW row, row.status # "prepared", row.after \notin Befores,
           \/ q.pc = "close" /\ q.edit = e /\ q2.pc = "move" /\ q2.edit = e /\ c2 = c
           \/ q.pc = "idle" /\ q2 = q /\ c2 \notin Befores
    PROVE  Reconcilable(q2, [b EXCEPT ![e] = row], c2, f)
<1> DEFINE b2 == [b EXCEPT ![e] = row]
<1>1. b2[e] = row /\ \A g \in Edits \ {e} : b2[g] = b[g]
  OBVIOUS
<1>2. \A g \in Edits : ~Prepares(b2, g)
  BY <1>1 DEF Reconcilable, Prepares
<1>3. \A g \in Edits : b2[g].after \notin Befores
  BY <1>1 DEF Reconcilable
<1>4. f < MaxFaults => \A g \in Edits : c2 = Checkpoint(g, "before") => q2.pc = "move" /\ q2.edit = g
  BY DEF Reconcilable, Befores
<1> HIDE DEF b2
<1>5. Reconcilable(q2, b2, c2, f)
  BY <1>2, <1>3, <1>4 DEF Reconcilable
<1>6. QED
  BY <1>5 DEF b2

LEMMA RowOfRequest ==
    ASSUME FilesInv, NEW a \in Appliers, applier[a].pc # "idle"
    PROVE  applier[a] \in ApplierRow /\ applier[a].edit \in Edits
<1>1. applier[a] \in ApplierRow \union {Idle}
  BY DEF FilesInv, Types
<1>2. QED
  BY <1>1 DEF Idle, ApplierRow

LEMMA LookingKeepsBoundaries ==
    ASSUME FilesInv, NEW a \in Appliers, BoundaryInv(a),
           \/ \E e \in Edits : Request(a, e)
           \/ Look(a) \/ Find(a)
    PROVE  BoundaryInv(a)'
<1>1. UNCHANGED <<boundary, cursor, faults>>
  BY DEF Request, Look, Find, database
<1>3. PICK q : q = applier[a]
  OBVIOUS
<1>4. PICK q2 : q2 = applier'[a]
  OBVIOUS
<1>5. Reconcilable(q, boundary, cursor, faults)
  BY <1>3 DEF BoundaryInv
<1>6. applier \in [Appliers -> ApplierRow \union {Idle}] /\ (q.pc # "idle" => q \in ApplierRow)
  BY <1>3, RowOfRequest DEF FilesInv, Types
<1>7. Reconcilable(q2, boundary, cursor, faults)
  <2>1. CASE \E e \in Edits : Request(a, e)
    <3>1. q.pc = "idle" /\ q2.pc = "look"
      BY <1>3, <1>4, <1>6, <2>1 DEF Request, Idle
    <3> QED
      BY <1>5, <3>1, RequestGoesOn DEF Bounded
  <2>2. CASE Look(a)
    <3>1. q.pc = "look"
      BY <1>3, <2>2 DEF Look
    <3>2. q2 = [q EXCEPT !.pc = "find", !.seen = edit[q.edit].status] \/ q2 = Idle
      BY <1>3, <1>4, <1>6, <2>2 DEF Look, Return, EditOf
    <3>3. q \in ApplierRow
      BY <1>6, <3>1
    <3>4. q2.pc \in {"find", "idle"}
      <4>1. CASE q2 = Idle
        BY <4>1 DEF Idle
      <4>2. CASE q2 # Idle
        <5>1. PICK t : q2 = [q EXCEPT !.pc = "find", !.seen = t]
          BY <3>2, <4>2
        <5> QED
          BY <3>3, <5>1 DEF ApplierRow
      <4> QED
        BY <4>1, <4>2
    <3> QED
      BY <1>5, <3>1, <3>4, RequestGoesOn DEF Bounded
  <2>3. CASE Find(a)
    <3>1. q.pc = "find" /\ boundary[q.edit].status = "none"
      BY <1>3, <2>3 DEF Find, EditOf
    <3>2. CASE NoneOpen
      <4>1. q2 = [q EXCEPT !.pc = "open", !.previous = cursor]
        BY <1>3, <1>4, <1>6, <2>3, <3>2 DEF Find
      <4>2. q2.pc = "open" /\ q2.previous = cursor /\ q2.edit = q.edit
        BY <1>6, <3>1, <4>1 DEF ApplierRow
      <4>3. \A e \in Edits : ~Prepares(boundary, e)
        BY <3>2 DEF NoneOpen, Open, Prepares
      <4> QED
        BY <1>5, <3>1, <4>2, <4>3, RequestOpens
    <3>3. CASE ~NoneOpen
      <4>1. q2 = Idle
        BY <1>4, <1>6, <2>3, <3>3 DEF Find, Return
      <4> QED
        BY <1>5, <3>1, <4>1, RequestGoesOn DEF Bounded, Idle
    <3> QED
      BY <3>2, <3>3
  <2> QED
    BY <2>1, <2>2, <2>3
<1>8. QED
  BY <1>1, <1>4, <1>7 DEF BoundaryInv

LEMMA WritingKeepsBoundaries ==
    ASSUME FilesInv, NEW a \in Appliers, BoundaryInv(a),
           \/ Approve(a) \/ Claim(a) \/ Recheck(a) \/ Rename(a) \/ Verify(a)
           \/ SaveOutcome(a) \/ Record(a) \/ Cancel(a)
    PROVE  BoundaryInv(a)'
<1> DEFINE q == applier[a]
<1>1. UNCHANGED <<boundary, cursor, faults>> /\ applier \in [Appliers -> ApplierRow \union {Idle}]
  BY DEF FilesInv, Types, Approve, Claim, Recheck, Rename, Verify, SaveOutcome, Record, Cancel,
     database
<1>2. q.pc \in Bounded
  BY DEF Approve, Claim, Recheck, Rename, Verify, SaveOutcome, Record, Cancel, Bounded
<1>3. q \in ApplierRow
  BY <1>2, RowOfRequest DEF Bounded
<1>4. \/ \E pc \in Bounded \ {"advance"} : Goto(a, pc)
      \/ \E o : applier' = [applier EXCEPT ![a].pc = "record", ![a].outcome = o]
      \/ \E o : Outcome(a, o)
      \/ \E o : Close(a, o)
  <2>1. CASE Approve(a)
    BY <2>1 DEF Approve, Bounded
  <2>2. CASE Claim(a)
    BY <2>2 DEF Claim, Bounded
  <2>3. CASE Recheck(a) \/ Verify(a)
    BY <2>3 DEF Recheck, Verify, Bounded
  <2>4. CASE Rename(a) \/ SaveOutcome(a)
    BY <2>4 DEF Rename, SaveOutcome, Bounded
  <2>5. CASE Record(a) \/ Cancel(a)
    BY <2>5 DEF Record, Cancel
  <2> QED
    BY <2>1, <2>2, <2>3, <2>4, <2>5
<1>5. applier'[a].pc \in Bounded \ {"advance"} /\ applier'[a].edit = q.edit
  BY <1>1, <1>3, <1>4 DEF Goto, Outcome, Close, Bounded, ApplierRow
<1>6. PICK q1, q2 : q1 = applier[a] /\ q2 = applier'[a]
  OBVIOUS
<1>7. Reconcilable(q2, boundary, cursor, faults)
  BY <1>2, <1>5, <1>6, RequestGoesOn DEF BoundaryInv
<1>8. QED
  BY <1>1, <1>6, <1>7 DEF BoundaryInv

LEMMA CrashKeepsBoundaries ==
    ASSUME FileEditsConstants, MaxFaults <= 1, FilesInv, NEW a \in Appliers, BoundaryInv(a), Crash(a)
    PROVE  BoundaryInv(a)'
<1>1. faults < MaxFaults /\ ~(faults' < MaxFaults) /\ UNCHANGED <<boundary, cursor>>
  BY DEF FilesInv, Types, FileEditsConstants, Crash, Fault, database
<1>2. applier'[a] = Idle
  BY DEF FilesInv, Types, Crash, Return
<1>3. Reconcilable(applier[a], boundary, cursor, faults)
  BY DEF BoundaryInv
<1>4. Reconcilable(Idle, boundary, cursor, faults')
  BY <1>1, <1>3, RequestDies
<1>5. QED
  BY <1>1, <1>2, <1>4 DEF BoundaryInv

LEMMA BoundaryStep ==
    ASSUME FilesInv, NEW a \in Appliers, BoundaryInv(a),
           Replay(a) \/ OpenBoundary(a) \/ Advance(a) \/ CloseBoundary(a) \/ MoveCursor(a)
    PROVE  BoundaryInv(a)'
<1>1. PICK q, q2 : q = applier[a] /\ q2 = applier'[a]
  OBVIOUS
<1>2. Reconcilable(q, boundary, cursor, faults)
  BY <1>1 DEF BoundaryInv
<1>3. q.pc \in Places
  BY <1>1 DEF Replay, OpenBoundary, Advance, CloseBoundary, MoveCursor, Places
<1>4. q \in ApplierRow /\ q.edit \in Edits
  BY <1>1, <1>3, RowOfRequest DEF Places
<1>5. PICK e \in Edits : e = q.edit
  BY <1>4
<1>6. /\ applier \in [Appliers -> ApplierRow \union {Idle}]
      /\ boundary \in [Edits -> BoundaryRow] /\ UNCHANGED faults
  BY DEF FilesInv, Types, Replay, OpenBoundary, Advance, CloseBoundary, MoveCursor
<1>7. /\ \A pc : Goto(a, pc) => q2.pc = pc /\ q2.edit = e /\ q2.previous = q.previous
      /\ Return(a) => q2 = Idle
  BY <1>1, <1>4, <1>5, <1>6 DEF Goto, Return, ApplierRow
<1>8. Open(e) <=> Prepares(boundary, e)
  BY DEF Open, Prepares
<1>9. boundary[e].after \notin Befores
  BY <1>2 DEF Reconcilable
<1>10. Reconcilable(q2, boundary', cursor', faults)
  <2>1. CASE Replay(a)
    <3>1. q.pc = "find" /\ boundary' = boundary
      BY <1>1, <2>1 DEF Replay
    <3>2. CASE Open(e) /\ cursor' = Checkpoint(e, "before") /\ Goto(a, "apply")
      BY <1>2, <1>5, <1>7, <1>8, <3>1, <3>2, CursorTaken
    <3>3. CASE Open(e) /\ cursor' = cursor /\ Return(a)
      BY <1>2, <1>7, <3>1, <3>3, RequestGoesOn DEF Bounded, Idle
    <3>4. CASE ~Open(e) /\ Cas(Checkpoint(e, "before"), boundary[e].after) /\ Goto(a, "apply")
      BY <1>2, <1>7, <1>8, <1>9, <3>1, <3>4, CursorMended DEF Cas
    <3> QED
      BY <1>1, <1>5, <2>1, <3>2, <3>3, <3>4 DEF Replay, EditOf
  <2>2. CASE OpenBoundary(a)
    <3>1. q.pc = "open" /\ boundary[e].status = "none" /\ cursor' = cursor
      BY <1>1, <1>2, <1>5, <2>2 DEF OpenBoundary, Reconcilable
    <3>2. Goto(a, "advance")
      BY <1>1, <1>5, <2>2, <3>1 DEF OpenBoundary, EditOf
    <3>3. PICK row : row = [status |-> "prepared", expected |-> q.previous, after |-> None]
      OBVIOUS
    <3>4. boundary' = [boundary EXCEPT ![q.edit] = row]
      BY <1>1, <1>5, <2>2, <3>1, <3>3 DEF OpenBoundary, EditOf
    <3>5. row.status = "prepared" /\ row.expected = q.previous /\ row.after = None
      BY <3>3
    <3>6. q2.pc = "advance" /\ q2.edit = q.edit /\ q2.previous = q.previous
      BY <1>5, <1>7, <3>2
    <3> QED
      BY <1>2, <1>4, <1>6, <3>1, <3>4, <3>5, <3>6, BoundaryOpens
  <2>3. CASE Advance(a)
    <3>1. q.pc = "advance" /\ Prepares(boundary, e) /\ cursor = q.previous
      BY <1>1, <1>2, <1>5, <2>3 DEF Advance, Reconcilable
    <3>2. cursor' = Checkpoint(e, "before") /\ boundary' = boundary /\ Goto(a, "apply")
      BY <1>1, <1>5, <2>3, <3>1 DEF Advance, EditOf
    <3> QED
      BY <1>2, <1>5, <1>7, <3>1, <3>2, CursorTaken
  <2>4. CASE CloseBoundary(a)
    <3>1. q.pc = "close"
      BY <1>1, <2>4 DEF CloseBoundary
    <3>2. CASE Open(e)
      <4>1. Goto(a, "move") /\ cursor' = cursor
        BY <1>1, <1>5, <2>4, <3>2 DEF CloseBoundary, EditOf
      <4>2. PICK row : row = [boundary[e] EXCEPT !.after = Checkpoint(e, "after"),
                                !.status = IF q.outcome = "applied" THEN "completed" ELSE "failed"]
        OBVIOUS
      <4>3. boundary' = [boundary EXCEPT ![e] = row]
        BY <1>1, <1>5, <1>6, <2>4, <3>2, <4>2 DEF CloseBoundary, EditOf, BoundaryRow
      <4>4. row.status # "prepared" /\ row.after = Checkpoint(e, "after")
        BY <1>6, <4>2 DEF BoundaryRow
      <4>5. row.after \notin Befores
        BY <4>4, CheckpointsDiffer
      <4> QED
        BY <1>2, <1>5, <1>6, <1>7, <1>8, <3>1, <3>2, <4>1, <4>3, <4>4, <4>5, BoundaryCloses
    <3>3. CASE ~Open(e)
      <4>1. /\ Return(a) /\ boundary' = boundary
            /\ Cas(Checkpoint(e, "before"), boundary[e].after)
        BY <1>1, <1>5, <2>4, <3>3 DEF CloseBoundary, EditOf
      <4> QED
        BY <1>2, <1>5, <1>7, <1>8, <1>9, <3>1, <3>3, <4>1, CursorMended DEF Cas
    <3> QED
      BY <3>2, <3>3
  <2>5. CASE MoveCursor(a)
    <3>1. /\ q.pc = "move" /\ boundary' = boundary /\ Return(a)
          /\ Cas(Checkpoint(e, "before"), Checkpoint(e, "after"))
      BY <1>1, <1>5, <2>5 DEF MoveCursor, EditOf
    <3>2. ~Prepares(boundary, e) /\ Checkpoint(e, "after") \notin Befores
      BY <1>2, <3>1, CheckpointsDiffer DEF Reconcilable
    <3> QED
      BY <1>2, <1>5, <1>7, <3>1, <3>2, CursorMended DEF Cas
  <2> QED
    BY <2>1, <2>2, <2>3, <2>4, <2>5
<1>11. QED
  BY <1>1, <1>6, <1>10 DEF BoundaryInv

\* A start of the process reconciles while no request is served.
LEMMA StartKeepsBoundaries ==
    ASSUME FilesInv, NEW a \in Appliers, BoundaryInv(a), NEW e \in Edits,
           TakeCursor(e) \/ Interrupt(e) \/ MendCursor(e)
    PROVE  BoundaryInv(a)'
<1>1. PICK q : q = applier[a]
  OBVIOUS
<1>2. Reconcilable(q, boundary, cursor, faults)
  BY <1>1 DEF BoundaryInv
<1>3. q.pc = "idle" /\ UNCHANGED applier
  BY <1>1 DEF TakeCursor, Interrupt, MendCursor, Quiet, Idle
<1>4. boundary \in [Edits -> BoundaryRow]
  BY DEF FilesInv, Types
<1>5. Reconcilable(q, boundary', cursor', faults) /\ faults' = faults
  <2>1. CASE TakeCursor(e)
    <3>1. Prepares(boundary, e) /\ cursor' = Checkpoint(e, "before") /\ UNCHANGED <<boundary, faults>>
      BY <2>1 DEF TakeCursor, Open, Prepares
    <3> QED
      BY <1>2, <1>3, <3>1, CursorTaken
  <2>2. CASE Interrupt(e)
    <3>1. Prepares(boundary, e) /\ ~(faults < MaxFaults)
      BY <1>2, <1>3, <2>2 DEF Interrupt, Open, Prepares, Reconcilable, Keeps, Bounded
    <3>2. cursor' = Checkpoint(e, "reconciled") /\ faults' = faults
      BY <2>2, <3>1 DEF Interrupt, Fault
    <3>3. cursor' \notin Befores
      BY <3>2, CheckpointsDiffer
    <3>4. PICK row : row = [boundary[e] EXCEPT !.status = "interrupted",
                                               !.after = Checkpoint(e, "reconciled")]
      OBVIOUS
    <3>5. boundary' = [boundary EXCEPT ![e] = row]
      BY <1>4, <2>2, <3>4 DEF Interrupt, BoundaryRow
    <3>6. row.status # "prepared" /\ row.after = Checkpoint(e, "reconciled")
      BY <1>4, <3>4 DEF BoundaryRow
    <3>7. row.after \notin Befores
      BY <3>6, CheckpointsDiffer
    <3> QED
      BY <1>2, <1>3, <1>4, <3>1, <3>2, <3>3, <3>5, <3>6, <3>7, BoundaryCloses
  <2>3. CASE MendCursor(e)
    <3>1. /\ ~Prepares(boundary, e) /\ cursor = Checkpoint(e, "before")
          /\ cursor' = boundary[e].after /\ UNCHANGED <<boundary, faults>>
      BY <2>3 DEF MendCursor, NoneOpen, Open, Prepares
    <3>2. boundary[e].after \notin Befores
      BY <1>2 DEF Reconcilable
    <3> QED
      BY <1>2, <1>3, <3>1, <3>2, CursorMended
  <2> QED
    BY <2>1, <2>2, <2>3
<1>6. QED
  BY <1>1, <1>3, <1>5 DEF BoundaryInv

\* The steps of reviewers and of the user, and the life of the Run.
LEMMA OthersKeepBoundaries ==
    ASSUME NEW a \in Appliers, BoundaryInv(a), UNCHANGED <<applier, boundary, cursor, faults>>
    PROVE  BoundaryInv(a)'
  BY DEF BoundaryInv

LEMMA BoundariesNext ==
    ASSUME FileEditsConstants, MaxFaults <= 1, NEW a, Appliers = {a},
           FilesInv, BoundaryInv(a), [Next]_vars
    PROVE  BoundaryInv(a)'
<1>1. CASE UNCHANGED vars
  BY <1>1, OthersKeepBoundaries DEF vars
<1>2. ASSUME NEW e \in Edits, Propose(e) \/ TakeCursor(e) \/ Interrupt(e) \/ MendCursor(e)
      PROVE  BoundaryInv(a)'
  <2>1. CASE Propose(e)
    BY <2>1, OthersKeepBoundaries DEF Propose
  <2> QED
    BY <1>2, <2>1, StartKeepsBoundaries
<1>3. ASSUME NEW r \in Reviewers,
             \/ \E e \in Edits, v \in {"approved", "denied"} : StartReview(r, e, v)
             \/ Decide(r) \/ ReadEdit(r) \/ SaveReview(r) \/ ReviewEnds(r)
      PROVE  BoundaryInv(a)'
  BY <1>3, OthersKeepBoundaries
  DEF StartReview, Decide, ReadEdit, SaveReview, ReviewEnds, database
<1>4. ASSUME NEW b \in Appliers,
             \/ \E e \in Edits : Request(b, e)
             \/ Look(b) \/ Find(b)
      PROVE  BoundaryInv(a)'
  BY <1>4, LookingKeepsBoundaries
<1>5. ASSUME NEW b \in Appliers,
             \/ Approve(b) \/ Claim(b) \/ Recheck(b) \/ Rename(b) \/ Verify(b)
             \/ SaveOutcome(b) \/ Record(b) \/ Cancel(b)
      PROVE  BoundaryInv(a)'
  BY <1>5, WritingKeepsBoundaries
<1>6. ASSUME NEW b \in Appliers,
             \/ Replay(b) \/ OpenBoundary(b) \/ Advance(b) \/ CloseBoundary(b) \/ MoveCursor(b)
             \/ Crash(b)
      PROVE  BoundaryInv(a)'
  BY <1>6, BoundaryStep, CrashKeepsBoundaries
<1>7. ASSUME \/ \E t \in UserTexts : UserSaves(t)
             \/ \E status \in {"running", "paused", "ended"} : RunChanges(status)
      PROVE  BoundaryInv(a)'
  BY <1>7, OthersKeepBoundaries DEF UserSaves, RunChanges, database
<1>8. QED
  BY <1>1, <1>2, <1>3, <1>4, <1>5, <1>6, <1>7 DEF Next

(***************************************************************************)
(* Theorems.                                                               *)
(***************************************************************************)

LEMMA FilesInit == ASSUME FileEditsConstants, Init PROVE FilesInv
<1>1. None \in Checkpoints
  BY DEF Checkpoints
<1>2. NoEdit \in EditRow /\ NoBoundary \in BoundaryRow
  BY <1>1 DEF NoEdit, EditRow, EditStatuses, Texts, NoBoundary, BoundaryRow, BoundaryStatuses,
     FileEditsConstants
<1>3. Types
  BY <1>1, <1>2 DEF Init, Types, Texts, Approvals, Results, FileEditsConstants
<1>4. FileIsKnown /\ NothingToDecide /\ EditsAreBound
  BY DEF Init, FileEditsConstants, FileIsKnown, NothingToDecide, EditsAreBound, NoEdit
<1>5. AppliersAreSound
  BY DEF Init, AppliersAreSound, Sound, Idle
<1>6. QED
  BY <1>3, <1>4, <1>5 DEF FilesInv

LEMMA FilesNext == ASSUME FileEditsConstants, FilesInv, [Next]_vars PROVE FilesInv'
<1>1. CASE UNCHANGED vars
  <2>1. UNCHANGED <<run, file, edit, approval, operation, result, boundary, cursor, reviewer,
                    applier, faults, written>>
    BY <1>1 DEF vars
  <2>2. ApprovalsStand /\ FileIsKnown' /\ NothingToDecide' /\ EditsAreBound'
    BY <2>1, BoundStays
  <2>3. applier' \in [Appliers -> ApplierRow \union {Idle}] /\ AppliersAreSound'
    BY <2>1, <2>2, AppliersStay
  <2>4. Types'
    BY <2>1, <2>3 DEF FilesInv, Types
  <2> QED
    BY <2>2, <2>3, <2>4 DEF FilesInv
<1>2. ASSUME NEW e \in Edits, Propose(e) \/ TakeCursor(e) \/ Interrupt(e) \/ MendCursor(e)
      PROVE  FilesInv'
  BY <1>2, ProposeStep, EnvironmentStep
<1>3. ASSUME NEW r \in Reviewers,
             \/ \E e \in Edits, v \in {"approved", "denied"} : StartReview(r, e, v)
             \/ Decide(r) \/ ReadEdit(r) \/ SaveReview(r) \/ ReviewEnds(r)
      PROVE  FilesInv'
  BY <1>3, ReviewStep
<1>4. ASSUME NEW a \in Appliers, NEW e \in Edits, Request(a, e) PROVE FilesInv'
  BY <1>4, RequestStep
<1>5. ASSUME NEW a \in Appliers, PassingStep(a) PROVE FilesInv'
  BY <1>5, PassingKeeps
<1>6. ASSUME NEW a \in Appliers, Claim(a) \/ Rename(a) \/ SaveOutcome(a) \/ Record(a)
      PROVE  FilesInv'
  BY <1>6, WriteStep
<1>7. ASSUME \/ \E t \in UserTexts : UserSaves(t)
             \/ \E status \in {"running", "paused", "ended"} : RunChanges(status)
      PROVE  FilesInv'
  BY <1>7, EnvironmentStep
<1>8. QED
  BY <1>1, <1>2, <1>3, <1>4, <1>5, <1>6, <1>7 DEF Next, PassingStep

\* The rows of edits, approvals, operations and boundaries keep their types, and the cursor
\* is always a checkpoint that some boundary took.
THEOREM FilesTypeCorrect == ASSUME FileEditsConstants PROVE Spec => []TypeOK
<1>1. Init => FilesInv
  BY FilesInit
<1>2. FilesInv /\ [Next]_vars => FilesInv'
  BY FilesNext
<1>3. FilesInv => TypeOK
  BY TypesImplyTypeOK DEF FilesInv
<1>4. QED
  BY <1>1, <1>2, <1>3, PTL DEF Spec

\* However many reviews and applications run at a time, die or are repeated, and whatever
\* the user saves meanwhile: an edit never says something else than its approval, a denied
\* edit is never put in the file, and none is reported as applied that was not put there.
THEOREM ReviewsAlwaysBind == ASSUME FileEditsConstants PROVE Spec => []ReviewsBind
<1>1. Init => FilesInv
  BY FilesInit
<1>2. FilesInv /\ [Next]_vars => FilesInv'
  BY FilesNext
<1>3. FilesInv => ReviewsBind
  BY DEF FilesInv, Types, EditsAreBound, Prepared, ReviewsBind
<1>4. QED
  BY <1>1, <1>2, <1>3, PTL DEF Spec

\* Served one at a time and with one death at any step, the applications of any number of
\* edits leave boundaries that can be closed: at most one is open, and the Run is where it
\* put it or where it began.
THEOREM BoundariesAlwaysReconcile ==
    ASSUME FileEditsConstants, MaxFaults <= 1, NEW a, Appliers = {a}
    PROVE  Spec => []BoundariesReconcile
<1>1. Init => FilesInv /\ BoundaryInv(a)
  <2> SUFFICES ASSUME Init PROVE FilesInv /\ BoundaryInv(a)
    OBVIOUS
  <2>1. applier[a].pc = "idle" /\ cursor = None
    BY DEF Init, Idle
  <2>2. \A e \in Edits : boundary[e].status = "none" /\ boundary[e].after = None
    BY DEF Init, NoBoundary
  <2>3. None \notin Befores
    BY CheckpointsDiffer
  <2> QED
    BY <2>1, <2>2, <2>3, FilesInit
    DEF BoundaryInv, Reconcilable, Prepares, Keeps, Bounded, Befores
<1>2. FilesInv /\ BoundaryInv(a) /\ [Next]_vars => FilesInv' /\ BoundaryInv(a)'
  BY FilesNext, BoundariesNext
<1>3. FilesInv /\ BoundaryInv(a) => BoundariesReconcile
  <2>1. FilesInv => DOMAIN edit = Edits
    BY DEF FilesInv, Types
  <2> QED
    BY <2>1 DEF BoundaryInv, Reconcilable, Prepares, Open, Checkpoint, BoundariesReconcile
<1>4. QED
  BY <1>1, <1>2, <1>3, PTL DEF Spec
=============================================================================
