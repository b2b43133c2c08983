----------------------------- MODULE Delegation -----------------------------
(***************************************************************************)
(* Delegation: the root Agent proposes a team of Specialists, an operator  *)
(* reviews the proposal, and an application of it admits each Specialist   *)
(* and sends it its instruction.                                           *)
(*                                                                         *)
(* An application is a row with one assignment per Specialist, and the     *)
(* loop that works it off is not one transaction: it admits, notes that it *)
(* did, sends, notes that it did.  Whoever repeats the request, after a    *)
(* crash or at the same time, goes through the loop again.  While the row  *)
(* says "applying" the capacity of the root is held for it, not by a       *)
(* reservation but by keeping everybody else from using any.               *)
(***************************************************************************)
EXTENDS DelegationPromises

CONSTANTS
    Proposals,
    Appliers,       \* requests to apply a proposal; they may be repeated
    ProposalOf, KeyOf,  \* what each applies, under which operation key
    TaskTurns       \* what an admitted child task may ask for

DelegationConstants ==
    /\ TurnsOf \in [Proposals -> Seq(Nat \ {0})]
    /\ ProposalOf \in [Appliers -> Proposals] /\ DOMAIN KeyOf = Appliers
    /\ "task" \notin Proposals
    /\ TaskTurns \subseteq Nat \ {0} /\ {MaxTurns, MaxChildren} \subseteq Nat

VARIABLES
    busy,         \* a schedule is running
    applier       \* what each request remembers

vars == <<run, root, used, busy, proposal, application, agents, messages, applier>>

NoApplication == [status |-> "none", key |-> "none", assignment |-> << >>]
Pending == [status |-> "pending", agent |-> 0, message |-> 0]
Idle == [pc |-> "idle", at |-> 0, skip |-> {}, agent |-> 0, message |-> 0]

\* Rows and memories keep their types.
TypeOK ==
    /\ run \in {"running", "paused", "ended"} /\ root \in {"ready", "running"}
    /\ used \in 0 .. MaxTurns /\ busy \in BOOLEAN
    /\ proposal \in [Proposals -> {"none", "proposed", "approved", "rejected"}]
    /\ \A p \in Proposals :
         /\ application[p].status \in {"none", "applying", "applied", "aborted"}
         /\ application[p].assignment \in
                Seq([status : {"pending", "admitted", "instructed"},
                     agent : 0 .. MaxChildren, message : 0 .. MaxChildren])
    /\ \A n \in DOMAIN agents : agents[n].turns \in Nat
    /\ \A m \in DOMAIN messages : messages[m].to \in DOMAIN agents
    /\ \A a \in Appliers :
         applier[a].pc \in {"idle", "admit", "note", "send", "confirm", "complete"}

Init ==
    /\ run = "running" /\ root = "ready" /\ used = 0 /\ busy = FALSE
    /\ proposal = [p \in Proposals |-> "none"]
    /\ application = [p \in Proposals |-> NoApplication]
    /\ agents = << >> /\ messages = << >>
    /\ applier = [a \in Appliers |-> Idle]

-----------------------------------------------------------------------------
(* The root Agent, its proposals and their reviews *)

\* BeginSupervisorTurn; turn and schedule exclude each other by the lease.
RootBegins ==
    /\ run = "running" /\ root = "ready" /\ ~busy /\ Applying = {}
    /\ used < MaxTurns - ReservedTurns
    /\ root' = "running"
    /\ UNCHANGED <<run, used, busy, proposal, application, agents, messages, applier>>

RootEnds ==
    /\ run = "running" /\ root = "running"
    /\ root' = "ready" /\ used' = used + 1
    /\ UNCHANGED <<run, busy, proposal, application, agents, messages, applier>>

\* CreateSpecialistDelegationProposal, a tool call of the root's turn: the
\* turn under way and one after it must remain.
Propose(p) ==
    /\ run = "running" /\ root = "running" /\ proposal[p] = "none"
    /\ Len(agents) + Len(TurnsOf[p]) <= MaxChildren
    /\ SumOf(TurnsOf[p]) <= MaxTurns - ReservedTurns - used - 2
    /\ proposal' = [proposal EXCEPT ![p] = "proposed"]
    /\ UNCHANGED <<run, root, used, busy, application, agents, messages, applier>>

\* CreateSpecialistDelegationReview.
Review(p) ==
    /\ proposal[p] = "proposed"
    /\ \/ run = "running" /\ proposal' = [proposal EXCEPT ![p] = "approved"]
       \/ proposal' = [proposal EXCEPT ![p] = "rejected"]
    /\ UNCHANGED <<run, root, used, busy, application, agents, messages, applier>>

-----------------------------------------------------------------------------
(* Applications *)

Shared == <<run, root, used, busy, proposal>>

\* The loop goes on with the next assignment that the row read at its
\* beginning did not call instructed.
Ahead(skip, p, i) ==
    LET rest == {j \in i + 1 .. Len(TurnsOf[p]) : j \notin skip}
    IN  [Idle EXCEPT !.skip = skip,
            !.pc = IF rest = {} THEN "complete" ELSE "admit",
            !.at = IF rest = {} THEN 0 ELSE CHOOSE j \in rest : \A k \in rest : j <= k]

\* BeginSpecialistDelegationApplication for the first time.
Apply(a) ==
    LET p == ProposalOf[a] IN
    /\ applier[a].pc = "idle" /\ application[p].status = "none"
    /\ proposal[p] = "approved" /\ run = "running" /\ root = "ready" /\ ~busy
    /\ Applying = {} /\ Fits(Len(TurnsOf[p]), SumOf(TurnsOf[p]))
    /\ application' = [application EXCEPT ![p] =
           [status |-> "applying", key |-> KeyOf[a],
            assignment |-> [i \in DOMAIN TurnsOf[p] |-> Pending]]]
    /\ applier' = [applier EXCEPT ![a] = Ahead({}, p, 0)]
    /\ UNCHANGED <<Shared, agents, messages>>

\* And again, under the same key; under another one it is a conflict.
Repeat(a) ==
    LET p == ProposalOf[a] IN
    /\ applier[a].pc = "idle" /\ application[p].status = "applying"
    /\ application[p].key = KeyOf[a]
    /\ applier' = [applier EXCEPT ![a] = Ahead(Instructed(p), p, 0)]
    /\ UNCHANGED <<Shared, application, agents, messages>>

Go(a, pc) == applier' = [applier EXCEPT ![a].pc = pc]

\* The request fails, is cancelled, or its process dies.
Gone(a) == applier' = [applier EXCEPT ![a] = Idle]
Fails(a) ==
    /\ applier[a].pc # "idle" /\ Gone(a)
    /\ UNCHANGED <<Shared, application, agents, messages>>

KeyAt(a) == <<ProposalOf[a], applier[a].at>>
Row(a) == application[ProposalOf[a]].assignment[applier[a].at]

\* requireSpecialistDelegationApplicationAdmissionTx.
MayAdmit(key) ==
    \/ Applying = {}
    \/ \E p \in Applying : \E i \in DOMAIN application[p].assignment :
           key = <<p, i>> /\ application[p].assignment[i].status \in {"pending", "admitted"}

\* AdmitSpecialist under a key it has not seen.
New(key, turns) ==
    /\ MayAdmit(key) /\ run = "running" /\ root = "ready" /\ Fits(1, turns)
    /\ agents' = Append(agents, [key |-> key, turns |-> turns])

\* Faulty: every call admits another Specialist.
AdmitAnew(a) ==
    LET turns == TurnsOf[ProposalOf[a]][applier[a].at] IN
    /\ applier[a].pc = "admit"
    /\ New(KeyAt(a), turns)
    /\ applier' = [applier EXCEPT ![a].pc = "note", ![a].agent = Len(agents) + 1]
    /\ UNCHANGED <<Shared, application, messages>>

\* AdmitSpecialist; a key it has seen is answered, whatever has become of
\* the Run meanwhile.
Admit(a) ==
    LET turns == TurnsOf[ProposalOf[a]][applier[a].at]
        found == WithKey(agents, KeyAt(a))
        note(n) == applier' = [applier EXCEPT ![a].pc = "note", ![a].agent = n]
    IN  /\ applier[a].pc = "admit"
        /\ \/ \E n \in found : note(n) /\ UNCHANGED agents
           \/ found = {} /\ New(KeyAt(a), turns) /\ note(Len(agents) + 1)
        /\ UNCHANGED <<Shared, application, messages>>

\* The row of the assignment is there already, or moves on while applying.
Note(a) ==
    LET p == ProposalOf[a] IN
    /\ applier[a].pc = "note" /\ Go(a, "send")
    /\ \/ /\ Row(a).status # "pending" /\ Row(a).agent = applier[a].agent
          /\ UNCHANGED application
       \/ /\ Row(a).status = "pending" /\ application[p].status = "applying"
          /\ application' = [application EXCEPT ![p].assignment[applier[a].at] =
                 [@ EXCEPT !.status = "admitted", !.agent = applier[a].agent]]
    /\ UNCHANGED <<Shared, agents, messages>>

\* SendAgentMessage with the key of the assignment; while an application is
\* under way nothing else may be sent, and never to an Agent that has ended.
Send(a) ==
    LET found == WithKey(messages, KeyAt(a))
        confirm(m) == applier' = [applier EXCEPT ![a].pc = "confirm", ![a].message = m]
    IN  /\ applier[a].pc = "send"
        /\ \/ \E m \in found : confirm(m) /\ UNCHANGED messages
           \/ /\ found = {} /\ run # "ended"
              /\ Applying # {} =>
                    /\ ProposalOf[a] \in Applying
                    /\ Row(a).status # "pending" /\ Row(a).agent = applier[a].agent
              /\ messages' = Append(messages, [key |-> KeyAt(a), to |-> applier[a].agent,
                                               read |-> FALSE])
              /\ confirm(Len(messages) + 1)
        /\ UNCHANGED <<Shared, application, agents>>

\* A trigger wants the instruction still unread.
Confirm(a) ==
    LET p == ProposalOf[a]
        message == applier[a].message
    IN  /\ applier[a].pc = "confirm"
        /\ applier' = [applier EXCEPT ![a] = Ahead(@.skip, p, @.at)]
        /\ \/ Row(a).status = "instructed" /\ Row(a).message = message /\ UNCHANGED application
           \/ /\ Row(a).status = "admitted" /\ Row(a).agent = applier[a].agent
              /\ application[p].status = "applying" /\ ~messages[message].read
              /\ application' = [application EXCEPT ![p].assignment[applier[a].at] =
                     [@ EXCEPT !.status = "instructed", !.message = message]]
        /\ UNCHANGED <<Shared, agents, messages>>

\* CompleteSpecialistDelegationApplication.
Complete(a) ==
    LET p == ProposalOf[a] IN
    /\ applier[a].pc = "complete" /\ Gone(a)
    /\ application[p].status = "applying" /\ Instructed(p) = DOMAIN application[p].assignment
    /\ application' = [application EXCEPT ![p].status = "applied"]
    /\ UNCHANGED <<Shared, agents, messages>>

-----------------------------------------------------------------------------
(* Others that use the capacity of the root *)

\* An admitted child task is a Specialist too.
AdmitChildTask ==
    /\ WithKey(agents, <<"task", 1>>) = {}
    /\ \E turns \in TaskTurns : New(<<"task", 1>>, turns)
    /\ UNCHANGED <<Shared, application, messages, applier>>

\* Faulty: a schedule may start while an application is under way.
ScheduleAnyhow ==
    /\ run = "running" /\ root = "ready" /\ ~busy /\ agents # << >>
    /\ busy' = TRUE
    /\ UNCHANGED <<run, root, used, proposal, application, agents, messages, applier>>

\* A schedule runs the Specialists, which read what they were sent.
Schedule ==
    /\ run = "running" /\ root = "ready" /\ ~busy /\ agents # << >> /\ Applying = {}
    /\ busy' = TRUE
    /\ UNCHANGED <<run, root, used, proposal, application, agents, messages, applier>>

ScheduleEnds ==
    /\ busy /\ busy' = FALSE
    /\ \E some \in SUBSET DOMAIN messages :
           messages' = [m \in DOMAIN messages |->
               [messages[m] EXCEPT !.read = @ \/ (run = "running" /\ m \in some)]]
    /\ UNCHANGED <<run, root, used, proposal, application, agents, applier>>

Pause == /\ run = "running" /\ root = "ready" /\ run' = "paused"
         /\ UNCHANGED <<root, used, busy, proposal, application, agents, messages, applier>>
Resume == /\ run = "paused" /\ run' = "running"
          /\ UNCHANGED <<root, used, busy, proposal, application, agents, messages, applier>>

\* abortSpecialistDelegationApplicationsTx with the Run that ends.
EndRun ==
    /\ run # "ended" /\ run' = "ended" /\ root' = "ready"
    /\ application' = [p \in Proposals |->
           IF p \in Applying THEN [application[p] EXCEPT !.status = "aborted"]
           ELSE application[p]]
    /\ UNCHANGED <<used, busy, proposal, agents, messages, applier>>

Next ==
    \/ RootBegins \/ RootEnds \/ AdmitChildTask \/ Schedule \/ ScheduleEnds
    \/ Pause \/ Resume \/ EndRun
    \/ \E p \in Proposals : Propose(p) \/ Review(p)
    \/ \E a \in Appliers : \/ Apply(a) \/ Repeat(a) \/ Admit(a) \/ Note(a) \/ Send(a)
                           \/ Confirm(a) \/ Complete(a) \/ Fails(a)

Spec == Init /\ [][Next]_vars
=============================================================================
