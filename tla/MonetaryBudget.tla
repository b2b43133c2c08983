--------------------------- MODULE MonetaryBudget ---------------------------
(***************************************************************************)
(* The ledger of what the model calls of one Run may cost.  Before a call  *)
(* its upper bound is reserved under the cap of the Run; after it the      *)
(* reservation is settled with what the call cost, or released.  The       *)
(* callers (the root Agent, Specialists, shards of a read-only fan-out)    *)
(* work side by side and may crash between any two transactions; what they *)
(* leave open is reconciled with the terminal events of the calls.         *)
(***************************************************************************)
EXTENDS MonetaryPromises, FiniteSets

CONSTANTS
    Callers,
    Scope,       \* of each caller: "root", "specialist" or "readonly_fanout"
    Model,       \* the model each caller calls
    Costs,       \* what a call may cost, as estimated or in the end
    MaxCalls,    \* bound: calls per turn of a caller
    MaxTurns, MaxTables, MaxFaults     \* bounds

MoneyConstants ==
    /\ Scope \in [Callers -> {"root", "specialist", "readonly_fanout"}]
    /\ Cap \in Nat \ {0} /\ Costs \subseteq Nat \ {0}
    /\ {MaxCalls, MaxTurns, MaxTables} \subseteq Nat \ {0} /\ MaxFaults \in Nat

VARIABLES
    ended,        \* is the Run terminal?
    table,        \* the active price table: its number, does it list the models
    usage,        \* the row of run_monetary_usage
    event,        \* the latest terminal model event of each attempt number
    caller,       \* what each caller remembers
    crashes

vars == <<ended, table, usage, reservation, event, caller, crashes>>

Numbers == 1 .. MaxCalls * MaxTurns
Keys    == {Scope[c] : c \in Callers} \X Numbers
Models  == {Model[c] : c \in Callers}

NoReservation == [status |-> "none", amount |-> 0, settled |-> 0, released |-> 0,
                  model |-> "none", table |-> 0]
NoEvent == [type |-> "none", model |-> "none", cost |-> 0]
Idle == [pc |-> "idle", turn |-> 1, calls |-> 0, amount |-> 0, cost |-> 0]

\* Rows and copies keep their types.
TypeOK ==
    /\ ended \in BOOLEAN /\ crashes \in 0 .. MaxFaults
    /\ table \in [number : 0 .. MaxTables, listed : BOOLEAN]
    /\ usage \in [reserved : Nat, settled : Nat, released : Nat]
    /\ reservation \in [Keys -> [status : {"none", "reserved", "settled", "released"},
                                 amount : Costs \cup {0}, settled : Nat, released : Nat,
                                 model : Models \cup {"none"}, table : 0 .. MaxTables]]
    /\ event \in [Numbers -> [type : {"none", "completed", "failed"},
                              model : Models \cup {"none"}, cost : Costs \cup {0}]]
    /\ caller \in [Callers -> [pc : {"idle", "reserve", "view", "call", "settle", "release",
                                     "check"},
                               turn : 1 .. MaxTurns, calls : 0 .. MaxCalls,
                               amount : Costs \cup {0}, cost : Costs \cup {0}]]

Init ==
    /\ ended = FALSE /\ crashes = 0
    /\ table = [number |-> 1, listed |-> TRUE]
    /\ usage = [reserved |-> 0, settled |-> 0, released |-> 0]
    /\ reservation = [k \in Keys |-> NoReservation]
    /\ event = [n \in Numbers |-> NoEvent]
    /\ caller = [c \in Callers |-> Idle]

-----------------------------------------------------------------------------
(* The ledger *)

Least(a, b) == IF a < b THEN a ELSE b

Open(k) == reservation[k].status = "reserved"
OpenKeys == {k \in Keys : Open(k)}

\* A row that is closed with what of it was spent; the rest is released.
Closed(row, status, spent) ==
    [row EXCEPT !.status = status, !.settled = spent, !.released = row.amount - spent]

\* The table decides what a call cost; without an entry it cost its bound.
Charge(row, cost) == IF table.listed THEN Least(cost, row.amount) ELSE row.amount

\* An open row is closed by the latest terminal event of its number that
\* names its model, whoever's turn that event is of.
Reconciled(k) ==
    LET e == event[k[2]]
        row == reservation[k]
    IN  IF ~Open(k) \/ e.type = "none" \/ e.model # row.model THEN row
        ELSE IF e.type = "completed" THEN Closed(row, "settled", Charge(row, e.cost))
        ELSE Closed(row, "released", 0)

ReconciledRows == [k \in Keys |-> Reconciled(k)]

\* The totals follow the rows that a transaction closes.
Settling(rows) == {k \in Keys : rows[k] # reservation[k]}
WithTotals(rows) ==
    [usage EXCEPT !.settled  = @ + MapThenSumSet(LAMBDA k : rows[k].settled, Settling(rows)),
                  !.released = @ + MapThenSumSet(LAMBDA k : rows[k].released, Settling(rows))]

Reconcile ==
    /\ reservation' = ReconciledRows
    /\ usage' = WithTotals(ReconciledRows)

OpenMicros(u) == u.reserved - u.settled - u.released

-----------------------------------------------------------------------------
(* Callers *)

Step(c, pc) == caller' = [caller EXCEPT ![c].pc = pc, ![c].amount = 0]

\* Numbers of model attempts begin anew with every turn, except that those
\* of a fan-out are derived from its execution and its shard.
Number(c) == IF Scope[c] = "readonly_fanout"
             THEN (caller[c].turn - 1) * MaxCalls + caller[c].calls + 1
             ELSE caller[c].calls + 1
Key(c)    == <<Scope[c], Number(c)>>

NextTurn(c) == [caller[c] EXCEPT !.pc = "idle", !.turn = @ + 1, !.calls = 0,
                                 !.amount = 0, !.cost = 0]

\* The turn fails or ends; there may be another one.
TurnEnds(c) == caller' = [caller EXCEPT ![c] = IF caller[c].turn < MaxTurns THEN NextTurn(c)
                                               ELSE [NextTurn(c) EXCEPT !.turn = MaxTurns,
                                                                        !.calls = MaxCalls]]

\* The bound of the next call is estimated.
Begin(c) ==
    /\ caller[c].pc = "idle" /\ caller[c].calls < MaxCalls
    /\ \E amount \in Costs :
           caller' = [caller EXCEPT ![c].pc = "reserve", ![c].amount = amount]
    /\ UNCHANGED <<ended, table, usage, reservation, event, crashes>>

\* Faulty: what is reserved now does not count.
FitsBefore(u, amount) == OpenMicros(u) <= Cap

Fits(u, amount) == OpenMicros(u) <= Cap - amount

Same(row, c) ==
    row.amount = caller[c].amount /\ row.table = table.number /\ row.model = Model[c]

Refuse(c) == UNCHANGED <<usage, reservation>> /\ TurnEnds(c)

\* ReserveModelCost, after a reconciliation in the same transaction: a row
\* of this key answers for the call if it is the same and refuses it if not;
\* else the amount has to fit.  A refusal for its lack is committed.
Reserve(c) ==
    LET row  == Reconciled(Key(c))
        u    == WithTotals(ReconciledRows)
    IN  /\ caller[c].pc = "reserve"
        /\ IF ~table.listed \/ ended THEN Refuse(c)
           ELSE IF row.status # "none"
           THEN IF ~Same(row, c)
                THEN \* a conflict: the turn of the root stays as it is
                     /\ UNCHANGED <<usage, reservation>>
                     /\ IF Scope[c] = "root" THEN Step(c, "idle") ELSE TurnEnds(c)
                ELSE IF u.settled > Cap THEN Refuse(c)
                ELSE Reconcile /\ Step(c, "call")
           ELSE IF ~Fits(u, caller[c].amount) THEN Reconcile /\ TurnEnds(c)
           ELSE /\ reservation' = [ReconciledRows EXCEPT ![Key(c)] =
                       [NoReservation EXCEPT !.status = "reserved", !.amount = caller[c].amount,
                                             !.model = Model[c], !.table = table.number]]
                /\ usage' = [u EXCEPT !.reserved = @ + caller[c].amount]
                /\ Step(c, "view")
        /\ UNCHANGED <<ended, table, event, crashes>>

\* A fan-out does not look at the result of its settlement.
IgnoresErrors(c) == caller[c].pc = "check" /\ Scope[c] = "readonly_fanout"

\* The totals are read back, which reconciles again, and are refused when
\* more than the cap has been settled; the reservation then stays open.
View(c) ==
    /\ caller[c].pc \in {"view", "check"}
    /\ Reconcile
    /\ IF WithTotals(ReconciledRows).settled > Cap /\ ~IgnoresErrors(c) THEN TurnEnds(c)
       ELSE IF caller[c].pc = "view" THEN Step(c, "call")
       ELSE caller' = [caller EXCEPT ![c].pc = "idle"]
    /\ UNCHANGED <<ended, table, event, crashes>>

Calls(c) == caller[c].calls + 1

\* The call returns, and its terminal event is written down; a fan-out
\* writes no such event, and releases nothing when its shard fails.
Call(c) ==
    /\ caller[c].pc = "call"
    /\ \E cost \in Costs, type \in {"completed", "failed"} :
         /\ IF Scope[c] = "readonly_fanout" THEN UNCHANGED event
            ELSE event' = [event EXCEPT ![Number(c)] =
                              [type |-> type, model |-> Model[c],
                               cost |-> IF type = "completed" THEN cost ELSE 0]]
         /\ IF type = "completed"
            THEN caller' = [caller EXCEPT ![c].pc = "settle", ![c].cost = cost]
            ELSE IF Scope[c] = "readonly_fanout" THEN TurnEnds(c)
            ELSE Step(c, "release")
    /\ UNCHANGED <<ended, table, usage, reservation, crashes>>

MayClose(k) == Open(k)

\* SettleModelCost: the row is closed, or has been closed by a settlement.
Settle(c) ==
    LET k == Key(c)
        row == Closed(reservation[k], "settled", Charge(reservation[k], caller[c].cost))
    IN  /\ caller[c].pc = "settle"
        /\ IF MayClose(k)
           THEN /\ reservation' = [reservation EXCEPT ![k] = row]
                /\ usage' = WithTotals([reservation EXCEPT ![k] = row])
           ELSE UNCHANGED <<usage, reservation>>
        /\ IF MayClose(k) \/ reservation[k].status = "settled"
           THEN caller' = [caller EXCEPT ![c].pc = "check", ![c].calls = Calls(c), ![c].cost = 0]
           ELSE TurnEnds(c)
        /\ UNCHANGED <<ended, table, event, crashes>>

\* ReleaseModelCost; its errors are ignored.
Release(c) ==
    LET k == Key(c)
        row == Closed(reservation[k], "released", 0)
    IN  /\ caller[c].pc = "release"
        /\ IF MayClose(k)
           THEN /\ reservation' = [reservation EXCEPT ![k] = row]
                /\ usage' = WithTotals([reservation EXCEPT ![k] = row])
           ELSE UNCHANGED <<usage, reservation>>
        /\ caller' = [caller EXCEPT ![c].pc = "idle", ![c].calls = Calls(c)]
        /\ UNCHANGED <<ended, table, event, crashes>>

\* The number of a started call is used up: the root starts a call when it
\* has reserved it, a Specialist before that, and the shard of a fan-out
\* that is tried again has the same number.
Started(c) == \/ Scope[c] = "specialist"
              \/ Scope[c] = "root" /\ caller[c].pc \in {"call", "settle", "release"}

Crash(c) ==
    /\ caller[c].pc # "idle" /\ crashes < MaxFaults
    /\ crashes' = crashes + 1
    /\ \/ caller' = [caller EXCEPT ![c].pc = "idle", ![c].amount = 0, ![c].cost = 0,
             ![c].calls = IF Started(c) /\ caller[c].pc # "check" THEN Calls(c) ELSE @]
       \/ TurnEnds(c)
    /\ UNCHANGED <<ended, table, usage, reservation, event>>

-----------------------------------------------------------------------------
(* Operators *)

\* A new table takes the place of the active one, with or without the models.
Import(listed) ==
    /\ table.number < MaxTables
    /\ table' = [number |-> table.number + 1, listed |-> listed]
    /\ UNCHANGED <<ended, usage, reservation, event, caller, crashes>>

\* GetMonetaryUsage for whoever looks at the Run.
Look ==
    /\ Reconcile
    /\ UNCHANGED <<ended, table, event, caller, crashes>>

EndRun ==
    /\ ~ended /\ ended' = TRUE
    /\ UNCHANGED <<table, usage, reservation, event, caller, crashes>>

\* Once the Run is terminal its open reservations are released, if nothing
\* happens to the process that ended it.
ReleaseOpen ==
    LET rows == [k \in Keys |-> IF Open(k) THEN Closed(reservation[k], "released", 0)
                                ELSE reservation[k]]
    IN  /\ ended /\ OpenKeys # {}
        /\ reservation' = rows /\ usage' = WithTotals(rows)
        /\ UNCHANGED <<ended, table, event, caller, crashes>>

Next ==
    \/ \E c \in Callers : Begin(c) \/ Reserve(c) \/ View(c) \/ Call(c) \/ Settle(c)
                          \/ Release(c) \/ Crash(c)
    \/ \E listed \in BOOLEAN : Import(listed)
    \/ Look \/ EndRun \/ ReleaseOpen

Spec == Init /\ [][Next]_vars

-----------------------------------------------------------------------------
(* Properties *)

\* As the validation of the usage row asserts it: what has been settled does
\* not exceed the cap.
SettledIsCapped == usage.settled <= Cap
=============================================================================
