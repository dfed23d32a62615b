----------------------------- MODULE MonthLedger -----------------------------
(***************************************************************************)
(* What month closing promises, without transactions, locks or checks: the *)
(* ledger of one score month, one row per business record, changes only    *)
(* where the month is open; closing a scope needs every work item of the   *)
(* scope to be settled and seals the counted points of the scope.          *)
(*                                                                         *)
(* A scope is one circle (attraction) or All, the closure row whose        *)
(* attraction_id is NULL and which covers every circle.                    *)
(***************************************************************************)
EXTENDS Naturals, FiniteSets

CONSTANTS
    Circles,    \* the employee circles (Attraction rows)
    All,        \* the global scope, not a circle: MonthClosure.attraction_id IS NULL
    Records,    \* identities of recognitions, deductions and other month rows
    Home,       \* the circle whose month a record belongs to
    Points      \* the points a counted record may carry

Scopes == Circles \cup {All}

Covers(s) == IF s = All THEN Circles ELSE {s}

\* "pending" stands for every status that month_close_work_queries counts; only
\* a counted row's points matter.
Row == [status : {"absent", "pending", "void"}, points : {0}]
           \cup [status : {"counted"}, points : Points]

Absent == [status |-> "absent", points |-> 0]

VARIABLES
    ended,   \* the month lies before the current calendar month
    closed,  \* closed[s]: the closure row of scope s exists and is closed
    ledger,  \* the committed rows
    sealed   \* sealed[s]: the (record, points) pairs captured by the last close

vars == <<ended, closed, ledger, sealed>>

InScope(s) == {r \in Records : Home[r] \in Covers(s)}

OpenIn(c) == ~closed[All] /\ ~closed[c]

Counted(s) ==
    {<<r, ledger[r].points>> : r \in {q \in InScope(s) : ledger[q].status = "counted"}}

Settled(s) == \A r \in InScope(s) : ledger[r].status # "pending"

TypeOK ==
    /\ ended \in BOOLEAN
    /\ closed \in [Scopes -> BOOLEAN]
    /\ ledger \in [Records -> Row]
    /\ sealed \in [Scopes -> SUBSET (Records \X Points)]

Init ==
    /\ ended = FALSE
    /\ closed = [s \in Scopes |-> FALSE]
    /\ ledger = [r \in Records |-> Absent]
    /\ sealed = [s \in Scopes |-> {}]

EndMonth ==
    /\ ended' = TRUE
    /\ UNCHANGED <<closed, ledger, sealed>>

\* One committed business transaction: every row it changes lies in an open circle.
Write ==
    /\ ledger' \in [Records -> Row]
    /\ \A r \in Records : ledger'[r] # ledger[r] => OpenIn(Home[r])
    /\ UNCHANGED <<ended, closed, sealed>>

Close(s) ==
    /\ ended
    /\ ~closed[s] /\ ~closed[All]
    /\ Settled(s)
    /\ closed' = [closed EXCEPT ![s] = TRUE]
    /\ sealed' = [sealed EXCEPT ![s] = Counted(s)]
    /\ UNCHANGED <<ended, ledger>>

\* A circle cannot be reopened from under a global close.
Reopen(s) ==
    /\ closed[s]
    /\ s # All => ~closed[All]
    /\ closed' = [closed EXCEPT ![s] = FALSE]
    /\ UNCHANGED <<ended, ledger, sealed>>

Next ==
    \/ EndMonth
    \/ Write
    \/ \E s \in Scopes : Close(s) \/ Reopen(s)

Spec == Init /\ [][Next]_vars
==============================================================================
