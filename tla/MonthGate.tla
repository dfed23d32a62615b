------------------------------ MODULE MonthGate ------------------------------
(***************************************************************************)
(* How month_closure.py keeps a closed month closed, one score month.      *)
(*                                                                         *)
(* Request handlers run concurrently, each with its own SQLAlchemy session *)
(* on SQLite in WAL mode: any number of readers, one writer, and a read    *)
(* outside a transaction sees the last commit.  A handler that changes     *)
(* month data calls ensure_month_open early, without the writer, which     *)
(* registers the scope in the session; the before_flush and before_commit  *)
(* listeners take the writer and look again at every registered scope.     *)
(* Three shapes of handler occur in the code:                              *)
(*   - check, await the uploads, then the first flush reserves the writer  *)
(*     (create_deduction, retry_deduction_material, withdraw_recognition); *)
(*   - check, then an SQL UPDATE takes the writer without a look           *)
(*     (create_deduction_upgrade);                                         *)
(*   - BEGIN IMMEDIATE first, check under the writer (void, restore,       *)
(*     correct, resolve, review).                                          *)
(* close_month and reopen_month reserve the writer before they read.       *)
(***************************************************************************)
EXTENDS Naturals, FiniteSets

CONSTANTS
    Circles,    \* the employee circles (Attraction rows)
    All,        \* the global scope: MonthClosure.attraction_id IS NULL
    Records,    \* identities of recognitions, deductions and other month rows
    Home,       \* attraction_id_snapshot / home_attraction_id of a record
    Points,     \* the points a counted record may carry
    Sessions,   \* requests in flight, one database session each
    NoSession   \* nobody holds SQLite's writer

ASSUME GateAssumption ==
    /\ All \notin Circles
    /\ Home \in [Records -> Circles]
    /\ NoSession \notin Sessions

Scopes == Circles \cup {All}

Covers(s) == IF s = All THEN Circles ELSE {s}

\* "pending" stands for every status that month_close_work_queries counts; only
\* a counted row's points matter.
Row == [status : {"absent", "pending", "void"}, points : {0}]
           \cup [status : {"counted"}, points : Points]

Absent == [status |-> "absent", points |-> 0]

VARIABLES
    ended,    \* the month lies before the current calendar month
    closure,  \* month_closures.status per scope, "none" before the first close
    rows,     \* the committed rows of the month
    sealed,   \* the counted points captured at the last close of a scope
    writer,   \* the session that holds SQLite's writer
    draft,    \* the rows as the writer's transaction sees them
    pc,       \* where each session is in its handler
    checks,   \* db.info['_month_write_checks'] of each session
    target    \* the scope a close or reopen request names

dbVars == <<ended, closure, rows, sealed>>
vars == <<ended, closure, rows, sealed, writer, draft, pc, checks, target>>

Phases == {"idle", "checked", "writing", "closing", "reopening"}

InScope(s) == {r \in Records : Home[r] \in Covers(s)}

\* Seeded fault: void rows are captured with the counted ones.
CountedOrVoid(s) ==
    {<<r, rows[r].points>> : r \in {q \in InScope(s) : rows[q].status \in {"counted", "void"}}}

Counted(s) ==
    {<<r, rows[r].points>> : r \in {q \in InScope(s) : rows[q].status = "counted"}}

\* Seeded fault: only the row of the scope itself is looked up.
IsClosedOwnRow(s) == closure[s] = "closed"

\* month_closure_scope: the global closure counts for every circle.
IsClosed(s) == closure[All] = "closed" \/ closure[s] = "closed"

\* Seeded fault: the early check is trusted, nothing is looked up again.
ChecksTrusted(h) == TRUE

\* _validate_month_writes looks at every registered scope again.
ChecksPass(h) == \A c \in checks[h] : ~IsClosed(c)

\* Seeded fault: the close does not wait for unresolved work.
ChecklistSkipped(s) == TRUE

\* month_close_checklist: no unresolved work in the scope.
ChecklistEmpty(s) == \A r \in InScope(s) : rows[r].status # "pending"

TypeOK ==
    /\ ended \in BOOLEAN
    /\ closure \in [Scopes -> {"none", "open", "closed"}]
    /\ rows \in [Records -> Row]
    /\ sealed \in [Scopes -> SUBSET (Records \X Points)]
    /\ writer \in Sessions \cup {NoSession}
    /\ draft \in [Records -> Row]
    /\ pc \in [Sessions -> Phases]
    /\ checks \in [Sessions -> SUBSET Circles]
    /\ target \in [Sessions -> Scopes]

Init ==
    /\ ended = FALSE
    /\ closure = [s \in Scopes |-> "none"]
    /\ rows = [r \in Records |-> Absent]
    /\ sealed = [s \in Scopes |-> {}]
    /\ writer = NoSession
    /\ draft = rows
    /\ pc = [h \in Sessions |-> "idle"]
    /\ checks = [h \in Sessions |-> {}]
    /\ target = [h \in Sessions |-> All]

EndMonth ==
    /\ ~ended
    /\ ended' = TRUE
    /\ UNCHANGED <<closure, rows, sealed, writer, draft, pc, checks, target>>

\* The session ends its outermost transaction: the registered checks go with it.
EndTransaction(h) ==
    /\ pc' = [pc EXCEPT ![h] = "idle"]
    /\ checks' = [checks EXCEPT ![h] = {}]
    /\ writer' = IF writer = h THEN NoSession ELSE writer
    /\ target' = [target EXCEPT ![h] = All]

TakeWriter(h, phase) ==
    /\ writer = NoSession
    /\ writer' = h
    /\ pc' = [pc EXCEPT ![h] = phase]
    /\ draft' = rows

-----------------------------------------------------------------------------
(* Handlers that change month data. *)

\* ensure_month_open outside a transaction; a closed month is refused with 423
\* and leaves nothing behind.  Transfers and LOA commands check several scopes.
EarlyCheck(h, c) ==
    /\ pc[h] \in {"idle", "checked"}
    /\ ~IsClosed(c)
    /\ pc' = [pc EXCEPT ![h] = "checked"]
    /\ checks' = [checks EXCEPT ![h] = @ \cup {c}]
    /\ UNCHANGED <<dbVars, writer, draft, target>>

\* The first flush after the uploads: reserve_month_write, then look again.
FlushFirst(h) ==
    /\ pc[h] = "checked"
    /\ TakeWriter(h, "writing")
    /\ ChecksPass(h)
    /\ UNCHANGED <<dbVars, checks, target>>

\* An SQL UPDATE of the handler opens the transaction and looks at nothing.
UpdateFirst(h) ==
    /\ pc[h] = "checked"
    /\ TakeWriter(h, "writing")
    /\ UNCHANGED <<dbVars, checks, target>>

\* BEGIN IMMEDIATE before any check.
BeginImmediate(h) ==
    /\ pc[h] = "idle"
    /\ TakeWriter(h, "writing")
    /\ UNCHANGED <<dbVars, checks, target>>

CheckInTransaction(h, c) ==
    /\ pc[h] = "writing"
    /\ ~IsClosed(c)
    /\ checks' = [checks EXCEPT ![h] = @ \cup {c}]
    /\ UNCHANGED <<dbVars, writer, draft, pc, target>>

\* A handler writes the rows of the circles it has checked, to any new content.
Write(h, r, w) ==
    /\ pc[h] = "writing"
    /\ Home[r] \in checks[h]
    /\ w # draft[r]
    /\ draft' = [draft EXCEPT ![r] = w]
    /\ UNCHANGED <<dbVars, writer, pc, checks, target>>

Commit(h) ==
    /\ pc[h] = "writing"
    /\ ChecksPass(h)
    /\ rows' = draft
    /\ EndTransaction(h)
    /\ UNCHANGED <<ended, closure, sealed, draft>>

-----------------------------------------------------------------------------
(* close_month and reopen_month. *)

CloseReserve(h, s) ==
    /\ pc[h] = "idle"
    /\ ended
    /\ TakeWriter(h, "closing")
    /\ target' = [target EXCEPT ![h] = s]
    /\ UNCHANGED <<dbVars, checks>>

CloseCommit(h) ==
    LET s == target[h] IN
    /\ pc[h] = "closing"
    /\ ~IsClosed(s)
    /\ ChecklistEmpty(s)
    /\ closure' = [closure EXCEPT ![s] = "closed"]
    /\ sealed' = [sealed EXCEPT ![s] = Counted(s)]
    /\ EndTransaction(h)
    /\ UNCHANGED <<ended, rows, draft>>

ReopenReserve(h, s) ==
    /\ pc[h] = "idle"
    /\ TakeWriter(h, "reopening")
    /\ target' = [target EXCEPT ![h] = s]
    /\ UNCHANGED <<dbVars, checks>>

ReopenCommit(h) ==
    LET s == target[h] IN
    /\ pc[h] = "reopening"
    /\ s # All => closure[All] # "closed"
    /\ closure[s] = "closed"
    /\ closure' = [closure EXCEPT ![s] = "open"]
    /\ EndTransaction(h)
    /\ UNCHANGED <<ended, rows, sealed, draft>>

-----------------------------------------------------------------------------
\* Any handler may end without a commit: 423 from a check, 409 from a close or
\* reopen, a busy timeout, a client that disconnects, an exception.
Abort(h) ==
    /\ pc[h] # "idle"
    /\ EndTransaction(h)
    /\ draft' = IF writer = h THEN rows ELSE draft
    /\ UNCHANGED dbVars

\* The server process dies: committed rows stay, sessions are gone.
Crash ==
    /\ \E h \in Sessions : pc[h] # "idle"
    /\ pc' = [h \in Sessions |-> "idle"]
    /\ checks' = [h \in Sessions |-> {}]
    /\ writer' = NoSession
    /\ draft' = rows
    /\ target' = [h \in Sessions |-> All]
    /\ UNCHANGED dbVars

Next ==
    \/ EndMonth
    \/ Crash
    \/ \E h \in Sessions :
        \/ \E c \in Circles : EarlyCheck(h, c) \/ CheckInTransaction(h, c)
        \/ FlushFirst(h) \/ UpdateFirst(h) \/ BeginImmediate(h)
        \/ \E r \in Records, w \in Row : Write(h, r, w)
        \/ Commit(h)
        \/ \E s \in Scopes : CloseReserve(h, s) \/ ReopenReserve(h, s)
        \/ CloseCommit(h) \/ ReopenCommit(h)
        \/ Abort(h)

Spec == Init /\ [][Next]_vars

-----------------------------------------------------------------------------
(* Properties. *)

\* What a close captured stays true for as long as the scope is closed: the
\* counted records of a closed scope and their points are those that
\* capture_month_ranks read, and no unresolved work has appeared in it, however
\* the handlers that passed their early check before the close interleave.
SealMatchesLedger ==
    \A s \in Scopes : closure[s] = "closed" =>
        /\ sealed[s] = Counted(s)
        /\ \A r \in InScope(s) : rows[r].status # "pending"

\* No commit changes a row of a circle whose month is closed when it commits
\* (the race that _validate_month_writes exists for).
ClosedMonthFrozen ==
    [][\A r \in Records : rows'[r] # rows[r] => ~IsClosed(Home[r])]_vars

Ledger == INSTANCE MonthLedger WITH
    closed <- [s \in Scopes |-> closure[s] = "closed"],
    ledger <- rows

\* The transaction protocol implements the ledger with atomic writes.
RefinesLedger == Ledger!Spec
==============================================================================
