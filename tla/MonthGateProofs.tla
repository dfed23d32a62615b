--------------------------- MODULE MonthGateProofs ---------------------------
(***************************************************************************)
(* Proofs about MonthGate for every set of circles, records, points and    *)
(* sessions.  The inductive invariant says who may hold SQLite's writer,   *)
(* that a transaction differs from the committed rows only where its       *)
(* session registered a check, and that every closed scope still holds     *)
(* what its close sealed.                                                  *)
(***************************************************************************)
EXTENDS MonthGate, TLAPS

\* Exactly the session inside a transaction holds the writer; without a writer
\* there is no uncommitted row.
WriterInv ==
    /\ \A h \in Sessions : pc[h] \in {"writing", "closing", "reopening"} <=> writer = h
    /\ writer = NoSession => draft = rows
    /\ \A h \in Sessions : pc[h] \in {"closing", "reopening"} => draft = rows

\* A transaction touches only the circles its session has checked.
DraftInv ==
    \A h \in Sessions : pc[h] = "writing" =>
        \A r \in Records : draft[r] # rows[r] => Home[r] \in checks[h]

IInv == TypeOK /\ WriterInv /\ DraftInv /\ SealMatchesLedger

-----------------------------------------------------------------------------
\* The tables as they are created are well typed.
LEMMA TypeCorrectInit == Init => TypeOK
<1> SUFFICES ASSUME Init PROVE TypeOK
  OBVIOUS
<1>1. Absent \in Row
  BY DEF Absent, Row
<1>2. rows \in [Records -> Row] /\ draft \in [Records -> Row]
  BY <1>1 DEF Init
<1>3. sealed \in [Scopes -> SUBSET (Records \X Points)]
  BY DEF Init
<1> QED
  BY <1>2, <1>3 DEF Init, TypeOK, Scopes, Phases

\* Every step of a handler, a close, a reopen or a crash keeps the types.
LEMMA TypeCorrectStep == TypeOK /\ [Next]_vars => TypeOK'
<1> SUFFICES ASSUME TypeOK, [Next]_vars PROVE TypeOK'
  OBVIOUS
<1> USE DEF TypeOK, Phases, dbVars
<1>1. CASE EndMonth
  BY <1>1 DEF EndMonth
<1>2. CASE Crash
  BY <1>2 DEF Crash, Scopes
<1>3. ASSUME NEW h \in Sessions, NEW c \in Circles,
             EarlyCheck(h, c) \/ CheckInTransaction(h, c)
      PROVE TypeOK'
  BY <1>3 DEF EarlyCheck, CheckInTransaction
<1>4. ASSUME NEW h \in Sessions, FlushFirst(h) \/ UpdateFirst(h) \/ BeginImmediate(h)
      PROVE TypeOK'
  BY <1>4 DEF FlushFirst, UpdateFirst, BeginImmediate, TakeWriter
<1>5. ASSUME NEW h \in Sessions, NEW r \in Records, NEW w \in Row, Write(h, r, w)
      PROVE TypeOK'
  BY <1>5 DEF Write
<1>6. ASSUME NEW h \in Sessions, Commit(h)
      PROVE TypeOK'
  BY <1>6 DEF Commit, EndTransaction, Scopes
<1>7. ASSUME NEW h \in Sessions, NEW s \in Scopes, CloseReserve(h, s) \/ ReopenReserve(h, s)
      PROVE TypeOK'
  BY <1>7 DEF CloseReserve, ReopenReserve, TakeWriter
<1>8. ASSUME NEW h \in Sessions, CloseCommit(h)
      PROVE TypeOK'
  <2>1. Counted(target[h]) \in SUBSET (Records \X Points)
    BY DEF Counted, InScope, Row
  <2>2. closure' \in [Scopes -> {"none", "open", "closed"}]
    BY <1>8 DEF CloseCommit
  <2>3. sealed' \in [Scopes -> SUBSET (Records \X Points)]
    BY <1>8, <2>1 DEF CloseCommit
  <2> QED
    BY <1>8, <2>2, <2>3 DEF CloseCommit, EndTransaction, Scopes
<1>9. ASSUME NEW h \in Sessions, ReopenCommit(h)
      PROVE TypeOK'
  BY <1>9 DEF ReopenCommit, EndTransaction, Scopes
<1>10. ASSUME NEW h \in Sessions, Abort(h)
       PROVE TypeOK'
  BY <1>10 DEF Abort, EndTransaction, Scopes
<1>11. CASE UNCHANGED vars
  BY <1>11 DEF vars
<1> QED
  BY <1>1, <1>2, <1>3, <1>4, <1>5, <1>6, <1>7, <1>8, <1>9, <1>10, <1>11 DEF Next

\* The type invariant of the transaction protocol: what the columns and the
\* session state may hold.
THEOREM TypeCorrect == Spec => []TypeOK
  BY TypeCorrectInit, TypeCorrectStep, PTL DEF Spec

-----------------------------------------------------------------------------
\* Only the committed rows, the closure rows and the seals matter to a seal.
LEMMA SealDependsOnDb ==
    ASSUME SealMatchesLedger, rows' = rows, closure' = closure, sealed' = sealed
    PROVE  SealMatchesLedger'
  BY DEF SealMatchesLedger, Counted, ChecklistEmpty, InScope

\* A transaction whose checks pass at its commit changed no row of a closed scope.
LEMMA PassingChecksSpareClosedScopes ==
    ASSUME TypeOK, DraftInv, NEW h \in Sessions, pc[h] = "writing", ChecksPass(h),
           NEW s \in Scopes, closure[s] = "closed", NEW r \in InScope(s)
    PROVE  draft[r] = rows[r]
<1> SUFFICES ASSUME draft[r] # rows[r] PROVE FALSE
  OBVIOUS
<1>1. r \in Records /\ Home[r] \in Covers(s)
  BY DEF InScope
<1>2. Home[r] \in checks[h]
  BY <1>1 DEF DraftInv
<1>3. closure[All] # "closed" /\ closure[Home[r]] # "closed"
  BY <1>2 DEF ChecksPass, IsClosed
<1>4. CASE s = All
  BY <1>3, <1>4
<1>5. CASE s # All
  BY <1>1, <1>3, <1>5 DEF Covers
<1> QED
  BY <1>4, <1>5

\* A close that finds nothing pending seals exactly what it leaves behind.
LEMMA CloseSealsExactly ==
    ASSUME TypeOK, SealMatchesLedger, NEW h \in Sessions, CloseCommit(h)
    PROVE  SealMatchesLedger'
<1> DEFINE t == target[h]
<1>1. rows' = rows /\ t \in Scopes
  BY DEF CloseCommit, TypeOK
<1>2. closure' = [closure EXCEPT ![t] = "closed"] /\ sealed' = [sealed EXCEPT ![t] = Counted(t)]
  BY DEF CloseCommit
<1>3. ChecklistEmpty(t)
  BY DEF CloseCommit
<1> SUFFICES ASSUME NEW s \in Scopes, closure'[s] = "closed"
             PROVE  sealed'[s] = Counted(s)' /\ ChecklistEmpty(s)'
  BY DEF SealMatchesLedger, ChecklistEmpty
<1>4. Counted(s)' = Counted(s) /\ (ChecklistEmpty(s)' <=> ChecklistEmpty(s))
  BY <1>1 DEF Counted, ChecklistEmpty, InScope
<1>5. CASE s = t
  BY <1>1, <1>2, <1>3, <1>4, <1>5 DEF TypeOK
<1>6. CASE s # t
  <2>1. closure[s] = "closed" /\ sealed'[s] = sealed[s]
    BY <1>2, <1>6 DEF TypeOK
  <2> QED
    BY <2>1, <1>4 DEF SealMatchesLedger, ChecklistEmpty
<1> QED
  BY <1>5, <1>6

\* The inductive invariant holds before the first request.
LEMMA InitIInv == Init => IInv
<1> SUFFICES ASSUME Init PROVE WriterInv /\ DraftInv /\ SealMatchesLedger
  BY TypeCorrectInit DEF IInv
<1>1. WriterInv
  BY GateAssumption DEF Init, WriterInv
<1>2. DraftInv
  BY DEF Init, DraftInv
<1>3. SealMatchesLedger
  BY DEF Init, SealMatchesLedger
<1> QED
  BY <1>1, <1>2, <1>3

\* Every step keeps the inductive invariant: only the holder of SQLite's writer
\* changes rows or closures, and only after its scopes were checked.
LEMMA StepIInv == IInv /\ [Next]_vars => IInv'
<1> SUFFICES ASSUME IInv, [Next]_vars PROVE WriterInv' /\ DraftInv' /\ SealMatchesLedger'
  BY TypeCorrectStep DEF IInv
<1> USE DEF IInv
<1>1. CASE EndMonth
  BY <1>1, SealDependsOnDb DEF EndMonth, WriterInv, DraftInv
<1>2. CASE Crash
  <2>1. WriterInv' /\ DraftInv'
    BY <1>2, GateAssumption DEF Crash, WriterInv, DraftInv, dbVars
  <2>2. SealMatchesLedger'
    BY <1>2, SealDependsOnDb DEF Crash, dbVars
  <2> QED
    BY <2>1, <2>2
<1>3. ASSUME NEW h \in Sessions, NEW c \in Circles, EarlyCheck(h, c)
      PROVE WriterInv' /\ DraftInv' /\ SealMatchesLedger'
  <2>1. WriterInv' /\ DraftInv'
    BY <1>3 DEF EarlyCheck, WriterInv, DraftInv, TypeOK, dbVars
  <2>2. SealMatchesLedger'
    BY <1>3, SealDependsOnDb DEF EarlyCheck, dbVars
  <2> QED
    BY <2>1, <2>2
<1>4. ASSUME NEW h \in Sessions, NEW c \in Circles, CheckInTransaction(h, c)
      PROVE WriterInv' /\ DraftInv' /\ SealMatchesLedger'
  <2>1. WriterInv'
    BY <1>4 DEF CheckInTransaction, WriterInv, dbVars
  <2>2. DraftInv'
    BY <1>4 DEF CheckInTransaction, DraftInv, TypeOK, dbVars
  <2>3. SealMatchesLedger'
    BY <1>4, SealDependsOnDb DEF CheckInTransaction, dbVars
  <2> QED
    BY <2>1, <2>2, <2>3
<1>5. ASSUME NEW h \in Sessions, FlushFirst(h) \/ UpdateFirst(h) \/ BeginImmediate(h)
      PROVE WriterInv' /\ DraftInv' /\ SealMatchesLedger'
  <2>1. /\ writer = NoSession /\ writer' = h
        /\ pc' = [pc EXCEPT ![h] = "writing"] /\ draft' = rows
        /\ rows' = rows /\ closure' = closure /\ sealed' = sealed
    BY <1>5 DEF FlushFirst, UpdateFirst, BeginImmediate, TakeWriter, dbVars
  <2>2. WriterInv'
    BY <2>1, GateAssumption DEF WriterInv, TypeOK
  <2>3. DraftInv'
    BY <2>1 DEF DraftInv
  <2> QED
    BY <2>1, <2>2, <2>3, SealDependsOnDb
<1>6. ASSUME NEW h \in Sessions, NEW r \in Records, NEW w \in Row, Write(h, r, w)
      PROVE WriterInv' /\ DraftInv' /\ SealMatchesLedger'
  <2>1. writer = h
    BY <1>6 DEF Write, WriterInv
  <2>2. WriterInv'
    BY <1>6, <2>1, GateAssumption DEF Write, WriterInv, dbVars
  <2>3. DraftInv'
    <3> SUFFICES ASSUME NEW g \in Sessions, pc'[g] = "writing",
                        NEW q \in Records, draft'[q] # rows'[q]
                 PROVE  Home[q] \in checks'[g]
      BY DEF DraftInv
    <3>1. g = h
      BY <1>6, <2>1 DEF Write, WriterInv
    <3>2. CASE q = r
      BY <1>6, <3>1, <3>2 DEF Write
    <3>3. CASE q # r
      BY <1>6, <3>1, <3>3 DEF Write, DraftInv, TypeOK, dbVars
    <3> QED
      BY <3>2, <3>3
  <2>4. SealMatchesLedger'
    BY <1>6, SealDependsOnDb DEF Write, dbVars
  <2> QED
    BY <2>2, <2>3, <2>4
<1>7. ASSUME NEW h \in Sessions, Commit(h)
      PROVE WriterInv' /\ DraftInv' /\ SealMatchesLedger'
  <2>1. writer = h /\ pc[h] = "writing" /\ ChecksPass(h)
    BY <1>7 DEF Commit, WriterInv
  <2>2. WriterInv'
    BY <1>7, <2>1, GateAssumption DEF Commit, EndTransaction, WriterInv, TypeOK
  <2>3. DraftInv'
    BY <1>7 DEF Commit, EndTransaction, DraftInv
  <2>4. SealMatchesLedger'
    <3> SUFFICES ASSUME NEW s \in Scopes, closure'[s] = "closed"
                 PROVE  sealed'[s] = Counted(s)' /\ ChecklistEmpty(s)'
      BY DEF SealMatchesLedger, ChecklistEmpty
    <3>1. closure[s] = "closed" /\ sealed'[s] = sealed[s]
      BY <1>7 DEF Commit
    <3>2. \A r \in InScope(s) : rows'[r] = rows[r]
      BY <1>7, <2>1, <3>1, PassingChecksSpareClosedScopes DEF Commit
    <3>3. InScope(s)' = InScope(s)
      BY DEF InScope
    <3>4. Counted(s)' = Counted(s) /\ (ChecklistEmpty(s)' <=> ChecklistEmpty(s))
      BY <3>2, <3>3 DEF Counted, ChecklistEmpty
    <3> QED
      BY <3>1, <3>4 DEF SealMatchesLedger, ChecklistEmpty
  <2> QED
    BY <2>2, <2>3, <2>4
<1>8. ASSUME NEW h \in Sessions, NEW s \in Scopes, CloseReserve(h, s) \/ ReopenReserve(h, s)
      PROVE WriterInv' /\ DraftInv' /\ SealMatchesLedger'
  <2>1. /\ writer = NoSession /\ writer' = h /\ draft' = rows
        /\ pc' = [pc EXCEPT ![h] = "closing"] \/ pc' = [pc EXCEPT ![h] = "reopening"]
        /\ rows' = rows /\ closure' = closure /\ sealed' = sealed
    BY <1>8 DEF CloseReserve, ReopenReserve, TakeWriter, dbVars
  <2>2. WriterInv'
    BY <2>1, GateAssumption DEF WriterInv, TypeOK
  <2>3. DraftInv'
    BY <2>1 DEF DraftInv
  <2> QED
    BY <2>1, <2>2, <2>3, SealDependsOnDb
<1>9. ASSUME NEW h \in Sessions, CloseCommit(h)
      PROVE WriterInv' /\ DraftInv' /\ SealMatchesLedger'
  <2>1. writer = h /\ draft = rows
    BY <1>9 DEF CloseCommit, WriterInv
  <2>2. WriterInv' /\ DraftInv'
    BY <1>9, <2>1, GateAssumption DEF CloseCommit, EndTransaction, WriterInv, DraftInv, TypeOK
  <2> QED
    BY <1>9, <2>2, CloseSealsExactly
<1>10. ASSUME NEW h \in Sessions, ReopenCommit(h)
       PROVE WriterInv' /\ DraftInv' /\ SealMatchesLedger'
  <2>1. writer = h /\ draft = rows
    BY <1>10 DEF ReopenCommit, WriterInv
  <2>2. WriterInv' /\ DraftInv'
    BY <1>10, <2>1, GateAssumption DEF ReopenCommit, EndTransaction, WriterInv, DraftInv, TypeOK
  <2>3. SealMatchesLedger'
    <3> SUFFICES ASSUME NEW s \in Scopes, closure'[s] = "closed"
                 PROVE  sealed'[s] = Counted(s)' /\ ChecklistEmpty(s)'
      BY DEF SealMatchesLedger, ChecklistEmpty
    <3>1. closure[s] = "closed" /\ sealed' = sealed /\ rows' = rows
      BY <1>10 DEF ReopenCommit, TypeOK
    <3> QED
      BY <3>1 DEF SealMatchesLedger, Counted, ChecklistEmpty, InScope
  <2> QED
    BY <2>2, <2>3
<1>11. ASSUME NEW h \in Sessions, Abort(h)
       PROVE WriterInv' /\ DraftInv' /\ SealMatchesLedger'
  <2>1. WriterInv'
    BY <1>11, GateAssumption DEF Abort, EndTransaction, WriterInv, TypeOK, dbVars
  <2>2. DraftInv'
    BY <1>11, GateAssumption DEF Abort, EndTransaction, WriterInv, DraftInv, TypeOK, dbVars
  <2>3. SealMatchesLedger'
    BY <1>11, SealDependsOnDb DEF Abort, dbVars
  <2> QED
    BY <2>1, <2>2, <2>3
<1>12. CASE UNCHANGED vars
  BY <1>12, SealDependsOnDb DEF vars, WriterInv, DraftInv
<1> QED
  BY <1>1, <1>2, <1>3, <1>4, <1>5, <1>6, <1>7, <1>8, <1>9, <1>10, <1>11, <1>12 DEF Next

\* However handlers, closes, reopens and crashes interleave, a closed scope
\* holds exactly what its close sealed and no unresolved work.
THEOREM SealExact == Spec => []SealMatchesLedger
<1>1. IInv => SealMatchesLedger
  BY DEF IInv
<1> QED
  BY InitIInv, StepIInv, <1>1, PTL DEF Spec

\* No commit changes a row whose circle is closed for the month.
THEOREM FrozenWhenClosed == Spec => ClosedMonthFrozen
<1>1. IInv /\ [Next]_vars
        => [\A r \in Records : rows'[r] # rows[r] => ~IsClosed(Home[r])]_vars
  <2> SUFFICES ASSUME IInv, Next, NEW r \in Records, rows'[r] # rows[r]
               PROVE  ~IsClosed(Home[r])
    OBVIOUS
  <2>1. \E h \in Sessions : Commit(h)
    BY DEF Next, EndMonth, Crash, EarlyCheck, CheckInTransaction, FlushFirst, UpdateFirst,
           BeginImmediate, TakeWriter, Write, CloseReserve, ReopenReserve, CloseCommit,
           ReopenCommit, Abort, dbVars
  <2>2. PICK h \in Sessions : Commit(h)
    BY <2>1
  <2> QED
    BY <2>2 DEF Commit, IInv, DraftInv, ChecksPass
<1> QED
  BY InitIInv, StepIInv, <1>1, PTL DEF Spec, ClosedMonthFrozen
-----------------------------------------------------------------------------
\* The protocol implements the atomic ledger: a commit maps to Write, the close
\* and reopen commits to Close and Reopen, everything else to stuttering.
LEMMA InitRefines == Init => Ledger!Init
  BY DEF Init, Ledger!Init, Ledger!Scopes, Ledger!Absent, Scopes, Absent

\* A commit of month_closure.py's before_commit hook is one Write of the ledger.
LEMMA CommitRefines ==
    ASSUME TypeOK, TypeOK', DraftInv, NEW h \in Sessions, Commit(h)
    PROVE  Ledger!Write
<1>1. rows' \in [Records -> Ledger!Row]
  BY DEF TypeOK, Row, Ledger!Row
<1>2. closure' = closure /\ sealed' = sealed /\ ended' = ended
  BY DEF Commit
<1>3. ASSUME NEW r \in Records, rows'[r] # rows[r]
      PROVE  Ledger!OpenIn(Home[r])
  <2>1. Home[r] \in checks[h] /\ Home[r] \in Circles
    BY <1>3, GateAssumption DEF Commit, DraftInv
  <2>2. ~IsClosed(Home[r])
    BY <2>1 DEF Commit, ChecksPass
  <2> QED
    BY <2>1, <2>2 DEF IsClosed, Ledger!OpenIn, Scopes
<1> QED
  BY <1>1, <1>2, <1>3 DEF Ledger!Write

\* The commit of a close request is one Close of the ledger.
LEMMA CloseRefines ==
    ASSUME TypeOK, NEW h \in Sessions, CloseCommit(h), ended, NEW t, t = target[h]
    PROVE  Ledger!Close(t)
<1>1. t \in Scopes /\ rows' = rows /\ ended' = ended
  BY DEF CloseCommit, TypeOK
<1>2. closure[t] # "closed" /\ closure[All] # "closed"
  BY DEF CloseCommit, IsClosed
<1>3. closure' = [closure EXCEPT ![t] = "closed"] /\ sealed' = [sealed EXCEPT ![t] = Counted(t)]
  BY DEF CloseCommit
<1>4. Ledger!Counted(t) = Counted(t) /\ Ledger!Settled(t)
  BY DEF CloseCommit, ChecklistEmpty, Counted, InScope, Covers,
         Ledger!Counted, Ledger!Settled, Ledger!InScope, Ledger!Covers
<1>5. [s \in Scopes |-> closure'[s] = "closed"]
         = [[s \in Scopes |-> closure[s] = "closed"] EXCEPT ![t] = TRUE]
  BY <1>1, <1>3 DEF TypeOK
<1> QED
  BY <1>1, <1>2, <1>3, <1>4, <1>5 DEF Ledger!Close, Scopes

\* The commit of a reopen request is one Reopen of the ledger.
LEMMA ReopenRefines ==
    ASSUME TypeOK, NEW h \in Sessions, ReopenCommit(h), NEW t, t = target[h]
    PROVE  Ledger!Reopen(t)
<1>1. t \in Scopes /\ rows' = rows /\ ended' = ended /\ sealed' = sealed
  BY DEF ReopenCommit, TypeOK
<1>2. closure[t] = "closed" /\ (t # All => closure[All] # "closed")
  BY DEF ReopenCommit
<1>3. [s \in Scopes |-> closure'[s] = "closed"]
         = [[s \in Scopes |-> closure[s] = "closed"] EXCEPT ![t] = FALSE]
  BY <1>1 DEF TypeOK, ReopenCommit
<1> QED
  BY <1>1, <1>2, <1>3 DEF Ledger!Reopen, Scopes

\* A close request passed month_close_period_policy before it took the writer.
ClosingInv == \A h \in Sessions : pc[h] = "closing" => ended

\* A request that holds the writer for a close has seen the month end.
LEMMA ClosingInvariant == Spec => []ClosingInv
<1>1. Init => ClosingInv
  BY DEF Init, ClosingInv
<1>2. TypeOK /\ ClosingInv /\ [Next]_vars => ClosingInv'
  BY DEF TypeOK, ClosingInv, Next, vars, EndMonth, Crash, EarlyCheck, CheckInTransaction,
         FlushFirst, UpdateFirst, BeginImmediate, TakeWriter, Write, Commit, EndTransaction,
         CloseReserve, ReopenReserve, CloseCommit, ReopenCommit, Abort, dbVars
<1> QED
  BY TypeCorrect, <1>1, <1>2, PTL DEF Spec

\* MonthGate implements MonthLedger, the atomic ledger.
THEOREM GateImplementsLedger == Spec => RefinesLedger
<1>1. IInv /\ IInv' /\ ClosingInv /\ [Next]_vars => [Ledger!Next]_(Ledger!vars)
  <2> SUFFICES ASSUME IInv, IInv', ClosingInv, [Next]_vars
               PROVE  Ledger!Next \/ UNCHANGED Ledger!vars
    OBVIOUS
  <2> USE DEF IInv
  <2>1. CASE EndMonth
    BY <2>1 DEF EndMonth, Ledger!EndMonth, Ledger!Next
  <2>2. ASSUME NEW h \in Sessions, Commit(h)
        PROVE  Ledger!Next
    BY <2>2, CommitRefines DEF Ledger!Next
  <2>3. ASSUME NEW h \in Sessions, CloseCommit(h)
        PROVE  Ledger!Next
    <3>1. ended
      BY <2>3 DEF CloseCommit, ClosingInv
    <3>2. PICK t \in Ledger!Scopes : t = target[h]
      BY DEF TypeOK, Scopes, Ledger!Scopes
    <3> QED
      BY <2>3, <3>1, <3>2, CloseRefines DEF Ledger!Next
  <2>4. ASSUME NEW h \in Sessions, ReopenCommit(h)
        PROVE  Ledger!Next
    <3>1. PICK t \in Ledger!Scopes : t = target[h]
      BY DEF TypeOK, Scopes, Ledger!Scopes
    <3> QED
      BY <2>4, <3>1, ReopenRefines DEF Ledger!Next
  <2>5. CASE UNCHANGED <<ended, closure, rows, sealed>>
    BY <2>5 DEF Ledger!vars
  <2> QED
    BY <2>1, <2>2, <2>3, <2>4, <2>5
       DEF Next, vars, dbVars, Crash, EarlyCheck, CheckInTransaction, FlushFirst, UpdateFirst,
           BeginImmediate, TakeWriter, Write, CloseReserve, ReopenReserve, Abort
<1>2. Spec => []IInv
  BY InitIInv, StepIInv, PTL DEF Spec
<1> QED
  BY InitRefines, ClosingInvariant, <1>1, <1>2, PTL DEF Spec, RefinesLedger, Ledger!Spec

==============================================================================
