-------------------------------- MODULE Absence --------------------------------
(***************************************************************************)
(* Sick leaves, leave of absence (LOA) and the attendance rows computed    *)
(* from them.  A registration with a proof checks, awaits its upload and   *)
(* writes; a backup registration and the LOA commands check under the      *)
(* SQLite writer; the monthly import shows a preview kept in memory and    *)
(* later replaces a month by it; readers fill in missing attendance rows.  *)
(***************************************************************************)
EXTENDS Integers, FiniteSets, FiniteSetsExt

CONSTANTS
    Employees, Clerks, Previews,
    Days, MonthOf, Today,     \* MonthOf: the month of each day
    MaxIds, MaxLoa            \* bounds: sick rows ever, LOA periods

VARIABLES
    sick,     \* active SickLeaveRecords: [id, emp, from, to, source]
    lastId,
    loa,      \* periods not cancelled: [id, emp, from, to], to = Open while unended
    score,    \* AttendanceMonthlyScore by employee and month, or Missing
    upload,   \* a clerk's registration whose checks are done: [emp, from, to] or Nothing
    reader,   \* ensure_month_attendance under way
    preview   \* _PREVIEWS: [matched, protected, seen, same, committing] or Nothing;
              \* same: its employees' numbers, names, circles and states are those it saw

absenceVars == <<sick, lastId, loa, score, upload, reader, preview>>

Months == {MonthOf[d] : d \in Days}
Open == 1 + Max(Days)
Missing == [eligible |-> FALSE, days |-> -1]
Nothing == {}
Quiet == [pc |-> "none"]
Init ==
    /\ sick = {} /\ lastId = 0 /\ loa = {}
    /\ score = [e \in Employees |-> [m \in Months |-> Missing]]
    /\ upload = [c \in Clerks |-> Nothing]
    /\ reader = Quiet
    /\ preview = [p \in Previews |-> Nothing]

Spans == {s \in Days \X Days : s[1] <= s[2] /\ MonthOf[s[1]] = MonthOf[s[2]]}
Meets(x, f, t) == x.from <= t /\ x.to >= f
\* active_sick_leave_overlaps
Overlapping(e, f, t) == {r \in sick : r.emp = e /\ Meets(r, f, t)}
OnLoa(e, f, t) == \E p \in loa : p.emp = e /\ Meets(p, f, t)

\* recalculate_attendance: a month any LOA touches is not scored; a day counts
\* once however many rows name it.
Touched(periods, e, m) == \E p \in periods : p.emp = e /\ \E d \in Days : MonthOf[d] = m /\ p.from <= d /\ d <= p.to
SickDays(rows, e, m) ==
    {d \in Days : MonthOf[d] = m /\ \E r \in rows : r.emp = e /\ r.from <= d /\ d <= r.to}
Attendance(rows, periods, e, m) ==
    IF Touched(periods, e, m) THEN [eligible |-> FALSE, days |-> 0]
    ELSE [eligible |-> TRUE, days |-> Cardinality(SickDays(rows, e, m))]
Recalculated(rows, periods, who) ==
    [e \in Employees |-> [m \in Months |->
        IF <<e, m>> \in who THEN Attendance(rows, periods, e, m) ELSE score[e][m]]]

Row(e, f, t, source) == [id |-> lastId + 1, emp |-> e, from |-> f, to |-> t, source |-> source]

----------------------------------------------------------------------------
\* create_sick_leave up to the upload of its proof.
StartUpload(c) ==
    /\ upload[c] = Nothing
    /\ \E e \in Employees, s \in Spans :
          /\ Overlapping(e, s[1], s[2]) = {}
          /\ upload' = [upload EXCEPT ![c] = {[emp |-> e, from |-> s[1], to |-> s[2]]}]
    /\ UNCHANGED <<sick, lastId, loa, score, reader, preview>>

\* The rest of it in one transaction, or an upload that failed.
EndUpload(c) ==
    /\ upload[c] # Nothing
    /\ \/ /\ lastId < MaxIds
          /\ \E u \in upload[c] :
                /\ sick' = sick \cup {Row(u.emp, u.from, u.to, "proof")}
                /\ score' = Recalculated(sick', loa, {<<u.emp, MonthOf[u.from]>>})
          /\ lastId' = lastId + 1
       \/ UNCHANGED <<sick, lastId, score>>
    /\ upload' = [upload EXCEPT ![c] = Nothing]
    /\ UNCHANGED <<loa, reader, preview>>

\* Seeded fault: the overlap is tested before the writer is taken.
OverlapSeenEarlier(e, f, t) == FALSE
OverlapSeen(e, f, t) == Overlapping(e, f, t) # {}
\* create_single_sick_leave, under the writer from its first statement.
Single ==
    /\ lastId < MaxIds
    /\ \E e \in Employees, s \in Spans :
          /\ ~OnLoa(e, s[1], s[2]) /\ ~OverlapSeen(e, s[1], s[2])
          /\ sick' = sick \cup {Row(e, s[1], s[2], "single")}
          /\ score' = Recalculated(sick', loa, {<<e, MonthOf[s[1]]>>})
    /\ lastId' = lastId + 1
    /\ UNCHANGED <<loa, upload, reader, preview>>

\* void_sick_leave: the registrar's own, still active.
VoidSick ==
    /\ \E r \in sick :
          /\ sick' = sick \ {r}
          /\ score' = Recalculated(sick', loa, {<<r.emp, MonthOf[r.from]>>})
    /\ UNCHANGED <<lastId, loa, upload, reader, preview>>

----------------------------------------------------------------------------
\* excluded_months, open_horizon: an open period counts up to today, the dates
\* named and the latest month with a row.
Horizon(e, dates) ==
    Max({MonthOf[Today]} \cup {MonthOf[d] : d \in dates \ {Open}}
        \cup {m \in Months : score[e][m] # Missing})
Excluded(f, t, horizon) == {m \in Months : MonthOf[f] <= m /\ m <= (IF t = Open THEN horizon ELSE MonthOf[t])}
\* _changed_months, recalculate_changed_months: the months whose combined
\* exclusion the change alters.
Changed(e, horizon, before, after, ignored) ==
    LET others == UNION {Excluded(p.from, p.to, horizon) : p \in {x \in loa : x.emp = e /\ x \notin ignored}}
    IN ((before \cup others) \ (after \cup others)) \cup ((after \cup others) \ (before \cup others))

\* Seeded fault: an open period counts as its first day only.
ClashesFirstDay(e, f, t, ignored) ==
    \E p \in loa : p.emp = e /\ p \notin ignored /\ Meets(p, f, IF t = Open THEN f ELSE t)
\* _ensure_no_overlap
Clashes(e, f, t, ignored) == \E p \in loa : p.emp = e /\ p \notin ignored /\ Meets(p, f, t)
OpenPeriod(e) == {p \in loa : p.emp = e /\ p.to = Open}

\* create_period, from the LOA screen or, open-ended, from an employee's edit.
CreateLoa(e) ==
    /\ OpenPeriod(e) = {} /\ Cardinality(loa) < MaxLoa
    /\ \E f \in Days, t \in Days \cup {Open} :
          /\ f <= t /\ ~Clashes(e, f, t, {})
          /\ LET h == Horizon(e, {f, t})
             IN /\ loa' = loa \cup {[emp |-> e, from |-> f, to |-> t]}
                /\ score' = Recalculated(sick, loa', {e} \X Changed(e, h, {}, Excluded(f, t, h), {}))
    /\ UNCHANGED <<sick, lastId, upload, reader, preview>>

\* close_period: from the screen with an end not before the start, or by an edit
\* that makes the employee active again, ending it yesterday or cancelling it.
CloseLoa(e) ==
    /\ \E p \in OpenPeriod(e) :
          LET Ends(t) == \* kept until t, or cancelled when that is before its start
                LET h == Horizon(e, {p.from, t})
                    kept == IF t < p.from THEN {} ELSE {[p EXCEPT !.to = t]}
                    after == IF t < p.from THEN {} ELSE Excluded(p.from, t, h)
                IN /\ loa' = (loa \ {p}) \cup kept
                   /\ score' = Recalculated(sick, loa', {e} \X Changed(e, h, Excluded(p.from, Open, h), after, {p}))
          IN \/ \E t \in Days : p.from <= t /\ ~Clashes(e, p.from, t, {p}) /\ Ends(t)
             \/ Today - 1 \in Days /\ Ends(Today - 1)
    /\ UNCHANGED <<sick, lastId, upload, reader, preview>>

\* cancel_period
CancelLoa(e) ==
    /\ \E p \in {x \in loa : x.emp = e} :
          LET h == Horizon(e, {p.from, p.to})
          IN /\ loa' = loa \ {p}
             /\ score' = Recalculated(sick, loa', {e} \X Changed(e, h, Excluded(p.from, p.to, h), {}, {p}))
    /\ UNCHANGED <<sick, lastId, upload, reader, preview>>

----------------------------------------------------------------------------
\* ensure_month_attendance: no row yet; the sick rows are read, then the LOA,
\* then INSERT OR IGNORE.
ReadSick ==
    /\ reader = Quiet
    /\ \E e \in Employees, m \in Months :
          /\ score[e][m] = Missing
          /\ reader' = [pc |-> "sick", emp |-> e, month |-> m, rows |-> {r \in sick : r.emp = e}, value |-> Missing]
    /\ UNCHANGED <<sick, lastId, loa, score, upload, preview>>
ReadLoa ==
    /\ reader.pc = "sick"
    /\ reader' = [reader EXCEPT !.pc = "insert", !.rows = {},
                                !.value = Attendance(reader.rows, loa, reader.emp, reader.month)]
    /\ UNCHANGED <<sick, lastId, loa, score, upload, preview>>
\* Seeded fault: INSERT OR REPLACE.
FillsAlways(row) == TRUE
Fills(row) == row = Missing
InsertMissing ==
    /\ reader.pc = "insert"
    /\ score' = [score EXCEPT ![reader.emp][reader.month] = IF Fills(@) THEN reader.value ELSE @]
    /\ reader' = Quiet
    /\ UNCHANGED <<sick, lastId, loa, upload, preview>>

----------------------------------------------------------------------------
MonthRows(m) == {r \in sick : MonthOf[r.from] = m}
ImportMonth == MonthOf[Today]
\* _read_workbook, _reconcile and _matching_employee: the days of sickness a
\* whole and reconciled file names for employees of the circle.
Files == SUBSET (Employees \X {d \in Days : MonthOf[d] = ImportMonth})

\* preview_sick_leave_import: the file's rows are matched to employees, those on
\* LOA set apart, and the rows the import would replace are remembered.
Preview(p) ==
    /\ preview[p] = Nothing
    /\ \E file \in Files :
          preview' = [preview EXCEPT ![p] =
              {[matched |-> {x \in file : ~OnLoa(x[1], x[2], x[2])},
                protected |-> {x \in file : OnLoa(x[1], x[2], x[2])},
                seen |-> MonthRows(ImportMonth),
                same |-> TRUE, committing |-> FALSE]}]
    /\ UNCHANGED <<sick, lastId, loa, score, upload, reader>>

\* _prune_previews, a restart: a preview times out or is pressed out by others.
Pruned(p) ==
    /\ preview[p] # Nothing
    /\ preview' = [preview EXCEPT ![p] = Nothing]
    /\ UNCHANGED <<sick, lastId, loa, score, upload, reader>>

\* commit_sick_leave_import up to the writer: the preview is claimed.
ClaimImport(p) ==
    /\ \E v \in preview[p] :
          /\ ~v.committing
          /\ preview' = [preview EXCEPT ![p] = {[v EXCEPT !.committing = TRUE]}]
    /\ UNCHANGED <<sick, lastId, loa, score, upload, reader>>

\* Seeded fault: the month is not compared with the preview.
UnchangedMonthTrusted(v) == TRUE
UnchangedMonth(v) == v.seen = MonthRows(ImportMonth)
\* Seeded fault: the LOA of the preview is trusted.
StillProtectedTrusted(v) == TRUE
StillProtected(v) ==
    /\ \A x \in v.matched : ~OnLoa(x[1], x[2], x[2])
    /\ \A x \in v.protected : OnLoa(x[1], x[2], x[2])

\* The rest under the writer: everything is checked again, the month's rows are
\* covered and the file's added; a refusal releases the claim.
CommitImport(p) ==
    /\ \E v \in preview[p] :
          /\ v.committing
          /\ \/ /\ UnchangedMonth(v) /\ v.same /\ StillProtected(v)
                /\ lastId + Cardinality(v.matched) <= MaxIds
                /\ LET replaced == MonthRows(ImportMonth)
                   IN \E ids \in [v.matched -> lastId + 1 .. lastId + Cardinality(v.matched)] :
                         /\ \A x, y \in v.matched : x # y => ids[x] # ids[y]
                         /\ sick' = (sick \ replaced) \cup
                                {[id |-> ids[x], emp |-> x[1], from |-> x[2], to |-> x[2], source |-> "import"] :
                                    x \in v.matched}
                         /\ score' = Recalculated(sick', loa,
                                ({x[1] : x \in v.matched} \cup {r.emp : r \in replaced}) \X {ImportMonth})
                /\ lastId' = lastId + Cardinality(v.matched)
                /\ preview' = [preview EXCEPT ![p] = Nothing]
             \/ /\ ~(UnchangedMonth(v) /\ v.same /\ StillProtected(v))
                /\ preview' = [preview EXCEPT ![p] = {[v EXCEPT !.committing = FALSE]}]
                /\ UNCHANGED <<sick, lastId, score>>
    /\ UNCHANGED <<loa, upload, reader>>

\* HR edits what an import compares, or puts it back.
EditProfile(e) ==
    /\ \E p \in Previews : \E v \in preview[p] :
          /\ \E x \in v.matched \cup v.protected : x[1] = e
          /\ preview' = [preview EXCEPT ![p] = {[v EXCEPT !.same = ~@]}]
    /\ UNCHANGED <<sick, lastId, loa, score, upload, reader>>

Next ==
    \/ \E c \in Clerks : StartUpload(c) \/ EndUpload(c)
    \/ Single \/ VoidSick
    \/ \E e \in Employees : CreateLoa(e) \/ CloseLoa(e) \/ CancelLoa(e) \/ EditProfile(e)
    \/ ReadSick \/ ReadLoa \/ InsertMissing
    \/ \E p \in Previews : Preview(p) \/ Pruned(p) \/ ClaimImport(p) \/ CommitImport(p)
Spec == Init /\ [][Next]_absenceVars

----------------------------------------------------------------------------
\* A stored attendance row up to this month is what the sick leaves and the LOA
\* of the moment give, whoever wrote it: the readers' rows computed outside a
\* transaction included (attendance.py:150-207, 210-343; loa_commands.py:89-107).
AttendanceCurrent ==
    \A e \in Employees, m \in Months :
        m <= MonthOf[Today] /\ score[e][m] # Missing => score[e][m] = Attendance(sick, loa, e, m)

\* An employee's periods never share a day (loa_commands.py:71-86), and two
\* active sick leaves share one only if one of them waited for an upload
\* (sick_leave_import.py:517-541, sick_leaves.py:185-222).
DatesApart ==
    /\ \A p, q \in loa : p # q /\ p.emp = q.emp => ~Meets(p, q.from, q.to)
    /\ \A r, s \in sick : r # s /\ r.emp = s.emp /\ Meets(r, s.from, s.to) =>
          "proof" \in {r.source, s.source}

\* Absences and the rows computed from them agree at every moment.
AttendanceTrue == AttendanceCurrent /\ DatesApart

\* An import replaces exactly the rows its preview counted, and brings in no day
\* that is on LOA by then (sick_leave_import.py:626-667).
ImportAsReviewed ==
    [][\A r \in sick' \ sick : r.source = "import" =>
          /\ ~OnLoa(r.emp, r.from, r.to)
          /\ \E p \in Previews : \E v \in preview[p] :
                v.committing /\ sick \ sick' = v.seen /\ {<<x.emp, x.from>> : x \in sick' \ sick} = v.matched]_absenceVars
=============================================================================
