------------------------------ MODULE ScoreViews ------------------------------
(***************************************************************************)
(* The pages that show monthly scores, each with a query of its own over   *)
(* the same rows: the score query, the monthly statistics with their tree  *)
(* and trend, the details of a member, the ranking over a range of months  *)
(* and the member's dashboard.  What may make them disagree are records    *)
(* that exist without counting, months a leave of absence excludes, the    *)
(* two rules of credit and the attendance rows, stored once and read ever  *)
(* after.  The writers of the rows have modules of their own; here they    *)
(* change them one at a time.  Every employee has a scored base role.      *)
(***************************************************************************)
EXTENDS Integers, FiniteSets, FiniteSetsExt

CONSTANTS
    Employees, Group, Circle,  \* Group: the work group of each; Circle: of each group
    Months,                    \* the last one is the current month
    Recs, Rec,      \* Rec[r]: [of, month, full, credit, old, configured]
    Deds, Ded,      \* Ded[d]: [of, month, points]
    FullMark        \* the attendance score of a month without sick leave

VARIABLES
    recs,    \* status of each recognition
    deds,    \* standing of each deduction: its status and upgrade_role in one
    loa,     \* the <<employee, month>> an uncancelled LOA period touches
    gone,    \* employees deleted in the current month and not registered again
    stored   \* AttendanceMonthlyScore of each <<employee, month>>, or Missing

viewVars == <<recs, deds, loa, gone, stored>>

Present == Max(Months)
Missing == [eligible |-> FALSE, final |-> -1]
Sum(f, S) == SumFunctionOnSet(f, S)
-----------------------------------------------------------------------------
(* The attendance rows. *)

\* employee_active_on the last day; a former employment covers the months before.
ActiveOn(e, m) == e \notin gone \/ m < Present
Computed(e, m, leave) ==
    IF ActiveOn(e, m) /\ <<e, m>> \notin leave THEN [eligible |-> TRUE, final |-> FullMark]
    ELSE [eligible |-> FALSE, final |-> 0]
\* ensure_month_attendance, stored or transient: rows that exist stay.
Ensured(e, m) == IF stored[<<e, m>>] = Missing THEN Computed(e, m, loa) ELSE stored[<<e, m>>]
-----------------------------------------------------------------------------
(* The views. *)

\* status='active' and upgrade_role is not 'source_second', as every query has it
Counts(d) == deds[d] \in {"active", "first"}
\* The SQL rule: recognition_date and monthly_cap_rule_code, set by apply_credit.
SqlCredit == [r \in Recs |-> IF Rec[r].old /\ ~Rec[r].configured THEN Rec[r].full ELSE Rec[r].credit]
\* effective_recognition_credit: the frozen policy, then the date
EffectiveCredit ==
    [r \in Recs |-> IF Rec[r].configured THEN Rec[r].credit
                   ELSE IF Rec[r].old THEN Rec[r].full ELSE Rec[r].credit]

Confirmed(e, m) == {r \in Recs : Rec[r].of = e /\ Rec[r].month = m /\ recs[r] = "confirmed"}
Counted(e, m) == {d \in Deds : Ded[d].of = e /\ Ded[d].month = m /\ Counts(d)}
Points == [d \in Deds |-> Ded[d].points]
Excluded(e, m) == <<e, m>> \in loa   \* loa_month_exclusion

Nought == [recognition |-> 0, attendance |-> 0, deduction |-> 0, total |-> 0]
Row(r, a, d) == [recognition |-> r, attendance |-> a, deduction |-> d, total |-> r + a - d]
Plus(x, y) == [f \in DOMAIN Nought |-> x[f] + y[f]]
Total(rows) == [f \in DOMAIN Nought |-> Sum([k \in DOMAIN rows |-> rows[k][f]], DOMAIN rows)]

\* employee_month_scores
MonthScore(e, m) ==
    LET a == Ensured(e, m)
    IN IF Excluded(e, m) THEN Nought
       ELSE Row(Sum(SqlCredit, Confirmed(e, m)), IF a.eligible THEN a.final ELSE 0,
                Sum(Points, Counted(e, m)))

\* statistics_payload without its loa_rows; by_attraction, statistics_hierarchy, trend
Scored(m) == {e \in Employees : ~Excluded(e, m)}
\* score: the month's rows of employee_month_scores
Leader(score, m, g) == Total([e \in {x \in Scored(m) : Group[x] = g} |-> score[e]])
ByCircle(score, m, c) == Total([e \in {x \in Scored(m) : Circle[Group[x]] = c} |-> score[e]])
Summary(score, m) == Total([e \in Scored(m) |-> score[e]])
Groups == {Group[e] : e \in Employees}
Circles == {Circle[g] : g \in Groups}
Trend(score, m) == Total([c \in Circles |-> ByCircle(score, m, c)])

\* Seeded fault: a line of an excluded month keeps counting.
IncludedAnyway(e, m, counts) == counts
\* member_score_detail_payload: which of the listed records count
Included(e, m, counts) == counts /\ ~Excluded(e, m)
Details(e, m) ==
    LET a == Ensured(e, m)
        R == {r \in Recs : Rec[r].of = e /\ Rec[r].month = m
                           /\ Included(e, m, recs[r] = "confirmed")}
        D == {d \in Deds : Ded[d].of = e /\ Ded[d].month = m
                           /\ Included(e, m, deds[d] \in {"active", "first"})}
    IN Row(Sum(EffectiveCredit, R), IF Included(e, m, a.eligible) THEN a.final ELSE 0, Sum(Points, D))

\* dashboard_payload: the categories of the member's own page
Category(e, m) == IF Excluded(e, m) THEN 0 ELSE Sum(SqlCredit, Confirmed(e, m))

\* pr_ranking_payload over a range of months: one sum per source
Ranking(e, range) ==
    LET at == {m \in range : ~Excluded(e, m)}
    IN Row(Sum(SqlCredit, UNION {Confirmed(e, m) : m \in at}),
           Sum([m \in at |-> Ensured(e, m).final], {m \in at : Ensured(e, m).eligible}),
           Sum(Points, UNION {Counted(e, m) : m \in at}))
-----------------------------------------------------------------------------
Init ==
    /\ recs = [r \in Recs |-> "absent"] /\ deds = [d \in Deds |-> "absent"]
    /\ loa = {} /\ gone = {}
    /\ stored = [p \in Employees \X Months |-> Missing]

\* Registration, review and withdrawal (Recognition).
Recognise(r) ==
    /\ recs' \in {[recs EXCEPT ![r] = s] : s \in
                     CASE recs[r] = "absent" -> {"pending", "confirmed"}
                       [] recs[r] = "pending" -> {"confirmed", "rejected", "void"}
                       [] recs[r] \in {"confirmed", "rejected"} -> {"void"}
                       [] OTHER -> {}}
    /\ UNCHANGED <<deds, loa, gone, stored>>

\* Registration, upgrade, review and annulment (DeductionFlow).
Deduct(d) ==
    /\ deds' \in {[deds EXCEPT ![d] = s] : s \in
                     CASE deds[d] = "absent" -> {"active", "pending"}
                       [] deds[d] = "active" -> {"first", "void"}
                       [] deds[d] = "first" -> {"active"}
                       [] deds[d] = "pending" -> {"active", "second", "void"}
                       [] OTHER -> {}}
    /\ UNCHANGED <<recs, loa, gone, stored>>

\* Seeded fault: the month of a cancelled period keeps its attendance row.
RecalculatedIfNew(e, m, leave) ==
    IF <<e, m>> \in leave THEN [stored EXCEPT ![<<e, m>>] = Computed(e, m, leave)] ELSE stored
\* recalculate_changed_months
Recalculated(e, m, leave) == [stored EXCEPT ![<<e, m>>] = Computed(e, m, leave)]

\* create_period, close_period, cancel_period for one month
Leave(e, m) ==
    /\ e \notin gone
    /\ loa' = IF <<e, m>> \in loa THEN loa \ {<<e, m>>} ELSE loa \cup {<<e, m>>}
    /\ stored' = Recalculated(e, m, loa')
    /\ UNCHANGED <<recs, deds, gone>>

\* A page that needs the month's attendance stores what is missing.
Read(m) ==
    /\ stored' = [p \in DOMAIN stored |-> IF p[2] = m THEN Ensured(p[1], m) ELSE stored[p]]
    /\ UNCHANGED <<recs, deds, loa, gone>>

\* The member's own dashboard recalculates.
Dashboard(e, m) ==
    /\ e \notin gone
    /\ stored' = Recalculated(e, m, loa)
    /\ UNCHANGED <<recs, deds, loa, gone>>

\* _archive_employee recalculates the current month.
Archive(e) ==
    /\ e \notin gone /\ gone' = gone \cup {e}
    /\ stored' = [stored EXCEPT ![<<e, Present>>] = [eligible |-> FALSE, final |-> 0]]
    /\ UNCHANGED <<recs, deds, loa>>

\* restart_employment does not.
Rehire(e) ==
    /\ e \in gone /\ gone' = gone \ {e}
    /\ UNCHANGED <<recs, deds, loa, stored>>

Next ==
    \/ \E r \in Recs : Recognise(r)
    \/ \E d \in Deds : Deduct(d)
    \/ \E m \in Months : Read(m) \/ \E e \in Employees : Leave(e, m) \/ Dashboard(e, m)
    \/ \E e \in Employees : Archive(e) \/ Rehire(e)

Spec == Init /\ [][Next]_viewVars
-----------------------------------------------------------------------------
(* Every page tells the same score: the details of a member add up to the  *)
(* month's score, a ranking to the months of its range, the dashboard's    *)
(* categories to the recognition score, and groups, circles, the summary   *)
(* and the trend to their members, whichever records are awaiting review,  *)
(* spent on an upgrade or excluded by a leave.                             *)
ViewsAgree ==
    LET score == [m \in Months |-> [e \in Employees |-> MonthScore(e, m)]]
    IN /\ \A e \in Employees, m \in Months :
              /\ Details(e, m) = score[m][e]
              /\ Category(e, m) = score[m][e].recognition
       /\ \A e \in Employees, range \in SUBSET Months :
              Ranking(e, range) = Total([m \in range |-> score[m][e]])
       /\ \A m \in Months :
              /\ Trend(score[m], m) = Summary(score[m], m)
              /\ Summary(score[m], m) = Total([g \in Groups |-> Leader(score[m], m, g)])
              /\ Summary(score[m], m) = Total(score[m])

(* A stored attendance row is what its employee's leave and employment     *)
(* say now ("Sick-leave and employee-change workflows recalculate their    *)
(* affected employee directly", services/attendance.py:218).               *)
AttendanceFollows ==
    \A e \in Employees, m \in Months :
        stored[<<e, m>>] # Missing => stored[<<e, m>>] = Computed(e, m, loa)

(* The same where nobody was registered again: leave alone never leaves a  *)
(* stored row behind that a page would read for its opposite.              *)
LeaveFollowed ==
    \A e \in Employees, m \in Months :
        stored[<<e, m>>] # Missing /\ m # Present => stored[<<e, m>>] = Computed(e, m, loa)
=============================================================================
