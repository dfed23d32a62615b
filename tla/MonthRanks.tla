------------------------------ MODULE MonthRanks ------------------------------
(***************************************************************************)
(* The sealed monthly bands of one month (services/monthly_ranks.py, and   *)
(* close_month and reopen_month, which call it).  A close freezes the      *)
(* circle of everyone in its scope, once, and the scores of the scope as a *)
(* generation of rows.  CM and TR are compared within their circle at the  *)
(* close; supervisors across all circles, once each of their circles is    *)
(* closed, under a signature that names the closes compared.  A scope may  *)
(* be reopened, changed and closed again; a person may move to another     *)
(* circle.  Closing and reopening hold SQLite's writer (MonthGate) and are *)
(* one action each.                                                        *)
(***************************************************************************)
EXTENDS Integers, FiniteSets, FiniteSetsExt

CONSTANTS
    Staff, Supervisors, OnLeave,    \* the scored people; Supervisors, OnLeave \subseteq Staff
    Circles, All, First,       \* First: the circle of each person at first
    MinCohort,                 \* MIN_RANK_COHORT
    Scores,                    \* total scores a person may have
    MaxCloses, MaxMoves        \* bounds: closes, transfers

VARIABLES
    circle,   \* Employee.attraction_id
    total,    \* what employee_month_scores answers
    frozen,   \* EmployeeMonthOrganizationSnapshot.attraction_id, or Nowhere
    closure,  \* MonthClosure by scope: [closed, at]; at = 0 before the first close
    rows,     \* the scope's generation: EmployeeMonthRankSnapshot by person
    closes, moves

rankVars == <<circle, total, frozen, closure, rows, closes, moves>>

Scopes == Circles \cup {All}
Nowhere == All
Where(p) == IF frozen[p] # Nowhere THEN frozen[p] ELSE circle[p]

\* month_closure_scope: the closure in force for a circle, the global one first
Effective(cl, c) == IF cl[All].closed THEN {All} ELSE IF cl[c].closed THEN {c} ELSE {}
Closed(c) == Effective(closure, c) # {}
\* sealed_self_score: the rows of the generation in force
InForce(cl, rw, fz) ==
    {x \in Staff \X Scopes :
        fz[x[1]] # Nowhere /\ x[2] \in Effective(cl, fz[x[1]]) /\ x[1] \in DOMAIN rw[x[2]]}

Midpoint(lower, equal, size) ==
    IF size < MinCohort \/ equal = size THEN -1
    ELSE Max({t \in 1 .. 9 : 5 * (2 * lower + equal) > t * size} \cup {0})
\* Where somebody stands among the totals of a group: bisect over the sorted values
Standing(p, of, group) ==
    LET lower == Cardinality({q \in group : of[q] < of[p]})
        equal == Cardinality({q \in group : of[q] = of[p]})
    IN [size |-> Cardinality(group), lower |-> lower, equal |-> equal,
        tier |-> Midpoint(lower, equal, Cardinality(group))]
\* population_status
Status(of, group) == IF Cardinality(group) < MinCohort THEN "insufficient"
                     ELSE IF \A p, q \in group : of[p] = of[q] THEN "same_scores" ELSE "ranked"

Unranked == [size |-> 0, lower |-> 0, equal |-> 0, tier |-> -1]
Sealed(p, c, status, standing) ==
    [circle |-> c, total |-> total[p], status |-> status, sig |-> {}, standing |-> standing]

Init ==
    /\ circle = First /\ total \in [Staff -> {Min(Scores)}]
    /\ frozen = [p \in Staff |-> Nowhere]
    /\ closure = [s \in Scopes |-> [closed |-> FALSE, at |-> 0]]
    /\ rows = [s \in Scopes |-> <<>>]
    /\ closes = 0 /\ moves = 0

\* A recognition, a deduction or a sick leave: the gate asks for the circle
\* the person is in today.
Write(p, x) ==
    /\ ~Closed(circle[p]) /\ x # total[p]
    /\ total' = [total EXCEPT ![p] = x]
    /\ UNCHANGED <<circle, frozen, closure, rows, closes, moves>>

Transfer(p, c) ==
    /\ moves < MaxMoves /\ moves' = moves + 1
    /\ c # circle[p] /\ circle' = [circle EXCEPT ![p] = c]
    /\ UNCHANGED <<total, frozen, closure, rows, closes>>

\* Seeded fault: a signature names the closures and not when they closed.
StampById(cl, c, s) == <<c, s>>
Stamp(cl, c, s) == <<c, s, cl[s].at>>
\* supervisor_seal_context: empty until every circle with supervisors is closed
SealCircles(fz) == {IF fz[p] # Nowhere THEN fz[p] ELSE circle[p] : p \in Supervisors}
Signature(cl, fz) ==
    IF \E c \in SealCircles(fz) : Effective(cl, c) = {} THEN {}
    ELSE {Stamp(cl, x[1], x[2]) : x \in {y \in SealCircles(fz) \X Scopes : y[2] \in Effective(cl, y[1])}}

Compared(selected) == {x[1] : x \in selected} \ OnLeave
\* refresh_supervisor_month_ranks
Refreshed(cl, rw, fz) ==
    LET sig == Signature(cl, fz)
        selected == {x \in InForce(cl, rw, fz) : x[1] \in Supervisors /\ fz[x[1]] \in SealCircles(fz)}
        of == [p \in {x[1] : x \in selected} |-> rw[CHOOSE s \in Scopes : <<p, s>> \in selected][p].total]
        group == Compared(selected)
    IN IF sig = {} \/ {fz[x[1]] : x \in selected} # SealCircles(fz) THEN rw
       ELSE [s \in Scopes |-> [p \in DOMAIN rw[s] |->
                IF <<p, s>> \notin selected \/ rw[s][p].sig = sig THEN rw[s][p]
                ELSE IF p \in OnLeave THEN [rw[s][p] EXCEPT !.sig = sig]
                ELSE [rw[s][p] EXCEPT !.sig = sig, !.status = Status(of, group),
                                      !.standing = Standing(p, of, group)]]]

\* capture_month_organization_snapshots: who is there today, unless frozen before
Frozen(s) == [p \in Staff |-> IF frozen[p] = Nowhere /\ (s = All \/ circle[p] = s) THEN circle[p]
                               ELSE frozen[p]]
\* capture_month_ranks
Generation(s, fz) ==
    LET who == {p \in Staff : fz[p] # Nowhere /\ (s = All \/ fz[p] = s)}
        cohort(c) == {q \in who \ (Supervisors \cup OnLeave) : fz[q] = c}
    IN [p \in who |->
           IF p \in OnLeave THEN Sealed(p, fz[p], "excluded", Unranked)
           ELSE IF p \in Supervisors THEN Sealed(p, fz[p], "waiting_global", Unranked)
           ELSE Sealed(p, fz[p], Status(total, cohort(fz[p])), Standing(p, total, cohort(fz[p])))]

Close(s) ==
    /\ closes < MaxCloses /\ closes' = closes + 1
    /\ ~closure[s].closed /\ ~closure[All].closed
    /\ closure' = [closure EXCEPT ![s] = [closed |-> TRUE, at |-> closes']]
    /\ frozen' = Frozen(s)
    /\ rows' = Refreshed(closure', [rows EXCEPT ![s] = Generation(s, frozen')], frozen')
    /\ UNCHANGED <<circle, total, moves>>

Reopen(s) ==
    /\ closure[s].closed /\ (s # All => ~closure[All].closed)
    /\ closure' = [closure EXCEPT ![s].closed = FALSE]
    /\ UNCHANGED <<circle, total, frozen, rows, closes, moves>>

Next ==
    \/ \E p \in Staff : (\E x \in Scores : Write(p, x)) \/ (\E c \in Circles : Transfer(p, c))
    \/ \E s \in Scopes : Close(s) \/ Reopen(s)

Spec == Init /\ [][Next]_rankVars
-----------------------------------------------------------------------------
\* member_month_rank: what the person is told
Shown(p, s) ==
    LET r == rows[s][p] IN
    IF p \in Supervisors /\ r.status # "excluded" /\ (r.sig = {} \/ r.sig # Signature(closure, frozen))
    THEN "withheld" ELSE r.status

(* Whoever is told a band is told the one the sealed scores in force give: *)
(* CM and TR against their circle, supervisors against all circles, over   *)
(* scopes closed one by one or all at once, reopened, changed and closed   *)
(* again, and people who moved meanwhile.  A band that is told exists.     *)
BandTold ==
    LET now == InForce(closure, rows, frozen) IN
    \A x \in now : Shown(x[1], x[2]) = "ranked" =>
        LET p == x[1]
            peers == {y \in now : /\ y[1] \notin OnLeave
                                  /\ (y[1] \in Supervisors) = (p \in Supervisors)
                                  /\ p \in Supervisors \/ frozen[y[1]] = frozen[p]}
            of == [q \in {y[1] : y \in peers} |-> rows[CHOOSE s \in Scopes : <<q, s>> \in peers][q].total]
        IN /\ rows[x[2]][p].standing = Standing(p, of, DOMAIN of)
           /\ rows[x[2]][p].standing.tier >= 0
=============================================================================
