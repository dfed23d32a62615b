------------------------------ MODULE WorkGroups ------------------------------
(***************************************************************************)
(* Work groups and the people in them: the base identity and acting duty   *)
(* of a person, the group they are a member of, who leads a group as its   *)
(* supervisor (formal) or in place of one (acting), who is to review a     *)
(* member's pending recognition, transfers between circles, the circle an  *)
(* acting GSM manages, and the sweep that ends what has expired            *)
(* (services/employee_commands.py, employee_identity_commands.py,          *)
(* employee_groups.py, organization.py, role_lifecycle.py,                 *)
(* management_scopes.py, routers/organization.py).                         *)
(*                                                                         *)
(* An employee's edit and a review take SQLite's writer before they read:  *)
(* one action.  The other handlers read and check first and take the       *)
(* writer with their first statement that writes: Plan and Commit, with    *)
(* anything in between.  What a commit reads after its flush is fresh.     *)
(*                                                                         *)
(* Left out: base identities other than CM (TR is alike) and SUPERVISOR,   *)
(* terms of a base identity (the form sets none), leave, accounts, group   *)
(* names, and the records a transfer moves along with their owner.         *)
(***************************************************************************)
EXTENDS Integers, FiniteSets, SequencesExt

CONSTANTS
    People, Groups, Circles, None,
    NoRecord,      \* a person without a recognition awaiting review
    CircleOf,      \* the circle of each group
    FirstBase,     \* each person's identity when the model starts
    FirstCircle,
    FirstGroup,    \* the group each person starts in, or None
    FirstFormal,   \* the supervisor each group starts with, or None
    Threads,       \* requests that may be under way at once
    LastDay,       \* bound: days
    MaxRows,       \* bound: memberships of a person, leader rows of a group
    MaxEdits,      \* bound: edits of employees
    MaxCalls       \* bound: transfers asked for and handlers started

Base == {"CM", "SUPERVISOR"}
Duties == {"TA_SUPERVISOR", "TA_GSM"}
Types == {"formal", "acting"}
Forever == LastDay + 1

ASSUME NamesAssumption == None \notin People \cup Groups /\ NoRecord \notin People \cup {None}
ASSUME BoundsAssumption ==
    LastDay \in Nat \ {0} /\ MaxRows \in Nat \ {0} /\ MaxEdits \in Nat /\ MaxCalls \in Nat
ASSUME StartAssumption ==
    /\ CircleOf \in [Groups -> Circles] /\ FirstBase \in [People -> Base]
    /\ FirstCircle \in [People -> Circles]
    /\ FirstGroup \in [People -> Groups \cup {None}] /\ FirstFormal \in [Groups -> People \cup {None}]
    /\ \A p \in People : FirstGroup[p] # None =>
           FirstBase[p] = "CM" /\ CircleOf[FirstGroup[p]] = FirstCircle[p]
    /\ \A g \in Groups : FirstFormal[g] # None =>
           /\ FirstBase[FirstFormal[g]] = "SUPERVISOR"
           /\ FirstCircle[FirstFormal[g]] = CircleOf[g]

VARIABLES
    today,
    base, duty, circle,  \* of each person
    rows,      \* group_memberships of each person, oldest first
    leads,     \* group_leader_assignments of each group, oldest first
    status,    \* of each group
    pending,   \* the reviewer named by a person's pending record
    request,   \* each person's transfer request
    scope,     \* the circles a person manages as an acting GSM
    thread,    \* what each request has read
    edits, calls

person == <<base, duty, circle>>
vars == <<today, person, rows, leads, status, pending, request, scope, thread, edits, calls>>
-----------------------------------------------------------------------------
(* Who is what. *)

NoDuty == [code |-> "none", until |-> 0]
Acts(p) == duty[p].code # "none" /\ duty[p].until >= today
\* role_at: the duty in use, else the base identity.
RoleAt(p) == IF Acts(p) THEN duty[p].code ELSE base[p]
DutyBase(code) == IF code = "TA_GSM" THEN "SUPERVISOR" ELSE "CM"
\* can_lead_on
CanLead(p) == {RoleAt(p), base[p]} \cap {"TA_SUPERVISOR", "SUPERVISOR"} # {}
-----------------------------------------------------------------------------
(* Members and leaders, of the rows ms and ls as a statement finds them. *)

ActiveIds(s) == {i \in DOMAIN s : s[i].active}
\* The latest active row, 0 if there is none.
Latest(ids) == IF ids = {} THEN 0 ELSE Max(ids)
GroupIn(ms, p) == LET i == Latest(ActiveIds(ms[p])) IN IF i = 0 THEN None ELSE ms[p][i].group
Members(ms, g) == {p \in People : \E i \in DOMAIN ms[p] : ms[p][i] = [group |-> g, active |-> TRUE]}
\* group_leader_of_type
RowOf(ls, g, type) == Latest({i \in ActiveIds(ls[g]) : ls[g][i].type = type})
LeaderOf(ls, g, type) == LET i == RowOf(ls, g, type) IN IF i = 0 THEN None ELSE ls[g][i].who
\* active_group_leader: the acting leader runs the group, else the formal one.
Runs(ls, g) == IF LeaderOf(ls, g, "acting") # None THEN LeaderOf(ls, g, "acting")
               ELSE LeaderOf(ls, g, "formal")
\* Seeded fault: whoever runs the group, the person included.
ReviewerRuns(ms, ls, p) == IF GroupIn(ms, p) = None THEN None ELSE Runs(ls, GroupIn(ms, p))
\* current_leader_for_employee
Reviewer(ms, ls, p) ==
    LET g == GroupIn(ms, p)
        runs == IF g = None THEN None ELSE Runs(ls, g)
        formal == LeaderOf(ls, g, "formal")
    IN IF runs # p THEN runs ELSE IF formal = p THEN None ELSE formal
Assigned(ls, g, type, p) == [type |-> type, who |-> p, active |-> TRUE] \in Range(ls[g])

\* Seeded fault: an acting leader who is a member of the group has no reviewer.
DirectOfRuns(l) == (UNION {Members(rows, g) : g \in {x \in Groups : Runs(leads, x) = l}}) \ {l}
\* direct_member_ids: whose records l may review.
DirectMembers(l) ==
    LET led == {g \in Groups : Runs(leads, g) = l}
        formally == {g \in Groups : Assigned(leads, g, "formal", l)}
        theirs == UNION {Members(rows, g) : g \in formally}
    IN ((UNION {Members(rows, g) : g \in led}) \ {l})
         \cup ({LeaderOf(leads, g, "acting") : g \in formally} \cap theirs)

\* Seeded fault: the records of a leader who goes stay with them.
Unsynced(rc, ms, ls, gs) == rc
\* sync_pending_reviewers, for the members of the groups gs.
Synced(rc, ms, ls, gs) ==
    [p \in People |-> IF rc[p] # NoRecord /\ \E g \in gs : p \in Members(ms, g)
                      THEN Reviewer(ms, ls, p) ELSE rc[p]]

Off(s, ids) == [i \in DOMAIN s |-> [s[i] EXCEPT !.active = @ /\ i \notin ids]]
Joined(s, g) == Append(s, [group |-> g, active |-> TRUE])
\* No request of theirs awaits review.
Over == [st |-> "over", from |-> None, to |-> None]
-----------------------------------------------------------------------------
Init ==
    /\ today = 1
    /\ base = FirstBase /\ circle = FirstCircle
    /\ duty = [p \in People |-> NoDuty]
    /\ rows = [p \in People |-> IF FirstGroup[p] = None THEN <<>> ELSE Joined(<<>>, FirstGroup[p])]
    /\ leads = [g \in Groups |-> IF FirstFormal[g] = None THEN <<>>
                ELSE <<[type |-> "formal", who |-> FirstFormal[g], active |-> TRUE]>>]
    /\ status = [g \in Groups |-> "active"]
    /\ pending = [p \in People |-> NoRecord]
    /\ request = [p \in People |-> Over]
    /\ scope = [p \in People |-> {}]
    /\ thread = [t \in Threads |-> [op |-> "idle"]]
    /\ edits = 0 /\ calls = 0

NextDay ==
    /\ today < LastDay
    /\ today' = today + 1
    /\ UNCHANGED <<person, rows, leads, status, pending, request, scope, thread, edits, calls>>
-----------------------------------------------------------------------------
(* PUT /hr/employees/{id}: one transaction under BEGIN IMMEDIATE. *)

\* relinquish_ineligible_leadership: what p no longer may lead ends today.
Relinquished(p, role, nextBase) ==
    LET Keeps(type) == IF type = "formal" THEN nextBase = "SUPERVISOR" ELSE role = "TA_SUPERVISOR"
        Gone(g) == {i \in {RowOf(leads, g, type) : type \in {t \in Types : ~Keeps(t)}} :
                        i # 0 /\ leads[g][i].who = p}
    IN [g \in Groups |-> Off(leads[g], Gone(g))]

\* apply_identity_changes
DutyAfter(p, role, until) ==
    IF role \in Duties THEN [code |-> role, until |-> until]
    ELSE IF role # RoleAt(p) THEN NoDuty ELSE duty[p]
BaseAfter(p, role) == IF role = RoleAt(p) \/ role \in Duties THEN base[p] ELSE role
\* synchronize_gsm_management_scope
ScopeFor(role, c) == IF role = "TA_GSM" THEN {c} ELSE {}

\* Seeded fault: a duty keeps the group wherever the person goes.
KeptByDuty(p, role, g, c) == role \in Duties /\ g = None
\* A duty keeps the group unless the person leaves its circle.
KeepsGroup(p, role, g, c) ==
    LET cur == GroupIn(rows, p)
    IN role \in Duties /\ g = None /\ ~(cur # None /\ CircleOf[cur] # c)

\* A former leader goes back to the one group of the circle they were in.
Historic(p, c) ==
    IF base[p] # "SUPERVISOR" THEN {}
    ELSE {g \in {r.group : r \in Range(rows[p])} : status[g] # "closed" /\ CircleOf[g] = c}
Target(p, g, c) == IF g # None \/ Historic(p, c) = {} THEN g ELSE CHOOSE x \in Historic(p, c) : TRUE

EndCurrent(p) == Off(rows[p], {Latest(ActiveIds(rows[p]))})

\* apply_group_membership, after the leaderships ls: the rows of p and its record.
Regroup(p, role, nextBase, g, c, ls, rc) ==
    LET cur == GroupIn(rows, p)
        target == Target(p, g, c)
        ms == [rows EXCEPT ![p] = IF target = None THEN EndCurrent(p)
                                  ELSE Joined(EndCurrent(p), target)]
    IN \/ /\ KeepsGroup(p, role, g, c)
          /\ rows' = rows /\ pending' = rc
       \/ /\ ~KeepsGroup(p, role, g, c) /\ nextBase # "CM" /\ g = None
          /\ rows' = [rows EXCEPT ![p] = EndCurrent(p)] /\ pending' = rc
       \/ /\ ~KeepsGroup(p, role, g, c) /\ nextBase = "CM"
          /\ g # None => /\ status[g] # "closed" /\ CircleOf[g] = c
                         /\ LeaderOf(ls, g, "formal") # p
          /\ g = None => Cardinality(Historic(p, c)) <= 1
          /\ IF target = cur THEN rows' = rows /\ pending' = rc
             ELSE /\ target = None => rc[p] = NoRecord
                  /\ rows' = ms
                  /\ pending' = IF target = None \/ rc[p] = NoRecord THEN rc
                                ELSE [rc EXCEPT ![p] = Reviewer(ms, ls, p)]

Edit(p, role, until, c, g) ==
    LET changed == role # RoleAt(p)
        nextBase == BaseAfter(p, role)
        ls == IF changed THEN Relinquished(p, role, nextBase) ELSE leads
    IN /\ edits < MaxEdits /\ edits' = edits + 1
       /\ role \in Duties /\ changed => base[p] = DutyBase(role)
       /\ until >= today
       /\ circle' = [circle EXCEPT ![p] = c]
       /\ base' = [base EXCEPT ![p] = nextBase]
       /\ duty' = [duty EXCEPT ![p] = DutyAfter(p, role, until)]
       /\ leads' = ls
       /\ scope' = [scope EXCEPT ![p] = ScopeFor(role, c)]
       /\ Regroup(p, role, nextBase, g, c, ls,
                  Synced(pending, rows, ls, {x \in Groups : ls[x] # leads[x]}))
       /\ \A q \in People : Len(rows'[q]) <= MaxRows
       /\ UNCHANGED <<today, status, request, thread, calls>>
-----------------------------------------------------------------------------
(* The sweep (process_role_expirations), at most every five minutes.       *)

Valid(r) == IF r.type = "formal" THEN base[r.who] = "SUPERVISOR" ELSE CanLead(r.who)
\* Seeded fault: acting leaders are not looked at again.
LapsedFormal(g) == {i \in ActiveIds(leads[g]) : leads[g][i].type = "formal" /\ ~Valid(leads[g][i])}
Lapsed(g) == {i \in ActiveIds(leads[g]) : ~Valid(leads[g][i])}
\* Seeded fault: a duty that ended leaves the circle with its GSM.
ScopeLeft(p) == scope[p]
ScopeAfter(p) == ScopeFor(base[p], circle[p])
Expired == {p \in People : duty[p].code # "none" /\ duty[p].until < today}

Sweep ==
    LET ls == [g \in Groups |-> Off(leads[g], Lapsed(g))]
        gone == UNION {{leads[g][i].who : i \in Lapsed(g)} : g \in Groups}
    IN /\ Expired # {} \/ \E g \in Groups : Lapsed(g) # {}
       /\ duty' = [p \in People |-> IF p \in Expired THEN NoDuty ELSE duty[p]]
       /\ scope' = [p \in People |-> IF p \in Expired THEN ScopeAfter(p) ELSE scope[p]]
       /\ leads' = ls
       /\ pending' = [p \in People |-> IF pending[p] \in gone THEN None ELSE pending[p]]
       /\ status' = [g \in Groups |-> IF Lapsed(g) # {} /\ Runs(ls, g) = None
                                      THEN "pending_takeover" ELSE status[g]]
       /\ UNCHANGED <<today, base, circle, rows, request, thread, edits, calls>>
-----------------------------------------------------------------------------
(* Handlers that read first and write later. *)

Idle(t) == thread[t].op = "idle"
Plan(t, r) == /\ Idle(t) /\ thread' = [thread EXCEPT ![t] = r]
              /\ calls < MaxCalls /\ calls' = calls + 1
              /\ UNCHANGED <<today, person, rows, leads, status, pending, request, scope, edits>>
Commits(t, op) == thread[t].op = op /\ thread' = [thread EXCEPT ![t] = [op |-> "idle"]]

\* apply_group_leaders: what is asked of a person who is to lead.
MayLead(g, type, p) ==
    /\ circle[p] = CircleOf[g]
    /\ IF type = "formal" THEN base[p] = "SUPERVISOR" /\ p \notin Members(rows, g)
       ELSE RoleAt(p) = "TA_SUPERVISOR"
    /\ \A x \in Groups \ {g} : status[x] # "closed" => ~Assigned(leads, x, type, p)

PlanLeaders(t, g, plan) ==
    LET changes == {type \in Types : plan[type] # LeaderOf(leads, g, type)} IN
    /\ status[g] # "closed" /\ changes # {}
    /\ \A type \in changes : plan[type] # None => MayLead(g, type, plan[type])
    /\ Plan(t, [op |-> "leaders", group |-> g, was |-> status[g],
                old |-> {RowOf(leads, g, type) : type \in changes},
                new |-> [type \in Types |-> IF type \in changes THEN plan[type] ELSE None]])

CommitLeaders(t) ==
    LET r == thread[t]
        g == r.group
        Named(type) == IF r.new[type] = None THEN <<>>
                       ELSE <<[type |-> type, who |-> r.new[type], active |-> TRUE]>>
        ls == [leads EXCEPT ![g] = Off(@, r.old) \o Named("formal") \o Named("acting")]
    IN /\ Commits(t, "leaders")
       /\ Len(ls[g]) <= MaxRows
       /\ leads' = ls
       /\ pending' = Synced(pending, rows, ls, {g})
       /\ status' = IF Runs(ls, g) # None /\ r.was # "active"
                    THEN [status EXCEPT ![g] = "active"] ELSE status
       /\ UNCHANGED <<today, person, rows, request, scope, edits, calls>>

PlanClose(t, g) ==
    /\ status[g] # "closed" /\ Members(rows, g) = {}
    /\ Plan(t, [op |-> "close", group |-> g, old |-> ActiveIds(leads[g])])
CommitClose(t) ==
    LET g == thread[t].group IN
    /\ Commits(t, "close")
    /\ leads' = [leads EXCEPT ![g] = Off(@, thread[t].old)]
    /\ status' = [status EXCEPT ![g] = "closed"]
    /\ UNCHANGED <<today, person, rows, pending, request, scope, edits, calls>>

\* create_circle_transfer
Ask(p, c) ==
    /\ base[p] = "CM" /\ c # circle[p] /\ request[p].st # "pending"
    /\ calls < MaxCalls /\ calls' = calls + 1
    /\ request' = [request EXCEPT ![p] = [st |-> "pending", from |-> circle[p], to |-> c]]
    /\ UNCHANGED <<today, person, rows, leads, status, pending, scope, thread, edits>>

\* review_circle_transfer refusing, cancel_circle_transfer.
PlanDecline(t, p) ==
    /\ request[p].st = "pending"
    /\ Plan(t, [op |-> "decline", who |-> p])
CommitDecline(t) ==
    /\ Commits(t, "decline")
    /\ request' = [request EXCEPT ![thread[t].who] = Over]
    /\ UNCHANGED <<today, person, rows, leads, status, pending, scope, edits, calls>>

\* review_circle_transfer accepting, complete_circle_transfer.
PlanAccept(t, p, g) ==
    /\ request[p].st = "pending" /\ circle[p] = request[p].from
    /\ status[g] # "closed" /\ CircleOf[g] = request[p].to
    /\ Plan(t, [op |-> "accept", who |-> p, group |-> g, old |-> ActiveIds(rows[p])])
\* Seeded fault: the person moves, the membership stays.
StaysIn(s, old, g) == s
MovesTo(s, old, g) == Joined(Off(s, old), g)
CommitAccept(t) ==
    LET p == thread[t].who
        ms == [rows EXCEPT ![p] = MovesTo(@, thread[t].old, thread[t].group)]
    IN /\ Commits(t, "accept")
       /\ Len(ms[p]) <= MaxRows
       /\ rows' = ms
       /\ circle' = [circle EXCEPT ![p] = CircleOf[thread[t].group]]
       /\ pending' = IF pending[p] = NoRecord THEN pending
                     ELSE [pending EXCEPT ![p] = Reviewer(ms, leads, p)]
       /\ request' = [request EXCEPT ![p] = Over]
       /\ UNCHANGED <<today, base, duty, leads, status, scope, edits, calls>>

\* A recognition of one's own: the reviewer is read before the record is written.
PlanSubmit(t, p) ==
    /\ base[p] = "CM" /\ pending[p] = NoRecord
    /\ Plan(t, [op |-> "submit", who |-> p, reviewer |-> Reviewer(rows, leads, p)])
CommitSubmit(t) ==
    LET p == thread[t].who IN
    /\ Commits(t, "submit")
    /\ pending' = IF pending[p] = NoRecord THEN [pending EXCEPT ![p] = thread[t].reviewer] ELSE pending
    /\ UNCHANGED <<today, person, rows, leads, status, request, scope, edits, calls>>

\* review_recognition, under BEGIN IMMEDIATE, by whoever leads the person now.
Review(l, p) ==
    /\ pending[p] # NoRecord /\ CanLead(l) /\ p \in DirectMembers(l) /\ p # l
    /\ pending' = [pending EXCEPT ![p] = NoRecord]
    /\ UNCHANGED <<today, person, rows, leads, status, request, scope, thread, edits, calls>>
-----------------------------------------------------------------------------
Next ==
    \/ NextDay \/ Sweep
    \/ \E p \in People, role \in Base \cup Duties, until \in 1..Forever, c \in Circles,
          g \in Groups \cup {None} :
          (until = Forever \/ role \in Duties) /\ Edit(p, role, until, c, g)
    \/ \E t \in Threads, g \in Groups, plan \in [Types -> People \cup {None}] : PlanLeaders(t, g, plan)
    \/ \E t \in Threads, g \in Groups : PlanClose(t, g)
    \/ \E p \in People, c \in Circles : Ask(p, c)
    \/ \E t \in Threads, p \in People : PlanDecline(t, p)
    \/ \E t \in Threads, p \in People, g \in Groups : PlanAccept(t, p, g)
    \/ \E t \in Threads, p \in People : PlanSubmit(t, p)
    \/ \E t \in Threads : \/ CommitLeaders(t) \/ CommitClose(t) \/ CommitDecline(t)
                          \/ CommitAccept(t) \/ CommitSubmit(t)
    \/ \E l, p \in People : Review(l, p)

Spec == Init /\ [][Next]_vars
\* Any request makes the sweep run once five minutes have passed.
FairSpec == Spec /\ WF_vars(Sweep)
-----------------------------------------------------------------------------
Plans == [op : {"idle"}]
         \cup [op : {"leaders"}, group : Groups, was : {"active", "pending_takeover"},
               old : SUBSET (0..MaxRows), new : [Types -> People \cup {None}]]
         \cup [op : {"close"}, group : Groups, old : SUBSET (1..MaxRows)]
         \cup [op : {"decline"}, who : People]
         \cup [op : {"accept"}, who : People, group : Groups, old : SUBSET (1..MaxRows)]
         \cup [op : {"submit"}, who : People, reviewer : People \cup {None}]
TypeOK ==
    /\ today \in 1..LastDay /\ edits \in 0..MaxEdits /\ calls \in 0..MaxCalls
    /\ base \in [People -> Base] /\ circle \in [People -> Circles]
    /\ duty \in [People -> [code : Duties \cup {"none"}, until : 0..Forever]]
    /\ \A p \in People : /\ Len(rows[p]) <= MaxRows
                         /\ Range(rows[p]) \subseteq [group : Groups, active : BOOLEAN]
    /\ \A g \in Groups : /\ Len(leads[g]) <= MaxRows
                         /\ Range(leads[g]) \subseteq [type : Types, who : People, active : BOOLEAN]
    /\ status \in [Groups -> {"active", "pending_takeover", "closed"}]
    /\ pending \in [People -> People \cup {None, NoRecord}]
    /\ \A p \in People : pending[p] # p
    /\ request \in [People -> [st : {"over", "pending"},
                               from : Circles \cup {None}, to : Circles \cup {None}]]
    /\ scope \in [People -> SUBSET Circles]
    /\ thread \in [Threads -> Plans]

\* An acceptance and an edit that overlapped have left p a membership below a later one.
Overtaken(ms, p) == \E i \in ActiveIds(ms[p]) : i # Len(ms[p])
\* The group a person is in belongs to their circle, however an edit of the person
\* and the acceptance of their transfer overlap, until the later of two memberships
\* they may leave is ended and the earlier is found again (apply_group_membership,
\* complete_circle_transfer).
GroupInCircle == \A p \in People : LET g == GroupIn(rows, p) IN
    g # None /\ ~Overtaken(rows, p) => CircleOf[g] = circle[p]

\* Whoever may review a member's record is the one the record would name, and
\* nobody else: direct_member_ids and current_leader_for_employee agree wherever no
\* two requests have left a person two memberships or two groups to lead formally,
\* or a group two leaders of a type.  Nobody reviews a record of their own
\* (apply_recognition_review).
Single == /\ \A p \in People : Cardinality(ActiveIds(rows[p])) <= 1
          /\ \A g \in Groups, type \in Types :
                 Cardinality({i \in ActiveIds(leads[g]) : leads[g][i].type = type}) <= 1
          /\ \A p \in People, g, h \in Groups :
                 Assigned(leads, g, "formal", p) /\ Assigned(leads, h, "formal", p) => g = h
ReviewersAgree ==
    Single => \A p \in People :
        {l \in People \ {p} : p \in DirectMembers(l)} = {Reviewer(rows, leads, p)} \ {None}

\* A step that ends someone's leadership of an open group leaves none of its
\* members' records with them, unless they still are the one who reviews it:
\* relinquish_ineligible_leadership, apply_group_leaders and the sweep.
HandOver ==
    [][\A g \in Groups, l \in People :
         (/\ \E type \in Types : Assigned(leads, g, type, l)
          /\ \A type \in Types : ~Assigned(leads', g, type, l)
          /\ status'[g] # "closed")
         => \A p \in Members(rows', g) :
                pending'[p] = l => Reviewer(rows', leads', p) = l \/ Overtaken(rows', p)]_vars

\* The circle managed as an acting GSM ends with the duty, by whichever of the edit
\* and the sweep ends it.
ScopeEnds == \A p \in People : scope[p] # {} => duty[p].code = "TA_GSM"

\* The organization at every moment: types, groups within circles, reviewers the
\* lists and the records agree on, and scopes that end with their duty.
GroupsKept == TypeOK /\ GroupInCircle /\ ReviewersAgree /\ ScopeEnds

\* Someone who may no longer lead a group stops leading it: the sweep finds what no
\* edit ended, such as a duty that ran out or a demotion while leaders were set.
LedUnfit == \E g \in Groups : \E r \in Range(leads[g]) : r.active /\ ~Valid(r)
LapsedLeaderLeaves == LedUnfit ~> ~LedUnfit

\* A group has one leader of a type, and a person leads one group of a type
\* (v2_models.py, GroupLeaderAssignment).
OneLeader ==
    /\ \A g \in Groups, type \in Types :
           Cardinality({i \in ActiveIds(leads[g]) : leads[g][i].type = type}) <= 1
    /\ \A p \in People, type \in Types : Cardinality({g \in Groups : Assigned(leads, g, type, p)}) <= 1
=============================================================================
