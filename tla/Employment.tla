------------------------------ MODULE Employment ------------------------------
(***************************************************************************)
(* One employee from registration to deletion and back: the cycles of      *)
(* employment, the login account with its three-day rule, the intern's     *)
(* last day and the dated rows of base identity and acting duty            *)
(* (services/employment.py, employee_types.py, employee_status.py,         *)
(* employee_identity_commands.py, identity.py, employee_import.py,         *)
(* routers/employees.py, routers/accounts.py).  Every handler takes        *)
(* SQLite's writer before it reads and is one action; the expiry worker    *)
(* is another writer that comes at any time.                               *)
(*                                                                         *)
(* Left out: the circle and the groups (WorkGroups), leave (Absence), the  *)
(* month gate (MonthGate), sessions, and terms of a base identity, which   *)
(* neither form sets.  A day is one tick; 72 hours are three.              *)
(***************************************************************************)
EXTENDS Integers, Sequences, FiniteSetsExt

CONSTANTS
    LastDay,   \* bound: days
    LastDays,  \* the days a form may give as an intern's last
    MaxWrites  \* bound: requests that write

VARIABLES today, emp, cycles, account, bases, duties, offSince, writes
employmentVars == <<today, emp, cycles, account, bases, duties, offSince, writes>>

Forever == LastDay + 1
Calendar == 1 .. LastDay
Kinds == {"regular", "Intern"}
Ends == {0} \cup LastDays   \* internship_ends_on; 0 is none
NoAccount == [has |-> FALSE, on |-> FALSE, offAt |-> 0]
NewAccount == [has |-> TRUE, on |-> TRUE, offAt |-> 0]
Row(role, to) == [role |-> role, from |-> today, to |-> to, cancelled |-> FALSE]
-----------------------------------------------------------------------------
(* Who somebody was on a day. *)

Covers(r, d) == ~r.cancelled /\ r.from <= d /\ d <= r.to
Covering(rows, d) == {i \in DOMAIN rows : Covers(rows[i], d)}
\* duties_at: the highest rank first; base_role_at: the latest start, then id.
DutyOn(d) == LET names == {duties[i].role : i \in Covering(duties, d)}
             IN IF "TA_GSM" \in names THEN "TA_GSM"
                ELSE IF names # {} THEN "TA_SUPERVISOR" ELSE "none"
BaseOn(d) == IF Covering(bases, d) = {} THEN "none" ELSE bases[Max(Covering(bases, d))].role
RoleOn(d) == IF DutyOn(d) # "none" THEN DutyOn(d) ELSE BaseOn(d)

Previously(d) == \E i \in DOMAIN cycles : cycles[i].from <= d /\ d < cycles[i].to
\* employee_active_on, and employed_on, which knows no hiring day without a history
ActiveOn(d) == Previously(d) \/ (emp.hired <= d /\ (emp.gone = 0 \/ d < emp.gone) /\ emp.active)
EmployedOn(d) == IF cycles # <<>> THEN ActiveOn(d)
                 ELSE IF emp.gone # 0 THEN d < emp.gone ELSE emp.active
-----------------------------------------------------------------------------
Due(e) == e.kind = "Intern" /\ e.ends # 0 /\ e.ends < today
\* Seeded fault: an account already disabled is stamped again.
ExpiredAgain(e, a) == IF a.has /\ Due(e) /\ e.deleted = 0
                      THEN [a EXCEPT !.on = FALSE, !.offAt = today] ELSE a
\* expire_accounts touches enabled accounts only: a manual time is preserved.
Expired(e, a) == IF a.has /\ a.on /\ Due(e) /\ e.deleted = 0
                 THEN [a EXCEPT !.on = FALSE, !.offAt = today] ELSE a
\* Seeded fault: the first time of disabling is kept over an enabling.
ToggledOnce(a, on) == IF a.on = on THEN a
                      ELSE [a EXCEPT !.on = on, !.offAt = IF @ = 0 THEN today ELSE @]
\* _apply_account_status
Toggled(a, on) == IF a.on = on THEN a
                  ELSE [a EXCEPT !.on = on, !.offAt = IF on THEN 0 ELSE today]
\* Seeded fault: what the form sets is not looked at once more.
SavedAsIs(e, a) == account' = a
\* What a request leaves: expire_accounts runs before each of them commits.
Saved(e, a) == account' = Expired(e, a)
\* The ghost: since when the account has been disabled without a break.
Watched == offSince' = IF ~account'.has \/ account'.on THEN 0
                       ELSE IF account.on \/ ~account.has THEN today ELSE offSince
Written == writes < MaxWrites /\ writes' = writes + 1 /\ Watched
-----------------------------------------------------------------------------
Init ==
    /\ today = 1
    /\ emp = [hired |-> 1, gone |-> 0, active |-> TRUE, deleted |-> 0,
              kind |-> "regular", ends |-> 0]
    /\ cycles = <<>> /\ account = NewAccount
    /\ bases = <<Row("CM", Forever)>> /\ duties = <<>>
    /\ offSince = 0 /\ writes = 0

Midnight == today < LastDay /\ today' = today + 1
            /\ UNCHANGED <<emp, cycles, account, bases, duties, offSince, writes>>

(* The worker of every minute, and enforce_account_expiry on a request. *)
ExpiryCheck ==
    /\ account # Expired(emp, account) /\ account' = Expired(emp, account) /\ Watched
    /\ UNCHANGED <<today, emp, cycles, bases, duties, writes>>

ActiveDuty == LET C == Covering(duties, today) IN IF C = {} THEN 0 ELSE Max(C)
\* Seeded fault: a duty that ends is cancelled, whenever it began.
DutyCancelled(i) == IF i = 0 THEN duties ELSE [duties EXCEPT ![i].cancelled = TRUE]
\* _end_duty
DutyEnded(i) ==
    IF i = 0 THEN duties
    ELSE IF duties[i].from >= today THEN [duties EXCEPT ![i].cancelled = TRUE]
    ELSE [duties EXCEPT ![i].to = today - 1]

\* apply_identity_changes for the code the form sends.
Identity(code, until) ==
    LET i == ActiveDuty
        duty == code \in {"TA_SUPERVISOR", "TA_GSM"}
        neededBase == IF code = "TA_GSM" THEN "SUPERVISOR" ELSE "CM"
    IN \/ /\ code = RoleOn(today)
          /\ duties' = IF duty THEN [duties EXCEPT ![i].to = until] ELSE duties
          /\ UNCHANGED bases
       \/ /\ code # RoleOn(today) /\ duty /\ BaseOn(today) = neededBase
          /\ duties' = Append(DutyEnded(i), Row(code, until)) /\ UNCHANGED bases
       \/ /\ code # RoleOn(today) /\ ~duty
          /\ duties' = DutyEnded(i)
          /\ bases' = IF code = BaseOn(today) THEN bases
                      ELSE Append([bases EXCEPT ![Len(bases)].to = today], Row(code, Forever))

(* PUT /hr/employees/{id}: the profile and the account first, then who the *)
(* employee is.                                                            *)
Edit(code, until, kind, ends, on) ==
    LET e == [emp EXCEPT !.kind = kind, !.ends = ends]
    IN /\ emp.deleted = 0
       /\ kind = "regular" => ends = 0
       /\ until >= today
       /\ ~(on /\ ~account.on /\ Due(e))
       /\ emp' = e /\ Saved(e, Toggled(account, on)) /\ Written
       /\ Identity(code, until)
       /\ UNCHANGED <<today, cycles>>

(* POST /hr/import-employees, a row that overwrites a known employee.      *)
Import(kind, ends) ==
    LET e == [emp EXCEPT !.kind = kind, !.ends = ends]
    IN /\ emp.deleted = 0
       /\ kind = "regular" => ends = 0
       /\ emp' = e /\ Saved(e, account) /\ Written
       /\ UNCHANGED <<today, cycles, bases, duties>>

\* Seeded fault: three calendar days counted with the first.
ThreeDaysCounted == today >= account.offAt + 2
\* login_account_archive_state
ThreeDaysOff == account.offAt # 0 /\ today >= account.offAt + 3

(* DELETE /hr/employees/{id}/account: the person is archived, the          *)
(* credentials go.                                                         *)
Archive ==
    /\ emp.deleted = 0 /\ account.has /\ ~account.on /\ ThreeDaysOff
    /\ RoleOn(today) # "none"
    /\ emp' = [emp EXCEPT !.gone = today, !.active = FALSE, !.deleted = today]
    /\ cycles' = Append(cycles, [from |-> emp.hired, to |-> today])
    /\ account' = NoAccount /\ Written
    /\ UNCHANGED <<today, bases, duties>>

\* Seeded fault: rows of the former cycle are cancelled, not ended.
ClosedAll(rows) == [i \in DOMAIN rows |-> [rows[i] EXCEPT !.cancelled = TRUE]]
\* restart_employment: rows of the former cycle end the day before.
Closed(rows) ==
    [i \in DOMAIN rows |->
        IF rows[i].cancelled \/ rows[i].to < today THEN rows[i]
        ELSE IF rows[i].from >= today THEN [rows[i] EXCEPT !.cancelled = TRUE]
        ELSE [rows[i] EXCEPT !.to = today - 1]]

(* POST /hr/employees with the number of a deleted person. *)
Rehire(code, kind, ends) ==
    LET e == [hired |-> today, gone |-> 0, active |-> TRUE, deleted |-> 0,
              kind |-> kind, ends |-> ends]
    IN /\ emp.deleted # 0 /\ ~account.has
       /\ kind = "regular" => ends = 0
       /\ emp' = e /\ Saved(e, NewAccount) /\ Written
       /\ bases' = Append(Closed(bases), Row(code, Forever)) /\ duties' = Closed(duties)
       /\ UNCHANGED <<today, cycles>>

Next ==
    \/ Midnight \/ ExpiryCheck \/ Archive
    \/ \E kind \in Kinds, ends \in Ends :
           \/ Import(kind, ends)
           \/ \E code \in {"CM", "SUPERVISOR"} : Rehire(code, kind, ends)
           \/ \E code \in {"CM", "SUPERVISOR", "TA_SUPERVISOR", "TA_GSM"},
                 until \in {today, Forever}, on \in BOOLEAN : Edit(code, until, kind, ends, on)

Spec == Init /\ [][Next]_employmentVars
-----------------------------------------------------------------------------
(* An account is deleted only after it has been disabled for three days    *)
(* without a break, whoever disabled it: the worker's check and an HR edit *)
(* on different days must not count together, nor start the time anew.     *)
DeletedAfterThreeDays ==
    [][account.has /\ ~account'.has => offSince # 0 /\ today - offSince >= 3]_employmentVars

(* The time of disabling the page shows is the beginning of the present    *)
(* break, so that nobody waits longer than three days either.              *)
OffTimeTrue == account.has => (account.offAt = offSince)

(* Nobody's past changes: whatever is edited, archived or registered anew, *)
(* the role and the employment of a day gone by stay what they were, which *)
(* months already scored rely on.                                          *)
PastKept ==
    [][\A d \in 1 .. today - 1 :
           RoleOn(d)' = RoleOn(d) /\ EmployedOn(d)' = EmployedOn(d)]_employmentVars

(* Only midnight makes an enabled account overdue: no form and no import   *)
(* leaves an intern whose last day is over with a working account.         *)
OverdueOnlyByMidnight ==
    [][account'.on /\ Due(emp)' => (account.on /\ Due(emp)) \/ today' # today]_employmentVars
=============================================================================
