-------------------------- MODULE DeductionFlowProofs --------------------------
(***************************************************************************)
(* For any records, levels and number of requests that await uploads:      *)
(*                                                                         *)
(*   - no declaration becomes active beside a punishment it does not       *)
(*     escalate.  The answer a request took before it awaited may be stale;*)
(*     every way into force asks again at its own commit;                  *)
(*   - a first statement is spent on one upgrade at a time, the rows of an *)
(*     upgrade tell one story and a closed month stays as it was sealed.   *)
(*     These hold until two requests retry the same record at once         *)
(*     (RetriesOverlap): the retry does not look at the row again after    *)
(*     its upload, so the second one writes over what the first has begun. *)
(*                                                                         *)
(* Linked is the inductive invariant of the second part.  It says what the *)
(* request, the two statements, the job and the waiting retry know of each *)
(* other; a claim is held by the request (Holds) or, before a request is   *)
(* made, by one job (Taken), and no column points at a claim that is over. *)
(***************************************************************************)
EXTENDS DeductionFlow, SequenceTheorems, FiniteSetTheorems, TLAPS

Roles == {"none", "source_first", "source_second", "result"}
Requests == [status : {"absent", "awaiting_material", "pending", "approved", "rejected"},
             first : Records \cup {None}]

\* The type invariant without its bound on the queue, which no step relies on.
Typed ==
    /\ rec \in [Records -> Record]
    /\ request \in [Records -> Requests]
    /\ jobs \in Seq(Job)
    /\ up \in [Uploads -> Upload]

\* The step leaves records of the declared type, and a declaration that comes
\* into force in it escalates what was in force before.
Escalating ==
    /\ rec' \in [Records -> Record]
    /\ \A r \in Records :
          rec[r].status # "active" /\ rec'[r].status = "active" /\ rec'[r].role = "none"
          => Escalates(r, rec'[r].level)

LEMMA BlankTyped == Blank \in Record /\ Statement \in Levels
BY FlowAssumption DEF Blank, Record, Levels, Statement, Statuses, UpgradeStates, Modes

-----------------------------------------------------------------------------
(* Rows and columns.  x may be NULL, which names no row. *)

LEMMA SetRow ==
  ASSUME NEW f \in [Records -> Record], NEW x, NEW v, x \in Records => v \in Record
  PROVE  [f EXCEPT ![x] = v] \in [Records -> Record]
OBVIOUS

\* g is the table f with other columns than the status rewritten.
SameStatuses(f, g) ==
    g \in [Records -> Record] /\ \A q \in Records : g[q].status = f[q].status

\* The columns by which an upgrade holds its first statement, in the orders in
\* which the handlers write them; no status changes.
LEMMA Held ==
  ASSUME NEW f \in [Records -> Record], NEW x, NEW a \in Records \cup {None},
         NEW b \in Roles, NEW c \in UpgradeStates
  PROVE  /\ SameStatuses(f, [f EXCEPT ![x].request = a, ![x].role = b, ![x].state = c])
         /\ SameStatuses(f, [f EXCEPT ![x].role = b, ![x].state = c, ![x].request = a])
         /\ SameStatuses(f, [f EXCEPT ![x].role = b, ![x].state = c])
         /\ SameStatuses(f, [f EXCEPT ![x].state = c, ![x].role = b])
<1> DEFINE rows == {[f[x] EXCEPT !.request = a, !.role = b, !.state = c],
                    [f[x] EXCEPT !.role = b, !.state = c]}
<1>1. x \in Records => \A v \in rows : v \in Record /\ v.status = f[x].status
  <2> SUFFICES ASSUME x \in Records PROVE \A v \in rows : v \in Record /\ v.status = f[x].status
    OBVIOUS
  <2>1. f[x] \in Record
    OBVIOUS
  <2>2. [f[x] EXCEPT !.request = a, !.role = b, !.state = c] \in Record
    BY <2>1 DEF Record, Roles
  <2>3. [f[x] EXCEPT !.role = b, !.state = c] \in Record
    BY <2>1 DEF Record, Roles
  <2>4. \A v \in rows : v.status = f[x].status
    BY <2>1 DEF Record
  <2> QED BY <2>2, <2>3, <2>4
<1>2. \A v \in rows : SameStatuses(f, [f EXCEPT ![x] = v])
  BY <1>1 DEF SameStatuses
<1>3. /\ [f EXCEPT ![x].request = a, ![x].role = b, ![x].state = c]
             = [f EXCEPT ![x] = [f[x] EXCEPT !.request = a, !.role = b, !.state = c]]
      /\ [f EXCEPT ![x].role = b, ![x].state = c] = [f EXCEPT ![x] = [f[x] EXCEPT !.role = b, !.state = c]]
  OBVIOUS
<1>4. [f EXCEPT ![x].role = b, ![x].state = c, ![x].request = a]
         = [f EXCEPT ![x] = [f[x] EXCEPT !.role = b, !.state = c, !.request = a]]
  OBVIOUS
<1>5. [f EXCEPT ![x].state = c, ![x].role = b] = [f EXCEPT ![x] = [f[x] EXCEPT !.state = c, !.role = b]]
  OBVIOUS
<1>6. x \in Records => /\ [f[x] EXCEPT !.state = c, !.role = b] = [f[x] EXCEPT !.role = b, !.state = c]
                       /\ [f[x] EXCEPT !.role = b, !.state = c, !.request = a]
                            = [f[x] EXCEPT !.request = a, !.role = b, !.state = c]
  BY DEF Record
<1>7. x \notin Records => \A v : [f EXCEPT ![x] = v] = f
  OBVIOUS
<1> HIDE DEF rows
<1>8. PICK v \in rows : v = [f[x] EXCEPT !.request = a, !.role = b, !.state = c]
  BY DEF rows
<1>9. PICK w \in rows : w = [f[x] EXCEPT !.role = b, !.state = c]
  BY DEF rows
<1>10. /\ [f EXCEPT ![x].request = a, ![x].role = b, ![x].state = c] = [f EXCEPT ![x] = v]
       /\ [f EXCEPT ![x].role = b, ![x].state = c] = [f EXCEPT ![x] = w]
  BY <1>3, <1>8, <1>9
<1>11. /\ [f EXCEPT ![x].role = b, ![x].state = c, ![x].request = a] = [f EXCEPT ![x] = v]
       /\ [f EXCEPT ![x].state = c, ![x].role = b] = [f EXCEPT ![x] = w]
  <2>1. CASE x \in Records
    BY <2>1, <1>4, <1>5, <1>6, <1>8, <1>9
  <2>2. CASE x \notin Records
    BY <2>2, <1>4, <1>5, <1>7
  <2> QED BY <2>1, <2>2
<1> QED BY <1>2, <1>10, <1>11

-----------------------------------------------------------------------------
(* Declarations. *)

LEMMA UploadFields ==
  ASSUME Typed, NEW u \in Uploads
  PROVE  /\ up[u].op = "create" => up[u].kind \in Kinds /\ up[u].level \in Levels
         /\ up[u].op = "retry" => /\ up[u].rec \in Records /\ up[u].kind \in Kinds
                                  /\ up[u].first \in Records \cup {None}
         /\ up[u].op = "sick" => up[u].kind \in Kinds /\ up[u].first \in Records \cup {None}
<1>1. up[u] \in Upload
  BY DEF Typed
<1> QED BY <1>1 DEF Upload, Idle

\* A draft without material.
LEMMA CreateDraftStep ==
  ASSUME Typed, NEW s \in Records, NEW l \in Levels, CreateDraft(s, l)
  PROVE  Escalating
<1> DEFINE row == [Blank EXCEPT !.status = "pending_material", !.level = l]
<1>1. row \in Record /\ row.status = "pending_material"
  BY BlankTyped DEF Record, Statuses, Blank
<1>2. rec' = [rec EXCEPT ![s] = row]
  BY DEF CreateDraft
<1> HIDE DEF row
<1> QED BY <1>1, <1>2 DEF Typed, Escalating

\* An entry whose upload has arrived.
LEMMA FinishCreateStep ==
  ASSUME Typed, NEW u \in Uploads, NEW s \in Records, FinishCreate(u, s)
  PROVE  Escalating
<1> DEFINE level == up[u].level
           entered == [Blank EXCEPT !.status = "active", !.level = level, !.material = "ready"]
           converting(mode) ==
      [Blank EXCEPT !.status = "material_processing", !.level = level,
                    !.material = "processing", !.mode = mode]
<1>1. level \in Levels
  BY UploadFields DEF FinishCreate
<1>2. CASE Converts(up[u].kind)
  <2>1. PICK mode \in {"deduction", "pdf_compress"} : rec' = [rec EXCEPT ![s] = converting(mode)]
    BY <1>2 DEF FinishCreate
  <2>2. converting(mode) \in Record /\ converting(mode).status = "material_processing"
    BY <1>1, BlankTyped DEF Record, Statuses, Modes, Blank
  <2> HIDE DEF converting
  <2> QED BY <2>1, <2>2 DEF Typed, Escalating
<1>3. CASE ~Converts(up[u].kind)
  <2>1. rec' = [rec EXCEPT ![s] = entered] /\ Escalates(s, level)
    BY <1>3 DEF FinishCreate
  <2>2. entered \in Record /\ entered.level = level
    BY <1>1, BlankTyped DEF Record, Statuses, Blank
  <2> HIDE DEF entered
  <2>3. rec'[s].level = level
    BY <2>1, <2>2 DEF Typed
  <2> QED BY <2>1, <2>2, <2>3 DEF Typed, Escalating
<1> QED BY <1>2, <1>3

\* The columns a correction writes.
LEMMA VoidStep ==
  ASSUME Typed, NEW s \in Records, Void(s)
  PROVE  Escalating
<1> DEFINE row == [rec[s] EXCEPT !.status = "void", !.from = rec[s].status]
<1>1. row \in Record /\ row.status = "void"
  BY DEF Record, Statuses, Typed, Void, CanVoid
<1>2. rec' = [rec EXCEPT ![s] = row]
  BY DEF Void, Typed
<1> HIDE DEF row
<1> QED BY <1>1, <1>2 DEF Typed, Escalating

LEMMA CorrectLevelStep ==
  ASSUME Typed, NEW s \in Records, NEW l \in Levels, CorrectLevel(s, l)
  PROVE  Escalating
<1> DEFINE row == [rec[s] EXCEPT !.level = l]
<1>1. row \in Record /\ row.status = rec[s].status
  BY DEF Record, Typed
<1>2. rec' = [rec EXCEPT ![s] = row]
  BY DEF CorrectLevel, Typed
<1> HIDE DEF row
<1> QED BY <1>1, <1>2 DEF Typed, Escalating

\* A restored record is asked for its repeat again.
LEMMA RestoreStep ==
  ASSUME Typed, NEW s \in Records, Restore(s)
  PROVE  Escalating
<1> DEFINE row == [rec[s] EXCEPT !.status = rec[s].from, !.from = "absent"]
<1>1. row \in Record /\ row.status = rec[s].from /\ row.level = rec[s].level
  BY DEF Record, Statuses, Typed, Restore
<1>2. rec' = [rec EXCEPT ![s] = row]
  BY DEF Restore, Typed
<1> HIDE DEF row
<1>3. rec'[s].level = rec[s].level
  BY <1>1, <1>2 DEF Typed
<1>4. rec[s].from = "active" => Escalates(s, rec[s].level)
  BY DEF Restore
<1> QED BY <1>1, <1>2, <1>3, <1>4 DEF Typed, Escalating

-----------------------------------------------------------------------------
(* Upgrades: none of their steps brings a declaration into force. *)

LEMMA CreateUpgradeStep ==
  ASSUME Typed, NEW s \in Records, NEW f \in Records, NEW kind \in Kinds, CreateUpgrade(f, s, kind)
  PROVE  Escalating
<1>1. PICK g, row : /\ rec' = [g EXCEPT ![s] = row] /\ SameStatuses(rec, g)
                    /\ row \in Record /\ row.status \in {"material_processing", "pending_upgrade"}
  <2>1. CASE Converts(kind)
    <3> DEFINE mode == IF kind = "photos" THEN "upgrade" ELSE "upgrade_pdf_compress"
               state == IF kind = "photos" THEN "material_processing" ELSE "pending"
               g == [rec EXCEPT ![f].role = "source_first", ![f].state = state]
               row == [Blank EXCEPT !.status = "material_processing", !.material = "processing",
                             !.role = "source_second", !.state = "material_processing",
                             !.mode = mode, !.first = f]
    <3>1. rec' = [g EXCEPT ![s] = row]
      BY <2>1 DEF CreateUpgrade
    <3>2. SameStatuses(rec, g)
      BY Held DEF Typed, Roles, UpgradeStates
    <3>3. row \in Record /\ row.status = "material_processing"
      BY BlankTyped DEF Record, Statuses, Modes, UpgradeStates, Blank
    <3> QED BY <3>1, <3>2, <3>3
  <2>2. CASE ~Converts(kind)
    <3> DEFINE g == [rec EXCEPT ![f].role = "source_first", ![f].state = "pending", ![f].request = s]
               row == [Blank EXCEPT !.status = "pending_upgrade", !.material = "ready",
                             !.role = "source_second", !.state = "pending", !.request = s]
    <3>1. rec' = [g EXCEPT ![s] = row]
      BY <2>2 DEF CreateUpgrade
    <3>2. SameStatuses(rec, g)
      BY Held DEF Typed, Roles, UpgradeStates
    <3>3. row \in Record /\ row.status = "pending_upgrade"
      BY BlankTyped DEF Record, Statuses, UpgradeStates, Blank
    <3> QED BY <3>1, <3>2, <3>3
  <2> QED BY <2>1, <2>2
<1> QED BY <1>1 DEF SameStatuses, Escalating

\* The second statement and the result come into force, both with a role.
LEMMA ApproveStep ==
  ASSUME Typed, NEW s \in Records, NEW r \in Records, NEW l \in Levels, Approve(s, r, l)
  PROVE  Escalating
<1> DEFINE f == request[s].first
           one == [rec EXCEPT ![f].role = "source_first", ![f].state = "source_first"]
           second == [one[s] EXCEPT !.status = "active", !.role = "source_second", !.state = "source_second"]
           two == [one EXCEPT ![s] = second]
           result == [Blank EXCEPT !.status = "active", !.level = l, !.role = "result", !.state = "result"]
<1>1. SameStatuses(rec, one)
  BY Held DEF Typed, Roles, UpgradeStates
<1>2. rec' = [[one EXCEPT ![s].status = "active", ![s].role = "source_second", ![s].state = "source_second"]
                 EXCEPT ![r] = result]
  BY DEF Approve
<1>3. result \in Record /\ result.role = "result"
  BY BlankTyped DEF Record, Statuses, UpgradeStates, Blank
<1> HIDE DEF one, result
<1>4. [one EXCEPT ![s].status = "active", ![s].role = "source_second", ![s].state = "source_second"] = two
  BY <1>1 DEF SameStatuses
<1>5. second \in Record /\ second.role = "source_second"
  <2>1. one[s] \in Record
    BY <1>1 DEF SameStatuses
  <2> QED BY <2>1 DEF Record, Statuses, UpgradeStates
<1> HIDE DEF second
<1> QED BY <1>1, <1>2, <1>3, <1>4, <1>5 DEF SameStatuses, Escalating

LEMMA RejectStep ==
  ASSUME Typed, NEW s \in Records, Reject(s)
  PROVE  Escalating
<1> DEFINE f == request[s].first
           one == [rec EXCEPT ![f].request = None, ![f].role = "none", ![f].state = "eligible"]
           second == [one[s] EXCEPT !.status = "void", !.state = "rejected"]
<1>1. SameStatuses(rec, one)
  BY Held DEF Typed, Roles, UpgradeStates
<1>2. rec' = [one EXCEPT ![s].status = "void", ![s].state = "rejected"]
  BY DEF Reject
<1> HIDE DEF one
<1>3. rec' = [one EXCEPT ![s] = second]
  BY <1>1, <1>2 DEF SameStatuses
<1>4. second \in Record /\ second.status = "void"
  <2>1. one[s] \in Record
    BY <1>1 DEF SameStatuses
  <2> QED BY <2>1 DEF Record, Statuses, UpgradeStates
<1> HIDE DEF second
<1> QED BY <1>1, <1>3, <1>4 DEF SameStatuses, Escalating

LEMMA RetryUpgradeStep ==
  ASSUME Typed, NEW r \in Records, NEW kind \in Kinds, RetryUpgrade(r, kind)
  PROVE  Escalating
<1> DEFINE f == rec[r].first
           one == [rec EXCEPT ![f].state = "material_processing", ![f].role = "source_first"]
           row == [one[r] EXCEPT !.status = "material_processing", !.material = "processing",
                                 !.state = "material_processing", !.mode = RetryMode(kind, TRUE)]
<1>1. SameStatuses(rec, one)
  BY Held DEF Typed, Roles, UpgradeStates
<1>2. rec' = [one EXCEPT ![r].status = "material_processing", ![r].material = "processing",
                         ![r].state = "material_processing", ![r].mode = RetryMode(kind, TRUE)]
  BY DEF RetryUpgrade
<1> HIDE DEF one
<1>3. rec' = [one EXCEPT ![r] = row]
  BY <1>1, <1>2 DEF SameStatuses
<1>4. RetryMode(kind, TRUE) \in Modes
  BY DEF RetryMode, Modes
<1>5. row \in Record /\ row.status = "material_processing"
  <2>1. one[r] \in Record
    BY <1>1 DEF SameStatuses
  <2> QED BY <2>1, <1>4 DEF Record, Statuses, UpgradeStates
<1> HIDE DEF row
<1> QED BY <1>1, <1>3, <1>5 DEF SameStatuses, Escalating

-----------------------------------------------------------------------------
(* Sick leaves, retries and the results of the worker. *)

\* A statement that arrives with a sick leave; it may come into force unasked.
LEMMA FinishSickTyped ==
  ASSUME Typed, NEW u \in Uploads, NEW s \in Records, FinishSick(u, s)
  PROVE  rec' \in [Records -> Record]
<1> DEFINE d == up[u]
           f == d.first
           stage == CASE d.kind = "none" -> "awaiting_material"
                      [] Converts(d.kind) -> "material_processing"
                      [] OTHER -> "pending"
           mode == CASE d.kind = "photos" -> IF f = None THEN "deduction" ELSE "upgrade"
                     [] d.kind = "big_pdf" -> IF f = None THEN "pdf_compress" ELSE "upgrade_pdf_compress"
                     [] OTHER -> "none"
           status == CASE d.kind = "none" -> "pending_material"
                       [] Converts(d.kind) -> "material_processing"
                       [] OTHER -> IF f = None THEN "active" ELSE "pending_upgrade"
           material == CASE d.kind = "none" -> "missing"
                         [] Converts(d.kind) -> "processing"
                         [] OTHER -> "ready"
           second == [Blank EXCEPT
            !.status = status, !.material = material,
            !.role = IF f = None THEN "none" ELSE "source_second",
            !.state = IF f = None THEN "none" ELSE stage,
            !.request = IF f = None THEN None ELSE s,
            !.mode = mode, !.first = f]
           one == [rec EXCEPT ![s] = second]
<1>1. f \in Records \cup {None}
  BY UploadFields DEF FinishSick
<1>2. stage \in UpgradeStates
  BY DEF Converts, UpgradeStates
<1>3. mode \in Modes
  BY DEF Modes
<1>4. status \in Statuses /\ material \in {"missing", "processing", "ready", "failed"}
  BY DEF Converts, Statuses
<1>5. rec' = IF f = None THEN one
             ELSE [one EXCEPT ![f].role = "source_first", ![f].state = stage, ![f].request = s]
  BY DEF FinishSick
<1> HIDE DEF stage, mode, status, material
<1>6. second \in Record
  BY <1>1, <1>2, <1>3, <1>4, BlankTyped DEF Record, UpgradeStates, Blank
<1> HIDE DEF second
<1>7. one \in [Records -> Record]
  BY <1>6 DEF Typed
<1> HIDE DEF one
<1>8. SameStatuses(one, [one EXCEPT ![f].role = "source_first", ![f].state = stage, ![f].request = s])
  <2>1. "source_first" \in Roles
    BY DEF Roles
  <2> QED BY <1>2, <1>7, <2>1, Held
<1> QED BY <1>5, <1>7, <1>8 DEF SameStatuses

\* A retry stores its record in conversion.
LEMMA FinishRetryStep ==
  ASSUME Typed, NEW u \in Uploads, FinishRetry(u)
  PROVE  Escalating
<1> DEFINE d == up[u]
           mode == RetryMode(d.kind, d.first # None)
           written == IF d.first = None THEN {} ELSE {d.rec, d.first} \ d.clean
           row == [rec[d.rec] EXCEPT !.status = "material_processing", !.material = "processing",
                              !.mode = mode, !.first = d.first]
           base(q) == IF q = d.rec THEN row ELSE rec[q]
           new(q) == [base(q) EXCEPT !.state = IF q \in written THEN "material_processing" ELSE @]
<1>1. d.rec \in Records /\ d.first \in Records \cup {None}
  BY UploadFields DEF FinishRetry
<1>2. mode \in Modes
  BY DEF RetryMode, Modes
<1>3. rec' = [q \in Records |-> new(q)]
  BY DEF FinishRetry
<1>4. row \in Record /\ row.status = "material_processing"
  <2>1. rec[d.rec] \in Record
    BY <1>1 DEF Typed
  <2> QED BY <1>1, <1>2, <2>1 DEF Record, Statuses
<1> HIDE DEF row
<1>5. ASSUME NEW q \in Records
      PROVE  new(q) \in Record /\ new(q).status \in {rec[q].status, "material_processing"}
  <2>1. base(q) \in Record /\ base(q).status \in {rec[q].status, "material_processing"}
    BY <1>4 DEF Typed
  <2> HIDE DEF base
  <2>2. new(q) \in Record /\ new(q).status = base(q).status
    BY <2>1 DEF Record, UpgradeStates
  <2> QED BY <2>1, <2>2
<1> HIDE DEF new
<1> QED BY <1>3, <1>5 DEF Escalating

LEMMA JobTyped ==
  ASSUME Typed, NEW i \in 1 .. Len(jobs)
  PROVE  jobs[i].rec \in Records /\ jobs[i].first \in Records \cup {None}
<1>1. jobs[i] \in Job
  BY DEF Typed
<1> QED BY <1>1 DEF Job

\* A result that is accepted: an upgrade goes to review, and a declaration
\* comes into force only past Refused.
LEMMA JobSucceedsStep ==
  ASSUME Typed, NEW i \in 1 .. Len(jobs), JobSucceeds(i)
  PROVE  Escalating
<1> DEFINE j == jobs[i]
<1>1. j.rec \in Records /\ j.first \in Records \cup {None}
  BY JobTyped
<1>2. CASE j.mode \in UpgradeModes
  <2> DEFINE one == [rec EXCEPT ![j.first].request = j.rec, ![j.first].role = "source_first",
                                ![j.first].state = "pending"]
             two == [one EXCEPT ![j.rec].request = j.rec, ![j.rec].role = "source_second",
                                ![j.rec].state = "pending"]
             row == [two[j.rec] EXCEPT !.status = "pending_upgrade", !.material = "ready"]
  <2>1. rec' = [two EXCEPT ![j.rec].status = "pending_upgrade", ![j.rec].material = "ready"]
    BY <1>2 DEF JobSucceeds
  <2>2. SameStatuses(rec, one)
    BY <1>1, Held DEF Typed, UpgradeStates, Roles
  <2> HIDE DEF one
  <2>3. SameStatuses(one, two)
    <3>1. one \in [Records -> Record]
      BY <2>2 DEF SameStatuses
    <3>2. "source_second" \in Roles /\ "pending" \in UpgradeStates
      BY DEF Roles, UpgradeStates
    <3> QED BY <1>1, <3>1, <3>2, Held
  <2> HIDE DEF two
  <2>4. rec' = [two EXCEPT ![j.rec] = row]
    BY <1>1, <2>1, <2>3 DEF SameStatuses
  <2>5. row \in Record /\ row.status = "pending_upgrade"
    <3>1. two[j.rec] \in Record
      BY <1>1, <2>3 DEF SameStatuses
    <3> QED BY <3>1 DEF Record, Statuses
  <2> HIDE DEF row
  <2> QED BY <1>1, <2>2, <2>3, <2>4, <2>5 DEF SameStatuses, Escalating
<1>3. CASE j.mode \notin UpgradeModes
  <2> DEFINE row == [rec[j.rec] EXCEPT !.status = "active", !.material = "ready"]
  <2>1. rec' = [rec EXCEPT ![j.rec].status = "active", ![j.rec].material = "ready"]
    BY <1>3 DEF JobSucceeds
  <2>2. rec' = [rec EXCEPT ![j.rec] = row]
    BY <2>1 DEF Typed
  <2>3. row \in Record /\ row.level = rec[j.rec].level
    <3>1. rec[j.rec] \in Record
      BY <1>1 DEF Typed
    <3> QED BY <3>1 DEF Record, Statuses
  <2> HIDE DEF row
  <2>4. Escalates(j.rec, rec[j.rec].level)
    BY <1>3 DEF JobSucceeds, Refused
  <2>5. rec'[j.rec].level = rec[j.rec].level
    BY <1>1, <2>2, <2>3 DEF Typed
  <2> QED BY <1>1, <2>2, <2>3, <2>4, <2>5 DEF Typed, Escalating
<1> QED BY <1>2, <1>3

\* A failed job marks its record and may give the first statement back.
LEMMA FailStep ==
  ASSUME Typed, NEW i \in 1 .. Len(jobs), Fail(i)
  PROVE  Escalating
<1> DEFINE j == jobs[i]
           row == [rec[j.rec] EXCEPT !.status = "material_failed", !.material = "failed",
                     !.state = IF j.mode = "upgrade" THEN "material_failed" ELSE @]
           failed == [rec EXCEPT ![j.rec] = row]
           freed == [failed EXCEPT ![j.first].role = "none", ![j.first].state = "eligible"]
<1>1. j.rec \in Records /\ j.first \in Records \cup {None}
  BY JobTyped
<1>2. [rec EXCEPT ![j.rec].status = "material_failed", ![j.rec].material = "failed",
                  ![j.rec].state = IF j.mode = "upgrade" THEN "material_failed" ELSE @] = failed
  BY DEF Typed
<1>3. rec' = IF Frees(j) THEN freed ELSE failed
  BY <1>2 DEF Fail
<1>4. row \in Record /\ row.status = "material_failed"
  <2>1. rec[j.rec] \in Record
    BY <1>1 DEF Typed
  <2> QED BY <2>1 DEF Record, Statuses, UpgradeStates
<1> HIDE DEF row
<1>5. /\ failed \in [Records -> Record]
      /\ \A q \in Records : failed[q].status \in {rec[q].status, "material_failed"}
  BY <1>1, <1>4 DEF Typed
<1> HIDE DEF failed
<1>6. SameStatuses(failed, freed)
  BY <1>5, Held DEF Roles, UpgradeStates
<1> HIDE DEF freed
<1> QED BY <1>3, <1>5, <1>6 DEF SameStatuses, Escalating

-----------------------------------------------------------------------------
(* The invariant and the theorem. *)

\* The queue keeps its type when a job joins it or leaves it.
LEMMA QueueTyped ==
  ASSUME Typed
  PROVE  /\ \A j \in Job : Append(jobs, j) \in Seq(Job)
         /\ \A i \in 1 .. Len(jobs) : Drop(jobs, i) \in Seq(Job)
<1>1. \A j \in Job : Append(jobs, j) \in Seq(Job)
  BY DEF Typed
<1>2. ASSUME NEW i \in 1 .. Len(jobs) PROVE Drop(jobs, i) \in Seq(Job)
  <2>1. jobs \in Seq(Job) /\ Len(jobs) \in Nat
    BY DEF Typed
  <2>2. \A k \in 1 .. Len(jobs) : jobs[k] \in Job
    BY <2>1
  <2>3. SubSeq(jobs, 1, i - 1) \in Seq(Job)
    BY <2>1, <2>2, SubSeqProperties
  <2>4. SubSeq(jobs, i + 1, Len(jobs)) \in Seq(Job)
    BY <2>1, <2>2, SubSeqProperties
  <2> QED BY <2>3, <2>4, ConcatProperties DEF Drop
<1> QED BY <1>1, <1>2

\* What an awaiting request has decided is of its declared type.
LEMMA UpTyped ==
  ASSUME Typed, NEW u \in Uploads, NEW kind \in Kinds
  PROVE  /\ [up EXCEPT ![u] = Idle] \in [Uploads -> Upload]
         /\ \A l \in Levels, c \in BOOLEAN :
               [up EXCEPT ![u] = [op |-> "create", kind |-> kind, level |-> l, confirmed |-> c]]
                  \in [Uploads -> Upload]
         /\ \A f \in Records \cup {None} :
               [up EXCEPT ![u] = [op |-> "sick", kind |-> kind, first |-> f]] \in [Uploads -> Upload]
         /\ \A r \in Records, f \in Records \cup {None}, c \in SUBSET Records :
               [up EXCEPT ![u] = [op |-> "retry", rec |-> r, kind |-> kind, first |-> f, clean |-> c]]
                  \in [Uploads -> Upload]
<1>1. Idle \in Upload
  BY DEF Upload
<1>2. \A l \in Levels, c \in BOOLEAN :
         [op |-> "create", kind |-> kind, level |-> l, confirmed |-> c] \in Upload
  BY DEF Upload
<1>3. \A f \in Records \cup {None} : [op |-> "sick", kind |-> kind, first |-> f] \in Upload
  BY DEF Upload
<1>4. \A r \in Records, f \in Records \cup {None}, c \in SUBSET Records :
         [op |-> "retry", rec |-> r, kind |-> kind, first |-> f, clean |-> c] \in Upload
  BY DEF Upload
<1> QED BY <1>1, <1>2, <1>3, <1>4 DEF Typed

Others == request' \in [Records -> Requests] /\ jobs' \in Seq(Job) /\ up' \in [Uploads -> Upload]

\* Requests, jobs and uploads keep their types, one step per action that writes them.
LEMMA OthersTyped ==
  ASSUME Typed, Next
  PROVE  Others
<1>1. ASSUME NEW u \in Uploads, NEW kind \in Kinds, NEW l \in Levels,
             NEW leader \in BOOLEAN, NEW confirmed \in BOOLEAN,
             StartCreate(u, kind, l, leader, confirmed)
      PROVE  Others
  BY <1>1, UpTyped DEF StartCreate, Typed, Others
<1>2. ASSUME NEW u \in Uploads PROVE [up EXCEPT ![u] = Idle] \in [Uploads -> Upload]
  BY DEF Typed, Upload
<1>3. ASSUME NEW u \in Uploads, NEW r \in Records, FinishCreate(u, r)
      PROVE  Others
  <2>1. CASE Converts(up[u].kind)
    <3>1. PICK mode \in {"deduction", "pdf_compress"} :
             jobs' = Append(jobs, [rec |-> r, mode |-> mode, first |-> None])
      BY <1>3, <2>1 DEF FinishCreate
    <3>2. [rec |-> r, mode |-> mode, first |-> None] \in Job
      BY DEF Job, Modes
    <3> QED BY <1>2, <1>3, <3>1, <3>2, QueueTyped DEF FinishCreate, Typed, Others
  <2>2. CASE ~Converts(up[u].kind)
    BY <1>2, <1>3, <2>2 DEF FinishCreate, Typed, Others
  <2> QED BY <2>1, <2>2
<1>4. ASSUME NEW u \in Uploads, NEW s \in Records, FinishSick(u, s)
      PROVE  Others
  <2> DEFINE f == up[u].first
  <2>1. f \in Records \cup {None}
    BY <1>4, UploadFields DEF FinishSick
  <2>2. up' = [up EXCEPT ![u] = Idle]
    BY <1>4 DEF FinishSick
  <2>3. \/ UNCHANGED request
        \/ \E status \in {"pending", "awaiting_material"} :
              request' = [request EXCEPT ![s] = [status |-> status, first |-> f]]
    BY <1>4 DEF FinishSick
  <2>4. request' \in [Records -> Requests]
    <3>1. \A status \in {"pending", "awaiting_material"} : [status |-> status, first |-> f] \in Requests
      BY <2>1 DEF Requests
    <3> QED BY <2>3, <3>1 DEF Typed
  <2>5. \/ UNCHANGED jobs
        \/ \E mode \in Modes : jobs' = Append(jobs, [rec |-> s, mode |-> mode, first |-> f])
    BY <1>4 DEF FinishSick, Modes
  <2>6. jobs' \in Seq(Job)
    <3>1. \A mode \in Modes : [rec |-> s, mode |-> mode, first |-> f] \in Job
      BY <2>1 DEF Job
    <3> QED BY <2>5, <3>1, QueueTyped DEF Typed
  <2> QED BY <1>2, <2>2, <2>4, <2>6 DEF Others
<1>5. ASSUME NEW f \in Records, NEW s \in Records, NEW kind \in Kinds, CreateUpgrade(f, s, kind)
      PROVE  Others
  <2>1. CASE Converts(kind)
    <3>1. PICK mode \in {"upgrade", "upgrade_pdf_compress"} :
             jobs' = Append(jobs, [rec |-> s, mode |-> mode, first |-> f])
      BY <1>5, <2>1 DEF CreateUpgrade
    <3>2. [rec |-> s, mode |-> mode, first |-> f] \in Job
      BY DEF Job, Modes
    <3> QED BY <1>5, <2>1, <3>1, <3>2, QueueTyped DEF CreateUpgrade, Typed, Others
  <2>2. CASE ~Converts(kind)
    <3>1. request' = [request EXCEPT ![s] = [status |-> "pending", first |-> f]]
      BY <1>5, <2>2 DEF CreateUpgrade
    <3>2. [status |-> "pending", first |-> f] \in Requests
      BY DEF Requests
    <3> QED BY <1>5, <2>2, <3>1, <3>2 DEF CreateUpgrade, Typed, Others
  <2> QED BY <2>1, <2>2
<1>6. ASSUME NEW s \in Records, NEW r \in Records, NEW l \in Levels, Approve(s, r, l)
      PROVE  Others
  BY <1>6 DEF Approve, Typed, Others, Requests
<1>7. ASSUME NEW s \in Records, Reject(s)
      PROVE  Others
  BY <1>7 DEF Reject, Typed, Others, Requests
<1>8. ASSUME NEW u \in Uploads, NEW kind \in Kinds, StartSick(u, kind)
      PROVE  Others
  BY <1>8, UpTyped DEF StartSick, Typed, Others
<1>9. ASSUME NEW u \in Uploads, NEW r \in Records, NEW kind \in Kinds, StartRetry(u, r, kind)
      PROVE  Others
  <2> DEFINE f == IF AwaitsUpgrade(r) THEN request[rec[r].request].first ELSE None
             clean == {q \in {r, f} \cap Records : rec[q].state = "material_processing"}
  <2>1. f \in Records \cup {None}
    <3>1. rec[r] \in Record
      BY DEF Typed
    <3>2. rec[r].request \in Records \cup {None}
      BY <3>1 DEF Record
    <3>3. AwaitsUpgrade(r) => rec[r].request \in Records
      BY <3>2 DEF AwaitsUpgrade
    <3>4. \A q \in Records : request[q].first \in Records \cup {None}
      BY DEF Typed, Requests
    <3> QED BY <3>3, <3>4
  <2>2. clean \in SUBSET Records
    OBVIOUS
  <2>3. up' = [up EXCEPT ![u] = [op |-> "retry", rec |-> r, kind |-> kind, first |-> f, clean |-> clean]]
    BY <1>9 DEF StartRetry
  <2> HIDE DEF f, clean
  <2>4. up' \in [Uploads -> Upload]
    BY <2>1, <2>2, <2>3, UpTyped
  <2>5. UNCHANGED <<request, jobs>>
    BY <1>9 DEF StartRetry
  <2> QED BY <2>4, <2>5 DEF Typed, Others
<1>10. ASSUME NEW u \in Uploads, FinishRetry(u)
       PROVE  Others
  <2> DEFINE mode == RetryMode(up[u].kind, up[u].first # None)
  <2>1. mode \in Modes
    BY DEF RetryMode, Modes
  <2>2. [rec |-> up[u].rec, mode |-> mode, first |-> up[u].first] \in Job
    BY <1>10, <2>1, UploadFields DEF FinishRetry, Job
  <2>3. jobs' = Append(jobs, [rec |-> up[u].rec, mode |-> mode, first |-> up[u].first])
    BY <1>10 DEF FinishRetry
  <2> HIDE DEF mode
  <2> QED BY <1>2, <1>10, <2>2, <2>3, QueueTyped DEF FinishRetry, Typed, Others
<1>11. ASSUME NEW r \in Records, NEW kind \in Kinds, RetryUpgrade(r, kind)
       PROVE  Others
  <2>1. RetryMode(kind, TRUE) \in Modes
    BY DEF RetryMode, Modes
  <2>2. rec[r].first \in Records \cup {None}
    <3>1. rec[r] \in Record
      BY DEF Typed
    <3> QED BY <3>1 DEF Record
  <2>3. [rec |-> r, mode |-> RetryMode(kind, TRUE), first |-> rec[r].first] \in Job
    BY <2>1, <2>2 DEF Job
  <2> QED BY <1>11, <2>3, QueueTyped DEF RetryUpgrade, Typed, Others
<1>12. ASSUME NEW i \in 1 .. Len(jobs), JobSucceeds(i)
       PROVE  Others
  <2>1. jobs[i].first \in Records \cup {None}
    BY JobTyped
  <2>2. [status |-> "pending", first |-> jobs[i].first] \in Requests
    BY <2>1 DEF Requests
  <2>3. request' = request \/ request' = [request EXCEPT ![jobs[i].rec] = [status |-> "pending", first |-> jobs[i].first]]
    BY <1>12 DEF JobSucceeds
  <2> QED BY <1>12, <2>2, <2>3, QueueTyped DEF JobSucceeds, Typed, Others
<1>13. ASSUME NEW i \in 1 .. Len(jobs), Fail(i)
       PROVE  Others
  BY <1>13, QueueTyped DEF Fail, Typed, Others
<1>14. ASSUME NEW u \in Uploads, AbandonUpload(u)
       PROVE  Others
  BY <1>2, <1>14 DEF AbandonUpload, Typed, Others
<1>15. ASSUME \/ \E r \in Records, l \in Levels : CreateDraft(r, l) \/ CorrectLevel(r, l)
              \/ \E r \in Records : Void(r) \/ Restore(r)
              \/ RepeatCheck \/ CloseMonth \/ ReopenMonth
       PROVE  Others
  BY <1>15 DEF CreateDraft, CorrectLevel, Void, Restore, RepeatCheck, CloseMonth, ReopenMonth, Typed, Others
<1>16. \A r \in Records : WorkerStep(r) => \E i \in 1 .. Len(jobs) : JobSucceeds(i) \/ Fail(i)
  BY DEF WorkerStep, JobRefused
<1>17. \A i \in 1 .. Len(jobs) : ConversionFails(i) => Fail(i)
  BY DEF ConversionFails
<1> QED
  BY <1>1, <1>3, <1>4, <1>5, <1>6, <1>7, <1>8, <1>9, <1>10, <1>11, <1>12, <1>13, <1>14, <1>15,
     <1>16, <1>17 DEF Next, Operation

\* Outside a sick leave every step is escalating.
LEMMA NextEscalating ==
  ASSUME Typed, Next
  PROVE  \/ Escalating
         \/ rec' \in [Records -> Record] /\ \E u \in Uploads : up[u].op = "sick" /\ up'[u] = Idle
<1>1. ASSUME NEW u \in Uploads, NEW s \in Records, FinishSick(u, s)
      PROVE  rec' \in [Records -> Record] /\ up[u].op = "sick" /\ up'[u] = Idle
  BY <1>1, FinishSickTyped DEF FinishSick, Typed
<1>2. UNCHANGED rec => Escalating
  BY DEF Typed, Escalating
<1>3. ASSUME \/ \E u \in Uploads, kind \in Kinds, l \in Levels, leader, confirmed \in BOOLEAN :
                   StartCreate(u, kind, l, leader, confirmed)
             \/ \E u \in Uploads, kind \in Kinds : StartSick(u, kind)
             \/ \E u \in Uploads, r \in Records, kind \in Kinds : StartRetry(u, r, kind)
             \/ \E u \in Uploads : AbandonUpload(u)
             \/ RepeatCheck \/ CloseMonth \/ ReopenMonth
      PROVE  UNCHANGED rec
  BY <1>3 DEF StartCreate, StartSick, StartRetry, AbandonUpload, RepeatCheck, CloseMonth, ReopenMonth
<1>4. \A r \in Records : WorkerStep(r) => \E i \in 1 .. Len(jobs) : JobSucceeds(i) \/ Fail(i)
  BY DEF WorkerStep, JobRefused
<1>5. \A i \in 1 .. Len(jobs) : ConversionFails(i) => Fail(i)
  BY DEF ConversionFails
<1> QED
  BY <1>1, <1>2, <1>3, <1>4, <1>5, CreateDraftStep, FinishCreateStep, VoidStep, CorrectLevelStep,
     RestoreStep, CreateUpgradeStep, ApproveStep, RejectStep, RetryUpgradeStep, FinishRetryStep,
     JobSucceedsStep, FailStep DEF Next, Operation

\* Records, requests, jobs and awaiting requests keep their types.
THEOREM RecordsTyped == Spec => []Typed
<1>1. Init => Typed
  <2> SUFFICES ASSUME Init PROVE Typed
    OBVIOUS
  <2>1. rec \in [Records -> Record]
    BY BlankTyped DEF Init
  <2>2. request \in [Records -> Requests]
    BY DEF Init, Requests
  <2>3. jobs \in Seq(Job) /\ up \in [Uploads -> Upload]
    BY DEF Init, Upload
  <2> QED BY <2>1, <2>2, <2>3 DEF Typed
<1>2. Typed /\ [Next]_vars => Typed'
  <2> SUFFICES ASSUME Typed, [Next]_vars PROVE Typed'
    OBVIOUS
  <2>1. CASE Next
    BY <2>1, OthersTyped, NextEscalating DEF Typed, Others, Escalating
  <2>2. CASE UNCHANGED vars
    BY <2>2 DEF vars, Typed
  <2> QED BY <2>1, <2>2
<1> QED BY <1>1, <1>2, PTL DEF Spec

\* Outside the sick-leave form and a review, no record becomes active beside a
\* punishment it does not escalate: entry, worker and restore all ask again.
THEOREM ActivationEscalates == Spec => EscalationAtActivation
<1> DEFINE Step == \A r \in Records :
        /\ rec[r].status # "active" /\ rec'[r].status = "active"
        /\ rec'[r].role = "none"
        /\ ~\E u \in Uploads : up[u].op = "sick" /\ up'[u] = Idle
        => \A q \in Previous(r) : rec'[r].level >= NextLevel(rec[q].level)
<1>1. Typed /\ [Next]_vars => [Step]_vars
  <2> SUFFICES ASSUME Typed, Next PROVE Step
    OBVIOUS
  <2>1. Escalating => Step
    BY DEF Escalating, Escalates
  <2>2. CASE Escalating
    BY <2>1, <2>2
  <2>3. CASE \E u \in Uploads : up[u].op = "sick" /\ up'[u] = Idle
    BY <2>3
  <2> QED BY <2>2, <2>3, NextEscalating
<1>2. [][Step]_vars => EscalationAtActivation
  BY DEF EscalationAtActivation
<1> QED BY <1>1, <1>2, RecordsTyped, PTL DEF Spec

-----------------------------------------------------------------------------
(* Claims on first statements.                                              *)

Live == {"awaiting_material", "pending", "approved"}
Failed == {"pending_material", "material_failed"}
Queue == {jobs[i] : i \in 1 .. Len(jobs)}

\* The first statement f is in the hands of the request of s.
Holds(s, f) ==
    /\ rec[f].status = "active" /\ rec[f].role = "source_first" /\ rec[f].request = s
    /\ rec[f].state \notin {"none", "eligible"}

\* What the request of s says of its two statements.
StoryOf(s) ==
    LET f == request[s].first IN
    /\ request[s].status = "absent" => f = None
    /\ request[s].status # "absent" =>
          f \in Records /\ f # s /\ rec[s].role = "source_second" /\ rec[s].request = s
    /\ request[s].status \in Live => Holds(s, f)
    /\ request[s].status = "awaiting_material" => rec[s].status \in Unresolved /\ rec[s].first = f
    /\ request[s].status = "pending" => rec[f].state = "pending" /\ rec[s].status = "pending_upgrade"
    /\ request[s].status = "approved" => rec[s].status = "active" /\ rec[s].state \notin {"none", "eligible"}
    /\ request[s].status = "rejected" => rec[s].status = "void"

\* What the columns of a record say of its request and of its material.
ColumnsOf(r) ==
    /\ rec[r].request # None =>
          \/ rec[r].request = r /\ request[r].status # "absent"
          \/ request[rec[r].request].first = r /\ request[rec[r].request].status \in Live
    /\ rec[r].status \in Unresolved /\ rec[r].first = None => rec[r].role = "none" /\ rec[r].request = None
    /\ rec[r].first # None =>
          /\ rec[r].first # r /\ rec[r].role = "source_second"
          /\ rec[r].status \in Unresolved \/ request[r].status # "absent"
    /\ rec[r].mode \in UpgradeModes => rec[r].first # None
    /\ rec[r].status \in Failed /\ rec[r].first # None /\ rec[r].mode \notin UpgradeModes =>
          request[r].status = "awaiting_material"

\* f is in the hands of a conversion no request waits for, of a compressed PDF perhaps.
Taken(f) ==
    /\ rec[f].status = "active" /\ rec[f].role = "source_first" /\ rec[f].request = None
    /\ rec[f].state \in {"material_processing", "pending"}

\* A job is the only one of its record, and of its first statement unless a
\* request waits for it.
JobOf(j) ==
    /\ rec[j.rec].status = "material_processing" /\ rec[j.rec].first = j.first /\ rec[j.rec].mode = j.mode
    /\ j.mode \in UpgradeModes <=> j.first # None
    /\ j.first # None /\ request[j.rec].status # "awaiting_material" =>
          /\ Taken(j.first) /\ (j.mode = "upgrade" => rec[j.first].state = "material_processing")
          /\ \A k \in Queue : k.first = j.first => k = j

OneJobEach == \A i, k \in 1 .. Len(jobs) : jobs[i].rec = jobs[k].rec => i = k

\* What a retry has read still holds when it is written, but for a void.
RetryOf(u) ==
    LET r == up[u].rec IN
    up[u].op = "retry" =>
      IF up[u].first = None
      THEN /\ rec[r].first = None /\ rec[r].role = "none" /\ rec[r].request = None
           /\ rec[r].status \in Failed \/ (rec[r].status = "void" /\ rec[r].from \in Failed)
      ELSE /\ request[r].status = "awaiting_material" /\ request[r].first = up[u].first
           /\ rec[r].status \in Failed

Stories == \A s \in Records : StoryOf(s)
Columns == \A r \in Records : ColumnsOf(r)
Jobs == OneJobEach /\ \A j \in Queue : JobOf(j)
Retries == \A u \in Uploads : RetryOf(u)

Linked == Typed /\ Stories /\ Columns /\ Jobs /\ Retries

-----------------------------------------------------------------------------
(* The queue as a set. *)

LEMMA Queued ==
    ASSUME Typed
    PROVE  /\ Len(jobs) \in Nat
           /\ \A j \in Queue : j \in Job /\ j.rec \in Records /\ j.first \in Records \cup {None} /\ j.mode \in Modes
           /\ \A i \in 1 .. Len(jobs) : jobs[i] \in Queue
<1>1. jobs \in Seq(Job)
  BY DEF Typed
<1>2. Len(jobs) \in Nat /\ \A i \in 1 .. Len(jobs) : jobs[i] \in Job
  BY <1>1
<1> QED
  BY <1>2 DEF Queue, Job

\* A job joins the queue.
LEMMA QueueGrows ==
    ASSUME Typed, NEW j \in Job, jobs' = Append(jobs, j)
    PROVE  /\ Queue' = Queue \cup {j}
           /\ OneJobEach /\ (\A k \in Queue : k.rec # j.rec) => OneJobEach'
<1>1. jobs \in Seq(Job) /\ Len(jobs) \in Nat
  BY DEF Typed
<1>2. /\ Len(jobs') = Len(jobs) + 1
      /\ \A i \in 1 .. Len(jobs) : jobs'[i] = jobs[i]
      /\ jobs'[Len(jobs) + 1] = j
  BY <1>1, AppendProperties
<1>3. 1 .. Len(jobs') = 1 .. Len(jobs) \cup {Len(jobs) + 1}
  BY <1>1, <1>2
<1>4. Queue' = Queue \cup {j}
  BY <1>2, <1>3 DEF Queue
<1>5. OneJobEach /\ (\A k \in Queue : k.rec # j.rec) => OneJobEach'
  BY <1>1, <1>2, <1>3 DEF OneJobEach, Queue
<1> QED
  BY <1>4, <1>5

\* A job leaves it.
LEMMA QueueShrinks ==
    ASSUME Typed, OneJobEach, NEW i \in 1 .. Len(jobs), jobs' = Drop(jobs, i)
    PROVE  /\ Queue' = Queue \ {jobs[i]}
           /\ OneJobEach'
<1>1. jobs \in Seq(Job) /\ Len(jobs) \in Nat /\ \A k \in 1 .. Len(jobs) : jobs[k] \in Job
  BY DEF Typed
<1>2. /\ Len(jobs') = Len(jobs) - 1
      /\ \A k \in 1 .. Len(jobs) - 1 : jobs'[k] = IF k < i THEN jobs[k] ELSE jobs[k + 1]
  <2> DEFINE a == SubSeq(jobs, 1, i - 1)
             b == SubSeq(jobs, i + 1, Len(jobs))
  <2>1. /\ a \in Seq(Job) /\ Len(a) = i - 1 /\ \A k \in 1 .. i - 1 : a[k] = jobs[k]
    BY <1>1, SubSeqProperties
  <2>2. /\ b \in Seq(Job) /\ Len(b) = Len(jobs) - i
        /\ \A k \in 1 .. Len(jobs) - i : b[k] = jobs[i + k]
    BY <1>1, SubSeqProperties
  <2>3. jobs' = a \o b
    BY DEF Drop
  <2> HIDE DEF a, b
  <2>4. /\ Len(jobs') = Len(a) + Len(b)
        /\ \A k \in 1 .. Len(a) + Len(b) : jobs'[k] = IF k <= Len(a) THEN a[k] ELSE b[k - Len(a)]
    BY <2>1, <2>2, <2>3, ConcatProperties
  <2>5. Len(jobs') = Len(jobs) - 1
    BY <1>1, <2>1, <2>2, <2>4
  <2>6. ASSUME NEW k \in 1 .. Len(jobs) - 1
        PROVE  jobs'[k] = IF k < i THEN jobs[k] ELSE jobs[k + 1]
    <3>0. /\ k \in 1 .. Len(a) + Len(b)
          /\ jobs'[k] = IF k <= i - 1 THEN a[k] ELSE b[k - (i - 1)]
      <4>1. k \in 1 .. Len(a) + Len(b)
        BY <1>1, <2>1, <2>2
      <4> QED
        BY <4>1, <2>1, <2>4
    <3>1. CASE k < i
      <4>1. k \in 1 .. i - 1 /\ k <= i - 1
        BY <1>1, <3>1
      <4> QED
        BY <2>1, <3>0, <3>1, <4>1
    <3>2. CASE ~(k < i)
      <4>1. k - (i - 1) \in 1 .. Len(jobs) - i /\ i + (k - (i - 1)) = k + 1 /\ ~(k <= i - 1)
        BY <1>1, <3>2
      <4>2. b[k - (i - 1)] = jobs[i + (k - (i - 1))]
        BY <2>2, <4>1
      <4> QED
        BY <3>0, <3>2, <4>1, <4>2
    <3> QED
      BY <3>1, <3>2
  <2> QED
    BY <2>5, <2>6
<1>3. \A k \in 1 .. Len(jobs) : k # i =>
         \E n \in 1 .. Len(jobs') : jobs'[n] = jobs[k]
  <2> SUFFICES ASSUME NEW k \in 1 .. Len(jobs), k # i PROVE \E n \in 1 .. Len(jobs') : jobs'[n] = jobs[k]
    OBVIOUS
  <2>1. CASE k < i
    BY <1>1, <1>2, <2>1
  <2>2. CASE k > i
    <3>1. k - 1 \in 1 .. Len(jobs') /\ ~(k - 1 < i) /\ (k - 1) + 1 = k
      BY <1>1, <1>2, <2>2
    <3> QED
      BY <1>1, <1>2, <3>1
  <2> QED
    BY <2>1, <2>2
<1>4. \A n \in 1 .. Len(jobs') : \E k \in 1 .. Len(jobs) : k # i /\ jobs'[n] = jobs[k]
  <2> SUFFICES ASSUME NEW n \in 1 .. Len(jobs') PROVE \E k \in 1 .. Len(jobs) : k # i /\ jobs'[n] = jobs[k]
    OBVIOUS
  <2>1. CASE n < i
    BY <1>1, <1>2, <2>1
  <2>2. CASE ~(n < i)
    <3>1. n + 1 \in 1 .. Len(jobs) /\ n + 1 # i
      BY <1>1, <1>2, <2>2
    <3> QED
      BY <1>1, <1>2, <2>2, <3>1
  <2> QED
    BY <2>1, <2>2
<1>5. \A k \in 1 .. Len(jobs) : k # i => jobs[k] # jobs[i]
  BY DEF OneJobEach
<1>6. Queue' = Queue \ {jobs[i]}
  BY <1>3, <1>4, <1>5 DEF Queue
<1>7. ASSUME NEW m \in 1 .. Len(jobs'), NEW n \in 1 .. Len(jobs'), jobs'[m].rec = jobs'[n].rec
      PROVE  m = n
  <2> DEFINE at(k) == IF k < i THEN k ELSE k + 1
  <2>1. at(m) \in 1 .. Len(jobs) /\ at(n) \in 1 .. Len(jobs)
    BY <1>1, <1>2
  <2>2. jobs'[m] = jobs[at(m)] /\ jobs'[n] = jobs[at(n)]
    BY <1>1, <1>2
  <2>3. at(m) = at(n)
    BY <1>7, <2>1, <2>2 DEF OneJobEach
  <2> QED
    BY <1>1, <1>2, <2>3
<1> QED
  BY <1>6, <1>7 DEF OneJobEach

LEMMA OneJob ==
    ASSUME OneJobEach, NEW j \in Queue, NEW k \in Queue, j.rec = k.rec
    PROVE  j = k
  BY DEF OneJobEach, Queue


-----------------------------------------------------------------------------
(* Steps that touch no claim. *)

\* The columns of a record and of a request are of their types.
LEMMA Fields ==
    ASSUME Typed
    PROVE  \A r \in Records :
             /\ rec[r] \in Record
             /\ rec[r].status \in Statuses /\ rec[r].state \in UpgradeStates /\ rec[r].mode \in Modes
             /\ rec[r].role \in Roles
             /\ rec[r].request \in Records \cup {None} /\ rec[r].first \in Records \cup {None}
             /\ request[r].status \in {"absent", "awaiting_material", "pending", "approved", "rejected"}
             /\ request[r].first \in Records \cup {None}
  BY DEF Typed, Record, Requests, Roles

\* Reading and giving up.
LEMMA QuietStep ==
    ASSUME Linked, Typed', UNCHANGED <<rec, request, jobs>>, Retries'
    PROVE  Linked'
<1>1. Stories' /\ Columns'
  BY DEF Linked, Stories, Columns, StoryOf, ColumnsOf, Holds
<1>2. Queue' = Queue
  BY DEF Queue
<1>3. Jobs'
  BY <1>2 DEF Linked, Jobs, OneJobEach, JobOf, Taken
<1> QED
  BY <1>1, <1>3 DEF Linked

\* No request and no retry is about s, and it is neither in force nor in conversion.
Unclaimed(s) ==
    /\ rec[s].status \notin {"active", "material_processing"} /\ request[s].status = "absent"
    /\ \A u \in Uploads : up[u].op = "retry" => up[u].rec # s

\* Nothing refers to a record of no request that is neither in force nor in conversion.
LEMMA Unreferred ==
    ASSUME Linked, NEW s \in Records,
           rec[s].status \notin {"active", "material_processing"}, request[s].status = "absent"
    PROVE  /\ \A j \in Queue : j.rec # s /\ j.first # s
           /\ \A t \in Records : request[t].status \in Live => request[t].first # s
           /\ \A q \in Records : rec[q].request # s
           /\ rec[s].request = None
<1>1. \A t \in Records : request[t].status \in Live => request[t].first # s
  BY DEF Linked, Stories, StoryOf, Holds
<1>2. \A q \in Records : rec[q].request # s
  <2> SUFFICES ASSUME NEW q \in Records, rec[q].request = s PROVE FALSE
    OBVIOUS
  <2>1. ColumnsOf(q) /\ s # None
    BY FlowAssumption DEF Linked, Columns
  <2> QED
    BY <2>1 DEF ColumnsOf, Live
<1>3. rec[s].request = None
  <2> SUFFICES ASSUME rec[s].request # None PROVE FALSE
    OBVIOUS
  <2>1. ColumnsOf(s) /\ rec[s].request \in Records
    BY Fields DEF Linked, Columns
  <2> QED
    BY <1>1, <2>1 DEF ColumnsOf
<1>4. ASSUME NEW j \in Queue PROVE j.rec # s /\ j.first # s
  <2>1. JobOf(j) /\ j.rec \in Records /\ j.first \in Records \cup {None}
    BY Queued DEF Linked, Jobs
  <2>2. j.rec # s
    BY <2>1 DEF JobOf
  <2>3. CASE j.first # None /\ request[j.rec].status = "awaiting_material"
    <3>1. request[j.rec].first = rec[j.rec].first
      BY <2>1, <2>3 DEF Linked, Stories, StoryOf
    <3> QED
      BY <1>1, <2>1, <2>2, <2>3, <3>1 DEF JobOf, Live
  <2>4. CASE j.first # None /\ request[j.rec].status # "awaiting_material"
    BY <2>1, <2>2, <2>4 DEF JobOf, Taken
  <2>5. CASE j.first = None
    BY <2>2, <2>5, FlowAssumption
  <2> QED
    BY <2>3, <2>4, <2>5
<1> QED
  BY <1>1, <1>2, <1>3, <1>4

\* A record that is not there yet.
LEMMA FreshUnclaimed ==
    ASSUME Linked, NEW s \in Records, Fresh(s)
    PROVE  Unclaimed(s)
<1>1. request[s].status = "absent"
  BY Fields DEF Linked, Stories, StoryOf, Fresh, Unresolved
<1>2. \A u \in Uploads : up[u].op = "retry" => up[u].rec # s
  BY DEF Linked, Retries, RetryOf, Fresh, Failed
<1> QED
  BY <1>1, <1>2 DEF Unclaimed, Fresh

\* Retries other than the one that is written stay under way.
OthersWait == \A u \in Uploads : up'[u] = up[u] \/ up'[u].op # "retry"

LEMMA RetriesWait ==
    ASSUME Linked, OthersWait,
           \A u \in Uploads : up[u].op = "retry" /\ up'[u] = up[u] =>
               rec'[up[u].rec] = rec[up[u].rec] /\ request'[up[u].rec] = request[up[u].rec]
    PROVE  Retries'
<1> SUFFICES ASSUME NEW u \in Uploads PROVE RetryOf(u)'
  BY DEF Retries
<1>1. CASE up'[u].op # "retry"
  BY <1>1 DEF RetryOf
<1>2. CASE up'[u] = up[u] /\ up[u].op = "retry"
  <2>1. RetryOf(u)
    BY DEF Linked, Retries
  <2>2. rec'[up[u].rec] = rec[up[u].rec] /\ request'[up[u].rec] = request[up[u].rec]
    BY <1>2
  <2> QED
    BY <1>2, <2>1, <2>2 DEF RetryOf
<1> QED
  BY <1>1, <1>2 DEF OthersWait

\* A new record that has nothing to do with an upgrade, with its job or without.
LEMMA PlainRow ==
    ASSUME Linked, Typed', NEW s \in Records, Fresh(s),
           \A q \in Records \ {s} : rec'[q] = rec[q],
           rec'[s].request = None, rec'[s].first = None, rec'[s].mode \notin UpgradeModes,
           rec'[s].status \in Unresolved => rec'[s].role = "none",
           UNCHANGED request, OthersWait,
           \/ UNCHANGED jobs
           \/ /\ rec'[s].status = "material_processing"
              /\ \E mode \in Modes \ UpgradeModes :
                    rec'[s].mode = mode /\ jobs' = Append(jobs, [rec |-> s, mode |-> mode, first |-> None])
    PROVE  Linked'
<1>1. /\ Unclaimed(s)
      /\ \A j \in Queue : j.rec # s /\ j.first # s
      /\ \A t \in Records : request[t].status \in Live => request[t].first # s
      /\ \A q \in Records : rec[q].request # s
  BY FreshUnclaimed, Unreferred DEF Unclaimed
<1>2. request[s].status = "absent"
  BY <1>1 DEF Unclaimed
<1>3. Stories'
  <2> SUFFICES ASSUME NEW q \in Records PROVE StoryOf(q)'
    BY DEF Stories
  <2>1. CASE q = s
    BY <1>2, <2>1, Fields DEF Linked, Stories, StoryOf, Live
  <2>2. CASE q # s
    BY <1>1, <2>2 DEF Linked, Stories, StoryOf, Holds, Live
  <2> QED
    BY <2>1, <2>2
<1>4. Columns'
  BY <1>1 DEF Linked, Columns, ColumnsOf, Failed, Unresolved
<1>5. \A j \in Queue : JobOf(j) /\ j.rec \in Records /\ j.first \in Records \cup {None}
  BY Queued DEF Linked, Jobs
<1>6. Retries'
  <2>1. \A u \in Uploads : up[u].op = "retry" => up[u].rec \in Records /\ up[u].rec # s
    BY <1>1, UploadFields DEF Unclaimed, Linked
  <2> QED
    BY <2>1, RetriesWait
<1>7. CASE UNCHANGED jobs
  <2>1. Queue' = Queue /\ OneJobEach'
    BY <1>7 DEF Queue, OneJobEach, Linked, Jobs
  <2>2. \A j \in Queue : JobOf(j)'
    BY <1>1, <1>5, <2>1 DEF JobOf, Taken
  <2>3. Jobs'
    BY <2>1, <2>2 DEF Jobs
  <2> QED
    BY <1>3, <1>4, <1>6, <2>3 DEF Linked
<1>8. ASSUME rec'[s].status = "material_processing",
             NEW mode \in Modes \ UpgradeModes, rec'[s].mode = mode,
             jobs' = Append(jobs, [rec |-> s, mode |-> mode, first |-> None])
      PROVE  Linked'
  <2> DEFINE new == [rec |-> s, mode |-> mode, first |-> None]
  <2>1. new \in Job
    BY DEF Job
  <2>2. Queue' = Queue \cup {new} /\ OneJobEach'
    BY <1>1, <1>8, <2>1, QueueGrows DEF Linked, Jobs
  <2>3. JobOf(new)'
    BY <1>8 DEF JobOf
  <2>4. \A j \in Queue : j.first # None => j.first # new.first
    OBVIOUS
  <2> HIDE DEF new
  <2>5. ASSUME NEW j \in Queue PROVE JobOf(j)'
    BY <1>1, <1>5, <2>2, <2>4 DEF JobOf, Taken
  <2>6. Jobs'
    BY <2>2, <2>3, <2>5 DEF Jobs
  <2> QED
    BY <1>3, <1>4, <1>6, <2>6 DEF Linked
<1> QED
  BY <1>7, <1>8

\* A correction of a record that no upgrade refers to.
LEMMA StandaloneStep ==
    ASSUME Linked, Typed', NEW r \in Records, Standalone(r),
           rec[r].status \in Failed \cup {"active", "void"},
           \A q \in Records \ {r} : rec'[q] = rec[q],
           /\ rec'[r].request = rec[r].request /\ rec'[r].first = rec[r].first
           /\ rec'[r].mode = rec[r].mode /\ rec'[r].role = rec[r].role,
           rec'[r].status \in Failed \cup {"active", "void"},
           rec[r].status \in Failed =>
               rec'[r].status \in Failed \/ (rec'[r].status = "void" /\ rec'[r].from \in Failed),
           rec[r].status = "void" /\ rec[r].from \in Failed => rec'[r].status \in Failed,
           UNCHANGED <<request, jobs, up>>
    PROVE  Linked'
<1>1. /\ rec[r].request = None /\ rec[r].role = "none" /\ request[r].status = "absent"
      /\ \A s \in Records : request[s].first # r
  BY DEF Standalone
<1>2. rec[r].first = None
  BY <1>1 DEF Linked, Columns, ColumnsOf
<1>3. ASSUME NEW j \in Queue PROVE j.rec # r /\ j.first # r /\ JobOf(j) /\ j.rec \in Records /\ j.first \in Records \cup {None}
  <2>1. JobOf(j) /\ j.rec \in Records /\ j.first \in Records \cup {None}
    BY Queued DEF Linked, Jobs
  <2>2. j.rec # r
    BY <2>1 DEF JobOf, Failed
  <2>3. j.first # r
    <3> SUFFICES ASSUME j.first = r PROVE FALSE
      OBVIOUS
    <3>1. j.first # None
      BY FlowAssumption
    <3>2. CASE request[j.rec].status = "awaiting_material"
      <4>1. request[j.rec].first = rec[j.rec].first
        BY <2>1, <3>2 DEF Linked, Stories, StoryOf
      <4> QED
        BY <1>1, <2>1, <4>1 DEF JobOf
    <3>3. CASE request[j.rec].status # "awaiting_material"
      BY <1>1, <2>1, <3>1, <3>3 DEF JobOf, Taken
    <3> QED
      BY <3>2, <3>3
  <2> QED
    BY <2>1, <2>2, <2>3
<1>4. Stories'
  <2> SUFFICES ASSUME NEW q \in Records PROVE StoryOf(q)'
    BY DEF Stories
  <2>1. StoryOf(q) /\ UNCHANGED request
    BY DEF Linked, Stories
  <2>2. CASE q = r
    BY <1>1, <2>1, <2>2 DEF StoryOf, Live
  <2>3. CASE q # r
    <3>1. rec'[q] = rec[q]
      BY <2>3
    <3>2. request[q].status # "absent" => rec'[request[q].first] = rec[request[q].first]
      BY <1>1, <2>1 DEF StoryOf
    <3> QED
      BY <2>1, <3>1, <3>2 DEF StoryOf, Holds, Live
  <2> QED
    BY <2>2, <2>3
<1>5. Columns'
  BY <1>1, <1>2 DEF Linked, Columns, ColumnsOf, Failed, Unresolved
<1>6. Queue' = Queue /\ OneJobEach'
  BY DEF Queue, OneJobEach, Linked, Jobs
<1>7. Jobs'
  <2>1. \A j \in Queue : JobOf(j)'
    BY <1>3, <1>6 DEF JobOf, Taken
  <2> QED
    BY <1>6, <2>1 DEF Jobs
<1>8. ASSUME NEW u \in Uploads PROVE RetryOf(u)'
  <2>1. RetryOf(u)
    BY DEF Linked, Retries
  <2>2. up[u].op = "retry" => up[u].rec \in Records
    BY UploadFields DEF Linked
  <2>3. CASE up[u].rec = r
    BY <1>1, <1>2, <2>1, <2>3 DEF RetryOf
  <2>4. CASE up[u].rec # r
    BY <2>1, <2>2, <2>4 DEF RetryOf
  <2> QED
    BY <2>3, <2>4
<1> QED
  BY <1>4, <1>5, <1>7, <1>8 DEF Linked, Retries

-----------------------------------------------------------------------------
(* Steps that claim a first statement.                                      *)

\* An upgrade candidate.
Unspent(f) == rec[f].status = "active" /\ rec[f].state \in {"none", "eligible"}

\* Nobody has claimed it.
LEMMA UnspentFree ==
    ASSUME Linked, NEW f \in Records, Unspent(f)
    PROVE  /\ request[f].status = "absent" /\ rec[f].request = None /\ rec[f].first = None
           /\ \A j \in Queue : j.rec # f /\ j.first # f
           /\ \A t \in Records : request[t].status \in Live => request[t].first # f
           /\ \A u \in Uploads : up[u].op = "retry" => up[u].rec # f
<1>1. request[f].status = "absent"
  BY Fields DEF Linked, Stories, StoryOf, Unspent, Unresolved
<1>2. \A t \in Records : request[t].status \in Live => request[t].first # f
  BY DEF Linked, Stories, StoryOf, Holds, Unspent
<1>3. rec[f].request = None
  <2> SUFFICES ASSUME rec[f].request # None PROVE FALSE
    OBVIOUS
  <2>1. ColumnsOf(f) /\ rec[f].request \in Records
    BY Fields DEF Linked, Columns
  <2> QED
    BY <1>1, <1>2, <2>1 DEF ColumnsOf
<1>4. ASSUME NEW j \in Queue PROVE j.rec # f /\ j.first # f
  <2>1. JobOf(j) /\ j.rec \in Records /\ j.first \in Records \cup {None}
    BY Queued DEF Linked, Jobs
  <2>2. j.rec # f
    BY <2>1 DEF JobOf, Unspent
  <2>3. j.first # f
    <3> SUFFICES ASSUME j.first = f PROVE FALSE
      OBVIOUS
    <3>1. j.first # None
      BY FlowAssumption
    <3>2. CASE request[j.rec].status = "awaiting_material"
      <4>1. request[j.rec].first = rec[j.rec].first
        BY <2>1, <3>2 DEF Linked, Stories, StoryOf
      <4> QED
        BY <1>2, <2>1, <3>2, <4>1 DEF JobOf, Live
    <3>3. CASE request[j.rec].status # "awaiting_material"
      BY <2>1, <3>1, <3>3 DEF JobOf, Taken, Unspent
    <3> QED
      BY <3>2, <3>3
  <2> QED
    BY <2>2, <2>3
<1>5. \A u \in Uploads : up[u].op = "retry" => up[u].rec # f
  BY DEF Linked, Retries, RetryOf, Failed, Unspent
<1>6. rec[f].first = None
  BY <1>1 DEF Linked, Columns, ColumnsOf, Unspent, Unresolved
<1> QED
  BY <1>1, <1>2, <1>3, <1>4, <1>5, <1>6

\* A conversion takes f for s; its request will be made from the result.
LEMMA ConversionTakes ==
    ASSUME Linked, Typed', NEW f \in Records, NEW s \in Records, Unspent(f), Unclaimed(s), s # f,
           rec[f].first = None,
           \A q \in Records \ {f, s} : rec'[q] = rec[q],
           /\ rec'[f].status = "active" /\ rec'[f].role = "source_first" /\ rec'[f].request = None
           /\ rec'[f].state \in {"material_processing", "pending"}
           /\ rec'[f].first = None /\ rec'[f].mode = rec[f].mode,
           /\ rec'[s].status = "material_processing" /\ rec'[s].role = "source_second"
           /\ rec'[s].request = None /\ rec'[s].first = f,
           NEW mode \in UpgradeModes, rec'[s].mode = mode,
           mode = "upgrade" => rec'[f].state = "material_processing",
           jobs' = Append(jobs, [rec |-> s, mode |-> mode, first |-> f]),
           UNCHANGED <<request, up>>
    PROVE  Linked'
<1> DEFINE new == [rec |-> s, mode |-> mode, first |-> f]
<1>0. new \in Job /\ f # None
  BY FlowAssumption DEF Job, Modes, UpgradeModes
<1>1. /\ \A j \in Queue : j.rec # s /\ j.first # s
      /\ \A t \in Records : request[t].status \in Live => request[t].first # s
      /\ \A q \in Records : rec[q].request # s
      /\ request[s].status = "absent"
  BY Unreferred DEF Unclaimed
<1>2. /\ request[f].status = "absent" /\ rec[f].request = None
      /\ \A j \in Queue : j.rec # f /\ j.first # f
      /\ \A t \in Records : request[t].status \in Live => request[t].first # f
      /\ \A u \in Uploads : up[u].op = "retry" => up[u].rec # f
  BY UnspentFree
<1>3. Stories'
  <2> SUFFICES ASSUME NEW q \in Records PROVE StoryOf(q)'
    BY DEF Stories
  <2>1. StoryOf(q)
    BY DEF Linked, Stories
  <2>2. CASE q = s \/ q = f
    BY <1>1, <1>2, <2>1, <2>2 DEF StoryOf, Live
  <2>3. CASE q # s /\ q # f
    <3>1. rec'[q] = rec[q]
      BY <2>3
    <3>2. request[q].status \in Live => rec'[request[q].first] = rec[request[q].first]
      BY <1>1, <1>2, <2>1 DEF StoryOf, Live
    <3> QED
      BY <2>1, <3>1, <3>2 DEF StoryOf, Holds, Live
  <2> QED
    BY <2>2, <2>3
<1>4. Columns'
  <2> SUFFICES ASSUME NEW q \in Records PROVE ColumnsOf(q)'
    BY DEF Columns
  <2>1. ColumnsOf(q)
    BY DEF Linked, Columns
  <2>2. CASE q = s
    BY <1>0, <2>2 DEF ColumnsOf, Failed, Unresolved
  <2>3. CASE q = f
    BY <2>1, <2>3 DEF ColumnsOf, Failed, Unresolved
  <2>4. CASE q # s /\ q # f
    BY <2>1, <2>4 DEF ColumnsOf
  <2> QED
    BY <2>2, <2>3, <2>4
<1>5. Queue' = Queue \cup {new} /\ OneJobEach'
  BY <1>0, <1>1, QueueGrows DEF Linked, Jobs
<1>6. JobOf(new)'
  BY <1>0, <1>1, <1>2, <1>5 DEF JobOf, Taken
<1> HIDE DEF new
<1>7. ASSUME NEW j \in Queue PROVE JobOf(j)'
  <2>1. JobOf(j) /\ j.rec \in Records /\ j.first \in Records \cup {None}
    BY Queued DEF Linked, Jobs
  <2>2. rec'[j.rec] = rec[j.rec] /\ (j.first # None => rec'[j.first] = rec[j.first])
    BY <1>1, <1>2, <2>1
  <2>3. new.first = f
    BY DEF new
  <2> QED
    BY <1>2, <1>5, <2>1, <2>2, <2>3 DEF JobOf, Taken
<1>8. Jobs'
  BY <1>5, <1>6, <1>7 DEF Jobs
<1>9. Retries'
  <2>1. \A u \in Uploads : up[u].op = "retry" => up[u].rec \in Records /\ up[u].rec # s /\ up[u].rec # f
    BY <1>2, UploadFields DEF Unclaimed, Linked
  <2> QED
    BY <2>1, RetriesWait DEF OthersWait
<1> QED
  BY <1>3, <1>4, <1>8, <1>9 DEF Linked

\* A request takes f for s, with the material there, in conversion or to come.
LEMMA RequestTakes ==
    ASSUME Linked, Typed', NEW f \in Records, NEW s \in Records, Unspent(f), Unclaimed(s), s # f,
           rec[f].first = None,
           \A q \in Records \ {f, s} : rec'[q] = rec[q],
           /\ rec'[f].status = "active" /\ rec'[f].role = "source_first" /\ rec'[f].request = s
           /\ rec'[f].state \notin {"none", "eligible"}
           /\ rec'[f].first = None /\ rec'[f].mode = rec[f].mode,
           rec'[s].role = "source_second" /\ rec'[s].request = s,
           rec'[s].mode \in UpgradeModes => rec'[s].first # None,
           rec'[s].first \in {None, f},
           NEW status \in {"pending", "awaiting_material"},
           request' = [request EXCEPT ![s] = [status |-> status, first |-> f]],
           status = "pending" => rec'[f].state = "pending" /\ rec'[s].status = "pending_upgrade",
           status = "awaiting_material" => rec'[s].first = f /\ rec'[s].status \in {"pending_material", "material_processing"},
           \/ UNCHANGED jobs
           \/ /\ rec'[s].status = "material_processing" /\ status = "awaiting_material"
              /\ \E mode \in UpgradeModes :
                    rec'[s].mode = mode /\ jobs' = Append(jobs, [rec |-> s, mode |-> mode, first |-> f]),
           OthersWait
    PROVE  Linked'
<1>0. f # None
  BY FlowAssumption
<1>1. /\ \A j \in Queue : j.rec # s /\ j.first # s
      /\ \A t \in Records : request[t].status \in Live => request[t].first # s
      /\ \A q \in Records : rec[q].request # s
      /\ request[s].status = "absent"
  BY Unreferred DEF Unclaimed
<1>2. /\ request[f].status = "absent" /\ rec[f].request = None
      /\ \A j \in Queue : j.rec # f /\ j.first # f
      /\ \A t \in Records : request[t].status \in Live => request[t].first # f
      /\ \A u \in Uploads : up[u].op = "retry" => up[u].rec # f
  BY UnspentFree
<1>3. /\ request'[s].status = status /\ request'[s].first = f
      /\ \A q \in Records \ {s} : request'[q] = request[q]
  BY DEF Linked, Typed
<1>4. Stories'
  <2> SUFFICES ASSUME NEW q \in Records PROVE StoryOf(q)'
    BY DEF Stories
  <2>1. StoryOf(q)
    BY DEF Linked, Stories
  <2>2. CASE q = s
    BY <1>3, <2>2 DEF StoryOf, Holds, Live, Unresolved
  <2>3. CASE q = f
    BY <1>2, <1>3, <2>1, <2>3 DEF StoryOf, Live
  <2>4. CASE q # s /\ q # f
    <3>1. rec'[q] = rec[q] /\ request'[q] = request[q]
      BY <1>3, <2>4
    <3>2. request[q].status \in Live => rec'[request[q].first] = rec[request[q].first]
      BY <1>1, <1>2, <2>1 DEF StoryOf, Live
    <3> QED
      BY <2>1, <3>1, <3>2 DEF StoryOf, Holds, Live
  <2> QED
    BY <2>2, <2>3, <2>4
<1>5. Columns'
  <2> SUFFICES ASSUME NEW q \in Records PROVE ColumnsOf(q)'
    BY DEF Columns
  <2>1. ColumnsOf(q)
    BY DEF Linked, Columns
  <2>2. CASE q = s
    BY <1>0, <1>3, <2>2 DEF ColumnsOf, Failed, Unresolved
  <2>3. CASE q = f
    BY <1>3, <2>1, <2>3 DEF ColumnsOf, Failed, Unresolved, Live
  <2>4. CASE q # s /\ q # f
    <3>1. rec'[q] = rec[q] /\ request'[q] = request[q] /\ rec[q].request # s /\ rec[q].request \in Records \cup {None}
      BY <1>1, <1>3, <2>4, Fields DEF Linked
    <3>2. rec[q].request # None => request'[rec[q].request] = request[rec[q].request]
      BY <1>3, <3>1
    <3> QED
      BY <2>1, <3>1, <3>2 DEF ColumnsOf
  <2> QED
    BY <2>2, <2>3, <2>4
<1>6. ASSUME NEW j \in Queue
      PROVE  /\ JobOf(j) /\ rec'[j.rec] = rec[j.rec] /\ request'[j.rec] = request[j.rec]
             /\ j.first # None => rec'[j.first] = rec[j.first]
             /\ j.first # f
  <2>1. JobOf(j) /\ j.rec \in Records /\ j.first \in Records \cup {None}
    BY Queued DEF Linked, Jobs
  <2> QED
    BY <1>1, <1>2, <1>3, <2>1
<1>7. Jobs'
  <2>1. CASE UNCHANGED jobs
    <3>1. Queue' = Queue /\ OneJobEach'
      BY <2>1 DEF Queue, OneJobEach, Linked, Jobs
    <3>2. \A j \in Queue : JobOf(j)'
      BY <1>6, <3>1 DEF JobOf, Taken
    <3> QED
      BY <3>1, <3>2 DEF Jobs
  <2>2. ASSUME rec'[s].status = "material_processing", status = "awaiting_material",
               NEW mode \in UpgradeModes, rec'[s].mode = mode,
               jobs' = Append(jobs, [rec |-> s, mode |-> mode, first |-> f])
        PROVE  Jobs'
    <3> DEFINE new == [rec |-> s, mode |-> mode, first |-> f]
    <3>1. new \in Job
      BY DEF Job, Modes, UpgradeModes
    <3>2. Queue' = Queue \cup {new} /\ OneJobEach'
      BY <1>1, <2>2, <3>1, QueueGrows DEF Linked, Jobs
    <3>3. JobOf(new)' /\ new.first = f
      BY <1>0, <1>3, <2>2 DEF JobOf
    <3> HIDE DEF new
    <3>4. \A j \in Queue : JobOf(j)'
      BY <1>6, <3>2, <3>3 DEF JobOf, Taken
    <3> QED
      BY <3>2, <3>3, <3>4 DEF Jobs
  <2> QED
    BY <2>1, <2>2
<1>8. Retries'
  <2>1. \A u \in Uploads : up[u].op = "retry" => up[u].rec \in Records /\ up[u].rec # s /\ up[u].rec # f
    BY <1>2, UploadFields DEF Unclaimed, Linked
  <2> QED
    BY <1>3, <2>1, RetriesWait
<1> QED
  BY <1>4, <1>5, <1>7, <1>8 DEF Linked

-----------------------------------------------------------------------------
(* One lemma for each operation. *)

LEMMA DeclarationsLinked ==
    ASSUME Linked, Typed', NEW s \in Records, NEW l \in Levels,
           CreateDraft(s, l) \/ CorrectLevel(s, l) \/ Void(s) \/ Restore(s)
    PROVE  Linked'
<1>0. rec[s] \in Record
  BY DEF Linked, Typed
<1>1. CASE CreateDraft(s, l)
  <2>1. rec'[s] = [Blank EXCEPT !.status = "pending_material", !.level = l]
    BY <1>1 DEF CreateDraft, Linked, Typed
  <2>2. /\ rec'[s].request = None /\ rec'[s].first = None /\ rec'[s].mode = "none" /\ rec'[s].role = "none"
    BY <2>1 DEF Blank
  <2>3. \A q \in Records \ {s} : rec'[q] = rec[q]
    BY <1>1 DEF CreateDraft, Linked, Typed
  <2> QED
    BY <1>1, <2>2, <2>3, PlainRow DEF CreateDraft, OthersWait, UpgradeModes
<1>2. CASE CorrectLevel(s, l)
  <2>1. rec'[s] = [rec[s] EXCEPT !.level = l] /\ \A q \in Records \ {s} : rec'[q] = rec[q]
    BY <1>2 DEF CorrectLevel, Linked, Typed
  <2>2. /\ rec'[s].request = rec[s].request /\ rec'[s].first = rec[s].first
        /\ rec'[s].mode = rec[s].mode /\ rec'[s].role = rec[s].role /\ rec'[s].status = rec[s].status
    BY <1>0, <2>1 DEF Record
  <2>3. Standalone(s) /\ rec[s].status \in {"active", "pending_material", "material_failed"}
        /\ UNCHANGED <<request, jobs, up>>
    BY <1>2 DEF CorrectLevel
  <2> QED
    BY <2>1, <2>2, <2>3, StandaloneStep DEF Failed
<1>3. CASE Void(s)
  <2>1. rec'[s] = [rec[s] EXCEPT !.status = "void", !.from = rec[s].status]
        /\ \A q \in Records \ {s} : rec'[q] = rec[q]
    BY <1>3 DEF Void, Linked, Typed
  <2>2. Standalone(s) /\ rec[s].status \in {"active", "pending_material", "material_failed"}
        /\ UNCHANGED <<request, jobs, up>>
    BY <1>3 DEF Void, CanVoid
  <2>3. /\ rec'[s].request = rec[s].request /\ rec'[s].first = rec[s].first
        /\ rec'[s].mode = rec[s].mode /\ rec'[s].role = rec[s].role
        /\ rec'[s].status = "void" /\ rec'[s].from = rec[s].status
    BY <1>0, <2>1 DEF Record
  <2> QED
    BY <2>1, <2>2, <2>3, StandaloneStep DEF Failed
<1>4. CASE Restore(s)
  <2>1. rec'[s] = [rec[s] EXCEPT !.status = rec[s].from, !.from = "absent"]
        /\ \A q \in Records \ {s} : rec'[q] = rec[q]
    BY <1>4 DEF Restore, Linked, Typed
  <2>2. Standalone(s) /\ rec[s].status = "void" /\ rec[s].from \in {"active", "pending_material", "material_failed"}
        /\ UNCHANGED <<request, jobs, up>>
    BY <1>4 DEF Restore
  <2>3. /\ rec'[s].request = rec[s].request /\ rec'[s].first = rec[s].first
        /\ rec'[s].mode = rec[s].mode /\ rec'[s].role = rec[s].role
        /\ rec'[s].status = rec[s].from
    BY <1>0, <2>1 DEF Record
  <2> QED
    BY <2>1, <2>2, <2>3, StandaloneStep DEF Failed
<1> QED
  BY <1>1, <1>2, <1>3, <1>4

LEMMA FinishCreateLinked ==
    ASSUME Linked, Typed', NEW u \in Uploads, NEW s \in Records, FinishCreate(u, s)
    PROVE  Linked'
<1>1. OthersWait /\ UNCHANGED request /\ Fresh(s)
  BY DEF FinishCreate, OthersWait, Idle, Linked, Typed
<1>2. \A q \in Records \ {s} : rec'[q] = rec[q]
  BY DEF FinishCreate, Linked, Typed
<1>3. CASE Converts(up[u].kind)
  <2>1. PICK mode \in {"deduction", "pdf_compress"} :
           /\ rec' = [rec EXCEPT ![s] = [Blank EXCEPT !.status = "material_processing", !.level = up[u].level,
                                                      !.material = "processing", !.mode = mode]]
           /\ jobs' = Append(jobs, [rec |-> s, mode |-> mode, first |-> None])
    BY <1>3 DEF FinishCreate
  <2>2. /\ rec'[s].request = None /\ rec'[s].first = None /\ rec'[s].role = "none" /\ rec'[s].mode = mode
        /\ rec'[s].status = "material_processing"
    BY <2>1 DEF Blank, Linked, Typed
  <2>3. mode \in Modes \ UpgradeModes
    BY DEF Modes, UpgradeModes
  <2> QED
    BY <1>1, <1>2, <2>1, <2>2, <2>3, PlainRow
<1>4. CASE ~Converts(up[u].kind)
  <2>1. rec'[s] = [Blank EXCEPT !.status = "active", !.level = up[u].level, !.material = "ready"] /\ UNCHANGED jobs
    BY <1>4 DEF FinishCreate, Linked, Typed
  <2>2. /\ rec'[s].request = None /\ rec'[s].first = None /\ rec'[s].role = "none" /\ rec'[s].mode = "none"
    BY <2>1 DEF Blank
  <2> QED
    BY <1>1, <1>2, <2>1, <2>2, PlainRow DEF UpgradeModes
<1> QED
  BY <1>3, <1>4

LEMMA CreateUpgradeLinked ==
    ASSUME Linked, Typed', NEW f \in Records, NEW s \in Records, NEW kind \in Kinds, CreateUpgrade(f, s, kind)
    PROVE  Linked'
<1>1. Unspent(f) /\ Unclaimed(s) /\ s # f /\ rec[f].first = None
  BY FreshUnclaimed, UnspentFree DEF CreateUpgrade, Candidate, Unspent, Fresh
<1>2. rec[f] \in Record /\ rec[f].request = None /\ rec[f].status = "active"
  BY <1>1, UnspentFree DEF Linked, Typed, Unspent
<1>3. \A q \in Records \ {f, s} : rec'[q] = rec[q]
  BY DEF CreateUpgrade, Linked, Typed
<1>4. CASE Converts(kind)
  <2> DEFINE mode == IF kind = "photos" THEN "upgrade" ELSE "upgrade_pdf_compress"
             state == IF kind = "photos" THEN "material_processing" ELSE "pending"
  <2>1. /\ rec'[f] = [rec[f] EXCEPT !.role = "source_first", !.state = state]
        /\ rec'[s] = [Blank EXCEPT !.status = "material_processing", !.material = "processing",
                         !.role = "source_second", !.state = "material_processing", !.mode = mode, !.first = f]
    BY <1>1, <1>4 DEF CreateUpgrade, Linked, Typed
  <2>2. /\ rec'[f].status = "active" /\ rec'[f].role = "source_first" /\ rec'[f].request = None
        /\ rec'[f].state = state /\ rec'[f].first = None /\ rec'[f].mode = rec[f].mode
    BY <1>1, <1>2, <2>1 DEF Record
  <2>3. /\ rec'[s].status = "material_processing" /\ rec'[s].role = "source_second"
        /\ rec'[s].request = None /\ rec'[s].first = f /\ rec'[s].mode = mode
    BY <2>1 DEF Blank
  <2>4. /\ mode \in UpgradeModes /\ state \in {"material_processing", "pending"}
        /\ mode = "upgrade" => state = "material_processing"
    BY <1>4 DEF UpgradeModes, Converts
  <2>5. jobs' = Append(jobs, [rec |-> s, mode |-> mode, first |-> f]) /\ UNCHANGED <<request, up>>
    BY <1>4 DEF CreateUpgrade
  <2> HIDE DEF mode, state
  <2> QED
    BY <1>1, <1>3, <2>2, <2>3, <2>4, <2>5, ConversionTakes
<1>5. CASE ~Converts(kind)
  <2>1. /\ rec'[f] = [rec[f] EXCEPT !.role = "source_first", !.state = "pending", !.request = s]
        /\ rec'[s] = [Blank EXCEPT !.status = "pending_upgrade", !.material = "ready",
                             !.role = "source_second", !.state = "pending", !.request = s]
    BY <1>1, <1>5 DEF CreateUpgrade, Linked, Typed
  <2>2. /\ rec'[f].status = "active" /\ rec'[f].role = "source_first" /\ rec'[f].request = s
        /\ rec'[f].state = "pending" /\ rec'[f].first = None /\ rec'[f].mode = rec[f].mode
    BY <1>1, <1>2, <2>1 DEF Record
  <2>3. /\ rec'[s].status = "pending_upgrade" /\ rec'[s].role = "source_second"
        /\ rec'[s].request = s /\ rec'[s].first = None /\ rec'[s].mode = "none"
    BY <2>1 DEF Blank
  <2>4. request' = [request EXCEPT ![s] = [status |-> "pending", first |-> f]] /\ UNCHANGED <<jobs, up>>
    BY <1>5 DEF CreateUpgrade
  <2> QED
    BY <1>1, <1>3, <2>2, <2>3, <2>4, RequestTakes DEF OthersWait, UpgradeModes
<1> QED
  BY <1>4, <1>5

LEMMA RetryUpgradeLinked ==
    ASSUME Linked, Typed', NEW s \in Records, NEW kind \in Kinds, RetryUpgrade(s, kind)
    PROVE  Linked'
<1> DEFINE f == rec[s].first
           mode == RetryMode(kind, TRUE)
<1>1. /\ rec[s].status \in Failed /\ ~AwaitsUpgrade(s) /\ rec[s].mode \in UpgradeModes
      /\ rec[f].request = None /\ rec[f].status = "active" /\ rec[f].state \in {"none", "eligible"}
  BY DEF RetryUpgrade, CanRetryUpgrade, Failed
<1>2. f \in Records /\ f # s /\ rec[s].role = "source_second" /\ ColumnsOf(s) /\ StoryOf(s)
  BY <1>1, Fields DEF Linked, Columns, ColumnsOf, Stories
<1>3. request[s].status = "absent"
  BY <1>1, <1>2, Fields, FlowAssumption DEF StoryOf, AwaitsUpgrade, Failed, Linked
<1>4. Unclaimed(s)
  <2>1. \A u \in Uploads : up[u].op = "retry" => up[u].rec # s
    BY <1>2, <1>3, FlowAssumption DEF Linked, Retries, RetryOf
  <2> QED
    BY <1>1, <1>3, <2>1 DEF Unclaimed, Failed
<1>5. Unspent(f) /\ rec[f].first = None /\ rec[s].request = None
  <2>1. Unspent(f)
    BY <1>1 DEF Unspent
  <2> QED
    BY <1>2, <1>4, <2>1, UnspentFree, Unreferred DEF Unclaimed
<1>6. rec[f] \in Record /\ rec[s] \in Record /\ mode \in UpgradeModes
  BY <1>2 DEF Linked, Typed, RetryMode, UpgradeModes
<1>7. /\ rec'[f] = [rec[f] EXCEPT !.state = "material_processing", !.role = "source_first"]
      /\ rec'[s] = [rec[s] EXCEPT !.status = "material_processing", !.material = "processing",
                       !.state = "material_processing", !.mode = mode]
      /\ \A q \in Records \ {f, s} : rec'[q] = rec[q]
  BY <1>2 DEF RetryUpgrade, Linked, Typed
<1>8. jobs' = Append(jobs, [rec |-> s, mode |-> mode, first |-> f]) /\ UNCHANGED <<request, up>>
  BY DEF RetryUpgrade
<1> HIDE DEF f, mode
<1>9. /\ rec'[f].status = "active" /\ rec'[f].role = "source_first" /\ rec'[f].request = None
      /\ rec'[f].state = "material_processing" /\ rec'[f].first = None /\ rec'[f].mode = rec[f].mode
  BY <1>1, <1>5, <1>6, <1>7 DEF Record
<1>10. /\ rec'[s].status = "material_processing" /\ rec'[s].role = "source_second"
       /\ rec'[s].request = None /\ rec'[s].first = f /\ rec'[s].mode = mode
  BY <1>2, <1>5, <1>6, <1>7 DEF Record, f
<1> QED
  BY <1>2, <1>4, <1>5, <1>6, <1>7, <1>8, <1>9, <1>10, ConversionTakes

LEMMA FinishSickLinked ==
    ASSUME Linked, Typed', NEW u \in Uploads, NEW s \in Records, FinishSick(u, s)
    PROVE  Linked'
<1> DEFINE d == up[u]
           f == d.first
           stage == CASE d.kind = "none" -> "awaiting_material"
                      [] Converts(d.kind) -> "material_processing"
                      [] OTHER -> "pending"
           mode == CASE d.kind = "photos" -> IF f = None THEN "deduction" ELSE "upgrade"
                     [] d.kind = "big_pdf" -> IF f = None THEN "pdf_compress" ELSE "upgrade_pdf_compress"
                     [] OTHER -> "none"
           status == CASE d.kind = "none" -> "pending_material"
                       [] Converts(d.kind) -> "material_processing"
                       [] OTHER -> IF f = None THEN "active" ELSE "pending_upgrade"
           material == CASE d.kind = "none" -> "missing"
                         [] Converts(d.kind) -> "processing"
                         [] OTHER -> "ready"
           second == [Blank EXCEPT
            !.status = status, !.material = material,
            !.role = IF f = None THEN "none" ELSE "source_second",
            !.state = IF f = None THEN "none" ELSE stage,
            !.request = IF f = None THEN None ELSE s,
            !.mode = mode, !.first = f]
<1>1. f \in Records \cup {None} /\ Fresh(s) /\ OthersWait
  BY UploadFields DEF FinishSick, Linked, OthersWait, Idle, Typed
<1>2. /\ second.status = status /\ second.mode = mode /\ second.first = f
      /\ f = None => second.role = "none" /\ second.request = None
      /\ f # None => second.role = "source_second" /\ second.request = s
  BY DEF Blank
<1>3. IF Converts(d.kind)
      THEN jobs' = Append(jobs, [rec |-> s, mode |-> mode, first |-> f])
      ELSE UNCHANGED jobs
  BY DEF FinishSick
<1>4. CASE f = None
  <2>1. rec' = [rec EXCEPT ![s] = second] /\ UNCHANGED request
    BY <1>4 DEF FinishSick
  <2>2. mode \in Modes \ UpgradeModes /\ (Converts(d.kind) => status = "material_processing")
    BY <1>4 DEF Modes, UpgradeModes, Converts
  <2> HIDE DEF second, mode, status, stage
  <2>3. rec'[s] = second /\ \A q \in Records \ {s} : rec'[q] = rec[q]
    BY <2>1 DEF Linked, Typed
  <2> QED
    BY <1>1, <1>2, <1>3, <1>4, <2>1, <2>2, <2>3, PlainRow
<1>5. CASE f # None
  <2>1. f \in Records /\ Unspent(f) /\ Unclaimed(s) /\ s # f /\ rec[f].first = None
    BY <1>1, <1>5, FreshUnclaimed, UnspentFree DEF FinishSick, Claimable, Unspent, Fresh
  <2>2. rec[f] \in Record
    BY <2>1 DEF Linked, Typed
  <2>3. /\ rec' = [rec EXCEPT ![s] = second, ![f].role = "source_first", ![f].state = stage, ![f].request = s]
        /\ request' = [request EXCEPT ![s] =
              [status |-> IF stage = "pending" THEN "pending" ELSE "awaiting_material", first |-> f]]
    BY <1>5 DEF FinishSick
  <2>4. \/ stage = "pending" /\ status = "pending_upgrade" /\ ~Converts(d.kind)
        \/ stage = "awaiting_material" /\ status = "pending_material" /\ ~Converts(d.kind)
        \/ stage = "material_processing" /\ status = "material_processing" /\ Converts(d.kind)
    BY <1>5 DEF Converts
  <2>5. Converts(d.kind) => mode \in UpgradeModes
    BY <1>5 DEF UpgradeModes, Converts
  <2> HIDE DEF second, mode, status, stage
  <2>6. /\ rec'[s] = second
        /\ rec'[f] = [rec[f] EXCEPT !.role = "source_first", !.state = stage, !.request = s]
        /\ \A q \in Records \ {f, s} : rec'[q] = rec[q]
    BY <2>1, <2>3 DEF Linked, Typed
  <2>7. /\ rec'[f].status = "active" /\ rec'[f].role = "source_first" /\ rec'[f].request = s
        /\ rec'[f].state = stage /\ rec'[f].first = None /\ rec'[f].mode = rec[f].mode
    BY <2>1, <2>2, <2>6 DEF Record, Unspent
  <2> DEFINE told == IF stage = "pending" THEN "pending" ELSE "awaiting_material"
  <2>8. told \in {"pending", "awaiting_material"} /\ request' = [request EXCEPT ![s] = [status |-> told, first |-> f]]
    BY <2>3
  <2>9. /\ told = "pending" => rec'[f].state = "pending" /\ rec'[s].status = "pending_upgrade"
        /\ told = "awaiting_material" => rec'[s].first = f /\ rec'[s].status \in {"pending_material", "material_processing"}
        /\ rec'[f].state \notin {"none", "eligible"}
        /\ Converts(d.kind) => told = "awaiting_material" /\ rec'[s].status = "material_processing"
    BY <1>2, <2>4, <2>6, <2>7
  <2>10. rec'[s].role = "source_second" /\ rec'[s].request = s /\ rec'[s].first = f /\ rec'[s].mode = mode
    BY <1>2, <1>5, <2>6
  <2> HIDE DEF told
  <2>11. \/ UNCHANGED jobs
         \/ /\ rec'[s].status = "material_processing" /\ told = "awaiting_material"
            /\ \E m \in UpgradeModes : rec'[s].mode = m /\ jobs' = Append(jobs, [rec |-> s, mode |-> m, first |-> f])
    BY <1>3, <2>5, <2>9, <2>10
  <2>12. rec'[s].mode \in UpgradeModes => rec'[s].first # None
    BY <1>5, <2>10
  <2> QED
    BY <1>1, <2>1, <2>6, <2>7, <2>8, <2>9, <2>10, <2>11, <2>12, RequestTakes
<1> QED
  BY <1>4, <1>5

LEMMA ApproveLinked ==
    ASSUME Linked, Typed', NEW s \in Records, NEW r \in Records, NEW l \in Levels, Approve(s, r, l)
    PROVE  Linked'
<1> DEFINE f == request[s].first
           result == [Blank EXCEPT !.status = "active", !.level = l, !.role = "result", !.state = "result"]
<1>1. /\ request[s].status = "pending" /\ Fresh(r) /\ f \in Records /\ f # s
      /\ Holds(s, f) /\ rec[f].state = "pending" /\ rec[s].status = "pending_upgrade"
      /\ rec[s].role = "source_second" /\ rec[s].request = s
  BY DEF Approve, Linked, Stories, StoryOf, Live
<1>2. r # s /\ r # f /\ rec[f] \in Record /\ rec[s] \in Record
  BY <1>1 DEF Fresh, Holds, Linked, Typed
<1>3. /\ rec'[f] = [rec[f] EXCEPT !.role = "source_first", !.state = "source_first"]
      /\ rec'[s] = [rec[s] EXCEPT !.status = "active", !.role = "source_second", !.state = "source_second"]
      /\ rec'[r] = result
      /\ \A q \in Records \ {f, s, r} : rec'[q] = rec[q]
  BY <1>1, <1>2 DEF Approve, Linked, Typed
<1>4. /\ request'[s].status = "approved" /\ request'[s].first = f
      /\ \A q \in Records \ {s} : request'[q] = request[q]
      /\ UNCHANGED <<jobs, up>>
  BY DEF Approve, Linked, Typed, Requests
<1> HIDE DEF f
<1>5. /\ rec'[f].status = "active" /\ rec'[f].role = "source_first" /\ rec'[f].request = s
      /\ rec'[f].state = "source_first" /\ rec'[f].first = rec[f].first /\ rec'[f].mode = rec[f].mode
  BY <1>1, <1>2, <1>3 DEF Record, Holds
<1>6. /\ rec'[s].status = "active" /\ rec'[s].role = "source_second" /\ rec'[s].request = s
      /\ rec'[s].state = "source_second" /\ rec'[s].first = rec[s].first /\ rec'[s].mode = rec[s].mode
  BY <1>1, <1>2, <1>3 DEF Record
<1>7. /\ rec'[r].status = "active" /\ rec'[r].role = "result" /\ rec'[r].request = None
      /\ rec'[r].first = None /\ rec'[r].mode = "none"
  BY <1>3 DEF Blank
<1>8. /\ Unclaimed(r) /\ request[r].status = "absent"
      /\ \A j \in Queue : j.rec # r /\ j.first # r
      /\ \A t \in Records : request[t].status \in Live => request[t].first # r
      /\ \A q \in Records : rec[q].request # r
  BY <1>1, FreshUnclaimed, Unreferred DEF Unclaimed
<1>9. /\ request[f].status = "absent"
      /\ \A t \in Records : request[t].status \in Live => request[t].first # s /\ (request[t].first = f => t = s)
      /\ rec[f].first = None
  <2>1. request[f].status = "absent"
    BY <1>1 DEF Linked, Stories, StoryOf, Holds
  <2>2. \A t \in Records : request[t].status \in Live => request[t].first # s
    BY <1>1 DEF Linked, Stories, StoryOf, Holds
  <2>3. \A t \in Records : request[t].status \in Live /\ request[t].first = f => t = s
    BY <1>1 DEF Linked, Stories, StoryOf, Holds
  <2>4. rec[f].first = None
    BY <1>1 DEF Linked, Columns, ColumnsOf, Holds
  <2> QED
    BY <2>1, <2>2, <2>3, <2>4
<1>10. Stories'
  <2> SUFFICES ASSUME NEW q \in Records PROVE StoryOf(q)'
    BY DEF Stories
  <2>1. StoryOf(q)
    BY DEF Linked, Stories
  <2>2. CASE q = s
    BY <1>1, <1>4, <1>5, <1>6, <2>2 DEF StoryOf, Holds
  <2>3. CASE q = f \/ q = r
    BY <1>1, <1>2, <1>4, <1>8, <1>9, <2>1, <2>3 DEF StoryOf, Live
  <2>4. CASE q \notin {s, f, r}
    <3>1. rec'[q] = rec[q] /\ request'[q] = request[q]
      BY <1>3, <1>4, <2>4
    <3>2. request[q].status \in Live => rec'[request[q].first] = rec[request[q].first]
      BY <1>3, <1>8, <1>9, <2>1, <2>4 DEF StoryOf, Live
    <3> QED
      BY <2>1, <3>1, <3>2 DEF StoryOf, Holds, Live
  <2> QED
    BY <2>2, <2>3, <2>4
<1>11. Columns'
  <2> SUFFICES ASSUME NEW q \in Records PROVE ColumnsOf(q)'
    BY DEF Columns
  <2>1. ColumnsOf(q)
    BY DEF Linked, Columns
  <2>2. CASE q = s
    BY <1>4, <1>6, <2>1, <2>2 DEF ColumnsOf, Failed, Unresolved
  <2>3. CASE q = f
    BY <1>4, <1>5, <1>9, <2>1, <2>3 DEF ColumnsOf, Failed, Unresolved, Live
  <2>4. CASE q = r
    BY <1>7, <2>4 DEF ColumnsOf, Failed, Unresolved, UpgradeModes
  <2>5. CASE q \notin {s, f, r}
    <3>1. rec'[q] = rec[q] /\ request'[q] = request[q] /\ rec[q].request \in Records \cup {None}
      BY <1>3, <1>4, <2>5, Fields DEF Linked
    <3>2. rec[q].request # s
      <4> SUFFICES ASSUME rec[q].request = s PROVE FALSE
        OBVIOUS
      <4>1. s # None
        BY FlowAssumption
      <4> QED
        BY <1>1, <2>1, <2>5, <4>1 DEF ColumnsOf, f
    <3>3. rec[q].request # None => request'[rec[q].request] = request[rec[q].request]
      BY <1>4, <3>1, <3>2
    <3> QED
      BY <2>1, <3>1, <3>3 DEF ColumnsOf
  <2> QED
    BY <2>2, <2>3, <2>4, <2>5
<1>12. ASSUME NEW j \in Queue PROVE JobOf(j)'
  <2>1. JobOf(j) /\ j.rec \in Records /\ j.first \in Records \cup {None}
    BY Queued DEF Linked, Jobs
  <2>2. j.rec \notin {s, f, r}
    BY <1>1, <1>8, <2>1 DEF JobOf, Holds
  <2>3. j.first \notin {s, f, r}
    <3>1. CASE j.first # None /\ request[j.rec].status = "awaiting_material"
      <4>1. request[j.rec].first = j.first
        BY <2>1, <3>1 DEF Linked, Stories, StoryOf, JobOf
      <4> QED
        BY <1>1, <1>8, <1>9, <2>1, <3>1, <4>1 DEF Live
    <3>2. CASE j.first # None /\ request[j.rec].status # "awaiting_material"
      BY <1>1, <1>8, <2>1, <3>2, FlowAssumption DEF JobOf, Taken, Holds
    <3>3. CASE j.first = None
      BY <1>1, <3>3, FlowAssumption
    <3> QED
      BY <3>1, <3>2, <3>3
  <2>4. /\ rec'[j.rec] = rec[j.rec] /\ request'[j.rec] = request[j.rec]
        /\ j.first # None => rec'[j.first] = rec[j.first]
        /\ Queue' = Queue
    BY <1>3, <1>4, <2>1, <2>2, <2>3 DEF Queue
  <2> QED
    BY <2>1, <2>4 DEF JobOf, Taken
<1>13. Jobs'
  BY <1>4, <1>12 DEF Linked, Jobs, Queue, OneJobEach
<1>14. Retries'
  <2>1. \A u \in Uploads : up[u].op = "retry" => up[u].rec \in Records \ {s, f, r}
    <3> SUFFICES ASSUME NEW u \in Uploads, up[u].op = "retry" PROVE up[u].rec \in Records \ {s, f, r}
      OBVIOUS
    <3>1. RetryOf(u) /\ up[u].rec \in Records
      BY UploadFields DEF Linked, Retries
    <3>2. up[u].rec # f /\ up[u].rec # s
      BY <1>1, <3>1 DEF RetryOf, Failed, Holds
    <3> QED
      BY <1>8, <3>1, <3>2 DEF Unclaimed
  <2> QED
    BY <1>3, <1>4, <2>1, RetriesWait DEF OthersWait
<1> QED
  BY <1>10, <1>11, <1>13, <1>14 DEF Linked

LEMMA RejectLinked ==
    ASSUME Linked, Typed', NEW s \in Records, Reject(s)
    PROVE  Linked'
<1> DEFINE f == request[s].first
<1>1. /\ request[s].status = "pending" /\ f \in Records /\ f # s
      /\ Holds(s, f) /\ rec[f].state = "pending" /\ rec[s].status = "pending_upgrade"
      /\ rec[s].role = "source_second" /\ rec[s].request = s
  BY DEF Reject, Linked, Stories, StoryOf, Live
<1>2. rec[f] \in Record /\ rec[s] \in Record
  BY <1>1 DEF Linked, Typed
<1>3. /\ rec'[f] = [rec[f] EXCEPT !.request = None, !.role = "none", !.state = "eligible"]
      /\ rec'[s] = [rec[s] EXCEPT !.status = "void", !.state = "rejected"]
      /\ \A q \in Records \ {f, s} : rec'[q] = rec[q]
  BY <1>1, <1>2 DEF Reject, Linked, Typed
<1>4. /\ request'[s].status = "rejected" /\ request'[s].first = f
      /\ \A q \in Records \ {s} : request'[q] = request[q]
      /\ UNCHANGED <<jobs, up>>
  BY DEF Reject, Linked, Typed, Requests
<1> HIDE DEF f
<1>5. /\ rec'[f].status = "active" /\ rec'[f].role = "none" /\ rec'[f].request = None
      /\ rec'[f].first = rec[f].first /\ rec'[f].mode = rec[f].mode
  BY <1>1, <1>2, <1>3 DEF Record, Holds
<1>6. /\ rec'[s].status = "void" /\ rec'[s].role = "source_second" /\ rec'[s].request = s
      /\ rec'[s].first = rec[s].first /\ rec'[s].mode = rec[s].mode
  BY <1>1, <1>2, <1>3 DEF Record
<1>7. s # None
  BY FlowAssumption
<1>9. /\ request[f].status = "absent"
      /\ \A t \in Records : request[t].status \in Live => request[t].first # s /\ (request[t].first = f => t = s)
      /\ rec[f].first = None
  <2>1. request[f].status = "absent"
    BY <1>1 DEF Linked, Stories, StoryOf, Holds
  <2>2. \A t \in Records : request[t].status \in Live => request[t].first # s
    BY <1>1 DEF Linked, Stories, StoryOf, Holds
  <2>3. \A t \in Records : request[t].status \in Live /\ request[t].first = f => t = s
    BY <1>1 DEF Linked, Stories, StoryOf, Holds
  <2>4. rec[f].first = None
    BY <1>1 DEF Linked, Columns, ColumnsOf, Holds
  <2> QED
    BY <2>1, <2>2, <2>3, <2>4
<1>10. Stories'
  <2> SUFFICES ASSUME NEW q \in Records PROVE StoryOf(q)'
    BY DEF Stories
  <2>1. StoryOf(q)
    BY DEF Linked, Stories
  <2>2. CASE q = s
    BY <1>1, <1>4, <1>6, <2>2 DEF StoryOf, Live
  <2>3. CASE q = f
    BY <1>1, <1>2, <1>4, <1>9, <2>1, <2>3 DEF StoryOf, Live
  <2>4. CASE q \notin {s, f}
    <3>1. rec'[q] = rec[q] /\ request'[q] = request[q]
      BY <1>3, <1>4, <2>4
    <3>2. request[q].status \in Live => rec'[request[q].first] = rec[request[q].first]
      BY <1>3, <1>9, <2>1, <2>4 DEF StoryOf, Live
    <3> QED
      BY <2>1, <3>1, <3>2 DEF StoryOf, Holds, Live
  <2> QED
    BY <2>2, <2>3, <2>4
<1>11. Columns'
  <2> SUFFICES ASSUME NEW q \in Records PROVE ColumnsOf(q)'
    BY DEF Columns
  <2>1. ColumnsOf(q)
    BY DEF Linked, Columns
  <2>2. CASE q = s
    BY <1>4, <1>6, <2>1, <2>2 DEF ColumnsOf, Failed, Unresolved
  <2>3. CASE q = f
    BY <1>4, <1>5, <1>9, <2>1, <2>3 DEF ColumnsOf, Failed, Unresolved, Live
  <2>5. CASE q \notin {s, f}
    <3>1. rec'[q] = rec[q] /\ request'[q] = request[q] /\ rec[q].request \in Records \cup {None}
      BY <1>3, <1>4, <2>5, Fields DEF Linked
    <3>2. rec[q].request # s
      <4> SUFFICES ASSUME rec[q].request = s PROVE FALSE
        OBVIOUS
      <4> QED
        BY <1>1, <1>7, <2>1, <2>5 DEF ColumnsOf, f
    <3>3. rec[q].request # None => request'[rec[q].request] = request[rec[q].request]
      BY <1>4, <3>1, <3>2
    <3> QED
      BY <2>1, <3>1, <3>3 DEF ColumnsOf
  <2> QED
    BY <2>2, <2>3, <2>5
<1>12. ASSUME NEW j \in Queue PROVE JobOf(j)'
  <2>1. JobOf(j) /\ j.rec \in Records /\ j.first \in Records \cup {None}
    BY Queued DEF Linked, Jobs
  <2>2. j.rec \notin {s, f}
    BY <1>1, <2>1 DEF JobOf, Holds
  <2>3. j.first \notin {s, f}
    <3>1. CASE j.first # None /\ request[j.rec].status = "awaiting_material"
      <4>1. request[j.rec].first = j.first
        BY <2>1, <3>1 DEF Linked, Stories, StoryOf, JobOf
      <4> QED
        BY <1>1, <1>9, <2>1, <3>1, <4>1 DEF Live
    <3>2. CASE j.first # None /\ request[j.rec].status # "awaiting_material"
      BY <1>1, <2>1, <3>2, FlowAssumption DEF JobOf, Taken, Holds
    <3>3. CASE j.first = None
      BY <1>1, <3>3, FlowAssumption
    <3> QED
      BY <3>1, <3>2, <3>3
  <2>4. /\ rec'[j.rec] = rec[j.rec] /\ request'[j.rec] = request[j.rec]
        /\ j.first # None => rec'[j.first] = rec[j.first]
        /\ Queue' = Queue
    BY <1>3, <1>4, <2>1, <2>2, <2>3 DEF Queue
  <2> QED
    BY <2>1, <2>4 DEF JobOf, Taken
<1>13. Jobs'
  BY <1>4, <1>12 DEF Linked, Jobs, Queue, OneJobEach
<1>14. Retries'
  <2>1. \A u \in Uploads : up[u].op = "retry" => up[u].rec \in Records \ {s, f}
    <3> SUFFICES ASSUME NEW u \in Uploads, up[u].op = "retry" PROVE up[u].rec \in Records \ {s, f}
      OBVIOUS
    <3>1. RetryOf(u) /\ up[u].rec \in Records
      BY UploadFields DEF Linked, Retries
    <3>2. up[u].rec # f /\ up[u].rec # s
      BY <1>1, <3>1 DEF RetryOf, Failed, Holds
    <3> QED
      BY <3>1, <3>2
  <2> QED
    BY <1>3, <1>4, <2>1, RetriesWait DEF OthersWait
<1> QED
  BY <1>10, <1>11, <1>13, <1>14 DEF Linked

LEMMA FinishRetryLinked ==
    ASSUME Linked, Typed', NEW u \in Uploads, FinishRetry(u), ~RetriesOverlap
    PROVE  Linked'
<1> SUFFICES ASSUME NEW r, NEW f, NEW kind, NEW clean,
                    up[u].rec = r, up[u].first = f, up[u].kind = kind, up[u].clean = clean
             PROVE  Linked'
  OBVIOUS
<1> DEFINE mode == RetryMode(kind, f # None)
           written == IF f = None THEN {} ELSE {r, f} \ clean
           row == [rec[r] EXCEPT !.status = "material_processing", !.material = "processing",
                                 !.mode = mode, !.first = f]
           new == [rec |-> r, mode |-> mode, first |-> f]
<1>1. r \in Records /\ f \in Records \cup {None} /\ up[u].op = "retry" /\ RetryOf(u)
  BY UploadFields DEF FinishRetry, Linked, Retries
<1>2. /\ mode \in Modes /\ (mode \in UpgradeModes <=> f # None)
  BY DEF RetryMode, Modes, UpgradeModes
<1>3. /\ rec' = [q \in Records |->
                  [(IF q = r THEN row ELSE rec[q]) EXCEPT
                      !.state = IF q \in written THEN "material_processing" ELSE @]]
      /\ jobs' = Append(jobs, new) /\ up' = [up EXCEPT ![u] = Idle] /\ UNCHANGED request
  BY DEF FinishRetry
<1> HIDE DEF mode
<1>4. /\ row \in Record
      /\ row.status = "material_processing" /\ row.mode = mode /\ row.first = f
      /\ row.request = rec[r].request /\ row.role = rec[r].role
  <2>1. rec[r] \in Record
    BY <1>1 DEF Linked, Typed
  <2>2. row \in Record
    <3>1. mode \in Modes /\ f \in Records \cup {None}
      BY <1>1, <1>2
    <3> QED
      BY <2>1, <3>1 DEF Record, Statuses
  <2>3. /\ row.status = "material_processing" /\ row.mode = mode /\ row.first = f
        /\ row.request = rec[r].request /\ row.role = rec[r].role
    BY <2>1 DEF Record
  <2> QED
    BY <2>2, <2>3
<1>5. new \in Job /\ new.rec = r /\ new.first = f /\ new.mode = mode
  BY <1>1, <1>2 DEF Job
<1> HIDE DEF row, new
<1>6. /\ rec'[r].status = "material_processing" /\ rec'[r].mode = mode /\ rec'[r].first = f
      /\ rec'[r].request = rec[r].request /\ rec'[r].role = rec[r].role
  BY <1>1, <1>3, <1>4 DEF Record
<1>20. UNCHANGED request
  BY <1>3
<1>7. \A w \in Uploads : up'[w].op = "retry" => up'[w] = up[w] /\ w # u /\ up[w].op = "retry" /\ up[w].rec # r
  BY <1>1, <1>3 DEF RetriesOverlap, Linked, Typed, Idle
<1>8. ASSUME NEW q \in Records \ {r}
      PROVE  /\ rec'[q].status = rec[q].status /\ rec'[q].mode = rec[q].mode /\ rec'[q].first = rec[q].first
             /\ rec'[q].request = rec[q].request /\ rec'[q].role = rec[q].role /\ rec'[q].from = rec[q].from
             /\ rec'[q].state = IF q = f /\ q \notin clean THEN "material_processing" ELSE rec[q].state
  <2>1. rec[q] \in Record
    BY DEF Linked, Typed
  <2>2. rec'[q] = [rec[q] EXCEPT !.state = IF q \in written THEN "material_processing" ELSE @]
    BY <1>3
  <2>3. q \in written <=> q = f /\ q \notin clean
    BY <1>1, FlowAssumption
  <2> HIDE DEF written
  <2>4. /\ rec'[q].status = rec[q].status /\ rec'[q].mode = rec[q].mode /\ rec'[q].first = rec[q].first
        /\ rec'[q].request = rec[q].request /\ rec'[q].role = rec[q].role /\ rec'[q].from = rec[q].from
        /\ rec'[q].state = IF q \in written THEN "material_processing" ELSE rec[q].state
    BY <2>1, <2>2 DEF Record
  <2> QED
    BY <2>3, <2>4
<1> HIDE DEF written
<1>9. rec[r].status \notin {"active", "material_processing"} /\ rec[r].role # "source_first"
  BY <1>1 DEF RetryOf, Failed, Linked, Stories, StoryOf
<1>10. /\ \A j \in Queue : j.rec # r /\ JobOf(j) /\ j.rec \in Records /\ j.first \in Records \cup {None}
       /\ Queue' = Queue \cup {new} /\ OneJobEach'
  <2>1. \A j \in Queue : j.rec # r /\ JobOf(j) /\ j.rec \in Records /\ j.first \in Records \cup {None}
    BY <1>9, Queued DEF Linked, Jobs, JobOf
  <2> QED
    BY <1>3, <1>5, <2>1, QueueGrows DEF Linked, Jobs
<1>11. \A t \in Records : request[t].status \in Live => request[t].first # r
  BY <1>9 DEF Linked, Stories, StoryOf, Holds
<1>12. ASSUME NEW w \in Uploads PROVE RetryOf(w)'
  <2>1. CASE up'[w].op # "retry"
    BY <2>1 DEF RetryOf
  <2>2. CASE up'[w].op = "retry"
    <3>1. up'[w] = up[w] /\ up[w].op = "retry" /\ up[w].rec \in Records \ {r} /\ RetryOf(w)
      BY <1>7, <2>2, UploadFields DEF Linked, Retries
    <3>2. /\ rec'[up[w].rec].status = rec[up[w].rec].status /\ rec'[up[w].rec].first = rec[up[w].rec].first
          /\ rec'[up[w].rec].request = rec[up[w].rec].request /\ rec'[up[w].rec].role = rec[up[w].rec].role
          /\ rec'[up[w].rec].from = rec[up[w].rec].from
      BY <1>8, <3>1
    <3> QED
      BY <1>3, <3>1, <3>2 DEF RetryOf
  <2> QED
    BY <2>1, <2>2
<1>13. CASE f = None
  <2>1. rec[r].first = None /\ rec[r].role = "none" /\ rec[r].request = None
    BY <1>1, <1>13 DEF RetryOf
  <2>2. request[r].status = "absent" /\ (\A q \in Records : rec[q].request # r)
        /\ (\A j \in Queue : j.first # r)
    <3>1. request[r].status = "absent"
      BY <1>1, <2>1, Fields DEF Linked, Stories, StoryOf
    <3> QED
      BY <1>1, <1>9, <3>1, Unreferred
  <2>3. ASSUME NEW q \in Records \ {r} PROVE rec'[q].state = rec[q].state
    BY <1>8, <1>13, FlowAssumption
  <2>4. Stories'
    <3> SUFFICES ASSUME NEW q \in Records PROVE StoryOf(q)'
      BY DEF Stories
    <3>1. StoryOf(q)
      BY DEF Linked, Stories
    <3>2. CASE q = r
      BY <1>3, <2>2, <3>1, <3>2 DEF StoryOf, Live
    <3>3. CASE q # r
      <4>1. request[q].status \in Live => request[q].first \in Records \ {r}
        BY <1>11, <3>1 DEF StoryOf, Live
      <4>2. /\ rec'[q].status = rec[q].status /\ rec'[q].first = rec[q].first /\ rec'[q].role = rec[q].role
            /\ rec'[q].request = rec[q].request /\ rec'[q].state = rec[q].state
        BY <1>8, <2>3, <3>3
      <4>3. request[q].status \in Live => Holds(q, request[q].first)' /\
               rec'[request[q].first].state = rec[request[q].first].state
        BY <1>8, <1>20, <2>3, <3>1, <4>1 DEF StoryOf, Holds
      <4> QED
        BY <1>20, <3>1, <4>2, <4>3 DEF StoryOf, Live
    <3> QED
      BY <3>2, <3>3
  <2>5. Columns'
    <3> SUFFICES ASSUME NEW q \in Records PROVE ColumnsOf(q)'
      BY DEF Columns
    <3>1. ColumnsOf(q)
      BY DEF Linked, Columns
    <3>2. CASE q = r
      BY <1>2, <1>6, <1>13, <2>1, <3>2 DEF ColumnsOf, Failed
    <3>3. CASE q # r
      BY <1>8, <1>20, <3>1, <3>3 DEF ColumnsOf
    <3> QED
      BY <3>2, <3>3
  <2>6. JobOf(new)'
    BY <1>2, <1>5, <1>6, <1>13 DEF JobOf
  <2>7. ASSUME NEW j \in Queue PROVE JobOf(j)'
    <3>1. JobOf(j) /\ j.rec \in Records \ {r} /\ j.first \in (Records \ {r}) \cup {None}
      BY <1>10, <2>2
    <3>2. /\ rec'[j.rec].status = rec[j.rec].status /\ rec'[j.rec].first = rec[j.rec].first
          /\ rec'[j.rec].mode = rec[j.rec].mode
          /\ j.first # None => (Taken(j.first) => Taken(j.first)' /\ rec'[j.first].state = rec[j.first].state)
      BY <1>8, <2>3, <3>1 DEF Taken
    <3> QED
      BY <1>3, <1>5, <1>10, <1>13, <3>1, <3>2 DEF JobOf
  <2> QED
    <3>1. Jobs'
      BY <1>10, <2>6, <2>7 DEF Jobs
    <3>2. Retries'
      BY <1>12 DEF Retries
    <3> QED
      BY <2>4, <2>5, <3>1, <3>2 DEF Linked
<1>14. CASE f # None
  <2>1. /\ f \in Records /\ f # r /\ rec[r].role = "source_second" /\ rec[r].request = r /\ Holds(r, f)
        /\ rec[r].first = f /\ request[r].status = "awaiting_material" /\ request[r].first = f
    BY <1>1, <1>14 DEF RetryOf, Linked, Stories, StoryOf, Live
  <2>2. rec'[f].state \notin {"none", "eligible"}
    BY <1>8, <2>1 DEF Holds
  <2>3. /\ request[f].status = "absent"
        /\ \A t \in Records : request[t].status \in Live /\ request[t].first = f => t = r
    BY <2>1, Fields DEF Linked, Stories, StoryOf, Holds
  <2>4. Stories'
    <3> SUFFICES ASSUME NEW q \in Records PROVE StoryOf(q)'
      BY DEF Stories
    <3>1. StoryOf(q)
      BY DEF Linked, Stories
    <3>2. CASE q = r
      BY <1>3, <1>6, <1>8, <2>1, <2>2, <3>2 DEF StoryOf, Holds, Live, Unresolved
    <3>3. CASE q = f
      BY <1>3, <2>3, <3>1, <3>3 DEF StoryOf, Live
    <3>4. CASE q \notin {r, f}
      <4>1. request[q].status \in Live => request[q].first \in Records \ {r, f}
        BY <1>11, <2>3, <3>1, <3>4 DEF StoryOf, Live
      <4>2. /\ rec'[q].status = rec[q].status /\ rec'[q].first = rec[q].first /\ rec'[q].role = rec[q].role
            /\ rec'[q].request = rec[q].request /\ rec'[q].state = rec[q].state
        BY <1>8, <3>4
      <4>3. request[q].status \in Live => Holds(q, request[q].first)' /\
               rec'[request[q].first].state = rec[request[q].first].state
        BY <1>8, <1>20, <3>1, <4>1 DEF StoryOf, Holds
      <4> QED
        BY <1>20, <3>1, <4>2, <4>3 DEF StoryOf, Live
    <3> QED
      BY <3>2, <3>3, <3>4
  <2>5. Columns'
    <3> SUFFICES ASSUME NEW q \in Records PROVE ColumnsOf(q)'
      BY DEF Columns
    <3>1. ColumnsOf(q)
      BY DEF Linked, Columns
    <3>2. CASE q = r
      BY <1>3, <1>6, <1>14, <2>1, <3>2 DEF ColumnsOf, Failed
    <3>3. CASE q # r
      BY <1>8, <1>20, <3>1, <3>3 DEF ColumnsOf
    <3> QED
      BY <3>2, <3>3
  <2>6. JobOf(new)'
    BY <1>2, <1>3, <1>5, <1>6, <1>14, <2>1 DEF JobOf
  <2>7. ASSUME NEW j \in Queue PROVE JobOf(j)'
    <3>1. JobOf(j) /\ j.rec \in Records \ {r} /\ j.first \in Records \cup {None}
      BY <1>10
    <3>2. CASE j.first # None /\ request[j.rec].status # "awaiting_material"
      <4>1. j.first \in Records \ {r, f} /\ Taken(j.first)
        <5>1. Taken(j.first) /\ j.first \in Records
          BY <3>1, <3>2 DEF JobOf
        <5>2. rec[j.first].status = "active" /\ rec[j.first].request = None /\ r # None
          BY <1>1, <5>1, FlowAssumption DEF Taken
        <5> QED
          BY <1>9, <2>1, <5>1, <5>2 DEF Holds
      <4> QED
        BY <1>3, <1>5, <1>8, <1>10, <3>1, <3>2, <4>1 DEF JobOf, Taken
    <3>3. CASE ~(j.first # None /\ request[j.rec].status # "awaiting_material")
      BY <1>3, <1>8, <3>1, <3>3 DEF JobOf
    <3> QED
      BY <3>2, <3>3
  <2> QED
    <3>1. Jobs'
      BY <1>10, <2>6, <2>7 DEF Jobs
    <3>2. Retries'
      BY <1>12 DEF Retries
    <3> QED
      BY <2>4, <2>5, <3>1, <3>2 DEF Linked
<1> QED
  BY <1>13, <1>14

-----------------------------------------------------------------------------
(* What the worker's results find. *)

\* The two statements of an upgrade in conversion are nobody else's.
LEMMA UpgradeJob ==
    ASSUME Linked, NEW j \in Queue, j.mode \in UpgradeModes, NEW r, NEW f, j.rec = r, j.first = f
    PROVE  /\ r \in Records /\ f \in Records /\ f # r /\ f # None /\ r # None
           /\ rec[r].status = "material_processing" /\ rec[r].role = "source_second"
           /\ rec[r].first = f /\ rec[r].mode \in UpgradeModes
           /\ rec[f].status = "active" /\ rec[f].role = "source_first" /\ rec[f].first = None
           /\ rec[f].state \notin {"none", "eligible"}
           /\ request[f].status = "absent"
           /\ \/ request[r].status = "awaiting_material" /\ request[r].first = f /\ rec[f].request = r /\ rec[r].request = r
              \/ request[r].status = "absent" /\ rec[f].request = None /\ rec[r].request = None
           /\ \A t \in Records \ {r} : request[t].status \in Live => request[t].first \notin {r, f}
           /\ \A q \in Records \ {r, f} : rec[q].request # r
           /\ \A k \in Queue \ {j} : k.rec \notin {r, f} /\ k.first \notin {r, f}
           /\ \A u \in Uploads : up[u].op = "retry" => up[u].rec \notin {r, f}
<1>1. JobOf(j) /\ r \in Records /\ f \in Records \cup {None}
  BY Queued DEF Linked, Jobs
<1>2. f # None /\ f \in Records /\ r # None
  BY <1>1, FlowAssumption DEF JobOf
<1>3. /\ rec[r].status = "material_processing" /\ rec[r].role = "source_second" /\ f # r
      /\ rec[r].first = f /\ rec[r].mode \in UpgradeModes
  BY <1>1, <1>2 DEF JobOf, Linked, Columns, ColumnsOf
<1>4. request[r].status \in {"absent", "awaiting_material"}
  BY <1>1, <1>3, Fields DEF Linked, Stories, StoryOf
<1>5. \A t \in Records : request[t].status \in Live => request[t].first # r
  BY <1>3 DEF Linked, Stories, StoryOf, Holds
<1>6. CASE request[r].status = "awaiting_material"
  <2>1. request[r].first = f /\ Holds(r, f) /\ rec[r].request = r
    BY <1>1, <1>3, <1>6 DEF Linked, Stories, StoryOf, Live
  <2>2. request[f].status = "absent" /\ rec[f].first = None
    BY <1>2, <2>1, Fields DEF Linked, Stories, StoryOf, Columns, ColumnsOf, Holds
  <2>3. \A t \in Records \ {r} : request[t].status \in Live => request[t].first # f
    BY <1>1, <2>1 DEF Linked, Stories, StoryOf, Holds
  <2>4. \A q \in Records \ {r, f} : rec[q].request # r
    BY <1>2, <2>1 DEF Linked, Columns, ColumnsOf
  <2>5. ASSUME NEW k \in Queue \ {j} PROVE k.rec \notin {r, f} /\ k.first \notin {r, f}
    <3>1. JobOf(k) /\ k.rec \in Records /\ k.first \in Records \cup {None}
      BY Queued DEF Linked, Jobs
    <3>2. k.rec # r /\ k.rec # f
      BY <2>1, <3>1, OneJob DEF Linked, Jobs, JobOf, Holds
    <3>3. CASE k.first # None /\ request[k.rec].status = "awaiting_material"
      <4>1. request[k.rec].first = k.first
        BY <3>1, <3>3 DEF Linked, Stories, StoryOf, JobOf
      <4> QED
        BY <1>5, <2>3, <3>1, <3>2, <3>3, <4>1 DEF Live
    <3>4. CASE k.first # None /\ request[k.rec].status # "awaiting_material"
      BY <1>2, <1>3, <2>1, <3>1, <3>2, <3>4 DEF JobOf, Taken, Holds
    <3>5. CASE k.first = None
      BY <1>2, <3>2, <3>5
    <3> QED
      BY <3>3, <3>4, <3>5
  <2>6. \A u \in Uploads : up[u].op = "retry" => up[u].rec \notin {r, f}
    BY <1>3, <2>1 DEF Linked, Retries, RetryOf, Failed, Holds
  <2> QED
    BY <1>1, <1>2, <1>3, <1>5, <1>6, <2>1, <2>2, <2>3, <2>4, <2>5, <2>6 DEF Holds
<1>7. CASE request[r].status = "absent"
  <2>1. Taken(f) /\ \A k \in Queue : k.first = f => k = j
    BY <1>1, <1>2, <1>7 DEF JobOf
  <2>2. request[f].status = "absent" /\ rec[f].first = None
    BY <1>2, <2>1, Fields DEF Linked, Stories, StoryOf, Columns, ColumnsOf, Taken
  <2>3. \A t \in Records : request[t].status \in Live => request[t].first # f
    BY <2>1, FlowAssumption DEF Linked, Stories, StoryOf, Holds, Taken
  <2>4. \A q \in Records : rec[q].request # r
    BY <1>2, <1>7 DEF Linked, Columns, ColumnsOf, Live
  <2>5. rec[r].request = None
    <3>1. rec[r].request # None => request[rec[r].request].first = r /\ request[rec[r].request].status \in Live
      BY <1>1, <1>7 DEF Linked, Columns, ColumnsOf
    <3> QED
      BY <1>1, <1>5, <3>1, Fields DEF Linked
  <2>6. ASSUME NEW k \in Queue \ {j} PROVE k.rec \notin {r, f} /\ k.first \notin {r, f}
    <3>1. JobOf(k) /\ k.rec \in Records /\ k.first \in Records \cup {None}
      BY Queued DEF Linked, Jobs
    <3>2. k.rec # r /\ k.rec # f
      BY <2>1, <3>1, OneJob DEF Linked, Jobs, JobOf, Taken
    <3>3. CASE k.first # None /\ request[k.rec].status = "awaiting_material"
      <4>1. request[k.rec].first = k.first
        BY <3>1, <3>3 DEF Linked, Stories, StoryOf, JobOf
      <4> QED
        BY <1>5, <2>3, <3>1, <3>2, <3>3, <4>1 DEF Live
    <3>4. CASE k.first # None /\ request[k.rec].status # "awaiting_material"
      BY <1>3, <2>1, <3>1, <3>2, <3>4 DEF JobOf, Taken
    <3>5. CASE k.first = None
      BY <1>2, <3>2, <3>5
    <3> QED
      BY <3>3, <3>4, <3>5
  <2>7. \A u \in Uploads : up[u].op = "retry" => up[u].rec \notin {r, f}
    BY <1>3, <2>1 DEF Linked, Retries, RetryOf, Failed, Taken
  <2> QED
    BY <1>1, <1>2, <1>3, <1>5, <1>7, <2>1, <2>2, <2>3, <2>4, <2>5, <2>6, <2>7 DEF Taken
<1> QED
  BY <1>4, <1>6, <1>7

\* The result of a declaration that no upgrade is about, good or bad.
LEMMA PlainResult ==
    ASSUME Linked, Typed', NEW i \in 1 .. Len(jobs), jobs[i].mode \notin UpgradeModes,
           NEW r, jobs[i].rec = r,
           \A q \in Records \ {r} : rec'[q] = rec[q],
           /\ rec'[r].request = rec[r].request /\ rec'[r].first = rec[r].first
           /\ rec'[r].mode = rec[r].mode /\ rec'[r].role = rec[r].role,
           rec'[r].status \in {"active", "material_failed"},
           jobs' = Drop(jobs, i), UNCHANGED <<request, up>>
    PROVE  Linked'
<1>1. jobs[i] \in Queue
  BY Queued DEF Linked
<1>2. /\ r \in Records /\ rec[r].status = "material_processing" /\ rec[r].first = None
      /\ rec[r].mode \notin UpgradeModes
  BY <1>1, Queued DEF Linked, Jobs, JobOf
<1>3. rec[r].role = "none" /\ rec[r].request = None
  BY <1>2 DEF Linked, Columns, ColumnsOf, Unresolved
<1>4. /\ request[r].status = "absent"
      /\ \A t \in Records : request[t].status \in Live => request[t].first # r
  BY <1>2, <1>3, Fields DEF Linked, Stories, StoryOf, Holds
<1>5. Queue' = Queue \ {jobs[i]} /\ OneJobEach'
  BY QueueShrinks DEF Linked, Jobs
<1>6. Stories'
  <2> SUFFICES ASSUME NEW q \in Records PROVE StoryOf(q)'
    BY DEF Stories
  <2>1. StoryOf(q)
    BY DEF Linked, Stories
  <2>2. CASE q = r
    BY <1>4, <2>1, <2>2 DEF StoryOf, Live
  <2>3. CASE q # r
    <3>1. rec'[q] = rec[q] /\ request'[q] = request[q]
      BY <2>3
    <3>2. request[q].status \in Live => rec'[request[q].first] = rec[request[q].first]
      BY <1>4, <2>1 DEF StoryOf, Live
    <3> QED
      BY <2>1, <3>1, <3>2 DEF StoryOf, Holds, Live
  <2> QED
    BY <2>2, <2>3
<1>7. Columns'
  BY <1>2, <1>3 DEF Linked, Columns, ColumnsOf, Failed, Unresolved
<1>8. ASSUME NEW k \in Queue, k # jobs[i] PROVE JobOf(k)'
  <2>1. JobOf(k) /\ k.rec \in Records /\ k.first \in Records \cup {None}
    BY Queued DEF Linked, Jobs
  <2>2. k.rec # r
    BY <1>1, <1>8, OneJob DEF Linked, Jobs
  <2>3. k.first # None => k.first \in Records \ {r}
    <3>1. CASE k.first # None /\ request[k.rec].status = "awaiting_material"
      <4>1. request[k.rec].first = k.first
        BY <2>1, <3>1 DEF Linked, Stories, StoryOf, JobOf
      <4> QED
        BY <1>4, <2>1, <3>1, <4>1 DEF Live
    <3>2. CASE k.first # None /\ request[k.rec].status # "awaiting_material"
      BY <1>2, <2>1, <3>2 DEF JobOf, Taken
    <3> QED
      BY <3>1, <3>2
  <2> QED
    BY <1>5, <2>1, <2>2, <2>3 DEF JobOf, Taken
<1>9. Jobs'
  BY <1>5, <1>8 DEF Jobs
<1>10. Retries'
  <2>1. \A u \in Uploads : up[u].op = "retry" => up[u].rec \in Records \ {r}
    BY <1>2, UploadFields DEF Linked, Retries, RetryOf, Failed
  <2> QED
    BY <2>1, RetriesWait DEF OthersWait
<1> QED
  BY <1>6, <1>7, <1>9, <1>10 DEF Linked

\* The result of the material of an upgrade: its rows change and no others.
LEMMA UpgradeResult ==
    ASSUME Linked, Typed', NEW i \in 1 .. Len(jobs), jobs[i].mode \in UpgradeModes,
           NEW r, NEW f, jobs[i].rec = r, jobs[i].first = f,
           \A q \in Records \ {r, f} : rec'[q] = rec[q],
           \A q \in Records \ {r} : request'[q] = request[q],
           jobs' = Drop(jobs, i), UNCHANGED up,
           StoryOf(r)', ColumnsOf(r)', ColumnsOf(f)'
    PROVE  Linked'
<1>0. jobs[i] \in Queue
  BY Queued DEF Linked
<1>1. /\ r \in Records /\ f \in Records /\ f # r
      /\ request[f].status = "absent"
      /\ \A t \in Records \ {r} : request[t].status \in Live => request[t].first \notin {r, f}
      /\ \A q \in Records \ {r, f} : rec[q].request # r
      /\ \A k \in Queue \ {jobs[i]} : k.rec \notin {r, f} /\ k.first \notin {r, f}
      /\ \A u \in Uploads : up[u].op = "retry" => up[u].rec \notin {r, f}
  BY <1>0, UpgradeJob
<1>2. Queue' = Queue \ {jobs[i]} /\ OneJobEach'
  BY QueueShrinks DEF Linked, Jobs
<1>3. Stories'
  <2> SUFFICES ASSUME NEW q \in Records, q # r PROVE StoryOf(q)'
    BY DEF Stories
  <2>1. StoryOf(q) /\ request'[q] = request[q]
    BY DEF Linked, Stories
  <2>2. CASE q = f
    BY <1>1, <2>1, <2>2 DEF StoryOf, Live
  <2>3. CASE q # f
    <3>1. rec'[q] = rec[q]
      BY <2>3
    <3>2. request[q].status \in Live => rec'[request[q].first] = rec[request[q].first]
      BY <1>1, <2>1 DEF StoryOf, Live
    <3> QED
      BY <2>1, <3>1, <3>2 DEF StoryOf, Holds, Live
  <2> QED
    BY <2>2, <2>3
<1>4. Columns'
  <2> SUFFICES ASSUME NEW q \in Records, q # r, q # f PROVE ColumnsOf(q)'
    BY DEF Columns
  <2>1. ColumnsOf(q) /\ rec'[q] = rec[q] /\ request'[q] = request[q] /\ rec[q].request \in Records \cup {None}
    BY Fields DEF Linked, Columns
  <2>2. rec[q].request # None => request'[rec[q].request] = request[rec[q].request]
    BY <1>1, <2>1
  <2> QED
    BY <2>1, <2>2 DEF ColumnsOf
<1>5. ASSUME NEW k \in Queue, k # jobs[i] PROVE JobOf(k)'
  <2>1. JobOf(k) /\ k.rec \in Records \ {r, f} /\ k.first \in (Records \ {r, f}) \cup {None}
    BY <1>1, <1>5, Queued DEF Linked, Jobs
  <2> QED
    BY <1>2, <2>1 DEF JobOf, Taken
<1>6. Jobs'
  BY <1>2, <1>5 DEF Jobs
<1>7. Retries'
  <2>1. \A u \in Uploads : up[u].op = "retry" => up[u].rec \in Records \ {r, f}
    BY <1>1, UploadFields DEF Linked
  <2> QED
    BY <2>1, RetriesWait DEF OthersWait
<1> QED
  BY <1>3, <1>4, <1>6, <1>7 DEF Linked

LEMMA JobSucceedsLinked ==
    ASSUME Linked, Typed', NEW i \in 1 .. Len(jobs), JobSucceeds(i)
    PROVE  Linked'
<1> SUFFICES ASSUME NEW r, NEW f, jobs[i].rec = r, jobs[i].first = f
             PROVE  Linked'
  OBVIOUS
<1>1. jobs[i] \in Queue /\ r \in Records /\ rec[r] \in Record
  BY Queued, JobTyped, Fields DEF Linked
<1>2. CASE jobs[i].mode \in UpgradeModes
  <2>1. /\ f \in Records /\ f # r /\ rec[f] \in Record /\ rec[r].first = f
        /\ rec[f].status = "active" /\ rec[f].first = None /\ f # None /\ r # None
    BY <1>1, <1>2, UpgradeJob, Fields DEF Linked
  <2>2. /\ rec'[f] = [rec[f] EXCEPT !.request = r, !.role = "source_first", !.state = "pending"]
        /\ rec'[r] = [rec[r] EXCEPT !.request = r, !.role = "source_second", !.state = "pending",
                         !.status = "pending_upgrade", !.material = "ready"]
        /\ \A q \in Records \ {r, f} : rec'[q] = rec[q]
    <3> DEFINE one == [rec EXCEPT ![f].request = r, ![f].role = "source_first", ![f].state = "pending"]
    <3>1. rec' = [one EXCEPT ![r].request = r, ![r].role = "source_second", ![r].state = "pending",
                             ![r].status = "pending_upgrade", ![r].material = "ready"]
      BY <1>2 DEF JobSucceeds
    <3>2. /\ one[f] = [rec[f] EXCEPT !.request = r, !.role = "source_first", !.state = "pending"]
          /\ one[r] = rec[r]
          /\ \A q \in Records \ {r, f} : one[q] = rec[q]
      BY <1>1, <2>1 DEF Linked, Typed
    <3>3. DOMAIN one = Records
      BY DEF Linked, Typed
    <3> HIDE DEF one
    <3>4. rec'[r] = [one[r] EXCEPT !.request = r, !.role = "source_second", !.state = "pending",
                         !.status = "pending_upgrade", !.material = "ready"]
          /\ \A q \in Records \ {r} : rec'[q] = one[q]
      BY <1>1, <3>1, <3>3
    <3> QED
      BY <1>1, <2>1, <3>2, <3>4
  <2>3. /\ request'[r].status = "pending" /\ request'[r].first = f
        /\ \A q \in Records \ {r} : request'[q] = request[q]
        /\ jobs' = Drop(jobs, i) /\ UNCHANGED up
    BY <1>1, <1>2 DEF JobSucceeds, Linked, Typed
  <2>4. /\ rec'[f].status = "active" /\ rec'[f].role = "source_first" /\ rec'[f].request = r
        /\ rec'[f].state = "pending" /\ rec'[f].first = None /\ rec'[f].mode = rec[f].mode
    BY <2>1, <2>2 DEF Record
  <2>5. /\ rec'[r].status = "pending_upgrade" /\ rec'[r].role = "source_second" /\ rec'[r].request = r
        /\ rec'[r].first = f
    BY <1>1, <2>1, <2>2 DEF Record
  <2>6. StoryOf(r)'
    BY <2>1, <2>3, <2>4, <2>5 DEF StoryOf, Holds
  <2>7. ColumnsOf(r)'
    BY <2>1, <2>3, <2>5 DEF ColumnsOf, Failed, Unresolved
  <2>8. ColumnsOf(f)'
    <3>1. rec[f].mode \notin UpgradeModes
      BY <2>1 DEF Linked, Columns, ColumnsOf
    <3> QED
      BY <2>1, <2>3, <2>4, <3>1 DEF ColumnsOf, Failed, Unresolved, Live
  <2> QED
    BY <1>2, <2>2, <2>3, <2>6, <2>7, <2>8, UpgradeResult
<1>3. CASE jobs[i].mode \notin UpgradeModes
  <2>1. /\ rec'[r] = [rec[r] EXCEPT !.status = "active", !.material = "ready"]
        /\ \A q \in Records \ {r} : rec'[q] = rec[q]
        /\ jobs' = Drop(jobs, i) /\ UNCHANGED <<request, up>>
    BY <1>1, <1>3 DEF JobSucceeds, Linked, Typed
  <2>2. /\ rec'[r].request = rec[r].request /\ rec'[r].first = rec[r].first
        /\ rec'[r].mode = rec[r].mode /\ rec'[r].role = rec[r].role /\ rec'[r].status = "active"
    BY <1>1, <2>1 DEF Record
  <2> QED
    BY <1>3, <2>1, <2>2, PlainResult
<1> QED
  BY <1>2, <1>3

LEMMA FailLinked ==
    ASSUME Linked, Typed', NEW i \in 1 .. Len(jobs), Fail(i)
    PROVE  Linked'
<1> SUFFICES ASSUME NEW r, NEW f, NEW mode, jobs[i].rec = r, jobs[i].first = f, jobs[i].mode = mode
             PROVE  Linked'
  OBVIOUS
<1>1. jobs[i] \in Queue /\ r \in Records /\ rec[r] \in Record
  BY Queued, JobTyped, Fields DEF Linked
<1> DEFINE row == [rec[r] EXCEPT !.status = "material_failed", !.material = "failed",
                     !.state = IF mode = "upgrade" THEN "material_failed" ELSE @]
           failed == [rec EXCEPT ![r].status = "material_failed", ![r].material = "failed",
                     ![r].state = IF mode = "upgrade" THEN "material_failed" ELSE @]
<1>2. /\ rec' = IF Frees(jobs[i]) THEN [failed EXCEPT ![f].role = "none", ![f].state = "eligible"] ELSE failed
      /\ jobs' = Drop(jobs, i) /\ UNCHANGED <<request, up>>
  BY DEF Fail
<1>3. failed[r] = row /\ \A q \in Records \ {r} : failed[q] = rec[q]
  BY <1>1 DEF Linked, Typed
<1>4. failed \in [Records -> {failed[q] : q \in Records}]
  BY DEF Linked, Typed
<1> HIDE DEF failed
<1>5. row.status = "material_failed" /\ row.request = rec[r].request /\ row.first = rec[r].first
      /\ row.mode = rec[r].mode /\ row.role = rec[r].role
  BY <1>1 DEF Record
<1> HIDE DEF row
<1>6. CASE mode \in UpgradeModes
  <2>1. /\ f \in Records /\ f # r /\ f # None /\ r # None
        /\ rec[r].role = "source_second" /\ rec[r].first = f /\ rec[r].mode \in UpgradeModes
        /\ rec[f].status = "active" /\ rec[f].role = "source_first" /\ rec[f].first = None
        /\ rec[f].state \notin {"none", "eligible"}
        /\ \/ request[r].status = "awaiting_material" /\ request[r].first = f /\ rec[f].request = r /\ rec[r].request = r
           \/ request[r].status = "absent" /\ rec[f].request = None /\ rec[r].request = None
    BY <1>1, <1>6, UpgradeJob
  <2>2. rec[f] \in Record /\ StoryOf(r) /\ ColumnsOf(r) /\ ColumnsOf(f)
    BY <1>1, <2>1 DEF Linked, Typed, Stories, Columns
  <2>3. rec'[r] = row /\ \A q \in Records \ {r, f} : rec'[q] = rec[q]
    BY <1>1, <1>2, <1>3, <1>4, <2>1
  <2>4. CASE Frees(jobs[i])
    <3>1. rec'[f] = [rec[f] EXCEPT !.role = "none", !.state = "eligible"]
      BY <1>2, <1>3, <1>4, <2>1, <2>4
    <3>2. /\ rec'[f].role = "none" /\ rec'[f].status = "active" /\ rec'[f].first = None
          /\ rec'[f].mode = rec[f].mode /\ rec'[f].request = rec[f].request
      BY <2>1, <2>2, <3>1 DEF Record
    <3>3. rec[f].request = None /\ request[r].status = "absent" /\ rec[r].request = None
      BY <2>1, <2>4 DEF Frees
    <3>4. StoryOf(r)'
      <4>1. request'[r] = request[r]
        BY <1>2
      <4> QED
        BY <2>2, <3>3, <4>1 DEF StoryOf, Live
    <3>5. ColumnsOf(r)'
      BY <1>2, <1>5, <2>1, <2>3, <3>3 DEF ColumnsOf, Failed, Unresolved
    <3>6. ColumnsOf(f)'
      BY <1>2, <2>1, <2>2, <3>2, <3>3 DEF ColumnsOf, Failed, Unresolved
    <3> QED
      BY <1>2, <1>6, <2>3, <3>4, <3>5, <3>6, UpgradeResult
  <2>5. CASE ~Frees(jobs[i])
    <3>1. rec'[f] = rec[f]
      BY <1>2, <1>3, <2>1, <2>5
    <3>2. StoryOf(r)'
      <4>1. /\ request'[r] = request[r] /\ rec'[r].status = "material_failed" /\ rec'[r].first = f
            /\ rec'[r].role = "source_second" /\ rec'[r].request = rec[r].request
        BY <1>2, <1>5, <2>1, <2>3
      <4>2. CASE request[r].status = "absent"
        BY <2>2, <4>1, <4>2 DEF StoryOf, Live
      <4>3. CASE request[r].status = "awaiting_material"
        BY <2>1, <3>1, <4>1, <4>3 DEF StoryOf, Holds, Unresolved
      <4> QED
        BY <2>1, <4>2, <4>3
    <3>3. ColumnsOf(r)' /\ ColumnsOf(f)'
      BY <1>2, <1>5, <2>1, <2>2, <2>3, <3>1 DEF ColumnsOf, Failed, Unresolved, Live
    <3> QED
      BY <1>2, <1>6, <2>3, <3>2, <3>3, UpgradeResult
  <2> QED
    BY <2>4, <2>5
<1>7. CASE mode \notin UpgradeModes
  <2>1. ~Frees(jobs[i])
    BY <1>7 DEF Frees
  <2>2. rec'[r] = row /\ \A q \in Records \ {r} : rec'[q] = rec[q]
    BY <1>2, <1>3, <2>1
  <2> QED
    BY <1>2, <1>5, <1>7, <2>2, PlainResult
<1> QED
  BY <1>6, <1>7

\* What a retry reads about an upgrade or a declaration, before it awaits.
LEMMA StartRetryLinked ==
    ASSUME Linked, Typed', NEW u \in Uploads, NEW r \in Records, NEW kind \in Kinds, StartRetry(u, r, kind)
    PROVE  Linked'
<1> SUFFICES ASSUME NEW f, f = IF AwaitsUpgrade(r) THEN request[rec[r].request].first ELSE None
             PROVE  Linked'
  OBVIOUS
<1>1. /\ rec[r].status \in Failed /\ UNCHANGED <<rec, request, jobs>>
      /\ AwaitsUpgrade(r) \/ rec[r].mode \notin UpgradeModes
  BY DEF StartRetry, Failed
<1>2. ColumnsOf(r) /\ StoryOf(r) /\ rec[r].request \in Records \cup {None}
  BY Fields DEF Linked, Columns, Stories
<1>3. PICK clean : up' = [up EXCEPT ![u] = [op |-> "retry", rec |-> r, kind |-> kind, first |-> f, clean |-> clean]]
  BY DEF StartRetry
<1>4. /\ up'[u].op = "retry" /\ up'[u].rec = r /\ up'[u].first = f
      /\ \A w \in Uploads \ {u} : up'[w] = up[w]
  BY <1>3 DEF Linked, Typed
<1>5. RetryOf(u)'
  <2>1. CASE AwaitsUpgrade(r)
    <3>1. rec[r].request \in Records /\ request[rec[r].request].status = "awaiting_material"
          /\ f = request[rec[r].request].first
      BY <1>2, <2>1 DEF AwaitsUpgrade
    <3>2. rec[r].request = r
      <4>1. request[rec[r].request].first = r => rec[r].status = "active"
        BY <3>1 DEF Linked, Stories, StoryOf, Holds, Live
      <4> QED
        BY <1>1, <1>2, <3>1, <4>1, FlowAssumption DEF ColumnsOf, Failed
    <3>3. f # None
      BY <1>2, <3>1, <3>2, FlowAssumption DEF StoryOf
    <3> QED
      BY <1>1, <1>4, <3>1, <3>2, <3>3 DEF RetryOf
  <2>2. CASE ~AwaitsUpgrade(r)
    <3>1. f = None /\ rec[r].mode \notin UpgradeModes
      BY <1>1, <2>2
    <3>2. rec[r].first = None
      <4> SUFFICES ASSUME rec[r].first # None PROVE FALSE
        OBVIOUS
      <4>1. request[r].status = "awaiting_material"
        BY <1>1, <1>2, <3>1 DEF ColumnsOf
      <4> QED
        BY <1>2, <2>2, <4>1, FlowAssumption DEF StoryOf, AwaitsUpgrade
    <3>3. rec[r].role = "none" /\ rec[r].request = None
      BY <1>1, <1>2, <3>2 DEF ColumnsOf, Failed, Unresolved
    <3> QED
      BY <1>1, <1>4, <3>1, <3>2, <3>3 DEF RetryOf
  <2> QED
    BY <2>1, <2>2
<1>6. ASSUME NEW w \in Uploads \ {u} PROVE RetryOf(w)'
  BY <1>1, <1>4 DEF Linked, Retries, RetryOf
<1>7. Retries'
  BY <1>5, <1>6 DEF Retries
<1> QED
  BY <1>1, <1>7, QuietStep

\* Everything else a request does before it writes, and the month itself.
LEMMA WaitingLinked ==
    ASSUME Linked, Typed', UNCHANGED <<rec, request, jobs>>, OthersWait
    PROVE  Linked'
  BY QuietStep, RetriesWait

-----------------------------------------------------------------------------
(* The invariant. *)

LEMMA TypedStep ==
    ASSUME Typed, Next
    PROVE  Typed'
  BY OthersTyped, NextEscalating DEF Typed, Others, Escalating

LEMMA LinkedInit ==
    ASSUME Init
    PROVE  Linked
<1>1. rec \in [Records -> Record] /\ request \in [Records -> Requests]
  <2>1. rec \in [Records -> Record]
    BY BlankTyped DEF Init
  <2> QED
    BY <2>1 DEF Init, Requests
<1>2. Typed
  BY <1>1 DEF Init, Typed, Upload
<1>3. \A r \in Records :
        /\ rec[r].status = "absent" /\ rec[r].request = None /\ rec[r].first = None /\ rec[r].mode = "none"
        /\ request[r].status = "absent" /\ request[r].first = None
  BY DEF Init, Blank
<1>4. Stories /\ Columns
  BY <1>3 DEF Stories, StoryOf, Columns, ColumnsOf, Live, Unresolved, Failed, UpgradeModes
<1>5. Len(jobs) = 0
  BY DEF Init
<1>6. Jobs
  BY <1>5 DEF Jobs, OneJobEach, Queue
<1>7. Retries
  BY DEF Init, Retries, RetryOf, Idle
<1> QED
  BY <1>2, <1>4, <1>6, <1>7 DEF Linked

\* One step per operation; the two kinds of results of the worker are two more.
LEMMA LinkedStep ==
    ASSUME Linked, ~RetriesOverlap, Next
    PROVE  Linked'
<1>1. Typed'
  BY TypedStep DEF Linked
<1>2. ASSUME NEW r \in Records, NEW l \in Levels, CreateDraft(r, l) \/ CorrectLevel(r, l)
      PROVE  Linked'
  BY <1>1, <1>2, DeclarationsLinked
<1>3. ASSUME NEW r \in Records, Void(r) \/ Restore(r)
      PROVE  Linked'
  <2>1. Statement \in Levels
    BY BlankTyped
  <2> QED
    BY <1>1, <1>3, <2>1, DeclarationsLinked
<1>4. ASSUME NEW u \in Uploads, NEW kind \in Kinds, NEW l \in Levels,
             NEW leader \in BOOLEAN, NEW confirmed \in BOOLEAN,
             StartCreate(u, kind, l, leader, confirmed)
      PROVE  Linked'
  BY <1>1, <1>4, WaitingLinked DEF StartCreate, OthersWait, Linked, Typed
<1>5. ASSUME NEW u \in Uploads, NEW kind \in Kinds, StartSick(u, kind)
      PROVE  Linked'
  BY <1>1, <1>5, WaitingLinked DEF StartSick, OthersWait, Linked, Typed
<1>6. ASSUME NEW u \in Uploads, AbandonUpload(u)
      PROVE  Linked'
  BY <1>1, <1>6, WaitingLinked DEF AbandonUpload, OthersWait, Linked, Typed, Idle
<1>7. ASSUME RepeatCheck \/ CloseMonth \/ ReopenMonth
      PROVE  Linked'
  BY <1>1, <1>7, WaitingLinked DEF RepeatCheck, CloseMonth, ReopenMonth, OthersWait
<1>8. \A r \in Records : WorkerStep(r) => \E i \in 1 .. Len(jobs) : JobSucceeds(i) \/ Fail(i)
  BY DEF WorkerStep, JobRefused
<1>9. \A i \in 1 .. Len(jobs) : ConversionFails(i) => Fail(i)
  BY DEF ConversionFails
<1> QED
  BY <1>1, <1>2, <1>3, <1>4, <1>5, <1>6, <1>7, <1>8, <1>9, FinishCreateLinked, FinishSickLinked,
     CreateUpgradeLinked, ApproveLinked, RejectLinked, StartRetryLinked, FinishRetryLinked,
     RetryUpgradeLinked, JobSucceedsLinked, FailLinked DEF Next, Operation

\* The claims hold until two requests retry one record at the same time.
LinkedSoFar == overlapped \in BOOLEAN /\ (~overlapped => Linked)

LEMMA LinkedAlways == Spec => []LinkedSoFar
<1>1. Init => LinkedSoFar
  BY LinkedInit DEF LinkedSoFar, Init
<1>2. LinkedSoFar /\ [Next]_vars => LinkedSoFar'
  <2> SUFFICES ASSUME LinkedSoFar, [Next]_vars PROVE LinkedSoFar'
    OBVIOUS
  <2>1. CASE Next
    <3>1. overlapped' = (overlapped \/ RetriesOverlap)
      BY <2>1 DEF Next, Watched
    <3> QED
      BY <2>1, <3>1, LinkedStep DEF LinkedSoFar
  <2>2. ASSUME UNCHANGED vars, Linked PROVE Linked'
    <3>1. Typed' /\ OthersWait
      BY <2>2 DEF vars, Linked, Typed, OthersWait
    <3> QED
      BY <2>2, <3>1, WaitingLinked DEF vars
  <2>3. CASE UNCHANGED vars
    BY <2>2, <2>3 DEF LinkedSoFar, vars
  <2> QED
    BY <2>1, <2>3
<1> QED
  BY <1>1, <1>2, PTL DEF Spec

-----------------------------------------------------------------------------
(* What it promises. *)

\* The claims on a statement are one at most: the record of the request that
\* holds it or of the job that has taken it.
LEMMA ClaimedOnce ==
    ASSUME Linked
    PROVE  OneClaimPerStatement
<1> SUFFICES ASSUME NEW f \in Records
             PROVE  Cardinality({s \in Records : request[s].first = f
                                     /\ request[s].status \in {"awaiting_material", "pending", "approved"}}
                    \cup {jobs[i].rec : i \in {k \in 1 .. Len(jobs) : jobs[k].first = f}}) <= 1
  BY DEF OneClaimPerStatement
<1> DEFINE requested == {s \in Records : request[s].first = f
                                     /\ request[s].status \in {"awaiting_material", "pending", "approved"}}
           converting == {jobs[i].rec : i \in {k \in 1 .. Len(jobs) : jobs[k].first = f}}
<1>1. f # None
  BY FlowAssumption
<1>2. \A s \in requested : s \in Records /\ rec[f].request = s
  BY DEF Linked, Stories, StoryOf, Holds, Live
<1>3. ASSUME NEW r \in converting
      PROVE  /\ rec[f].request = r \/ rec[f].request = None
             /\ rec[f].request = None => \A q \in converting : q = r
  <2>1. PICK j \in Queue : j.rec = r /\ j.first = f
    BY DEF Queue
  <2>2. JobOf(j) /\ j.rec \in Records
    BY <2>1, Queued DEF Linked, Jobs
  <2>3. CASE request[r].status = "awaiting_material"
    <3>1. rec[f].request = r
      BY <2>1, <2>2, <2>3 DEF JobOf, Linked, Stories, StoryOf, Holds, Live
    <3> QED
      BY <2>1, <2>2, <3>1, FlowAssumption
  <2>4. CASE request[r].status # "awaiting_material"
    <3>1. rec[f].request = None /\ \A k \in Queue : k.first = f => k = j
      BY <1>1, <2>1, <2>2, <2>4 DEF JobOf, Taken
    <3>2. \A q \in converting : \E k \in Queue : k.first = f /\ k.rec = q
      BY DEF Queue
    <3> QED
      BY <2>1, <3>1, <3>2
  <2> QED
    BY <2>3, <2>4
<1>4. ASSUME NEW a \in requested \cup converting, NEW b \in requested \cup converting
      PROVE  a = b
  <2>1. None \notin Records
    BY FlowAssumption
  <2> HIDE DEF requested, converting
  <2> QED
    BY <1>2, <1>3, <2>1
<1> HIDE DEF requested, converting
<1>5. CASE requested \cup converting = {}
  <2>1. Cardinality(requested \cup converting) = 0
    BY <1>5, FS_EmptySet
  <2> QED
    BY <2>1 DEF requested, converting
<1>6. CASE requested \cup converting # {}
  <2>1. PICK a : requested \cup converting = {a}
    BY <1>4, <1>6
  <2>2. Cardinality(requested \cup converting) = 1
    BY <2>1, FS_Singleton
  <2> QED
    BY <2>2 DEF requested, converting
<1> QED
  BY <1>5, <1>6

\* A first statement is spent on one upgrade at a time, over direct upgrades, sick
\* leaves, retries, worker results, reviews and corrections, as long as no two
\* requests retry the same record at once.
THEOREM OneClaimAtATime == Spec => []OneClaimPerStatement
<1>1. LinkedSoFar => OneClaimPerStatement
  BY ClaimedOnce DEF LinkedSoFar, OneClaimPerStatement
<1> QED
  BY <1>1, LinkedAlways, PTL

-----------------------------------------------------------------------------
(* The bound of the queue.                                                  *)

\* The queue stays within its bound.
Bounded == Len(jobs) <= MaxJobs

LEMMA BoundedStep ==
    ASSUME Typed, Bounded, Next
    PROVE  Bounded'
<1>1. jobs \in Seq(Job) /\ Len(jobs) \in Nat /\ MaxJobs \in Nat
  BY FlowAssumption DEF Typed
<1>2. \A j \in Job : Len(Append(jobs, j)) = Len(jobs) + 1
  BY <1>1
<1>3. ASSUME NEW i \in 1 .. Len(jobs), jobs' = Drop(jobs, i) PROVE Bounded'
  <2>1. \A k \in 1 .. Len(jobs) : jobs[k] \in Job
    BY <1>1
  <2>2. SubSeq(jobs, 1, i - 1) \in Seq(Job) /\ Len(SubSeq(jobs, 1, i - 1)) = i - 1
    BY <1>1, <2>1, SubSeqProperties
  <2>3. SubSeq(jobs, i + 1, Len(jobs)) \in Seq(Job) /\ Len(SubSeq(jobs, i + 1, Len(jobs))) = Len(jobs) - i
    BY <1>1, <2>1, SubSeqProperties
  <2>4. Len(jobs') = (i - 1) + (Len(jobs) - i)
    <3>1. \A a, b \in Seq(Job) : Len(a \o b) = Len(a) + Len(b)
      BY ConcatProperties
    <3> QED
      BY <1>3, <2>2, <2>3, <3>1 DEF Drop
  <2> QED
    BY <1>1, <2>4 DEF Bounded
<1>4. ASSUME NEW j, jobs' = Append(jobs, j), Len(jobs) < MaxJobs PROVE Bounded'
  <2>1. Len(jobs') = Len(jobs) + 1
    BY <1>1, <1>4
  <2> QED
    BY <1>1, <1>4, <2>1 DEF Bounded
<1>5. UNCHANGED jobs => Bounded'
  BY DEF Bounded
<1>6. ASSUME NEW u \in Uploads, NEW r \in Records, FinishCreate(u, r) \/ FinishSick(u, r) PROVE Bounded'
  <2>1. CASE FinishCreate(u, r)
    BY <1>4, <1>5, <2>1 DEF FinishCreate
  <2>2. CASE FinishSick(u, r)
    BY <1>4, <1>5, <2>2 DEF FinishSick
  <2> QED
    BY <1>6, <2>1, <2>2
<1>7. ASSUME NEW f \in Records, NEW s \in Records, NEW kind \in Kinds, CreateUpgrade(f, s, kind) PROVE Bounded'
  BY <1>4, <1>5, <1>7 DEF CreateUpgrade
<1>8. ASSUME NEW u \in Uploads, FinishRetry(u) PROVE Bounded'
  BY <1>4, <1>8 DEF FinishRetry
<1>9. ASSUME NEW r \in Records, NEW kind \in Kinds, RetryUpgrade(r, kind) PROVE Bounded'
  BY <1>4, <1>9 DEF RetryUpgrade
<1>10. ASSUME NEW i \in 1 .. Len(jobs), JobSucceeds(i) \/ Fail(i) PROVE Bounded'
  BY <1>3, <1>10 DEF JobSucceeds, Fail
<1>11. \A r \in Records : WorkerStep(r) => \E i \in 1 .. Len(jobs) : JobSucceeds(i) \/ Fail(i)
  BY DEF WorkerStep, JobRefused
<1>12. \A i \in 1 .. Len(jobs) : ConversionFails(i) => Fail(i)
  BY DEF ConversionFails
<1>13. ASSUME \/ \E r \in Records, l \in Levels : CreateDraft(r, l) \/ CorrectLevel(r, l)
              \/ \E u \in Uploads, kind \in Kinds, l \in Levels, leader, confirmed \in BOOLEAN :
                    StartCreate(u, kind, l, leader, confirmed)
              \/ \E s, r \in Records, l \in Levels : Approve(s, r, l)
              \/ \E r \in Records : Reject(r) \/ Void(r) \/ Restore(r)
              \/ \E u \in Uploads, kind \in Kinds : StartSick(u, kind)
              \/ \E u \in Uploads, r \in Records, kind \in Kinds : StartRetry(u, r, kind)
              \/ \E u \in Uploads : AbandonUpload(u)
              \/ RepeatCheck \/ CloseMonth \/ ReopenMonth
       PROVE  UNCHANGED jobs
  BY <1>13 DEF CreateDraft, CorrectLevel, StartCreate, Approve, Reject, Void, Restore, StartSick,
     StartRetry, AbandonUpload, RepeatCheck, CloseMonth, ReopenMonth
<1> QED
  BY <1>5, <1>6, <1>7, <1>8, <1>9, <1>10, <1>11, <1>12, <1>13 DEF Next, Operation

-----------------------------------------------------------------------------
(* The seal of a closed month.                                              *)

\* While the month is closed no request writes, and no job is left to the worker.
LEMMA ClosedStep ==
    ASSUME Linked, SealKept, Next
    PROVE  SealKept'
<1>1. ASSUME closed PROVE Queue = {}
  <2>1. \A j \in Queue : JobOf(j) /\ j.rec \in Records
    BY Queued DEF Linked, Jobs
  <2> QED
    BY <1>1, <2>1 DEF SealKept, WorkLeft, JobOf, Unresolved
<1>2. ASSUME closed, NEW i \in 1 .. Len(jobs) PROVE FALSE
  BY <1>1, <1>2, Queued DEF Linked
<1>3. ASSUME UNCHANGED <<rec, request, follow, closed, sealed>> PROVE SealKept'
  BY <1>3 DEF SealKept, WorkLeft, Counted, Counts
<1>4. ASSUME ~closed, UNCHANGED closed PROVE SealKept'
  BY <1>4 DEF SealKept
<1>5. ASSUME NEW i \in 1 .. Len(jobs), JobSucceeds(i) \/ Fail(i) PROVE SealKept'
  <2>1. UNCHANGED closed
    BY <1>5 DEF JobSucceeds, Fail
  <2> QED
    BY <1>2, <1>4, <2>1
<1>6. \A r \in Records : WorkerStep(r) => \E i \in 1 .. Len(jobs) : JobSucceeds(i) \/ Fail(i)
  BY DEF WorkerStep, JobRefused
<1>7. \A i \in 1 .. Len(jobs) : ConversionFails(i) => Fail(i)
  BY DEF ConversionFails
<1>8. CASE CloseMonth
  BY <1>8 DEF CloseMonth, SealKept, WorkLeft, Counted, Counts
<1>9. CASE ReopenMonth
  BY <1>9 DEF ReopenMonth, SealKept
<1>10. ASSUME NEW u \in Uploads, AbandonUpload(u) PROVE SealKept'
  BY <1>3, <1>10 DEF AbandonUpload
<1>11. ASSUME NEW u \in Uploads, NEW r \in Records, FinishCreate(u, r) \/ FinishSick(u, r) PROVE ~closed /\ UNCHANGED closed
  BY <1>11 DEF FinishCreate, FinishSick
<1>12. ASSUME \/ \E r \in Records, l \in Levels : CreateDraft(r, l) \/ CorrectLevel(r, l)
              \/ \E u \in Uploads, kind \in Kinds, l \in Levels, leader, confirmed \in BOOLEAN :
                    StartCreate(u, kind, l, leader, confirmed)
              \/ \E f, s \in Records, kind \in Kinds : CreateUpgrade(f, s, kind)
              \/ \E s, r \in Records, l \in Levels : Approve(s, r, l)
              \/ \E r \in Records : Reject(r) \/ Void(r) \/ Restore(r)
              \/ \E u \in Uploads, kind \in Kinds : StartSick(u, kind)
              \/ \E u \in Uploads, r \in Records, kind \in Kinds : StartRetry(u, r, kind)
              \/ \E u \in Uploads : FinishRetry(u)
              \/ \E r \in Records, kind \in Kinds : RetryUpgrade(r, kind)
              \/ RepeatCheck
       PROVE  ~closed /\ UNCHANGED closed
  BY <1>12 DEF CreateDraft, CorrectLevel, StartCreate, CreateUpgrade, Approve, Reject, Void, Restore, StartSick,
     StartRetry, FinishRetry, RetryUpgrade, RepeatCheck
<1> QED
  BY <1>4, <1>5, <1>6, <1>7, <1>8, <1>9, <1>10, <1>11, <1>12 DEF Next, Operation

-----------------------------------------------------------------------------
(* A claimed first statement is in somebody's hands.                        *)

\* The statements of W that are claimed have a request or a conversion.
Handed(W) ==
    \A f \in W : rec[f].role = "source_first" =>
        rec[f].request # None \/ \E i \in 1 .. Len(jobs) : jobs[i].first = f

\* f is lost to the PDF of s: no upgrade that is under way has it.
Lost(s, f) ==
    /\ rec[f].status = "active" /\ rec[f].role = "source_first" /\ rec[f].state = "pending" /\ rec[f].request = None
    /\ rec[s].first = f /\ rec[s].mode = "upgrade_pdf_compress" /\ rec[s].status = "material_failed"

\* No request and no conversion lets go of a first statement that stays claimed.
Kept(q) ==
    rec'[q].role = "source_first" =>
        rec[q].role = "source_first" /\ rec'[q].request = rec[q].request

\* What a source_first row points at, after the step.
InHands(q) ==
    rec'[q].role = "source_first" =>
        rec'[q].request # None \/ \E j \in Queue' : j.first = q

LEMMA StillInHands ==
    ASSUME Typed, NEW W \in SUBSET Records, Handed(W), NEW q \in W, Kept(q),
           \A j \in Queue : j.first = q => j \in Queue'
    PROVE  InHands(q)
<1> SUFFICES ASSUME rec'[q].role = "source_first", rec'[q].request = None
             PROVE  \E j \in Queue' : j.first = q
  BY DEF InHands
<1>1. rec[q].role = "source_first" /\ rec[q].request = None
  BY DEF Kept
<1>2. PICK i \in 1 .. Len(jobs) : jobs[i].first = q
  BY <1>1 DEF Handed
<1>3. jobs[i] \in Queue
  BY <1>2 DEF Queue
<1> QED
  BY <1>2, <1>3

LEMMA AllInHands ==
    ASSUME NEW W \in SUBSET Records, \A q \in W : InHands(q)
    PROVE  Handed(W)'
<1> SUFFICES ASSUME NEW q \in W, (rec[q].role = "source_first")', ~(rec[q].request # None)'
             PROVE  (\E i \in 1 .. Len(jobs) : jobs[i].first = q)'
  BY DEF Handed
<1>1. PICK j \in Queue' : j.first = q
  BY DEF InHands
<1>2. PICK i \in 1 .. Len(jobs') : j = jobs'[i]
  BY <1>1 DEF Queue
<1> QED
  BY <1>1, <1>2

\* A row that keeps its role and its request keeps its claim.
LEMMA RowKept ==
    ASSUME NEW q \in Records, rec[q] \in Record
    PROVE  /\ rec'[q] = rec[q] => Kept(q)
           /\ \A l : rec'[q] = [rec[q] EXCEPT !.level = l] => Kept(q)
           /\ \A a, b : rec'[q] = [rec[q] EXCEPT !.status = a, !.from = b] => Kept(q)
           /\ \A a, b : rec'[q] = [rec[q] EXCEPT !.status = a, !.material = b] => Kept(q)
           /\ rec'[q].role # "source_first" => Kept(q)
  BY DEF Kept, Record

\* The queue when nothing leaves it.
LEMMA QueueKept ==
    ASSUME Typed, UNCHANGED jobs \/ \E j \in Job : jobs' = Append(jobs, j)
    PROVE  \A j \in Queue : j \in Queue'
  BY QueueGrows DEF Queue

\* Declarations and their corrections.
LEMMA DeclarationsKept ==
    ASSUME Linked, NEW W \in SUBSET Records, Handed(W), NEW s \in Records,
           \/ \E l \in Levels : CreateDraft(s, l) \/ CorrectLevel(s, l)
           \/ Void(s) \/ Restore(s)
           \/ \E u \in Uploads : FinishCreate(u, s)
    PROVE  Handed(W)'
<1>0. Typed /\ rec[s] \in Record
  BY DEF Linked, Typed
<1>1. \A q \in Records \ {s} : rec'[q] = rec[q] /\ rec[q] \in Record
  BY <1>0 DEF Typed, CreateDraft, CorrectLevel, Void, Restore, FinishCreate
<1>2. Kept(s)
  <2>1. ASSUME NEW l \in Levels, CreateDraft(s, l) PROVE Kept(s)
    BY <1>0, <2>1, RowKept DEF Typed, CreateDraft, Blank
  <2>2. ASSUME NEW l \in Levels, CorrectLevel(s, l) PROVE Kept(s)
    BY <1>0, <2>2, RowKept DEF Typed, CorrectLevel
  <2>3. CASE Void(s)
    BY <1>0, <2>3, RowKept DEF Typed, Void
  <2>4. CASE Restore(s)
    BY <1>0, <2>4, RowKept DEF Typed, Restore
  <2>5. ASSUME NEW u \in Uploads, FinishCreate(u, s) PROVE Kept(s)
    <3>1. CASE Converts(up[u].kind)
      <4>1. PICK mode \in {"deduction", "pdf_compress"} :
               rec' = [rec EXCEPT ![s] = [Blank EXCEPT !.status = "material_processing", !.level = up[u].level,
                                                      !.material = "processing", !.mode = mode]]
        BY <2>5, <3>1 DEF FinishCreate
      <4> QED
        BY <1>0, <4>1, RowKept DEF Typed, Blank
    <3>2. CASE ~Converts(up[u].kind)
      <4>1. rec' = [rec EXCEPT ![s] = [Blank EXCEPT !.status = "active", !.level = up[u].level, !.material = "ready"]]
        BY <2>5, <3>2 DEF FinishCreate
      <4> QED
        BY <1>0, <4>1, RowKept DEF Typed, Blank
    <3> QED
      BY <3>1, <3>2
  <2> QED
    BY <2>1, <2>2, <2>3, <2>4, <2>5
<1>3. UNCHANGED jobs \/ \E j \in Job : jobs' = Append(jobs, j)
  <2>1. ASSUME NEW u \in Uploads, FinishCreate(u, s)
        PROVE  UNCHANGED jobs \/ \E j \in Job : jobs' = Append(jobs, j)
    <3>1. \/ UNCHANGED jobs
          \/ \E mode \in {"deduction", "pdf_compress"} : jobs' = Append(jobs, [rec |-> s, mode |-> mode, first |-> None])
      BY <2>1 DEF FinishCreate
    <3>2. \A mode \in {"deduction", "pdf_compress"} : [rec |-> s, mode |-> mode, first |-> None] \in Job
      BY DEF Job, Modes
    <3> QED
      BY <3>1, <3>2
  <2> QED
    BY <2>1 DEF CreateDraft, CorrectLevel, Void, Restore
<1>4. \A q \in W : InHands(q)
  BY <1>0, <1>1, <1>2, <1>3, RowKept, QueueKept, StillInHands
<1> QED
  BY <1>4, AllInHands

\* A review.
LEMMA ReviewKept ==
    ASSUME Linked, NEW W \in SUBSET Records, Handed(W), NEW s \in Records,
           Reject(s) \/ \E r \in Records, l \in Levels : Approve(s, r, l)
    PROVE  Handed(W)'
<1> SUFFICES ASSUME NEW f, request[s].first = f PROVE Handed(W)'
  OBVIOUS
<1>1. /\ request[s].status = "pending" /\ f \in Records /\ f # s /\ Holds(s, f) /\ rec[s].role = "source_second"
      /\ rec[f] \in Record /\ rec[s] \in Record /\ Typed
  BY DEF Approve, Reject, Linked, Typed, Stories, StoryOf, Live
<1>2. Queue' = Queue
  BY DEF Approve, Reject, Queue
<1>3. CASE Reject(s)
  <2>1. /\ rec'[f] = [rec[f] EXCEPT !.request = None, !.role = "none", !.state = "eligible"]
        /\ rec'[s] = [rec[s] EXCEPT !.status = "void", !.state = "rejected"]
        /\ \A q \in Records \ {f, s} : rec'[q] = rec[q]
    BY <1>1, <1>3 DEF Reject, Typed
  <2>2. Kept(f) /\ Kept(s)
    BY <1>1, <2>1 DEF Kept, Record
  <2>3. \A q \in Records : Kept(q)
    BY <2>1, <2>2 DEF Kept
  <2> QED
    BY <1>1, <1>2, <2>3, StillInHands, AllInHands
<1>4. ASSUME NEW r \in Records, NEW l \in Levels, Approve(s, r, l) PROVE Handed(W)'
  <2>1. r # s /\ r # f
    BY <1>1, <1>4 DEF Approve, Fresh, Holds, Linked, Stories, StoryOf
  <2>2. /\ rec'[f] = [rec[f] EXCEPT !.role = "source_first", !.state = "source_first"]
        /\ rec'[s] = [rec[s] EXCEPT !.status = "active", !.role = "source_second", !.state = "source_second"]
        /\ rec'[r] = [Blank EXCEPT !.status = "active", !.level = l, !.role = "result", !.state = "result"]
        /\ \A q \in Records \ {f, s, r} : rec'[q] = rec[q]
    BY <1>1, <1>4, <2>1 DEF Approve, Typed
  <2>3. Kept(f) /\ Kept(s) /\ Kept(r)
    BY <1>1, <2>2 DEF Kept, Record, Blank, Holds
  <2>4. \A q \in Records : Kept(q)
    BY <2>2, <2>3 DEF Kept
  <2> QED
    BY <1>1, <1>2, <2>4, StillInHands, AllInHands
<1> QED
  BY <1>3, <1>4

\* A claim comes with a request or with a job: f is claimed for s, and every
\* other row keeps its role and its request.
LEMMA ClaimKept ==
    ASSUME Linked, NEW W \in SUBSET Records, Handed(W), NEW f \in Records, NEW s \in Records, f # s,
           \A q \in Records \ {f, s} : rec'[q] = rec[q],
           rec'[s].role # "source_first",
           UNCHANGED jobs \/ \E j \in Job : jobs' = Append(jobs, j),
           rec'[f].request = s \/ \E mode \in Modes : jobs' = Append(jobs, [rec |-> s, mode |-> mode, first |-> f])
    PROVE  Handed(W)'
<1>0. Typed /\ None \notin Records
  BY FlowAssumption DEF Linked
<1>1. InHands(f)
  <2>1. ASSUME NEW mode \in Modes, jobs' = Append(jobs, [rec |-> s, mode |-> mode, first |-> f])
        PROVE  \E j \in Queue' : j.first = f
    <3>1. [rec |-> s, mode |-> mode, first |-> f] \in Job
      BY DEF Job
    <3> QED
      BY <1>0, <2>1, <3>1, QueueGrows
  <2> QED
    BY <1>0, <2>1 DEF InHands
<1>2. \A q \in Records \ {f} : Kept(q)
  BY DEF Kept
<1>3. \A q \in W \ {f} : InHands(q)
  BY <1>0, <1>2, QueueKept, StillInHands
<1> QED
  BY <1>1, <1>3, AllInHands

LEMMA CreateUpgradeKept ==
    ASSUME Linked, NEW W \in SUBSET Records, Handed(W), NEW f \in Records, NEW s \in Records, NEW kind \in Kinds,
           CreateUpgrade(f, s, kind)
    PROVE  Handed(W)'
<1>0. Typed
  BY DEF Linked
<1>1. f # s
  BY DEF CreateUpgrade, Candidate, Fresh
<1>2. PICK v, w : /\ rec' = [[rec EXCEPT ![f] = v] EXCEPT ![s] = w]
                  /\ w.role = "source_second"
                  /\ ~Converts(kind) => v.request = s
  <2>1. CASE Converts(kind)
    <3> DEFINE v == [rec[f] EXCEPT !.role = "source_first",
                       !.state = IF kind = "photos" THEN "material_processing" ELSE "pending"]
               w == [Blank EXCEPT !.status = "material_processing", !.material = "processing",
                           !.role = "source_second", !.state = "material_processing",
                           !.mode = IF kind = "photos" THEN "upgrade" ELSE "upgrade_pdf_compress", !.first = f]
    <3>1. rec' = [[rec EXCEPT ![f] = v] EXCEPT ![s] = w]
      BY <1>0, <2>1 DEF CreateUpgrade, Typed
    <3>2. w.role = "source_second"
      BY DEF Blank
    <3> QED
      BY <2>1, <3>1, <3>2
  <2>2. CASE ~Converts(kind)
    <3> DEFINE v == [rec[f] EXCEPT !.role = "source_first", !.state = "pending", !.request = s]
               w == [Blank EXCEPT !.status = "pending_upgrade", !.material = "ready",
                           !.role = "source_second", !.state = "pending", !.request = s]
    <3>1. rec' = [[rec EXCEPT ![f] = v] EXCEPT ![s] = w]
      BY <1>0, <2>2 DEF CreateUpgrade, Typed
    <3>2. w.role = "source_second" /\ v.request = s
      <4>1. rec[f] \in Record
        BY <1>0 DEF Typed
      <4> QED
        BY <4>1 DEF Blank, Record
    <3> QED
      BY <3>1, <3>2
  <2> QED
    BY <2>1, <2>2
<1>3. /\ \A q \in Records \ {f, s} : rec'[q] = rec[q]
      /\ rec'[s].role = "source_second"
      /\ ~Converts(kind) => rec'[f].request = s
  BY <1>0, <1>1, <1>2 DEF Typed
<1>4. IF Converts(kind)
      THEN \E mode \in {"upgrade", "upgrade_pdf_compress"} : jobs' = Append(jobs, [rec |-> s, mode |-> mode, first |-> f])
      ELSE UNCHANGED jobs
  BY DEF CreateUpgrade
<1>5. \A mode \in {"upgrade", "upgrade_pdf_compress"} : mode \in Modes /\ [rec |-> s, mode |-> mode, first |-> f] \in Job
  BY DEF Job, Modes
<1>6. UNCHANGED jobs \/ \E j \in Job : jobs' = Append(jobs, j)
  BY <1>4, <1>5
<1>7. rec'[f].request = s \/ \E mode \in Modes : jobs' = Append(jobs, [rec |-> s, mode |-> mode, first |-> f])
  BY <1>3, <1>4, <1>5
<1> QED
  BY <1>1, <1>3, <1>6, <1>7, ClaimKept

LEMMA RetryUpgradeKept ==
    ASSUME Linked, NEW W \in SUBSET Records, Handed(W), NEW s \in Records, NEW kind \in Kinds, RetryUpgrade(s, kind)
    PROVE  Handed(W)'
<1>0. Typed
  BY DEF Linked
<1> SUFFICES ASSUME NEW f, f = rec[s].first PROVE Handed(W)'
  OBVIOUS
<1>1. f \in Records /\ f # s /\ rec[s].role = "source_second" /\ rec[s] \in Record
  BY Fields DEF RetryUpgrade, CanRetryUpgrade, Linked, Columns, ColumnsOf
<1>2. RetryMode(kind, TRUE) \in Modes
  BY DEF RetryMode, Modes
<1>3. jobs' = Append(jobs, [rec |-> s, mode |-> RetryMode(kind, TRUE), first |-> f])
  BY DEF RetryUpgrade
<1>4. /\ rec'[s] = [rec[s] EXCEPT !.status = "material_processing", !.material = "processing",
                     !.state = "material_processing", !.mode = RetryMode(kind, TRUE)]
      /\ \A q \in Records \ {f, s} : rec'[q] = rec[q]
  BY <1>0, <1>1 DEF RetryUpgrade, Typed
<1>5. rec'[s].role = "source_second"
  BY <1>1, <1>4 DEF Record
<1>6. \E j \in Job : jobs' = Append(jobs, j)
  <2>1. [rec |-> s, mode |-> RetryMode(kind, TRUE), first |-> f] \in Job
    BY <1>1, <1>2 DEF Job
  <2> QED
    BY <1>3, <2>1
<1> QED
  BY <1>1, <1>2, <1>3, <1>4, <1>5, <1>6, ClaimKept

LEMMA FinishSickKept ==
    ASSUME Linked, NEW W \in SUBSET Records, Handed(W), NEW u \in Uploads, NEW s \in Records, FinishSick(u, s)
    PROVE  Handed(W)'
<1> DEFINE d == up[u]
           f == d.first
           stage == CASE d.kind = "none" -> "awaiting_material"
                      [] Converts(d.kind) -> "material_processing"
                      [] OTHER -> "pending"
           mode == CASE d.kind = "photos" -> IF f = None THEN "deduction" ELSE "upgrade"
                     [] d.kind = "big_pdf" -> IF f = None THEN "pdf_compress" ELSE "upgrade_pdf_compress"
                     [] OTHER -> "none"
           status == CASE d.kind = "none" -> "pending_material"
                       [] Converts(d.kind) -> "material_processing"
                       [] OTHER -> IF f = None THEN "active" ELSE "pending_upgrade"
           material == CASE d.kind = "none" -> "missing"
                         [] Converts(d.kind) -> "processing"
                         [] OTHER -> "ready"
           second == [Blank EXCEPT
            !.status = status, !.material = material,
            !.role = IF f = None THEN "none" ELSE "source_second",
            !.state = IF f = None THEN "none" ELSE stage,
            !.request = IF f = None THEN None ELSE s,
            !.mode = mode, !.first = f]
<1>0. Typed
  BY DEF Linked
<1>1. f \in Records \cup {None} /\ Fresh(s)
  BY <1>0, UploadFields DEF FinishSick
<1>2. mode \in Modes /\ second.role = IF f = None THEN "none" ELSE "source_second"
  BY DEF Modes, Blank
<1>3. UNCHANGED jobs \/ jobs' = Append(jobs, [rec |-> s, mode |-> mode, first |-> f])
  BY DEF FinishSick
<1>4. CASE f = None
  <2>1. rec' = [rec EXCEPT ![s] = second]
    BY <1>4 DEF FinishSick
  <2> HIDE DEF second, mode, status, stage
  <2>2. rec'[s] = second /\ \A q \in Records \ {s} : rec'[q] = rec[q]
    BY <1>0, <2>1 DEF Typed
  <2>3. \A q \in Records : Kept(q)
    BY <1>2, <1>4, <2>2 DEF Kept
  <2>4. [rec |-> s, mode |-> mode, first |-> f] \in Job
    BY <1>1, <1>2 DEF Job
  <2> HIDE DEF f
  <2> QED
    BY <1>0, <1>3, <2>3, <2>4, QueueKept, StillInHands, AllInHands
<1>5. CASE f # None
  <2>1. f \in Records /\ f # s /\ rec[f] \in Record
    BY <1>0, <1>1, <1>5 DEF FinishSick, Claimable, Fresh, Typed
  <2>2. rec' = [rec EXCEPT ![s] = second, ![f].role = "source_first", ![f].state = stage, ![f].request = s]
    BY <1>5 DEF FinishSick
  <2> HIDE DEF second, mode, status, stage
  <2>3. /\ rec'[s] = second
        /\ rec'[f] = [rec[f] EXCEPT !.role = "source_first", !.state = stage, !.request = s]
        /\ \A q \in Records \ {f, s} : rec'[q] = rec[q]
    BY <1>0, <2>1, <2>2 DEF Typed
  <2>4. rec'[f].request = s /\ rec'[s].role = "source_second"
    BY <1>2, <1>5, <2>1, <2>3 DEF Record
  <2>5. [rec |-> s, mode |-> mode, first |-> f] \in Job
    BY <1>1, <1>2 DEF Job
  <2> HIDE DEF f
  <2>6. UNCHANGED jobs \/ \E j \in Job : jobs' = Append(jobs, j)
    BY <1>3, <2>5
  <2> QED
    BY <2>1, <2>3, <2>4, <2>6, ClaimKept
<1> QED
  BY <1>4, <1>5

LEMMA FinishRetryKept ==
    ASSUME Linked, NEW W \in SUBSET Records, Handed(W), NEW u \in Uploads, FinishRetry(u)
    PROVE  Handed(W)'
<1> SUFFICES ASSUME NEW r, NEW f, NEW mode, NEW written,
                    up[u].rec = r, up[u].first = f, mode = RetryMode(up[u].kind, f # None),
                    written = IF f = None THEN {} ELSE {r, f} \ up[u].clean
             PROVE  Handed(W)'
  OBVIOUS
<1>1. Typed /\ f \in Records \cup {None} /\ r \in Records /\ mode \in Modes
  BY UploadFields DEF FinishRetry, Linked, RetryMode, Modes
<1>2. jobs' = Append(jobs, [rec |-> r, mode |-> mode, first |-> f])
  BY DEF FinishRetry
<1>3. [rec |-> r, mode |-> mode, first |-> f] \in Job
  BY <1>1 DEF Job
<1> DEFINE row == [rec[r] EXCEPT !.status = "material_processing", !.material = "processing",
                                 !.mode = mode, !.first = f]
<1>4. rec' = [q \in Records |->
                  [(IF q = r THEN row ELSE rec[q]) EXCEPT
                      !.state = IF q \in written THEN "material_processing" ELSE @]]
  BY DEF FinishRetry
<1>5. row.role = rec[r].role /\ row.request = rec[r].request /\ DOMAIN row = DOMAIN rec[r]
  BY <1>1 DEF Typed, Record
<1> HIDE DEF row
<1>6. ASSUME NEW q \in Records PROVE Kept(q)
  <2>1. rec'[q].role = rec[q].role /\ rec'[q].request = rec[q].request
    <3>1. rec[q] \in Record
      BY <1>1 DEF Typed
    <3>2. CASE q = r
      <4>1. rec'[r] = [row EXCEPT !.state = IF r \in written THEN "material_processing" ELSE @]
        BY <1>1, <1>4
      <4> QED
        BY <1>5, <3>1, <3>2, <4>1 DEF Record
    <3>3. CASE q # r
      <4>1. rec'[q] = [rec[q] EXCEPT !.state = IF q \in written THEN "material_processing" ELSE @]
        BY <1>4, <3>3
      <4> QED
        BY <3>1, <4>1 DEF Record
    <3> QED
      BY <3>2, <3>3
  <2> QED
    BY <2>1 DEF Kept
<1> QED
  BY <1>1, <1>2, <1>3, <1>6, QueueKept, StillInHands, AllInHands

\* The result of an upgrade's material, and of a declaration's.
LEMMA JobSucceedsKept ==
    ASSUME Linked, NEW W \in SUBSET Records, Handed(W), NEW i \in 1 .. Len(jobs), JobSucceeds(i)
    PROVE  Handed(W)'
<1> SUFFICES ASSUME NEW r, NEW f, jobs[i].rec = r, jobs[i].first = f
             PROVE  Handed(W)'
  OBVIOUS
<1>1. jobs[i] \in Queue /\ r \in Records /\ rec[r] \in Record /\ Typed /\ JobOf(jobs[i])
  BY Queued, JobTyped, Fields DEF Linked, Jobs
<1>2. Queue' = Queue \ {jobs[i]}
  BY QueueShrinks DEF Linked, Jobs, JobSucceeds
<1>3. CASE jobs[i].mode \in UpgradeModes
  <2>1. f \in Records /\ f # r /\ rec[f] \in Record /\ r # None
    BY <1>1, <1>3, UpgradeJob, Fields
  <2> DEFINE one == [rec EXCEPT ![f].request = r, ![f].role = "source_first", ![f].state = "pending"]
  <2>2. rec' = [one EXCEPT ![r].request = r, ![r].role = "source_second", ![r].state = "pending",
                           ![r].status = "pending_upgrade", ![r].material = "ready"]
    BY <1>3 DEF JobSucceeds
  <2>3. /\ one[f] = [rec[f] EXCEPT !.request = r, !.role = "source_first", !.state = "pending"]
        /\ one[r] = rec[r]
        /\ \A q \in Records \ {r, f} : one[q] = rec[q]
        /\ DOMAIN one = Records
    BY <1>1, <2>1 DEF Typed
  <2> HIDE DEF one
  <2>4. rec'[r] = [one[r] EXCEPT !.request = r, !.role = "source_second", !.state = "pending",
                       !.status = "pending_upgrade", !.material = "ready"]
        /\ \A q \in Records \ {r} : rec'[q] = one[q]
    BY <1>1, <2>2, <2>3
  <2>5. rec'[f].request = r /\ rec'[r].role = "source_second"
    <3>1. /\ rec'[f] = [rec[f] EXCEPT !.request = r, !.role = "source_first", !.state = "pending"]
          /\ rec'[r] = [rec[r] EXCEPT !.request = r, !.role = "source_second", !.state = "pending",
                           !.status = "pending_upgrade", !.material = "ready"]
      BY <2>1, <2>3, <2>4
    <3> QED
      BY <1>1, <2>1, <3>1 DEF Record
  <2>6. \A q \in Records \ {f} : Kept(q)
    <3>1. \A q \in Records \ {f, r} : rec'[q] = rec[q]
      BY <2>3, <2>4
    <3> QED
      BY <2>5, <3>1 DEF Kept
  <2>7. \A q \in W \ {f} : InHands(q)
    BY <1>1, <1>2, <2>6, StillInHands
  <2>8. InHands(f)
    BY <2>1, <2>5 DEF InHands
  <2> QED
    BY <2>7, <2>8, AllInHands
<1>4. CASE jobs[i].mode \notin UpgradeModes
  <2>1. /\ rec'[r] = [rec[r] EXCEPT !.status = "active", !.material = "ready"]
        /\ \A q \in Records \ {r} : rec'[q] = rec[q]
    BY <1>1, <1>4 DEF JobSucceeds, Typed
  <2>2. \A q \in Records : Kept(q)
    <3>1. rec'[r].role = rec[r].role /\ rec'[r].request = rec[r].request
      BY <1>1, <2>1 DEF Record
    <3> QED
      BY <2>1, <3>1 DEF Kept
  <2>3. f = None /\ None \notin Records
    BY <1>1, <1>4, FlowAssumption DEF JobOf
  <2> QED
    BY <1>1, <1>2, <2>2, <2>3, StillInHands, AllInHands
<1> QED
  BY <1>3, <1>4

\* A failed conversion gives back what it had taken.  A compressed PDF leaves the
\* first statement pending, which _restore_upgrade_source does not look for: it is lost.
LEMMA FailKept ==
    ASSUME Linked, NEW W \in SUBSET Records, Handed(W), NEW i \in 1 .. Len(jobs), Fail(i)
    PROVE  \A q \in W : InHands(q) \/ \E s \in Records : Lost(s, q)'
<1> SUFFICES ASSUME NEW r, NEW f, NEW mode, jobs[i].rec = r, jobs[i].first = f, jobs[i].mode = mode
             PROVE  \A q \in W : InHands(q) \/ \E s \in Records : Lost(s, q)'
  OBVIOUS
<1>1. jobs[i] \in Queue /\ r \in Records /\ rec[r] \in Record /\ Typed /\ JobOf(jobs[i]) /\ None \notin Records
  BY Queued, JobTyped, Fields, FlowAssumption DEF Linked, Jobs
<1>2. Queue' = Queue \ {jobs[i]}
  BY QueueShrinks DEF Linked, Jobs, Fail
<1> DEFINE row == [rec[r] EXCEPT !.status = "material_failed", !.material = "failed",
                     !.state = IF mode = "upgrade" THEN "material_failed" ELSE @]
           failed == [rec EXCEPT ![r].status = "material_failed", ![r].material = "failed",
                     ![r].state = IF mode = "upgrade" THEN "material_failed" ELSE @]
<1>3. rec' = IF Frees(jobs[i]) THEN [failed EXCEPT ![f].role = "none", ![f].state = "eligible"] ELSE failed
  BY DEF Fail
<1>4. /\ failed[r] = row /\ \A q \in Records \ {r} : failed[q] = rec[q]
      /\ DOMAIN failed = Records
  BY <1>1 DEF Typed
<1> HIDE DEF failed
<1>5. row.role = rec[r].role /\ row.request = rec[r].request
  BY <1>1 DEF Record
<1> HIDE DEF row
<1>6. CASE mode \in UpgradeModes
  <2>1. /\ f \in Records /\ f # r /\ rec[f] \in Record /\ r # None
        /\ \/ request[r].status = "awaiting_material" /\ rec[f].request = r
           \/ request[r].status = "absent" /\ rec[f].request = None
    BY <1>1, <1>6, UpgradeJob, Fields
  <2>2. CASE Frees(jobs[i])
    <3>1. /\ rec'[f] = [rec[f] EXCEPT !.role = "none", !.state = "eligible"]
          /\ \A q \in Records \ {f} : rec'[q] = failed[q]
      BY <1>3, <1>4, <2>1, <2>2
    <3>2. \A q \in Records : Kept(q)
      <4>1. rec'[f].role = "none"
        BY <2>1, <3>1 DEF Record
      <4>2. rec'[r].role = rec[r].role /\ rec'[r].request = rec[r].request
        BY <1>1, <1>4, <1>5, <2>1, <3>1
      <4>3. \A q \in Records \ {f, r} : rec'[q] = rec[q]
        BY <1>4, <3>1
      <4> QED
        BY <4>1, <4>2, <4>3 DEF Kept
    <3>3. InHands(f)
      BY <2>1, <3>1 DEF InHands, Record
    <3>4. \A q \in W \ {f} : InHands(q)
      BY <1>1, <1>2, <3>2, StillInHands
    <3> QED
      BY <3>3, <3>4
  <2>3. CASE ~Frees(jobs[i])
    <3>1. \A q \in Records : Kept(q)
      BY <1>3, <1>4, <1>5, <2>3 DEF Kept
    <3>2. f \in W => InHands(f) \/ Lost(r, f)'
      <4>1. CASE rec[f].request = r
        BY <1>3, <1>4, <2>1, <2>3, <4>1 DEF InHands
      <4>2. CASE request[r].status = "absent" /\ rec[f].request = None
        <5>1. Taken(f) /\ (mode = "upgrade" => rec[f].state = "material_processing") /\ rec[r].first = f /\ rec[r].mode = mode
          BY <1>1, <2>1, <4>2, FlowAssumption DEF JobOf
        <5>2. rec[f].state = "pending" /\ mode = "upgrade_pdf_compress" /\ rec[f].role = "source_first" /\ rec[f].status = "active"
          BY <1>6, <4>2, <5>1, <2>3 DEF Frees, Taken, UpgradeModes
        <5>3. rec'[f] = rec[f] /\ rec'[r] = row
          BY <1>1, <1>3, <1>4, <2>1, <2>3
        <5>4. row.first = rec[r].first /\ row.mode = rec[r].mode /\ row.status = "material_failed"
          BY <1>1 DEF row, Record
        <5> QED
          BY <4>2, <5>1, <5>2, <5>3, <5>4 DEF Lost
      <4> QED
        BY <2>1, <4>1, <4>2
    <3>4. \A q \in W \ {f} : InHands(q)
      BY <1>1, <1>2, <3>1, StillInHands
    <3> QED
      BY <1>1, <3>2, <3>4
  <2> QED
    BY <2>2, <2>3
<1>7. CASE mode \notin UpgradeModes
  <2>1. ~Frees(jobs[i])
    BY <1>7 DEF Frees
  <2>2. \A q \in Records : Kept(q)
    BY <1>3, <1>4, <1>5, <2>1 DEF Kept
  <2>3. f = None
    BY <1>1, <1>7 DEF JobOf
  <2> QED
    BY <1>1, <1>2, <2>2, <2>3, StillInHands
<1> QED
  BY <1>6, <1>7

\* What is lost stays lost, unless a conversion of the statement that was still
\* under way makes a request of it.
LEMMA LostStays ==
    ASSUME Linked, NEW f \in Records, NEW s \in Records, Lost(s, f), Operation
    PROVE  Lost(s, f)' \/ InHands(f)
<1>0. /\ Typed /\ f # s /\ rec[s].role = "source_second" /\ rec[s].status = "material_failed" /\ rec[s].first = f
      /\ rec[f].status = "active" /\ rec[f].role = "source_first" /\ rec[f].state = "pending" /\ rec[f].request = None
      /\ rec[f].mode \notin UpgradeModes /\ None \notin Records
  BY FlowAssumption DEF Linked, Columns, ColumnsOf, Lost
<1>1. rec'[f] = rec[f] /\ rec'[s] = rec[s] => Lost(s, f)'
  BY DEF Lost
\* No request that is under way names either of the two, and no job but one that
\* converts another second statement for f.
<1>2. ASSUME NEW t \in Records, request[t].status \in Live
      PROVE  t \notin {s, f} /\ request[t].first \in Records \ {s, f}
  <2>1. StoryOf(t) /\ t # None
    BY <1>0 DEF Linked, Stories
  <2>2. Holds(t, request[t].first) /\ request[t].first \in Records /\ rec[t].role = "source_second"
    BY <1>2, <2>1 DEF StoryOf, Live
  <2>3. request[t].first \notin {s, f} /\ t # f
    BY <1>0, <2>1, <2>2 DEF Holds
  <2>4. t # s
    <3>1. t = s => request[t].status = "awaiting_material"
      BY <1>0, <1>2, <2>1 DEF StoryOf, Live
    <3>2. request[t].status = "awaiting_material" => rec[t].first = request[t].first
      BY <2>1 DEF StoryOf
    <3> QED BY <1>0, <2>3, <3>1, <3>2
  <2> QED BY <2>2, <2>3, <2>4
<1>3. ASSUME NEW j \in Queue
      PROVE  j.rec \in Records \ {s, f} /\ j.first # s
  <2>1. JobOf(j) /\ j.rec \in Records /\ StoryOf(j.rec)
    BY <1>0, Queued DEF Linked, Jobs, Stories
  <2>2. j.rec \notin {s, f}
    BY <1>0, <2>1 DEF JobOf
  <2>3. CASE request[j.rec].status = "awaiting_material"
    <3>1. rec[j.rec].first = request[j.rec].first /\ rec[j.rec].first = j.first
      BY <2>1, <2>3 DEF StoryOf, JobOf
    <3> QED BY <1>2, <2>1, <2>2, <2>3, <3>1 DEF Live
  <2>4. CASE request[j.rec].status # "awaiting_material"
    <3>1. j.first # None => Taken(j.first)
      BY <2>1, <2>4 DEF JobOf
    <3> QED BY <1>0, <2>1, <2>2, <3>1 DEF Taken
  <2> QED BY <2>3, <2>4
<1>4. \A r \in Records : Fresh(r) \/ Standalone(r) \/ Claimable(r) \/ Candidate(r) => r \notin {f, s}
  BY <1>0 DEF Fresh, Standalone, Claimable, Candidate
<1>5. ASSUME \/ \E r \in Records, l \in Levels : CreateDraft(r, l) \/ CorrectLevel(r, l)
             \/ \E r \in Records : Void(r) \/ Restore(r)
             \/ \E u \in Uploads, r \in Records : FinishCreate(u, r)
      PROVE  Lost(s, f)'
  <2>1. PICK r \in Records : /\ Fresh(r) \/ Standalone(r)
                             /\ \A q \in Records \ {r} : rec'[q] = rec[q]
    BY <1>0, <1>5 DEF CreateDraft, CorrectLevel, Void, CanVoid, Restore, FinishCreate, Typed
  <2> QED BY <1>1, <1>4, <2>1
<1>6. ASSUME NEW a \in Records, NEW b \in Records, NEW kind \in Kinds, CreateUpgrade(a, b, kind)
      PROVE  Lost(s, f)'
  <2>1. Candidate(a) /\ Fresh(b) /\ \A q \in Records \ {a, b} : rec'[q] = rec[q]
    BY <1>0, <1>6 DEF CreateUpgrade, Typed
  <2> QED BY <1>1, <1>4, <2>1
<1>7. ASSUME NEW t \in Records, Reject(t) \/ \E r \in Records, l \in Levels : Approve(t, r, l)
      PROVE  Lost(s, f)'
  <2>1. request[t].status \in Live
    BY <1>7 DEF Reject, Approve, Live
  <2>2. CASE Reject(t)
    <3>1. \A q \in Records \ {t, request[t].first} : rec'[q] = rec[q]
      BY <1>0, <2>2 DEF Reject, Typed
    <3> QED BY <1>1, <1>2, <2>1, <3>1
  <2>3. ASSUME NEW r \in Records, NEW l \in Levels, Approve(t, r, l) PROVE Lost(s, f)'
    <3>1. Fresh(r) /\ \A q \in Records \ {t, r, request[t].first} : rec'[q] = rec[q]
      BY <1>0, <2>3 DEF Approve, Typed
    <3> QED BY <1>1, <1>2, <1>4, <2>1, <3>1
  <2> QED BY <1>7, <2>2, <2>3
<1>8. ASSUME NEW u \in Uploads, NEW r \in Records, FinishSick(u, r)
      PROVE  Lost(s, f)'
  <2> DEFINE a == up[u].first
  <2>1. /\ Fresh(r) /\ (a # None => Claimable(a))
        /\ \A q \in Records \ {r} : q # a => rec'[q] = rec[q]
    BY <1>0, <1>8 DEF FinishSick, Typed
  <2>2. a \in Records \cup {None}
    BY <1>0, <1>8, UploadFields DEF FinishSick
  <2> HIDE DEF a
  <2> QED BY <1>0, <1>1, <1>4, <2>1, <2>2
<1>9. ASSUME NEW u \in Uploads, FinishRetry(u)
      PROVE  Lost(s, f)'
  <2>1. up[u].rec \in Records /\ up[u].first \in Records \cup {None} /\ RetryOf(u) /\ up[u].op = "retry"
    BY <1>0, <1>9, UploadFields DEF FinishRetry, Linked, Retries
  <2>2. up[u].rec \notin {s, f} /\ up[u].first \notin {s, f}
    <3>1. CASE up[u].first = None
      BY <1>0, <2>1, <3>1 DEF RetryOf
    <3>2. CASE up[u].first # None
      BY <1>2, <2>1, <3>2 DEF RetryOf, Live
    <3> QED BY <3>1, <3>2
  <2>3. \A q \in Records : q \notin {up[u].rec, up[u].first} => rec'[q] = [rec[q] EXCEPT !.state = @]
    BY <1>9 DEF FinishRetry
  <2>4. \A q \in Records : [rec[q] EXCEPT !.state = @] = rec[q]
    BY <1>0 DEF Typed, Record
  <2> QED BY <1>1, <2>2, <2>3, <2>4
<1>10. ASSUME NEW r \in Records, NEW kind \in Kinds, RetryUpgrade(r, kind)
       PROVE  Lost(s, f)'
  <2> DEFINE a == rec[r].first
  <2>1. rec[r].mode \in UpgradeModes /\ rec[a].status = "active" /\ rec[a].state \in {"none", "eligible"}
    BY <1>10 DEF RetryUpgrade, CanRetryUpgrade
  <2>2. \A q \in Records \ {r} : q # a => rec'[q] = rec[q]
    BY <1>0, <1>10 DEF RetryUpgrade, Typed
  <2>3. r # s /\ r # f /\ a # s /\ a # f
    BY <1>0, <2>1
  <2> QED BY <1>1, <2>2, <2>3
<1>11. ASSUME NEW i \in 1 .. Len(jobs), JobSucceeds(i)
       PROVE  Lost(s, f)' \/ InHands(f)
  <2> DEFINE r == jobs[i].rec
             a == jobs[i].first
  <2>1. jobs[i] \in Queue /\ r \in Records \ {s, f} /\ a # s
    BY <1>0, <1>3, Queued
  <2>2. CASE jobs[i].mode \in UpgradeModes
    <3>1. a \in Records /\ a # r
      BY <2>1, <2>2, UpgradeJob DEF Linked
    <3>2. \A q \in Records \ {r, a} : rec'[q] = rec[q]
      BY <1>0, <1>11, <2>1, <2>2, <3>1 DEF JobSucceeds, Typed
    <3>3. a = f => rec'[f].request = r
      <4>1. rec'[a] = [rec[a] EXCEPT !.request = r, !.role = "source_first", !.state = "pending"]
        BY <1>0, <1>11, <2>1, <2>2, <3>1 DEF JobSucceeds, Typed
      <4>2. rec[a] \in Record
        BY <1>0, <3>1 DEF Typed
      <4>3. rec'[a].request = r
        BY <4>1, <4>2 DEF Record
      <4> QED BY <4>3
    <3> HIDE DEF r, a
    <3> QED BY <1>0, <1>1, <2>1, <3>2, <3>3 DEF InHands
  <2>3. CASE jobs[i].mode \notin UpgradeModes
    <3>1. \A q \in Records \ {r} : rec'[q] = rec[q]
      BY <1>0, <1>11, <2>1, <2>3 DEF JobSucceeds, Typed
    <3> QED BY <1>1, <2>1, <3>1
  <2> QED BY <2>2, <2>3
<1>12. ASSUME NEW i \in 1 .. Len(jobs), Fail(i)
       PROVE  Lost(s, f)'
  <2> DEFINE r == jobs[i].rec
             a == jobs[i].first
  <2>1. r \in Records \ {s, f} /\ a # s
    BY <1>0, <1>3, Queued
  <2>2. a = f => ~Frees(jobs[i])
    BY <1>0 DEF Frees
  <2>3. \A q \in Records \ {r} : q # a \/ ~Frees(jobs[i]) => rec'[q] = rec[q]
    BY <1>0, <1>12 DEF Fail, Typed
  <2> HIDE DEF r, a
  <2> QED BY <1>1, <2>1, <2>2, <2>3
<1>13. ASSUME \/ \E u \in Uploads, kind \in Kinds, l \in Levels, leader, confirmed \in BOOLEAN :
                    StartCreate(u, kind, l, leader, confirmed)
              \/ \E u \in Uploads, kind \in Kinds : StartSick(u, kind)
              \/ \E u \in Uploads, r \in Records, kind \in Kinds : StartRetry(u, r, kind)
              \/ \E u \in Uploads : AbandonUpload(u)
              \/ RepeatCheck \/ CloseMonth \/ ReopenMonth
       PROVE  Lost(s, f)'
  <2>1. rec' = rec
    BY <1>13 DEF StartCreate, StartSick, StartRetry, AbandonUpload, RepeatCheck, CloseMonth, ReopenMonth
  <2> QED BY <1>1, <2>1
<1>14. \A r \in Records : WorkerStep(r) => \E i \in 1 .. Len(jobs) : JobSucceeds(i) \/ Fail(i)
  BY DEF WorkerStep, JobRefused
<1>15. \A i \in 1 .. Len(jobs) : ConversionFails(i) => Fail(i)
  BY DEF ConversionFails
<1> QED
  BY <1>5, <1>6, <1>7, <1>8, <1>9, <1>10, <1>11, <1>12, <1>13, <1>14, <1>15 DEF Operation

\* A statement in somebody's hands stays there, or is lost to a PDF.
LEMMA HandedStep ==
    ASSUME Linked, NEW W \in SUBSET Records, Handed(W), Operation
    PROVE  \A q \in W : InHands(q) \/ \E s \in Records : Lost(s, q)'
<1>1. Handed(W)' => \A q \in W : InHands(q)
  BY DEF Handed, InHands, Queue
<1>2. ASSUME UNCHANGED <<rec, jobs>> PROVE Handed(W)'
  BY <1>2 DEF Handed
<1>3. ASSUME \/ \E u \in Uploads, kind \in Kinds, l \in Levels, leader, confirmed \in BOOLEAN :
                   StartCreate(u, kind, l, leader, confirmed)
             \/ \E u \in Uploads, kind \in Kinds : StartSick(u, kind)
             \/ \E u \in Uploads, r \in Records, kind \in Kinds : StartRetry(u, r, kind)
             \/ \E u \in Uploads : AbandonUpload(u)
             \/ RepeatCheck \/ CloseMonth \/ ReopenMonth
      PROVE  UNCHANGED <<rec, jobs>>
  BY <1>3 DEF StartCreate, StartSick, StartRetry, AbandonUpload, RepeatCheck, CloseMonth, ReopenMonth
<1>4. \A r \in Records : WorkerStep(r) => \E i \in 1 .. Len(jobs) : JobSucceeds(i) \/ Fail(i)
  BY DEF WorkerStep, JobRefused
<1>5. \A i \in 1 .. Len(jobs) : ConversionFails(i) => Fail(i)
  BY DEF ConversionFails
<1>6. CASE \E i \in 1 .. Len(jobs) : Fail(i)
  BY <1>6, FailKept
<1>7. CASE ~\E i \in 1 .. Len(jobs) : Fail(i)
  <2>1. Handed(W)'
    BY <1>2, <1>3, <1>4, <1>5, <1>7, DeclarationsKept, ReviewKept, CreateUpgradeKept, RetryUpgradeKept,
       FinishSickKept, FinishRetryKept, JobSucceedsKept DEF Operation
  <2> QED BY <1>1, <2>1
<1> QED BY <1>6, <1>7

\* What a claim is between steps: handed, or lost with the row active.
Accounted ==
    \A q \in Records : Handed({q}) \/ \E s \in Records : Lost(s, q)

LEMMA SourceKeptStep ==
    ASSUME Linked, Accounted, Operation
    PROVE  Accounted'
<1>1. ASSUME NEW q \in Records PROVE InHands(q) \/ \E s \in Records : Lost(s, q)'
  <2>1. CASE Handed({q})
    BY <2>1, HandedStep
  <2>2. ASSUME NEW s \in Records, Lost(s, q) PROVE InHands(q) \/ \E t \in Records : Lost(t, q)'
    BY <2>2, LostStays
  <2> QED
    BY <2>1, <2>2 DEF Accounted
<1>2. ASSUME NEW q \in Records PROVE InHands(q) => Handed({q})'
  BY AllInHands
<1> QED
  BY <1>1, <1>2 DEF Accounted

LEMMA AccountedFor ==
    ASSUME Accounted
    PROVE  SourceNotStranded
  BY DEF Accounted, Handed, Lost, LostToPdf, SourceNotStranded

-----------------------------------------------------------------------------
(* The records. *)

LEMMA LinksTold ==
    ASSUME Linked
    PROVE  UpgradeLinked
<1>1. ASSUME NEW s \in Records
      PROVE  LET f == request[s].first IN
             /\ request[s].status \in {"absent", "awaiting_material", "pending", "approved", "rejected"}
             /\ request[s].status = "awaiting_material" =>
                   /\ rec[f].status = "active" /\ rec[f].role = "source_first" /\ rec[f].request = s
                   /\ rec[s].status \in Unresolved /\ rec[s].request = s
             /\ request[s].status = "pending" =>
                   /\ rec[f].status = "active" /\ rec[f].state = "pending" /\ rec[f].request = s
                   /\ rec[s].status = "pending_upgrade" /\ rec[s].request = s
             /\ request[s].status = "approved" =>
                   Counts(f) /\ rec[f].request = s /\ rec[s].status = "active" /\ ~Counts(s)
             /\ request[s].status = "rejected" => rec[s].status = "void"
  <2>1. StoryOf(s)
    BY DEF Linked, Stories
  <2> QED
    BY <2>1, Fields DEF Linked, StoryOf, Holds, Live, Counts
<1> QED
  BY <1>1 DEF UpgradeLinked

\* The columns of the month that no claim depends on.
MonthTyped == follow \in {"none", "pending", "issued"} /\ closed \in BOOLEAN /\ sealed \in SUBSET (Records \X Levels)

LEMMA MonthTypedStep ==
    ASSUME Typed, MonthTyped, Next
    PROVE  MonthTyped'
<1>1. Counted \in SUBSET (Records \X Levels)
  BY DEF Counted, Typed, Record
<1>2. \A yes : Issue(yes) => follow' \in {"none", "pending", "issued"}
  BY DEF Issue, MonthTyped
<1>3. ASSUME NEW u \in Uploads, NEW r \in Records, FinishCreate(u, r) PROVE MonthTyped'
  <2>1. follow' \in {"none", "pending", "issued"}
    <3>1. UNCHANGED follow \/ Issue(up[u].level # Statement)
      BY <1>3 DEF FinishCreate
    <3> QED
      BY <1>2, <3>1 DEF MonthTyped
  <2>2. UNCHANGED <<closed, sealed>>
    BY <1>3 DEF FinishCreate
  <2> QED
    BY <2>1, <2>2 DEF MonthTyped
<1>4. ASSUME NEW i \in 1 .. Len(jobs), JobSucceeds(i) PROVE MonthTyped'
  <2>1. follow' \in {"none", "pending", "issued"}
    <3>1. UNCHANGED follow \/ Issue(TRUE)
      BY <1>4 DEF JobSucceeds
    <3> QED
      BY <1>2, <3>1 DEF MonthTyped
  <2>2. UNCHANGED <<closed, sealed>>
    BY <1>4 DEF JobSucceeds
  <2> QED
    BY <2>1, <2>2 DEF MonthTyped
<1>5. CASE RepeatCheck \/ CloseMonth \/ ReopenMonth
  BY <1>1, <1>5 DEF RepeatCheck, CloseMonth, ReopenMonth, MonthTyped
<1>6. ASSUME UNCHANGED <<follow, closed, sealed>> PROVE MonthTyped'
  BY <1>6 DEF MonthTyped
<1>7. ASSUME NEW i \in 1 .. Len(jobs), Fail(i) PROVE MonthTyped'
  BY <1>6, <1>7 DEF Fail
<1>8. ASSUME NEW u \in Uploads, NEW s \in Records, FinishSick(u, s) PROVE MonthTyped'
  BY <1>6, <1>8 DEF FinishSick
<1>9. ASSUME \/ \E r \in Records, l \in Levels : CreateDraft(r, l) \/ CorrectLevel(r, l)
             \/ \E u \in Uploads, kind \in Kinds, l \in Levels, leader, confirmed \in BOOLEAN :
                   StartCreate(u, kind, l, leader, confirmed)
             \/ \E s, r \in Records, l \in Levels : Approve(s, r, l)
             \/ \E s \in Records : Reject(s) \/ Void(s) \/ Restore(s)
             \/ \E u \in Uploads, kind \in Kinds : StartSick(u, kind)
             \/ \E u \in Uploads, r \in Records, kind \in Kinds : StartRetry(u, r, kind)
             \/ \E u \in Uploads : AbandonUpload(u)
      PROVE  MonthTyped'
  <2>1. UNCHANGED <<follow, closed, sealed>>
    BY <1>9 DEF CreateDraft, CorrectLevel, StartCreate, Approve, Reject, Void, Restore, StartSick,
       StartRetry, AbandonUpload
  <2> QED
    BY <1>6, <2>1
<1>12. ASSUME NEW f \in Records, NEW s \in Records, NEW kind \in Kinds, CreateUpgrade(f, s, kind) PROVE MonthTyped'
  BY <1>6, <1>12 DEF CreateUpgrade
<1>13. ASSUME NEW u \in Uploads, FinishRetry(u) PROVE MonthTyped'
  BY <1>6, <1>13 DEF FinishRetry
<1>14. ASSUME NEW r \in Records, NEW kind \in Kinds, RetryUpgrade(r, kind) PROVE MonthTyped'
  BY <1>6, <1>14 DEF RetryUpgrade
<1>10. \A r \in Records : WorkerStep(r) => \E i \in 1 .. Len(jobs) : JobSucceeds(i) \/ Fail(i)
  BY DEF WorkerStep, JobRefused
<1>11. \A i \in 1 .. Len(jobs) : ConversionFails(i) => Fail(i)
  BY DEF ConversionFails
<1> QED
  BY <1>3, <1>4, <1>5, <1>7, <1>8, <1>9, <1>10, <1>11, <1>12, <1>13, <1>14 DEF Next, Operation

LEMMA TypesTold ==
    ASSUME Linked, Bounded, MonthTyped, overlapped \in BOOLEAN
    PROVE  TypeOK
  BY DEF Linked, Typed, Requests, Bounded, MonthTyped, TypeOK

\* What holds until two requests retry one record at the same time.
Unharmed == Linked /\ Bounded /\ MonthTyped /\ SealKept /\ Accounted

LEMMA UnharmedStep ==
    ASSUME Unharmed, ~RetriesOverlap, Next
    PROVE  Unharmed'
<1>1. Linked' /\ Bounded' /\ MonthTyped' /\ SealKept'
  BY LinkedStep, BoundedStep, MonthTypedStep, ClosedStep DEF Unharmed, Linked
<1>2. Accounted'
  BY SourceKeptStep DEF Unharmed, Next
<1> QED BY <1>1, <1>2 DEF Unharmed

LEMMA UnharmedStutter ==
    ASSUME Unharmed, UNCHANGED vars
    PROVE  Unharmed'
<1>1. Typed' /\ OthersWait
  BY DEF vars, Unharmed, Linked, Typed, OthersWait
<1>2. Linked'
  BY <1>1, WaitingLinked DEF vars, Unharmed
<1>3. Bounded' /\ MonthTyped' /\ SealKept' /\ Accounted'
  BY DEF vars, Unharmed, Bounded, MonthTyped, SealKept, WorkLeft, Counted, Counts, Accounted, Handed, Lost
<1> QED BY <1>2, <1>3 DEF Unharmed

\* An upgrade's rows tell one story, a closed month stays as it was sealed, and a
\* first statement that is claimed is in somebody's hands or lost to a PDF, from
\* the start until two requests retry the same record at once
\* (retry_deduction_material and the material worker).
THEOREM RecordsStayKept == Spec => []RecordsKept
<1> DEFINE Inv == overlapped \in BOOLEAN /\ (~overlapped => Unharmed)
<1>1. Init => Inv
  <2> SUFFICES ASSUME Init PROVE Inv
    OBVIOUS
  <2>1. MonthTyped /\ SealKept
    BY DEF Init, MonthTyped, SealKept
  <2>2. Bounded
    BY FlowAssumption DEF Init, Bounded
  <2>3. Accounted
    BY DEF Init, Blank, Accounted, Handed
  <2> QED
    BY <2>1, <2>2, <2>3, LinkedInit DEF Unharmed, Init
<1>2. Inv /\ [Next]_vars => Inv'
  <2> SUFFICES ASSUME Inv, [Next]_vars PROVE Inv'
    OBVIOUS
  <2>1. CASE Next
    <3>1. overlapped' = (overlapped \/ RetriesOverlap)
      BY <2>1 DEF Next, Watched
    <3> QED BY <2>1, <3>1, UnharmedStep
  <2>2. CASE UNCHANGED vars
    <3>1. overlapped' = overlapped
      BY <2>2 DEF vars
    <3> QED BY <2>2, <3>1, UnharmedStutter
  <2> QED BY <2>1, <2>2
<1>3. Inv => RecordsKept
  BY LinksTold, TypesTold, AccountedFor DEF Unharmed, RecordsKept
<1> QED
  BY <1>1, <1>2, <1>3, PTL DEF Spec
=============================================================================
