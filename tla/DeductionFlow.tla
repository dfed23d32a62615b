---------------------------- MODULE DeductionFlow ----------------------------
(***************************************************************************)
(* The life of the deduction records of one employee, one repeat-controlled*)
(* type (mode 'upgrade') and one month: entry, missing or photographed     *)
(* material, background conversion, statement upgrades and their review,   *)
(* void and restore, level corrections, repeat follow-ups and month close. *)
(*                                                                         *)
(* A database transaction is one step: MonthGate shows that the gate makes *)
(* a committing handler atomic against close and reopen.  What is not one  *)
(* step is an async handler that awaits its uploads before its first       *)
(* flush: it reads, decides, lets every other request run, and writes what *)
(* it decided (Uploads).  create_deduction_upgrade and the retry of an     *)
(* upgrade claim the first statement with an UPDATE before they await, so  *)
(* they hold the writer all the way and stay one step.  The material       *)
(* worker takes jobs at any time; MaterialJobs shows that a job's result   *)
(* is applied at most once.                                                *)
(***************************************************************************)
EXTENDS Naturals, FiniteSets, Sequences

CONSTANTS
    Records,   \* deduction_records ids
    Uploads,   \* async requests that may await uploads at the same time
    Kinds,     \* the material a request brings: a subset of MaterialKinds
    MaxLevel,  \* 1 is STATEMENT, each further level the next heavier one
    MaxJobs,   \* bound: material jobs alive at one time
    None       \* SQL NULL

MaterialKinds == {"none", "photos", "pdf", "big_pdf"}

ASSUME FlowAssumption ==
    /\ None \notin Records
    /\ Kinds \subseteq MaterialKinds
    /\ MaxLevel \in Nat \ {0}
    /\ MaxJobs \in Nat

Levels == 1 .. MaxLevel
Statement == 1

Statuses == {"absent", "pending_material", "material_processing", "material_failed",
             "active", "pending_upgrade", "void"}
UpgradeStates == {"none", "eligible", "awaiting_material", "material_processing", "pending",
                  "material_failed", "rejected", "source_first", "source_second", "result"}
Modes == {"none", "deduction", "pdf_compress", "upgrade", "upgrade_pdf_compress"}
UpgradeModes == {"upgrade", "upgrade_pdf_compress"}
Unresolved == {"pending_material", "material_processing", "material_failed"}

VARIABLES
    rec,      \* deduction_records: status, level, material and upgrade columns
    request,  \* deduction_upgrade_requests, keyed by their second record
    jobs,     \* the live deduction_material_jobs (queued or processing)
    up,       \* what each awaiting request decided before it awaited
    follow,   \* the deduction_follow_ups row of the month
    closed,   \* the month is closed for the employee's circle
    sealed,   \* the counted records and levels when it was closed
    overlapped  \* history: two requests have retried one record at the same time

vars == <<rec, request, jobs, up, follow, closed, sealed, overlapped>>

Record == [status : Statuses, level : Levels,
           material : {"missing", "processing", "ready", "failed"},
           role : {"none", "source_first", "source_second", "result"},
           state : UpgradeStates,
           request : Records \cup {None},     \* upgrade_request_id
           mode : Modes, first : Records \cup {None},   \* of material_job_id
           from : {"absent", "active", "pending_material", "material_failed"}]  \* voided_from_status

Blank == [status |-> "absent", level |-> Statement, material |-> "missing", role |-> "none",
          state |-> "none", request |-> None, mode |-> "none", first |-> None, from |-> "absent"]

Job == [rec : Records, mode : Modes, first : Records \cup {None}]

Idle == [op |-> "idle"]
Upload == {Idle}
    \cup [op : {"create"}, kind : Kinds, level : Levels, confirmed : BOOLEAN]
    \cup [op : {"retry"}, rec : Records, kind : Kinds, first : Records \cup {None},
          clean : SUBSET Records]
    \cup [op : {"sick"}, kind : Kinds, first : Records \cup {None}]

TypeOK ==
    /\ rec \in [Records -> Record]
    /\ request \in [Records -> [status : {"absent", "awaiting_material", "pending", "approved", "rejected"},
                                first : Records \cup {None}]]
    /\ jobs \in Seq(Job) /\ Len(jobs) <= MaxJobs
    /\ up \in [Uploads -> Upload]
    /\ follow \in {"none", "pending", "issued"}
    /\ closed \in BOOLEAN
    /\ sealed \in SUBSET (Records \X Levels)
    /\ overlapped \in BOOLEAN

Init ==
    /\ rec = [r \in Records |-> Blank]
    /\ request = [r \in Records |-> [status |-> "absent", first |-> None]]
    /\ jobs = <<>>
    /\ up = [u \in Uploads |-> Idle]
    /\ follow = "none"
    /\ closed = FALSE
    /\ sealed = {}
    /\ overlapped = FALSE

-----------------------------------------------------------------------------
(* Queries. *)

\* deduction_counts_for_score: the second statement is evidence, not a deduction.
Counts(r) == rec[r].status = "active" /\ rec[r].role # "source_second"

Counted == {<<r, rec[r].level>> : r \in {q \in Records : Counts(q)}}

NextLevel(l) == IF l = MaxLevel THEN MaxLevel ELSE l + 1

\* The active records of the window that count as a previous punishment for r.
Previous(r) ==
    {q \in Records \ {r} : rec[q].status = "active" /\ rec[q].role \notin {"source_first", "source_second"}}

\* Seeded fault: the same level again passes.
EscalatesOrRepeats(r, l) == \A q \in Previous(r) : l >= rec[q].level

\* validate_material_repeat: level l of record r escalates every previous one.
Escalates(r, l) == \A q \in Previous(r) : l >= NextLevel(rec[q].level)

\* Seeded fault: the claim of another upgrade is not looked at.
CandidateClaimedOrNot(f) == rec[f].status = "active" /\ rec[f].level = Statement

\* statement_upgrade_candidate: an unused registered statement.
Candidate(f) ==
    /\ rec[f].status = "active"
    /\ rec[f].level = Statement
    /\ rec[f].state \in {"none", "eligible"}

\* What the claiming UPDATE of the sick-leave form asks: the level is not looked at again.
Claimable(f) == rec[f].status = "active" /\ rec[f].state \in {"none", "eligible"}

\* pending_material_conflict: an unfinished draft of the same level.
DraftConflict(l) ==
    \E r \in Records : rec[r].status \in {"pending_material", "material_failed"} /\ rec[r].level = l

\* Seeded fault: the columns of the row are not consulted, only the requests.
StandaloneByRequest(r) ==
    request[r].status = "absent" /\ \A s \in Records : request[s].first # r

\* A record that no upgrade refers to (_standalone_correction).
Standalone(r) ==
    /\ rec[r].request = None
    /\ rec[r].role = "none"
    /\ request[r].status = "absent"
    /\ \A s \in Records : request[s].first # r

Fresh(r) == rec[r].status = "absent"

\* UNIQUE first_deduction_id: a rejected request keeps its row, and the key.
KeyFree(f) == \A s \in Records : request[s].first # f

Converts(kind) == kind \in {"photos", "big_pdf"}

\* Seeded fault: material in conversion is not listed.
WorkLeftVisible ==
    \/ \E r \in Records : rec[r].status \in {"pending_material", "material_failed"}
    \/ \E s \in Records : request[s].status = "pending"
    \/ follow = "pending"

\* month_close_checklist for this employee's circle.
WorkLeft ==
    \/ \E r \in Records : rec[r].status \in Unresolved
    \/ \E s \in Records : request[s].status = "pending"
    \/ follow = "pending"

\* Follow-ups of the event date are issued by the record that becomes active.
Issue(yes) == follow' = IF yes /\ follow = "pending" THEN "issued" ELSE follow

-----------------------------------------------------------------------------
(* create_deduction. *)

\* Without material: a draft that neither counts nor escalates, no await.
CreateDraft(r, l) ==
    /\ Fresh(r) /\ ~closed
    /\ "none" \in Kinds
    /\ ~DraftConflict(l)
    /\ rec' = [rec EXCEPT ![r] = [Blank EXCEPT !.status = "pending_material", !.level = l]]
    /\ UNCHANGED <<request, jobs, up, follow, closed, sealed>>

\* With material: a leader registers a statement while no upgrade candidate
\* exists; a manager confirms the repeat and chooses a heavy enough level.
StartCreate(u, kind, l, leader, confirmed) ==
    /\ up[u] = Idle /\ kind # "none" /\ ~closed
    /\ ~DraftConflict(l)
    /\ IF leader
       THEN l = Statement /\ ~\E f \in Records : Candidate(f)
       ELSE Previous(None) # {} => confirmed /\ Escalates(None, l)
    /\ up' = [up EXCEPT ![u] = [op |-> "create", kind |-> kind, level |-> l, confirmed |-> confirmed]]
    /\ UNCHANGED <<rec, request, jobs, follow, closed, sealed>>

FinishCreate(u, r) ==
    LET d == up[u] IN
    /\ d.op = "create" /\ Fresh(r) /\ ~closed
    /\ IF Converts(d.kind)
       THEN LET mode == IF d.kind = "photos" THEN "deduction" ELSE "pdf_compress" IN
            /\ Len(jobs) < MaxJobs
            /\ rec' = [rec EXCEPT ![r] = [Blank EXCEPT !.status = "material_processing", !.level = d.level,
                                                       !.material = "processing", !.mode = mode]]
            /\ jobs' = Append(jobs, [rec |-> r, mode |-> mode, first |-> None])
            /\ UNCHANGED follow
       ELSE /\ Escalates(r, d.level)
            /\ Previous(r) # {} => d.confirmed
            /\ rec' = [rec EXCEPT ![r] = [Blank EXCEPT !.status = "active", !.level = d.level,
                                                       !.material = "ready"]]
            /\ Issue(d.level # Statement)
            /\ UNCHANGED jobs
    /\ up' = [up EXCEPT ![u] = Idle]
    /\ UNCHANGED <<request, closed, sealed>>

-----------------------------------------------------------------------------
(* create_deduction_upgrade, transfer excepted: the reviewer is not modelled. *)

\* The first statement is claimed by compare-and-set, then the second is stored.
CreateUpgrade(f, s, kind) ==
    LET mode == IF kind = "photos" THEN "upgrade" ELSE "upgrade_pdf_compress" IN
    /\ Candidate(f) /\ Fresh(s) /\ kind # "none" /\ ~closed
    /\ ~DraftConflict(Statement)
    /\ IF Converts(kind)
       THEN /\ Len(jobs) < MaxJobs
            /\ rec' = [rec EXCEPT
                  ![f].role = "source_first",
                  ![f].state = IF kind = "photos" THEN "material_processing" ELSE "pending",
                  ![s] = [Blank EXCEPT !.status = "material_processing", !.material = "processing",
                             !.role = "source_second", !.state = "material_processing",
                             !.mode = mode, !.first = f]]
            /\ jobs' = Append(jobs, [rec |-> s, mode |-> mode, first |-> f])
            /\ UNCHANGED request
       ELSE /\ KeyFree(f)
            /\ rec' = [rec EXCEPT
                  ![f].role = "source_first", ![f].state = "pending", ![f].request = s,
                  ![s] = [Blank EXCEPT !.status = "pending_upgrade", !.material = "ready",
                             !.role = "source_second", !.state = "pending", !.request = s]]
            /\ request' = [request EXCEPT ![s] = [status |-> "pending", first |-> f]]
            /\ UNCHANGED jobs
    /\ UNCHANGED <<up, follow, closed, sealed>>

\* resolve_deduction_upgrade under BEGIN IMMEDIATE.
Approve(s, r, l) ==
    LET f == request[s].first IN
    /\ request[s].status = "pending" /\ Fresh(r) /\ ~closed
    /\ l \in {2, 3}
    /\ request' = [request EXCEPT ![s].status = "approved"]
    /\ rec' = [rec EXCEPT
          ![f].role = "source_first", ![f].state = "source_first",
          ![s].status = "active", ![s].role = "source_second", ![s].state = "source_second",
          ![r] = [Blank EXCEPT !.status = "active", !.level = l, !.role = "result", !.state = "result"]]
    /\ UNCHANGED <<jobs, up, follow, closed, sealed>>

Reject(s) ==
    LET f == request[s].first IN
    /\ request[s].status = "pending" /\ ~closed
    /\ request' = [request EXCEPT ![s].status = "rejected"]
    /\ rec' = [rec EXCEPT
          ![f].request = None, ![f].role = "none", ![f].state = "eligible",
          ![s].status = "void", ![s].state = "rejected"]
    /\ UNCHANGED <<jobs, up, follow, closed, sealed>>

-----------------------------------------------------------------------------
(* create_sick_leave with a violation statement. *)

StartSick(u, kind) ==
    /\ up[u] = Idle /\ ~closed
    /\ ~DraftConflict(Statement)
    /\ \/ \E f \in Records :
             Candidate(f) /\ up' = [up EXCEPT ![u] = [op |-> "sick", kind |-> kind, first |-> f]]
       \/ /\ ~\E f \in Records : Candidate(f)
          /\ up' = [up EXCEPT ![u] = [op |-> "sick", kind |-> kind, first |-> None]]
    /\ UNCHANGED <<rec, request, jobs, follow, closed, sealed>>

\* A first statement that another upgrade has taken, or a void one, refuses the leave.
FinishSick(u, s) ==
    LET d == up[u]
        f == d.first
        stage == CASE d.kind = "none" -> "awaiting_material"
                   [] Converts(d.kind) -> "material_processing"
                   [] OTHER -> "pending"
        mode == CASE d.kind = "photos" -> IF f = None THEN "deduction" ELSE "upgrade"
                  [] d.kind = "big_pdf" -> IF f = None THEN "pdf_compress" ELSE "upgrade_pdf_compress"
                  [] OTHER -> "none"
        second == [Blank EXCEPT
            !.status = CASE d.kind = "none" -> "pending_material"
                         [] Converts(d.kind) -> "material_processing"
                         [] OTHER -> IF f = None THEN "active" ELSE "pending_upgrade",
            !.material = CASE d.kind = "none" -> "missing"
                           [] Converts(d.kind) -> "processing"
                           [] OTHER -> "ready",
            !.role = IF f = None THEN "none" ELSE "source_second",
            !.state = IF f = None THEN "none" ELSE stage,
            !.request = IF f = None THEN None ELSE s,
            !.mode = mode, !.first = f]
    IN
    /\ d.op = "sick" /\ Fresh(s) /\ ~closed
    /\ f # None => Claimable(f) /\ KeyFree(f)
    /\ IF f = None
       THEN /\ rec' = [rec EXCEPT ![s] = second]
            /\ UNCHANGED request
       ELSE /\ rec' = [rec EXCEPT ![s] = second, ![f].role = "source_first",
                                  ![f].state = stage, ![f].request = s]
            /\ request' = [request EXCEPT ![s] =
                  [status |-> IF stage = "pending" THEN "pending" ELSE "awaiting_material", first |-> f]]
    /\ IF Converts(d.kind)
       THEN Len(jobs) < MaxJobs /\ jobs' = Append(jobs, [rec |-> s, mode |-> mode, first |-> f])
       ELSE UNCHANGED jobs
    /\ up' = [up EXCEPT ![u] = Idle]
    /\ UNCHANGED <<follow, closed, sealed>>

-----------------------------------------------------------------------------
(* retry_deduction_material. *)

\* A retry always converts: photos to a PDF, any PDF to a compressed one.
RetryMode(kind, upgrade) ==
    IF kind = "photos" THEN IF upgrade THEN "upgrade" ELSE "deduction"
    ELSE IF upgrade THEN "upgrade_pdf_compress" ELSE "pdf_compress"

AwaitsUpgrade(r) == rec[r].request # None /\ request[rec[r].request].status = "awaiting_material"

\* The row is read and judged before the upload is awaited.  The ORM will
\* write a column only if the new value differs from the one read here.
StartRetry(u, r, kind) ==
    LET f == IF AwaitsUpgrade(r) THEN request[rec[r].request].first ELSE None IN
    /\ up[u] = Idle /\ kind # "none" /\ ~closed
    /\ rec[r].status \in {"pending_material", "material_failed"}
    /\ IF AwaitsUpgrade(r)
       THEN rec[f].request = rec[r].request /\ rec[f].status = "active"
       ELSE rec[r].mode \notin UpgradeModes /\ Escalates(r, rec[r].level)
    /\ up' = [up EXCEPT ![u] = [op |-> "retry", rec |-> r, kind |-> kind, first |-> f,
                               clean |-> {q \in {r, f} \cap Records : rec[q].state = "material_processing"}]]
    /\ UNCHANGED <<rec, request, jobs, follow, closed, sealed>>

\* What was decided is written; nothing looks at the row again.
FinishRetry(u) ==
    LET d == up[u]
        r == d.rec
        mode == RetryMode(d.kind, d.first # None)
        written == IF d.first = None THEN {} ELSE {r, d.first} \ d.clean
        row == [rec[r] EXCEPT !.status = "material_processing", !.material = "processing",
                              !.mode = mode, !.first = d.first]
    IN
    /\ d.op = "retry" /\ ~closed
    /\ Len(jobs) < MaxJobs
    /\ rec' = [q \in Records |->
                  [(IF q = r THEN row ELSE rec[q]) EXCEPT
                      !.state = IF q \in written THEN "material_processing" ELSE @]]
    /\ jobs' = Append(jobs, [rec |-> r, mode |-> mode, first |-> d.first])
    /\ up' = [up EXCEPT ![u] = Idle]
    /\ UNCHANGED <<request, follow, closed, sealed>>

\* The retry of an upgrade whose request was never made claims the first again.
CanRetryUpgrade(r) ==
    LET f == rec[r].first IN
    /\ rec[r].status \in {"pending_material", "material_failed"}
    /\ ~AwaitsUpgrade(r) /\ rec[r].mode \in UpgradeModes
    /\ rec[f].request = None /\ rec[f].status = "active"
    /\ rec[f].state \in {"none", "eligible"}

RetryUpgrade(r, kind) ==
    LET f == rec[r].first
        mode == RetryMode(kind, TRUE)
    IN
    /\ CanRetryUpgrade(r) /\ kind # "none" /\ ~closed
    /\ Len(jobs) < MaxJobs
    /\ rec' = [rec EXCEPT
          ![f].state = "material_processing", ![f].role = "source_first",
          ![r].status = "material_processing", ![r].material = "processing",
          ![r].state = "material_processing", ![r].mode = mode]
    /\ jobs' = Append(jobs, [rec |-> r, mode |-> mode, first |-> f])
    /\ UNCHANGED <<request, up, follow, closed, sealed>>

\* The client goes away, a check fails or the upload is invalid: rollback.
AbandonUpload(u) ==
    /\ up[u] # Idle
    /\ up' = [up EXCEPT ![u] = Idle]
    /\ UNCHANGED <<rec, request, jobs, follow, closed, sealed>>

-----------------------------------------------------------------------------
(* The material worker: one job's result in one transaction. *)

Drop(s, i) == SubSeq(s, 1, i - 1) \o SubSeq(s, i + 1, Len(s))

\* The request that waits for the result of job j.
Awaited(j) == request[j.rec].status = "awaiting_material" /\ request[j.rec].first = j.first

\* _apply_success_result raises MaterialError, and the job is failed.
Refused(j) ==
    IF j.mode \in UpgradeModes
    THEN IF Awaited(j)
         THEN rec[j.first].request # j.rec \/ rec[j.rec].request # j.rec
         ELSE rec[j.first].request # None
    ELSE ~Escalates(j.rec, rec[j.rec].level)

\* The INSERT of a second request for the same statement raises IntegrityError,
\* which rolls back and leaves the job to be claimed again and again.
Collides(j) ==
    /\ j.mode \in UpgradeModes /\ ~Awaited(j)
    /\ ~KeyFree(j.first) \/ request[j.rec].status # "absent"

JobSucceeds(i) ==
    LET j == jobs[i] IN
    /\ ~Refused(j) /\ ~Collides(j)
    /\ jobs' = Drop(jobs, i)
    /\ IF j.mode \in UpgradeModes
       THEN /\ request' = [request EXCEPT ![j.rec] = [status |-> "pending", first |-> j.first]]
            /\ rec' = [rec EXCEPT
                  ![j.first].request = j.rec, ![j.first].role = "source_first", ![j.first].state = "pending",
                  ![j.rec].request = j.rec, ![j.rec].role = "source_second", ![j.rec].state = "pending",
                  ![j.rec].status = "pending_upgrade", ![j.rec].material = "ready"]
            /\ UNCHANGED follow
       ELSE /\ rec' = [rec EXCEPT ![j.rec].status = "active", ![j.rec].material = "ready"]
            /\ Issue(TRUE)
            /\ UNCHANGED request
    /\ UNCHANGED <<up, closed, sealed>>

\* Seeded fault: an upgrade whose PDF was compressed is forgotten.
FreesPhotos(j) ==
    j.mode = "upgrade" /\ rec[j.first].request = None /\ rec[j.first].state = "material_processing"

\* _restore_upgrade_source frees a first statement that no request refers to.
Frees(j) ==
    /\ j.mode \in UpgradeModes
    /\ rec[j.first].request = None
    /\ rec[j.first].state = "material_processing"

\* _persist_material_failure.
Fail(i) ==
    LET j == jobs[i]
        failed == [rec EXCEPT
            ![j.rec].status = "material_failed", ![j.rec].material = "failed",
            ![j.rec].state = IF j.mode = "upgrade" THEN "material_failed" ELSE @]
    IN
    /\ jobs' = Drop(jobs, i)
    /\ rec' = IF Frees(j)
              THEN [failed EXCEPT ![j.first].role = "none", ![j.first].state = "eligible"]
              ELSE failed
    /\ UNCHANGED <<request, up, follow, closed, sealed>>

\* Seeded fault: the HTTPException of the repeat check is not translated.
JobRefusedUpgrade(i) == jobs[i].mode \in UpgradeModes /\ Refused(jobs[i]) /\ Fail(i)

JobRefused(i) == Refused(jobs[i]) /\ Fail(i)

\* The material is missing, unreadable or too large: any job may end so.
ConversionFails(i) == Fail(i)

-----------------------------------------------------------------------------
(* Corrections under BEGIN IMMEDIATE, follow-ups, month close. *)

\* Seeded fault: void does not look at the status.
CanVoidUnchecked(r) == Standalone(r)

CanVoid(r) == Standalone(r) /\ rec[r].status \in {"active", "pending_material", "material_failed"}

Void(r) ==
    /\ CanVoid(r) /\ ~closed
    /\ rec' = [rec EXCEPT ![r].status = "void", ![r].from = rec[r].status]
    /\ UNCHANGED <<request, jobs, up, follow, closed, sealed>>

Restore(r) ==
    LET previous == rec[r].from IN
    /\ Standalone(r) /\ ~closed
    /\ rec[r].status = "void"
    /\ previous \in {"active", "pending_material", "material_failed"}
    /\ rec[r].material # "processing"
    /\ previous = "active" => rec[r].material = "ready" /\ Escalates(r, rec[r].level)
    /\ rec' = [rec EXCEPT ![r].status = previous, ![r].from = "absent"]
    /\ UNCHANGED <<request, jobs, up, follow, closed, sealed>>

CorrectLevel(r, l) ==
    /\ Standalone(r) /\ ~closed
    /\ rec[r].status \in {"active", "pending_material", "material_failed"}
    /\ rec[r].level # l
    /\ rec[r].status = "active" => Escalates(r, l)
    /\ rec' = [rec EXCEPT ![r].level = l]
    /\ UNCHANGED <<request, jobs, up, follow, closed, sealed>>

\* check_attendance_repeat by a leader leaves a follow-up behind.
RepeatCheck ==
    /\ ~closed /\ follow = "none"
    /\ Previous(None) # {}
    /\ follow' = "pending"
    /\ UNCHANGED <<rec, request, jobs, up, closed, sealed>>

CloseMonth ==
    /\ ~closed /\ ~WorkLeft
    /\ closed' = TRUE
    /\ sealed' = Counted
    /\ UNCHANGED <<rec, request, jobs, up, follow>>

ReopenMonth ==
    /\ closed
    /\ closed' = FALSE
    /\ sealed' = {}
    /\ UNCHANGED <<rec, request, jobs, up, follow>>

-----------------------------------------------------------------------------
WorkerStep(r) == \E i \in 1 .. Len(jobs) : jobs[i].rec = r /\ (JobSucceeds(i) \/ JobRefused(i))

\* Two requests have read one record and will both retry it: neither looks at the
\* row again after its upload (retry_deduction_material).
RetriesOverlap ==
    \E u, w \in Uploads : u # w /\ up[u].op = "retry" /\ up[w].op = "retry" /\ up[u].rec = up[w].rec

Watched == overlapped' = (overlapped \/ RetriesOverlap)

Operation ==
    \/ \E r \in Records, l \in Levels : CreateDraft(r, l) \/ CorrectLevel(r, l)
    \/ \E u \in Uploads, kind \in Kinds, l \in Levels, leader, confirmed \in BOOLEAN :
          StartCreate(u, kind, l, leader, confirmed)
    \/ \E u \in Uploads, r \in Records : FinishCreate(u, r) \/ FinishSick(u, r)
    \/ \E f, s \in Records, kind \in Kinds : CreateUpgrade(f, s, kind)
    \/ \E s, r \in Records, l \in Levels : Approve(s, r, l)
    \/ \E s \in Records : Reject(s) \/ Void(s) \/ Restore(s)
    \/ \E u \in Uploads, kind \in Kinds : StartSick(u, kind)
    \/ \E u \in Uploads, r \in Records, kind \in Kinds : StartRetry(u, r, kind)
    \/ \E u \in Uploads : FinishRetry(u) \/ AbandonUpload(u)
    \/ \E r \in Records, kind \in Kinds : RetryUpgrade(r, kind)
    \/ \E i \in 1 .. Len(jobs) : ConversionFails(i)
    \/ \E r \in Records : WorkerStep(r)
    \/ RepeatCheck \/ CloseMonth \/ ReopenMonth

Next == Operation /\ Watched

Spec == Init /\ [][Next]_vars

\* The worker thread loops for as long as the process lives and takes the
\* oldest job first, so a job that converts reaches _apply_success_result.
\* Nothing makes a conversion fail.
FairSpec == Spec /\ \A r \in Records : WF_vars(WorkerStep(r) /\ Watched)

-----------------------------------------------------------------------------
(* Properties. *)

\* The request, its two statements and their columns tell one story, whatever
\* the order of retries, worker results, reviews, voids and corrections.
UpgradeLinked ==
    \A s \in Records : LET f == request[s].first IN
        CASE request[s].status = "absent" -> TRUE
          [] request[s].status = "awaiting_material" ->
                /\ rec[f].status = "active" /\ rec[f].role = "source_first" /\ rec[f].request = s
                /\ rec[s].status \in Unresolved /\ rec[s].request = s
          [] request[s].status = "pending" ->
                /\ rec[f].status = "active" /\ rec[f].state = "pending" /\ rec[f].request = s
                /\ rec[s].status = "pending_upgrade" /\ rec[s].request = s
          [] request[s].status = "approved" ->
                /\ Counts(f) /\ rec[f].request = s
                /\ rec[s].status = "active" /\ ~Counts(s)
          [] request[s].status = "rejected" -> rec[s].status = "void"

\* A first statement is spent on one upgrade at a time: one live request or one
\* conversion, over direct upgrades, sick leaves and retries of failed jobs, until
\* two requests retry one record at the same time.
OneClaimPerStatement ==
    ~overlapped => \A f \in Records :
        Cardinality({s \in Records : request[s].first = f
                                     /\ request[s].status \in {"awaiting_material", "pending", "approved"}}
                    \cup {jobs[i].rec : i \in {k \in 1 .. Len(jobs) : jobs[k].first = f}}) <= 1

\* Outside the sick-leave form and a review, no record becomes active beside a
\* punishment it does not escalate, however stale the answer the request got.
EscalationAtActivation ==
    [][\A r \in Records :
        /\ rec[r].status # "active" /\ rec'[r].status = "active"
        /\ rec'[r].role = "none"
        /\ ~\E u \in Uploads : up[u].op = "sick" /\ up'[u] = Idle
        => \A q \in Previous(r) : rec'[r].level >= NextLevel(rec[q].level)]_vars

\* While a month is closed nothing is left to do in it, and the records that
\* count are the ones it was closed with.
SealKept == closed => ~WorkLeft /\ Counted = sealed

\* The one way to lose a first statement: its upgrade brought a PDF that had to be
\* compressed, which claims it as "pending" (create_deduction_upgrade), and the
\* compression failed, which gives "material_processing" back and nothing else.
LostToPdf(f) ==
    /\ rec[f].state = "pending"
    /\ \E s \in Records : /\ rec[s].first = f /\ rec[s].mode = "upgrade_pdf_compress"
                          /\ rec[s].status = "material_failed"

\* A claimed first statement belongs to a request or to a running conversion;
\* a failed conversion gives it back (_restore_upgrade_source), LostToPdf apart.
SourceNotStranded ==
    \A f \in Records : rec[f].role = "source_first" =>
        \/ rec[f].request # None
        \/ \E i \in 1 .. Len(jobs) : jobs[i].first = f
        \/ LostToPdf(f)

\* What holds of the records at every moment until two requests retry one record
\* at the same time: types, the story of an upgrade told by its three rows, first
\* statements in somebody's hands, and the seal.
RecordsKept == ~overlapped => TypeOK /\ UpgradeLinked /\ SourceNotStranded /\ SealKept

\* Material in conversion is settled: the job is completed, one way or the other.
MaterialSettles ==
    \A r \in Records : rec[r].status = "material_processing" ~> rec[r].status # "material_processing"

\* The same for all but a second upgrade of a statement that a rejected request
\* still names (for which the code breaks MaterialSettles).
MaterialSettlesOnce ==
    \A r \in Records : rec[r].status = "material_processing" ~>
        \/ rec[r].status # "material_processing"
        \/ \E s \in Records : request[s].status = "rejected" /\ request[s].first = rec[r].first

\* A void record comes back only as what it was before it was voided.
VoidRestoresPrevious ==
    [][\A r \in Records : rec[r].status = "void" /\ rec'[r].status # "void"
        => rec'[r].status = rec[r].from]_vars

\* One unfinished declaration of a level at a time.
OneUnfinishedDraft ==
    \A r, q \in Records :
        /\ {rec[r].status, rec[q].status} \subseteq {"pending_material", "material_failed"}
        /\ rec[r].level = rec[q].level
        => r = q

\* A failed upgrade can be staged again while its first statement is active and
\* in nobody else's hands.
FailedUpgradeRetryable ==
    \A r \in Records : LET f == rec[r].first IN
        /\ rec[r].status = "material_failed" /\ rec[r].mode \in UpgradeModes /\ ~AwaitsUpgrade(r)
        /\ rec[f].status = "active" /\ rec[f].request = None
        /\ ~\E i \in 1 .. Len(jobs) : jobs[i].first = f
        => CanRetryUpgrade(r)

\* Whoever is told to supply the material of a failed upgrade can: its first
\* statement has not gone to another upgrade for good.
FailedUpgradeHasFirst ==
    \A r \in Records :
        rec[r].status = "material_failed" /\ rec[r].mode \in UpgradeModes /\ ~AwaitsUpgrade(r)
        => rec[rec[r].first].state # "source_first"
==============================================================================
