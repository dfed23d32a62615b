---------------------------- MODULE MaterialJobs ----------------------------
(***************************************************************************)
(* The background conversion of deduction material (deduction_materials.py)*)
(* from claim to cleanup: job rows and deduction rows in SQLite, source and*)
(* generated files on disk, and workers that share both with nothing but   *)
(* the claim token between them.  A worker can crash between any two of its*)
(* transactions and file operations, its heartbeat can die while it still  *)
(* converts, and a claim without heartbeat goes stale and is taken over.   *)
(***************************************************************************)
EXTENDS Integers, FiniteSets

CONSTANTS
    Jobs,        \* job ids, in the order of creation
    Workers,     \* worker threads, of one process or of its successors
    MaxCleanup,  \* MAX_SOURCE_CLEANUP_ATTEMPTS
    MaxFaults    \* bound: crashes, dead heartbeats, database and unlink errors

ASSUME JobsAssumption ==
    /\ Jobs \subseteq Nat
    /\ MaxCleanup \in Nat \ {0}
    /\ MaxFaults \in Nat

NoJob == -1

VARIABLES
    row,      \* deduction_material_jobs
    record,   \* the deduction's material: "open", "ready" or "failed"
    sources,  \* the jobs whose source files are on disk
    outputs,  \* the generated files on disk, named by job and claim
    worker,   \* the local state of each worker
    faults    \* how many faults have happened

vars == <<row, record, sources, outputs, worker, faults>>

Row == [status : {"queued", "processing", "succeeded", "failed"},
        claim : Nat,      \* claim_generation; claim_token is fresh with each
        stale : BOOLEAN,  \* started_at is older than STALE_PROCESSING_AFTER
        output : Nat,     \* claim whose file the output row names
        cleanup : {"idle", "pending", "done", "needs_attention"},
        attempts : 0 .. MaxCleanup]   \* source_cleanup_attempts

Worker == [pc : {"idle", "selected", "claimed", "converted", "failing", "cleaning", "unlinked", "unlink_failed"},
           job : Jobs \cup {NoJob},
           claim : Nat,
           beating : BOOLEAN,            \* the heartbeat thread is alive
           attempts : 0 .. MaxCleanup]   \* as read before the unlink

Free == [pc |-> "idle", job |-> NoJob, claim |-> 0, beating |-> FALSE, attempts |-> 0]

TypeOK ==
    /\ row \in [Jobs -> Row]
    /\ record \in [Jobs -> {"open", "ready", "failed"}]
    /\ sources \subseteq Jobs
    /\ outputs \subseteq Jobs \X Nat
    /\ worker \in [Workers -> Worker]
    /\ faults \in 0 .. MaxFaults

Init ==
    /\ row = [j \in Jobs |-> [status |-> "queued", claim |-> 0, stale |-> FALSE, output |-> 0,
                              cleanup |-> "idle", attempts |-> 0]]
    /\ record = [j \in Jobs |-> "open"]
    /\ sources = Jobs
    /\ outputs = {}
    /\ worker = [w \in Workers |-> Free]
    /\ faults = 0

-----------------------------------------------------------------------------
(* Conditions of the queries and updates. *)

\* Seeded fault: only queued jobs are taken, a crashed one is left behind.
ClaimableQueued(j) == row[j].status = "queued"

\* Seeded fault: an old claim is taken over even if the job has ended.
ClaimableOld(j) == row[j].status = "queued" \/ row[j].stale

\* _claimable_material_jobs.
Claimable(j) ==
    \/ row[j].status = "queued"
    \/ row[j].status = "processing" /\ row[j].stale

Terminal(j) == row[j].status \in {"succeeded", "failed"}

\* Seeded fault: the terminal update names the job alone.
OwnsById(w) == TRUE

\* The WHERE of _mark_job_terminal.
Owns(w) ==
    /\ row[worker[w].job].status = "processing"
    /\ row[worker[w].job].claim = worker[w].claim

\* Seeded fault: failed conversions are not swept.
CleanupDueSucceeded(j) == row[j].status = "succeeded" /\ row[j].cleanup = "pending"

CleanupDue(j) == Terminal(j) /\ row[j].cleanup = "pending"

\* ORDER BY created_at, id LIMIT 1.
Oldest(j, S) == j \in S /\ \A k \in S : j <= k

\* Seeded fault: one attempt too many.
ExhaustedLate(tries) == tries > MaxCleanup

Exhausted(tries) == tries >= MaxCleanup

\* Seeded fault: the file of the current claim is meant, whoever made it.
GeneratedByClaim(w) == <<worker[w].job, row[worker[w].job].claim>>

\* The file this worker generated: generated_key.
Generated(w) == <<worker[w].job, worker[w].claim>>

Go(w, pc) == worker' = [worker EXCEPT ![w].pc = pc]
Rest(w) == worker' = [worker EXCEPT ![w] = Free]
Fault == faults < MaxFaults /\ faults' = faults + 1

-----------------------------------------------------------------------------
(* claim_next_deduction_material_job: a SELECT, then a conditional UPDATE. *)

Select(w, j) ==
    /\ worker[w].pc = "idle"
    /\ Oldest(j, {k \in Jobs : Claimable(k)})
    /\ worker' = [worker EXCEPT ![w] = [@ EXCEPT !.pc = "selected", !.job = j]]
    /\ UNCHANGED <<row, record, sources, outputs, faults>>

Claim(w) ==
    LET j == worker[w].job
        next == row[j].claim + 1
    IN
    /\ worker[w].pc = "selected"
    /\ IF Claimable(j)
       THEN /\ row' = [row EXCEPT ![j] = [@ EXCEPT !.status = "processing", !.claim = next, !.stale = FALSE]]
            /\ worker' = [worker EXCEPT ![w] = [@ EXCEPT !.pc = "claimed", !.claim = next, !.beating = TRUE]]
       ELSE Rest(w) /\ UNCHANGED row
    /\ UNCHANGED <<record, sources, outputs, faults>>

\* started_at passes the limit of 15 minutes: not while a heartbeat renews it
\* every 30 seconds.
Age(j) ==
    /\ row[j].status = "processing" /\ ~row[j].stale
    /\ ~\E w \in Workers : worker[w].beating /\ worker[w].job = j /\ Owns(w)
    /\ row' = [row EXCEPT ![j].stale = TRUE]
    /\ UNCHANGED <<record, sources, outputs, worker, faults>>

-----------------------------------------------------------------------------
(* Conversion, and its result in one transaction. *)

\* _make_pdf, _make_compressed_pdf: the file appears under its final name.
Convert(w) ==
    /\ worker[w].pc = "claimed"
    /\ worker[w].job \in sources
    /\ outputs' = outputs \cup {Generated(w)}
    /\ Go(w, "converted")
    /\ UNCHANGED <<row, record, sources, faults>>

\* MaterialError: a missing, broken or too large source.
ConvertFails(w) ==
    /\ worker[w].pc = "claimed"
    /\ Go(w, "failing")
    /\ UNCHANGED <<row, record, sources, outputs, faults>>

\* _mark_job_terminal and _apply_success_result; a lost claim drops the file.
Apply(w) ==
    LET j == worker[w].job IN
    /\ worker[w].pc = "converted"
    /\ IF Owns(w)
       THEN /\ row' = [row EXCEPT ![j] = [@ EXCEPT !.status = "succeeded", !.output = worker[w].claim,
                                                    !.cleanup = "pending"]]
            /\ record' = [record EXCEPT ![j] = "ready"]
            /\ Go(w, "cleaning")
            /\ UNCHANGED outputs
       ELSE /\ outputs' = outputs \ {Generated(w)}
            /\ Rest(w)
            /\ UNCHANGED <<row, record>>
    /\ UNCHANGED <<sources, faults>>

\* _apply_success_result raises MaterialError: rollback, then record a failure.
ApplyRefused(w) ==
    /\ worker[w].pc = "converted" /\ Owns(w)
    /\ outputs' = outputs \ {Generated(w)}
    /\ Go(w, "failing")
    /\ UNCHANGED <<row, record, sources, faults>>

\* _persist_material_failure.
PersistFailure(w) ==
    LET j == worker[w].job IN
    /\ worker[w].pc = "failing"
    /\ IF Owns(w)
       THEN /\ row' = [row EXCEPT ![j] = [@ EXCEPT !.status = "failed", !.cleanup = "pending"]]
            /\ record' = [record EXCEPT ![j] = "failed"]
            /\ Go(w, "cleaning")
       ELSE Rest(w) /\ UNCHANGED <<row, record>>
    /\ UNCHANGED <<sources, outputs, faults>>

\* Any other exception rolls back: the job stays claimed until it goes stale.
Breaks(w) ==
    /\ worker[w].pc \in {"claimed", "converted", "failing"}
    /\ Fault
    /\ outputs' = IF worker[w].pc = "converted" THEN outputs \ {Generated(w)} ELSE outputs
    /\ Rest(w)
    /\ UNCHANGED <<row, record, sources>>

-----------------------------------------------------------------------------
(* _cleanup_source_files after a commit, or later from the sweep. *)

Sweep(w, j) ==
    /\ worker[w].pc = "idle"
    /\ Oldest(j, {k \in Jobs : CleanupDue(k)})
    /\ worker' = [worker EXCEPT ![w] = [@ EXCEPT !.pc = "cleaning", !.job = j]]
    /\ UNCHANGED <<row, record, sources, outputs, faults>>

Unlink(w) ==
    LET j == worker[w].job IN
    /\ worker[w].pc = "cleaning"
    /\ IF Terminal(j) /\ row[j].cleanup = "pending"
       THEN /\ sources' = sources \ {j}
            /\ worker' = [worker EXCEPT ![w] = [@ EXCEPT !.pc = "unlinked", !.attempts = row[j].attempts]]
       ELSE Rest(w) /\ UNCHANGED sources
    /\ UNCHANGED <<row, record, outputs, faults>>

UnlinkFails(w) ==
    LET j == worker[w].job IN
    /\ worker[w].pc = "cleaning"
    /\ Terminal(j) /\ row[j].cleanup = "pending"
    /\ Fault
    /\ worker' = [worker EXCEPT ![w] = [@ EXCEPT !.pc = "unlink_failed", !.attempts = row[j].attempts]]
    /\ UNCHANGED <<row, record, sources, outputs>>

RecordCleanup(w) ==
    LET j == worker[w].job
        tries == worker[w].attempts + 1
    IN
    /\ worker[w].pc \in {"unlinked", "unlink_failed"}
    /\ row' = [row EXCEPT ![j] = [@ EXCEPT
            !.attempts = tries,
            !.cleanup = IF worker[w].pc = "unlinked" THEN "done"
                        ELSE IF Exhausted(tries) THEN "needs_attention" ELSE row[j].cleanup]]
    /\ Rest(w)
    /\ UNCHANGED <<record, sources, outputs, faults>>

-----------------------------------------------------------------------------
(* The process dies; or only a heartbeat thread, on any database error. *)

Crash(w) ==
    /\ worker[w].pc # "idle"
    /\ Fault
    /\ Rest(w)
    /\ UNCHANGED <<row, record, sources, outputs>>

HeartbeatDies(w) ==
    /\ worker[w].beating
    /\ Fault
    /\ worker' = [worker EXCEPT ![w].beating = FALSE]
    /\ UNCHANGED <<row, record, sources, outputs>>

Work(w) ==
    \/ \E j \in Jobs : Select(w, j) \/ Sweep(w, j)
    \/ Claim(w) \/ Convert(w) \/ ConvertFails(w)
    \/ Apply(w) \/ ApplyRefused(w) \/ PersistFailure(w)
    \/ Unlink(w) \/ RecordCleanup(w)

Next ==
    \/ \E w \in Workers : Work(w) \/ Breaks(w) \/ UnlinkFails(w) \/ Crash(w) \/ HeartbeatDies(w)
    \/ \E j \in Jobs : Age(j)

Spec == Init /\ [][Next]_vars

\* run() loops for as long as the process lives, a restart starts it again, and
\* time passes.
FairSpec ==
    /\ Spec
    /\ \A w \in Workers : WF_vars(Work(w))
    /\ \A j \in Jobs : WF_vars(Age(j))

-----------------------------------------------------------------------------
(* Properties. *)

\* Material that is ready has its file: neither a worker that lost its claim nor
\* a crash or a rollback takes away the file the output row names.
ReadyHasFile == \A j \in Jobs : record[j] = "ready" => <<j, row[j].output>> \in outputs

\* The uploaded material outlives the work on it: whatever crashes, a job that is
\* to be converted (again) finds its sources.
SourcesOutliveWork == \A j \in Jobs : ~Terminal(j) => j \in sources

\* No file that is still needed is taken away, in either direction.
FilesKept == ReadyHasFile /\ SourcesOutliveWork

\* Every job gets one result, once.
Queue == INSTANCE MaterialQueue WITH outcome <- record
OneResult == Queue!Spec

\* Every job gets a result, crashes and dead heartbeats notwithstanding.
EveryJobSettles == Queue!FairSpec

\* The private source files of a settled job are removed, or somebody is told.
SourcesRemoved ==
    \A j \in Jobs : Terminal(j) ~> row[j].cleanup = "needs_attention" \/ j \notin sources

\* Work on material ends, and leaves nothing behind unnoticed.
WorkEnds == EveryJobSettles /\ SourcesRemoved
==============================================================================
