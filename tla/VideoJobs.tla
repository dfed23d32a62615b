------------------------------ MODULE VideoJobs ------------------------------
(***************************************************************************)
(* Learning videos: the queue of transcodes, covers and deletions          *)
(* (video_worker.py), the files it makes and erases (video_media.py) and   *)
(* the handlers that publish, replace, edit, withdraw and delete           *)
(* (routers/video_learning.py).                                            *)
(*                                                                         *)
(* One thread takes the oldest queued row, works on files for minutes      *)
(* without a transaction, and applies its result under BEGIN IMMEDIATE;    *)
(* the handlers go on meanwhile.  Those that start with BEGIN IMMEDIATE    *)
(* are one action; a retry and a request for the shared version read first *)
(* and write later.  The server may be killed, or stopped: a stop aborts   *)
(* the codec and waits for the thread.                                     *)
(***************************************************************************)
EXTENDS Naturals, Sequences, FiniteSets

CONSTANTS
    Videos,     \* ids of learning videos
    Replaces,   \* replaces_id of each, or None
    Published,  \* videos published when the server starts
    Ready,      \* videos processed and not yet published when it starts
    Branded,    \* those of them with branded files, made since the brand exists
    Askers,     \* requests that have read and not yet written
    None,
    MaxEdits,   \* bound: edits of one video
    Faults,     \* what may go wrong: "codec", "database", "kill", "stop"
    MaxFaults   \* bound: how often, in all

ASSUME VideosAssumption ==
    /\ None \notin Videos
    /\ Replaces \in [Videos -> Videos \cup {None}]
    /\ \A v \in Videos : Replaces[v] # None => Replaces[v] \in Published
    /\ Published \cap Ready = {} /\ Published \cup Ready \subseteq Videos
    /\ \A v \in Published : Replaces[v] = None
ASSUME BoundsAssumption == MaxEdits \in Nat /\ MaxFaults \in Nat

VARIABLES
    video,   \* learning_videos: status, edits of the cover's title, branded profiles
    files,   \* what the video's directory holds
    drawn,   \* the edit whose title the cover file shows
    jobs,    \* learning_video_jobs in the order of their ids
    worker,  \* the queue thread
    ask,     \* what each asker has read
    server,  \* "up", "stopping" or "down"
    faults   \* how much went wrong

vars == <<video, files, drawn, jobs, worker, ask, server, faults>>
rows == <<video, jobs>>

Statuses == {"absent", "processing", "ready", "published", "withdrawn", "deleted", "failed"}
Kinds == {"source", "shared", "cover", "delete"}
Outputs(kind) == IF kind = "cover" THEN {"cover"} ELSE {"masters", "cover"}

Idle == [pc |-> "idle", job |-> 0, title |-> 0, ok |-> FALSE]
Silent == [op |-> "none", video |-> None, found |-> "none"]

Init ==
    /\ video = [v \in Videos |->
          [status |-> IF v \in Published THEN "published" ELSE IF v \in Ready THEN "ready" ELSE "absent",
           title |-> 0, brand |-> v \in Branded]]
    /\ files = [v \in Videos |-> IF v \in Published \cup Ready THEN {"source", "masters", "cover"} ELSE {}]
    /\ drawn = [v \in Videos |-> 0]
    /\ jobs = <<>>      \* a job that is ready and never queued again is left out
    /\ worker = Idle
    /\ ask = [a \in Askers |-> Silent]
    /\ server = "up"
    /\ faults = 0

-----------------------------------------------------------------------------
(* Jobs. *)

Ids(v, kind) == {i \in DOMAIN jobs : jobs[i].video = v /\ jobs[i].kind = kind}
StatusOf(v, kind) == IF Ids(v, kind) = {} THEN "none" ELSE jobs[CHOOSE i \in Ids(v, kind) : TRUE].status

\* Seeded fault: a row for every call.
EnqueuedAlways(js, v, kind) == Append(js, [video |-> v, kind |-> kind, status |-> "queued"])

\* enqueue: the key is unique, an existing row is left as it is.
Enqueued(js, v, kind) ==
    IF \E i \in DOMAIN js : js[i].video = v /\ js[i].kind = kind THEN js
    ELSE Append(js, [video |-> v, kind |-> kind, status |-> "queued"])

\* The rows of v and kind whose status is in from are queued again.
Requeued(js, v, kind, from) ==
    [i \in DOMAIN js |-> IF js[i].video = v /\ js[i].kind = kind /\ js[i].status \in from
                         THEN [js[i] EXCEPT !.status = "queued"] ELSE js[i]]

Fault(kind) == kind \in Faults /\ faults < MaxFaults /\ faults' = faults + 1
-----------------------------------------------------------------------------
(* The queue thread: run_one and cleanup. *)

\* The oldest queued row is claimed by compare-and-set and its video is read.
\* A delete that falls between the two ends as one that falls before them.
Take(i) ==
    LET v == jobs[i].video IN
    /\ server = "up" /\ worker.pc = "idle"
    /\ jobs[i].status = "queued"
    /\ \A k \in DOMAIN jobs : jobs[k].status = "queued" => i <= k
    /\ IF video[v].status = "deleted" /\ jobs[i].kind # "delete"
       THEN /\ jobs' = [jobs EXCEPT ![i].status = "cancelled"]
            /\ UNCHANGED worker
       ELSE /\ jobs' = [jobs EXCEPT ![i].status = "processing"]
            /\ worker' = [pc |-> "working", job |-> i, title |-> video[v].title, ok |-> FALSE]
    /\ UNCHANGED <<video, files, drawn, ask, server, faults>>

Worked(ok) == worker' = [worker EXCEPT !.pc = "finishing", !.ok = ok]

\* process_source, build_cover and erase_video_files; each file is replaced whole.
Work ==
    LET v == jobs[worker.job].video
        kind == jobs[worker.job].kind
    IN
    /\ worker.pc = "working"
    /\ IF kind = "delete"
       THEN /\ files' = [files EXCEPT ![v] = {}]
            /\ Worked(TRUE) /\ UNCHANGED drawn
       ELSE IF "source" \notin files[v]
       THEN Worked(FALSE) /\ UNCHANGED <<files, drawn>>
       ELSE /\ files' = [files EXCEPT ![v] = @ \cup Outputs(kind)]
            /\ drawn' = [drawn EXCEPT ![v] = worker.title]
            /\ Worked(TRUE)
    /\ UNCHANGED <<rows, ask, server, faults>>

\* The work ends early: masters come before the cover, a directory is removed
\* file by file.
Cut ==
    LET v == jobs[worker.job].video
        kind == jobs[worker.job].kind
    IN
    /\ IF kind = "delete"
       THEN /\ \E left \in SUBSET files[v] : files' = [files EXCEPT ![v] = left]
            /\ UNCHANGED drawn
       ELSE \E made \in {{}, Outputs(kind) \ {"cover"}, Outputs(kind)} :
            /\ files' = [files EXCEPT ![v] = @ \cup made]
            /\ drawn' = IF "cover" \in made THEN [drawn EXCEPT ![v] = worker.title] ELSE drawn
    /\ Worked(FALSE)

\* The codec refuses the video, exceeds its time, or the disk fails.
WorkFails ==
    /\ worker.pc = "working"
    /\ Cut /\ Fault("codec")
    /\ UNCHANGED <<rows, ask, server>>

\* The stop event kills the codec process; run raises as it does for a timeout.
Interrupted ==
    /\ worker.pc = "working" /\ server = "stopping" /\ jobs[worker.job].kind # "delete"
    /\ Cut
    /\ UNCHANGED <<rows, ask, server, faults>>

\* Seeded fault: every transcode makes the video ready, wherever it went meanwhile.
TranscodedAlways(v, kind, ok) ==
    IF kind \notin {"source", "shared"} THEN video
    ELSE [video EXCEPT ![v].brand = ok \/ @, ![v].status = IF ok THEN "ready" ELSE @]

\* What the result of job kind does to its video: profiles from both transcodes,
\* the status from the first one alone, and never over a withdrawal.
Transcoded(v, kind, ok) ==
    IF kind \notin {"source", "shared"} THEN video
    ELSE [video EXCEPT ![v].brand = ok \/ @,
             ![v].status = IF kind = "source" /\ @ \notin {"withdrawn", "deleted"}
                           THEN IF ok THEN "ready" ELSE "failed" ELSE @]

\* rollback, BEGIN IMMEDIATE, refresh, apply.
Finish ==
    LET i == worker.job
        v == jobs[i].video
        kind == jobs[i].kind
        ended(status) == [jobs EXCEPT ![i].status = status]
    IN
    /\ worker.pc = "finishing"
    /\ IF video[v].status = "deleted" /\ kind # "delete"
       THEN /\ jobs' = Requeued(Enqueued(ended("cancelled"), v, "delete"), v, "delete",
                                {"ready", "failed", "cancelled"})
            /\ UNCHANGED video
       ELSE /\ jobs' = ended(IF worker.ok THEN "ready" ELSE "failed")
            /\ video' = Transcoded(v, kind, worker.ok)
    /\ worker' = Idle
    /\ UNCHANGED <<files, drawn, ask, server, faults>>

\* The database refuses (the writer was not free for 30 s): the thread logs and
\* goes on, the row stays in processing.
FinishFails ==
    /\ worker.pc = "finishing"
    /\ worker' = Idle /\ Fault("database")
    /\ UNCHANGED <<rows, files, drawn, ask, server>>

\* Seeded fault: the job of an interrupted transcode fails alone.
SweptJobOnly(i) == video

\* The video of an interrupted source job fails with it.
Swept(i) ==
    IF jobs[i].kind = "source" /\ video[jobs[i].video].status \notin {"deleted", "withdrawn"}
    THEN [video EXCEPT ![jobs[i].video].status = "failed"] ELSE video

\* Two hours in processing: run_one looks before it takes a job.
Sweep(i) ==
    /\ server = "up" /\ worker.pc = "idle" /\ jobs[i].status = "processing"
    /\ jobs' = [jobs EXCEPT ![i].status = "failed"]
    /\ video' = Swept(i)
    /\ UNCHANGED <<files, drawn, worker, ask, server, faults>>

\* Seeded fault: the maintenance forgets failed deletions.
TriedAgainNever == {}
TriedAgain == {i \in DOMAIN jobs : jobs[i].kind = "delete" /\ jobs[i].status = "failed"}

\* cleanup: failed deletions are tried again.
Cleanup ==
    /\ server = "up" /\ worker.pc = "idle" /\ TriedAgain # {}
    /\ jobs' = [i \in DOMAIN jobs |-> IF i \in TriedAgain THEN [jobs[i] EXCEPT !.status = "queued"] ELSE jobs[i]]
    /\ UNCHANGED <<video, files, drawn, worker, ask, server, faults>>

-----------------------------------------------------------------------------
(* The server. *)

\* stop_worker; requests have ended before it is called.
Stop ==
    /\ server = "up" /\ \A a \in Askers : ask[a] = Silent
    /\ server' = "stopping" /\ Fault("stop")
    /\ UNCHANGED <<rows, files, drawn, worker, ask>>

Stopped ==
    /\ server = "stopping" /\ worker.pc = "idle"
    /\ server' = "down"
    /\ UNCHANGED <<rows, files, drawn, worker, ask, faults>>

Kill ==
    /\ server # "down" /\ Fault("kill")
    /\ server' = "down" /\ worker' = Idle /\ ask' = [a \in Askers |-> Silent]
    /\ UNCHANGED <<rows, files, drawn>>

\* start_worker: what was in processing is queued again.
Start ==
    /\ server = "down"
    /\ server' = "up"
    /\ jobs' = [i \in DOMAIN jobs |-> IF jobs[i].status = "processing"
                                      THEN [jobs[i] EXCEPT !.status = "queued"] ELSE jobs[i]]
    /\ UNCHANGED <<video, files, drawn, worker, ask, faults>>
-----------------------------------------------------------------------------
(* The handlers.  Who may call them, and for which audience, is left out: a   *)
(* refusal changes nothing.                                                   *)

Handler == server = "up" /\ UNCHANGED <<worker, server, faults>>

\* finish_upload: the row, the copied source and its job.
FinishUpload(v) ==
    /\ Handler
    /\ video[v].status = "absent"
    /\ Replaces[v] # None => video[Replaces[v]].status # "deleted"
    /\ video' = [video EXCEPT ![v].status = "processing"]
    /\ files' = [files EXCEPT ![v] = {"source"}]
    /\ jobs' = Enqueued(jobs, v, "source")
    /\ UNCHANGED <<drawn, ask>>

\* Seeded fault: a cover in work may be ordered again.
CoverFreeAlways(v) == TRUE
CoverFree(v) == StatusOf(v, "cover") # "processing"

\* choose_cover and edit_metadata.
Edit(v) ==
    /\ Handler
    /\ video[v].status = "ready" /\ CoverFree(v) /\ video[v].title < MaxEdits
    /\ video' = [video EXCEPT ![v].title = @ + 1]
    /\ jobs' = Requeued(Enqueued(jobs, v, "cover"), v, "cover", {"ready", "failed", "cancelled", "processing"})
    /\ UNCHANGED <<files, drawn, ask>>

\* Seeded fault: the replaced version may have been replaced already.
CurrentOrNot(v) == TRUE
Current(v) == Replaces[v] # None => video[Replaces[v]].status = "published"

\* Seeded fault: only a failed cover holds the publication back.
CoverDoneOrUnderway(v) == StatusOf(v, "cover") # "failed"
CoverDone(v) == StatusOf(v, "cover") \in {"none", "ready"}

\* publish: the version it replaces is withdrawn with it.
Publish(v) ==
    /\ Handler
    /\ video[v].status = "ready" /\ CoverDone(v)
    /\ video[v].brand /\ "masters" \in files[v]
    /\ Current(v)
    /\ video' = [w \in Videos |->
          IF w = v THEN [video[w] EXCEPT !.status = "published"]
          ELSE IF w = Replaces[v] THEN [video[w] EXCEPT !.status = "withdrawn"]
          ELSE video[w]]
    /\ UNCHANGED <<files, drawn, jobs, ask>>

Withdraw(v) ==
    /\ Handler
    /\ video[v].status \in {"ready", "published"}
    /\ video' = [video EXCEPT ![v].status = "withdrawn"]
    /\ UNCHANGED <<files, drawn, jobs, ask>>

\* delete_video: queued jobs are cancelled, one that runs is not.
Delete(v) ==
    /\ Handler
    /\ video[v].status = "withdrawn"
    /\ video' = [video EXCEPT ![v].status = "deleted"]
    /\ jobs' = Enqueued([i \in DOMAIN jobs |->
                             IF jobs[i].video = v /\ jobs[i].status = "queued"
                             THEN [jobs[i] EXCEPT !.status = "cancelled"] ELSE jobs[i]], v, "delete")
    /\ UNCHANGED <<files, drawn, ask>>

\* retry reads the job and the video.
ReadRetry(a, v) ==
    /\ Handler
    /\ ask[a] = Silent /\ video[v].status # "deleted" /\ StatusOf(v, "source") = "failed"
    /\ ask' = [ask EXCEPT ![a] = [op |-> "retry", video |-> v, found |-> "failed"]]
    /\ UNCHANGED <<rows, files, drawn>>

\* prepare (playback_access, shared_ready): the viewer's right, the file, the job.
ReadShare(a, v) ==
    /\ Handler
    /\ ask[a] = Silent /\ video[v].status \in {"ready", "published"}
    /\ ~(video[v].brand /\ "masters" \in files[v])
    /\ ask' = [ask EXCEPT ![a] = [op |-> "share", video |-> v, found |-> StatusOf(v, "shared")]]
    /\ UNCHANGED <<rows, files, drawn>>

WriteRetry(a) ==
    LET v == ask[a].video IN
    /\ Handler
    /\ ask[a].op = "retry"
    /\ jobs' = Requeued(jobs, v, "source", {"ready", "failed", "cancelled", "processing"})
    /\ video' = [video EXCEPT ![v].status = "processing"]
    /\ ask' = [ask EXCEPT ![a] = Silent]
    /\ UNCHANGED <<files, drawn>>

\* Only a status that was found failed or ready is changed, to queued.
WriteShare(a) ==
    LET v == ask[a].video
        again == {"ready", "failed", "cancelled", "processing"}
    IN
    /\ Handler
    /\ ask[a].op = "share"
    /\ jobs' = IF ask[a].found = "none"
               THEN Requeued(Enqueued(jobs, v, "shared"), v, "shared", {"ready", "failed"})
               ELSE IF ask[a].found \in {"ready", "failed"}
               THEN Requeued(jobs, v, "shared", again) ELSE jobs
    /\ ask' = [ask EXCEPT ![a] = Silent]
    /\ UNCHANGED <<video, files, drawn>>

-----------------------------------------------------------------------------
QueueStep == \/ \E i \in DOMAIN jobs : Take(i) \/ Sweep(i)
             \/ Work \/ Finish \/ Cleanup

Next ==
    \/ QueueStep \/ WorkFails \/ Interrupted \/ FinishFails
    \/ Stop \/ Stopped \/ Kill \/ Start
    \/ \E v \in Videos : FinishUpload(v) \/ Edit(v) \/ Publish(v) \/ Withdraw(v) \/ Delete(v)
    \/ \E a \in Askers, v \in Videos : ReadRetry(a, v) \/ ReadShare(a, v)
    \/ \E a \in Askers : WriteRetry(a) \/ WriteShare(a)

Spec == Init /\ [][Next]_vars

\* The thread loops while the server is up (cleanup every 120 rounds), the codec
\* ends, hours pass, and a server that is down is started again.
FairSpec ==
    /\ Spec
    /\ WF_vars(\E i \in DOMAIN jobs : Take(i)) /\ WF_vars(Work) /\ WF_vars(Finish) /\ WF_vars(Cleanup)
    /\ WF_vars(\E i \in DOMAIN jobs : Sweep(i))
    /\ WF_vars(Stopped) /\ WF_vars(Start)

-----------------------------------------------------------------------------
(* Properties. *)

TypeOK ==
    /\ video \in [Videos -> [status : Statuses, title : 0 .. MaxEdits, brand : BOOLEAN]]
    /\ files \in [Videos -> SUBSET {"source", "masters", "cover"}]
    /\ drawn \in [Videos -> 0 .. MaxEdits]
    /\ \A i \in DOMAIN jobs :
          /\ jobs[i].video \in Videos /\ jobs[i].kind \in Kinds
          /\ jobs[i].status \in {"queued", "processing", "ready", "failed", "cancelled"}
          /\ \A k \in DOMAIN jobs : jobs[k].video = jobs[i].video /\ jobs[k].kind = jobs[i].kind => k = i
    /\ worker.pc \in {"idle", "working", "finishing"}
    /\ worker.pc # "idle" => jobs[worker.job].status \in {"processing", "queued", "cancelled"}
    /\ server \in {"up", "stopping", "down"}
    /\ faults \in 0 .. MaxFaults

\* Of a video and the versions that replace it one is published at most: the
\* publication of competing replacements is serialized (publish).
OneCurrentVersion ==
    LET root(v) == IF Replaces[v] = None THEN v ELSE Replaces[v] IN
    \A v, w \in Videos :
        video[v].status = "published" /\ video[w].status = "published" /\ root(v) = root(w) => v = w

\* The cover of a published video shows the title it was published with, however
\* edits, transcodes that also draw it, failures and restarts interleave.  A video
\* with a deletion on its way is excepted: a retry that read before another one
\* may bring a deleted video back (retry).
CoverShowsTitle ==
    \A v \in Videos : video[v].status = "published" /\ Ids(v, "delete") = {} =>
        "cover" \in files[v] /\ drawn[v] = video[v].title

\* What learners see at every moment: types, and covers that show their titles.
CoversKept == TypeOK /\ CoverShowsTitle

\* A retry of v is written whose failure has been retried since it was read.
StaleRetry(v) ==
    \E a \in Askers : ask[a].video = v /\ WriteRetry(a) /\ StatusOf(v, "source") # "failed"

\* A published video leaves only by a withdrawal, a withdrawn one only by its
\* deletion, a deleted one never: no transcode brings a video back (run_one), and
\* no retry but one that read the same failure as an earlier one (retry).
NothingComesBack ==
    [][\A v \in Videos : StaleRetry(v) \/
        /\ video[v].status = "published" => video'[v].status \in {"published", "withdrawn"}
        /\ video[v].status = "withdrawn" => video'[v].status \in {"withdrawn", "deleted"}
        /\ video[v].status = "deleted" => video'[v].status = "deleted"]_vars

\* The files of a deleted video are erased in the end, over failed and interrupted
\* attempts and a transcode that was running when it was deleted.
DeletedErased ==
    \A v \in Videos : video[v].status = "deleted" ~> video[v].status = "deleted" /\ files[v] = {}

\* A video in processing leaves that state: it is ready or it has failed.
ProcessingEnds ==
    \A v \in Videos : video[v].status = "processing" ~> video[v].status # "processing"

\* The queue's work is done in the end: erasing and transcoding.
JobsEnd == DeletedErased /\ ProcessingEnds

\* Without a codec error an uploaded video becomes ready, over orderly restarts:
\* what a stop interrupts is taken up again (docs/video-learning.md, item 4).
InterruptedResumes ==
    \A v \in Videos : video[v].status = "processing" ~> video[v].status = "ready"
==============================================================================
