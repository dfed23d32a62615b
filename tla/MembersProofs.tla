---------------------------- MODULE MembersProofs ----------------------------
(***************************************************************************)
(* What people plan and publish and what is recorded of them: each         *)
(* component in a section of its own, and in the end the one behaviour     *)
(* they are checked in (Members).                                          *)
(*                                                                         *)
(* VideoJobs: of a video and the versions that replace it one is published *)
(* at most. The publication itself is guarded; what needs the invariant is *)
(* that nothing else brings a version back: results of transcodes that     *)
(* were started long ago, rows requeued by a restart and a retry that has  *)
(* read and not yet written. The cover of a published video shows its      *)
(* title unless an edit has left a job to draw it anew (Told says what the *)
(* jobs of a video tell of its state). A withdrawn or deleted video comes  *)
(* back by nothing but a retry of a failure that somebody else has retried *)
(* since (StaleRetry).                                                     *)
(*                                                                         *)
(* LearningAccess, LearningShares: a page is never newer than the row, and *)
(* one as old shows the asking the row holds; a document has one line of   *)
(* versions, and whoever owned a draft at its publication is the one who   *)
(* published it.                                                           *)
(*                                                                         *)
(* AnnouncementOwners: what is shared is in its members' hands, and a      *)
(* successor takes over what was named.                                    *)
(*                                                                         *)
(* Absence: a leave counts in its own month only; a reader's old leaves    *)
(* may be stored only if no row of that month was written since.           *)
(*                                                                         *)
(* DayPlan: whoever is to relieve a post is not seated, and the board is   *)
(* the plan.                                                               *)
(*                                                                         *)
(* Employment: the days gone by are those of rows with dates, and no row   *)
(* is opened or closed before today.                                       *)
(*                                                                         *)
(* MonthRanks: a row is as it was compared in its generation, or in those  *)
(* its signature names while none of them was closed anew.                 *)
(*                                                                         *)
(* ScoreViews: sums of integers over finite sets, by parts, by months and  *)
(* with what is zero left out; the pages differ in nothing else. What is   *)
(* stored of a past month is what its leaves say.                          *)
(***************************************************************************)
EXTENDS Members, TLAPS, SequenceTheorems, FiniteSetTheorems, WellFoundedInduction

Rows == [status : Statuses, title : 0 .. MaxEdits, brand : BOOLEAN]
JobRows == [video : Videos, kind : Kinds,
            status : {"queued", "processing", "ready", "failed", "cancelled"}]

\* A version that was published when the server started is never transcoded
\* for the first time again, so it stays in these states.
VideoOK(vs) ==
    /\ vs \in [Videos -> Rows]
    /\ \A v \in Published : vs[v].status \in {"published", "withdrawn", "deleted"}

JobsOK(js) ==
    /\ js \in Seq(JobRows)
    /\ \A i \in DOMAIN js : js[i].kind = "source" => js[i].video \notin Published

WorkerOK == worker.pc # "idle" => worker.job \in DOMAIN jobs

AskOK ==
    /\ DOMAIN ask = Askers
    /\ \A a \in Askers :
          /\ ask[a].op \in {"retry", "share"} => ask[a].video \in Videos
          /\ ask[a].op = "retry" => ask[a].video \notin Published

VInv == VideoOK(video) /\ JobsOK(jobs) /\ WorkerOK /\ AskOK /\ OneCurrentVersion

-----------------------------------------------------------------------------
(* Job rows. *)

\* Every row is well formed.
LEMMA WellFormed ==
    ASSUME NEW js, JobsOK(js)
    PROVE  \A i \in DOMAIN js : js[i] \in JobRows
BY ElementOfSeq, LenProperties DEF JobsOK

\* Rows rewritten in place are rows in the same order (Requeued, the sweeps).
LEMMA Rewritten ==
    ASSUME NEW js \in Seq(JobRows), NEW ks, ks \in [DOMAIN js -> JobRows]
    PROVE  ks \in Seq(JobRows) /\ DOMAIN ks = DOMAIN js
<1>1. DOMAIN js = 1 .. Len(js) /\ Len(js) \in Nat
  BY LenProperties
<1>2. ks \in [1 .. Len(js) -> JobRows]
  BY <1>1
<1> QED
  BY <1>1, <1>2, SeqDef

\* A new status leaves the rows well formed (every action that ends or requeues a job).
LEMMA Restated ==
    ASSUME NEW js, JobsOK(js), NEW ks, DOMAIN ks = DOMAIN js,
           ks \in [DOMAIN js -> JobRows],
           \A i \in DOMAIN js : ks[i].kind = js[i].kind /\ ks[i].video = js[i].video
    PROVE  JobsOK(ks)
<1>1. ks \in Seq(JobRows)
  BY Rewritten DEF JobsOK
<1> QED
  BY <1>1 DEF JobsOK

\* One row gets another status (run_one: claim, result, two-hour limit).
LEMMA OneRestated ==
    ASSUME NEW js, JobsOK(js), NEW i \in DOMAIN js,
           NEW s \in {"queued", "processing", "ready", "failed", "cancelled"}
    PROVE  /\ JobsOK([js EXCEPT ![i].status = s])
           /\ DOMAIN [js EXCEPT ![i].status = s] = DOMAIN js
<1> DEFINE ks == [js EXCEPT ![i].status = s]
<1>1. \A k \in DOMAIN js : js[k] \in JobRows
  BY WellFormed
<1>2. DOMAIN ks = DOMAIN js
  OBVIOUS
<1>3. \A k \in DOMAIN js : ks[k] \in JobRows /\ ks[k].kind = js[k].kind /\ ks[k].video = js[k].video
  BY <1>1 DEF JobRows
<1>4. ks \in [DOMAIN js -> JobRows]
  BY <1>2, <1>3
<1> QED
  BY <1>2, <1>3, <1>4, Restated

\* Requeued changes the status of some rows alone.
LEMMA RequeuedOK ==
    ASSUME NEW js, JobsOK(js), NEW v, NEW kind, NEW from
    PROVE  JobsOK(Requeued(js, v, kind, from)) /\ DOMAIN Requeued(js, v, kind, from) = DOMAIN js
<1> DEFINE ks == Requeued(js, v, kind, from)
<1>1. \A k \in DOMAIN js : js[k] \in JobRows
  BY WellFormed
<1>2. DOMAIN ks = DOMAIN js
  BY DEF Requeued
<1>3. \A k \in DOMAIN js : ks[k] \in JobRows /\ ks[k].kind = js[k].kind /\ ks[k].video = js[k].video
  BY <1>1 DEF JobRows, Requeued
<1>4. ks \in [DOMAIN js -> JobRows]
  BY <1>2, <1>3 DEF Requeued
<1> QED
  BY <1>2, <1>3, <1>4, Restated

\* enqueue adds one row at most, and keeps the ids of the others.
LEMMA EnqueuedOK ==
    ASSUME NEW js, JobsOK(js), NEW v \in Videos, NEW kind \in Kinds,
           kind = "source" => v \notin Published
    PROVE  JobsOK(Enqueued(js, v, kind)) /\ DOMAIN js \subseteq DOMAIN Enqueued(js, v, kind)
<1> DEFINE row == [video |-> v, kind |-> kind, status |-> "queued"]
<1>1. row \in JobRows /\ js \in Seq(JobRows)
  BY DEF JobRows, JobsOK
<1>2. CASE Enqueued(js, v, kind) = js
  BY <1>2
<1>3. CASE Enqueued(js, v, kind) = Append(js, row)
  <2>1. /\ Append(js, row) \in Seq(JobRows)
        /\ Len(Append(js, row)) = Len(js) + 1
        /\ \A i \in 1 .. Len(js) : Append(js, row)[i] = js[i]
        /\ Append(js, row)[Len(js) + 1] = row
    BY <1>1, AppendProperties
  <2>2. DOMAIN js = 1 .. Len(js) /\ DOMAIN Append(js, row) = 1 .. Len(js) + 1 /\ Len(js) \in Nat
    BY <1>1, <2>1, LenProperties
  <2>3. \A i \in DOMAIN Append(js, row) :
            Append(js, row)[i].kind = "source" => Append(js, row)[i].video \notin Published
    <3> SUFFICES ASSUME NEW i \in 1 .. Len(js) + 1, Append(js, row)[i].kind = "source"
                 PROVE  Append(js, row)[i].video \notin Published
      BY <2>2
    <3>1. CASE i \in 1 .. Len(js)
      BY <3>1, <2>1, <2>2 DEF JobsOK
    <3>2. CASE i = Len(js) + 1
      BY <3>2, <2>1
    <3> QED
      BY <3>1, <3>2, <2>2
  <2> QED
    BY <1>3, <2>1, <2>2, <2>3 DEF JobsOK
<1> QED
  BY <1>2, <1>3 DEF Enqueued

\* A row that exists belongs to a video, and is found by StatusOf only if it exists.
LEMMA FoundRow ==
    ASSUME JobsOK(jobs), NEW v \in Videos, StatusOf(v, "source") = "failed"
    PROVE  v \notin Published
<1>1. Ids(v, "source") # {}
  BY DEF StatusOf
<1>2. PICK i \in DOMAIN jobs : jobs[i].video = v /\ jobs[i].kind = "source"
  BY <1>1 DEF Ids
<1> QED
  BY <1>2 DEF JobsOK

-----------------------------------------------------------------------------
(* Videos. *)

\* A step that publishes nothing leaves one current version.
LEMMA NothingPublished ==
    ASSUME OneCurrentVersion,
           \A v \in Videos : video'[v].status = "published" => video[v].status = "published"
    PROVE  OneCurrentVersion'
BY DEF OneCurrentVersion

\* The status of one video changes, to another one than published.
LEMMA OneChanged ==
    ASSUME VideoOK(video), OneCurrentVersion, NEW v \in Videos, NEW r \in Rows,
           video' = [video EXCEPT ![v] = r],
           r.status # "published" \/ r.status = video[v].status,
           v \in Published => r.status \in {"published", "withdrawn", "deleted"}
    PROVE  VideoOK(video') /\ OneCurrentVersion'
<1>1. video' \in [Videos -> Rows]
  BY DEF VideoOK
<1>2. \A w \in Videos : video'[w] = IF w = v THEN r ELSE video[w]
  BY DEF VideoOK
<1>3. VideoOK(video')
  BY <1>1, <1>2, VideosAssumption DEF VideoOK
<1>4. OneCurrentVersion'
  BY <1>2, NothingPublished
<1> QED
  BY <1>3, <1>4

-----------------------------------------------------------------------------
\* Init holds the invariant: the versions that exist when the server starts.
LEMMA InitOK == Init => VInv
<1> SUFFICES ASSUME Init PROVE VInv
  OBVIOUS
<1>1. VideoOK(video)
  BY VideosAssumption, BoundsAssumption DEF Init, VideoOK, Rows, Statuses
<1>2. JobsOK(jobs)
  BY EmptySeq DEF Init, JobsOK
<1>3. WorkerOK /\ AskOK
  BY DEF Init, WorkerOK, AskOK, Idle, Silent
<1>4. OneCurrentVersion
  BY VideosAssumption DEF Init, OneCurrentVersion
<1> QED
  BY <1>1, <1>2, <1>3, <1>4 DEF VInv

\* Steps of the queue thread: Take, Work, WorkFails, Interrupted, Finish,
\* FinishFails, Sweep and Cleanup.
LEMMA QueueOK ==
    ASSUME VInv,
           QueueStep \/ WorkFails \/ Interrupted \/ FinishFails
    PROVE  VInv'
<1>0. \A i \in DOMAIN jobs : jobs[i] \in JobRows /\ jobs[i].video \in Videos
  BY WellFormed DEF VInv, JobRows
<1>a. ASSUME UNCHANGED <<video, jobs, ask>>, worker'.pc # "idle" => worker'.job \in DOMAIN jobs
      PROVE  VInv'
  BY <1>a DEF VInv, VideoOK, JobsOK, WorkerOK, AskOK, OneCurrentVersion
<1>1. ASSUME NEW i \in DOMAIN jobs, Take(i) PROVE VInv'
  <2>1. VideoOK(video)' /\ OneCurrentVersion' /\ AskOK'
    BY <1>1 DEF VInv, Take, VideoOK, OneCurrentVersion, AskOK
  <2>2. JobsOK(jobs') /\ DOMAIN jobs' = DOMAIN jobs
    <3>1. PICK s \in {"cancelled", "processing"} : jobs' = [jobs EXCEPT ![i].status = s]
      BY <1>1 DEF Take
    <3> QED
      BY <3>1, OneRestated DEF VInv
  <2>3. WorkerOK'
    BY <1>1, <2>2 DEF Take, WorkerOK
  <2> QED
    BY <2>1, <2>2, <2>3 DEF VInv
<1>2. ASSUME NEW i \in DOMAIN jobs, Sweep(i) PROVE VInv'
  <2>1. JobsOK(jobs') /\ DOMAIN jobs' = DOMAIN jobs
    BY <1>2, OneRestated DEF VInv, Sweep
  <2>2. AskOK' /\ WorkerOK'
    BY <1>2, <2>1 DEF VInv, Sweep, AskOK, WorkerOK
  <2>3. VideoOK(video') /\ OneCurrentVersion'
    <3> DEFINE v == jobs[i].video
    <3>1. CASE video' = video
      BY <3>1 DEF VInv, VideoOK, OneCurrentVersion
    <3>2. CASE jobs[i].kind = "source" /\ video' = [video EXCEPT ![v].status = "failed"]
      <4>1. video[v] \in Rows /\ v \in Videos /\ v \notin Published
        BY <1>0, <3>2 DEF VInv, VideoOK, JobsOK
      <4>2. [video[v] EXCEPT !.status = "failed"] \in Rows
        BY <4>1 DEF Rows, Statuses
      <4>3. [video[v] EXCEPT !.status = "failed"].status = "failed"
        BY <4>1 DEF Rows
      <4>4. video' = [video EXCEPT ![v] = [video[v] EXCEPT !.status = "failed"]]
        BY <3>2, <4>1 DEF VInv, VideoOK
      <4> HIDE DEF v
      <4> QED
        BY <4>1, <4>2, <4>3, <4>4, OneChanged DEF VInv
    <3> QED
      BY <1>2, <3>1, <3>2 DEF Sweep, Swept
  <2> QED
    BY <2>1, <2>2, <2>3 DEF VInv
<1>3. CASE Work
  <2>1. PICK ok \in BOOLEAN : Worked(ok)
    BY <1>3 DEF Work
  <2>2. worker.pc # "idle" /\ UNCHANGED <<video, jobs, ask>>
    BY <1>3 DEF Work, rows
  <2> QED
    BY <2>1, <2>2, <1>a DEF Worked, VInv, WorkerOK
<1>4. CASE WorkFails
  BY <1>4, <1>a DEF WorkFails, Cut, Worked, rows, VInv, WorkerOK
<1>5. CASE Interrupted
  BY <1>5, <1>a DEF Interrupted, Cut, Worked, rows, VInv, WorkerOK
<1>6. CASE FinishFails
  BY <1>6, <1>a DEF FinishFails, rows, Idle
<1>7. CASE Finish
  <2> DEFINE i == worker.job
             v == jobs[i].video
             kind == jobs[i].kind
  <2>1. i \in DOMAIN jobs /\ v \in Videos /\ (kind = "source" => v \notin Published)
    BY <1>7, <1>0 DEF Finish, VInv, WorkerOK, JobsOK
  <2>2. JobsOK(jobs')
    <3>1. \A s \in {"ready", "failed", "cancelled"} : JobsOK([jobs EXCEPT ![i].status = s])
      BY <2>1, OneRestated DEF VInv
    <3>2. JobsOK(Requeued(Enqueued([jobs EXCEPT ![i].status = "cancelled"], v, "delete"), v, "delete",
                          {"ready", "failed", "cancelled"}))
      BY <2>1, <3>1, EnqueuedOK, RequeuedOK DEF Kinds
    <3> QED
      BY <1>7, <3>1, <3>2 DEF Finish
  <2>3. WorkerOK' /\ AskOK'
    BY <1>7 DEF Finish, WorkerOK, AskOK, VInv, Idle
  <2>4. VideoOK(video') /\ OneCurrentVersion'
    <3>1. CASE video' = video
      BY <3>1 DEF VInv, VideoOK, OneCurrentVersion
    <3>2. CASE video' = Transcoded(v, kind, worker.ok) /\ kind \in {"source", "shared"}
      <4>1. video[v] \in Rows
        BY <2>1 DEF VInv, VideoOK
      <4> DEFINE s == IF kind = "source" /\ video[v].status \notin {"withdrawn", "deleted"}
                      THEN IF worker.ok THEN "ready" ELSE "failed" ELSE video[v].status
                 r == [video[v] EXCEPT !.brand = worker.ok \/ video[v].brand, !.status = s]
      <4>2. s \in Statuses /\ (s # "published" \/ s = video[v].status)
        BY <4>1 DEF Rows, Statuses
      <4>3. v \in Published => s \in {"published", "withdrawn", "deleted"}
        BY <2>1 DEF VInv, VideoOK
      <4>4. (worker.ok \/ video[v].brand) \in BOOLEAN
        OBVIOUS
      <4>5. r \in Rows /\ r.status = s
        <5> HIDE DEF s
        <5> QED
          BY <4>1, <4>2, <4>4 DEF Rows
      <4>6. video' = [video EXCEPT ![v] = r]
        BY <3>2, <2>1 DEF Transcoded, VInv, VideoOK
      <4> HIDE DEF r, s, v
      <4> QED
        BY <2>1, <4>2, <4>3, <4>5, <4>6, OneChanged DEF VInv
    <3> QED
      BY <1>7, <3>1, <3>2 DEF Finish, Transcoded
  <2> QED
    BY <2>2, <2>3, <2>4 DEF VInv
<1>8. CASE Cleanup
  <2>1. /\ DOMAIN jobs' = DOMAIN jobs
        /\ jobs' \in [DOMAIN jobs -> JobRows]
        /\ \A i \in DOMAIN jobs : jobs'[i].kind = jobs[i].kind /\ jobs'[i].video = jobs[i].video
    BY <1>8, <1>0 DEF Cleanup, JobRows
  <2>2. JobsOK(jobs')
    BY <2>1, Restated DEF VInv
  <2> QED
    BY <1>8, <2>1, <2>2 DEF Cleanup, VInv, VideoOK, WorkerOK, AskOK, OneCurrentVersion
<1> QED
  BY <1>1, <1>2, <1>3, <1>4, <1>5, <1>6, <1>7, <1>8 DEF QueueStep

\* Stop, Stopped, Kill and Start: a restart requeues rows and touches no video.
LEMMA ServerOK ==
    ASSUME VInv, Stop \/ Stopped \/ Kill \/ Start
    PROVE  VInv'
<1>1. CASE Stop \/ Stopped \/ Kill
  BY <1>1 DEF Stop, Stopped, Kill, rows, Idle, Silent, VInv, VideoOK, JobsOK, WorkerOK, AskOK, OneCurrentVersion
<1>2. CASE Start
  <2>0. \A i \in DOMAIN jobs : jobs[i] \in JobRows
    BY WellFormed DEF VInv
  <2>1. /\ DOMAIN jobs' = DOMAIN jobs
        /\ jobs' \in [DOMAIN jobs -> JobRows]
        /\ \A i \in DOMAIN jobs : jobs'[i].kind = jobs[i].kind /\ jobs'[i].video = jobs[i].video
    BY <1>2, <2>0 DEF Start, JobRows
  <2>2. JobsOK(jobs')
    BY <2>1, Restated DEF VInv
  <2> QED
    BY <1>2, <2>1, <2>2 DEF Start, VInv, VideoOK, WorkerOK, AskOK, OneCurrentVersion
<1> QED
  BY <1>1, <1>2

\* The handlers and the second halves of those that read before they write.
LEMMA HandlerOK ==
    ASSUME VInv,
           NEW v \in Videos,
           FinishUpload(v) \/ Edit(v) \/ Publish(v) \/ Withdraw(v) \/ Delete(v)
    PROVE  VInv'
<1>0. /\ video[v] \in Rows
      /\ \A s \in Statuses : /\ [video[v] EXCEPT !.status = s] \in Rows
                             /\ [video[v] EXCEPT !.status = s].status = s
      /\ \A s \in Statuses : [video EXCEPT ![v].status = s] = [video EXCEPT ![v] = [video[v] EXCEPT !.status = s]]
  BY DEF VInv, VideoOK, Rows
<1>a. ASSUME NEW s \in Statuses, video' = [video EXCEPT ![v].status = s], s # "published",
             v \in Published => s \in {"withdrawn", "deleted"}
      PROVE  VideoOK(video') /\ OneCurrentVersion'
  BY <1>0, <1>a, OneChanged DEF VInv
<1>1. CASE FinishUpload(v)
  <2>1. v \notin Published
    BY <1>1 DEF FinishUpload, VInv, VideoOK
  <2>2. VideoOK(video') /\ OneCurrentVersion'
    BY <1>1, <1>a, <2>1 DEF FinishUpload, Statuses
  <2>3. JobsOK(jobs') /\ DOMAIN jobs \subseteq DOMAIN jobs'
    BY <1>1, <2>1, EnqueuedOK DEF FinishUpload, Kinds, VInv
  <2> QED
    BY <1>1, <2>2, <2>3 DEF FinishUpload, Handler, VInv, WorkerOK, AskOK
<1>2. CASE Edit(v)
  <2>1. [video[v] EXCEPT !.title = @ + 1] \in Rows /\ [video[v] EXCEPT !.title = @ + 1].status = video[v].status
    BY <1>0, <1>2, BoundsAssumption DEF Rows, Edit
  <2>2. video' = [video EXCEPT ![v] = [video[v] EXCEPT !.title = @ + 1]]
    BY <1>2 DEF Edit, VInv, VideoOK
  <2>3. VideoOK(video') /\ OneCurrentVersion'
    BY <2>1, <2>2, OneChanged DEF VInv, VideoOK
  <2>4. JobsOK(jobs') /\ DOMAIN jobs \subseteq DOMAIN jobs'
    BY <1>2, EnqueuedOK, RequeuedOK DEF Edit, Kinds, VInv
  <2> QED
    BY <1>2, <2>3, <2>4 DEF Edit, Handler, VInv, WorkerOK, AskOK
<1>3. CASE Publish(v)
  <2>1. v \notin Published /\ video[v].status = "ready"
    BY <1>3 DEF Publish, VInv, VideoOK
  <2>2. \A w \in Videos : video'[w] = IF w = v THEN [video[w] EXCEPT !.status = "published"]
                                     ELSE IF w = Replaces[v] THEN [video[w] EXCEPT !.status = "withdrawn"]
                                     ELSE video[w]
    BY <1>3 DEF Publish
  <2>3. \A w \in Videos :
            /\ video'[w] \in Rows
            /\ video'[w].status = IF w = v THEN "published"
                                  ELSE IF w = Replaces[v] THEN "withdrawn" ELSE video[w].status
    BY <2>2 DEF VInv, VideoOK, Rows, Statuses
  <2>4. VideoOK(video')
    BY <1>3, <2>1, <2>3, VideosAssumption DEF Publish, VInv, VideoOK
  <2>5. OneCurrentVersion'
    <3> DEFINE root(u) == IF Replaces[u] = None THEN u ELSE Replaces[u]
    <3> SUFFICES ASSUME NEW u \in Videos, NEW w \in Videos,
                        video'[u].status = "published", video'[w].status = "published", root(u) = root(w)
                 PROVE  u = w
      BY DEF OneCurrentVersion
    <3>1. ASSUME NEW x \in Videos, video'[x].status = "published", x # v, root(x) = root(v) PROVE FALSE
      <4>1. video[x].status = "published" /\ x # Replaces[v]
        BY <3>1, <2>3
      <4>2. CASE Replaces[v] = None
        BY <2>1, <3>1, <4>2, VideosAssumption
      <4>3. CASE Replaces[v] # None
        <5>1. Replaces[v] \in Videos /\ Replaces[Replaces[v]] = None /\ video[Replaces[v]].status = "published"
          BY <1>3, <4>3, VideosAssumption DEF Publish, Current
        <5>2. root(x) = root(Replaces[v])
          BY <3>1, <4>3, <5>1
        <5> QED
          BY <4>1, <5>1, <5>2 DEF VInv, OneCurrentVersion
      <4> QED
        BY <4>2, <4>3
    <3>2. CASE u # v /\ w # v
      BY <3>2, <2>3 DEF VInv, OneCurrentVersion
    <3> QED
      BY <3>1, <3>2
  <2> QED
    BY <1>3, <2>4, <2>5 DEF Publish, Handler, VInv, JobsOK, WorkerOK, AskOK
<1>4. CASE Withdraw(v)
  <2>1. VideoOK(video') /\ OneCurrentVersion'
    BY <1>4, <1>a DEF Withdraw, Statuses
  <2> QED
    BY <1>4, <2>1 DEF Withdraw, Handler, VInv, JobsOK, WorkerOK, AskOK
<1>5. CASE Delete(v)
  <2>1. VideoOK(video') /\ OneCurrentVersion'
    BY <1>5, <1>a DEF Delete, Statuses
  <2> DEFINE cancelled == [i \in DOMAIN jobs |->
                              IF jobs[i].video = v /\ jobs[i].status = "queued"
                              THEN [jobs[i] EXCEPT !.status = "cancelled"] ELSE jobs[i]]
  <2>2. /\ cancelled \in [DOMAIN jobs -> JobRows] /\ DOMAIN cancelled = DOMAIN jobs
        /\ \A i \in DOMAIN jobs : cancelled[i].kind = jobs[i].kind /\ cancelled[i].video = jobs[i].video
    BY WellFormed DEF VInv, JobRows
  <2>3. JobsOK(cancelled)
    BY <2>2, Restated DEF VInv
  <2>4. jobs' = Enqueued(cancelled, v, "delete")
    BY <1>5 DEF Delete
  <2>5. JobsOK(jobs') /\ DOMAIN jobs \subseteq DOMAIN jobs'
    <3> HIDE DEF cancelled
    <3> QED
      BY <2>2, <2>3, <2>4, EnqueuedOK DEF Kinds
  <2> QED
    BY <1>5, <2>1, <2>5 DEF Delete, Handler, VInv, WorkerOK, AskOK
<1> QED
  BY <1>1, <1>2, <1>3, <1>4, <1>5

\* retry and prepare: what they have read may be stale when they write, but a
\* video once transcoded for the first time stays one that the server did not
\* start with.
LEMMA AskerOK ==
    ASSUME VInv, NEW a \in Askers,
           \/ \E v \in Videos : ReadRetry(a, v) \/ ReadShare(a, v)
           \/ WriteRetry(a) \/ WriteShare(a)
    PROVE  VInv'
<1>1. ASSUME NEW v \in Videos, ReadRetry(a, v) PROVE VInv'
  <2>1. v \notin Published
    BY <1>1, FoundRow DEF ReadRetry, VInv
  <2>2. AskOK'
    BY <1>1, <2>1 DEF ReadRetry, VInv, AskOK
  <2> QED
    BY <1>1, <2>2 DEF ReadRetry, Handler, rows, VInv, VideoOK, JobsOK, WorkerOK, OneCurrentVersion
<1>2. ASSUME NEW v \in Videos, ReadShare(a, v) PROVE VInv'
  <2>1. AskOK'
    BY <1>2 DEF ReadShare, VInv, AskOK
  <2> QED
    BY <1>2, <2>1 DEF ReadShare, Handler, rows, VInv, VideoOK, JobsOK, WorkerOK, OneCurrentVersion
<1>3. CASE WriteRetry(a)
  <2> DEFINE v == ask[a].video
             r == [video[v] EXCEPT !.status = "processing"]
  <2>1. v \in Videos /\ v \notin Published
    BY <1>3 DEF WriteRetry, VInv, AskOK
  <2>2. r \in Rows /\ r.status = "processing" /\ video' = [video EXCEPT ![v] = r]
    BY <1>3, <2>1 DEF WriteRetry, VInv, VideoOK, Rows, Statuses
  <2>3. VideoOK(video') /\ OneCurrentVersion'
    <3> HIDE DEF v, r
    <3> QED
      BY <2>1, <2>2, OneChanged DEF VInv
  <2>4. JobsOK(jobs') /\ DOMAIN jobs' = DOMAIN jobs
    BY <1>3, RequeuedOK DEF WriteRetry, VInv
  <2>5. AskOK'
    BY <1>3 DEF WriteRetry, VInv, AskOK, Silent
  <2> QED
    BY <1>3, <2>3, <2>4, <2>5 DEF WriteRetry, Handler, VInv, WorkerOK
<1>4. CASE WriteShare(a)
  <2>1. ask[a].video \in Videos
    BY <1>4 DEF WriteShare, VInv, AskOK
  <2>2. JobsOK(jobs') /\ DOMAIN jobs \subseteq DOMAIN jobs'
    BY <1>4, <2>1, EnqueuedOK, RequeuedOK DEF WriteShare, VInv, Kinds
  <2>3. AskOK'
    BY <1>4 DEF WriteShare, VInv, AskOK, Silent
  <2> QED
    BY <1>4, <2>2, <2>3 DEF WriteShare, Handler, VInv, VideoOK, WorkerOK, OneCurrentVersion
<1> QED
  BY <1>1, <1>2, <1>3, <1>4

\* Every step keeps the invariant.
LEMMA StepOK == VInv /\ [Next]_vars => VInv'
<1> SUFFICES ASSUME VInv, [Next]_vars PROVE VInv'
  OBVIOUS
<1>1. CASE UNCHANGED vars
  BY <1>1 DEF vars, VInv, VideoOK, JobsOK, WorkerOK, AskOK, OneCurrentVersion
<1>2. CASE Next
  BY <1>2, QueueOK, ServerOK, HandlerOK, AskerOK DEF Next
<1> QED
  BY <1>1, <1>2

\* Of a video and the versions that replace it one is published at most
\* (routers/video_learning.py, publish), whatever the queue, requests that have
\* read and not yet written, and restarts do in between.
THEOREM CurrentVersionUnique == Spec => []OneCurrentVersion
<1>1. Init => VInv
  BY InitOK
<1>2. VInv /\ [Next]_vars => VInv'
  BY StepOK
<1>3. VInv => OneCurrentVersion
  BY DEF VInv
<1> QED
  BY <1>1, <1>2, <1>3, PTL DEF Spec

-----------------------------------------------------------------------------
(* Covers, and what never comes back.  The rows of a video tell its story:   *)
(* while its first transcode is queued or runs the video is in processing,   *)
(* so nobody edits it; a cover that shows another title than the row's waits *)
(* for a cover job; and only a deletion takes files away.                    *)

RowStatuses == {"queued", "processing", "ready", "failed", "cancelled"}
FileKinds == {"source", "masters", "cover"}

Busy == worker.pc # "idle"
Job == jobs[worker.job]

\* No deletion of v was ever queued.
Kept(v) == \A i \in DOMAIN jobs : jobs[i].video = v => jobs[i].kind # "delete"

\* No cover of v is queued, in work, or has failed.
CoverReady(v) ==
    \A i \in DOMAIN jobs : jobs[i].video = v /\ jobs[i].kind = "cover" => jobs[i].status = "ready"

\* enqueue finds a row by its key, which is unique.
OneRow ==
    \A i, k \in DOMAIN jobs : jobs[i].video = jobs[k].video /\ jobs[i].kind = jobs[k].kind => i = k

Typed ==
    /\ files \in [Videos -> SUBSET FileKinds]
    /\ drawn \in [Videos -> 0 .. MaxEdits]
    /\ worker \in [pc : {"idle", "working", "finishing"}, job : Nat, title : 0 .. MaxEdits, ok : BOOLEAN]
    /\ server \in {"up", "stopping", "down"}
    /\ faults \in 0 .. MaxFaults
    /\ server = "down" => ~Busy

\* Jobs and requests are of videos that exist.
RowsUsed ==
    /\ \A i \in DOMAIN jobs : video[jobs[i].video].status # "absent"
    /\ \A a \in Askers : ask[a].op \in {"retry", "share"} => video[ask[a].video].status # "absent"

\* The first transcode tells the status of its video.
SourceTold ==
    \A i \in DOMAIN jobs : jobs[i].kind = "source" =>
        /\ jobs[i].status \in {"queued", "processing"} => video[jobs[i].video].status = "processing"
        /\ Busy /\ worker.job = i => video[jobs[i].video].status = "processing"
        /\ jobs[i].status = "failed" => video[jobs[i].video].status = "failed"

\* What the thread draws is the title of the row, or a cover job will follow.
WorkerTold ==
    Busy =>
        /\ Job.status \in {"processing", "queued", "cancelled"}
        /\ Job.kind # "delete" /\ Kept(Job.video) =>
            /\ worker.title # video[Job.video].title => Job.kind = "shared" /\ ~CoverReady(Job.video)
            /\ Job.kind = "cover" => Job.status = "processing"
            /\ worker.pc = "finishing" /\ worker.ok =>
                "cover" \in files[Job.video] /\ drawn[Job.video] = worker.title

\* A cover that no job will draw again shows the title of its row.
CoversTold ==
    \A v \in Videos : Kept(v) =>
        /\ video[v].status = "published" => CoverReady(v)
        /\ video[v].status \in {"ready", "published"} /\ CoverReady(v) =>
            "cover" \in files[v] /\ drawn[v] = video[v].title

Told == Typed /\ OneRow /\ RowsUsed /\ SourceTold /\ WorkerTold /\ CoversTold
IInv == VInv /\ Told

\* Requeued row by row.
LEMMA RequeuedRows ==
    ASSUME NEW js, JobsOK(js), NEW v, NEW kind, NEW from
    PROVE  /\ DOMAIN Requeued(js, v, kind, from) = DOMAIN js
           /\ \A i \in DOMAIN js :
                 /\ Requeued(js, v, kind, from)[i].video = js[i].video
                 /\ Requeued(js, v, kind, from)[i].kind = js[i].kind
                 /\ Requeued(js, v, kind, from)[i].status =
                       IF js[i].video = v /\ js[i].kind = kind /\ js[i].status \in from
                       THEN "queued" ELSE js[i].status
<1>1. \A i \in DOMAIN js : js[i] \in JobRows
  BY WellFormed
<1> QED
  BY <1>1 DEF Requeued, JobRows

\* enqueue row by row: the new one is the only one of its key.
LEMMA EnqueuedRows ==
    ASSUME NEW js, JobsOK(js), NEW v \in Videos, NEW kind \in Kinds
    PROVE  /\ DOMAIN js \subseteq DOMAIN Enqueued(js, v, kind)
           /\ \A i \in DOMAIN js : Enqueued(js, v, kind)[i] = js[i]
           /\ \A i \in DOMAIN Enqueued(js, v, kind) : i \notin DOMAIN js =>
                 /\ Enqueued(js, v, kind)[i] = [video |-> v, kind |-> kind, status |-> "queued"]
                 /\ \A k \in DOMAIN js : ~(js[k].video = v /\ js[k].kind = kind)
                 /\ \A k \in DOMAIN Enqueued(js, v, kind) : k \notin DOMAIN js => k = i
           /\ \E i \in DOMAIN Enqueued(js, v, kind) :
                 Enqueued(js, v, kind)[i].video = v /\ Enqueued(js, v, kind)[i].kind = kind
<1> DEFINE row == [video |-> v, kind |-> kind, status |-> "queued"]
<1>1. row \in JobRows /\ js \in Seq(JobRows)
  BY DEF JobRows, JobsOK
<1>2. CASE \E i \in DOMAIN js : js[i].video = v /\ js[i].kind = kind
  BY <1>2 DEF Enqueued
<1>3. CASE ~\E i \in DOMAIN js : js[i].video = v /\ js[i].kind = kind
  <2>1. Enqueued(js, v, kind) = Append(js, row)
    BY <1>3 DEF Enqueued
  <2>2. /\ Append(js, row) \in Seq(JobRows)
        /\ Len(Append(js, row)) = Len(js) + 1
        /\ \A i \in 1 .. Len(js) : Append(js, row)[i] = js[i]
        /\ Append(js, row)[Len(js) + 1] = row
    BY <1>1, AppendProperties
  <2>3. DOMAIN js = 1 .. Len(js) /\ DOMAIN Append(js, row) = 1 .. Len(js) + 1 /\ Len(js) \in Nat
    BY <1>1, <2>2, LenProperties
  <2> HIDE DEF row
  <2>4. \A i \in DOMAIN Append(js, row) : i \notin DOMAIN js => i = Len(js) + 1
    BY <2>3
  <2> QED
    BY <1>3, <2>1, <2>2, <2>3, <2>4 DEF row
<1> QED
  BY <1>2, <1>3

\* StatusOf is the status of the row with the key, if there is one.
LEMMA StatusFound ==
    ASSUME OneRow, NEW v, NEW kind
    PROVE  /\ \A i \in DOMAIN jobs : jobs[i].video = v /\ jobs[i].kind = kind => StatusOf(v, kind) = jobs[i].status
           /\ (~\E i \in DOMAIN jobs : jobs[i].video = v /\ jobs[i].kind = kind) => StatusOf(v, kind) = "none"
<1>1. ASSUME NEW i \in DOMAIN jobs, jobs[i].video = v, jobs[i].kind = kind
      PROVE  StatusOf(v, kind) = jobs[i].status
  <2>1. i \in Ids(v, kind)
    BY <1>1 DEF Ids
  <2>2. PICK k \in Ids(v, kind) : k = CHOOSE x \in Ids(v, kind) : TRUE
    BY <2>1
  <2>3. k = i
    BY <1>1, <2>2 DEF Ids, OneRow
  <2> QED
    BY <2>1, <2>2, <2>3 DEF StatusOf
<1> QED
  BY <1>1 DEF StatusOf, Ids

\* publish asks for no cover, or one that is done.
LEMMA CoverDoneReady ==
    ASSUME OneRow, JobsOK(jobs), NEW v
    PROVE  CoverDone(v) <=> CoverReady(v)
<1>1. \A i \in DOMAIN jobs : jobs[i] \in JobRows
  BY WellFormed
<1> QED
  BY <1>1, StatusFound DEF CoverDone, CoverReady, JobRows

\* What the leaves below know of the rows and of the thread's job.
LEMMA Typing ==
    ASSUME VInv, Typed
    PROVE  /\ \A i \in DOMAIN jobs : /\ i \in Nat
                                     /\ jobs[i].video \in Videos /\ jobs[i].kind \in Kinds
                                     /\ jobs[i].status \in RowStatuses
           /\ \A v \in Videos : /\ video[v].status \in Statuses /\ video[v].title \in 0 .. MaxEdits
                                /\ video[v].brand \in BOOLEAN
                                /\ video[v] \in Rows
                                /\ files[v] \in SUBSET FileKinds
           /\ Busy => worker.job \in DOMAIN jobs
<1>1. \A i \in DOMAIN jobs : jobs[i] \in JobRows
  BY WellFormed DEF VInv
<1>2. DOMAIN jobs \subseteq Nat
  BY LenProperties DEF VInv, JobsOK
<1> QED
  BY <1>1, <1>2 DEF VInv, VideoOK, Typed, Rows, JobRows, RowStatuses, WorkerOK, Busy

\* The server starts with whole files and nothing queued.
LEMMA InitTold == Init => Told
<1> SUFFICES ASSUME Init PROVE Told
  OBVIOUS
<1>1. Typed
  BY VideosAssumption, BoundsAssumption DEF Init, Typed, FileKinds, Idle, Busy
<1>2. OneRow /\ RowsUsed /\ SourceTold /\ WorkerTold
  BY DEF Init, OneRow, RowsUsed, SourceTold, WorkerTold, Busy, Idle, Silent
<1>3. CoversTold
  <2>1. \A v \in Videos : CoverReady(v)
    BY DEF Init, CoverReady
  <2>2. \A v \in Videos : video[v].status \in {"ready", "published"} =>
            "cover" \in files[v] /\ drawn[v] = video[v].title
    BY VideosAssumption DEF Init
  <2> QED
    BY <2>1, <2>2 DEF CoversTold
<1> QED
  BY <1>1, <1>2, <1>3 DEF Told

\* The thread claims a row (run_one).
LEMMA TakeTold ==
    ASSUME IInv, NEW i \in DOMAIN jobs, Take(i)
    PROVE  Told'
<1>0. /\ \A k \in DOMAIN jobs : /\ k \in Nat
                                /\ jobs[k].video \in Videos /\ jobs[k].kind \in Kinds
                                /\ jobs[k].status \in RowStatuses
      /\ video[jobs[i].video].title \in 0 .. MaxEdits
  BY Typing DEF IInv, Told
<1>1. /\ DOMAIN jobs' = DOMAIN jobs
      /\ \A k \in DOMAIN jobs : /\ jobs'[k].video = jobs[k].video /\ jobs'[k].kind = jobs[k].kind
                                /\ k # i => jobs'[k].status = jobs[k].status
      /\ jobs'[i].status \in {"processing", "cancelled"}
      /\ jobs'[i].status = "cancelled" =>
            video[jobs[i].video].status = "deleted" /\ jobs[i].kind # "delete" /\ worker' = worker
      /\ jobs'[i].status = "processing" =>
            worker' = [pc |-> "working", job |-> i, title |-> video[jobs[i].video].title, ok |-> FALSE]
  <2>1. \A k \in DOMAIN jobs : jobs[k] \in JobRows
    BY WellFormed DEF IInv, VInv
  <2> QED
    BY <1>0, <2>1 DEF Take, JobRows
<1>2. ~Busy /\ jobs[i].status = "queued" /\ server = "up" /\ UNCHANGED <<video, files, drawn, ask, server, faults>>
  BY DEF Take, Busy
<1>3. Typed'
  <2>1. worker' \in [pc : {"idle", "working", "finishing"}, job : Nat, title : 0 .. MaxEdits, ok : BOOLEAN]
    <3>1. CASE jobs'[i].status = "cancelled"
      BY <1>1, <3>1 DEF IInv, Told, Typed
    <3>2. CASE jobs'[i].status = "processing"
      <4> DEFINE t == video[jobs[i].video].title
      <4>1. t \in 0 .. MaxEdits /\ i \in Nat
        BY <1>0
      <4>2. worker' = [pc |-> "working", job |-> i, title |-> t, ok |-> FALSE]
        BY <1>1, <3>2
      <4> HIDE DEF t
      <4> QED
        BY <4>1, <4>2
    <3> QED
      BY <1>1, <3>1, <3>2
  <2> QED
    BY <1>2, <2>1 DEF IInv, Told, Typed
<1>4. OneRow' /\ RowsUsed'
  BY <1>1, <1>2 DEF IInv, Told, OneRow, RowsUsed
<1>5. SourceTold'
  BY <1>0, <1>1, <1>2 DEF IInv, Told, SourceTold, Busy
<1>6. WorkerTold'
  BY <1>0, <1>1, <1>2 DEF WorkerTold, Busy, Job
<1>7. CoversTold'
  BY <1>0, <1>1, <1>2 DEF IInv, Told, CoversTold, Kept, CoverReady
<1> QED
  BY <1>3, <1>4, <1>5, <1>6, <1>7 DEF Told

\* The thread works on files (process_source, build_cover, erase_video_files), whole
\* or cut short by the codec or by a stop.
LEMMA WorkTold ==
    ASSUME IInv, Work \/ WorkFails \/ Interrupted
    PROVE  Told'
<1> DEFINE v == jobs[worker.job].video
           kind == jobs[worker.job].kind
<1>0. /\ v \in Videos /\ kind \in Kinds /\ files[v] \in SUBSET FileKinds
      /\ worker.pc = "working" /\ Busy
  BY Typing DEF IInv, Told, Busy, Work, WorkFails, Interrupted
<1>1. UNCHANGED <<video, jobs, ask, server>>
  BY DEF Work, WorkFails, Interrupted, rows
<1>2. PICK ok \in BOOLEAN : worker' = [worker EXCEPT !.pc = "finishing", !.ok = ok]
  BY DEF Work, WorkFails, Interrupted, Cut, Worked
<1>3. PICK F \in SUBSET FileKinds, d \in {drawn[v], worker.title} :
        /\ files' = [files EXCEPT ![v] = F]
        /\ drawn' = [drawn EXCEPT ![v] = d]
        /\ kind # "delete" => /\ files[v] \subseteq F
                              /\ "cover" \in F /\ "cover" \notin files[v] => d = worker.title
                              /\ ok => "cover" \in F /\ d = worker.title
        /\ kind = "delete" => d = drawn[v]
  <2> DEFINE Done(F, d) ==
        /\ F \in SUBSET FileKinds /\ d \in {drawn[v], worker.title}
        /\ files' = [files EXCEPT ![v] = F]
        /\ drawn' = [drawn EXCEPT ![v] = d]
        /\ kind # "delete" => /\ files[v] \subseteq F
                              /\ "cover" \in F /\ "cover" \notin files[v] => d = worker.title
                              /\ ok => "cover" \in F /\ d = worker.title
        /\ kind = "delete" => d = drawn[v]
  <2>0. /\ drawn = [drawn EXCEPT ![v] = drawn[v]] /\ files = [files EXCEPT ![v] = files[v]]
        /\ worker'.ok = ok
    BY <1>2 DEF IInv, Told, Typed
  <2>1. \A made \in SUBSET FileKinds : files[v] \cup made \in SUBSET FileKinds
    BY <1>0
  <2>2. "cover" \in Outputs(kind) /\ Outputs(kind) \in SUBSET FileKinds
    BY DEF Outputs, FileKinds
  <2>3. CASE Work
    <3>1. CASE kind = "delete"
      <4>1. Done({}, drawn[v])
        BY <1>0, <2>0, <2>3, <3>1 DEF Work
      <4> QED BY <4>1
    <3>2. CASE kind # "delete" /\ "source" \notin files[v]
      <4>1. files' = files /\ drawn' = drawn /\ ok = FALSE
        <5>1. files' = files /\ drawn' = drawn /\ Worked(FALSE)
          BY <2>3, <3>2 DEF Work
        <5> QED BY <2>0, <5>1 DEF Worked, IInv, Told, Typed
      <4>2. Done(files[v], drawn[v])
        BY <1>0, <2>0, <3>2, <4>1
      <4> QED BY <4>2
    <3>3. CASE kind # "delete" /\ "source" \in files[v]
      <4>1. files' = [files EXCEPT ![v] = files[v] \cup Outputs(kind)] /\ drawn' = [drawn EXCEPT ![v] = worker.title]
        BY <2>3, <3>3 DEF Work
      <4>2. Done(files[v] \cup Outputs(kind), worker.title)
        BY <1>0, <2>1, <2>2, <3>3, <4>1
      <4> QED BY <4>2
    <3> QED BY <3>1, <3>2, <3>3
  <2>4. CASE Cut
    <3>0. ok = FALSE
      BY <2>0, <2>4 DEF Cut, Worked, IInv, Told, Typed
    <3>1. CASE kind = "delete"
      <4>1. PICK left \in SUBSET files[v] : files' = [files EXCEPT ![v] = left] /\ drawn' = drawn
        BY <2>4, <3>1 DEF Cut
      <4>2. Done(left, drawn[v])
        BY <1>0, <2>0, <3>0, <3>1, <4>1
      <4> QED BY <4>2
    <3>2. CASE kind # "delete"
      <4>1. PICK made \in {{}, Outputs(kind) \ {"cover"}, Outputs(kind)} :
              /\ files' = [files EXCEPT ![v] = files[v] \cup made]
              /\ drawn' = IF "cover" \in made THEN [drawn EXCEPT ![v] = worker.title] ELSE drawn
        BY <2>4, <3>2 DEF Cut
      <4>2. made \in SUBSET FileKinds
        BY <2>2
      <4>3. Done(files[v] \cup made, IF "cover" \in made THEN worker.title ELSE drawn[v])
        BY <1>0, <2>0, <2>1, <3>0, <3>2, <4>1, <4>2
      <4> QED BY <4>3
    <3> QED BY <3>1, <3>2
  <2> QED
    BY <2>3, <2>4 DEF WorkFails, Interrupted
<1>4. /\ worker'.pc = "finishing" /\ worker'.ok = ok
      /\ worker'.job = worker.job /\ worker'.title = worker.title
      /\ Busy'
  BY <1>2 DEF IInv, Told, Typed, Busy
<1>5. Typed'
  <2>1. worker.title \in 0 .. MaxEdits /\ drawn[v] \in 0 .. MaxEdits
    BY <1>0 DEF IInv, Told, Typed
  <2>2. files' \in [Videos -> SUBSET FileKinds] /\ drawn' \in [Videos -> 0 .. MaxEdits]
    BY <1>0, <1>3, <2>1 DEF IInv, Told, Typed
  <2>3. worker' \in [pc : {"idle", "working", "finishing"}, job : Nat, title : 0 .. MaxEdits, ok : BOOLEAN]
    BY <1>2 DEF IInv, Told, Typed
  <2>4. faults' \in 0 .. MaxFaults
    <3>1. faults' = faults \/ (faults < MaxFaults /\ faults' = faults + 1)
      BY DEF Work, WorkFails, Interrupted, Fault
    <3> QED
      BY <3>1, BoundsAssumption DEF IInv, Told, Typed
  <2> QED
    BY <1>0, <1>1, <2>2, <2>3, <2>4 DEF IInv, Told, Typed
<1>6. OneRow' /\ RowsUsed' /\ SourceTold'
  BY <1>0, <1>1, <1>4 DEF IInv, Told, OneRow, RowsUsed, SourceTold
<1>7. /\ v \in Videos
      /\ \A u \in Videos : /\ u # v => files'[u] = files[u] /\ drawn'[u] = drawn[u]
                           /\ u = v => files'[u] = F /\ drawn'[u] = d
  BY <1>0, <1>3 DEF IInv, Told, Typed
<1>8. WorkerTold'
  BY <1>0, <1>1, <1>3, <1>4, <1>7 DEF IInv, Told, WorkerTold, Kept, CoverReady, Job
<1>9. CoversTold'
  <2> SUFFICES ASSUME NEW u \in Videos, Kept(u)'
               PROVE  /\ video[u].status = "published" => CoverReady(u)
                      /\ video[u].status \in {"ready", "published"} /\ CoverReady(u) =>
                            "cover" \in files'[u] /\ drawn'[u] = video[u].title
    BY <1>1 DEF CoversTold, Kept, CoverReady
  <2>1. Kept(u)
    BY <1>1 DEF Kept
  <2>2. CASE u # v
    BY <1>7, <2>1, <2>2 DEF IInv, Told, CoversTold
  <2>3. CASE u = v
    <3>1. kind # "delete"
      BY <1>0, <2>1, <2>3, Typing DEF IInv, Told, Kept
    <3>2. ASSUME video[v].status \in {"ready", "published"}, CoverReady(v)
          PROVE  "cover" \in F /\ d = video[v].title
      BY <1>0, <1>3, <2>1, <2>3, <3>1, <3>2 DEF IInv, Told, CoversTold, WorkerTold, Job
    <3> QED
      BY <1>7, <2>1, <2>3, <3>2 DEF IInv, Told, CoversTold
  <2> QED
    BY <2>2, <2>3
<1> QED
  BY <1>5, <1>6, <1>8, <1>9 DEF Told

\* A result is applied (run_one).  A video deleted meanwhile keeps its status and
\* its deletion is queued again.
LEMMA FinishTold ==
    ASSUME IInv, Finish
    PROVE  Told'
<1> DEFINE i == worker.job
           v == jobs[i].video
           kind == jobs[i].kind
<1>0. /\ i \in DOMAIN jobs /\ v \in Videos /\ kind \in Kinds /\ Busy /\ worker.pc = "finishing"
      /\ \A k \in DOMAIN jobs : jobs[k].video \in Videos
      /\ ~Busy' /\ UNCHANGED <<files, drawn, ask, server, faults>>
  BY Typing DEF IInv, Told, Busy, Finish, Idle
<1>1. Typed'
  BY <1>0, BoundsAssumption DEF IInv, Told, Typed, Finish, Idle
<1>2. WorkerTold'
  BY <1>0 DEF WorkerTold
<1>3. CASE video[v].status = "deleted" /\ kind # "delete"
  <2> DEFINE js == [jobs EXCEPT ![i].status = "cancelled"]
             ks == Enqueued(js, v, "delete")
             again == {"ready", "failed", "cancelled"}
  <2>0. jobs' = Requeued(ks, v, "delete", again) /\ video' = video
    BY <1>3 DEF Finish
  <2>1. JobsOK(js) /\ DOMAIN js = DOMAIN jobs
    BY <1>0, OneRestated DEF IInv, VInv
  <2>2. \A k \in DOMAIN jobs : /\ js[k].video = jobs[k].video /\ js[k].kind = jobs[k].kind
                              /\ js[k].status = IF k = i THEN "cancelled" ELSE jobs[k].status
    BY <1>0, WellFormed DEF IInv, VInv, JobRows
  <2> HIDE DEF js
  <2>3. JobsOK(ks)
    BY <1>0, <2>1, EnqueuedOK DEF Kinds
  <2>4. /\ DOMAIN js \subseteq DOMAIN ks
        /\ \A k \in DOMAIN js : ks[k] = js[k]
        /\ \A k \in DOMAIN ks : k \notin DOMAIN js =>
              /\ ks[k] = [video |-> v, kind |-> "delete", status |-> "queued"]
              /\ \A l \in DOMAIN js : ~(js[l].video = v /\ js[l].kind = "delete")
              /\ \A l \in DOMAIN ks : l \notin DOMAIN js => l = k
    <3>1. "delete" \in Kinds
      BY DEF Kinds
    <3> QED BY <1>0, <2>1, <3>1, EnqueuedRows
  <2> HIDE DEF ks
  <2>5. /\ DOMAIN jobs' = DOMAIN ks
        /\ \A k \in DOMAIN ks : /\ jobs'[k].video = ks[k].video /\ jobs'[k].kind = ks[k].kind
                                /\ ks[k].kind # "delete" => jobs'[k].status = ks[k].status
    <3> HIDE DEF again
    <3> QED BY <2>0, <2>3, RequeuedRows
  <2> HIDE DEF again
  <2>6. /\ DOMAIN jobs \subseteq DOMAIN jobs'
        /\ \A k \in DOMAIN jobs :
              /\ jobs'[k].video = jobs[k].video /\ jobs'[k].kind = jobs[k].kind
              /\ jobs[k].kind # "delete" =>
                    jobs'[k].status = IF k = i THEN "cancelled" ELSE jobs[k].status
        /\ \A k \in DOMAIN jobs' : k \notin DOMAIN jobs =>
              /\ jobs'[k].video = v /\ jobs'[k].kind = "delete"
              /\ \A l \in DOMAIN jobs : ~(jobs[l].video = v /\ jobs[l].kind = "delete")
              /\ \A l \in DOMAIN jobs' : l \notin DOMAIN jobs => l = k
    BY <2>1, <2>2, <2>4, <2>5
  <2>7. OneRow'
    BY <2>6 DEF IInv, Told, OneRow
  <2>8. RowsUsed'
    BY <1>0, <1>3, <2>0, <2>6 DEF IInv, Told, RowsUsed
  <2>9. SourceTold'
    BY <1>0, <2>0, <2>6 DEF IInv, Told, SourceTold
  <2>10. CoversTold'
    <3>1. \A u \in Videos : Kept(u)' => Kept(u)
      BY <2>6 DEF Kept
    <3>2. \A u \in Videos : u # v => (CoverReady(u)' <=> CoverReady(u))
      <4> SUFFICES ASSUME NEW u \in Videos, u # v PROVE CoverReady(u)' <=> CoverReady(u)
        OBVIOUS
      <4>1. \A k \in DOMAIN jobs' : jobs'[k].video = u => k \in DOMAIN jobs /\ jobs[k].video = u /\ k # i
        BY <2>6
      <4> QED BY <2>6, <4>1 DEF CoverReady
    <3> QED
      BY <1>0, <1>3, <2>0, <3>1, <3>2 DEF IInv, Told, CoversTold
  <2> QED
    BY <1>1, <1>2, <2>7, <2>8, <2>9, <2>10 DEF Told
<1>4. CASE ~(video[v].status = "deleted" /\ kind # "delete")
  <2> DEFINE s == IF worker.ok THEN "ready" ELSE "failed"
  <2>0. jobs' = [jobs EXCEPT ![i].status = s] /\ video' = Transcoded(v, kind, worker.ok)
    BY <1>4 DEF Finish
  <2>1. /\ DOMAIN jobs' = DOMAIN jobs
        /\ \A k \in DOMAIN jobs : /\ jobs'[k].video = jobs[k].video /\ jobs'[k].kind = jobs[k].kind
                                  /\ jobs'[k].status = IF k = i THEN s ELSE jobs[k].status
    <3>1. \A k \in DOMAIN jobs : jobs[k] \in JobRows
      BY WellFormed DEF IInv, VInv
    <3> HIDE DEF s
    <3> QED BY <1>0, <2>0, <3>1 DEF JobRows
  <2>2. kind = "source" => video[v].status = "processing"
    BY <1>0 DEF IInv, Told, SourceTold
  <2>3. \A u \in Videos :
          /\ video'[u].title = video[u].title
          /\ video'[u].status = IF u = v /\ kind = "source" THEN s ELSE video[u].status
    BY <1>0, <2>0, <2>2, Typing DEF Transcoded, IInv, Told, VInv, VideoOK, Rows
  <2> HIDE DEF s
  <2>s. s = IF worker.ok THEN "ready" ELSE "failed"
    BY DEF s
  <2>4. OneRow'
    BY <2>1 DEF IInv, Told, OneRow
  <2>5. RowsUsed'
    <3>1. \A a \in Askers : ask[a].op \in {"retry", "share"} => ask[a].video \in Videos
      BY DEF IInv, VInv, AskOK
    <3>2. \A u \in Videos : video[u].status # "absent" => video'[u].status # "absent"
      BY <2>3, <2>s
    <3>3. \A k \in DOMAIN jobs' : video'[jobs'[k].video].status # "absent"
      BY <1>0, <2>1, <3>2 DEF IInv, Told, RowsUsed
    <3>4. \A a \in Askers : ask'[a].op \in {"retry", "share"} => video'[ask'[a].video].status # "absent"
      BY <1>0, <3>1, <3>2 DEF IInv, Told, RowsUsed
    <3> QED BY <3>3, <3>4 DEF RowsUsed
  <2>6. SourceTold'
    <3> SUFFICES ASSUME NEW k \in DOMAIN jobs, jobs[k].kind = "source"
                 PROVE /\ jobs'[k].status \in {"queued", "processing"} => video'[jobs[k].video].status = "processing"
                       /\ jobs'[k].status = "failed" => video'[jobs[k].video].status = "failed"
      BY <1>0, <2>1 DEF SourceTold
    <3>1. CASE k = i
      BY <1>0, <2>1, <2>3, <2>s, <3>1
    <3>2. CASE k # i
      <4>1. ~(jobs[k].video = v /\ kind = "source")
        BY <1>0, <3>2 DEF IInv, Told, OneRow
      <4> QED
        BY <1>0, <2>1, <2>3, <3>2, <4>1 DEF IInv, Told, SourceTold
    <3> QED BY <3>1, <3>2
  <2>7. CoversTold'
    <3> SUFFICES ASSUME NEW u \in Videos, Kept(u)'
                 PROVE  /\ video'[u].status = "published" => CoverReady(u)'
                        /\ video'[u].status \in {"ready", "published"} /\ CoverReady(u)' =>
                              "cover" \in files[u] /\ drawn[u] = video[u].title
      BY <1>0, <2>3 DEF CoversTold
    <3>1. Kept(u)
      BY <2>1 DEF Kept
    <3>2. CASE u # v
      <4>1. CoverReady(u)' <=> CoverReady(u)
        BY <2>1, <3>2 DEF CoverReady
      <4> QED BY <2>3, <3>1, <3>2, <4>1 DEF IInv, Told, CoversTold
    <3>3. CASE u = v /\ kind = "source"
      <4>1. /\ Job.kind = "source" /\ Job.video = v /\ Kept(v)
        BY <3>1, <3>3 DEF Job
      <4>2. /\ worker.title = video[v].title
            /\ worker.ok => "cover" \in files[v] /\ drawn[v] = worker.title
        BY <1>0, <4>1 DEF IInv, Told, WorkerTold
      <4> QED
        BY <2>3, <2>s, <3>3, <4>2
    <3>4. CASE u = v /\ kind = "shared"
      <4>1. CoverReady(u)' <=> CoverReady(u)
        BY <1>0, <2>1, <3>4 DEF CoverReady
      <4> QED BY <2>3, <3>1, <3>4, <4>1 DEF IInv, Told, CoversTold
    <3>5. CASE u = v /\ kind = "cover"
      <4>1. /\ Job.kind = "cover" /\ Job.video = v /\ Kept(v) /\ Job = jobs[i]
        BY <3>1, <3>5 DEF Job
      <4>2. /\ worker.title = video[v].title /\ jobs[i].status = "processing"
            /\ worker.ok => "cover" \in files[v] /\ drawn[v] = worker.title
        BY <1>0, <4>1 DEF IInv, Told, WorkerTold
      <4>3. ~CoverReady(v)
        BY <1>0, <3>5, <4>2 DEF CoverReady
      <4>4. video[v].status # "published"
        BY <1>0, <3>1, <3>5, <4>3 DEF IInv, Told, CoversTold
      <4>5. CoverReady(u)' => worker.ok
        BY <1>0, <2>1, <2>s, <3>5 DEF CoverReady
      <4>6. video'[u].status = video[u].status
        BY <2>3, <3>5
      <4> QED
        BY <3>5, <4>2, <4>4, <4>5, <4>6
    <3>6. CASE u = v /\ kind = "delete"
      BY <1>0, <3>1, <3>6 DEF Kept
    <3> QED
      BY <1>0, <3>2, <3>3, <3>4, <3>5, <3>6 DEF Kinds
  <2> QED
    BY <1>1, <1>2, <2>4, <2>5, <2>6, <2>7 DEF Told
<1> QED
  BY <1>3, <1>4

\* The thread gives a job up or dies, and the server stops: no row changes.
LEMMA IdleTold ==
    ASSUME IInv, FinishFails \/ Stop \/ Stopped \/ Kill
    PROVE  Told'
<1>1. UNCHANGED <<video, jobs, files, drawn>>
  BY DEF FinishFails, Stop, Stopped, Kill, rows
<1>2. (worker' = Idle /\ ~Busy') \/ worker' = worker
  BY DEF FinishFails, Stop, Stopped, Kill, Idle, Busy
<1>3. \A a \in Askers : ask'[a].op \in {"retry", "share"} => ask'[a] = ask[a]
  BY DEF FinishFails, Stop, Stopped, Kill, Silent
<1>4. Typed'
  <2>1. worker' \in [pc : {"idle", "working", "finishing"}, job : Nat, title : 0 .. MaxEdits, ok : BOOLEAN]
    <3>1. 0 \in 0 .. MaxEdits /\ 0 \in Nat
      BY BoundsAssumption
    <3>2. Idle \in [pc : {"idle", "working", "finishing"}, job : Nat, title : 0 .. MaxEdits, ok : BOOLEAN]
      BY <3>1 DEF Idle
    <3> QED
      BY <1>2, <3>2 DEF IInv, Told, Typed
  <2>2. faults' = faults \/ (faults < MaxFaults /\ faults' = faults + 1)
    BY DEF FinishFails, Stop, Stopped, Kill, Fault
  <2>3. faults' \in 0 .. MaxFaults
    BY <2>2, BoundsAssumption DEF IInv, Told, Typed
  <2>4. server' \in {"up", "stopping", "down"} /\ (server' = "down" => ~Busy')
    BY DEF FinishFails, Stop, Stopped, Kill, Idle, Busy, IInv, Told, Typed
  <2> QED
    BY <1>1, <2>1, <2>3, <2>4 DEF IInv, Told, Typed
<1>5. OneRow' /\ CoversTold' /\ RowsUsed'
  BY <1>1, <1>3 DEF IInv, Told, OneRow, CoversTold, Kept, CoverReady, RowsUsed
<1>6. SourceTold'
  BY <1>1, <1>2 DEF IInv, Told, SourceTold, Busy
<1>7. WorkerTold'
  BY <1>1, <1>2 DEF IInv, Told, WorkerTold, Busy, Job, Kept, CoverReady
<1> QED
  BY <1>4, <1>5, <1>6, <1>7 DEF Told

\* Rows change their status while the thread is idle: the two-hour limit, failed
\* deletions tried again, a restart.
LEMMA RestatedTold ==
    ASSUME IInv, ~Busy, UNCHANGED <<files, drawn, worker, ask, faults>>,
           server' \in {"up", "stopping", "down"},
           DOMAIN jobs' = DOMAIN jobs,
           \A k \in DOMAIN jobs :
              /\ jobs'[k].video = jobs[k].video /\ jobs'[k].kind = jobs[k].kind
              /\ jobs'[k].status # jobs[k].status => jobs[k].status # "ready" /\ jobs'[k].status # "ready"
              /\ jobs[k].kind = "source" =>
                    /\ jobs'[k].status \in {"queued", "processing"} => jobs[k].status \in {"queued", "processing"}
                    /\ jobs'[k].status = "failed" => jobs[k].status = "failed" \/ video'[jobs[k].video].status = "failed",
           \A v \in Videos :
              /\ video'[v].title = video[v].title
              /\ video'[v].status # video[v].status =>
                    /\ video[v].status = "processing" /\ video'[v].status = "failed"
                    /\ \A k \in DOMAIN jobs : jobs[k].video = v /\ jobs[k].kind = "source" =>
                          jobs'[k].status \notin {"queued", "processing"}
    PROVE  Told'
<1>0. \A k \in DOMAIN jobs : jobs[k].video \in Videos
  BY Typing DEF IInv, Told
<1>1. Typed' /\ WorkerTold'
  BY DEF IInv, Told, Typed, WorkerTold, Busy
<1>2. OneRow'
  BY DEF IInv, Told, OneRow
<1>3. RowsUsed'
  <2>1. \A v \in Videos : video[v].status # "absent" => video'[v].status # "absent"
    OBVIOUS
  <2>2. \A a \in Askers : ask[a].op \in {"retry", "share"} => ask[a].video \in Videos
    BY DEF IInv, VInv, AskOK
  <2> QED
    BY <1>0, <2>1, <2>2 DEF IInv, Told, RowsUsed
<1>4. SourceTold'
  BY <1>0 DEF IInv, Told, SourceTold, Busy
<1>5. CoversTold'
  <2> SUFFICES ASSUME NEW v \in Videos, Kept(v)'
               PROVE  /\ video'[v].status = "published" => CoverReady(v)'
                      /\ video'[v].status \in {"ready", "published"} /\ CoverReady(v)' =>
                            "cover" \in files[v] /\ drawn[v] = video[v].title
    BY DEF CoversTold
  <2>1. Kept(v) /\ (CoverReady(v)' <=> CoverReady(v))
    BY DEF Kept, CoverReady
  <2> QED
    BY <2>1 DEF IInv, Told, CoversTold
<1> QED
  BY <1>1, <1>2, <1>3, <1>4, <1>5 DEF Told

LEMMA SweepTold ==
    ASSUME IInv, NEW i \in DOMAIN jobs, Sweep(i)
    PROVE  Told'
<1>0. /\ ~Busy /\ jobs[i].status = "processing" /\ jobs[i].video \in Videos
      /\ UNCHANGED <<files, drawn, worker, ask, server, faults>>
  BY Typing DEF Sweep, Busy, IInv, Told
<1>1. /\ DOMAIN jobs' = DOMAIN jobs
      /\ \A k \in DOMAIN jobs : /\ jobs'[k].video = jobs[k].video /\ jobs'[k].kind = jobs[k].kind
                                /\ jobs'[k].status = IF k = i THEN "failed" ELSE jobs[k].status
  BY WellFormed DEF Sweep, IInv, VInv, JobRows
<1>2. jobs[i].kind = "source" => video[jobs[i].video].status = "processing"
  BY <1>0 DEF IInv, Told, SourceTold
<1>3. \A v \in Videos :
        /\ video'[v].title = video[v].title
        /\ video'[v].status = IF v = jobs[i].video /\ jobs[i].kind = "source" THEN "failed" ELSE video[v].status
  BY <1>0, <1>2, Typing DEF Sweep, Swept, IInv, Told, VInv, VideoOK, Rows
<1>4. \A k \in DOMAIN jobs : k # i => ~(jobs[k].video = jobs[i].video /\ jobs[k].kind = jobs[i].kind)
  BY DEF IInv, Told, OneRow
<1>5. \A k \in DOMAIN jobs : jobs[k].video \in Videos
  BY Typing DEF IInv, Told
<1>6. server' \in {"up", "stopping", "down"}
  BY <1>0 DEF IInv, Told, Typed
<1> QED
  BY <1>0, <1>1, <1>2, <1>3, <1>4, <1>5, <1>6, RestatedTold

LEMMA CleanupTold ==
    ASSUME IInv, Cleanup \/ Start
    PROVE  Told'
<1>1. ~Busy /\ UNCHANGED <<video, files, drawn, worker, ask, faults>>
  BY DEF Cleanup, Start, Busy, IInv, Told, Typed
<1>2. server' \in {"up", "stopping", "down"}
  BY DEF Cleanup, Start, IInv, Told, Typed
<1>3. /\ DOMAIN jobs' = DOMAIN jobs
      /\ \A k \in DOMAIN jobs :
            /\ jobs'[k].video = jobs[k].video /\ jobs'[k].kind = jobs[k].kind
            /\ \/ jobs'[k].status = jobs[k].status
               \/ jobs[k].kind = "delete" /\ jobs[k].status = "failed" /\ jobs'[k].status = "queued"
               \/ jobs[k].status = "processing" /\ jobs'[k].status = "queued"
  BY WellFormed DEF Cleanup, Start, TriedAgain, IInv, VInv, JobRows
<1> QED
  BY <1>1, <1>2, <1>3, RestatedTold

\* A handler changes the rows of one video: what is left to show is the story of
\* that video.
LEMMA HandledTold ==
    ASSUME IInv, NEW v \in Videos, UNCHANGED <<drawn, worker, server, faults>>,
           DOMAIN jobs \subseteq DOMAIN jobs',
           \A k \in DOMAIN jobs :
              /\ jobs'[k].video = jobs[k].video /\ jobs'[k].kind = jobs[k].kind
              /\ jobs[k].video # v => jobs'[k].status = jobs[k].status,
           \A k \in DOMAIN jobs' : k \notin DOMAIN jobs =>
              /\ jobs'[k].video = v
              /\ \A l \in DOMAIN jobs : ~(jobs[l].video = v /\ jobs[l].kind = jobs'[k].kind)
              /\ \A l \in DOMAIN jobs' : l \notin DOMAIN jobs => l = k,
           files' \in [Videos -> SUBSET FileKinds],
           \A u \in Videos : u # v => video'[u] = video[u] /\ files'[u] = files[u],
           video'[v].status # "absent",
           \A a \in Askers : ask'[a].op \in {"retry", "share"} => ask'[a] = ask[a] \/ ask'[a].video = v,
           \A k \in DOMAIN jobs' : jobs'[k].video = v /\ jobs'[k].kind = "source" =>
              /\ jobs'[k].status \in {"queued", "processing"} => video'[v].status = "processing"
              /\ Busy /\ worker.job = k => video'[v].status = "processing"
              /\ jobs'[k].status = "failed" => video'[v].status = "failed",
           Busy /\ Job.video = v =>
              /\ jobs'[worker.job].status \in {"processing", "queued", "cancelled"}
              /\ Job.kind # "delete" /\ Kept(v)' =>
                  /\ worker.title # video'[v].title => Job.kind = "shared" /\ ~CoverReady(v)'
                  /\ Job.kind = "cover" => jobs'[worker.job].status = "processing"
                  /\ worker.pc = "finishing" /\ worker.ok => "cover" \in files'[v] /\ drawn[v] = worker.title,
           Kept(v)' =>
              /\ video'[v].status = "published" => CoverReady(v)'
              /\ video'[v].status \in {"ready", "published"} /\ CoverReady(v)' =>
                    "cover" \in files'[v] /\ drawn[v] = video'[v].title
    PROVE  Told'
<1>0. /\ \A k \in DOMAIN jobs : jobs[k].video \in Videos
      /\ Busy => worker.job \in DOMAIN jobs
      /\ Busy' <=> Busy
  BY Typing DEF IInv, Told, Busy
<1>1. Typed'
  BY <1>0 DEF IInv, Told, Typed
<1>2. OneRow'
  BY DEF IInv, Told, OneRow
<1>3. RowsUsed'
  <2>1. \A u \in Videos : video[u].status # "absent" => video'[u].status # "absent"
    OBVIOUS
  <2>2. \A k \in DOMAIN jobs' : video'[jobs'[k].video].status # "absent"
    BY <1>0, <2>1 DEF IInv, Told, RowsUsed
  <2>3. \A a \in Askers : ask'[a].op \in {"retry", "share"} => video'[ask'[a].video].status # "absent"
    BY <2>1 DEF IInv, VInv, AskOK, Told, RowsUsed
  <2> QED
    BY <2>2, <2>3 DEF RowsUsed
<1>4. SourceTold'
  <2> SUFFICES ASSUME NEW k \in DOMAIN jobs', jobs'[k].kind = "source", jobs'[k].video # v
               PROVE  /\ jobs'[k].status \in {"queued", "processing"} => video'[jobs'[k].video].status = "processing"
                      /\ Busy /\ worker.job = k => video'[jobs'[k].video].status = "processing"
                      /\ jobs'[k].status = "failed" => video'[jobs'[k].video].status = "failed"
    BY <1>0 DEF SourceTold
  <2> QED
    BY <1>0 DEF IInv, Told, SourceTold
<1>5. \A u \in Videos : u # v => (Kept(u)' <=> Kept(u)) /\ (CoverReady(u)' <=> CoverReady(u))
  BY DEF Kept, CoverReady
<1>6. WorkerTold'
  <2> SUFFICES ASSUME Busy PROVE WorkerTold'
    BY <1>0 DEF WorkerTold
  <2>0. Job' = jobs'[worker.job] /\ Job = jobs[worker.job] /\ Job'.video = Job.video /\ Job'.kind = Job.kind
    BY <1>0 DEF Job
  <2>1. CASE Job.video = v
    <3>1. Kept(Job.video)' <=> Kept(v)'
      BY <2>0, <2>1 DEF Kept
    <3>2. CoverReady(Job.video)' <=> CoverReady(v)'
      BY <2>0, <2>1 DEF CoverReady
    <3> QED
      BY <1>0, <2>0, <2>1, <3>1, <3>2 DEF WorkerTold
  <2>2. CASE Job.video # v
    <3> DEFINE u == Job.video
    <3>1. u \in Videos /\ Job'.status = Job.status
      BY <1>0, <2>0, <2>2
    <3>2. Kept(Job.video)' <=> Kept(u)
      BY <2>0, <2>2 DEF Kept
    <3>3. CoverReady(Job.video)' <=> CoverReady(u)
      BY <2>0, <2>2 DEF CoverReady
    <3> QED
      BY <1>0, <2>0, <2>2, <3>1, <3>2, <3>3 DEF IInv, Told, WorkerTold
  <2> QED
    BY <2>1, <2>2
<1>7. CoversTold'
  <2> SUFFICES ASSUME NEW u \in Videos, u # v, Kept(u)'
               PROVE  /\ video'[u].status = "published" => CoverReady(u)'
                      /\ video'[u].status \in {"ready", "published"} /\ CoverReady(u)' =>
                            "cover" \in files'[u] /\ drawn'[u] = video'[u].title
    BY DEF CoversTold
  <2> QED
    BY <1>5 DEF IInv, Told, CoversTold
<1> QED
  BY <1>1, <1>2, <1>3, <1>4, <1>6, <1>7 DEF Told

\* What a handler finds of the story of its video.
LEMMA Story ==
    ASSUME IInv, NEW v \in Videos
    PROVE  /\ \A k \in DOMAIN jobs : jobs[k].video = v /\ jobs[k].kind = "source" =>
                /\ jobs[k].status \in {"queued", "processing"} => video[v].status = "processing"
                /\ Busy /\ worker.job = k => video[v].status = "processing"
                /\ jobs[k].status = "failed" => video[v].status = "failed"
           /\ Busy /\ Job.video = v =>
                /\ worker.job \in DOMAIN jobs /\ Job = jobs[worker.job] /\ Job.kind \in Kinds
                /\ Job.status \in {"processing", "queued", "cancelled"}
                /\ Job.kind # "delete" /\ Kept(v) =>
                    /\ worker.title # video[v].title => Job.kind = "shared" /\ ~CoverReady(v)
                    /\ Job.kind = "cover" => Job.status = "processing"
                    /\ worker.pc = "finishing" /\ worker.ok => "cover" \in files[v] /\ drawn[v] = worker.title
           /\ Kept(v) =>
                /\ video[v].status = "published" => CoverReady(v)
                /\ video[v].status \in {"ready", "published"} /\ CoverReady(v) =>
                      "cover" \in files[v] /\ drawn[v] = video[v].title
           /\ video[v] \in Rows /\ files \in [Videos -> SUBSET FileKinds] /\ video \in [Videos -> Rows]
           /\ JobsOK(jobs)
           /\ (\E k \in DOMAIN jobs : jobs[k].video = v) => video[v].status # "absent"
<1>1. Busy => worker.job \in DOMAIN jobs /\ Job = jobs[worker.job] /\ Job.kind \in Kinds
  BY Typing DEF IInv, Told, Job
<1> QED
  BY <1>1 DEF IInv, Told, SourceTold, WorkerTold, CoversTold, RowsUsed, Typed, VInv, VideoOK

LEMMA UploadTold ==
    ASSUME IInv, NEW v \in Videos, FinishUpload(v)
    PROVE  Told'
<1>1. UNCHANGED <<drawn, worker, server, faults, ask>>
  BY DEF FinishUpload, Handler
<1>2. ~\E k \in DOMAIN jobs : jobs[k].video = v
  BY Story DEF FinishUpload
<1>3. /\ DOMAIN jobs \subseteq DOMAIN jobs'
      /\ \A k \in DOMAIN jobs : jobs'[k] = jobs[k]
      /\ \A k \in DOMAIN jobs' : k \notin DOMAIN jobs =>
           /\ jobs'[k].video = v /\ jobs'[k].kind = "source" /\ jobs'[k].status = "queued"
           /\ \A l \in DOMAIN jobs' : l \notin DOMAIN jobs => l = k
  BY EnqueuedRows, Story DEF FinishUpload, Kinds
<1>4. /\ video'[v].status = "processing" /\ \A u \in Videos : u # v => video'[u] = video[u]
      /\ files' \in [Videos -> SUBSET FileKinds] /\ \A u \in Videos : u # v => files'[u] = files[u]
  BY Story DEF FinishUpload, FileKinds, Rows
<1>5. Busy => Job.video # v /\ worker.job \in DOMAIN jobs
  BY <1>2, Typing DEF IInv, Told, Job
<1>6. \A k \in DOMAIN jobs' : jobs'[k].video = v => k \notin DOMAIN jobs
  BY <1>2, <1>3
<1> QED
  BY <1>1, <1>2, <1>3, <1>4, <1>5, <1>6, HandledTold

\* An edit orders the cover that shows it, and is refused while one is drawn.
LEMMA EditTold ==
    ASSUME IInv, NEW v \in Videos, Edit(v)
    PROVE  Told'
<1>1. UNCHANGED <<drawn, worker, server, faults, ask, files>>
  BY DEF Edit, Handler
<1> DEFINE ks == Enqueued(jobs, v, "cover")
           again == {"ready", "failed", "cancelled", "processing"}
<1>2. JobsOK(jobs) /\ "cover" \in Kinds
  BY Story DEF Kinds
<1>3. /\ DOMAIN jobs \subseteq DOMAIN ks /\ JobsOK(ks)
      /\ \A k \in DOMAIN jobs : ks[k] = jobs[k]
      /\ \A k \in DOMAIN ks : k \notin DOMAIN jobs =>
           /\ ks[k].video = v /\ ks[k].kind = "cover" /\ ks[k].status = "queued"
           /\ \A l \in DOMAIN jobs : ~(jobs[l].video = v /\ jobs[l].kind = "cover")
           /\ \A l \in DOMAIN ks : l \notin DOMAIN jobs => l = k
      /\ \E k \in DOMAIN ks : ks[k].video = v /\ ks[k].kind = "cover"
  <2> QED
    BY <1>2, EnqueuedRows, EnqueuedOK
<1>4. /\ DOMAIN jobs' = DOMAIN ks
      /\ \A k \in DOMAIN ks : /\ jobs'[k].video = ks[k].video /\ jobs'[k].kind = ks[k].kind
                              /\ ~(ks[k].video = v /\ ks[k].kind = "cover") => jobs'[k].status = ks[k].status
                              /\ ks[k].video = v /\ ks[k].kind = "cover" => jobs'[k].status = "queued"
  <2>1. jobs' = Requeued(ks, v, "cover", again)
    BY DEF Edit
  <2>2. \A k \in DOMAIN ks : ks[k].status \in again \cup {"queued"}
    BY <1>3, WellFormed DEF JobRows
  <2> HIDE DEF ks, again
  <2> QED
    BY <1>3, <2>1, <2>2, RequeuedRows
<1> HIDE DEF ks
<1>5. /\ DOMAIN jobs \subseteq DOMAIN jobs'
      /\ \A k \in DOMAIN jobs :
            /\ jobs'[k].video = jobs[k].video /\ jobs'[k].kind = jobs[k].kind
            /\ ~(jobs[k].video = v /\ jobs[k].kind = "cover") => jobs'[k].status = jobs[k].status
      /\ \A k \in DOMAIN jobs' : k \notin DOMAIN jobs =>
            /\ jobs'[k].video = v /\ jobs'[k].kind = "cover"
            /\ \A l \in DOMAIN jobs : ~(jobs[l].video = v /\ jobs[l].kind = "cover")
            /\ \A l \in DOMAIN jobs' : l \notin DOMAIN jobs => l = k
      /\ ~CoverReady(v)'
  <2>1. ~CoverReady(v)'
    BY <1>3, <1>4 DEF CoverReady
  <2> QED
    BY <1>3, <1>4, <2>1
<1>6. /\ video[v].status = "ready" /\ video'[v].status = "ready"
      /\ \A u \in Videos : u # v => video'[u] = video[u]
  BY Story DEF Edit, Rows
<1>7. Kept(v)' => Kept(v)
  BY <1>5 DEF Kept
<1>8. Busy /\ Job.video = v /\ Kept(v) => Job.kind # "cover"
  <2> SUFFICES ASSUME Busy, Job.video = v, Kept(v), Job.kind = "cover" PROVE FALSE
    OBVIOUS
  <2>1. jobs[worker.job].status # "processing" /\ worker.job \in DOMAIN jobs /\ Job = jobs[worker.job]
    BY Story, StatusFound DEF Edit, CoverFree, IInv, Told
  <2> QED
    BY <2>1, Story
<1>9. \A k \in DOMAIN jobs' : jobs'[k].video = v /\ jobs'[k].kind = "source" =>
        /\ jobs'[k].status \notin {"queued", "processing", "failed"}
        /\ ~(Busy /\ worker.job = k)
  <2>1. \A k \in DOMAIN jobs' : jobs'[k].video = v /\ jobs'[k].kind = "source" =>
          k \in DOMAIN jobs /\ jobs[k].video = v /\ jobs[k].kind = "source" /\ jobs'[k].status = jobs[k].status
    BY <1>5
  <2> QED
    BY <1>6, <2>1, Story
<1>10. Busy /\ Job.video = v =>
        /\ jobs'[worker.job].status \in {"processing", "queued", "cancelled"}
        /\ Job.kind # "delete" /\ Kept(v)' =>
            /\ Job.kind = "shared"
            /\ worker.pc = "finishing" /\ worker.ok => "cover" \in files[v] /\ drawn[v] = worker.title
  <2> SUFFICES ASSUME Busy, Job.video = v
               PROVE  /\ jobs'[worker.job].status \in {"processing", "queued", "cancelled"}
                      /\ Job.kind # "delete" /\ Kept(v)' =>
                            /\ Job.kind = "shared"
                            /\ worker.pc = "finishing" /\ worker.ok => "cover" \in files[v] /\ drawn[v] = worker.title
    OBVIOUS
  <2>1. worker.job \in DOMAIN jobs /\ Job = jobs[worker.job] /\ Job.kind \in Kinds /\ Job.kind # "source"
        /\ Job.status \in {"processing", "queued", "cancelled"}
    BY <1>6, Story
  <2>2. jobs'[worker.job].status \in {"processing", "queued", "cancelled"}
    BY <1>3, <1>4, <1>5, <2>1
  <2>3. Kept(v) /\ Job.kind # "delete" => Job.kind = "shared"
    BY <1>8, <2>1 DEF Kinds
  <2> QED
    BY <1>7, <2>2, <2>3, Story
<1>11. files \in [Videos -> SUBSET FileKinds]
  BY Story
<1>12. \A k \in DOMAIN jobs :
              /\ jobs'[k].video = jobs[k].video /\ jobs'[k].kind = jobs[k].kind
              /\ jobs[k].video # v => jobs'[k].status = jobs[k].status
  BY <1>5
<1>13. \A k \in DOMAIN jobs' : k \notin DOMAIN jobs =>
              /\ jobs'[k].video = v
              /\ \A l \in DOMAIN jobs : ~(jobs[l].video = v /\ jobs[l].kind = jobs'[k].kind)
              /\ \A l \in DOMAIN jobs' : l \notin DOMAIN jobs => l = k
  BY <1>5
<1> QED
  BY <1>1, <1>5, <1>6, <1>9, <1>10, <1>11, <1>12, <1>13, HandledTold

\* A withdrawal, and requests that only read.
LEMMA WithdrawTold ==
    ASSUME IInv, NEW v \in Videos, Withdraw(v) \/ \E a \in Askers : ReadRetry(a, v) \/ ReadShare(a, v)
    PROVE  Told'
<1>1. UNCHANGED <<jobs, drawn, worker, server, faults, files>>
  BY DEF Withdraw, ReadRetry, ReadShare, Handler, rows
<1>2. /\ \A u \in Videos : u # v => video'[u] = video[u]
      /\ \/ video' = video
         \/ video'[v].status = "withdrawn" /\ video[v].status \in {"ready", "published"} /\ video'[v].title = video[v].title
  BY Story DEF Withdraw, ReadRetry, ReadShare, rows, Rows
<1>3. video[v].status # "absent" /\ video'[v].status # "absent"
  <2>1. CASE Withdraw(v)
    BY <1>2, <2>1 DEF Withdraw
  <2>2. ASSUME NEW a \in Askers, ReadRetry(a, v) PROVE video[v].status # "absent"
    BY <2>2, Story, StatusFound DEF ReadRetry, IInv, Told
  <2>3. ASSUME NEW a \in Askers, ReadShare(a, v) PROVE video[v].status # "absent"
    BY <2>3 DEF ReadShare
  <2> QED
    BY <1>2, <2>1, <2>2, <2>3 DEF ReadRetry, ReadShare, rows
<1>4. \A a \in Askers : ask'[a].op \in {"retry", "share"} => ask'[a] = ask[a] \/ ask'[a].video = v
  BY DEF Withdraw, ReadRetry, ReadShare, IInv, VInv, AskOK
<1>5. (Kept(v)' <=> Kept(v)) /\ (CoverReady(v)' <=> CoverReady(v))
  BY <1>1 DEF Kept, CoverReady
<1>6. \A k \in DOMAIN jobs' : jobs'[k].video = v /\ jobs'[k].kind = "source" =>
              /\ jobs'[k].status \in {"queued", "processing"} => video'[v].status = "processing"
              /\ Busy /\ worker.job = k => video'[v].status = "processing"
              /\ jobs'[k].status = "failed" => video'[v].status = "failed"
  BY <1>1, <1>2, Story
<1>7. Busy /\ Job.video = v =>
              /\ jobs'[worker.job].status \in {"processing", "queued", "cancelled"}
              /\ Job.kind # "delete" /\ Kept(v)' =>
                  /\ worker.title # video'[v].title => Job.kind = "shared" /\ ~CoverReady(v)'
                  /\ Job.kind = "cover" => jobs'[worker.job].status = "processing"
                  /\ worker.pc = "finishing" /\ worker.ok => "cover" \in files'[v] /\ drawn[v] = worker.title
  BY <1>1, <1>2, <1>5, Story
<1>8. Kept(v)' =>
              /\ video'[v].status = "published" => CoverReady(v)'
              /\ video'[v].status \in {"ready", "published"} /\ CoverReady(v)' =>
                    "cover" \in files'[v] /\ drawn[v] = video'[v].title
  BY <1>1, <1>2, <1>5, Story
<1>9. files' \in [Videos -> SUBSET FileKinds]
  BY <1>1, Story
<1> QED
  BY <1>1, <1>2, <1>3, <1>4, <1>6, <1>7, <1>8, <1>9, HandledTold

\* A deletion is of a withdrawn video: no transcode of it is queued or runs.
LEMMA DeleteTold ==
    ASSUME IInv, NEW v \in Videos, Delete(v)
    PROVE  Told'
<1>1. UNCHANGED <<drawn, worker, server, faults, files, ask>>
  BY DEF Delete, Handler
<1> DEFINE cancelled == [i \in DOMAIN jobs |->
                            IF jobs[i].video = v /\ jobs[i].status = "queued"
                            THEN [jobs[i] EXCEPT !.status = "cancelled"] ELSE jobs[i]]
<1>2. /\ cancelled \in [DOMAIN jobs -> JobRows] /\ DOMAIN cancelled = DOMAIN jobs
      /\ \A i \in DOMAIN jobs :
            /\ cancelled[i].kind = jobs[i].kind /\ cancelled[i].video = jobs[i].video
            /\ cancelled[i].status = IF jobs[i].video = v /\ jobs[i].status = "queued" THEN "cancelled"
                                     ELSE jobs[i].status
  BY Story, WellFormed DEF JobRows
<1>3. JobsOK(cancelled)
  BY <1>2, Story, Restated
<1>4. jobs' = Enqueued(cancelled, v, "delete")
  BY DEF Delete
<1> HIDE DEF cancelled
<1>5. /\ DOMAIN cancelled \subseteq DOMAIN jobs'
      /\ \A k \in DOMAIN cancelled : jobs'[k] = cancelled[k]
      /\ \A k \in DOMAIN jobs' : k \notin DOMAIN cancelled =>
           /\ jobs'[k].video = v /\ jobs'[k].kind = "delete"
           /\ \A l \in DOMAIN cancelled : ~(cancelled[l].video = v /\ cancelled[l].kind = "delete")
           /\ \A l \in DOMAIN jobs' : l \notin DOMAIN cancelled => l = k
      /\ \E k \in DOMAIN jobs' : jobs'[k].video = v /\ jobs'[k].kind = "delete"
  <2>1. "delete" \in Kinds
    BY DEF Kinds
  <2> QED BY <1>3, <1>4, <2>1, EnqueuedRows
<1>6. /\ video[v].status = "withdrawn" /\ video'[v].status = "deleted"
      /\ \A u \in Videos : u # v => video'[u] = video[u]
  BY Story DEF Delete, Rows
<1>7. ~Kept(v)'
  BY <1>5 DEF Kept
<1>8. \A k \in DOMAIN jobs' : jobs'[k].video = v /\ jobs'[k].kind = "source" =>
        /\ jobs'[k].status \notin {"queued", "processing", "failed"}
        /\ ~(Busy /\ worker.job = k)
  BY <1>2, <1>5, <1>6, Story
<1>9. Busy /\ Job.video = v => jobs'[worker.job].status \in {"processing", "queued", "cancelled"}
  BY <1>2, <1>5, Story
<1>10. /\ \A k \in DOMAIN jobs :
              /\ jobs'[k].video = jobs[k].video /\ jobs'[k].kind = jobs[k].kind
              /\ jobs[k].video # v => jobs'[k].status = jobs[k].status
       /\ \A k \in DOMAIN jobs' : k \notin DOMAIN jobs =>
              /\ jobs'[k].video = v
              /\ \A l \in DOMAIN jobs : ~(jobs[l].video = v /\ jobs[l].kind = jobs'[k].kind)
              /\ \A l \in DOMAIN jobs' : l \notin DOMAIN jobs => l = k
       /\ DOMAIN jobs \subseteq DOMAIN jobs'
  BY <1>2, <1>5
<1>11. files' \in [Videos -> SUBSET FileKinds]
  BY <1>1, Story
<1> QED
  BY <1>1, <1>6, <1>7, <1>8, <1>9, <1>10, <1>11, HandledTold

\* A retry puts the source job back in the queue and its video in processing.
LEMMA RetryTold ==
    ASSUME IInv, NEW a \in Askers, WriteRetry(a)
    PROVE  Told'
<1>1. PICK v \in Videos : v = ask[a].video
  BY DEF WriteRetry, IInv, VInv, AskOK
<1>2. UNCHANGED <<drawn, worker, server, faults, files>>
  BY DEF WriteRetry, Handler
<1>3. /\ DOMAIN jobs' = DOMAIN jobs
      /\ \A k \in DOMAIN jobs :
            /\ jobs'[k].video = jobs[k].video /\ jobs'[k].kind = jobs[k].kind
            /\ ~(jobs[k].video = v /\ jobs[k].kind = "source") => jobs'[k].status = jobs[k].status
            /\ jobs[k].video = v /\ jobs[k].kind = "source" => jobs'[k].status = "queued"
  <2>1. \A k \in DOMAIN jobs : jobs[k].status \in {"ready", "failed", "cancelled", "processing", "queued"}
    BY Story, WellFormed DEF JobRows
  <2> QED
    BY <1>1, <2>1, Story, RequeuedRows DEF WriteRetry
<1>4. /\ video'[v].status = "processing" /\ video'[v].title = video[v].title
      /\ \A u \in Videos : u # v => video'[u] = video[u]
  BY <1>1, Story DEF WriteRetry, Rows
<1>5. \A b \in Askers : ask'[b].op \in {"retry", "share"} => ask'[b] = ask[b]
  BY DEF WriteRetry, IInv, VInv, AskOK, Silent
<1>6. (Kept(v)' <=> Kept(v)) /\ (CoverReady(v)' <=> CoverReady(v))
  BY <1>3 DEF Kept, CoverReady
<1>7. Busy /\ Job.video = v =>
              /\ jobs'[worker.job].status \in {"processing", "queued", "cancelled"}
              /\ Job.kind # "delete" /\ Kept(v)' =>
                  /\ worker.title # video'[v].title => Job.kind = "shared" /\ ~CoverReady(v)'
                  /\ Job.kind = "cover" => jobs'[worker.job].status = "processing"
                  /\ worker.pc = "finishing" /\ worker.ok => "cover" \in files'[v] /\ drawn[v] = worker.title
  BY <1>2, <1>3, <1>4, <1>6, Story
<1>8. files' \in [Videos -> SUBSET FileKinds]
  BY <1>2, Story
<1> QED
  BY <1>2, <1>3, <1>4, <1>5, <1>7, <1>8, HandledTold

\* A request for the shared version queues its job, whatever became of the job
\* since it was read.
LEMMA ShareTold ==
    ASSUME IInv, NEW a \in Askers, WriteShare(a)
    PROVE  Told'
<1>1. PICK v \in Videos : v = ask[a].video
  BY DEF WriteShare, IInv, VInv, AskOK
<1>2. UNCHANGED <<video, drawn, worker, server, faults, files>>
  BY DEF WriteShare, Handler
<1>3. /\ DOMAIN jobs \subseteq DOMAIN jobs'
      /\ \A k \in DOMAIN jobs :
            /\ jobs'[k].video = jobs[k].video /\ jobs'[k].kind = jobs[k].kind
            /\ ~(jobs[k].video = v /\ jobs[k].kind = "shared") => jobs'[k].status = jobs[k].status
            /\ jobs'[k].status \in {jobs[k].status, "queued"}
      /\ \A k \in DOMAIN jobs' : k \notin DOMAIN jobs =>
            /\ jobs'[k].video = v /\ jobs'[k].kind = "shared"
            /\ \A l \in DOMAIN jobs : ~(jobs[l].video = v /\ jobs[l].kind = "shared")
            /\ \A l \in DOMAIN jobs' : l \notin DOMAIN jobs => l = k
  <2>1. JobsOK(jobs) /\ "shared" \in Kinds
    BY Story DEF Kinds
  <2>2. CASE jobs' = jobs
    BY <2>2
  <2>3. ASSUME NEW from, jobs' = Requeued(jobs, v, "shared", from)
        PROVE  <1>3!:
    BY <2>1, <2>3, RequeuedRows
  <2>4. ASSUME NEW from, jobs' = Requeued(Enqueued(jobs, v, "shared"), v, "shared", from)
        PROVE  <1>3!:
    <3> DEFINE ks == Enqueued(jobs, v, "shared")
    <3>1. /\ DOMAIN jobs \subseteq DOMAIN ks /\ JobsOK(ks)
          /\ \A k \in DOMAIN jobs : ks[k] = jobs[k]
          /\ \A k \in DOMAIN ks : k \notin DOMAIN jobs =>
               /\ ks[k].video = v /\ ks[k].kind = "shared" /\ ks[k].status = "queued"
               /\ \A l \in DOMAIN jobs : ~(jobs[l].video = v /\ jobs[l].kind = "shared")
               /\ \A l \in DOMAIN ks : l \notin DOMAIN jobs => l = k
      BY <2>1, EnqueuedRows, EnqueuedOK
    <3>2. jobs' = Requeued(ks, v, "shared", from)
      BY <2>4
    <3> HIDE DEF ks
    <3>3. /\ DOMAIN jobs' = DOMAIN ks
          /\ \A k \in DOMAIN ks :
                /\ jobs'[k].video = ks[k].video /\ jobs'[k].kind = ks[k].kind
                /\ jobs'[k].status = IF ks[k].video = v /\ ks[k].kind = "shared" /\ ks[k].status \in from
                                     THEN "queued" ELSE ks[k].status
      BY <3>1, <3>2, RequeuedRows
    <3> QED
      BY <3>1, <3>3
  <2> QED
    BY <1>1, <2>2, <2>3, <2>4 DEF WriteShare
<1>4. \A b \in Askers : ask'[b].op \in {"retry", "share"} => ask'[b] = ask[b]
  BY DEF WriteShare, IInv, VInv, AskOK, Silent
<1>5. (Kept(v)' => Kept(v)) /\ (CoverReady(v)' <=> CoverReady(v))
  BY <1>3 DEF Kept, CoverReady
<1>6. Busy /\ Job.video = v =>
              /\ jobs'[worker.job].status \in {"processing", "queued", "cancelled"}
              /\ Job.kind # "delete" /\ Kept(v)' =>
                  /\ worker.title # video'[v].title => Job.kind = "shared" /\ ~CoverReady(v)'
                  /\ Job.kind = "cover" => jobs'[worker.job].status = "processing"
                  /\ worker.pc = "finishing" /\ worker.ok => "cover" \in files'[v] /\ drawn[v] = worker.title
  BY <1>2, <1>3, <1>5, Story
<1>7. files' \in [Videos -> SUBSET FileKinds] /\ video'[v].status # "absent"
  BY <1>1, <1>2, Story DEF WriteShare, IInv, Told, RowsUsed
<1>8. \A k \in DOMAIN jobs' : jobs'[k].video = v /\ jobs'[k].kind = "source" =>
              /\ jobs'[k].status \in {"queued", "processing"} => video'[v].status = "processing"
              /\ Busy /\ worker.job = k => video'[v].status = "processing"
              /\ jobs'[k].status = "failed" => video'[v].status = "failed"
  BY <1>2, <1>3, Story
<1>9. Kept(v)' =>
              /\ video'[v].status = "published" => CoverReady(v)'
              /\ video'[v].status \in {"ready", "published"} /\ CoverReady(v)' =>
                    "cover" \in files'[v] /\ drawn[v] = video'[v].title
  BY <1>2, <1>5, Story
<1>10. \A k \in DOMAIN jobs' : k \notin DOMAIN jobs =>
              /\ jobs'[k].video = v
              /\ \A l \in DOMAIN jobs : ~(jobs[l].video = v /\ jobs[l].kind = jobs'[k].kind)
              /\ \A l \in DOMAIN jobs' : l \notin DOMAIN jobs => l = k
  BY <1>3
<1> QED
  BY <1>2, <1>3, <1>4, <1>6, <1>7, <1>8, <1>9, <1>10, HandledTold

\* publish asks for a cover that is done, and withdraws what it replaces.
LEMMA PublishTold ==
    ASSUME IInv, NEW v \in Videos, Publish(v)
    PROVE  Told'
<1>1. UNCHANGED <<jobs, drawn, worker, server, faults, files, ask>>
  BY DEF Publish, Handler
<1>2. /\ \A w \in Videos :
            /\ video'[w].title = video[w].title
            /\ video'[w].status = IF w = v THEN "published"
                                  ELSE IF w = Replaces[v] THEN "withdrawn" ELSE video[w].status
      /\ video[v].status = "ready"
      /\ \A w \in Videos : w = Replaces[v] => video[w].status = "published"
  BY Story, VideosAssumption DEF Publish, Current, Rows
<1>3. CoverReady(v)
  BY CoverDoneReady, Story DEF Publish, IInv, Told
<1>4. Busy' = Busy /\ Job' = Job
  BY <1>1 DEF Busy, Job
<1>5. \A u : (Kept(u)' <=> Kept(u)) /\ (CoverReady(u)' <=> CoverReady(u))
  BY <1>1 DEF Kept, CoverReady
<1>6. Typed' /\ OneRow'
  BY <1>1, <1>4 DEF IInv, Told, Typed, OneRow
<1>7. \A k \in DOMAIN jobs : jobs[k].video \in Videos
  BY Typing DEF IInv, Told
<1>8. RowsUsed'
  <2>1. \A a \in Askers : ask[a].op \in {"retry", "share"} => ask[a].video \in Videos
    BY DEF IInv, VInv, AskOK
  <2> QED
    BY <1>1, <1>2, <1>7, <2>1 DEF IInv, Told, RowsUsed
<1>9. SourceTold'
  BY <1>1, <1>2, <1>4, <1>7 DEF IInv, Told, SourceTold
<1>10. WorkerTold'
  <2>1. Busy => /\ Job.video \in Videos /\ Job'.video = Job.video
                /\ (Kept(Job.video)' <=> Kept(Job.video)) /\ (CoverReady(Job.video)' <=> CoverReady(Job.video))
    BY <1>1, <1>4, Typing DEF Job, Kept, CoverReady, IInv, Told
  <2> QED
    BY <1>1, <1>2, <1>4, <2>1 DEF IInv, Told, WorkerTold
<1>11. CoversTold'
  <2> SUFFICES ASSUME NEW u \in Videos, Kept(u)'
               PROVE  /\ video'[u].status = "published" => CoverReady(u)'
                      /\ video'[u].status \in {"ready", "published"} /\ CoverReady(u)' =>
                            "cover" \in files'[u] /\ drawn'[u] = video'[u].title
    BY DEF CoversTold
  <2> QED
    BY <1>1, <1>2, <1>3, <1>5, Story
<1> QED
  BY <1>6, <1>8, <1>9, <1>10, <1>11 DEF Told

\* Every step keeps both halves of the invariant.
LEMMA StepTold == IInv /\ [Next]_vars => IInv'
<1> SUFFICES ASSUME IInv, [Next]_vars PROVE IInv'
  OBVIOUS
<1>1. VInv'
  BY StepOK DEF IInv
<1>2. CASE UNCHANGED vars
  <2>1. UNCHANGED <<video, files, drawn, jobs, worker, ask, server, faults>>
    BY <1>2 DEF vars
  <2>2. Typed' /\ OneRow' /\ RowsUsed'
    BY <2>1 DEF IInv, Told, Typed, OneRow, RowsUsed, Busy
  <2>3. SourceTold' /\ WorkerTold'
    BY <2>1 DEF IInv, Told, SourceTold, WorkerTold, Busy, Job, Kept, CoverReady
  <2>4. CoversTold'
    BY <2>1 DEF IInv, Told, CoversTold, Kept, CoverReady
  <2> QED
    BY <1>1, <2>2, <2>3, <2>4 DEF IInv, Told
<1>3. CASE Next
  <2>1. ASSUME QueueStep \/ WorkFails \/ Interrupted \/ FinishFails PROVE Told'
    <3>1. ASSUME NEW i \in DOMAIN jobs, Take(i) PROVE Told'
      BY <3>1, TakeTold
    <3>2. ASSUME NEW i \in DOMAIN jobs, Sweep(i) PROVE Told'
      BY <3>2, SweepTold
    <3>3. ASSUME Work \/ WorkFails \/ Interrupted PROVE Told'
      BY <3>3, WorkTold
    <3>4. ASSUME Finish \/ FinishFails \/ Cleanup PROVE Told'
      BY <3>4, FinishTold, IdleTold, CleanupTold
    <3> QED
      BY <2>1, <3>1, <3>2, <3>3, <3>4 DEF QueueStep
  <2>2. ASSUME Stop \/ Stopped \/ Kill \/ Start PROVE Told'
    BY <2>2, IdleTold, CleanupTold
  <2>3. ASSUME NEW v \in Videos, FinishUpload(v) \/ Edit(v) \/ Publish(v) \/ Withdraw(v) \/ Delete(v)
        PROVE  Told'
    BY <2>3, UploadTold, EditTold, PublishTold, WithdrawTold, DeleteTold
  <2>4. ASSUME NEW a \in Askers, NEW v \in Videos, ReadRetry(a, v) \/ ReadShare(a, v) PROVE Told'
    BY <2>4, WithdrawTold
  <2>5. ASSUME NEW a \in Askers, WriteRetry(a) \/ WriteShare(a) PROVE Told'
    BY <2>5, RetryTold, ShareTold
  <2> QED
    BY <1>1, <1>3, <2>1, <2>2, <2>3, <2>4, <2>5 DEF Next, IInv
<1> QED
  BY <1>1, <1>2, <1>3

LEMMA Invariant == Spec => []IInv
<1>1. Init => IInv
  BY InitOK, InitTold DEF IInv
<1> QED
  BY <1>1, StepTold, PTL DEF Spec

\* Types, and covers that show the titles their videos were published with
\* (choose_cover, edit_metadata, publish, run_one), whatever edits, transcodes that
\* also draw them, failures, retries and restarts do in between.
THEOREM CoversShowTitles == Spec => []CoversKept
<1>1. IInv => CoversKept
  <2> SUFFICES ASSUME IInv PROVE CoversKept
    OBVIOUS
  <2>1. TypeOK
    <3>1. \A i \in DOMAIN jobs :
            /\ jobs[i].video \in Videos /\ jobs[i].kind \in Kinds
            /\ jobs[i].status \in {"queued", "processing", "ready", "failed", "cancelled"}
      BY Typing DEF IInv, Told, RowStatuses
    <3>2. /\ video \in [Videos -> [status : Statuses, title : 0 .. MaxEdits, brand : BOOLEAN]]
          /\ files \in [Videos -> SUBSET {"source", "masters", "cover"}]
          /\ drawn \in [Videos -> 0 .. MaxEdits]
          /\ worker.pc \in {"idle", "working", "finishing"}
          /\ worker.pc # "idle" => jobs[worker.job].status \in {"processing", "queued", "cancelled"}
          /\ server \in {"up", "stopping", "down"} /\ faults \in 0 .. MaxFaults
      BY DEF IInv, VInv, VideoOK, Rows, Told, Typed, FileKinds, WorkerTold, Busy, Job
    <3> QED
      BY <3>1, <3>2 DEF TypeOK, IInv, Told, OneRow
  <2>2. CoverShowsTitle
    <3> SUFFICES ASSUME NEW v \in Videos, video[v].status = "published", Ids(v, "delete") = {}
                 PROVE  "cover" \in files[v] /\ drawn[v] = video[v].title
      BY DEF CoverShowsTitle
    <3>1. Kept(v)
      BY DEF Ids, Kept
    <3> QED
      BY <3>1, Story
  <2> QED
    BY <2>1, <2>2 DEF CoversKept
<1> QED
  BY <1>1, Invariant, PTL

\* How far a video has come.
Stays(v) ==
    /\ video[v].status = "published" => video'[v].status \in {"published", "withdrawn"}
    /\ video[v].status = "withdrawn" => video'[v].status \in {"withdrawn", "deleted"}
    /\ video[v].status = "deleted" => video'[v].status = "deleted"

\* Results and the two-hour limit reach the status of a video in processing alone.
LEMMA QueueStays ==
    ASSUME IInv, QueueStep \/ WorkFails \/ Interrupted \/ FinishFails, NEW v \in Videos
    PROVE  Stays(v)
<1>1. CASE UNCHANGED video
  BY <1>1 DEF Stays
<1>2. ASSUME NEW i \in DOMAIN jobs, Sweep(i) PROVE Stays(v)
  <2>1. jobs[i].video \in Videos /\ (jobs[i].kind = "source" => video[jobs[i].video].status = "processing")
    BY <1>2, Typing DEF Sweep, IInv, Told, SourceTold
  <2>2. video'[v].status = video[v].status \/ (video[v].status = "processing" /\ v = jobs[i].video)
    BY <1>2, <2>1, Story DEF Sweep, Swept
  <2> QED
    BY <2>2 DEF Stays
<1>3. CASE Finish
  <2> DEFINE w == jobs[worker.job].video
             kind == jobs[worker.job].kind
  <2>1. w \in Videos /\ (kind = "source" => video[w].status = "processing")
    BY <1>3, Typing DEF Finish, Busy, IInv, Told, SourceTold
  <2>2. video' = video \/ video' = Transcoded(w, kind, worker.ok)
    BY <1>3 DEF Finish
  <2>3. video'[v].status = video[v].status \/ (video[v].status = "processing" /\ v = w)
    BY <2>1, <2>2, Story DEF Transcoded, Rows
  <2> QED
    BY <2>3 DEF Stays
<1> QED
  BY <1>1, <1>2, <1>3 DEF QueueStep, Take, Work, WorkFails, Interrupted, FinishFails, Cleanup, rows

LEMMA HandlerStays ==
    ASSUME IInv, NEW w \in Videos, NEW v \in Videos,
           FinishUpload(w) \/ Edit(w) \/ Publish(w) \/ Withdraw(w) \/ Delete(w)
    PROVE  Stays(v)
<1>0. video \in [Videos -> Rows]
  BY Story
<1>1. CASE FinishUpload(w) \/ Edit(w) \/ Withdraw(w) \/ Delete(w)
  BY <1>0, <1>1 DEF FinishUpload, Edit, Withdraw, Delete, Stays, Rows
<1>2. CASE Publish(w)
  <2>1. v = Replaces[w] => video[v].status = "published"
    BY <1>2, VideosAssumption DEF Publish, Current
  <2>2. /\ video[w].status = "ready"
        /\ video'[v].status = IF v = w THEN "published"
                              ELSE IF v = Replaces[w] THEN "withdrawn" ELSE video[v].status
    BY <1>0, <1>2 DEF Publish, Rows
  <2> QED
    BY <2>1, <2>2 DEF Stays
<1> QED
  BY <1>1, <1>2

\* A retry whose failure is still there finds its video failed.
LEMMA RetryStays ==
    ASSUME IInv, NEW a \in Askers, WriteRetry(a), NEW v \in Videos
    PROVE  StaleRetry(v) \/ Stays(v)
<1>1. ask[a].video \in Videos
  BY DEF WriteRetry, IInv, VInv, AskOK
<1>2. CASE v # ask[a].video
  BY <1>1, <1>2, Story DEF WriteRetry, Stays
<1>3. CASE v = ask[a].video /\ StatusOf(v, "source") = "failed"
  <2>1. \E k \in DOMAIN jobs : jobs[k].video = v /\ jobs[k].kind = "source" /\ jobs[k].status = "failed"
    BY <1>3, StatusFound DEF IInv, Told
  <2>2. video[v].status = "failed"
    BY <2>1, Story
  <2> QED
    BY <2>2 DEF Stays
<1>4. CASE v = ask[a].video /\ StatusOf(v, "source") # "failed"
  BY <1>4 DEF StaleRetry
<1> QED
  BY <1>2, <1>3, <1>4

\* A published video leaves only by a withdrawal, a withdrawn one by its deletion and
\* a deleted one never (run_one, routers/video_learning.py), for any number of
\* requests under way: what may bring one back is a retry of a failure that has been
\* retried since it was read, and nothing else.
THEOREM OnlyStaleRetriesBringBack == Spec => NothingComesBack
<1>1. IInv /\ [Next]_vars => [\A v \in Videos : StaleRetry(v) \/ Stays(v)]_vars
  <2> SUFFICES ASSUME IInv, Next, NEW v \in Videos PROVE StaleRetry(v) \/ Stays(v)
    OBVIOUS
  <2>1. CASE QueueStep \/ WorkFails \/ Interrupted \/ FinishFails
    BY <2>1, QueueStays
  <2>2. CASE Stop \/ Stopped \/ Kill \/ Start
    BY <2>2 DEF Stop, Stopped, Kill, Start, rows, Stays
  <2>3. ASSUME NEW w \in Videos, FinishUpload(w) \/ Edit(w) \/ Publish(w) \/ Withdraw(w) \/ Delete(w)
        PROVE  Stays(v)
    BY <2>3, HandlerStays
  <2>4. ASSUME NEW a \in Askers, NEW w \in Videos, ReadRetry(a, w) \/ ReadShare(a, w) PROVE Stays(v)
    BY <2>4 DEF ReadRetry, ReadShare, rows, Stays
  <2>5. ASSUME NEW a \in Askers, WriteRetry(a) \/ WriteShare(a) PROVE StaleRetry(v) \/ Stays(v)
    BY <2>5, RetryStays DEF WriteShare, Stays
  <2> QED
    BY <2>1, <2>2, <2>3, <2>4, <2>5 DEF Next
<1>2. [\A v \in Videos : StaleRetry(v) \/ Stays(v)]_vars =>
      [\A v \in Videos : StaleRetry(v) \/
        /\ video[v].status = "published" => video'[v].status \in {"published", "withdrawn"}
        /\ video[v].status = "withdrawn" => video'[v].status \in {"withdrawn", "deleted"}
        /\ video[v].status = "deleted" => video'[v].status = "deleted"]_vars
  BY DEF Stays
<1> QED
  BY <1>1, <1>2, Invariant, PTL DEF Spec, NothingComesBack
-----------------------------------------------------------------------------
(* Asking to read. *)

Access == [st : {"none", "pending", "approved", "rejected", "revoked", "lapsed"}, gen : Nat, ask : Nat]

AccessTypes == askAccess \in Access /\ askPage \in [gen : Nat, ask : Nat]

\* What the page shows, if no generation followed it, is what the row holds.
PageHolds == askPage.gen <= askAccess.gen /\ (askPage.gen = askAccess.gen => askPage.ask = askAccess.ask)

AccessInv == AccessTypes /\ PageHolds

LEMMA AccessInitInv == Ask!Init => AccessInv
  BY DEF Ask!Init, AccessInv, AccessTypes, PageHolds, Access

LEMMA AccessStepInv == AccessInv /\ [Ask!Next]_(Ask!accessVars) => AccessInv'
<1> SUFFICES ASSUME AccessInv, [Ask!Next]_(Ask!accessVars) PROVE AccessInv'
  OBVIOUS
<1> USE DEF AccessInv, AccessTypes, PageHolds, Access
<1>1. ASSUME NEW r \in Requests, Ask!ReadAsk(r) PROVE AccessInv'
  BY <1>1 DEF Ask!ReadAsk
<1>2. ASSUME NEW r \in Requests, Ask!CommitAsk(r) PROVE AccessInv'
  BY <1>2 DEF Ask!CommitAsk
<1>3. ASSUME NEW action \in {"approved", "rejected", "revoked"}, Ask!Decide(action) PROVE AccessInv'
  <2>1. /\ askAccess' = [st |-> action, gen |-> askAccess.gen + 1, ask |-> askAccess.ask]
        /\ UNCHANGED askPage
    BY <1>3 DEF Ask!Decide
  <2>2. askAccess'.gen = askAccess.gen + 1 /\ askAccess'.ask = askAccess.ask
    BY <2>1
  <2>3. AccessTypes'
    BY <2>1
  <2> QED BY <2>1, <2>2, <2>3
<1>4. CASE Ask!OpenRequests
  BY <1>4 DEF Ask!OpenRequests
<1>5. CASE Ask!Lapse
  BY <1>5 DEF Ask!Lapse
<1>6. CASE UNCHANGED Ask!accessVars
  BY <1>6 DEF Ask!accessVars
<1> QED BY <1>1, <1>2, <1>3, <1>4, <1>5, <1>6 DEF Ask!Next

LEMMA AccessInvariant == Ask!Spec => []AccessInv
  BY AccessInitInv, AccessStepInv, PTL DEF Ask!Spec

\* An approval is of the asking on the leader's page (learning.py:186), however
\* often it was asked for again, decided or withdrawn meanwhile.
THEOREM ApprovedIsRead == Ask!Spec => Ask!ApprovedAsRead
<1>1. ASSUME AccessInv, [Ask!Next]_(Ask!accessVars)
      PROVE  [askAccess.st # "approved" /\ askAccess'.st = "approved" => askPage.ask = askAccess.ask]_(Ask!accessVars)
  <2>1. ASSUME Ask!Next, askAccess.st # "approved", askAccess'.st = "approved" PROVE askPage.ask = askAccess.ask
    <3>1. ASSUME NEW r \in Requests, Ask!ReadAsk(r) \/ Ask!CommitAsk(r) PROVE FALSE
      BY <2>1, <3>1 DEF Ask!ReadAsk, Ask!CommitAsk
    <3>2. CASE Ask!OpenRequests \/ Ask!Lapse
      BY <2>1, <3>2 DEF Ask!OpenRequests, Ask!Lapse, AccessInv, AccessTypes, Access
    <3>3. ASSUME NEW action \in {"approved", "rejected", "revoked"}, Ask!Decide(action)
          PROVE  askPage.ask = askAccess.ask
      BY <1>1, <3>3 DEF Ask!Decide, Ask!OnPage, AccessInv, PageHolds
    <3> QED BY <2>1, <3>1, <3>2, <3>3 DEF Ask!Next
  <2> QED BY <1>1, <2>1
<1> QED BY <1>1, AccessInvariant, PTL DEF Ask!Spec, Ask!ApprovedAsRead

-----------------------------------------------------------------------------
(* A shared document. *)

Owners == TRs \cup Editing \cup {FirstOwner}
Texts == [base : Nat, by : Owners, st : {"published", "pending", "returned"}, of : Nat, judge : SUBSET Owners]

Documents == [status : {"published", "withdrawn"}, owner : Owners, version : Nat, text : Nat]

LEMMA Bumped ==
    ASSUME NEW d \in Documents, NEW i \in Nat, NEW e, e = [d EXCEPT !.version = @ + 1, !.text = i]
    PROVE  e \in Documents /\ e.version = d.version + 1 /\ e.text = i
<1>1. e = [status |-> d.status, owner |-> d.owner, version |-> d.version + 1, text |-> i]
  BY DEF Documents
<1>2. e \in Documents
  BY <1>1 DEF Documents
<1> QED BY <1>1, <1>2

LEMMA Withdrawn ==
    ASSUME NEW d \in Documents, NEW e, e = [d EXCEPT !.status = "withdrawn", !.version = @ + 1]
    PROVE  e \in Documents /\ e.version = d.version + 1 /\ e.text = d.text
<1>1. e = [status |-> "withdrawn", owner |-> d.owner, version |-> d.version + 1, text |-> d.text]
  BY DEF Documents
<1>2. e \in Documents
  BY <1>1 DEF Documents
<1> QED BY <1>1, <1>2

\* What a request under way has read: an approval of the owner, of a revision
\* written upon the version read.
RequestOK(q, rv) ==
    /\ q.op \in {"idle", "edit", "approve", "reject", "withdraw", "transfer"}
    /\ q.op = "edit" => q.who \in TRs \cup Editing /\ q.of \in Nat /\ q.seen.version \in Nat
    /\ q.op = "transfer" => q.to \in TRs
    /\ q.op \in {"approve", "reject"} => q.i \in DOMAIN rv
    /\ q.op = "approve" => q.who = q.seen.owner /\ rv[q.i].base = q.seen.version

ShareTypes ==
    /\ shareShare \in Documents
    /\ shareRevs \in Seq(Texts) /\ shareShare.text \in DOMAIN shareRevs
    /\ shareDraft \in [TRs \cup Editing -> [version : Nat, base : Nat, saves : Nat]]
    /\ DOMAIN shareRequest = Requests
RequestsOK == \A r \in Requests : RequestOK(shareRequest[r], shareRevs)

\* A published text was written upon a version before the present one.
BasesPast == \A i \in DOMAIN shareRevs : shareRevs[i].st = "published" => shareRevs[i].base < shareShare.version

\* What has gone out of a draft was saved before what is in it.
DraftsPast ==
    /\ \A p \in TRs \cup Editing : shareDraft[p].version <= shareDraft[p].saves
    /\ \A i \in DOMAIN shareRevs : shareRevs[i].of # 0 =>
          LET p == shareRevs[i].by
          IN p \in TRs \cup Editing /\ shareRevs[i].of <= shareDraft[p].saves /\ shareRevs[i].of # shareDraft[p].version

ShareInv == ShareTypes /\ RequestsOK /\ BasesPast /\ DraftsPast /\ Share!LibraryWhole

LEMMA TextRows ==
    ASSUME ShareInv
    PROVE  \A i \in DOMAIN shareRevs : shareRevs[i] \in Texts /\ i \in Nat
<1>1. shareRevs \in Seq(Texts)
  BY DEF ShareInv, ShareTypes
<1> QED BY <1>1, ElementOfSeq, LenProperties

LEMMA ShareBegins == Share!Init => ShareInv
<1> SUFFICES ASSUME Share!Init PROVE ShareInv
  OBVIOUS
<1> DEFINE first == [base |-> 0, by |-> FirstOwner, st |-> "published", of |-> 0, judge |-> {FirstOwner}]
<1>1. shareRevs = <<first>> /\ first \in Texts
  BY DEF Share!Init, Share!Revision, Texts, Owners
<1>2. shareRevs \in Seq(Texts) /\ DOMAIN shareRevs = {1} /\ shareRevs[1] = first
  BY <1>1
<1>3. shareShare = [status |-> "published", owner |-> FirstOwner, version |-> 1, text |-> 1]
  BY DEF Share!Init
<1>4. ShareTypes
  BY <1>2, <1>3 DEF Share!Init, ShareTypes, Owners, Documents, Share!Editors
<1>5. RequestsOK
  BY DEF Share!Init, RequestsOK, RequestOK, Share!Idle
<1>6. BasesPast /\ DraftsPast
  BY <1>2, <1>3 DEF BasesPast, DraftsPast, Share!Init, Share!Editors
<1>7. Share!LibraryWhole
  BY <1>2, <1>3 DEF Share!LibraryWhole, Share!NoneSwallowed, Share!DraftOnce, Share!PublishedRevisions
<1> QED BY <1>4, <1>5, <1>6, <1>7 DEF ShareInv

\* A step that leaves the document and its texts alone.
LEMMA ShareReads ==
    ASSUME ShareInv, UNCHANGED <<shareShare, shareRevs>>,
           shareDraft' = shareDraft, DOMAIN shareRequest' = Requests, RequestsOK'
    PROVE  ShareInv'
BY DEF ShareInv, ShareTypes, BasesPast, DraftsPast, Share!LibraryWhole, Share!NoneSwallowed,
       Share!DraftOnce, Share!PublishedRevisions

LEMMA ReadKeeps ==
    ASSUME ShareInv, NEW r \in Requests, NEW q, Share!Reads(r, q), RequestOK(q, shareRevs)
    PROVE  ShareInv'
<1>1. UNCHANGED <<shareShare, shareRevs>> /\ shareDraft' = shareDraft
  BY DEF Share!Reads, Share!shareVars
<1>2. DOMAIN shareRequest' = Requests
  BY DEF Share!Reads, ShareInv, ShareTypes
<1>3. RequestsOK'
  BY <1>1 DEF Share!Reads, ShareInv, ShareTypes, RequestsOK
<1> QED BY <1>1, <1>2, <1>3, ShareReads

LEMMA SaveKeeps ==
    ASSUME ShareInv, NEW p \in TRs \cup Editing, Share!SaveDraft(p)
    PROVE  ShareInv'
<1>1. UNCHANGED <<shareShare, shareRevs, shareRequest>>
  BY DEF Share!SaveDraft
<1>2. /\ shareDraft' \in [TRs \cup Editing -> [version : Nat, base : Nat, saves : Nat]]
      /\ shareDraft'[p].version = shareDraft[p].saves + 1 /\ shareDraft'[p].saves = shareDraft[p].saves + 1
      /\ \A q \in (TRs \cup Editing) \ {p} : shareDraft'[q] = shareDraft[q]
      /\ shareDraft[p].saves \in Nat
  BY DEF Share!SaveDraft, Share!Editors, ShareInv, ShareTypes, Documents
<1>3. ShareTypes' /\ RequestsOK' /\ BasesPast'
  BY <1>1, <1>2 DEF ShareInv, ShareTypes, RequestsOK, BasesPast
<1>4. DraftsPast'
  <2>1. \A i \in DOMAIN shareRevs : shareRevs[i].of \in Nat
    BY TextRows DEF Texts
  <2>2. \A q \in TRs \cup Editing : shareDraft'[q].version <= shareDraft'[q].saves
    BY <1>2 DEF ShareInv, DraftsPast
  <2>3. ASSUME NEW i \in DOMAIN shareRevs, shareRevs[i].of # 0
        PROVE  /\ shareRevs[i].by \in TRs \cup Editing
               /\ shareRevs[i].of <= shareDraft'[shareRevs[i].by].saves
               /\ shareRevs[i].of # shareDraft'[shareRevs[i].by].version
    BY <1>2, <2>1, <2>3 DEF ShareInv, DraftsPast
  <2> QED BY <1>1, <2>2, <2>3 DEF DraftsPast
<1>5. Share!LibraryWhole'
  BY <1>1 DEF ShareInv, Share!LibraryWhole, Share!NoneSwallowed, Share!DraftOnce, Share!PublishedRevisions
<1> QED BY <1>3, <1>4, <1>5 DEF ShareInv

\* What a request that writes leaves of the others.
LEMMA CommitFrees ==
    ASSUME ShareInv, NEW r \in Requests, Share!Commit(r),
           \A i \in DOMAIN shareRevs : i \in DOMAIN shareRevs' /\ shareRevs'[i].base = shareRevs[i].base
    PROVE  DOMAIN shareRequest' = Requests /\ RequestsOK'
BY DEF Share!Commit, ShareInv, ShareTypes, RequestsOK, RequestOK, Share!Idle

\* A new revision, published by the owner or handed in.
LEMMA EditKeeps ==
    ASSUME ShareInv, NEW r \in Requests, Share!Commit(r), shareRequest[r].op = "edit"
    PROVE  ShareInv'
<1> DEFINE q == shareRequest[r]
           n == Len(shareRevs)
           st == IF Share!Direct(q) THEN "published" ELSE "pending"
           text == Share!Revision(q.seen.version, q.who, st, q.of)
<1>1. Share!CommitEdit(q) /\ q.who \in TRs \cup Editing /\ q.of \in Nat /\ q.seen.version \in Nat
  BY DEF Share!Commit, ShareInv, RequestsOK, RequestOK
<1>2. shareRevs' = Append(shareRevs, text) /\ text \in Texts /\ shareRevs \in Seq(Texts)
  BY <1>1 DEF Share!CommitEdit, Share!Revision, Texts, Owners, ShareInv, ShareTypes
<1>3. /\ text.base = q.seen.version /\ text.by = q.who /\ text.of = q.of
      /\ text.st = st
  BY DEF Share!Revision
<1> HIDE DEF text, st, q
<1>4. /\ shareRevs' \in Seq(Texts) /\ DOMAIN shareRevs' = 1 .. n + 1 /\ DOMAIN shareRevs = 1 .. n /\ n \in Nat
      /\ \A i \in 1 .. n : shareRevs'[i] = shareRevs[i]
      /\ shareRevs'[n + 1] = text
  BY <1>2, AppendProperties, LenProperties DEF n
<1>5. \A i \in 1 .. n : shareRevs[i] \in Texts
  BY <1>2, ElementOfSeq DEF n
<1>6. DOMAIN shareRequest' = Requests /\ RequestsOK'
  BY <1>4, CommitFrees
<1>7. /\ shareDraft' \in [TRs \cup Editing -> [version : Nat, base : Nat, saves : Nat]]
      /\ \A p \in TRs \cup Editing : shareDraft'[p].saves = shareDraft[p].saves
      /\ \A p \in TRs \cup Editing : p # q.who \/ q.of = 0 => shareDraft'[p].version = shareDraft[p].version
      /\ q.of # 0 => shareDraft'[q.who].version = 0 /\ shareDraft[q.who].version = q.of
  BY <1>1 DEF Share!CommitEdit, Share!DraftClaimed, ShareInv, ShareTypes
<1>8. DraftsPast' /\ Share!DraftOnce'
  <2> USE DEF ShareInv
  <2>1. \A p \in TRs \cup Editing : shareDraft'[p].version <= shareDraft'[p].saves /\ shareDraft[p].version \in Nat
    BY <1>1, <1>7 DEF DraftsPast, ShareTypes
  <2>2. ASSUME NEW i \in 1 .. n, shareRevs[i].of # 0
        PROVE  /\ shareRevs[i].by \in TRs \cup Editing
               /\ shareRevs[i].of <= shareDraft'[shareRevs[i].by].saves
               /\ shareRevs[i].of # shareDraft'[shareRevs[i].by].version
               /\ shareRevs[i].by = q.who => shareRevs[i].of # q.of
    <3> DEFINE p == shareRevs[i].by
    <3>1. i \in DOMAIN shareRevs /\ shareRevs[i].of \in Nat
      BY <1>4, <1>5 DEF Texts
    <3>2. p \in TRs \cup Editing /\ shareRevs[i].of <= shareDraft[p].saves /\ shareRevs[i].of # shareDraft[p].version
      BY <2>2, <3>1 DEF DraftsPast
    <3>3. CASE p = q.who /\ q.of # 0
      BY <1>7, <2>2, <3>2, <3>3
    <3>4. CASE p # q.who \/ q.of = 0
      BY <1>7, <2>2, <3>2, <3>4
    <3> QED BY <3>3, <3>4
  <2>3. q.of # 0 => q.of <= shareDraft'[q.who].saves /\ q.of # shareDraft'[q.who].version
    BY <1>1, <1>7 DEF DraftsPast
  <2>4. DraftsPast'
    <3>1. ASSUME NEW i \in 1 .. n + 1, shareRevs'[i].of # 0
          PROVE  /\ shareRevs'[i].by \in TRs \cup Editing
                 /\ shareRevs'[i].of <= shareDraft'[shareRevs'[i].by].saves
                 /\ shareRevs'[i].of # shareDraft'[shareRevs'[i].by].version
      <4>1. CASE i = n + 1
        BY <1>1, <1>3, <1>4, <2>3, <3>1, <4>1
      <4>2. CASE i \in 1 .. n
        BY <1>4, <2>2, <3>1, <4>2
      <4> QED BY <1>4, <4>1, <4>2
    <3> QED BY <1>4, <2>1, <3>1 DEF DraftsPast
  <2>5. Share!DraftOnce'
    <3>1. ASSUME NEW i \in 1 .. n + 1, NEW j \in 1 .. n + 1, shareRevs'[i].of # 0,
                 shareRevs'[i].of = shareRevs'[j].of, shareRevs'[i].by = shareRevs'[j].by
          PROVE  i = j
      <4>1. CASE i \in 1 .. n /\ j \in 1 .. n
        BY <1>4, <3>1, <4>1 DEF Share!LibraryWhole, Share!DraftOnce
      <4>2. CASE i = n + 1 /\ j \in 1 .. n
        BY <1>3, <1>4, <2>2, <3>1, <4>2
      <4>3. CASE j = n + 1 /\ i \in 1 .. n
        BY <1>3, <1>4, <2>2, <3>1, <4>3
      <4> QED BY <1>4, <4>1, <4>2, <4>3
    <3> QED BY <1>4, <3>1 DEF Share!DraftOnce
  <2> QED BY <2>4, <2>5
<1>9. CASE Share!Direct(q)
  <2> USE DEF ShareInv
  <2>1. /\ shareShare.version = q.seen.version /\ st = "published"
        /\ shareShare'.version = shareShare.version + 1 /\ shareShare'.text = n + 1
        /\ shareShare' \in Documents
    <3>1. shareShare' = [shareShare EXCEPT !.version = @ + 1, !.text = n + 1] /\ shareShare.version = q.seen.version
      BY <1>1, <1>9 DEF Share!CommitEdit, Share!Claimed, Share!Publishes, n
    <3>2. shareShare \in Documents /\ n + 1 \in Nat
      BY <1>4 DEF ShareTypes
    <3> QED BY <1>9, <3>1, <3>2, Bumped DEF st
  <2>2. ShareTypes'
    BY <1>4, <1>6, <1>7, <2>1 DEF ShareTypes
  <2>3. \A i \in 1 .. n : shareRevs[i].st = "published" => shareRevs[i].base < shareShare.version /\ shareRevs[i].base \in Nat
    BY <1>4, <1>5 DEF BasesPast, Texts
  <2>4. BasesPast'
    BY <1>1, <1>3, <1>4, <2>1, <2>3 DEF BasesPast
  <2>5. Share!NoneSwallowed'
    <3>1. \A i \in 1 .. n : shareRevs'[i].st = "published" => shareRevs'[i].base < shareRevs'[n + 1].base
      BY <1>3, <1>4, <2>1, <2>3
    <3>2. \A i, j \in 1 .. n : shareRevs'[i].st = "published" /\ shareRevs'[j].st = "published" /\ shareRevs'[i].base = shareRevs'[j].base => i = j
      BY <1>4 DEF Share!LibraryWhole, Share!NoneSwallowed, Share!PublishedRevisions
    <3>3. \A i \in 1 .. n : shareRevs'[i].base \in Nat
      BY <1>4, <1>5 DEF Texts
    <3>4. shareRevs'[n + 1].st = "published" /\ shareRevs'[n + 1].base \in Nat
      BY <1>1, <1>3, <1>4, <2>1
    <3> QED BY <1>4, <2>1, <3>1, <3>2, <3>3, <3>4 DEF Share!NoneSwallowed, Share!PublishedRevisions
  <2> QED BY <1>6, <1>8, <2>2, <2>4, <2>5 DEF Share!LibraryWhole
<1>10. CASE ~Share!Direct(q)
  <2> USE DEF ShareInv
  <2>1. UNCHANGED shareShare /\ st = "pending"
    BY <1>1, <1>10 DEF Share!CommitEdit, st
  <2>2. ShareTypes'
    BY <1>4, <1>6, <1>7, <2>1 DEF ShareTypes
  <2>3. BasesPast'
    BY <1>3, <1>4, <2>1 DEF BasesPast
  <2>4. Share!PublishedRevisions' = Share!PublishedRevisions
    BY <1>3, <1>4, <2>1 DEF Share!PublishedRevisions
  <2>5. \A i \in Share!PublishedRevisions : shareRevs'[i] = shareRevs[i]
    BY <1>4 DEF Share!PublishedRevisions
  <2>6. Share!NoneSwallowed'
    BY <2>1, <2>4, <2>5 DEF Share!LibraryWhole, Share!NoneSwallowed
  <2> QED BY <1>6, <1>8, <2>2, <2>3, <2>6 DEF Share!LibraryWhole
<1> QED BY <1>9, <1>10

\* A decision of the leader.
LEMMA DecisionKeeps ==
    ASSUME ShareInv, NEW r \in Requests, Share!Commit(r), shareRequest[r].op \in {"approve", "reject"}
    PROVE  ShareInv'
<1> USE DEF ShareInv
<1> DEFINE q == shareRequest[r]
           k == q.i
<1>1. k \in DOMAIN shareRevs /\ shareRevs \in Seq(Texts)
  BY DEF RequestsOK, RequestOK, ShareTypes
<1>2. \A i \in DOMAIN shareRevs : shareRevs[i] \in Texts
  BY <1>1, ElementOfSeq, LenProperties
<1>3. /\ shareRevs' \in Seq(Texts) /\ DOMAIN shareRevs' = DOMAIN shareRevs
      /\ \A i \in DOMAIN shareRevs : i # k => shareRevs'[i] = shareRevs[i]
      /\ shareRevs'[k].base = shareRevs[k].base /\ shareRevs'[k].of = shareRevs[k].of /\ shareRevs'[k].by = shareRevs[k].by
      /\ shareRevs[k].st = "pending"
  <2>1. CASE q.op = "approve"
    <3>1. shareRevs' = [shareRevs EXCEPT ![k].st = "published", ![k].judge = {q.who}] /\ shareRevs[k].st = "pending"
          /\ shareShare.owner = q.seen.owner /\ q.who = q.seen.owner
      BY <2>1 DEF Share!Commit, Share!CommitApprove, Share!Claimed, RequestsOK, RequestOK
    <3>2. q.who \in Owners
      BY <3>1 DEF ShareTypes, Documents
    <3> DEFINE new == [shareRevs[k] EXCEPT !.st = "published", !.judge = {q.who}]
    <3>3. new \in Texts /\ new.base = shareRevs[k].base /\ new.of = shareRevs[k].of /\ new.by = shareRevs[k].by
      BY <1>1, <1>2, <3>2 DEF Texts
    <3>4. shareRevs' = [shareRevs EXCEPT ![k] = new]
      BY <1>1, <1>2, <3>1 DEF Texts
    <3> HIDE DEF new
    <3>5. shareRevs' \in Seq(Texts) /\ DOMAIN shareRevs' = DOMAIN shareRevs
      BY <1>1, <3>3, <3>4, ExceptSeq
    <3> QED BY <1>1, <3>1, <3>3, <3>4, <3>5
  <2>2. CASE q.op = "reject"
    <3>1. shareRevs' = [shareRevs EXCEPT ![k].st = "returned"] /\ shareRevs[k].st = "pending"
      BY <2>2 DEF Share!Commit, Share!CommitReject
    <3> DEFINE new == [shareRevs[k] EXCEPT !.st = "returned"]
    <3>3. new \in Texts /\ new.base = shareRevs[k].base /\ new.of = shareRevs[k].of /\ new.by = shareRevs[k].by
      BY <1>1, <1>2 DEF Texts
    <3>4. shareRevs' = [shareRevs EXCEPT ![k] = new]
      BY <1>1, <1>2, <3>1 DEF Texts
    <3> HIDE DEF new
    <3>5. shareRevs' \in Seq(Texts) /\ DOMAIN shareRevs' = DOMAIN shareRevs
      BY <1>1, <3>3, <3>4, ExceptSeq
    <3> QED BY <1>1, <3>1, <3>3, <3>4, <3>5
  <2> QED BY <2>1, <2>2
<1>4. DOMAIN shareRequest' = Requests /\ RequestsOK'
  BY <1>1, <1>3, CommitFrees
<1>5. UNCHANGED shareDraft
  BY DEF Share!Commit, Share!CommitApprove, Share!CommitReject
<1>6. \A i \in DOMAIN shareRevs : shareRevs'[i].of = shareRevs[i].of /\ shareRevs'[i].by = shareRevs[i].by /\ shareRevs'[i].base = shareRevs[i].base
  BY <1>1, <1>3
<1>7. DraftsPast' /\ Share!DraftOnce'
  BY <1>3, <1>5, <1>6 DEF DraftsPast, Share!LibraryWhole, Share!DraftOnce
<1>8. CASE q.op = "approve"
  <2>1. /\ shareShare.version = q.seen.version /\ shareRevs[k].base = q.seen.version
        /\ shareShare' = [shareShare EXCEPT !.version = @ + 1, !.text = k]
        /\ shareRevs' = [shareRevs EXCEPT ![k].st = "published", ![k].judge = {q.who}]
    BY <1>8 DEF Share!Commit, Share!CommitApprove, Share!Claimed, Share!Publishes, RequestsOK, RequestOK
  <2>8. shareRevs'[k].st = "published"
    BY <1>1, <1>2, <2>1 DEF Texts
  <2>2. shareShare' \in Documents /\ shareShare'.version = shareShare.version + 1 /\ shareShare'.text = k
    <3>1. k \in Nat /\ shareShare \in Documents
      BY <1>1, TextRows DEF ShareTypes
    <3> QED BY <2>1, <3>1, Bumped
  <2>3. ShareTypes'
    BY <1>1, <1>3, <1>4, <1>5, <2>2 DEF ShareTypes
  <2>4. \A i \in DOMAIN shareRevs : shareRevs[i].st = "published" => shareRevs[i].base < shareShare.version /\ shareRevs[i].base \in Nat
    BY <1>2 DEF BasesPast, Texts
  <2>5. shareShare.version \in Nat
    BY DEF ShareTypes, Documents
  <2>6. BasesPast'
    BY <1>1, <1>3, <1>6, <2>1, <2>2, <2>4, <2>5 DEF BasesPast
  <2>7. Share!NoneSwallowed'
    <3>1. \A i \in DOMAIN shareRevs : i # k /\ shareRevs'[i].st = "published" => shareRevs'[i].base < shareRevs'[k].base
      BY <1>3, <1>6, <2>1, <2>4
    <3>2. \A i, j \in DOMAIN shareRevs : i # k /\ j # k /\ shareRevs'[i].st = "published" /\ shareRevs'[j].st = "published" /\ shareRevs'[i].base = shareRevs'[j].base => i = j
      BY <1>3 DEF Share!LibraryWhole, Share!NoneSwallowed, Share!PublishedRevisions
    <3>3. \A i \in DOMAIN shareRevs : shareRevs'[i].base \in Nat
      BY <1>2, <1>6 DEF Texts
    <3> QED BY <1>1, <1>3, <2>2, <2>8, <3>1, <3>2, <3>3 DEF Share!NoneSwallowed, Share!PublishedRevisions
  <2> QED BY <1>4, <1>7, <2>3, <2>6, <2>7 DEF Share!LibraryWhole
<1>9. CASE q.op = "reject"
  <2>1. UNCHANGED shareShare /\ shareRevs'[k].st = "returned"
    BY <1>1, <1>2, <1>9 DEF Share!Commit, Share!CommitReject, Texts
  <2>2. ShareTypes'
    BY <1>3, <1>4, <1>5, <2>1 DEF ShareTypes
  <2>3. BasesPast'
    BY <1>3, <2>1 DEF BasesPast
  <2>4. Share!PublishedRevisions' = Share!PublishedRevisions
    BY <1>3, <2>1 DEF Share!PublishedRevisions
  <2>5. Share!NoneSwallowed'
    BY <1>6, <2>1, <2>4 DEF Share!LibraryWhole, Share!NoneSwallowed, Share!PublishedRevisions
  <2> QED BY <1>4, <1>7, <2>2, <2>3, <2>5 DEF Share!LibraryWhole
<1> QED BY <1>8, <1>9

\* A withdrawal or a change of owner.
LEMMA HandleKeeps ==
    ASSUME ShareInv, NEW r \in Requests, Share!Commit(r), shareRequest[r].op \in {"withdraw", "transfer"}
    PROVE  ShareInv'
<1> USE DEF ShareInv
<1>1. UNCHANGED <<shareRevs, shareDraft>>
  BY DEF Share!Commit, Share!CommitWithdraw, Share!CommitTransfer
<1>2. /\ shareShare' \in Documents
      /\ shareShare'.text = shareShare.text
      /\ shareShare'.version >= shareShare.version
  <2>1. CASE shareRequest[r].op = "withdraw"
    <3>1. shareShare' = [shareShare EXCEPT !.status = "withdrawn", !.version = @ + 1] /\ shareShare \in Documents
      BY <2>1 DEF Share!Commit, Share!CommitWithdraw, ShareTypes
    <3>2. shareShare.version \in Nat
      BY <3>1 DEF Documents
    <3>3. shareShare' \in Documents /\ shareShare'.version = shareShare.version + 1 /\ shareShare'.text = shareShare.text
      BY <3>1, Withdrawn
    <3> QED BY <3>2, <3>3
  <2>2. CASE shareRequest[r].op = "transfer"
    <3>1. shareRequest[r].to \in Owners
      BY <2>2 DEF RequestsOK, RequestOK, Owners
    <3> QED BY <2>2, <3>1 DEF Share!Commit, Share!CommitTransfer, ShareTypes, Documents
  <2> QED BY <2>1, <2>2
<1>3. DOMAIN shareRequest' = Requests /\ RequestsOK'
  BY <1>1, CommitFrees
<1>4. ShareTypes' /\ DraftsPast'
  BY <1>1, <1>2, <1>3 DEF ShareTypes, DraftsPast
<1>5. \A i \in DOMAIN shareRevs : shareRevs[i].base \in Nat
  BY TextRows DEF Texts
<1>6. BasesPast'
  BY <1>1, <1>2, <1>5 DEF BasesPast, ShareTypes, Documents
<1>7. Share!LibraryWhole'
  BY <1>1, <1>2 DEF Share!LibraryWhole, Share!NoneSwallowed, Share!DraftOnce, Share!PublishedRevisions
<1> QED BY <1>3, <1>4, <1>6, <1>7

LEMMA ShareStep == ShareInv /\ [Share!Next]_(Share!learningVars) => ShareInv'
<1> SUFFICES ASSUME ShareInv, [Share!Next]_(Share!learningVars) PROVE ShareInv'
  OBVIOUS
<1>1. CASE UNCHANGED Share!learningVars
  BY <1>1, ShareReads DEF Share!learningVars, Share!shareVars, ShareInv, ShareTypes, RequestsOK
<1>2. ASSUME NEW r \in Requests, Share!Commit(r) PROVE ShareInv'
  <2>1. shareRequest[r].op \in {"edit", "approve", "reject", "withdraw", "transfer"}
    BY <1>2 DEF Share!Commit
  <2> QED BY <1>2, <2>1, EditKeeps, DecisionKeeps, HandleKeeps
<1>3. ASSUME NEW r \in Requests, Share!Refused(r) PROVE ShareInv'
  BY <1>3, ShareReads DEF Share!Refused, Share!shareVars, ShareInv, ShareTypes, RequestsOK, RequestOK, Share!Idle
<1>4. ASSUME NEW r \in Requests, Share!ReadWithdraw(r) PROVE ShareInv'
  BY <1>4, ReadKeeps DEF Share!ReadWithdraw, RequestOK
<1>9. shareShare \in Documents
  BY DEF ShareInv, ShareTypes
<1>5. ASSUME NEW r \in Requests, NEW p \in TRs \cup Editing, Share!ReadEdit(r, p) \/ Share!ReadDraft(r, p) PROVE ShareInv'
  <2>1. shareShare.version \in Nat /\ shareDraft[p].version \in Nat
    BY <1>9 DEF ShareInv, ShareTypes, Documents
  <2>2. CASE Share!ReadEdit(r, p)
    <3> DEFINE q == [op |-> "edit", who |-> p, of |-> 0, seen |-> Share!Seen]
    <3>1. RequestOK(q, shareRevs)
      BY <2>1 DEF RequestOK, Share!Seen
    <3> QED BY <2>2, <3>1, ReadKeeps DEF Share!ReadEdit
  <2>3. CASE Share!ReadDraft(r, p)
    <3> DEFINE q == [op |-> "edit", who |-> p, of |-> shareDraft[p].version, seen |-> Share!Seen]
    <3>1. RequestOK(q, shareRevs)
      BY <2>1 DEF RequestOK, Share!Seen
    <3> QED BY <2>3, <3>1, ReadKeeps DEF Share!ReadDraft
  <2> QED BY <1>5, <2>2, <2>3
<1>6. ASSUME NEW r \in Requests, NEW p \in TRs, Share!ReadTransfer(r, p) PROVE ShareInv'
  BY <1>6, ReadKeeps DEF Share!ReadTransfer, RequestOK
<1>7. ASSUME NEW r \in Requests, NEW i \in DOMAIN shareRevs, NEW op \in {"approve", "reject"}, Share!ReadReview(r, i, op) PROVE ShareInv'
  <2> DEFINE q == [op |-> op, who |-> shareShare.owner, i |-> i, seen |-> Share!Seen]
  <2>1. RequestOK(q, shareRevs)
    BY <1>7 DEF RequestOK, Share!Seen, Share!ReadReview, Share!CurrentBase
  <2> QED BY <1>7, <2>1, ReadKeeps DEF Share!ReadReview
<1>8. ASSUME NEW p \in TRs \cup Editing, Share!SaveDraft(p) PROVE ShareInv'
  BY <1>8, SaveKeeps
<1> QED BY <1>1, <1>2, <1>3, <1>4, <1>5, <1>6, <1>7, <1>8 DEF Share!Next, Share!Editors

\* A text becomes the public one by the hand of its owner of that moment.
LEMMA ShareDecides ==
    ASSUME ShareInv, [Share!Next]_(Share!learningVars), shareShare'.text # shareShare.text
    PROVE  shareRevs'[shareShare'.text].judge = {shareShare.owner}
<1> USE DEF ShareInv
<1>4. shareShare \in Documents
  BY DEF ShareTypes
<1>5. PICK r \in Requests : Share!Commit(r)
  <2>1. ~UNCHANGED Share!learningVars
    BY DEF Share!learningVars, Share!shareVars
  <2>2. ASSUME NEW r \in Requests, Share!Refused(r) \/ Share!ReadWithdraw(r) PROVE UNCHANGED shareShare
    BY <2>2 DEF Share!Refused, Share!ReadWithdraw, Share!Reads, Share!shareVars
  <2>3. ASSUME NEW r \in Requests, NEW p, Share!ReadEdit(r, p) \/ Share!ReadDraft(r, p) \/ Share!ReadTransfer(r, p)
        PROVE  UNCHANGED shareShare
    BY <2>3 DEF Share!ReadEdit, Share!ReadDraft, Share!ReadTransfer, Share!Reads, Share!shareVars
  <2>4. ASSUME NEW r \in Requests, NEW i, NEW op, Share!ReadReview(r, i, op) PROVE UNCHANGED shareShare
    BY <2>4 DEF Share!ReadReview, Share!Reads, Share!shareVars
  <2>5. ASSUME NEW p, Share!SaveDraft(p) PROVE UNCHANGED shareShare
    BY <2>5 DEF Share!SaveDraft
  <2> QED BY <2>1, <2>2, <2>3, <2>4, <2>5 DEF Share!Next
<1>1. Share!Commit(r) /\ shareRequest[r].op \in {"edit", "approve"}
  <2>1. shareRequest[r].op # "reject"
    BY <1>5 DEF Share!Commit, Share!CommitReject
  <2>2. shareRequest[r].op # "withdraw"
    BY <1>4, <1>5, Withdrawn DEF Share!Commit, Share!CommitWithdraw
  <2>3. shareRequest[r].op # "transfer"
    BY <1>4, <1>5 DEF Share!Commit, Share!CommitTransfer, Documents
  <2> QED BY <1>5, <2>1, <2>2, <2>3 DEF Share!Commit
<1> DEFINE q == shareRequest[r]
<1>2. CASE q.op = "edit"
  <2>1. Share!Direct(q)
    BY <1>1, <1>2 DEF Share!Commit, Share!CommitEdit
  <2>2. /\ shareRevs' = Append(shareRevs, Share!Revision(q.seen.version, q.who, "published", q.of))
        /\ shareShare'.text = Len(shareRevs) + 1 /\ q.who = shareShare.owner
    <3>1. Share!CommitEdit(q)
      BY <1>1, <1>2 DEF Share!Commit
    <3>2. /\ shareRevs' = Append(shareRevs, Share!Revision(q.seen.version, q.who, "published", q.of))
          /\ shareShare' = [shareShare EXCEPT !.version = @ + 1, !.text = Len(shareRevs) + 1]
          /\ q.who = shareShare.owner
      BY <2>1, <3>1 DEF Share!CommitEdit, Share!Publishes, Share!Claimed, Share!Direct
    <3>3. Len(shareRevs) + 1 \in Nat
      BY LenProperties DEF ShareTypes
    <3> QED BY <1>4, <3>2, <3>3, Bumped
  <2>3. Share!Revision(q.seen.version, q.who, "published", q.of).judge = {shareShare.owner}
    BY <2>2 DEF Share!Revision
  <2>4. shareRevs'[Len(shareRevs) + 1] = Share!Revision(q.seen.version, q.who, "published", q.of)
    BY <2>2, AppendProperties DEF ShareTypes
  <2> QED BY <2>2, <2>3, <2>4
<1>3. CASE q.op = "approve"
  <2>1. /\ shareRevs' = [shareRevs EXCEPT ![q.i].st = "published", ![q.i].judge = {q.who}]
        /\ shareShare'.text = q.i /\ q.who = shareShare.owner /\ q.i \in DOMAIN shareRevs
    <3>1. /\ shareRevs' = [shareRevs EXCEPT ![q.i].st = "published", ![q.i].judge = {q.who}]
          /\ shareShare' = [shareShare EXCEPT !.version = @ + 1, !.text = q.i]
          /\ shareShare.owner = q.seen.owner
      BY <1>1, <1>3 DEF Share!Commit, Share!CommitApprove, Share!Publishes, Share!Claimed
    <3>2. q.who = q.seen.owner /\ q.i \in DOMAIN shareRevs
      BY <1>3 DEF RequestsOK, RequestOK
    <3>3. q.i \in Nat
      BY <3>2, TextRows
    <3> QED BY <1>4, <3>1, <3>2, <3>3, Bumped
  <2>2. shareRevs[q.i] \in Texts
    BY <2>1, ElementOfSeq, LenProperties DEF ShareTypes
  <2> QED BY <2>1, <2>2 DEF Texts
<1> QED BY <1>1, <1>2, <1>3

-----------------------------------------------------------------------------
(* Responsibility for announcements. *)

NoticeRows == [scope : Shared, owner : Publishers, version : Nat]
GroupRows == [members : Owned!Rosters, revision : Nat]
BatchRows == [scope : Shared, from : Publishers, to : Publishers, revision : Nat,
              snapshot : SUBSET (Nat \X Nat),
              status : {"pending", "cancelled", "accepted", "forced"}]

OwnedTypes ==
    /\ ownedNotices \in Seq(NoticeRows) /\ ownedBatches \in Seq(BatchRows)
    /\ ownedGroups \in [Shared -> GroupRows \cup {NoGroup}]

\* The members of a shared scope own its announcements, and one request at most
\* can still pass a member's share on to somebody new.
Held(s) == ownedGroups[s] # NoGroup =>
    /\ \A i \in DOMAIN ownedNotices : ownedNotices[i].scope = s => ownedNotices[i].owner \in Owned!Members(s)
    /\ \A b, c \in Owned!Pending(s) : b = c
    /\ \A b \in Owned!Pending(s) :
          ownedBatches[b].from \in Owned!Members(s) /\ ownedBatches[b].to \notin Owned!Members(s)

OwnersInv == OwnedTypes /\ \A s \in Shared : Held(s)

LEMMA SameCount == \A S : Owned!Cardinality(S) = Cardinality(S)
  BY DEF Owned!Cardinality, Cardinality

\* What finitely many are mapped to.
LEMMA ImageFinite ==
    ASSUME NEW S, IsFiniteSet(S), NEW f
    PROVE  IsFiniteSet({f[x] : x \in S})
<1> DEFINE T == {f[x] : x \in S}
           g == [x \in S |-> f[x]]
<1>1. g \in Surjection(S, T)
  BY DEF Surjection
<1> HIDE DEF T, g
<1>2. IsFiniteSet(T)
  BY <1>1, FS_Surjection
<1> QED BY <1>2 DEF T

LEMMA RosterFacts ==
    ASSUME NEW ms
    PROVE  /\ ms \in Owned!Rosters =>
                /\ Owned!Range(ms) \subseteq Publishers /\ Owned!Range(ms) # {}
                /\ Owned!IsInjective(ms) /\ Len(ms) \in 1..2 /\ DOMAIN ms = 1..Len(ms)
           /\ \A n \in 1..2 : ms \in [1..n -> Publishers] /\ Owned!IsInjective(ms) => ms \in Owned!Rosters
<1>1. ASSUME NEW n \in 1..2, ms \in [1..n -> Publishers]
      PROVE  Len(ms) = n /\ DOMAIN ms = 1..n /\ 1 \in DOMAIN ms
  <2>1. ms \in Seq(Publishers)
    BY <1>1, SeqDef
  <2> QED BY <1>1, <2>1, LenProperties
<1> QED BY <1>1 DEF Owned!Rosters, Owned!Range

\* A reading of the owners in any order names each of them once.
LEMMA SeqOfSet ==
    ASSUME NEW S, IsFiniteSet(S)
    PROVE  /\ Owned!SetToSeq(S) \in [1..Cardinality(S) -> S] /\ Owned!IsInjective(Owned!SetToSeq(S))
           /\ Owned!Range(Owned!SetToSeq(S)) = S
           /\ Cardinality(S) \in Nat
<1> DEFINE n == Cardinality(S)
           f == Owned!SetToSeq(S)
<1>1. n \in Nat /\ ExistsBijection(1..n, S)
  BY FS_CardinalityType
<1>2. \E g \in [1..n -> S] : Owned!IsInjective(g)
  BY <1>1 DEF ExistsBijection, Bijection, Injection, IsInjective, Owned!IsInjective
<1>3. f \in [1..n -> S] /\ Owned!IsInjective(f)
  BY <1>2, SameCount, Zenon DEF Owned!SetToSeq
<1>4. f \in Injection(1..n, S)
  BY <1>3 DEF Injection, IsInjective, Owned!IsInjective
<1>5. Cardinality(1..n) = n
  BY <1>1, FS_Interval
<1>6. f \in Surjection(1..n, S)
  BY <1>4, <1>5, FS_Injection
<1>7. Owned!Range(f) = S
  BY <1>3, <1>6 DEF Surjection, Owned!Range
<1> QED BY <1>1, <1>3, <1>7

LEMMA NoticeFacts ==
    ASSUME OwnersInv
    PROVE  /\ ownedNotices \in Seq(NoticeRows) /\ DOMAIN ownedNotices = 1..Len(ownedNotices) /\ Len(ownedNotices) \in Nat
           /\ \A i \in DOMAIN ownedNotices :
                 /\ i \in Nat /\ ownedNotices[i] \in NoticeRows
                 /\ ownedNotices[i].owner \in Publishers /\ ownedNotices[i].scope \in Shared /\ ownedNotices[i].version \in Nat
<1>1. ownedNotices \in Seq(NoticeRows)
  BY DEF OwnersInv, OwnedTypes
<1>2. DOMAIN ownedNotices = 1..Len(ownedNotices) /\ Len(ownedNotices) \in Nat
  BY <1>1, LenProperties
<1>3. \A i \in 1..Len(ownedNotices) : ownedNotices[i] \in NoticeRows
  BY <1>1, ElementOfSeq
<1> QED BY <1>1, <1>2, <1>3 DEF NoticeRows

LEMMA OwnersBegin == Owned!Init => OwnersInv
  BY DEF Owned!Init, OwnersInv, OwnedTypes, Held

\* What changes one scope leaves the others as they were.
LEMMA Elsewhere ==
    ASSUME OwnersInv, OwnedTypes', NEW s \in Shared, Held(s)',
           DOMAIN ownedNotices' = DOMAIN ownedNotices,
           \A i \in DOMAIN ownedNotices : ownedNotices'[i].scope = ownedNotices[i].scope
               /\ (ownedNotices[i].scope # s => ownedNotices'[i].owner = ownedNotices[i].owner),
           \A t \in Shared : t # s => ownedGroups'[t] = ownedGroups[t],
           \A b \in DOMAIN ownedBatches' :
               ownedBatches'[b].status = "pending" /\ ownedBatches'[b].scope # s =>
                   b \in DOMAIN ownedBatches /\ ownedBatches'[b] = ownedBatches[b]
    PROVE  OwnersInv'
<1>1. ASSUME NEW t \in Shared, t # s PROVE Held(t)'
  <2>1. ownedGroups'[t] = ownedGroups[t] /\ Owned!Members(t)' = Owned!Members(t)
    BY <1>1 DEF Owned!Members
  <2>2. \A b \in Owned!Pending(t)' : b \in Owned!Pending(t) /\ ownedBatches'[b] = ownedBatches[b]
    BY <1>1 DEF Owned!Pending
  <2>3. Held(t)
    BY DEF OwnersInv
  <2>4. \A i \in DOMAIN ownedNotices : ownedNotices[i].scope = t => ownedNotices'[i].owner = ownedNotices[i].owner
    BY <1>1
  <2>5. ASSUME ownedGroups[t] # NoGroup, NEW i \in DOMAIN ownedNotices, ownedNotices'[i].scope = t
        PROVE  ownedNotices'[i].owner \in Owned!Members(t)
    BY <2>3, <2>4, <2>5 DEF Held
  <2> QED BY <2>1, <2>2, <2>3, <2>5 DEF Held
<1> QED BY <1>1 DEF OwnersInv

LEMMA BatchesSettled ==
    ASSUME OwnersInv, NEW s \in Shared
    PROVE  /\ Owned!Cancelled(s) \in Seq(BatchRows) /\ Len(Owned!Cancelled(s)) = Len(ownedBatches)
           /\ Len(ownedBatches) \in Nat /\ DOMAIN ownedBatches = 1..Len(ownedBatches)
           /\ \A b \in DOMAIN ownedBatches : Owned!Cancelled(s)[b].status = "pending" =>
                 ownedBatches[b].scope # s /\ Owned!Cancelled(s)[b] = ownedBatches[b]
           /\ \A b \in DOMAIN ownedBatches : Owned!Cancelled(s)[b].status # "accepted" \/ ownedBatches[b].status = "accepted"
<1> DEFINE n == Len(ownedBatches)
           c == Owned!Cancelled(s)
<1>1. ownedBatches \in Seq(BatchRows) /\ n \in Nat /\ DOMAIN ownedBatches = 1..n
  BY LenProperties DEF OwnersInv, OwnedTypes
<1>2. \A b \in 1..n : ownedBatches[b] \in BatchRows
  BY <1>1, ElementOfSeq
<1>3. ASSUME NEW b \in 1..n
      PROVE  /\ c[b] \in BatchRows
             /\ c[b].status = "pending" => ownedBatches[b].scope # s /\ c[b] = ownedBatches[b]
             /\ c[b].status # "accepted" \/ ownedBatches[b].status = "accepted"
  <2>1. CASE b \in Owned!Pending(s)
    <3>1. c[b] = [ownedBatches[b] EXCEPT !.status = "cancelled"]
      BY <1>1, <2>1 DEF Owned!Cancelled
    <3> QED BY <1>2, <3>1 DEF BatchRows
  <2>2. CASE b \notin Owned!Pending(s)
    <3>1. c[b] = ownedBatches[b]
      BY <1>1, <2>2 DEF Owned!Cancelled
    <3> QED BY <1>1, <1>2, <2>2, <3>1 DEF Owned!Pending
  <2> QED BY <2>1, <2>2
<1>4. c \in [1..n -> BatchRows]
  BY <1>1, <1>3 DEF Owned!Cancelled
<1>5. c \in Seq(BatchRows) /\ Len(c) = n
  <2>1. c \in Seq(BatchRows)
    BY <1>1, <1>4, SeqDef
  <2> QED BY <1>1, <1>4, <2>1, LenProperties
<1> QED BY <1>1, <1>3, <1>5

LEMMA CreateKeeps ==
    ASSUME OwnersInv, NEW p \in Publishers, NEW s \in Shared, Owned!Create(p, s)
    PROVE  OwnersInv'
<1> DEFINE n == Len(ownedNotices)
           new == [scope |-> s, owner |-> p, version |-> 1]
<1>1. ownedNotices \in Seq(NoticeRows) /\ new \in NoticeRows
  BY DEF OwnersInv, OwnedTypes, NoticeRows
<1>2. ownedNotices' = Append(ownedNotices, new) /\ UNCHANGED <<ownedGroups, ownedBatches>> /\ Owned!Open(p, s)
  BY DEF Owned!Create
<1>3. new.scope = s /\ new.owner = p
  OBVIOUS
<1> HIDE DEF new
<1>4. /\ ownedNotices' \in Seq(NoticeRows) /\ DOMAIN ownedNotices' = 1..n + 1 /\ DOMAIN ownedNotices = 1..n /\ n \in Nat
      /\ ownedNotices'[n + 1] = new /\ \A i \in 1..n : ownedNotices'[i] = ownedNotices[i]
  BY <1>1, <1>2, AppendProperties, LenProperties
<1>5. OwnedTypes'
  BY <1>2, <1>4 DEF OwnersInv, OwnedTypes
<1>6. ASSUME NEW t \in Shared PROVE Held(t)'
  <2>1. Held(t) /\ Owned!Members(t)' = Owned!Members(t) /\ Owned!Pending(t)' = Owned!Pending(t)
    BY <1>2 DEF OwnersInv, Owned!Members, Owned!Pending
  <2>2. ASSUME ownedGroups[t] # NoGroup, NEW i \in 1..n + 1, ownedNotices'[i].scope = t
        PROVE  ownedNotices'[i].owner \in Owned!Members(t)
    <3>1. CASE i = n + 1
      BY <1>2, <1>3, <1>4, <2>2, <3>1 DEF Owned!Open
    <3>2. CASE i \in 1..n
      BY <1>4, <2>1, <2>2, <3>2 DEF Held
    <3> QED BY <1>4, <3>1, <3>2
  <2> QED BY <1>2, <1>4, <2>1, <2>2 DEF Held
<1> QED BY <1>5, <1>6 DEF OwnersInv

LEMMA ReviseKeeps ==
    ASSUME OwnersInv, NEW p \in Publishers, NEW k, NEW s \in Shared, Owned!Revise(p, k, s)
    PROVE  OwnersInv'
<1> DEFINE new == [scope |-> s, version |-> ownedNotices[k].version + 1,
                   owner |-> IF ownedNotices[k].scope = s THEN ownedNotices[k].owner ELSE p]
<1>1. /\ k \in DOMAIN ownedNotices /\ UNCHANGED <<ownedGroups, ownedBatches>>
      /\ ownedNotices' = [ownedNotices EXCEPT ![k] = new]
      /\ ownedNotices[k].scope = s \/ Owned!Open(p, s)
  BY DEF Owned!Revise, Owned!MayMove
<1>2. ownedNotices \in Seq(NoticeRows) /\ ownedNotices[k] \in NoticeRows /\ k \in 1..Len(ownedNotices)
  BY <1>1, ElementOfSeq, LenProperties DEF OwnersInv, OwnedTypes
<1>3. new \in NoticeRows /\ new.scope = s /\ new.owner = IF ownedNotices[k].scope = s THEN ownedNotices[k].owner ELSE p
  BY <1>2 DEF NoticeRows
<1> HIDE DEF new
<1>4. /\ ownedNotices' \in Seq(NoticeRows) /\ DOMAIN ownedNotices' = DOMAIN ownedNotices
      /\ ownedNotices'[k] = new /\ \A i \in DOMAIN ownedNotices : i # k => ownedNotices'[i] = ownedNotices[i]
  BY <1>1, <1>2, <1>3, ExceptSeq
<1>5. OwnedTypes'
  BY <1>1, <1>4 DEF OwnersInv, OwnedTypes
<1>6. ASSUME NEW t \in Shared PROVE Held(t)'
  <2>1. Held(t) /\ Owned!Members(t)' = Owned!Members(t) /\ Owned!Pending(t)' = Owned!Pending(t)
    BY <1>1 DEF OwnersInv, Owned!Members, Owned!Pending
  <2>2. ASSUME ownedGroups[t] # NoGroup, NEW i \in DOMAIN ownedNotices, ownedNotices'[i].scope = t
        PROVE  ownedNotices'[i].owner \in Owned!Members(t)
    <3>1. CASE i = k /\ ownedNotices[k].scope = s
      BY <1>3, <1>4, <2>1, <2>2, <3>1 DEF Held
    <3>2. CASE i = k /\ ownedNotices[k].scope # s
      BY <1>1, <1>3, <1>4, <2>2, <3>2 DEF Owned!Open
    <3>3. CASE i # k
      BY <1>4, <2>1, <2>2, <3>3 DEF Held
    <3> QED BY <3>1, <3>2, <3>3
  <2> QED BY <1>1, <1>4, <2>1, <2>2 DEF Held
<1> QED BY <1>5, <1>6 DEF OwnersInv

Reassigned(s, F) ==
    [i \in DOMAIN ownedNotices |->
        IF i \in Owned!Rows(s) THEN [ownedNotices[i] EXCEPT !.owner = F[i]] ELSE ownedNotices[i]]

LEMMA NoticesRewritten ==
    ASSUME OwnersInv, NEW s \in Shared, NEW F,
           F \in [DOMAIN ownedNotices -> Publishers], ownedNotices' = Reassigned(s, F)
    PROVE  /\ ownedNotices' \in Seq(NoticeRows) /\ DOMAIN ownedNotices' = DOMAIN ownedNotices
           /\ \A i \in DOMAIN ownedNotices :
                 /\ ownedNotices'[i].scope = ownedNotices[i].scope /\ ownedNotices'[i].version = ownedNotices[i].version
                 /\ ownedNotices'[i].owner = IF ownedNotices[i].scope = s THEN F[i] ELSE ownedNotices[i].owner
<1>1. ownedNotices \in Seq(NoticeRows) /\ DOMAIN ownedNotices = 1..Len(ownedNotices) /\ Len(ownedNotices) \in Nat
  BY LenProperties DEF OwnersInv, OwnedTypes
<1>2. ASSUME NEW i \in DOMAIN ownedNotices
      PROVE  /\ ownedNotices'[i] \in NoticeRows
             /\ ownedNotices'[i].scope = ownedNotices[i].scope /\ ownedNotices'[i].version = ownedNotices[i].version
             /\ ownedNotices'[i].owner = IF ownedNotices[i].scope = s THEN F[i] ELSE ownedNotices[i].owner
  <2>1. ownedNotices[i] \in NoticeRows
    BY <1>1, ElementOfSeq
  <2>2. CASE i \in Owned!Rows(s)
    <3>1. ownedNotices'[i] = [ownedNotices[i] EXCEPT !.owner = F[i]] /\ F[i] \in Publishers
      BY <2>2 DEF Reassigned
    <3> QED BY <2>1, <2>2, <3>1 DEF NoticeRows, Owned!Rows
  <2>3. CASE i \notin Owned!Rows(s)
    BY <2>1, <2>3 DEF Owned!Rows, Reassigned
  <2> QED BY <2>2, <2>3
<1>3. ownedNotices' \in [1..Len(ownedNotices) -> NoticeRows]
  BY <1>1, <1>2 DEF Reassigned
<1>4. ownedNotices' \in Seq(NoticeRows)
  BY <1>1, <1>3, SeqDef
<1> QED BY <1>1, <1>2, <1>4 DEF Reassigned

LEMMA RevisionNat ==
    ASSUME OwnersInv, NEW s \in Shared
    PROVE  Owned!Revision(s) \in Nat /\ (ownedGroups[s] # NoGroup => ownedGroups[s] \in GroupRows)
BY DEF OwnersInv, OwnedTypes, Owned!Revision, GroupRows

LEMMA ShareKept ==
    ASSUME OwnersInv, NEW s \in Shared, NEW ms \in Owned!Rosters, Owned!Share(s, ms)
    PROVE  OwnersInv'
<1> DEFINE g == [members |-> ms, revision |-> Owned!Revision(s) + 1]
           F == [i \in DOMAIN ownedNotices |-> Owned!Keeper(i, ms)]
<1>1. ownedGroups' = [ownedGroups EXCEPT ![s] = g] /\ ownedBatches' = Owned!Cancelled(s)
  BY DEF Owned!Share
<1>2. g \in GroupRows /\ g.members = ms
  BY RevisionNat DEF GroupRows
<1>3. Owned!Range(ms) \subseteq Publishers /\ \A i \in DOMAIN ownedNotices : Owned!Keeper(i, ms) \in Owned!Range(ms)
  <2>1. Head(ms) \in Owned!Range(ms)
    <3>1. 1 \in DOMAIN ms /\ Head(ms) = ms[1]
      BY RosterFacts
    <3> QED BY <3>1 DEF Owned!Range
  <2> QED BY <2>1, RosterFacts DEF Owned!Keeper
<1>4. F \in [DOMAIN ownedNotices -> Publishers]
  BY <1>3
<1>5. ownedNotices' = Reassigned(s, F)
  BY DEF Owned!Share, Owned!Rows, Reassigned
<1> HIDE DEF g, F
<1>6. /\ ownedNotices' \in Seq(NoticeRows) /\ DOMAIN ownedNotices' = DOMAIN ownedNotices
      /\ \A i \in DOMAIN ownedNotices :
            /\ ownedNotices'[i].scope = ownedNotices[i].scope
            /\ ownedNotices'[i].owner = IF ownedNotices[i].scope = s THEN F[i] ELSE ownedNotices[i].owner
  BY <1>4, <1>5, NoticesRewritten
<1>7. OwnedTypes' /\ ownedGroups'[s] = g /\ \A t \in Shared : t # s => ownedGroups'[t] = ownedGroups[t]
  BY <1>1, <1>2, <1>6, BatchesSettled DEF OwnersInv, OwnedTypes
<1>8. /\ DOMAIN ownedBatches' = DOMAIN ownedBatches
      /\ \A b \in DOMAIN ownedBatches : ownedBatches'[b].status = "pending" =>
            ownedBatches[b].scope # s /\ ownedBatches'[b] = ownedBatches[b]
  BY <1>1, BatchesSettled, LenProperties
<1>9. Held(s)'
  <2>1. ownedGroups'[s] # NoGroup => Owned!Members(s)' = Owned!Range(ms)
    BY <1>2, <1>7 DEF Owned!Members
  <2>2. Owned!Pending(s)' = {}
    BY <1>8 DEF Owned!Pending
  <2>3. \A i \in DOMAIN ownedNotices : F[i] \in Owned!Range(ms)
    BY <1>3 DEF F
  <2> QED BY <1>6, <2>1, <2>2, <2>3 DEF Held
<1> QED BY <1>6, <1>7, <1>8, <1>9, Elsewhere

\* Somebody takes the place of a member.
LEMMA PlaceTaken ==
    ASSUME NEW ms \in Owned!Rosters, NEW from \in Owned!Range(ms), NEW to \in Publishers, to \notin Owned!Range(ms),
           NEW nm, nm = [k \in DOMAIN ms |-> IF ms[k] = from THEN to ELSE ms[k]]
    PROVE  nm \in Owned!Rosters /\ Owned!Range(nm) = (Owned!Range(ms) \ {from}) \cup {to}
<1> DEFINE n == Len(ms)
<1>1. n \in 1..2 /\ DOMAIN ms = 1..n /\ Owned!IsInjective(ms) /\ Owned!Range(ms) \subseteq Publishers
  BY RosterFacts
<1>2. \A k \in 1..n : ms[k] \in Owned!Range(ms) /\ ms[k] # to
  BY <1>1 DEF Owned!Range
<1>3. nm \in [1..n -> Publishers]
  BY <1>1, <1>2
<1>4. Owned!IsInjective(nm)
  BY <1>1, <1>2 DEF Owned!IsInjective
<1>5. nm \in Owned!Rosters
  BY <1>1, <1>3, <1>4, RosterFacts
<1>6. Owned!Range(nm) = (Owned!Range(ms) \ {from}) \cup {to}
  <2>1. PICK j \in 1..n : ms[j] = from
    BY <1>1 DEF Owned!Range
  <2>2. Owned!Range(nm) \subseteq (Owned!Range(ms) \ {from}) \cup {to}
    BY <1>1, <1>2 DEF Owned!Range
  <2>3. to \in Owned!Range(nm)
    BY <1>1, <2>1 DEF Owned!Range
  <2>4. ASSUME NEW p \in Owned!Range(ms), p # from PROVE p \in Owned!Range(nm)
    <3>1. PICK k \in 1..n : ms[k] = p
      BY <1>1 DEF Owned!Range
    <3>2. nm[k] = p /\ k \in DOMAIN nm
      BY <1>1, <2>4, <3>1
    <3> QED BY <3>2 DEF Owned!Range
  <2> QED BY <2>2, <2>3, <2>4
<1> QED BY <1>5, <1>6

\* A scope that is not shared yet gets its owners as members.
LEMMA EnsuredFacts ==
    ASSUME OwnersInv, NEW s \in Shared, NEW u, Owned!MayEnsure(u, s), Owned!Range(Owned!Ensured(s).members) # {}
    PROVE  /\ Owned!Ensured(s) \in GroupRows
           /\ \A i \in DOMAIN ownedNotices : ownedNotices[i].scope = s => ownedNotices[i].owner \in Owned!Range(Owned!Ensured(s).members)
           /\ ownedGroups[s] # NoGroup => Owned!Members(s) = Owned!Range(Owned!Ensured(s).members)
<1>1. CASE ownedGroups[s] # NoGroup
  <2>1. Owned!Ensured(s) = ownedGroups[s] /\ Owned!Members(s) = Owned!Range(ownedGroups[s].members)
    BY <1>1 DEF Owned!Ensured, Owned!Members
  <2>2. Held(s) /\ ownedGroups[s] \in GroupRows
    BY <1>1, RevisionNat DEF OwnersInv
  <2> QED BY <1>1, <2>1, <2>2 DEF Held
<1>2. CASE ownedGroups[s] = NoGroup
  <2> DEFINE S == Owned!Owners(s)
             n == Cardinality(S)
             ms == Owned!SetToSeq(S)
             f == [i \in Owned!Rows(s) |-> ownedNotices[i].owner]
  <2>1. DOMAIN ownedNotices = 1..Len(ownedNotices) /\ Len(ownedNotices) \in Nat /\ ownedNotices \in Seq(NoticeRows)
    BY LenProperties DEF OwnersInv, OwnedTypes
  <2>2. IsFiniteSet(Owned!Rows(s))
    <3>1. IsFiniteSet(1..Len(ownedNotices)) /\ Owned!Rows(s) \in SUBSET (1..Len(ownedNotices))
      BY <2>1, FS_Interval DEF Owned!Rows
    <3> QED BY <3>1, FS_Subset
  <2>3. S = {f[i] : i \in Owned!Rows(s)}
    BY DEF Owned!Owners
  <2>4. IsFiniteSet(S)
    <3>1. f \in [Owned!Rows(s) -> {f[i] : i \in Owned!Rows(s)}]
      OBVIOUS
    <3> HIDE DEF f
    <3> QED BY <2>2, <2>3, <3>1, ImageFinite
  <2>5. Owned!Ensured(s) = [members |-> ms, revision |-> 1] /\ n <= 2
    BY <1>2, SameCount DEF Owned!Ensured, Owned!MayEnsure
  <2>6. ms \in [1..n -> S] /\ Owned!IsInjective(ms) /\ Owned!Range(ms) = S /\ n \in Nat
    BY <2>4, SeqOfSet
  <2>7. S \subseteq Publishers
    BY NoticeFacts DEF Owned!Owners, Owned!Rows
  <2>8. n # 0
    BY <2>4, <2>5, <2>6, FS_EmptySet
  <2>9. ms \in [1..n -> Publishers]
    BY <2>6, <2>7
  <2>10. ms \in Owned!Rosters
    <3>1. n \in 1..2
      BY <2>5, <2>6, <2>8
    <3> HIDE DEF ms, n
    <3> QED BY <2>6, <2>9, <3>1, RosterFacts
  <2>11. Owned!Ensured(s) \in GroupRows /\ Owned!Ensured(s).members = ms
    BY <2>5, <2>10 DEF GroupRows
  <2>12. \A i \in DOMAIN ownedNotices : ownedNotices[i].scope = s => ownedNotices[i].owner \in S
    BY DEF Owned!Owners, Owned!Rows
  <2> HIDE DEF S, ms
  <2> QED BY <1>2, <2>6, <2>11, <2>12
<1> QED BY <1>1, <1>2

\* The announcements and the place of whoever leaves go to the successor.
LEMMA PassedFacts ==
    ASSUME OwnersInv, NEW s \in Shared, NEW from, NEW to \in Publishers, NEW ms \in Owned!Rosters,
           from \in Owned!Range(ms), to \notin Owned!Range(ms),
           \A i \in DOMAIN ownedNotices : ownedNotices[i].scope = s => ownedNotices[i].owner \in Owned!Range(ms),
           Owned!Ensured(s) \in GroupRows, Owned!Passed(s, from, to, ms)
    PROVE  /\ ownedGroups' \in [Shared -> GroupRows \cup {NoGroup}]
           /\ ownedGroups'[s] \in GroupRows /\ \A t \in Shared : t # s => ownedGroups'[t] = ownedGroups[t]
           /\ Owned!Range(ownedGroups'[s].members) = (Owned!Range(ms) \ {from}) \cup {to}
           /\ ownedNotices' \in Seq(NoticeRows) /\ DOMAIN ownedNotices' = DOMAIN ownedNotices
           /\ \A i \in DOMAIN ownedNotices :
                 /\ ownedNotices'[i].scope = ownedNotices[i].scope /\ ownedNotices'[i].version = ownedNotices[i].version
                 /\ ownedNotices[i].scope = s => ownedNotices'[i].owner \in (Owned!Range(ms) \ {from}) \cup {to}
                 /\ ownedNotices[i].scope # s => ownedNotices'[i].owner = ownedNotices[i].owner
<1> DEFINE nm == [k \in DOMAIN ms |-> IF ms[k] = from THEN to ELSE ms[k]]
           g == [members |-> nm, revision |-> Owned!Ensured(s).revision + 1]
           F == [i \in DOMAIN ownedNotices |-> IF ownedNotices[i].owner = from THEN to ELSE ownedNotices[i].owner]
<1>1. nm \in Owned!Rosters /\ Owned!Range(nm) = (Owned!Range(ms) \ {from}) \cup {to}
  BY PlaceTaken
<1>2. g \in GroupRows /\ g.members = nm
  BY <1>1 DEF GroupRows
<1>3. ownedGroups' = [ownedGroups EXCEPT ![s] = g]
  BY DEF Owned!Passed
<1>4. ownedNotices' = Reassigned(s, F)
  BY DEF Owned!Passed, Owned!NewOwner, Owned!Rows, Reassigned
<1>5. \A i \in DOMAIN ownedNotices : ownedNotices[i].owner \in Publishers
  BY NoticeFacts
<1>6. F \in [DOMAIN ownedNotices -> Publishers]
  BY <1>5
<1>7. \A i \in DOMAIN ownedNotices : ownedNotices[i].scope = s => F[i] \in (Owned!Range(ms) \ {from}) \cup {to}
  OBVIOUS
<1> HIDE DEF nm, g, F
<1>8. /\ ownedNotices' \in Seq(NoticeRows) /\ DOMAIN ownedNotices' = DOMAIN ownedNotices
      /\ \A i \in DOMAIN ownedNotices :
            /\ ownedNotices'[i].scope = ownedNotices[i].scope /\ ownedNotices'[i].version = ownedNotices[i].version
            /\ ownedNotices'[i].owner = IF ownedNotices[i].scope = s THEN F[i] ELSE ownedNotices[i].owner
  BY <1>4, <1>6, NoticesRewritten
<1>9. /\ ownedGroups' \in [Shared -> GroupRows \cup {NoGroup}] /\ ownedGroups'[s] = g
      /\ \A t \in Shared : t # s => ownedGroups'[t] = ownedGroups[t]
  BY <1>2, <1>3 DEF OwnersInv, OwnedTypes
<1> QED BY <1>1, <1>2, <1>7, <1>8, <1>9

LEMMA StartKeeps ==
    ASSUME OwnersInv, NEW u, NEW s \in Shared, NEW from, NEW to \in Publishers, Owned!Start(u, s, from, to)
    PROVE  OwnersInv'
<1> DEFINE e == Owned!Ensured(s)
           force == u = Admin
           batch == [scope |-> s, from |-> from, to |-> to, revision |-> e.revision,
                     snapshot |-> Owned!Snapshot(s), status |-> IF force THEN "forced" ELSE "pending"]
           n == Len(ownedBatches)
<1>1. /\ Owned!MayEnsure(u, s) /\ from \in Owned!Range(e.members) /\ to \notin Owned!Range(e.members)
      /\ ownedBatches' = Append(Owned!Cancelled(s), batch)
      /\ force => Owned!Passed(s, from, to, e.members)
      /\ ~force => ownedGroups' = [ownedGroups EXCEPT ![s] = e] /\ UNCHANGED ownedNotices
  BY DEF Owned!Start
<1>2. /\ e \in GroupRows
      /\ \A i \in DOMAIN ownedNotices : ownedNotices[i].scope = s => ownedNotices[i].owner \in Owned!Range(e.members)
  BY <1>1, EnsuredFacts
<1>3. e.members \in Owned!Rosters /\ from \in Publishers /\ e.revision \in Nat
  <2>1. e.members \in Owned!Rosters /\ e.revision \in Nat
    BY <1>2 DEF GroupRows
  <2> QED BY <1>1, <2>1, RosterFacts
<1>4. Owned!Snapshot(s) \in SUBSET (Nat \X Nat)
  <2>1. \A i \in DOMAIN ownedNotices : i \in Nat /\ ownedNotices[i].version \in Nat
    BY NoticeFacts
  <2> QED BY <2>1 DEF Owned!Snapshot, Owned!Rows
<1>5. batch \in BatchRows /\ batch.scope = s /\ batch.from = from /\ batch.to = to
      /\ (batch.status = "pending" => ~force)
  BY <1>3, <1>4 DEF BatchRows
<1> HIDE DEF batch, e
<1>6. /\ ownedBatches' \in Seq(BatchRows) /\ DOMAIN ownedBatches' = 1..n + 1 /\ n \in Nat
      /\ ownedBatches'[n + 1] = batch /\ DOMAIN ownedBatches = 1..n
      /\ \A b \in 1..n : ownedBatches'[b] = Owned!Cancelled(s)[b]
  BY <1>1, <1>5, BatchesSettled, AppendProperties, LenProperties
<1>7. \A b \in 1..n : ownedBatches'[b].status = "pending" =>
          ownedBatches[b].scope # s /\ ownedBatches'[b] = ownedBatches[b]
  BY <1>6, BatchesSettled
<1>8. \A b \in DOMAIN ownedBatches' :
          ownedBatches'[b].status = "pending" /\ ownedBatches'[b].scope # s =>
              b \in DOMAIN ownedBatches /\ ownedBatches'[b] = ownedBatches[b]
  BY <1>5, <1>6, <1>7
<1>9. Owned!Pending(s)' \subseteq {n + 1} /\ (force => Owned!Pending(s)' = {})
  BY <1>5, <1>6, <1>7 DEF Owned!Pending
<1>10. CASE force
  <2>1. /\ ownedGroups' \in [Shared -> GroupRows \cup {NoGroup}]
        /\ \A t \in Shared : t # s => ownedGroups'[t] = ownedGroups[t]
        /\ Owned!Range(ownedGroups'[s].members) = (Owned!Range(e.members) \ {from}) \cup {to}
        /\ ownedNotices' \in Seq(NoticeRows) /\ DOMAIN ownedNotices' = DOMAIN ownedNotices
        /\ \A i \in DOMAIN ownedNotices :
              /\ ownedNotices'[i].scope = ownedNotices[i].scope
              /\ ownedNotices[i].scope = s => ownedNotices'[i].owner \in (Owned!Range(e.members) \ {from}) \cup {to}
              /\ ownedNotices[i].scope # s => ownedNotices'[i].owner = ownedNotices[i].owner
    <3>1. PICK ms : ms = e.members
      OBVIOUS
    <3>2. Owned!Passed(s, from, to, ms) /\ Owned!Ensured(s) \in GroupRows
      BY <1>1, <1>2, <1>10, <3>1 DEF Owned!Passed, e
    <3>3. /\ ms \in Owned!Rosters /\ from \in Owned!Range(ms) /\ to \notin Owned!Range(ms)
          /\ \A i \in DOMAIN ownedNotices : ownedNotices[i].scope = s => ownedNotices[i].owner \in Owned!Range(ms)
      BY <1>1, <1>2, <1>3, <3>1
    <3>4. \A i \in DOMAIN ownedNotices :
             /\ ownedNotices'[i].scope = ownedNotices[i].scope
             /\ ownedNotices[i].scope = s => ownedNotices'[i].owner \in (Owned!Range(ms) \ {from}) \cup {to}
             /\ ownedNotices[i].scope # s => ownedNotices'[i].owner = ownedNotices[i].owner
      BY <3>2, <3>3, PassedFacts
    <3>5. /\ ownedGroups' \in [Shared -> GroupRows \cup {NoGroup}]
          /\ ownedGroups'[s] \in GroupRows /\ \A t \in Shared : t # s => ownedGroups'[t] = ownedGroups[t]
          /\ Owned!Range(ownedGroups'[s].members) = (Owned!Range(ms) \ {from}) \cup {to}
          /\ ownedNotices' \in Seq(NoticeRows) /\ DOMAIN ownedNotices' = DOMAIN ownedNotices
          /\ \A i \in DOMAIN ownedNotices :
                /\ ownedNotices'[i].scope = ownedNotices[i].scope /\ ownedNotices'[i].version = ownedNotices[i].version
                /\ ownedNotices[i].scope = s => ownedNotices'[i].owner \in (Owned!Range(ms) \ {from}) \cup {to}
                /\ ownedNotices[i].scope # s => ownedNotices'[i].owner = ownedNotices[i].owner
      BY <3>2, <3>3, PassedFacts
    <3>6. Owned!Range(ms) = Owned!Range(e.members)
      BY <3>1
    <3> QED BY <3>4, <3>5, <3>6
  <2>2. OwnedTypes'
    BY <1>6, <2>1 DEF OwnedTypes
  <2>3. Held(s)'
    BY <1>9, <1>10, <2>1 DEF Held, Owned!Members
  <2> QED BY <1>8, <2>1, <2>2, <2>3, Elsewhere
<1>11. CASE ~force
  <2>1. /\ ownedGroups' \in [Shared -> GroupRows \cup {NoGroup}] /\ ownedGroups'[s] = e
        /\ \A t \in Shared : t # s => ownedGroups'[t] = ownedGroups[t]
        /\ UNCHANGED ownedNotices
    BY <1>1, <1>2, <1>11 DEF OwnersInv, OwnedTypes
  <2>2. OwnedTypes'
    BY <1>6, <2>1 DEF OwnersInv, OwnedTypes
  <2>3. ownedGroups'[s] # NoGroup => Owned!Members(s)' = Owned!Range(e.members)
    BY <2>1 DEF Owned!Members
  <2>4. \A b \in Owned!Pending(s)' : b = n + 1 /\ ownedBatches'[b].from = from /\ ownedBatches'[b].to = to
    BY <1>5, <1>6, <1>9
  <2>5. Held(s)'
    BY <1>1, <1>2, <2>1, <2>3, <2>4 DEF Held
  <2> QED BY <1>8, <2>1, <2>2, <2>5, Elsewhere
<1> QED BY <1>10, <1>11

LEMMA AcceptKeeps ==
    ASSUME OwnersInv, NEW b, Owned!Accept(b)
    PROVE  /\ OwnersInv'
           /\ \E s, from, to :
                /\ s \in Shared /\ s = ownedBatches[b].scope /\ from = ownedBatches[b].from /\ to = ownedBatches[b].to
                /\ b \in DOMAIN ownedBatches /\ Owned!Snapshot(s)' = ownedBatches[b].snapshot
                /\ ownedGroups'[s] \in GroupRows /\ \A t \in Shared : t # s => ownedGroups'[t] = ownedGroups[t]
                /\ Owned!Range(ownedGroups'[s].members) = (Owned!Members(s) \ {from}) \cup {to}
                /\ Owned!MaySay(to, s)
<1> DEFINE s == ownedBatches[b].scope
           from == ownedBatches[b].from
           to == ownedBatches[b].to
           ms == ownedGroups[s].members
           done == [ownedBatches[b] EXCEPT !.status = "accepted"]
<1>1. /\ b \in DOMAIN ownedBatches /\ ownedBatches[b].status = "pending"
      /\ Owned!StillTrue(b) /\ from \in Owned!Members(s) /\ to \notin Owned!Members(s) /\ Owned!MaySay(to, s)
      /\ Owned!Passed(s, from, to, ms)
      /\ ownedBatches' = [ownedBatches EXCEPT ![b].status = "accepted"]
  BY DEF Owned!Accept
<1>2. ownedBatches \in Seq(BatchRows) /\ ownedBatches[b] \in BatchRows /\ b \in 1..Len(ownedBatches)
  BY <1>1, ElementOfSeq, LenProperties DEF OwnersInv, OwnedTypes
<1>3. s \in Shared /\ from \in Publishers /\ to \in Publishers
  BY <1>2 DEF BatchRows
<1>4. ownedGroups[s] # NoGroup /\ ownedGroups[s] \in GroupRows /\ Owned!Members(s) = Owned!Range(ms)
  BY <1>1, <1>3, RevisionNat DEF Owned!Members
<1>5. /\ ms \in Owned!Rosters /\ Owned!Ensured(s) \in GroupRows
      /\ \A i \in DOMAIN ownedNotices : ownedNotices[i].scope = s => ownedNotices[i].owner \in Owned!Range(ms)
      /\ \A c \in Owned!Pending(s) : c = b
  <2>1. b \in Owned!Pending(s) /\ Held(s)
    BY <1>1, <1>3 DEF OwnersInv, Owned!Pending
  <2> QED BY <1>4, <2>1 DEF Held, GroupRows, Owned!Ensured
<1>6. done \in BatchRows /\ done.status = "accepted" /\ done.scope = s
  BY <1>2 DEF BatchRows
<1>7. ownedBatches' = [ownedBatches EXCEPT ![b] = done]
  BY <1>1
<1> HIDE DEF done
<1>8. /\ ownedBatches' \in Seq(BatchRows) /\ DOMAIN ownedBatches' = DOMAIN ownedBatches
      /\ ownedBatches'[b] = done /\ \A c \in DOMAIN ownedBatches : c # b => ownedBatches'[c] = ownedBatches[c]
  BY <1>2, <1>6, <1>7, ExceptSeq, LenProperties
<1> HIDE DEF s, from, to, ms
<1>16. PICK c, f, h, m : c = s /\ f = from /\ h = to /\ m = ms
  OBVIOUS
<1>17. Owned!Passed(c, f, h, m)
  BY <1>1, <1>16 DEF Owned!Passed, Owned!Rows, Owned!Ensured, Owned!NewOwner
<1>9. /\ ownedGroups' \in [Shared -> GroupRows \cup {NoGroup}]
      /\ ownedGroups'[s] \in GroupRows /\ \A t \in Shared : t # s => ownedGroups'[t] = ownedGroups[t]
      /\ Owned!Range(ownedGroups'[s].members) = (Owned!Range(ms) \ {from}) \cup {to}
      /\ ownedNotices' \in Seq(NoticeRows) /\ DOMAIN ownedNotices' = DOMAIN ownedNotices
      /\ \A i \in DOMAIN ownedNotices :
            /\ ownedNotices'[i].scope = ownedNotices[i].scope /\ ownedNotices'[i].version = ownedNotices[i].version
            /\ ownedNotices[i].scope = s => ownedNotices'[i].owner \in (Owned!Range(ms) \ {from}) \cup {to}
            /\ ownedNotices[i].scope # s => ownedNotices'[i].owner = ownedNotices[i].owner
  <2>1. /\ c \in Shared /\ h \in Publishers /\ m \in Owned!Rosters /\ f \in Owned!Range(m) /\ h \notin Owned!Range(m)
        /\ \A i \in DOMAIN ownedNotices : ownedNotices[i].scope = c => ownedNotices[i].owner \in Owned!Range(m)
        /\ Owned!Ensured(c) \in GroupRows
    BY <1>1, <1>3, <1>4, <1>5, <1>16
  <2>2. /\ ownedGroups' \in [Shared -> GroupRows \cup {NoGroup}]
        /\ ownedGroups'[c] \in GroupRows /\ \A x \in Shared : x # c => ownedGroups'[x] = ownedGroups[x]
        /\ Owned!Range(ownedGroups'[c].members) = (Owned!Range(m) \ {f}) \cup {h}
        /\ ownedNotices' \in Seq(NoticeRows) /\ DOMAIN ownedNotices' = DOMAIN ownedNotices
        /\ \A i \in DOMAIN ownedNotices :
              /\ ownedNotices'[i].scope = ownedNotices[i].scope /\ ownedNotices'[i].version = ownedNotices[i].version
              /\ ownedNotices[i].scope = c => ownedNotices'[i].owner \in (Owned!Range(m) \ {f}) \cup {h}
              /\ ownedNotices[i].scope # c => ownedNotices'[i].owner = ownedNotices[i].owner
    BY <1>17, <2>1, PassedFacts
  <2> QED BY <1>16, <2>2
<1>10. OwnedTypes'
  BY <1>8, <1>9 DEF OwnedTypes
<1>11. Owned!Pending(c)' = {}
  <2>1. \A a \in Owned!Pending(c) : a = b
    BY <1>5, <1>16
  <2> QED BY <1>6, <1>8, <2>1 DEF Owned!Pending
<1>12. Held(c)'
  <2>1. /\ Owned!Range(ownedGroups'[c].members) = (Owned!Range(m) \ {f}) \cup {h}
        /\ \A i \in DOMAIN ownedNotices' : ownedNotices'[i].scope = c =>
               ownedNotices'[i].owner \in (Owned!Range(m) \ {f}) \cup {h}
    BY <1>9, <1>16
  <2> QED BY <1>11, <2>1 DEF Held, Owned!Members
<1>13. \A a \in DOMAIN ownedBatches' :
          ownedBatches'[a].status = "pending" /\ ownedBatches'[a].scope # c =>
              a \in DOMAIN ownedBatches /\ ownedBatches'[a] = ownedBatches[a]
  BY <1>6, <1>8, <1>16
<1>18. /\ c \in Shared /\ ownedGroups'[c] \in GroupRows /\ \A x \in Shared : x # c => ownedGroups'[x] = ownedGroups[x]
       /\ \A i \in DOMAIN ownedNotices :
            /\ ownedNotices'[i].scope = ownedNotices[i].scope /\ ownedNotices'[i].version = ownedNotices[i].version
            /\ ownedNotices[i].scope # c => ownedNotices'[i].owner = ownedNotices[i].owner
       /\ DOMAIN ownedNotices' = DOMAIN ownedNotices
  BY <1>3, <1>9, <1>16
<1>14. OwnersInv'
  BY <1>10, <1>12, <1>13, <1>18, Elsewhere
<1>15. Owned!Snapshot(c)' = ownedBatches[b].snapshot
  <2>1. Owned!Rows(c)' = Owned!Rows(c)
    BY <1>18 DEF Owned!Rows
  <2>2. \A i \in Owned!Rows(c) : ownedNotices'[i].version = ownedNotices[i].version
    BY <1>18 DEF Owned!Rows
  <2>3. Owned!Snapshot(c)' = Owned!Snapshot(c)
    BY <2>1, <2>2 DEF Owned!Snapshot
  <2>4. ownedBatches[b].snapshot = Owned!Snapshot(c)
    BY <1>1, <1>16 DEF Owned!StillTrue, s
  <2> QED BY <2>3, <2>4
<1>19. /\ Owned!Range(ownedGroups'[c].members) = (Owned!Members(c) \ {f}) \cup {h} /\ Owned!MaySay(h, c)
  BY <1>1, <1>4, <1>9, <1>16
<1>20. c = ownedBatches[b].scope /\ f = ownedBatches[b].from /\ h = ownedBatches[b].to
  BY <1>16 DEF s, from, to
<1> QED BY <1>1, <1>14, <1>15, <1>18, <1>19, <1>20

LEMMA OwnersStep == OwnersInv /\ [Owned!Next]_(Owned!ownerVars) => OwnersInv'
<1> SUFFICES ASSUME OwnersInv, [Owned!Next]_(Owned!ownerVars) PROVE OwnersInv'
  OBVIOUS
<1>1. ASSUME UNCHANGED <<ownedNotices, ownedGroups, ownedBatches>> PROVE OwnersInv'
  <2>1. \A s \in Shared : Held(s)'
    BY <1>1 DEF OwnersInv, Held, Owned!Members, Owned!Pending
  <2> QED BY <1>1, <2>1 DEF OwnersInv, OwnedTypes
<1>2. CASE UNCHANGED Owned!ownerVars
  BY <1>1, <1>2 DEF Owned!ownerVars
<1>3. ASSUME NEW p \in Publishers, NEW s \in Shared, Owned!Grants(p, s) PROVE OwnersInv'
  BY <1>1, <1>3 DEF Owned!Grants
<1>4. ASSUME NEW p \in Publishers, NEW s \in Shared, NEW i \in 1..MaxNotices, Owned!Revise(p, i, s) PROVE OwnersInv'
  BY <1>4, ReviseKeeps
<1>5. ASSUME NEW u, NEW to \in Publishers, NEW s \in Shared, NEW from, Owned!HandOver(u, s, from, to) PROVE OwnersInv'
  BY <1>5, StartKeeps DEF Owned!HandOver
<1>6. ASSUME NEW u, NEW to \in Publishers, NEW i \in 1..MaxNotices, Owned!HandOne(u, i, to) PROVE OwnersInv'
  <2>1. i \in DOMAIN ownedNotices /\ ownedNotices[i].scope \in Shared
    BY <1>6, NoticeFacts DEF Owned!HandOne
  <2>2. \E from : Owned!Start(u, ownedNotices[i].scope, from, to)
    BY <1>6 DEF Owned!HandOne
  <2> QED BY <2>1, <2>2, StartKeeps
<1> QED BY <1>2, <1>3, <1>4, <1>5, <1>6, CreateKeeps, ShareKept, AcceptKeeps DEF Owned!Next

LEMMA OwnersTold == OwnersInv => Owned!OwnersAreMembers
<1> SUFFICES ASSUME OwnersInv, NEW s \in Shared, ownedGroups[s] # NoGroup
             PROVE  /\ Owned!Owners(s) \subseteq Owned!Members(s)
                    /\ Owned!IsInjective(ownedGroups[s].members) /\ Len(ownedGroups[s].members) \in 1..2
                    /\ Cardinality(Owned!Pending(s)) <= 1
                    /\ \A b \in Owned!Pending(s) :
                         ownedBatches[b].from \in Owned!Members(s) /\ ownedBatches[b].to \notin Owned!Members(s)
  BY SameCount DEF Owned!OwnersAreMembers
<1>1. Held(s) /\ ownedGroups[s].members \in Owned!Rosters
  BY RevisionNat DEF OwnersInv, GroupRows
<1>2. Cardinality(Owned!Pending(s)) <= 1
  <2>1. CASE Owned!Pending(s) = {}
    BY <2>1, FS_EmptySet
  <2>2. ASSUME NEW b \in Owned!Pending(s) PROVE Cardinality(Owned!Pending(s)) = 1
    <3>1. Owned!Pending(s) = {b}
      BY <1>1 DEF Held
    <3> QED BY <3>1, FS_Singleton
  <2> QED BY <2>1, <2>2
<1> QED BY <1>1, <1>2, RosterFacts DEF Held, Owned!Owners, Owned!Rows

PassedWhole(b) ==
    LET s == ownedBatches[b].scope
    IN /\ ownedBatches[b].snapshot = {<<i, ownedNotices'[i].version>> :
              i \in {j \in DOMAIN ownedNotices' : ownedNotices'[j].scope = s}}
       /\ Owned!Members(s) \ {ownedBatches[b].from} \subseteq Owned!Range(ownedGroups'[s].members)

\* Who comes into a shared scope may publish there, and an accepted request passes
\* what it named.
LEMMA OwnersDecide ==
    ASSUME OwnersInv, [Owned!Next]_(Owned!ownerVars)
    PROVE  /\ \A s \in Shared : ownedGroups'[s] # NoGroup /\ ownedGroups[s] # NoGroup =>
                  \A p \in Owned!Range(ownedGroups'[s].members) \ Owned!Members(s) : Owned!MaySay(p, s)
           /\ \A b \in DOMAIN ownedBatches : ownedBatches'[b].status = "accepted" /\ ownedBatches[b].status = "pending" =>
                  PassedWhole(b)
<1> DEFINE Newcomers == \A s \in Shared : ownedGroups'[s] # NoGroup /\ ownedGroups[s] # NoGroup =>
               \A p \in Owned!Range(ownedGroups'[s].members) \ Owned!Members(s) : Owned!MaySay(p, s)
           NoneAccepted == \A b \in DOMAIN ownedBatches : ownedBatches'[b].status = "accepted" => ownedBatches[b].status = "accepted"
<1>1. ASSUME UNCHANGED <<ownedGroups, ownedBatches>> PROVE Newcomers /\ NoneAccepted
  BY <1>1 DEF Owned!Members
<1>2. ASSUME NEW s \in Shared, NEW ms \in Owned!Rosters, Owned!Share(s, ms) PROVE Newcomers /\ NoneAccepted
  <2>1. /\ \A p \in Owned!Range(ms) : Owned!MaySay(p, s)
        /\ ownedGroups' = [ownedGroups EXCEPT ![s] = [members |-> ms, revision |-> Owned!Revision(s) + 1]]
        /\ ownedBatches' = Owned!Cancelled(s)
    BY <1>2 DEF Owned!Share
  <2>2. ownedGroups'[s].members = ms /\ \A t \in Shared : t # s => ownedGroups'[t] = ownedGroups[t]
    BY <2>1 DEF OwnersInv, OwnedTypes
  <2>3. Newcomers
    BY <2>1, <2>2 DEF Owned!Members
  <2> QED BY <2>1, <2>3, BatchesSettled
<1>3. ASSUME NEW u, NEW s \in Shared, NEW from, NEW to \in Publishers, Owned!Start(u, s, from, to)
      PROVE  Newcomers /\ NoneAccepted
  <2> DEFINE e == Owned!Ensured(s)
  <2>1. /\ Owned!MayEnsure(u, s) /\ from \in Owned!Range(e.members) /\ to \notin Owned!Range(e.members)
        /\ Owned!MaySay(to, s)
        /\ u = Admin => Owned!Passed(s, from, to, e.members)
        /\ u # Admin => ownedGroups' = [ownedGroups EXCEPT ![s] = e]
        /\ \E batch : ownedBatches' = Append(Owned!Cancelled(s), batch)
    BY <1>3 DEF Owned!Start
  <2>2. /\ e \in GroupRows
        /\ \A i \in DOMAIN ownedNotices : ownedNotices[i].scope = s => ownedNotices[i].owner \in Owned!Range(e.members)
        /\ ownedGroups[s] # NoGroup => Owned!Members(s) = Owned!Range(e.members)
    BY <2>1, EnsuredFacts
  <2>3. e.members \in Owned!Rosters
    BY <2>2 DEF GroupRows
  <2>4. NoneAccepted
    BY <2>1, BatchesSettled, AppendProperties
  <2>5. CASE u = Admin
    <3>1. /\ \A t \in Shared : t # s => ownedGroups'[t] = ownedGroups[t]
          /\ Owned!Range(ownedGroups'[s].members) = (Owned!Range(e.members) \ {from}) \cup {to}
      <4>1. PICK ms : ms = e.members
        OBVIOUS
      <4>2. Owned!Passed(s, from, to, ms)
        BY <2>1, <2>5, <4>1 DEF Owned!Passed
      <4>3. /\ ms \in Owned!Rosters /\ from \in Owned!Range(ms) /\ to \notin Owned!Range(ms)
            /\ \A i \in DOMAIN ownedNotices : ownedNotices[i].scope = s => ownedNotices[i].owner \in Owned!Range(ms)
        BY <2>1, <2>2, <2>3, <4>1
      <4>4. /\ ownedGroups' \in [Shared -> GroupRows \cup {NoGroup}]
            /\ ownedGroups'[s] \in GroupRows /\ \A t \in Shared : t # s => ownedGroups'[t] = ownedGroups[t]
            /\ Owned!Range(ownedGroups'[s].members) = (Owned!Range(ms) \ {from}) \cup {to}
            /\ ownedNotices' \in Seq(NoticeRows) /\ DOMAIN ownedNotices' = DOMAIN ownedNotices
            /\ \A i \in DOMAIN ownedNotices :
                  /\ ownedNotices'[i].scope = ownedNotices[i].scope /\ ownedNotices'[i].version = ownedNotices[i].version
                  /\ ownedNotices[i].scope = s => ownedNotices'[i].owner \in (Owned!Range(ms) \ {from}) \cup {to}
                  /\ ownedNotices[i].scope # s => ownedNotices'[i].owner = ownedNotices[i].owner
        BY <2>2, <4>2, <4>3, PassedFacts
      <4> QED BY <4>1, <4>4
    <3> HIDE DEF e
    <3> QED BY <2>1, <2>2, <2>4, <3>1 DEF Owned!Members
  <2>6. CASE u # Admin
    <3>1. ownedGroups'[s] = e /\ \A t \in Shared : t # s => ownedGroups'[t] = ownedGroups[t]
      BY <2>1, <2>6 DEF OwnersInv, OwnedTypes
    <3> HIDE DEF e
    <3> QED BY <2>2, <2>4, <3>1 DEF Owned!Members
  <2> QED BY <2>5, <2>6
<1>4. ASSUME NEW a, Owned!Accept(a)
      PROVE  Newcomers /\ \A b \in DOMAIN ownedBatches :
                 ownedBatches'[b].status = "accepted" /\ ownedBatches[b].status = "pending" => PassedWhole(b)
  <2>1. ownedBatches' = [ownedBatches EXCEPT ![a].status = "accepted"]
    BY <1>4 DEF Owned!Accept
  <2>2. \A b \in DOMAIN ownedBatches : b # a => ownedBatches'[b] = ownedBatches[b]
    BY <2>1
  <2>3. PICK s, from, to :
           /\ s \in Shared /\ s = ownedBatches[a].scope /\ from = ownedBatches[a].from /\ to = ownedBatches[a].to
           /\ Owned!Snapshot(s)' = ownedBatches[a].snapshot
           /\ \A t \in Shared : t # s => ownedGroups'[t] = ownedGroups[t]
           /\ Owned!Range(ownedGroups'[s].members) = (Owned!Members(s) \ {from}) \cup {to}
           /\ Owned!MaySay(to, s)
    BY <1>4, AcceptKeeps
  <2>4. Newcomers
    BY <2>3 DEF Owned!Members
  <2>5. Owned!Snapshot(s)' = {<<i, ownedNotices'[i].version>> : i \in {j \in DOMAIN ownedNotices' : ownedNotices'[j].scope = s}}
    BY DEF Owned!Snapshot, Owned!Rows
  <2>6. PassedWhole(a)
    BY <2>3, <2>5 DEF PassedWhole
  <2> QED BY <2>2, <2>4, <2>6
<1>5. Owned!Next \/ UNCHANGED Owned!ownerVars
  OBVIOUS
<1>6. ASSUME NEW p \in Publishers, NEW s \in Shared,
             Owned!Create(p, s) \/ Owned!Grants(p, s) \/ \E i \in 1..MaxNotices : Owned!Revise(p, i, s)
      PROVE  Newcomers /\ NoneAccepted
  BY <1>1, <1>6 DEF Owned!Create, Owned!Grants, Owned!Revise
<1>7. ASSUME NEW u, NEW to \in Publishers, NEW s \in Shared, NEW from, Owned!HandOver(u, s, from, to) PROVE Newcomers /\ NoneAccepted
  BY <1>3, <1>7 DEF Owned!HandOver
<1>8. ASSUME NEW u, NEW to \in Publishers, NEW i \in 1..MaxNotices, Owned!HandOne(u, i, to) PROVE Newcomers /\ NoneAccepted
  <2>1. i \in DOMAIN ownedNotices /\ ownedNotices[i].scope \in Shared
    BY <1>8, NoticeFacts DEF Owned!HandOne
  <2>2. \E from : Owned!Start(u, ownedNotices[i].scope, from, to)
    BY <1>8 DEF Owned!HandOne
  <2> QED BY <1>3, <2>1, <2>2
<1>9. ASSUME UNCHANGED Owned!ownerVars PROVE Newcomers /\ NoneAccepted
  BY <1>1, <1>9 DEF Owned!ownerVars
<1> HIDE DEF Newcomers, NoneAccepted
<1>10. (\E a \in 1..MaxBatches : Owned!Accept(a)) \/ (Newcomers /\ NoneAccepted)
  <2>1. ASSUME Owned!Next PROVE (\E a \in 1..MaxBatches : Owned!Accept(a)) \/ (Newcomers /\ NoneAccepted)
    <3>1. CASE \E p \in Publishers, s \in Shared :
                  Owned!Create(p, s) \/ Owned!Grants(p, s) \/ \E i \in 1..MaxNotices : Owned!Revise(p, i, s)
      BY <1>6, <3>1
    <3>2. CASE \E s \in Shared, ms \in Owned!Rosters : Owned!Share(s, ms)
      BY <1>2, <3>2
    <3>3. CASE \E u \in Publishers \cup {Admin}, to \in Publishers :
                  \/ \E s \in Shared, from \in Publishers : Owned!HandOver(u, s, from, to)
                  \/ \E i \in 1..MaxNotices : Owned!HandOne(u, i, to)
      BY <1>7, <1>8, <3>3
    <3>4. CASE \E a \in 1..MaxBatches : Owned!Accept(a)
      BY <3>4
    <3> QED BY <2>1, <3>1, <3>2, <3>3, <3>4, Zenon DEF Owned!Next
  <2> QED BY <1>5, <1>9, <2>1
<1>11. NoneAccepted => \A b \in DOMAIN ownedBatches :
          ownedBatches'[b].status = "accepted" /\ ownedBatches[b].status = "pending" => PassedWhole(b)
  BY DEF NoneAccepted
<1>12. CASE Newcomers /\ NoneAccepted
  BY <1>11, <1>12 DEF Newcomers
<1>13. ASSUME NEW a, Owned!Accept(a) PROVE Newcomers /\ \A b \in DOMAIN ownedBatches :
                 ownedBatches'[b].status = "accepted" /\ ownedBatches[b].status = "pending" => PassedWhole(b)
  BY <1>4, <1>13
<1> QED BY <1>10, <1>12, <1>13 DEF Newcomers

-----------------------------------------------------------------------------
(* Absences and attendance. *)

\* Days a person is off; in a sick leave they are of one month.
SickRows == {r \in [id : Nat, emp : Employees, from : Days, to : Days, source : {"proof", "single", "import"}] :
                r.from <= r.to /\ MonthOf[r.from] = MonthOf[r.to]}
LoaRows == {p \in [emp : Employees, from : Days, to : Days \cup {Leave!Open}] : p.from <= p.to}
ScoreRows == [eligible : BOOLEAN, days : Int]
FileDays == Employees \X {d \in Days : MonthOf[d] = Leave!ImportMonth}
Uploads == {u \in [emp : Employees, from : Days, to : Days] : u.from <= u.to /\ MonthOf[u.from] = MonthOf[u.to]}
PreviewRows == [matched : SUBSET FileDays, protected : SUBSET FileDays, seen : SUBSET SickRows,
                same : BOOLEAN, committing : BOOLEAN]
Reading == [pc : {"sick", "insert"}, emp : Employees, month : Leave!Months, rows : SUBSET SickRows, value : ScoreRows]

LeaveTypes ==
    /\ leaveSick \subseteq SickRows /\ leaveLastId \in Nat /\ \A r \in leaveSick : r.id <= leaveLastId
    /\ leaveLoa \subseteq LoaRows
    /\ leaveScore \in [Employees -> [Leave!Months -> ScoreRows]]
    /\ leaveUpload \in [Clerks -> SUBSET Uploads]
    /\ leaveReader \in Reading \cup {Leave!Quiet}
    /\ leavePreview \in [Previews -> SUBSET PreviewRows]

\* What a reader has read is of use as long as nobody else filled in the row.
ReaderCurrent(sick, loa, score, reader) ==
    (reader.pc \in {"sick", "insert"} /\ score[reader.emp][reader.month] = Leave!Missing
        /\ reader.month <= MonthOf[Today]) =>
      IF reader.pc = "sick"
      THEN Leave!SickDays(reader.rows, reader.emp, reader.month) = Leave!SickDays(sick, reader.emp, reader.month)
      ELSE reader.value = Leave!Attendance(sick, loa, reader.emp, reader.month)

LeaveInv ==
    /\ LeaveTypes
    /\ ReaderCurrent(leaveSick, leaveLoa, leaveScore, leaveReader)
    /\ Leave!AttendanceTrue

LEMMA SameSize == \A S : Leave!Cardinality(S) = Cardinality(S) /\ (Leave!IsFiniteSet(S) <=> IsFiniteSet(S))
  BY DEF Leave!Cardinality, Cardinality, Leave!IsFiniteSet, IsFiniteSet

LEMMA LeastOf ==
    ASSUME NEW T, T \subseteq Nat, T # {}
    PROVE  \E x \in T : \A y \in T : x <= y
<1>1. PICK x \in T : \A y \in T : ~ (<<y, x>> \in OpToRel(<, Nat))
  BY NatLessThanWellFounded, WFMin, Zenon
<1>2. \A y \in T : ~(y < x)
  BY <1>1 DEF OpToRel
<1>3. x \in Nat /\ \A y \in T : y \in Nat
  OBVIOUS
<1> QED
  BY <1>2, <1>3

LEMMA Greatest ==
    ASSUME NEW S, IsFiniteSet(S), S \subseteq Nat, S # {}
    PROVE  Leave!Max(S) \in S /\ \A y \in S : Leave!Max(S) >= y
<1> DEFINE Above(x) == {y \in S : y > x}
           T == {Cardinality(Above(x)) : x \in S}
<1>1. \A x \in S : IsFiniteSet(Above(x)) /\ Cardinality(Above(x)) \in Nat
  <2> TAKE x \in S
  <2>1. Above(x) \in SUBSET S
    OBVIOUS
  <2> HIDE DEF Above
  <2> QED BY <2>1, FS_Subset, FS_CardinalityType
<1>2. T \subseteq Nat /\ T # {}
  BY <1>1
<1>3. PICK n \in T : \A k \in T : n <= k
  BY <1>2, LeastOf
<1>4. PICK x \in S : n = Cardinality(Above(x))
  BY <1>3
<1>5. ASSUME NEW y \in S, y > x PROVE FALSE
  <2>0. x \in Nat /\ y \in Nat /\ \A z \in S : z \in Nat
    OBVIOUS
  <2>1. Above(y) \in SUBSET Above(x) /\ y \in Above(x) /\ y \notin Above(y)
    <3>1. \A z \in S : z > y => z > x
      BY <1>5, <2>0
    <3>2. ~(y > y)
      BY <2>0
    <3> QED BY <1>5, <3>1, <3>2
  <2>2. Cardinality(Above(y)) \in T
    BY <1>5
  <2>3. Above(y) # Above(x)
    BY <2>1
  <2> HIDE DEF Above, T
  <2>4. Cardinality(Above(y)) < Cardinality(Above(x))
    BY <1>1, <2>1, <2>3, <1>5, FS_Subset
  <2> QED BY <1>1, <1>3, <1>4, <1>5, <2>2, <2>4
<1>6. \A y \in S : x >= y
  BY <1>5
<1> QED BY <1>6 DEF Leave!Max

LEMMA Dates ==
    /\ Leave!Open \in Nat /\ Leave!Open \notin Days /\ \A d \in Days : d < Leave!Open
    /\ IsFiniteSet(Leave!Months) /\ Leave!Months \subseteq Nat /\ MonthOf[Today] \in Leave!Months
    /\ \A d \in Days : d \in Nat /\ MonthOf[d] \in Leave!Months
<1>1. Days # {} /\ Days \subseteq Nat /\ IsFiniteSet(Days) /\ MonthOf \in [Days -> Nat] /\ Today \in Days
  BY LeaveAssumption
<1>2. Leave!Max(Days) \in Days /\ \A d \in Days : Leave!Max(Days) >= d
  BY <1>1, Greatest
<1>3. Leave!Open = 1 + Leave!Max(Days)
  BY DEF Leave!Open
<1>4. Leave!Open \in Nat /\ \A d \in Days : d \in Nat /\ d < Leave!Open
  <2>1. PICK last : last = Leave!Max(Days)
    OBVIOUS
  <2>2. last \in Nat /\ Leave!Open = 1 + last /\ \A d \in Days : d \in Nat /\ last >= d
    BY <1>1, <1>2, <1>3, <2>1
  <2> QED BY <2>2
<1>5. IsFiniteSet(Leave!Months)
  <2>1. MonthOf \in [Days -> {MonthOf[d] : d \in Days}]
    BY <1>1
  <2> QED BY <1>1, <2>1, ImageFinite DEF Leave!Months
<1>6. Leave!Open \notin Days
  BY <1>4
<1>7. Leave!Months \subseteq Nat /\ \A d \in Days : MonthOf[d] \in Leave!Months
  BY <1>1 DEF Leave!Months
<1> QED BY <1>1, <1>4, <1>5, <1>6, <1>7

LEMMA HorizonReached ==
    ASSUME NEW e, NEW dates, dates \subseteq Days \cup {Leave!Open}
    PROVE  Leave!Horizon(e, dates) \in Nat /\ Leave!Horizon(e, dates) >= MonthOf[Today]
<1> DEFINE S == {MonthOf[Today]} \cup {MonthOf[d] : d \in dates \ {Leave!Open}}
                   \cup {m \in Leave!Months : leaveScore[e][m] # Leave!Missing}
<1>1. S \in SUBSET Leave!Months /\ MonthOf[Today] \in S
  BY Dates
<1>2. Leave!Horizon(e, dates) = Leave!Max(S)
  BY DEF Leave!Horizon
<1> HIDE DEF S
<1>3. IsFiniteSet(S) /\ S \subseteq Nat /\ S # {}
  BY <1>1, Dates, FS_Subset
<1> QED BY <1>1, <1>2, <1>3, Greatest

\* Up to this month, the months an exclusion covers are those with a day of it.
Off(p, m) == \E d \in Days : MonthOf[d] = m /\ p.from <= d /\ d <= p.to

LEMMA ExcludedAreOff ==
    ASSUME NEW p \in LoaRows, NEW m \in Leave!Months, m <= MonthOf[Today], NEW h \in Nat, h >= MonthOf[Today]
    PROVE  m \in Leave!Excluded(p.from, p.to, h) <=> Off(p, m)
<1>1. /\ p.from \in Days /\ p.to \in Days \cup {Leave!Open} /\ p.from <= p.to
      /\ \A d \in Days : d \in Nat /\ d < Leave!Open /\ MonthOf[d] \in Nat
      /\ \A d, c \in Days : d <= c => MonthOf[d] <= MonthOf[c]
      /\ m \in Nat /\ Leave!Open \notin Days /\ Leave!Open \in Nat /\ MonthOf[Today] \in Nat
  BY Dates, LeaveAssumption DEF LoaRows
<1>2. PICK c \in Days : MonthOf[c] = m
  BY DEF Leave!Months
<1>3. m \in Leave!Excluded(p.from, p.to, h) <=>
         MonthOf[p.from] <= m /\ m <= (IF p.to = Leave!Open THEN h ELSE MonthOf[p.to])
  BY DEF Leave!Excluded
<1>4. ASSUME Off(p, m) PROVE MonthOf[p.from] <= m /\ m <= (IF p.to = Leave!Open THEN h ELSE MonthOf[p.to])
  <2>1. PICK d \in Days : MonthOf[d] = m /\ p.from <= d /\ d <= p.to
    BY <1>4 DEF Off
  <2> QED BY <1>1, <2>1
<1>5. ASSUME MonthOf[p.from] <= m, m <= (IF p.to = Leave!Open THEN h ELSE MonthOf[p.to]) PROVE Off(p, m)
  <2>1. CASE MonthOf[p.from] = m
    BY <1>1, <2>1 DEF Off
  <2>2. CASE p.to \in Days /\ MonthOf[p.to] = m
    BY <1>1, <2>2 DEF Off
  <2>3. CASE MonthOf[p.from] # m /\ ~(p.to \in Days /\ MonthOf[p.to] = m)
    <3>1. p.from <= c
      BY <1>1, <1>2, <1>5, <2>3
    <3>2. c <= p.to
      BY <1>1, <1>2, <1>5, <2>3
    <3> QED BY <1>2, <3>1, <3>2 DEF Off
  <2> QED BY <2>1, <2>2, <2>3
<1> QED BY <1>3, <1>4, <1>5

LEMMA TouchedBy ==
    \A periods, e, m : Leave!Touched(periods, e, m) <=> \E p \in periods : p.emp = e /\ Off(p, m)
  BY DEF Leave!Touched, Off

\* The months a change leaves out are off as they were.
LEMMA UnchangedMonths ==
    ASSUME LeaveTypes, NEW e \in Employees, NEW h \in Nat, h >= MonthOf[Today],
           NEW m \in Leave!Months, m <= MonthOf[Today],
           NEW gone \in SUBSET {p \in LoaRows : p.emp = e}, gone \subseteq leaveLoa,
           NEW come \in SUBSET {p \in LoaRows : p.emp = e},
           NEW before, NEW after, NEW ignored,
           before = UNION {Leave!Excluded(p.from, p.to, h) : p \in gone},
           after = UNION {Leave!Excluded(p.from, p.to, h) : p \in come},
           ignored = gone,
           m \notin Leave!Changed(e, h, before, after, ignored)
    PROVE  Leave!Touched((leaveLoa \ gone) \cup come, e, m) <=> Leave!Touched(leaveLoa, e, m)
<1> DEFINE others == UNION {Leave!Excluded(p.from, p.to, h) : p \in {x \in leaveLoa : x.emp = e /\ x \notin ignored}}
<1>1. m \in before \cup others <=> m \in after \cup others
  BY DEF Leave!Changed
<1>2. m \in others <=> \E p \in leaveLoa : p.emp = e /\ p \notin gone /\ Off(p, m)
  <2>1. m \in others <=> \E p \in leaveLoa : p.emp = e /\ p \notin gone /\ m \in Leave!Excluded(p.from, p.to, h)
    OBVIOUS
  <2>2. \A p \in leaveLoa : m \in Leave!Excluded(p.from, p.to, h) <=> Off(p, m)
    BY ExcludedAreOff DEF LeaveTypes
  <2> QED BY <2>1, <2>2
<1>3. m \in before <=> \E p \in gone : Off(p, m)
  <2>1. \A p \in gone : m \in Leave!Excluded(p.from, p.to, h) <=> Off(p, m)
    BY ExcludedAreOff
  <2> QED BY <2>1
<1>4. m \in after <=> \E p \in come : Off(p, m)
  <2>1. \A p \in come : m \in Leave!Excluded(p.from, p.to, h) <=> Off(p, m)
    BY ExcludedAreOff
  <2> QED BY <2>1
<1> HIDE DEF others
<1>5. Leave!Touched(leaveLoa, e, m) <=> m \in before \cup others
  BY <1>2, <1>3, TouchedBy
<1>6. Leave!Touched((leaveLoa \ gone) \cup come, e, m) <=> m \in after \cup others
  BY <1>2, <1>4, TouchedBy
<1> QED BY <1>1, <1>5, <1>6

-----------------------------------------------------------------------------
\* The rows of a month count the days off in it.
LEMMA Counted ==
    ASSUME NEW taken, NEW periods, NEW e, NEW m
    PROVE  Leave!Attendance(taken, periods, e, m) \in ScoreRows /\ Leave!Attendance(taken, periods, e, m) # Leave!Missing
<1> DEFINE S == Leave!SickDays(taken, e, m)
<1>1. S \in SUBSET Days
  BY DEF Leave!SickDays
<1>2. IsFiniteSet(S) /\ Cardinality(S) \in Nat
  BY <1>1, LeaveAssumption, FS_Subset, FS_CardinalityType
<1> HIDE DEF S
<1>3. Leave!Attendance(taken, periods, e, m) \in
        {[eligible |-> FALSE, days |-> 0], [eligible |-> TRUE, days |-> Cardinality(S)]}
  BY SameSize DEF Leave!Attendance, S
<1>4. PICK n \in Nat : n = Cardinality(S)
  BY <1>2
<1> DEFINE none == [eligible |-> FALSE, days |-> 0]
           some == [eligible |-> TRUE, days |-> n]
<1>5. Leave!Attendance(taken, periods, e, m) = none \/ Leave!Attendance(taken, periods, e, m) = some
  BY <1>3, <1>4
<1>6. none \in ScoreRows /\ some \in ScoreRows /\ none.days = 0 /\ some.days = n
  BY <1>4 DEF ScoreRows
<1>7. Leave!Missing.days = -1
  BY DEF Leave!Missing
<1> HIDE DEF none, some
<1>8. none # Leave!Missing /\ some # Leave!Missing
  BY <1>4, <1>6, <1>7
<1> QED BY <1>5, <1>6, <1>8

LEMMA Rescored ==
    ASSUME LeaveTypes, NEW taken, NEW periods, NEW who, NEW s, s = Leave!Recalculated(taken, periods, who)
    PROVE  /\ s \in [Employees -> [Leave!Months -> ScoreRows]]
           /\ \A e \in Employees, m \in Leave!Months :
                 s[e][m] = IF <<e, m>> \in who THEN Leave!Attendance(taken, periods, e, m) ELSE leaveScore[e][m]
<1> DEFINE V(e, m) == IF <<e, m>> \in who THEN Leave!Attendance(taken, periods, e, m) ELSE leaveScore[e][m]
<1>1. s = [e \in Employees |-> [m \in Leave!Months |-> V(e, m)]]
  BY DEF Leave!Recalculated
<1>2. \A e \in Employees, m \in Leave!Months : V(e, m) \in ScoreRows
  BY Counted DEF LeaveTypes
<1> HIDE DEF V
<1>3. \A e \in Employees, m \in Leave!Months : s[e][m] = V(e, m)
  BY <1>1
<1>4. s \in [Employees -> [Leave!Months -> ScoreRows]]
  BY <1>1, <1>2
<1> QED BY <1>3, <1>4 DEF V

\* Outside the rows named, a change of absences makes no difference up to this month.
SameOutside(taken, periods, who) ==
    \A e \in Employees, m \in Leave!Months : m <= MonthOf[Today] /\ <<e, m>> \notin who =>
        /\ Leave!SickDays(taken, e, m) = Leave!SickDays(leaveSick, e, m)
        /\ Leave!Touched(periods, e, m) <=> Leave!Touched(leaveLoa, e, m)

\* Whoever changes absences recomputes the rows they tell.
LEMMA Recomputed ==
    ASSUME LeaveInv, NEW taken, NEW periods, NEW who, leaveSick' = taken, leaveLoa' = periods,
           leaveScore' = Leave!Recalculated(taken, periods, who), UNCHANGED leaveReader,
           SameOutside(taken, periods, who)
    PROVE  /\ leaveScore' \in [Employees -> [Leave!Months -> ScoreRows]]
           /\ leaveReader' \in Reading \cup {Leave!Quiet}
           /\ ReaderCurrent(leaveSick, leaveLoa, leaveScore, leaveReader)'
           /\ Leave!AttendanceCurrent'
<1>1. /\ leaveScore' \in [Employees -> [Leave!Months -> ScoreRows]]
      /\ \A e \in Employees, m \in Leave!Months :
            leaveScore'[e][m] = IF <<e, m>> \in who THEN Leave!Attendance(taken, periods, e, m) ELSE leaveScore[e][m]
  BY Rescored DEF LeaveInv
<1>2. \A e \in Employees, m \in Leave!Months : m <= MonthOf[Today] /\ <<e, m>> \notin who =>
         /\ leaveScore'[e][m] = leaveScore[e][m]
         /\ Leave!Attendance(taken, periods, e, m) = Leave!Attendance(leaveSick, leaveLoa, e, m)
  BY <1>1 DEF Leave!Attendance, SameOutside
<1>3. \A e \in Employees, m \in Leave!Months : m <= MonthOf[Today] /\ leaveScore'[e][m] # Leave!Missing =>
         leaveScore'[e][m] = Leave!Attendance(taken, periods, e, m)
  BY <1>1, <1>2 DEF LeaveInv, Leave!AttendanceTrue, Leave!AttendanceCurrent
<1>4. Leave!AttendanceCurrent'
  BY <1>3 DEF Leave!AttendanceCurrent
<1>5. ReaderCurrent(taken, periods, leaveScore', leaveReader)
  <2> SUFFICES ASSUME leaveReader.pc \in {"sick", "insert"},
                      leaveScore'[leaveReader.emp][leaveReader.month] = Leave!Missing,
                      leaveReader.month <= MonthOf[Today]
               PROVE  IF leaveReader.pc = "sick"
                      THEN Leave!SickDays(leaveReader.rows, leaveReader.emp, leaveReader.month) =
                             Leave!SickDays(taken, leaveReader.emp, leaveReader.month)
                      ELSE leaveReader.value = Leave!Attendance(taken, periods, leaveReader.emp, leaveReader.month)
    BY DEF ReaderCurrent
  <2>1. PICK e, m : e = leaveReader.emp /\ m = leaveReader.month
    OBVIOUS
  <2>2. e \in Employees /\ m \in Leave!Months
    <3>1. leaveReader \in Reading
      BY DEF LeaveInv, LeaveTypes, Leave!Quiet
    <3> QED BY <2>1, <3>1 DEF Reading
  <2>3. <<e, m>> \notin who
    BY <1>1, <2>1, <2>2, Counted
  <2>4. leaveScore[e][m] = Leave!Missing
    BY <1>2, <2>1, <2>2, <2>3
  <2>5. /\ Leave!SickDays(taken, e, m) = Leave!SickDays(leaveSick, e, m)
        /\ Leave!Attendance(taken, periods, e, m) = Leave!Attendance(leaveSick, leaveLoa, e, m)
    BY <1>2, <2>1, <2>2, <2>3 DEF SameOutside
  <2>6. IF leaveReader.pc = "sick"
        THEN Leave!SickDays(leaveReader.rows, e, m) = Leave!SickDays(leaveSick, e, m)
        ELSE leaveReader.value = Leave!Attendance(leaveSick, leaveLoa, e, m)
    BY <2>1, <2>4 DEF LeaveInv, ReaderCurrent
  <2> QED BY <2>1, <2>5, <2>6
<1> QED BY <1>1, <1>4, <1>5 DEF LeaveInv, LeaveTypes, ReaderCurrent

\* A sick leave is told by the row of its one month.
LEMMA OneMonth ==
    ASSUME NEW r \in SickRows, NEW e, NEW m, NEW d \in Days, r.from <= d, d <= r.to, MonthOf[d] = m
    PROVE  m = MonthOf[r.from]
<1>1. r.from \in Days /\ r.to \in Days /\ MonthOf[r.from] = MonthOf[r.to]
  BY DEF SickRows
<1>2. MonthOf[r.from] <= MonthOf[d] /\ MonthOf[d] <= MonthOf[r.to]
      /\ MonthOf[r.from] \in Nat /\ MonthOf[d] \in Nat
  BY <1>1, LeaveAssumption
<1> QED BY <1>1, <1>2

LEMMA OtherRows ==
    ASSUME NEW old \in SUBSET SickRows, NEW new \in SUBSET SickRows, NEW e, NEW m,
           \A r \in SickRows : r.emp = e /\ MonthOf[r.from] = m => (r \in old <=> r \in new)
    PROVE  Leave!SickDays(new, e, m) = Leave!SickDays(old, e, m)
<1>1. ASSUME NEW d \in Days, MonthOf[d] = m, NEW r \in SickRows, r.emp = e, r.from <= d, d <= r.to
      PROVE  r \in old <=> r \in new
  BY <1>1, OneMonth
<1>2. \A d \in Days : MonthOf[d] = m =>
         ((\E r \in new : r.emp = e /\ r.from <= d /\ d <= r.to) <=> (\E r \in old : r.emp = e /\ r.from <= d /\ d <= r.to))
  BY <1>1
<1> QED BY <1>2 DEF Leave!SickDays

LEMMA LeaveBegins == Leave!Init => LeaveInv
<1> SUFFICES ASSUME Leave!Init PROVE LeaveInv
  OBVIOUS
<1>1. leaveScore \in [Employees -> [Leave!Months -> ScoreRows]]
      /\ \A e \in Employees, m \in Leave!Months : leaveScore[e][m] = Leave!Missing
  <2>1. Leave!Missing \in ScoreRows
    BY DEF Leave!Missing, ScoreRows
  <2> HIDE DEF Leave!Missing
  <2> QED BY <2>1 DEF Leave!Init
<1>2. LeaveTypes
  BY <1>1 DEF Leave!Init, LeaveTypes, Leave!Nothing
<1>3. Leave!AttendanceTrue
  BY <1>1 DEF Leave!AttendanceTrue, Leave!AttendanceCurrent, Leave!DatesApart, Leave!Init
<1>4. ReaderCurrent(leaveSick, leaveLoa, leaveScore, leaveReader)
  BY DEF Leave!Init, ReaderCurrent, Leave!Quiet
<1> QED BY <1>2, <1>3, <1>4 DEF LeaveInv

\* A new registration, with or without an upload.
LEMMA Registered ==
    ASSUME LeaveInv, NEW u \in Uploads, NEW source \in {"proof", "single"},
           leaveSick' = leaveSick \cup {Leave!Row(u.emp, u.from, u.to, source)},
           leaveScore' = Leave!Recalculated(leaveSick', leaveLoa, {<<u.emp, MonthOf[u.from]>>}),
           leaveLastId' = leaveLastId + 1, UNCHANGED <<leaveLoa, leaveReader, leavePreview>>,
           leaveUpload' \in [Clerks -> SUBSET Uploads],
           source = "single" => \A r \in leaveSick : r.emp = u.emp => ~Leave!Meets(r, u.from, u.to)
    PROVE  LeaveInv'
<1> DEFINE row == Leave!Row(u.emp, u.from, u.to, source)
           who == {<<u.emp, MonthOf[u.from]>>}
           new == leaveSick \cup {row}
<1>1. /\ row \in SickRows /\ row.id = leaveLastId + 1 /\ row.emp = u.emp /\ row.from = u.from /\ row.to = u.to
      /\ row.source = source
  BY DEF LeaveInv, LeaveTypes, Uploads, Leave!Row, SickRows
<1> HIDE DEF row
<1>2. leaveSick \in SUBSET SickRows /\ new \in SUBSET SickRows
  BY <1>1 DEF LeaveInv, LeaveTypes
<1>3. \A e \in Employees, m \in Leave!Months : <<e, m>> \notin who =>
         Leave!SickDays(new, e, m) = Leave!SickDays(leaveSick, e, m)
  BY <1>1, <1>2, OtherRows
<1>4. /\ leaveScore' \in [Employees -> [Leave!Months -> ScoreRows]]
      /\ leaveReader' \in Reading \cup {Leave!Quiet}
      /\ ReaderCurrent(leaveSick, leaveLoa, leaveScore, leaveReader)'
      /\ Leave!AttendanceCurrent'
  <2>1. PICK taken, periods, touched : taken = new /\ periods = leaveLoa /\ touched = who
    OBVIOUS
  <2>2. leaveSick' = taken /\ leaveLoa' = periods /\ leaveScore' = Leave!Recalculated(taken, periods, touched)
    BY <2>1 DEF row
  <2>3. SameOutside(taken, periods, touched)
    BY <1>3, <2>1 DEF SameOutside
  <2> QED BY <2>2, <2>3, Recomputed
<1>5. LeaveTypes'
  <2>1. leaveSick' = new
    BY DEF row
  <2>2. \A r \in new : r.id <= leaveLastId + 1
    BY <1>1, <1>2 DEF LeaveInv, LeaveTypes, SickRows
  <2>3. /\ leaveSick' \subseteq SickRows /\ leaveLastId' \in Nat /\ \A r \in leaveSick' : r.id <= leaveLastId'
        /\ leaveLoa' \subseteq LoaRows
    BY <1>2, <2>1, <2>2 DEF LeaveInv, LeaveTypes
  <2>4. leavePreview' \in [Previews -> SUBSET PreviewRows]
    BY DEF LeaveInv, LeaveTypes
  <2> QED BY <1>4, <2>3, <2>4 DEF LeaveTypes
<1>6. Leave!DatesApart'
  <2>1. leaveSick' = new /\ leaveLoa' = leaveLoa
    BY DEF row
  <2>2. ASSUME NEW r \in leaveSick, source = "single", r.emp = row.emp
        PROVE  ~Leave!Meets(r, row.from, row.to) /\ ~Leave!Meets(row, r.from, r.to)
    <3>1. r.from \in Nat /\ r.to \in Nat /\ row.from \in Nat /\ row.to \in Nat
      BY <1>1, <1>2, Dates DEF SickRows
    <3> QED BY <1>1, <2>2, <3>1 DEF Leave!Meets
  <2>3. \A r, s \in new : r # s /\ r.emp = s.emp /\ Leave!Meets(r, s.from, s.to) => "proof" \in {r.source, s.source}
    BY <1>1, <2>2 DEF LeaveInv, Leave!AttendanceTrue, Leave!DatesApart
  <2> QED BY <2>1, <2>3 DEF LeaveInv, Leave!AttendanceTrue, Leave!DatesApart, Leave!Meets
<1> QED BY <1>4, <1>5, <1>6 DEF LeaveInv, Leave!AttendanceTrue

LEMMA RegistrationKeeps ==
    /\ LeaveInv /\ (\E c \in Clerks : Leave!StartUpload(c) \/ Leave!EndUpload(c)) => LeaveInv'
    /\ LeaveInv /\ Leave!Single => LeaveInv'
<1>0. \A e \in Employees, s \in Leave!Spans :
         [emp |-> e, from |-> s[1], to |-> s[2]] \in Uploads
  BY DEF Leave!Spans, Uploads
<1>1. ASSUME LeaveInv, NEW c \in Clerks, Leave!StartUpload(c) PROVE LeaveInv'
  <2>1. PICK u \in Uploads : leaveUpload' = [leaveUpload EXCEPT ![c] = {u}]
    BY <1>0, <1>1 DEF Leave!StartUpload
  <2>2. UNCHANGED <<leaveSick, leaveLastId, leaveLoa, leaveScore, leaveReader, leavePreview>>
    BY <1>1 DEF Leave!StartUpload
  <2>3. leaveUpload' \in [Clerks -> SUBSET Uploads]
    BY <1>1, <2>1 DEF LeaveInv, LeaveTypes
  <2>4. LeaveTypes'
    BY <1>1, <2>2, <2>3 DEF LeaveInv, LeaveTypes
  <2> QED BY <1>1, <2>2, <2>4 DEF LeaveInv, ReaderCurrent, Leave!AttendanceTrue, Leave!AttendanceCurrent,
            Leave!DatesApart
<1>2. ASSUME LeaveInv, NEW c \in Clerks, Leave!EndUpload(c) PROVE LeaveInv'
  <2>1. leaveUpload' \in [Clerks -> SUBSET Uploads] /\ UNCHANGED <<leaveLoa, leaveReader, leavePreview>>
    <3>1. leaveUpload' = [leaveUpload EXCEPT ![c] = {}]
      BY <1>2 DEF Leave!EndUpload, Leave!Nothing
    <3> QED BY <1>2, <3>1 DEF LeaveInv, LeaveTypes, Leave!EndUpload
  <2>2. CASE UNCHANGED <<leaveSick, leaveLastId, leaveScore>>
    <3>1. LeaveTypes'
      BY <1>2, <2>1, <2>2 DEF LeaveInv, LeaveTypes
    <3> QED BY <1>2, <2>1, <2>2, <3>1 DEF LeaveInv, ReaderCurrent, Leave!AttendanceTrue, Leave!AttendanceCurrent,
              Leave!DatesApart
  <2>3. ASSUME NEW u \in leaveUpload[c],
               leaveSick' = leaveSick \cup {Leave!Row(u.emp, u.from, u.to, "proof")},
               leaveScore' = Leave!Recalculated(leaveSick', leaveLoa, {<<u.emp, MonthOf[u.from]>>}),
               leaveLastId' = leaveLastId + 1
        PROVE  LeaveInv'
    <3>1. u \in Uploads
      BY <1>2 DEF LeaveInv, LeaveTypes
    <3> QED BY <1>2, <2>1, <2>3, <3>1, Registered
  <2> QED BY <1>2, <2>2, <2>3 DEF Leave!EndUpload
<1>3. ASSUME LeaveInv, Leave!Single PROVE LeaveInv'
  <2>1. PICK e \in Employees, s \in Leave!Spans :
           /\ ~Leave!OverlapSeen(e, s[1], s[2])
           /\ leaveSick' = leaveSick \cup {Leave!Row(e, s[1], s[2], "single")}
           /\ leaveScore' = Leave!Recalculated(leaveSick', leaveLoa, {<<e, MonthOf[s[1]]>>})
    BY <1>3 DEF Leave!Single
  <2>2. leaveLastId' = leaveLastId + 1 /\ UNCHANGED <<leaveLoa, leaveUpload, leaveReader, leavePreview>>
    BY <1>3 DEF Leave!Single
  <2>3. PICK u \in Uploads : u.emp = e /\ u.from = s[1] /\ u.to = s[2]
    BY <1>0
  <2>4. \A r \in leaveSick : r.emp = u.emp => ~Leave!Meets(r, u.from, u.to)
    BY <2>1, <2>3 DEF Leave!OverlapSeen, Leave!Overlapping
  <2>5. leaveUpload' \in [Clerks -> SUBSET Uploads]
    BY <1>3, <2>2 DEF LeaveInv, LeaveTypes
  <2>6. /\ leaveSick' = leaveSick \cup {Leave!Row(u.emp, u.from, u.to, "single")}
        /\ leaveScore' = Leave!Recalculated(leaveSick', leaveLoa, {<<u.emp, MonthOf[u.from]>>})
    BY <2>1, <2>3
  <2> QED BY <1>3, <2>2, <2>4, <2>5, <2>6, Registered
<1> QED BY <1>1, <1>2, <1>3

LEMMA VoidKeeps == LeaveInv /\ Leave!VoidSick => LeaveInv'
<1> SUFFICES ASSUME LeaveInv, Leave!VoidSick PROVE LeaveInv'
  OBVIOUS
<1>1. PICK r \in leaveSick :
         /\ leaveSick' = leaveSick \ {r}
         /\ leaveScore' = Leave!Recalculated(leaveSick', leaveLoa, {<<r.emp, MonthOf[r.from]>>})
  BY DEF Leave!VoidSick
<1>2. UNCHANGED <<leaveLastId, leaveLoa, leaveUpload, leaveReader, leavePreview>>
  BY DEF Leave!VoidSick
<1>3. PICK taken, periods, who : taken = leaveSick \ {r} /\ periods = leaveLoa /\ who = {<<r.emp, MonthOf[r.from]>>}
  OBVIOUS
<1>4. taken \in SUBSET SickRows /\ leaveSick \in SUBSET SickRows
  BY <1>3 DEF LeaveInv, LeaveTypes
<1>5. \A e \in Employees, m \in Leave!Months : <<e, m>> \notin who =>
         Leave!SickDays(taken, e, m) = Leave!SickDays(leaveSick, e, m)
  BY <1>3, <1>4, OtherRows
<1>6. SameOutside(taken, periods, who)
  BY <1>3, <1>5 DEF SameOutside
<1>7. leaveSick' = taken /\ leaveLoa' = periods /\ leaveScore' = Leave!Recalculated(taken, periods, who)
  BY <1>1, <1>2, <1>3
<1>8. /\ leaveScore' \in [Employees -> [Leave!Months -> ScoreRows]]
      /\ leaveReader' \in Reading \cup {Leave!Quiet}
      /\ ReaderCurrent(leaveSick, leaveLoa, leaveScore, leaveReader)'
      /\ Leave!AttendanceCurrent'
  BY <1>2, <1>6, <1>7, Recomputed
<1>9. LeaveTypes'
  BY <1>1, <1>2, <1>8 DEF LeaveInv, LeaveTypes
<1>10. Leave!DatesApart'
  BY <1>1, <1>2 DEF LeaveInv, Leave!AttendanceTrue, Leave!DatesApart, Leave!Meets
<1> QED BY <1>8, <1>9, <1>10 DEF LeaveInv, Leave!AttendanceTrue

\* One period at most comes for those that go, and meets none that stays.
PeriodFor(e, gone, come) ==
    /\ gone \in SUBSET {p \in leaveLoa : p.emp = e} /\ come \in SUBSET {p \in LoaRows : p.emp = e}
    /\ \A p \in come : \A q \in leaveLoa \ gone : q.emp = e => ~Leave!Meets(q, p.from, p.to)
    /\ \A p, q \in come : p = q
AllExcluded(periods, h) == UNION {Leave!Excluded(p.from, p.to, h) : p \in periods}

\* A change of an employee's leave of absence.
LEMMA LeaveMoved ==
    ASSUME LeaveInv, NEW e \in Employees, NEW h \in Nat, h >= MonthOf[Today],
           NEW gone, NEW come, PeriodFor(e, gone, come), NEW before, NEW after,
           before = AllExcluded(gone, h), after = AllExcluded(come, h),
           leaveLoa' = (leaveLoa \ gone) \cup come,
           leaveScore' = Leave!Recalculated(leaveSick, leaveLoa', {e} \X Leave!Changed(e, h, before, after, gone)),
           UNCHANGED <<leaveSick, leaveLastId, leaveUpload, leaveReader, leavePreview>>
    PROVE  LeaveInv'
<1>0. /\ gone \in SUBSET {p \in leaveLoa : p.emp = e} /\ come \in SUBSET {p \in LoaRows : p.emp = e}
      /\ \A p \in come : \A q \in leaveLoa \ gone : q.emp = e => ~Leave!Meets(q, p.from, p.to)
      /\ \A p, q \in come : p = q
  BY DEF PeriodFor
<1>1. PICK taken, periods, who : taken = leaveSick /\ periods = (leaveLoa \ gone) \cup come
                                /\ who = {e} \X Leave!Changed(e, h, before, after, gone)
  OBVIOUS
<1>2. ASSUME NEW a \in Employees, NEW m \in Leave!Months, m <= MonthOf[Today], <<a, m>> \notin who
      PROVE  Leave!Touched(periods, a, m) <=> Leave!Touched(leaveLoa, a, m)
  <2>1. CASE a # e
    BY <1>0, <1>1, <2>1, TouchedBy
  <2>2. CASE a = e
    <3>1. m \notin Leave!Changed(e, h, before, after, gone)
      BY <1>1, <1>2, <2>2
    <3>2. gone \in SUBSET {p \in LoaRows : p.emp = e} /\ gone \subseteq leaveLoa /\ LeaveTypes
      BY <1>0 DEF LeaveInv, LeaveTypes
    <3> QED BY <1>0, <1>1, <1>2, <2>2, <3>1, <3>2, UnchangedMonths DEF AllExcluded
  <2> QED BY <2>1, <2>2
<1>3. SameOutside(taken, periods, who)
  BY <1>1, <1>2 DEF SameOutside
<1>4. leaveSick' = taken /\ leaveLoa' = periods /\ leaveScore' = Leave!Recalculated(taken, periods, who)
  BY <1>1
<1>5. /\ leaveScore' \in [Employees -> [Leave!Months -> ScoreRows]]
      /\ leaveReader' \in Reading \cup {Leave!Quiet}
      /\ ReaderCurrent(leaveSick, leaveLoa, leaveScore, leaveReader)'
      /\ Leave!AttendanceCurrent'
  BY <1>3, <1>4, Recomputed
<1>6. LeaveTypes'
  <2>1. leaveLoa' \subseteq LoaRows
    BY <1>0 DEF LeaveInv, LeaveTypes
  <2> QED BY <1>5, <2>1 DEF LeaveInv, LeaveTypes
<1>7. ASSUME NEW p \in leaveLoa', NEW q \in leaveLoa', p # q, p.emp = q.emp PROVE ~Leave!Meets(p, q.from, q.to)
  <2>1. CASE p \in leaveLoa /\ q \in leaveLoa
    BY <1>7, <2>1 DEF LeaveInv, Leave!AttendanceTrue, Leave!DatesApart
  <2>2. CASE q \in come
    BY <1>0, <1>7, <2>2
  <2>3. CASE p \in come
    <3>1. ~Leave!Meets(q, p.from, p.to)
      BY <1>0, <1>7, <2>3
    <3>2. p.from \in Nat /\ p.to \in Nat /\ q.from \in Nat /\ q.to \in Nat
      BY <1>6, Dates DEF LeaveTypes, LoaRows
    <3> QED BY <3>1, <3>2 DEF Leave!Meets
  <2> QED BY <2>1, <2>2, <2>3
<1>8. Leave!DatesApart'
  BY <1>7 DEF LeaveInv, Leave!AttendanceTrue, Leave!DatesApart, Leave!Meets
<1> QED BY <1>5, <1>6, <1>8 DEF LeaveInv, Leave!AttendanceTrue

LEMMA LoaKeeps ==
    ASSUME LeaveInv, NEW e \in Employees, Leave!CreateLoa(e) \/ Leave!CloseLoa(e) \/ Leave!CancelLoa(e)
    PROVE  LeaveInv'
<1>1. CASE Leave!CreateLoa(e)
  <2>1. PICK f \in Days, t \in Days \cup {Leave!Open} :
           /\ f <= t /\ ~Leave!Clashes(e, f, t, {})
           /\ leaveLoa' = leaveLoa \cup {[emp |-> e, from |-> f, to |-> t]}
           /\ leaveScore' = Leave!Recalculated(leaveSick, leaveLoa', {e} \X Leave!Changed(e, Leave!Horizon(e, {f, t}), {},
                                Leave!Excluded(f, t, Leave!Horizon(e, {f, t})), {}))
    BY <1>1 DEF Leave!CreateLoa
  <2>2. PICK h, p : h = Leave!Horizon(e, {f, t}) /\ p = [emp |-> e, from |-> f, to |-> t]
    OBVIOUS
  <2>3. h \in Nat /\ h >= MonthOf[Today]
    BY <2>2, HorizonReached
  <2>4. p \in LoaRows /\ p.emp = e /\ p.from = f /\ p.to = t
    BY <2>1, <2>2 DEF LoaRows
  <2>5. PICK gone, come, before, after :
           /\ gone = {} /\ come = {p}
           /\ before = AllExcluded(gone, h)
           /\ after = AllExcluded(come, h)
    OBVIOUS
  <2>6. before = {} /\ after = Leave!Excluded(f, t, h)
    BY <2>4, <2>5 DEF AllExcluded
  <2>7. /\ leaveLoa' = (leaveLoa \ gone) \cup come
        /\ leaveScore' = Leave!Recalculated(leaveSick, leaveLoa', {e} \X Leave!Changed(e, h, before, after, gone))
    BY <2>1, <2>2, <2>5, <2>6
  <2>8. \A x \in come : \A q \in leaveLoa \ gone : q.emp = e => ~Leave!Meets(q, x.from, x.to)
    BY <2>1, <2>4, <2>5 DEF Leave!Clashes
  <2>9. UNCHANGED <<leaveSick, leaveLastId, leaveUpload, leaveReader, leavePreview>>
    BY <1>1 DEF Leave!CreateLoa
  <2>10. PeriodFor(e, gone, come)
    BY <2>4, <2>5, <2>8 DEF PeriodFor
  <2> QED BY <2>3, <2>5, <2>7, <2>9, <2>10, LeaveMoved
<1>2. ASSUME NEW p \in leaveLoa, p.emp = e, p.to = Leave!Open, NEW t \in Days,
             NEW h, h = Leave!Horizon(e, {p.from, t}),
             NEW come, come = IF t < p.from THEN {} ELSE {[p EXCEPT !.to = t]},
             NEW after, after = IF t < p.from THEN {} ELSE Leave!Excluded(p.from, t, h),
             leaveLoa' = (leaveLoa \ {p}) \cup come,
             leaveScore' = Leave!Recalculated(leaveSick, leaveLoa',
                               {e} \X Leave!Changed(e, h, Leave!Excluded(p.from, Leave!Open, h), after, {p})),
             UNCHANGED <<leaveSick, leaveLastId, leaveUpload, leaveReader, leavePreview>>
      PROVE  LeaveInv'
  <2>1. p \in LoaRows
    BY <1>2 DEF LeaveInv, LeaveTypes
  <2>2. h \in Nat /\ h >= MonthOf[Today]
    BY <1>2, <2>1, HorizonReached DEF LoaRows
  <2>3. PICK c : c = [p EXCEPT !.to = t]
    OBVIOUS
  <2>4. c.emp = e /\ c.from = p.from /\ c.to = t /\ (~(t < p.from) => c \in LoaRows)
    <3>1. c = [emp |-> p.emp, from |-> p.from, to |-> t]
      BY <2>1, <2>3 DEF LoaRows
    <3>2. t \in Nat /\ p.from \in Nat
      BY <1>2, <2>1, Dates DEF LoaRows
    <3> QED BY <1>2, <2>1, <3>1, <3>2 DEF LoaRows
  <2>5. PICK gone, before : gone = {p} /\ before = AllExcluded(gone, h)
    OBVIOUS
  <2>6. before = Leave!Excluded(p.from, Leave!Open, h)
    BY <1>2, <2>5 DEF AllExcluded
  <2>7. after = AllExcluded(come, h)
    <3>1. CASE t < p.from
      BY <1>2, <3>1 DEF AllExcluded
    <3>2. CASE ~(t < p.from)
      <4>1. come = {c} /\ after = Leave!Excluded(c.from, c.to, h)
        BY <1>2, <2>3, <2>4, <3>2
      <4> QED BY <4>1 DEF AllExcluded
    <3> QED BY <3>1, <3>2
  <2>8. come \in SUBSET {x \in LoaRows : x.emp = e} /\ \A x, q \in come : x = q
    BY <1>2, <2>3, <2>4
  <2>9. \A x \in come : \A q \in leaveLoa \ gone : q.emp = e => ~Leave!Meets(q, x.from, x.to)
    <3>1. ASSUME NEW x \in come, NEW q \in leaveLoa \ gone, q.emp = e PROVE ~Leave!Meets(q, x.from, x.to)
      <4>1. x = c
        BY <2>3, <1>2, <3>1
      <4>2. ~Leave!Meets(q, p.from, p.to)
        BY <1>2, <2>5, <3>1 DEF LeaveInv, Leave!AttendanceTrue, Leave!DatesApart
      <4>3. q.from \in Nat /\ q.to \in Nat /\ p.from \in Nat /\ Leave!Open \in Nat /\ t \in Nat /\ t < Leave!Open
        BY <2>1, <3>1, Dates DEF LeaveInv, LeaveTypes, LoaRows
      <4> QED BY <1>2, <2>4, <4>1, <4>2, <4>3 DEF Leave!Meets
    <3> QED BY <3>1
  <2>10. /\ leaveLoa' = (leaveLoa \ gone) \cup come
         /\ leaveScore' = Leave!Recalculated(leaveSick, leaveLoa', {e} \X Leave!Changed(e, h, before, after, gone))
    BY <1>2, <2>5, <2>6
  <2>11. PeriodFor(e, gone, come)
    BY <1>2, <2>5, <2>8, <2>9 DEF PeriodFor
  <2>12. UNCHANGED <<leaveSick, leaveLastId, leaveUpload, leaveReader, leavePreview>>
    BY <1>2
  <2>13. PICK late : late = after
    OBVIOUS
  <2>14. late = AllExcluded(come, h)
    BY <2>7, <2>13
  <2>15. leaveScore' = Leave!Recalculated(leaveSick, leaveLoa', {e} \X Leave!Changed(e, h, before, late, gone))
    BY <2>10, <2>13
  <2>16. before = AllExcluded(gone, h) /\ leaveLoa' = (leaveLoa \ gone) \cup come
    BY <2>5, <2>10
  <2> QED BY <2>2, <2>11, <2>12, <2>14, <2>15, <2>16, LeaveMoved
<1>3. CASE Leave!CloseLoa(e)
  <2>1. UNCHANGED <<leaveSick, leaveLastId, leaveUpload, leaveReader, leavePreview>>
    BY <1>3 DEF Leave!CloseLoa
  <2>2. PICK p, t, h, come, after :
           /\ p \in Leave!OpenPeriod(e) /\ t \in Days
           /\ h = Leave!Horizon(e, {p.from, t})
           /\ come = IF t < p.from THEN {} ELSE {[p EXCEPT !.to = t]}
           /\ after = IF t < p.from THEN {} ELSE Leave!Excluded(p.from, t, h)
           /\ leaveLoa' = (leaveLoa \ {p}) \cup come
           /\ leaveScore' = Leave!Recalculated(leaveSick, leaveLoa',
                               {e} \X Leave!Changed(e, h, Leave!Excluded(p.from, Leave!Open, h), after, {p}))
    BY <1>3 DEF Leave!CloseLoa
  <2> QED BY <1>2, <2>1, <2>2 DEF Leave!OpenPeriod
<1>4. CASE Leave!CancelLoa(e)
  <2>1. PICK p \in leaveLoa :
           /\ p.emp = e /\ leaveLoa' = leaveLoa \ {p}
           /\ leaveScore' = Leave!Recalculated(leaveSick, leaveLoa', {e} \X Leave!Changed(e, Leave!Horizon(e, {p.from, p.to}),
                                Leave!Excluded(p.from, p.to, Leave!Horizon(e, {p.from, p.to})), {}, {p}))
    BY <1>4 DEF Leave!CancelLoa
  <2>2. PICK h, gone, come, before, after :
           /\ h = Leave!Horizon(e, {p.from, p.to}) /\ gone = {p} /\ come = {}
           /\ before = AllExcluded(gone, h)
           /\ after = AllExcluded(come, h)
    OBVIOUS
  <2>3. p \in LoaRows /\ h \in Nat /\ h >= MonthOf[Today]
    BY <2>2, HorizonReached DEF LeaveInv, LeaveTypes, LoaRows
  <2>4. after = {} /\ before = Leave!Excluded(p.from, p.to, h)
    BY <2>2 DEF AllExcluded
  <2>5. /\ leaveLoa' = (leaveLoa \ gone) \cup come
        /\ leaveScore' = Leave!Recalculated(leaveSick, leaveLoa', {e} \X Leave!Changed(e, h, before, after, gone))
        /\ PeriodFor(e, gone, come)
    BY <2>1, <2>2, <2>4 DEF PeriodFor
  <2>6. UNCHANGED <<leaveSick, leaveLastId, leaveUpload, leaveReader, leavePreview>>
    BY <1>4 DEF Leave!CancelLoa
  <2> QED BY <2>2, <2>3, <2>5, <2>6, LeaveMoved
<1> QED BY <1>1, <1>3, <1>4

\* The rows a reader fills in.
LEMMA ReadingKeeps ==
    ASSUME LeaveInv, Leave!ReadSick \/ Leave!ReadLoa \/ Leave!InsertMissing
    PROVE  LeaveInv'
<1>1. CASE Leave!ReadSick
  <2>1. UNCHANGED <<leaveSick, leaveLastId, leaveLoa, leaveScore, leaveUpload, leavePreview>>
    BY <1>1 DEF Leave!ReadSick
  <2>2. PICK e \in Employees, m \in Leave!Months :
           leaveReader' = [pc |-> "sick", emp |-> e, month |-> m, rows |-> {r \in leaveSick : r.emp = e},
                           value |-> Leave!Missing]
    BY <1>1 DEF Leave!ReadSick
  <2>3. leaveReader' \in Reading
    <3>1. Leave!Missing \in ScoreRows
      BY DEF Leave!Missing, ScoreRows
    <3> QED BY <2>2, <3>1 DEF LeaveInv, LeaveTypes, Reading
  <2>4. Leave!SickDays({r \in leaveSick : r.emp = e}, e, m) = Leave!SickDays(leaveSick, e, m)
    BY DEF Leave!SickDays
  <2>5. ReaderCurrent(leaveSick, leaveLoa, leaveScore, leaveReader)'
    BY <2>1, <2>2, <2>4 DEF ReaderCurrent
  <2> QED BY <2>1, <2>3, <2>5 DEF LeaveInv, LeaveTypes, Leave!AttendanceTrue, Leave!AttendanceCurrent, Leave!DatesApart
<1>2. CASE Leave!ReadLoa
  <2>1. /\ UNCHANGED <<leaveSick, leaveLastId, leaveLoa, leaveScore, leaveUpload, leavePreview>>
        /\ leaveReader.pc = "sick"
    BY <1>2 DEF Leave!ReadLoa
  <2>2. leaveReader \in Reading
    BY <2>1 DEF LeaveInv, LeaveTypes, Leave!Quiet
  <2>3. PICK e \in Employees, m \in Leave!Months, taken \in SUBSET SickRows :
           e = leaveReader.emp /\ m = leaveReader.month /\ taken = leaveReader.rows
    BY <2>2 DEF Reading
  <2>4. leaveReader' = [pc |-> "insert", emp |-> e, month |-> m, rows |-> {},
                        value |-> Leave!Attendance(taken, leaveLoa, e, m)]
    BY <1>2, <2>2, <2>3 DEF Leave!ReadLoa, Reading
  <2>5. leaveReader' \in Reading
    BY <2>4, Counted DEF Reading
  <2>6. leaveScore[e][m] = Leave!Missing /\ m <= MonthOf[Today] =>
          Leave!Attendance(taken, leaveLoa, e, m) = Leave!Attendance(leaveSick, leaveLoa, e, m)
    BY <2>1, <2>3 DEF LeaveInv, ReaderCurrent, Leave!Attendance
  <2>7. ReaderCurrent(leaveSick, leaveLoa, leaveScore, leaveReader)'
    BY <2>1, <2>4, <2>6 DEF ReaderCurrent
  <2> QED BY <2>1, <2>5, <2>7 DEF LeaveInv, LeaveTypes, Leave!AttendanceTrue, Leave!AttendanceCurrent, Leave!DatesApart
<1>3. CASE Leave!InsertMissing
  <2>1. /\ UNCHANGED <<leaveSick, leaveLastId, leaveLoa, leaveUpload, leavePreview>>
        /\ leaveReader' = Leave!Quiet /\ leaveReader.pc = "insert"
        /\ leaveScore' = [leaveScore EXCEPT ![leaveReader.emp][leaveReader.month] =
                             IF Leave!Fills(@) THEN leaveReader.value ELSE @]
    BY <1>3 DEF Leave!InsertMissing
  <2>2. leaveReader \in Reading
    BY <2>1 DEF LeaveInv, LeaveTypes, Leave!Quiet
  <2>3. PICK e \in Employees, m \in Leave!Months, value \in ScoreRows :
           e = leaveReader.emp /\ m = leaveReader.month /\ value = leaveReader.value
    BY <2>2 DEF Reading
  <2>4. leaveScore \in [Employees -> [Leave!Months -> ScoreRows]]
    BY DEF LeaveInv, LeaveTypes
  <2>5. PICK v : v = IF leaveScore[e][m] = Leave!Missing THEN value ELSE leaveScore[e][m]
    OBVIOUS
  <2>6. leaveScore' = [leaveScore EXCEPT ![e] = [leaveScore[e] EXCEPT ![m] = v]] /\ v \in ScoreRows
    BY <2>1, <2>3, <2>4, <2>5 DEF Leave!Fills
  <2>7. leaveScore' \in [Employees -> [Leave!Months -> ScoreRows]]
    BY <2>4, <2>6
  <2>8. \A a \in Employees, n \in Leave!Months :
           leaveScore'[a][n] = IF a = e /\ n = m THEN v ELSE leaveScore[a][n]
    BY <2>4, <2>6
  <2>9. m <= MonthOf[Today] /\ v # Leave!Missing => v = Leave!Attendance(leaveSick, leaveLoa, e, m)
    BY <2>1, <2>3, <2>5 DEF LeaveInv, ReaderCurrent, Leave!AttendanceTrue, Leave!AttendanceCurrent
  <2>10. Leave!AttendanceCurrent'
    BY <2>1, <2>8, <2>9 DEF LeaveInv, Leave!AttendanceTrue, Leave!AttendanceCurrent
  <2>11. ReaderCurrent(leaveSick, leaveLoa, leaveScore, leaveReader)'
    BY <2>1 DEF ReaderCurrent, Leave!Quiet
  <2> QED BY <2>1, <2>7, <2>10, <2>11 DEF LeaveInv, LeaveTypes, Leave!AttendanceTrue, Leave!DatesApart
<1> QED BY <1>1, <1>2, <1>3

LEMMA PreviewKeeps ==
    ASSUME LeaveInv, leavePreview' \in [Previews -> SUBSET PreviewRows],
           UNCHANGED <<leaveSick, leaveLastId, leaveLoa, leaveScore, leaveUpload, leaveReader>>
    PROVE  LeaveInv'
BY DEF LeaveInv, LeaveTypes, ReaderCurrent, Leave!AttendanceTrue, Leave!AttendanceCurrent, Leave!DatesApart

LEMMA ReviewKeeps ==
    ASSUME LeaveInv, NEW p \in Previews, Leave!Preview(p) \/ Leave!Pruned(p) \/ Leave!ClaimImport(p)
    PROVE  LeaveInv'
<1>1. leavePreview \in [Previews -> SUBSET PreviewRows]
  BY DEF LeaveInv, LeaveTypes
<1>2. CASE Leave!Preview(p)
  <2>1. PICK file, row :
           /\ file \in SUBSET FileDays /\ leavePreview' = [leavePreview EXCEPT ![p] = {row}]
           /\ row = [matched |-> {x \in file : ~Leave!OnLoa(x[1], x[2], x[2])},
                     protected |-> {x \in file : Leave!OnLoa(x[1], x[2], x[2])},
                     seen |-> Leave!MonthRows(Leave!ImportMonth), same |-> TRUE, committing |-> FALSE]
    BY <1>2 DEF Leave!Preview, Leave!Files, FileDays
  <2>2. Leave!MonthRows(Leave!ImportMonth) \in SUBSET SickRows
    BY DEF LeaveInv, LeaveTypes, Leave!MonthRows
  <2>3. row \in PreviewRows
    BY <2>1, <2>2 DEF PreviewRows
  <2> QED BY <1>1, <1>2, <2>1, <2>3, PreviewKeeps DEF Leave!Preview
<1>3. CASE Leave!Pruned(p)
  BY <1>1, <1>3, PreviewKeeps DEF Leave!Pruned, Leave!Nothing
<1>4. CASE Leave!ClaimImport(p)
  <2>1. PICK v, row : /\ v \in leavePreview[p] /\ leavePreview' = [leavePreview EXCEPT ![p] = {row}]
                      /\ row = [v EXCEPT !.committing = TRUE]
    BY <1>4 DEF Leave!ClaimImport
  <2>2. row \in PreviewRows
    <3>1. v \in PreviewRows
      BY <1>1, <2>1
    <3>2. row = [matched |-> v.matched, protected |-> v.protected, seen |-> v.seen, same |-> v.same, committing |-> TRUE]
      BY <2>1, <3>1 DEF PreviewRows
    <3> QED BY <3>1, <3>2 DEF PreviewRows
  <2> QED BY <1>1, <1>4, <2>1, <2>2, PreviewKeeps DEF Leave!ClaimImport
<1> QED BY <1>2, <1>3, <1>4

LEMMA ProfileKeeps ==
    ASSUME LeaveInv, NEW e \in Employees, Leave!EditProfile(e)
    PROVE  LeaveInv'
<1>1. leavePreview \in [Previews -> SUBSET PreviewRows]
  BY DEF LeaveInv, LeaveTypes
<1>2. PICK p \in Previews : \E v \in leavePreview[p] :
         leavePreview' = [leavePreview EXCEPT ![p] = {[v EXCEPT !.same = ~@]}]
  BY DEF Leave!EditProfile
<1>4. PICK v \in leavePreview[p] : leavePreview' = [leavePreview EXCEPT ![p] = {[v EXCEPT !.same = ~@]}]
  BY <1>2
<1>5. PICK row : row = [v EXCEPT !.same = ~@]
  OBVIOUS
<1>3. row \in PreviewRows
  <2>1. v \in PreviewRows
    BY <1>1
  <2>2. row = [matched |-> v.matched, protected |-> v.protected, seen |-> v.seen, same |-> ~v.same,
               committing |-> v.committing]
    BY <1>5, <2>1 DEF PreviewRows
  <2> QED BY <2>1, <2>2 DEF PreviewRows
<1> QED BY <1>1, <1>3, <1>4, <1>5, PreviewKeeps DEF Leave!EditProfile

\* What an import brings in and takes away.
ImportedRow(id, x) == [id |-> id, emp |-> x[1], from |-> x[2], to |-> x[2], source |-> "import"]
Imported(v, ids, taken) ==
    /\ v.committing /\ v.matched \subseteq FileDays
    /\ v.seen = Leave!MonthRows(Leave!ImportMonth) /\ v.same
    /\ \A x \in v.matched : ~Leave!OnLoa(x[1], x[2], x[2])
    /\ ids \in [v.matched -> Nat] /\ \A x \in v.matched : leaveLastId < ids[x] /\ ids[x] <= leaveLastId'
    /\ taken = {ImportedRow(ids[x], x) : x \in v.matched}
    /\ leaveSick' = (leaveSick \ v.seen) \cup taken

LEMMA ImportIs ==
    ASSUME LeaveInv, NEW p \in Previews, Leave!CommitImport(p)
    PROVE  \/ /\ leavePreview' \in [Previews -> SUBSET PreviewRows]
              /\ UNCHANGED <<leaveSick, leaveLastId, leaveLoa, leaveScore, leaveUpload, leaveReader>>
           \/ \E v, ids, taken :
                 /\ v \in leavePreview[p] /\ Imported(v, ids, taken)
                 /\ leaveScore' = Leave!Recalculated(leaveSick', leaveLoa,
                        ({x[1] : x \in v.matched} \cup {r.emp : r \in v.seen}) \X {Leave!ImportMonth})
                 /\ leaveLastId' \in Nat /\ leaveLastId' >= leaveLastId
                 /\ leavePreview' \in [Previews -> SUBSET PreviewRows]
                 /\ UNCHANGED <<leaveLoa, leaveUpload, leaveReader>>
<1>1. leavePreview \in [Previews -> SUBSET PreviewRows]
  BY DEF LeaveInv, LeaveTypes
<1>2. PICK v \in leavePreview[p] :
          /\ v.committing
          /\ \/ /\ Leave!UnchangedMonth(v) /\ v.same /\ Leave!StillProtected(v)
                /\ \E ids \in [v.matched -> leaveLastId + 1 .. leaveLastId + Leave!Cardinality(v.matched)] :
                      /\ leaveSick' = (leaveSick \ Leave!MonthRows(Leave!ImportMonth)) \cup
                             {[id |-> ids[x], emp |-> x[1], from |-> x[2], to |-> x[2], source |-> "import"] : x \in v.matched}
                      /\ leaveScore' = Leave!Recalculated(leaveSick', leaveLoa,
                             ({x[1] : x \in v.matched} \cup {r.emp : r \in Leave!MonthRows(Leave!ImportMonth)})
                                \X {Leave!ImportMonth})
                /\ leaveLastId' = leaveLastId + Leave!Cardinality(v.matched)
                /\ leavePreview' = [leavePreview EXCEPT ![p] = Leave!Nothing]
             \/ /\ leavePreview' = [leavePreview EXCEPT ![p] = {[v EXCEPT !.committing = FALSE]}]
                /\ UNCHANGED <<leaveSick, leaveLastId, leaveScore>>
  BY DEF Leave!CommitImport
<1>3. UNCHANGED <<leaveLoa, leaveUpload, leaveReader>>
  BY DEF Leave!CommitImport
<1>4. v \in PreviewRows
  BY <1>1
<1>5. CASE /\ leavePreview' = [leavePreview EXCEPT ![p] = {[v EXCEPT !.committing = FALSE]}]
           /\ UNCHANGED <<leaveSick, leaveLastId, leaveScore>>
  <2>1. PICK row : row = [v EXCEPT !.committing = FALSE]
    OBVIOUS
  <2>2. row \in PreviewRows
    BY <1>4, <2>1 DEF PreviewRows
  <2> QED BY <1>1, <1>3, <1>5, <2>1, <2>2
<1>6. ASSUME Leave!UnchangedMonth(v), v.same, Leave!StillProtected(v),
             NEW ids \in [v.matched -> leaveLastId + 1 .. leaveLastId + Leave!Cardinality(v.matched)],
             leaveSick' = (leaveSick \ Leave!MonthRows(Leave!ImportMonth)) \cup
                 {[id |-> ids[x], emp |-> x[1], from |-> x[2], to |-> x[2], source |-> "import"] : x \in v.matched},
             leaveScore' = Leave!Recalculated(leaveSick', leaveLoa,
                 ({x[1] : x \in v.matched} \cup {r.emp : r \in Leave!MonthRows(Leave!ImportMonth)}) \X {Leave!ImportMonth}),
             leaveLastId' = leaveLastId + Leave!Cardinality(v.matched),
             leavePreview' = [leavePreview EXCEPT ![p] = Leave!Nothing]
      PROVE  \E taken :
                 /\ Imported(v, ids, taken)
                 /\ leaveScore' = Leave!Recalculated(leaveSick', leaveLoa,
                        ({x[1] : x \in v.matched} \cup {r.emp : r \in v.seen}) \X {Leave!ImportMonth})
                 /\ leaveLastId' \in Nat /\ leaveLastId' >= leaveLastId
                 /\ leavePreview' \in [Previews -> SUBSET PreviewRows]
  <2>1. v.matched \in SUBSET FileDays
    BY <1>4 DEF PreviewRows
  <2>2. PICK n \in Nat : n = Leave!Cardinality(v.matched)
    <3>1. IsFiniteSet(FileDays)
      <4>1. {d \in Days : MonthOf[d] = Leave!ImportMonth} \in SUBSET Days
        OBVIOUS
      <4>2. IsFiniteSet({d \in Days : MonthOf[d] = Leave!ImportMonth})
        BY <4>1, LeaveAssumption, FS_Subset
      <4> QED BY <4>2, LeaveAssumption, FS_Product DEF FileDays
    <3>2. IsFiniteSet(v.matched)
      BY <2>1, <3>1, FS_Subset
    <3> QED BY <3>2, SameSize, FS_CardinalityType
  <2>3. leaveLastId \in Nat /\ leaveLastId' = leaveLastId + n
    BY <1>6, <2>2 DEF LeaveInv, LeaveTypes
  <2>4. ids \in [v.matched -> Nat] /\ \A x \in v.matched : leaveLastId < ids[x] /\ ids[x] <= leaveLastId'
    <3>1. ids \in [v.matched -> leaveLastId + 1 .. leaveLastId + n]
      BY <1>6, <2>2
    <3>2. \A x \in v.matched : ids[x] \in leaveLastId + 1 .. leaveLastId + n
      BY <3>1
    <3>3. \A x \in v.matched : ids[x] \in Nat /\ leaveLastId < ids[x] /\ ids[x] <= leaveLastId'
      BY <2>3, <3>2
    <3> QED BY <3>1, <3>3
  <2>5. v.seen = Leave!MonthRows(Leave!ImportMonth) /\ \A x \in v.matched : ~Leave!OnLoa(x[1], x[2], x[2])
    BY <1>6 DEF Leave!UnchangedMonth, Leave!StillProtected
  <2>6. Imported(v, ids, {ImportedRow(ids[x], x) : x \in v.matched})
    BY <1>2, <1>6, <2>1, <2>4, <2>5 DEF Imported, ImportedRow
  <2>7. leavePreview' \in [Previews -> SUBSET PreviewRows]
    BY <1>1, <1>6 DEF Leave!Nothing
  <2>8. leaveLastId' \in Nat /\ leaveLastId' >= leaveLastId
    BY <2>3
  <2> QED BY <1>6, <2>5, <2>6, <2>7, <2>8
<1> QED BY <1>2, <1>3, <1>5, <1>6

LEMMA ImportedRows ==
    ASSUME LeaveInv, NEW v, NEW ids, NEW taken, Imported(v, ids, taken), leaveLastId' \in Nat
    PROVE  /\ taken \in SUBSET SickRows /\ v.seen \in SUBSET leaveSick
           /\ \A r \in taken : /\ r.from = r.to /\ MonthOf[r.from] = Leave!ImportMonth /\ r.source = "import"
                              /\ leaveLastId < r.id /\ r.id <= leaveLastId' /\ r \notin leaveSick
                              /\ ~Leave!OnLoa(r.emp, r.from, r.to)
           /\ \A r, s \in taken : r.emp = s.emp /\ r.from = s.from => r = s
           /\ {<<r.emp, r.from>> : r \in taken} = v.matched
           /\ \A r \in leaveSick \ v.seen : MonthOf[r.from] # Leave!ImportMonth
           /\ \A r \in v.seen : MonthOf[r.from] = Leave!ImportMonth
<1>1. /\ v.matched \subseteq FileDays /\ ids \in [v.matched -> Nat]
      /\ \A x \in v.matched : leaveLastId < ids[x] /\ ids[x] <= leaveLastId'
      /\ taken = {ImportedRow(ids[x], x) : x \in v.matched}
      /\ v.seen = Leave!MonthRows(Leave!ImportMonth)
      /\ \A x \in v.matched : ~Leave!OnLoa(x[1], x[2], x[2])
  BY DEF Imported
<1>2. \A x \in v.matched : x[1] \in Employees /\ x[2] \in Days /\ MonthOf[x[2]] = Leave!ImportMonth /\ x = <<x[1], x[2]>>
  BY <1>1 DEF FileDays
<1>3. \A x \in v.matched : LET r == ImportedRow(ids[x], x) IN
         /\ r.id = ids[x] /\ r.emp = x[1] /\ r.from = x[2] /\ r.to = x[2] /\ r.source = "import"
         /\ r \in SickRows
  <2> TAKE x \in v.matched
  <2>1. ids[x] \in Nat /\ x[2] \in Nat
    BY <1>1, <1>2, Dates
  <2> QED BY <1>2, <2>1 DEF ImportedRow, SickRows
<1>4. \A r \in leaveSick : r.id <= leaveLastId /\ r.id \in Nat /\ leaveLastId \in Nat
  BY DEF LeaveInv, LeaveTypes, SickRows
<1>5. \A x \in v.matched : LET r == ImportedRow(ids[x], x) IN r \notin leaveSick /\ ~Leave!OnLoa(r.emp, r.from, r.to)
  <2> TAKE x \in v.matched
  <2>1. PICK r : r = ImportedRow(ids[x], x)
    OBVIOUS
  <2>2. r.id = ids[x] /\ ids[x] \in Nat /\ leaveLastId < ids[x]
    BY <1>1, <1>3, <2>1
  <2>3. r \notin leaveSick
    BY <1>4, <2>2
  <2> QED BY <1>1, <1>3, <2>1, <2>3
<1>6. taken \in SUBSET SickRows
  BY <1>1, <1>3
<1>7. \A r \in taken : /\ r.from = r.to /\ MonthOf[r.from] = Leave!ImportMonth /\ r.source = "import"
                      /\ leaveLastId < r.id /\ r.id <= leaveLastId' /\ r \notin leaveSick
                      /\ ~Leave!OnLoa(r.emp, r.from, r.to)
  BY <1>1, <1>2, <1>3, <1>5
<1>8. \A r, s \in taken : r.emp = s.emp /\ r.from = s.from => r = s
  <2> SUFFICES ASSUME NEW r \in taken, NEW s \in taken, r.emp = s.emp, r.from = s.from PROVE r = s
    OBVIOUS
  <2>1. PICK x \in v.matched, y \in v.matched : r = ImportedRow(ids[x], x) /\ s = ImportedRow(ids[y], y)
    BY <1>1
  <2>2. x = y
    BY <1>2, <1>3, <2>1
  <2> QED BY <2>1, <2>2
<1>9. {<<r.emp, r.from>> : r \in taken} = v.matched
  <2>1. \A x \in v.matched : \E r \in taken : x = <<r.emp, r.from>>
    BY <1>1, <1>2, <1>3
  <2>2. \A r \in taken : <<r.emp, r.from>> \in v.matched
    BY <1>1, <1>2, <1>3
  <2> QED BY <2>1, <2>2
<1>10. /\ v.seen \in SUBSET leaveSick
       /\ \A r \in leaveSick \ v.seen : MonthOf[r.from] # Leave!ImportMonth
       /\ \A r \in v.seen : MonthOf[r.from] = Leave!ImportMonth
  BY <1>1 DEF Leave!MonthRows
<1> QED BY <1>6, <1>7, <1>8, <1>9, <1>10

LEMMA ImportKeeps ==
    ASSUME LeaveInv, NEW p \in Previews, Leave!CommitImport(p)
    PROVE  LeaveInv'
<1>1. ASSUME NEW v, NEW ids, NEW taken, Imported(v, ids, taken),
             leaveScore' = Leave!Recalculated(leaveSick', leaveLoa,
                        ({x[1] : x \in v.matched} \cup {r.emp : r \in v.seen}) \X {Leave!ImportMonth}),
             leaveLastId' \in Nat, leaveLastId' >= leaveLastId,
             leavePreview' \in [Previews -> SUBSET PreviewRows],
             UNCHANGED <<leaveLoa, leaveUpload, leaveReader>>
      PROVE  LeaveInv'
  <2>1. PICK new, periods, who :
           /\ new = (leaveSick \ v.seen) \cup taken /\ periods = leaveLoa
           /\ who = ({x[1] : x \in v.matched} \cup {r.emp : r \in v.seen}) \X {Leave!ImportMonth}
    OBVIOUS
  <2>2. leaveSick' = new /\ leaveLoa' = periods /\ leaveScore' = Leave!Recalculated(new, periods, who)
    BY <1>1, <2>1 DEF Imported
  <2>3. leaveSick \in SUBSET SickRows /\ new \in SUBSET SickRows
    BY <1>1, <2>1, ImportedRows DEF LeaveInv, LeaveTypes
  <2>4. \A e \in Employees, m \in Leave!Months : <<e, m>> \notin who =>
           Leave!SickDays(new, e, m) = Leave!SickDays(leaveSick, e, m)
    <3> SUFFICES ASSUME NEW e \in Employees, NEW m \in Leave!Months, <<e, m>> \notin who
                 PROVE  Leave!SickDays(new, e, m) = Leave!SickDays(leaveSick, e, m)
      OBVIOUS
    <3>1. ASSUME NEW r \in SickRows, r.emp = e, MonthOf[r.from] = m PROVE r \in leaveSick <=> r \in new
      <4>1. r \notin v.seen
        <5>1. ASSUME r \in v.seen PROVE FALSE
          <6>1. m = Leave!ImportMonth
            BY <1>1, <3>1, <5>1, ImportedRows
          <6>2. e \in {x.emp : x \in v.seen}
            BY <3>1, <5>1
          <6> QED BY <2>1, <6>1, <6>2
        <5> QED BY <5>1
      <4>2. r \notin taken
        <5>1. ASSUME r \in taken PROVE FALSE
          <6>1. m = Leave!ImportMonth /\ <<r.emp, r.from>> \in v.matched
            BY <1>1, <3>1, <5>1, ImportedRows
          <6>2. PICK x \in v.matched : x = <<r.emp, r.from>>
            BY <6>1
          <6>3. e \in {y[1] : y \in v.matched}
            BY <3>1, <6>2
          <6> QED BY <2>1, <6>1, <6>3
        <5> QED BY <5>1
      <4> QED BY <2>1, <4>1, <4>2
    <3> QED BY <2>3, <3>1, OtherRows
  <2>5. SameOutside(new, periods, who)
    BY <2>1, <2>4 DEF SameOutside
  <2>6. UNCHANGED leaveReader
    BY <1>1
  <2>7. /\ leaveScore' \in [Employees -> [Leave!Months -> ScoreRows]]
        /\ leaveReader' \in Reading \cup {Leave!Quiet}
        /\ ReaderCurrent(leaveSick, leaveLoa, leaveScore, leaveReader)'
        /\ Leave!AttendanceCurrent'
    BY <2>2, <2>5, <2>6, Recomputed
  <2>8. \A r \in new : r.id <= leaveLastId'
    <3>1. \A r \in leaveSick : r.id \in Nat /\ r.id <= leaveLastId /\ leaveLastId \in Nat
      BY DEF LeaveInv, LeaveTypes, SickRows
    <3>2. \A r \in taken : r.id <= leaveLastId'
      BY <1>1, ImportedRows
    <3> QED BY <1>1, <2>1, <3>1, <3>2
  <2>9. LeaveTypes'
    BY <1>1, <2>2, <2>3, <2>7, <2>8 DEF LeaveInv, LeaveTypes
  <2>10. ASSUME NEW r \in new, NEW s \in new, r # s, r.emp = s.emp, Leave!Meets(r, s.from, s.to)
         PROVE  "proof" \in {r.source, s.source}
    <3>1. CASE r \in leaveSick /\ s \in leaveSick
      BY <2>10, <3>1 DEF LeaveInv, Leave!AttendanceTrue, Leave!DatesApart
    <3>2. /\ r \in SickRows /\ s \in SickRows /\ r.from \in Nat /\ r.to \in Nat /\ s.from \in Nat /\ s.to \in Nat
      BY <2>3, Dates DEF SickRows
    <3>3. s.from <= r.to /\ r.from <= s.to
      BY <2>10, <3>2 DEF Leave!Meets
    <3>4. CASE r \in taken /\ s \in taken
      <4>1. r.from = s.from
        BY <1>1, <3>2, <3>3, <3>4, ImportedRows
      <4> QED BY <1>1, <2>10, <3>4, <4>1, ImportedRows
    <3>5. CASE r \in taken /\ s \in leaveSick \ v.seen
      <4>1. r.from = r.to /\ MonthOf[r.from] = Leave!ImportMonth /\ MonthOf[s.from] # Leave!ImportMonth
        BY <1>1, <3>5, ImportedRows
      <4>2. r.from \in Days
        BY <3>2 DEF SickRows
      <4>3. s.from <= r.from /\ r.from <= s.to
        BY <3>3, <4>1
      <4> QED BY <3>2, <4>1, <4>2, <4>3, OneMonth
    <3>6. CASE s \in taken /\ r \in leaveSick \ v.seen
      <4>1. s.from = s.to /\ MonthOf[s.from] = Leave!ImportMonth /\ MonthOf[r.from] # Leave!ImportMonth
        BY <1>1, <3>6, ImportedRows
      <4>2. s.from \in Days
        BY <3>2 DEF SickRows
      <4>3. r.from <= s.from /\ s.from <= r.to
        BY <3>3, <4>1
      <4> QED BY <3>2, <4>1, <4>2, <4>3, OneMonth
    <3> QED BY <2>1, <3>1, <3>4, <3>5, <3>6
  <2>11. Leave!DatesApart'
    BY <1>1, <2>2, <2>10 DEF LeaveInv, Leave!AttendanceTrue, Leave!DatesApart, Leave!Meets
  <2> QED BY <2>7, <2>9, <2>11 DEF LeaveInv, Leave!AttendanceTrue
<1> QED BY <1>1, ImportIs, PreviewKeeps

LEMMA LeaveStep == LeaveInv /\ [Leave!Next]_(Leave!absenceVars) => LeaveInv'
<1> SUFFICES ASSUME LeaveInv, [Leave!Next]_(Leave!absenceVars) PROVE LeaveInv'
  OBVIOUS
<1>1. CASE UNCHANGED Leave!absenceVars
  BY <1>1 DEF Leave!absenceVars, LeaveInv, LeaveTypes, ReaderCurrent, Leave!AttendanceTrue, Leave!AttendanceCurrent,
     Leave!DatesApart
<1>2. CASE Leave!Next
  BY <1>2, RegistrationKeeps, VoidKeeps, LoaKeeps, ProfileKeeps, ReadingKeeps, ReviewKeeps, ImportKeeps DEF Leave!Next
<1> QED BY <1>1, <1>2

\* Only an import brings in imported rows: as its preview showed them.
LEMMA ImportDecides ==
    ASSUME LeaveInv, [Leave!Next]_(Leave!absenceVars), NEW r \in leaveSick' \ leaveSick, r.source = "import"
    PROVE  /\ ~Leave!OnLoa(r.emp, r.from, r.to)
           /\ \E p \in Previews : \E v \in leavePreview[p] :
                 /\ v.committing /\ leaveSick \ leaveSick' = v.seen
                 /\ {<<x.emp, x.from>> : x \in leaveSick' \ leaveSick} = v.matched
<1>1. ASSUME NEW p \in Previews, Leave!CommitImport(p)
      PROVE  /\ ~Leave!OnLoa(r.emp, r.from, r.to)
             /\ \E v \in leavePreview[p] :
                   /\ v.committing /\ leaveSick \ leaveSick' = v.seen
                   /\ {<<x.emp, x.from>> : x \in leaveSick' \ leaveSick} = v.matched
  <2>1. PICK v, ids, taken : v \in leavePreview[p] /\ Imported(v, ids, taken) /\ leaveLastId' \in Nat
    BY <1>1, ImportIs
  <2>2. v.committing /\ leaveSick' = (leaveSick \ v.seen) \cup taken
    BY <2>1 DEF Imported
  <2>3. \A x \in taken : x \notin leaveSick
    BY <2>1, ImportedRows
  <2>4. v.seen \in SUBSET leaveSick
    BY <2>1, ImportedRows
  <2>5. leaveSick' \ leaveSick = taken /\ leaveSick \ leaveSick' = v.seen
    BY <2>2, <2>3, <2>4
  <2>6. ~Leave!OnLoa(r.emp, r.from, r.to) /\ {<<x.emp, x.from>> : x \in taken} = v.matched
    BY <2>1, <2>5, ImportedRows
  <2> QED BY <2>1, <2>2, <2>5, <2>6
<1>2. ASSUME leaveSick' = leaveSick \/ (\E e, f, t, source : source \in {"proof", "single"}
                   /\ leaveSick' = leaveSick \cup {Leave!Row(e, f, t, source)}) \/ leaveSick' \subseteq leaveSick
      PROVE  FALSE
  BY <1>2 DEF Leave!Row
<1>3. (\E p \in Previews : Leave!CommitImport(p)) \/ leaveSick' = leaveSick \/ leaveSick' \subseteq leaveSick
      \/ (\E e, f, t, source : source \in {"proof", "single"} /\ leaveSick' = leaveSick \cup {Leave!Row(e, f, t, source)})
  <2>1. CASE \E c \in Clerks : Leave!StartUpload(c) \/ Leave!EndUpload(c)
    BY <2>1 DEF Leave!StartUpload, Leave!EndUpload
  <2>2. CASE Leave!Single \/ Leave!VoidSick
    BY <2>2 DEF Leave!Single, Leave!VoidSick
  <2>3. CASE \E e \in Employees : Leave!CreateLoa(e) \/ Leave!CloseLoa(e) \/ Leave!CancelLoa(e) \/ Leave!EditProfile(e)
    BY <2>3 DEF Leave!CreateLoa, Leave!CloseLoa, Leave!CancelLoa, Leave!EditProfile
  <2>4. CASE Leave!ReadSick \/ Leave!ReadLoa \/ Leave!InsertMissing
    BY <2>4 DEF Leave!ReadSick, Leave!ReadLoa, Leave!InsertMissing
  <2>5. CASE \E p \in Previews : Leave!Preview(p) \/ Leave!Pruned(p) \/ Leave!ClaimImport(p) \/ Leave!CommitImport(p)
    BY <2>5 DEF Leave!Preview, Leave!Pruned, Leave!ClaimImport
  <2>6. CASE UNCHANGED Leave!absenceVars
    BY <2>6 DEF Leave!absenceVars
  <2> QED BY <2>1, <2>2, <2>3, <2>4, <2>5, <2>6 DEF Leave!Next
<1> QED BY <1>1, <1>2, <1>3

-----------------------------------------------------------------------------
(* The plan of a day. *)

\* A plan has its fields, and its two seatings every slot.
PlanForm(d) ==
    /\ DOMAIN d = {"seven", "crew", "push7", "turn", "paired", "targets", "post", "standby", "role", "early"}
    /\ DOMAIN d.seven = Plan!SlotSet /\ DOMAIN d.crew = Plan!SlotSet
AllFree(d) == d.push7 \cap Plan!Seated(d) = {}
DueFree(d) == d.push7 \cap Plan!Seated(d) \subseteq planBare
PlanInv == PlanForm(planDay) /\ Plan!PlanKept

LEMMA SeatedIs ==
    ASSUME NEW d, NEW x
    PROVE  x \in Plan!Seated(d) <=> x # None /\ \E s \in Plan!SlotSet : d.seven[s] = x \/ d.crew[s] = x
BY DEF Plan!Seated, Plan!Filled

\* Whoever is due and whoever is seated by fewer edits than before are still apart.
LEMMA FewerSeated ==
    ASSUME NEW d, NEW e, DueFree(d), e.push7 \subseteq d.push7,
           \A x \in e.push7 : x \in Plan!Seated(e) => x \in Plan!Seated(d)
    PROVE  DueFree(e)
BY DEF DueFree

\* Settling the seven o'clock posts leaves a plan as it is or nobody due who is seated.
LEMMA NormalizedApart ==
    ASSUME NEW d, NEW before, PlanForm(d)
    PROVE  /\ PlanForm(Plan!Normalized(d, before))
           /\ \/ Plan!Normalized(d, before) = d /\ ~d.paired
              \/ AllFree(Plan!Normalized(d, before))
<1> DEFINE late == {s \in Plan!Filled(d.seven) : ~d.early[d.seven[s]]}
           lost == \E s \in DOMAIN before : d.seven[s] = None
           crew == [s \in Plan!SlotSet |-> IF s \in late THEN d.seven[s] ELSE d.crew[s]]
           seven == [s \in Plan!SlotSet |-> IF s \in late THEN None ELSE d.seven[s]]
           e == [d EXCEPT !.crew = crew, !.seven = seven]
           kept == {s \in DOMAIN before : e.seven[s] # None}
           still == {before[s] : s \in kept} \ Plan!Seated(e)
           push7 == d.push7 \cap still
           targets == [p \in push7 |-> e.seven[CHOOSE s \in kept : before[s] = p]]
           r == [e EXCEPT !.paired = TRUE, !.push7 = push7, !.targets = targets]
<1>1. Plan!Normalized(d, before) = IF late = {} /\ ~lost /\ ~d.paired THEN d ELSE r
  BY DEF Plan!Normalized
<1>2. e.seven = seven /\ e.crew = crew /\ e.push7 = d.push7 /\ DOMAIN e = DOMAIN d
  <2> HIDE DEF seven, crew
  <2> QED BY DEF PlanForm
<1>3. r.seven = seven /\ r.crew = crew /\ r.push7 = push7 /\ DOMAIN r = DOMAIN d
  <2> HIDE DEF seven, crew, e, push7, targets
  <2> QED BY <1>2 DEF PlanForm
<1>4. PlanForm(r)
  <2>1. DOMAIN seven = Plan!SlotSet /\ DOMAIN crew = Plan!SlotSet
    OBVIOUS
  <2> HIDE DEF seven, crew, e, push7, targets, r
  <2> QED BY <1>3, <2>1 DEF PlanForm
<1>5. Plan!Seated(r) = Plan!Seated(e)
  <2> HIDE DEF seven, crew, e, push7, targets, r
  <2> QED BY <1>2, <1>3 DEF Plan!Seated
<1>6. AllFree(r)
  <2>1. r.push7 \cap Plan!Seated(e) = {}
    <3>1. push7 \cap Plan!Seated(e) = {}
      OBVIOUS
    <3> HIDE DEF seven, crew, e, push7, targets, r
    <3> QED BY <1>3, <3>1
  <2> HIDE DEF r, e
  <2> QED BY <1>5, <2>1 DEF AllFree
<1> HIDE DEF r, late, lost
<1> QED BY <1>1, <1>4, <1>6

LEMMA StaysApart ==
    ASSUME NEW d, NEW before, PlanForm(d), DueFree(d)
    PROVE  PlanForm(Plan!Normalized(d, before)) /\ DueFree(Plan!Normalized(d, before))
BY NormalizedApart DEF DueFree, AllFree

LEMMA SettledApart ==
    ASSUME NEW d, PlanForm(d), DueFree(d)
    PROVE  PlanForm(Plan!Settled(d)) /\ DueFree(Plan!Settled(d))
<1> DEFINE once == Plan!Normalized(d, Plan!Relief(planDay))
           first == IF planDay.paired THEN once ELSE d
<1>1. PlanForm(once) /\ DueFree(once)
  BY StaysApart
<1>2. PlanForm(first) /\ DueFree(first)
  BY <1>1
<1>3. Plan!Settled(d) = Plan!Normalized(first, Plan!Relief(planDay))
  BY DEF Plan!Settled
<1> HIDE DEF first
<1> QED BY <1>2, <1>3, StaysApart

\* Every edit leaves nobody due who is seated.
LEMMA PutApart ==
    ASSUME PlanInv, NEW d, NEW kind, NEW s \in Plan!SlotSet, NEW p, PlanForm(d), d.push7 = planDay.push7,
           \A x \in d.push7 : x \in Plan!Seated(d) => x \in Plan!Seated(planDay)
    PROVE  /\ PlanForm(Plan!Put(d, kind, s, p)) /\ Plan!Put(d, kind, s, p).push7 = planDay.push7
           /\ \A x \in planDay.push7 : x \in Plan!Seated(Plan!Put(d, kind, s, p)) => x = p \/ x \in planBare
<1>1. \A x \in planDay.push7 : x \in Plan!Seated(d) => x \in planBare
  BY DEF PlanInv, Plan!PlanKept, Plan!RelieversFree
<1>2. CASE p = None
  BY <1>1, <1>2 DEF Plan!Put
<1>3. CASE p # None /\ kind = "seven"
  <2> DEFINE e == [d EXCEPT !.seven[s] = p]
  <2>1. e.seven = [d.seven EXCEPT ![s] = p] /\ e.crew = d.crew /\ e.push7 = d.push7 /\ DOMAIN e = DOMAIN d
    BY DEF PlanForm
  <2> HIDE DEF e
  <2>2. PlanForm(e)
    BY <2>1 DEF PlanForm
  <2>3. \A x : x \in Plan!Seated(e) => x = p \/ x \in Plan!Seated(d)
    BY <2>1, SeatedIs DEF PlanForm
  <2>4. Plan!Put(d, kind, s, p) = e
    BY <1>3 DEF Plan!Put, e
  <2> QED BY <1>1, <2>1, <2>2, <2>3, <2>4
<1>4. CASE p # None /\ kind # "seven"
  <2> DEFINE e == [d EXCEPT !.crew[s] = p]
  <2>1. e.crew = [d.crew EXCEPT ![s] = p] /\ e.seven = d.seven /\ e.push7 = d.push7 /\ DOMAIN e = DOMAIN d
    BY DEF PlanForm
  <2> HIDE DEF e
  <2>2. PlanForm(e)
    BY <2>1 DEF PlanForm
  <2>3. \A x : x \in Plan!Seated(e) => x = p \/ x \in Plan!Seated(d)
    BY <2>1, SeatedIs DEF PlanForm
  <2>4. Plan!Put(d, kind, s, p) = e
    BY <1>4 DEF Plan!Put, e
  <2> QED BY <1>1, <2>1, <2>2, <2>3, <2>4
<1> QED BY <1>2, <1>3, <1>4

LEMMA ClearedApart ==
    ASSUME NEW d, NEW slots, PlanForm(d)
    PROVE  LET c == Plan!Cleared(d, slots)
           IN /\ PlanForm(c) /\ c.push7 = d.push7 /\ c.paired = d.paired
              /\ \A x : x \in Plan!Seated(c) =>
                    \E s \in Plan!SlotSet \ slots : d.seven[s] = x \/ d.crew[s] = x
<1> DEFINE seven == [s \in Plan!SlotSet |-> IF s \in slots THEN None ELSE d.seven[s]]
           crew == [s \in Plan!SlotSet |-> IF s \in slots THEN None ELSE d.crew[s]]
           c == [d EXCEPT !.seven = seven, !.crew = crew]
<1>1. c.seven = seven /\ c.crew = crew /\ c.push7 = d.push7 /\ c.paired = d.paired /\ DOMAIN c = DOMAIN d
  <2> HIDE DEF seven, crew
  <2> QED BY DEF PlanForm
<1>2. Plan!Cleared(d, slots) = c
  BY DEF Plan!Cleared
<1>3. PlanForm(c)
  <2>1. DOMAIN seven = Plan!SlotSet /\ DOMAIN crew = Plan!SlotSet
    OBVIOUS
  <2> HIDE DEF seven, crew, c
  <2> QED BY <1>1, <2>1 DEF PlanForm
<1>4. \A x : x \in Plan!Seated(c) => \E s \in Plan!SlotSet \ slots : d.seven[s] = x \/ d.crew[s] = x
  <2> HIDE DEF c
  <2> QED BY <1>1, SeatedIs
<1> HIDE DEF c
<1> QED BY <1>1, <1>2, <1>3, <1>4

LEMMA VacatedApart ==
    ASSUME NEW d, NEW gone, PlanForm(d)
    PROVE  LET v == Plan!Vacated(d, gone)
           IN /\ PlanForm(v) /\ v.push7 = d.push7
              /\ \A x : x \in Plan!Seated(v) => x \in Plan!Seated(d)
<1> DEFINE seven == [s \in Plan!SlotSet |-> IF d.seven[s] \in gone THEN None ELSE d.seven[s]]
           crew == [s \in Plan!SlotSet |-> IF d.crew[s] \in gone THEN None ELSE d.crew[s]]
           v == [d EXCEPT !.seven = seven, !.crew = crew]
<1>1. v.seven = seven /\ v.crew = crew /\ v.push7 = d.push7 /\ DOMAIN v = DOMAIN d
  <2> HIDE DEF seven, crew
  <2> QED BY DEF PlanForm
<1>2. Plan!Vacated(d, gone) = v
  BY DEF Plan!Vacated
<1>3. PlanForm(v)
  <2>1. DOMAIN seven = Plan!SlotSet /\ DOMAIN crew = Plan!SlotSet
    OBVIOUS
  <2> HIDE DEF seven, crew, v
  <2> QED BY <1>1, <2>1 DEF PlanForm
<1>4. \A x : x \in Plan!Seated(v) => x \in Plan!Seated(d)
  <2> HIDE DEF v
  <2> QED BY <1>1, SeatedIs
<1> HIDE DEF v
<1> QED BY <1>1, <1>2, <1>3, <1>4

Apart(d) == PlanForm(d) /\ DueFree(d)

LEMMA NowApart == PlanInv => Apart(planDay)
  BY DEF PlanInv, Apart, DueFree, Plan!PlanKept, Plan!RelieversFree

\* The last step of an exchange frees whoever is due from his duty.
LEMMA FreeApart ==
    ASSUME NEW d, PlanForm(d)
    PROVE  Apart(Plan!Free(d))
<1> DEFINE f == [d EXCEPT !.push7 = d.push7 \ Plan!Seated(d)]
<1>1. f.push7 = d.push7 \ Plan!Seated(d) /\ f.seven = d.seven /\ f.crew = d.crew /\ DOMAIN f = DOMAIN d
  <2> DEFINE left == d.push7 \ Plan!Seated(d)
  <2> HIDE DEF left
  <2>1. [d EXCEPT !.push7 = left].push7 = left /\ [d EXCEPT !.push7 = left].seven = d.seven
        /\ [d EXCEPT !.push7 = left].crew = d.crew /\ DOMAIN [d EXCEPT !.push7 = left] = DOMAIN d
    BY DEF PlanForm
  <2> QED BY <2>1 DEF left
<1>2. Plan!Free(d) = f
  BY DEF Plan!Free
<1> HIDE DEF f
<1> QED BY <1>1, <1>2 DEF Apart, PlanForm, DueFree, Plan!Seated

LEMMA WithdrawnApart ==
    ASSUME NEW d, NEW p, PlanForm(d)
    PROVE  LET w == [d EXCEPT !.push7 = d.push7 \ {p}]
           IN PlanForm(w) /\ w.push7 = d.push7 \ {p} /\ Plan!Seated(w) = Plan!Seated(d)
<1> DEFINE left == d.push7 \ {p}
           w == [d EXCEPT !.push7 = left]
<1>1. w.push7 = left /\ w.seven = d.seven /\ w.crew = d.crew /\ DOMAIN w = DOMAIN d
  <2> HIDE DEF left
  <2> QED BY DEF PlanForm
<1> HIDE DEF w
<1>2. PlanForm(w) /\ Plan!Seated(w) = Plan!Seated(d)
  BY <1>1 DEF PlanForm, Plan!Seated
<1> QED BY <1>1, <1>2 DEF w

LEMMA ExchangeApart ==
    ASSUME PlanInv, NEW s \in Plan!SlotSet, NEW t \in Plan!SlotSet
    PROVE  Apart(Plan!SwappedPeople(s, t)) /\ Apart(Plan!SwappedPosts(s, t))
<1>1. PlanForm(planDay)
  BY NowApart DEF Apart
<1>2. Apart(Plan!SwappedPeople(s, t))
  <2> DEFINE out == Plan!Cleared(planDay, {s, t})
             one == Plan!Put(out, Plan!Kind(planDay, t), t, Plan!SeatOf(planDay, s))
             in == Plan!Put(one, Plan!Kind(planDay, s), s, Plan!SeatOf(planDay, t))
  <2>1. PlanForm(out)
    BY <1>1, ClearedApart
  <2>2. \A d, kind, x, p : PlanForm(d) /\ x \in Plan!SlotSet => PlanForm(Plan!Put(d, kind, x, p))
    <3> SUFFICES ASSUME NEW d, NEW kind, NEW x, NEW p, PlanForm(d), x \in Plan!SlotSet
                 PROVE  PlanForm(Plan!Put(d, kind, x, p))
      OBVIOUS
    <3>1. PlanForm([d EXCEPT !.seven[x] = p])
      BY DEF PlanForm
    <3>2. PlanForm([d EXCEPT !.crew[x] = p])
      BY DEF PlanForm
    <3> QED BY <3>1, <3>2 DEF Plan!Put
  <2> HIDE DEF out
  <2>3. PlanForm(one)
    BY <2>1, <2>2
  <2> HIDE DEF one
  <2>4. PlanForm(in)
    BY <2>2, <2>3
  <2>5. Plan!SwappedPeople(s, t) = Plan!Free(Plan!Normalized(in, Plan!Relief(planDay)))
    BY DEF Plan!SwappedPeople, in, one, out
  <2> HIDE DEF in
  <2>6. PlanForm(Plan!Normalized(in, Plan!Relief(planDay)))
    BY <2>4, NormalizedApart
  <2> QED BY <2>5, <2>6, FreeApart
<1>3. Apart(Plan!SwappedPosts(s, t))
  <2> DEFINE post == Plan!Swap(planDay.post, s, t)
             seven == Plan!Swap(planDay.seven, s, t)
             crew == Plan!Swap(planDay.crew, s, t)
             d == [planDay EXCEPT !.post = post, !.seven = seven, !.crew = crew]
  <2>1. PlanForm(d)
    <3>1. DOMAIN seven = Plan!SlotSet /\ DOMAIN crew = Plan!SlotSet
      BY DEF Plan!Swap
    <3> HIDE DEF post, seven, crew
    <3> QED BY <1>1, <3>1 DEF PlanForm
  <2>2. \E before : Plan!SwappedPosts(s, t) = Plan!Free(Plan!Normalized(d, before))
    BY DEF Plan!SwappedPosts
  <2> HIDE DEF d
  <2> QED BY <2>1, <2>2, NormalizedApart, FreeApart
<1> QED BY <1>2, <1>3

LEMMA PoolApart ==
    ASSUME PlanInv, NEW p, NEW t \in Plan!SlotSet
    PROVE  Apart(Plan!SeatedFromPool(p, t))
<1> DEFINE out == Plan!Cleared(planDay, {t})
           put == Plan!Put(out, Plan!Kind(planDay, t), t, p)
           n == Plan!Normalized(put, Plan!Relief(planDay))
<1>1. PlanForm(planDay)
  BY NowApart DEF Apart
<1>2. PlanForm(out) /\ out.push7 = planDay.push7 /\ \A x : x \in Plan!Seated(out) => x \in Plan!Seated(planDay)
  <2>1. PlanForm(out) /\ out.push7 = planDay.push7
    BY <1>1, ClearedApart
  <2>2. \A x : x \in Plan!Seated(out) => x # None /\ \E s \in Plan!SlotSet : planDay.seven[s] = x \/ planDay.crew[s] = x
    BY <1>1, ClearedApart, SeatedIs
  <2> HIDE DEF out
  <2> QED BY <2>1, <2>2, SeatedIs
<1> HIDE DEF out
<1>3. PlanForm(put) /\ put.push7 = planDay.push7 /\ \A x \in planDay.push7 : x \in Plan!Seated(put) => x = p \/ x \in planBare
  BY <1>2, PutApart
<1> HIDE DEF put
<1>4. PlanForm(n) /\ (n = put \/ AllFree(n))
  BY <1>3, NormalizedApart
<1>5. \A x \in n.push7 : x \in Plan!Seated(n) => x = p \/ x \in planBare
  BY <1>3, <1>4 DEF AllFree
<1>6. Plan!SeatedFromPool(p, t) = [n EXCEPT !.push7 = n.push7 \ {p}]
  BY DEF Plan!SeatedFromPool, n, put, out
<1> HIDE DEF n
<1> DEFINE w == [n EXCEPT !.push7 = n.push7 \ {p}]
<1>7. PlanForm(w) /\ w.push7 = n.push7 \ {p} /\ Plan!Seated(w) = Plan!Seated(n)
  BY <1>4, WithdrawnApart
<1> HIDE DEF w
<1> QED BY <1>5, <1>6, <1>7 DEF Apart, DueFree, w

\* What an edit writes beside the seats and the relievers.
LEMMA Beside ==
    ASSUME NEW d, PlanForm(d), NEW x
    PROVE  \A e \in {[d EXCEPT !.early = x], [d EXCEPT !.post = x], [d EXCEPT !.standby = x], [d EXCEPT !.role = x],
                     [d EXCEPT !.paired = x], [d EXCEPT !.targets = x]} :
              PlanForm(e) /\ e.push7 = d.push7 /\ Plan!Seated(e) = Plan!Seated(d)
<1> SUFFICES ASSUME NEW e \in {[d EXCEPT !.early = x], [d EXCEPT !.post = x], [d EXCEPT !.standby = x],
                               [d EXCEPT !.role = x], [d EXCEPT !.paired = x], [d EXCEPT !.targets = x]}
             PROVE  PlanForm(e) /\ e.push7 = d.push7 /\ Plan!Seated(e) = Plan!Seated(d)
  OBVIOUS
<1>1. DOMAIN e = DOMAIN d /\ e.push7 = d.push7 /\ e.seven = d.seven /\ e.crew = d.crew
  BY DEF PlanForm
<1> QED BY <1>1 DEF PlanForm, Plan!Seated

LEMMA BesideApart ==
    ASSUME NEW d, Apart(d), NEW x
    PROVE  /\ Apart([d EXCEPT !.early = x]) /\ Apart([d EXCEPT !.post = x]) /\ Apart([d EXCEPT !.standby = x])
           /\ Apart([d EXCEPT !.role = x]) /\ Apart([d EXCEPT !.paired = x])
BY Beside DEF Apart, DueFree

LEMMA NormalizedStays ==
    ASSUME NEW d, NEW before, Apart(d)
    PROVE  Apart(Plan!Normalized(d, before))
BY StaysApart DEF Apart

LEMMA FewerApart ==
    ASSUME NEW d, NEW e, Apart(d), PlanForm(e), e.push7 \subseteq d.push7,
           \A x : x \in Plan!Seated(e) => x \in Plan!Seated(d)
    PROVE  Apart(e)
BY FewerSeated DEF Apart

LEMMA PostApart ==
    ASSUME PlanInv, NEW s \in Plan!SlotSet
    PROVE  /\ Apart(Plan!Held(s)) /\ Apart(Plan!Unheld(s)) /\ Apart(Plan!OpenedPost(s)) /\ Apart(Plan!ClosedPost(s))
<1>1. Apart(planDay)
  BY NowApart
<1>2. Apart(Plan!Held(s)) /\ Apart(Plan!Unheld(s))
  <2>1. \A x : Apart([planDay EXCEPT !.post = x])
    BY <1>1, BesideApart
  <2>2. /\ Plan!Held(s) = [planDay EXCEPT !.post = [planDay.post EXCEPT ![s].hold = Plan!SeatOf(planDay, s)]]
        /\ Plan!Unheld(s) = [planDay EXCEPT !.post = [planDay.post EXCEPT ![s].hold = None]]
    BY DEF Plan!Held, Plan!Unheld
  <2> QED BY <2>1, <2>2
<1>3. Apart(Plan!OpenedPost(s))
  <2> DEFINE open == [planDay.post EXCEPT ![s].closed = FALSE]
  <2>1. Apart([planDay EXCEPT !.post = open])
    BY <1>1, BesideApart
  <2>2. Plan!OpenedPost(s) = Plan!Normalized([planDay EXCEPT !.post = open], Plan!Relief(planDay))
    BY DEF Plan!OpenedPost
  <2> QED BY <2>1, <2>2, NormalizedStays
<1>4. Apart(Plan!ClosedPost(s))
  <2> DEFINE c == Plan!Cleared(planDay, {s})
             d == Plan!Binding(c, planDay.seven[s] # None)
             shut == [d.post EXCEPT ![s].closed = TRUE]
  <2>1. Apart(c)
    <3>1. PlanForm(c) /\ c.push7 = planDay.push7
      BY <1>1, ClearedApart DEF Apart
    <3>2. \A x : x \in Plan!Seated(c) => x # None /\ \E y \in Plan!SlotSet : planDay.seven[y] = x \/ planDay.crew[y] = x
      BY <1>1, ClearedApart, SeatedIs DEF Apart
    <3> HIDE DEF c
    <3>3. \A x : x \in Plan!Seated(c) => x \in Plan!Seated(planDay)
      BY <3>2, SeatedIs
    <3> QED BY <1>1, <3>1, <3>3, FewerApart
  <2> HIDE DEF c
  <2>2. Apart(d)
    BY <2>1, BesideApart DEF Plan!Binding
  <2>3. Plan!ClosedPost(s) = Plan!Normalized([d EXCEPT !.post = shut], Plan!Relief(planDay))
    BY DEF Plan!ClosedPost, d, c
  <2> HIDE DEF d
  <2>4. Apart([d EXCEPT !.post = shut])
    BY <2>2, BesideApart
  <2> QED BY <2>3, <2>4, NormalizedStays
<1> QED BY <1>2, <1>3, <1>4

LEMMA LineApart ==
    ASSUME PlanInv, NEW l
    PROVE  Apart(Plan!Parked(l)) /\ Apart(Plan!Unparked(l))
<1>1. Apart(planDay)
  BY NowApart
<1>2. Apart(Plan!Unparked(l))
  <2>1. \A x : Apart([planDay EXCEPT !.standby = x])
    BY <1>1, BesideApart
  <2>2. Plan!Unparked(l) = [planDay EXCEPT !.standby = [planDay.standby EXCEPT ![l] = FALSE]]
    BY DEF Plan!Unparked
  <2> QED BY <2>1, <2>2
<1>3. Apart(Plan!Parked(l))
  <2> DEFINE slots == {s \in Plan!SlotSet : LineOf[s] = l}
             c == Plan!Cleared(planDay, slots)
             d == Plan!Binding(c, slots \cap Plan!Filled(planDay.seven) # {})
             off == [d.standby EXCEPT ![l] = TRUE]
  <2>1. Apart(c)
    <3>1. PlanForm(c) /\ c.push7 = planDay.push7
      BY <1>1, ClearedApart DEF Apart
    <3>2. \A x : x \in Plan!Seated(c) => x # None /\ \E y \in Plan!SlotSet : planDay.seven[y] = x \/ planDay.crew[y] = x
      BY <1>1, ClearedApart, SeatedIs DEF Apart
    <3> HIDE DEF c
    <3>3. \A x : x \in Plan!Seated(c) => x \in Plan!Seated(planDay)
      BY <3>2, SeatedIs
    <3> QED BY <1>1, <3>1, <3>3, FewerApart
  <2> HIDE DEF c
  <2>2. Apart(d)
    BY <2>1, BesideApart DEF Plan!Binding
  <2>3. Plan!Parked(l) = Plan!Normalized([d EXCEPT !.standby = off], Plan!Relief(planDay))
    BY DEF Plan!Parked, d, c
  <2> HIDE DEF d
  <2>4. Apart([d EXCEPT !.standby = off])
    BY <2>2, BesideApart
  <2> QED BY <2>3, <2>4, NormalizedStays
<1> QED BY <1>2, <1>3

\* Whoever is sent off the posts and off the list.
LEMMA OffApart ==
    ASSUME PlanInv, NEW p
    PROVE  LET v == Plan!Vacated(planDay, {p}) IN Apart([v EXCEPT !.push7 = v.push7 \ {p}])
<1> DEFINE v == Plan!Vacated(planDay, {p})
           w == [v EXCEPT !.push7 = v.push7 \ {p}]
<1>1. Apart(planDay)
  BY NowApart
<1>2. PlanForm(v) /\ v.push7 = planDay.push7 /\ \A x : x \in Plan!Seated(v) => x \in Plan!Seated(planDay)
  BY <1>1, VacatedApart DEF Apart
<1> HIDE DEF v
<1>3. PlanForm(w) /\ w.push7 = v.push7 \ {p} /\ Plan!Seated(w) = Plan!Seated(v)
  BY <1>2, WithdrawnApart
<1> HIDE DEF w
<1>4. Apart(w)
  BY <1>1, <1>2, <1>3, FewerApart
<1> QED BY <1>4 DEF w, v

LEMMA PersonApart ==
    ASSUME PlanInv, NEW p
    PROVE  Apart(Plan!Shifted(p)) /\ Apart(Plan!SentAway(p)) /\ Apart(Plan!Unrolled(p)) /\ Apart(Plan!Rolled(p))
<1>1. Apart(planDay)
  BY NowApart
<1>2. Apart(Plan!Shifted(p))
  <2> DEFINE early == [planDay.early EXCEPT ![p] = ~planDay.early[p]]
  <2>1. Apart([planDay EXCEPT !.early = early])
    BY <1>1, BesideApart
  <2>2. Plan!Shifted(p) = Plan!Normalized([planDay EXCEPT !.early = early], Plan!Relief(planDay))
    BY DEF Plan!Shifted
  <2> QED BY <2>1, <2>2, NormalizedStays
<1>3. Apart(Plan!SentAway(p))
  <2> DEFINE v == Plan!Vacated(planDay, {p})
             w == [v EXCEPT !.push7 = v.push7 \ {p}]
  <2>1. Apart(w)
    BY OffApart
  <2>2. Plan!SentAway(p) = Plan!Normalized(w, Plan!Relief(planDay))
    BY DEF Plan!SentAway
  <2> HIDE DEF w
  <2> QED BY <2>1, <2>2, NormalizedStays
<1>4. Apart(Plan!Unrolled(p))
  <2> DEFINE v == Plan!Vacated(planDay, {p})
             w == [v EXCEPT !.push7 = v.push7 \ {p}]
             role == [v.role EXCEPT ![p] = "op"]
             targets == [q \in DOMAIN v.targets \ {p} |-> v.targets[q]]
             d == [v EXCEPT !.push7 = v.push7 \ {p}, !.role = role, !.targets = targets]
  <2>1. Apart(w) /\ PlanForm(v)
    BY <1>1, OffApart, VacatedApart DEF Apart
  <2> HIDE DEF v, role, targets
  <2>2. d.push7 = w.push7 /\ d.seven = w.seven /\ d.crew = w.crew /\ DOMAIN d = DOMAIN w
    <3> DEFINE left == v.push7 \ {p}
    <3> HIDE DEF left
    <3>1. LET e == [v EXCEPT !.push7 = left, !.role = role, !.targets = targets]
          IN e.push7 = left /\ e.seven = v.seven /\ e.crew = v.crew /\ DOMAIN e = DOMAIN v
      BY <2>1 DEF PlanForm
    <3>2. LET e == [v EXCEPT !.push7 = left]
          IN e.push7 = left /\ e.seven = v.seven /\ e.crew = v.crew /\ DOMAIN e = DOMAIN v
      BY <2>1 DEF PlanForm
    <3> QED BY <3>1, <3>2 DEF left
  <2>3. Plan!Unrolled(p) = Plan!Settled(d)
    BY DEF Plan!Unrolled, v, role, targets
  <2> HIDE DEF d, w
  <2>4. PlanForm(d) /\ DueFree(d)
    BY <2>1, <2>2 DEF Apart, PlanForm, DueFree, Plan!Seated
  <2> QED BY <2>3, <2>4, SettledApart DEF Apart
<1>5. Apart(Plan!Rolled(p))
  <2> DEFINE role == [planDay.role EXCEPT ![p] = "rotation"]
  <2>1. Apart([planDay EXCEPT !.role = role])
    BY <1>1, BesideApart
  <2>2. Plan!Rolled(p) = Plan!Settled([planDay EXCEPT !.role = role])
    BY DEF Plan!Rolled
  <2> QED BY <2>1, <2>2, SettledApart DEF Apart
<1> QED BY <1>2, <1>3, <1>4, <1>5

LEMMA AssignApart ==
    ASSUME PlanInv, NEW s \in Plan!SlotSet, NEW p
    PROVE  Apart(Plan!Assigned(s, p))
<1> DEFINE c == Plan!Cleared(planDay, {s})
           out == Plan!Vacated(c, {p} \ {None})
           put == Plan!Put(out, Plan!Kind(planDay, s), s, p)
           w == [put EXCEPT !.push7 = put.push7 \ {p}]
<1>1. PlanForm(planDay)
  BY NowApart DEF Apart
<1>2. PlanForm(c) /\ c.push7 = planDay.push7
  BY <1>1, ClearedApart
<1>3. \A x : x \in Plan!Seated(c) => x \in Plan!Seated(planDay)
  <2>1. \A x : x \in Plan!Seated(c) => x # None /\ \E y \in Plan!SlotSet : planDay.seven[y] = x \/ planDay.crew[y] = x
    BY <1>1, ClearedApart, SeatedIs
  <2> HIDE DEF c
  <2> QED BY <2>1, SeatedIs
<1> HIDE DEF c
<1>4. PlanForm(out) /\ out.push7 = planDay.push7 /\ \A x : x \in Plan!Seated(out) => x \in Plan!Seated(planDay)
  BY <1>2, <1>3, VacatedApart
<1> HIDE DEF out
<1>5. PlanForm(put) /\ put.push7 = planDay.push7 /\ \A x \in planDay.push7 : x \in Plan!Seated(put) => x = p \/ x \in planBare
  BY <1>4, PutApart
<1> HIDE DEF put
<1>6. PlanForm(w) /\ w.push7 = put.push7 \ {p} /\ Plan!Seated(w) = Plan!Seated(put)
  BY <1>5, WithdrawnApart
<1>7. Plan!Assigned(s, p) = Plan!Settled(w)
  BY DEF Plan!Assigned, w, put, out, c
<1> HIDE DEF w
<1>8. DueFree(w)
  BY <1>5, <1>6 DEF DueFree
<1> QED BY <1>6, <1>7, <1>8, SettledApart DEF Apart

LEMMA ListApart ==
    ASSUME PlanInv, NEW choice
    PROVE  PlanForm(Plan!Listed(choice)) /\ AllFree(Plan!Listed(choice))
<1> DEFINE due == {choice[s] : s \in Plan!Filled(planDay.seven)} \ {None}
           First7(p) == CHOOSE s \in Plan!Filled(planDay.seven) : choice[s] = p
                      /\ \A t \in Plan!Filled(planDay.seven) :
                            choice[t] = p => Plan!Order(planDay, s) <= Plan!Order(planDay, t)
           targets == [p \in due |-> planDay.seven[First7(p)]]
           d == [planDay EXCEPT !.paired = TRUE, !.push7 = due, !.targets = targets]
<1>1. PlanForm(planDay)
  BY NowApart DEF Apart
<1>2. d.paired = TRUE /\ d.seven = planDay.seven /\ d.crew = planDay.crew /\ DOMAIN d = DOMAIN planDay
  <2> HIDE DEF due, targets
  <2> QED BY <1>1 DEF PlanForm
<1>3. Plan!Listed(choice) = Plan!Normalized(d, Plan!Relief(d))
  BY DEF Plan!Listed
<1> HIDE DEF d
<1>4. PlanForm(d)
  BY <1>1, <1>2 DEF PlanForm
<1> QED BY <1>2, <1>3, <1>4, NormalizedApart

\* Of a list given without the posts only those it names may be due and seated.
LEMMA NameApart ==
    ASSUME PlanInv, NEW list
    PROVE  LET n == Plan!Named(list)
           IN PlanForm(n) /\ n.push7 \cap Plan!Seated(n) \subseteq Plan!Range(list) \cap Plan!Seated(planDay)
<1> DEFINE turn == Plan!Turns(list)
           named == Plan!Range(list)
           d == [planDay EXCEPT !.paired = FALSE, !.targets = << >>, !.push7 = named, !.turn = turn]
<1>1. PlanForm(planDay)
  BY NowApart DEF Apart
<1>2. d.push7 = named /\ d.seven = planDay.seven /\ d.crew = planDay.crew /\ DOMAIN d = DOMAIN planDay
  <2> HIDE DEF turn, named
  <2> QED BY <1>1 DEF PlanForm
<1>3. Plan!Named(list) = Plan!Normalized(d, Plan!Relief(d))
  BY DEF Plan!Named
<1> HIDE DEF d
<1>4. PlanForm(d) /\ Plan!Seated(d) = Plan!Seated(planDay)
  BY <1>1, <1>2 DEF PlanForm, Plan!Seated
<1> QED BY <1>2, <1>3, <1>4, NormalizedApart DEF AllFree

LEMMA SlotsFinite == IsFiniteSet(Plan!SlotSet)
<1>1. IsFiniteSet(DOMAIN Slots) /\ DOMAIN Slots = 1..Len(Slots) /\ Len(Slots) \in Nat
  BY PlanAssumption, LenProperties, FS_Interval
<1>2. Slots \in Surjection(DOMAIN Slots, Plan!SlotSet)
  BY PlanAssumption DEF Surjection, Plan!SlotSet, Plan!Range
<1> QED BY <1>1, <1>2, FS_Surjection

LEMMA SamePlaces == \A S : Plan!Cardinality(S) = Cardinality(S)
  BY DEF Plan!Cardinality, Cardinality, Plan!IsFiniteSet, IsFiniteSet

LEMMA DraftApart == PlanForm(Plan!Drafted) /\ AllFree(Plan!Drafted)
<1> DEFINE Place(s) == Plan!Cardinality({t \in Plan!SlotSet : 0 < SevenRank[t] /\ SevenRank[t] <= SevenRank[s]})
           early == {s \in Plan!SlotSet : SevenRank[s] > 0 /\ Place(s) \in DOMAIN Sevens}
           n == Plan!Cardinality(early)
           Open(s) == {i \in DOMAIN Slots : Slots[i] \notin early /\ \E j \in DOMAIN Slots : Slots[j] = s /\ i <= j}
           Turn(s) == n + Plan!Cardinality(Open(s))
           seven == [s \in Plan!SlotSet |-> IF s \in early THEN Sevens[Place(s)] ELSE None]
           crew == [s \in Plan!SlotSet |-> IF s \notin early /\ Turn(s) \in DOMAIN Opens THEN Opens[Turn(s)] ELSE None]
           push7 == {Opens[i] : i \in DOMAIN Opens \cap 1..n}
           d == Plan!Drafted
<1>1. d.seven = seven /\ d.crew = crew /\ d.push7 = push7
      /\ DOMAIN d = {"seven", "crew", "push7", "turn", "paired", "targets", "post", "standby", "role", "early"}
  BY DEF Plan!Drafted
<1>2. n \in Nat /\ IsFiniteSet(DOMAIN Slots) /\ DOMAIN Slots \subseteq Nat /\ DOMAIN Opens \subseteq Nat
  <2>1. IsFiniteSet(early)
    BY SlotsFinite, FS_Subset
  <2>2. n \in Nat
    BY <2>1, SamePlaces, FS_CardinalityType
  <2>3. DOMAIN Slots = 1..Len(Slots) /\ Len(Slots) \in Nat /\ DOMAIN Opens = 1..Len(Opens) /\ Len(Opens) \in Nat
    BY PlanAssumption, LenProperties
  <2>4. IsFiniteSet(1..Len(Slots))
    BY <2>3, FS_Interval
  <2> HIDE DEF n
  <2> QED BY <2>2, <2>3, <2>4
<1>3. \A s \in Plan!SlotSet : s \notin early => Turn(s) \in Nat /\ Turn(s) > n
  <2> SUFFICES ASSUME NEW s \in Plan!SlotSet, s \notin early PROVE Turn(s) \in Nat /\ Turn(s) > n
    OBVIOUS
  <2>1. PICK i \in DOMAIN Slots : Slots[i] = s
    BY DEF Plan!SlotSet, Plan!Range
  <2>2. i \in Open(s)
    <3>1. i <= i
      BY <1>2
    <3> QED BY <2>1, <3>1
  <2>3. IsFiniteSet(Open(s))
    BY <1>2, FS_Subset
  <2> DEFINE open == Open(s)
  <2>4. Cardinality(open) \in Nat /\ Cardinality(open) # 0
    <3> HIDE DEF open, Open
    <3> QED BY <2>2, <2>3, FS_CardinalityType, FS_EmptySet DEF open
  <2>5. Turn(s) = n + Cardinality(open)
    BY SamePlaces
  <2> HIDE DEF open, n, Turn
  <2> QED BY <1>2, <2>4, <2>5
<1> HIDE DEF d, n, Turn, Place
<1>4. PlanForm(d)
  <2>1. DOMAIN seven = Plan!SlotSet /\ DOMAIN crew = Plan!SlotSet
    OBVIOUS
  <2> HIDE DEF seven, crew
  <2> QED BY <1>1, <2>1 DEF PlanForm
<1>5. ASSUME NEW i \in DOMAIN Opens, i <= n, Opens[i] \in Plan!Seated(d) PROVE FALSE
  <2>1. PICK s \in Plan!SlotSet : seven[s] = Opens[i] \/ crew[s] = Opens[i]
    BY <1>1, <1>5, SeatedIs
  <2>2. Opens[i] # None
    BY PlanAssumption
  <2>3. CASE seven[s] = Opens[i]
    <3>1. s \in early /\ Opens[i] = Sevens[Place(s)] /\ Place(s) \in DOMAIN Sevens
      BY <2>2, <2>3
    <3> QED BY <3>1, PlanAssumption
  <2>4. CASE crew[s] = Opens[i]
    <3>1. s \notin early /\ Opens[i] = Opens[Turn(s)] /\ Turn(s) \in DOMAIN Opens
      BY <2>2, <2>4
    <3>2. Turn(s) = i
      BY <3>1, PlanAssumption
    <3> HIDE DEF early
    <3> QED BY <1>2, <1>3, <1>5, <3>1, <3>2
  <2> QED BY <2>1, <2>3, <2>4
<1>6. AllFree(d)
  <2>1. \A x \in d.push7 : \E i \in DOMAIN Opens : i <= n /\ x = Opens[i]
    BY <1>1, <1>2
  <2> QED BY <1>5, <2>1 DEF AllFree
<1> QED BY <1>4, <1>6 DEF d

LEMMA PlanBegins == Plan!Init => PlanInv
<1> SUFFICES ASSUME Plan!Init PROVE PlanInv
  OBVIOUS
<1>1. planDay = Plan!Drafted /\ planStatus = "none"
  BY DEF Plan!Init
<1> QED BY <1>1, DraftApart DEF PlanInv, AllFree, Plan!PlanKept, Plan!RelieversFree, Plan!BoardIsPlan

\* A whole plan, saved or begun, is on the board while it is live.
LEMMA Replanned ==
    ASSUME Apart(planDay)', planStatus' = "live" => planBoard' = Plan!Shown(planDay')
    PROVE  PlanInv'
BY DEF PlanInv, Apart, DueFree, Plan!PlanKept, Plan!RelieversFree, Plan!BoardIsPlan, Plan!Shown

LEMMA SavedPlan ==
    ASSUME PlanInv, NEW d, NEW counted, Apart(d), Plan!Save(d, counted)
    PROVE  PlanInv'
<1>1. planDay' = d /\ planStatus' = planStatus /\ (planStatus = "live" => planBoard' = Plan!Shown(d))
      /\ planBare' = planBare
  BY DEF Plan!Save, Plan!Saves
<1>2. Apart(planDay)'
  BY <1>1 DEF Apart, PlanForm, DueFree, Plan!Seated, Plan!Filled
<1> QED BY <1>1, <1>2, Replanned

LEMMA PlanStep == PlanInv /\ [Plan!Next]_(Plan!dayVars) => PlanInv'
<1> SUFFICES ASSUME PlanInv, [Plan!Next]_(Plan!dayVars) PROVE PlanInv'
  OBVIOUS
<1>1. CASE UNCHANGED Plan!dayVars
  BY <1>1 DEF Plan!dayVars, PlanInv, PlanForm, Plan!PlanKept, Plan!RelieversFree, Plan!BoardIsPlan, Plan!Shown,
     Plan!SeatOf, Plan!Seated, Plan!Filled
<1>2. CASE Plan!Edit
  <2>1. ASSUME NEW s \in Plan!SlotSet, NEW t \in Plan!SlotSet, Plan!SwapPeople(s, t) \/ Plan!SwapPosts(s, t)
        PROVE  PlanInv'
    BY <2>1, ExchangeApart, SavedPlan DEF Plan!SwapPeople, Plan!SwapPosts
  <2>2. ASSUME NEW p \in Plan!People, Plan!Shift(p) \/ Plan!SickOrAway(p) \/ Plan!Role(p) PROVE PlanInv'
    BY <2>2, PersonApart, SavedPlan DEF Plan!Shift, Plan!SickOrAway, Plan!Role
  <2>3. ASSUME NEW p \in Plan!People, NEW t \in Plan!SlotSet, Plan!FromPool(p, t) PROVE PlanInv'
    BY <2>3, PoolApart, SavedPlan DEF Plan!FromPool
  <2>4. ASSUME NEW s \in Plan!SlotSet, Plan!Hold(s) \/ Plan!Resume(s) \/ Plan!OpenPost(s) \/ Plan!ClosePost(s)
        PROVE  PlanInv'
    BY <2>4, PostApart, SavedPlan DEF Plan!Hold, Plan!Resume, Plan!OpenPost, Plan!ClosePost
  <2>5. ASSUME NEW l \in Plan!Lines, Plan!LineOff(l) \/ Plan!LineOn(l) PROVE PlanInv'
    BY <2>5, LineApart, SavedPlan DEF Plan!LineOff, Plan!LineOn
  <2>6. ASSUME NEW s \in Plan!SlotSet, NEW p \in Plan!People \cup {None}, Plan!Assign(s, p) PROVE PlanInv'
    BY <2>6, AssignApart, SavedPlan DEF Plan!Assign
  <2> QED BY <1>2, <2>1, <2>2, <2>3, <2>4, <2>5, <2>6 DEF Plan!Edit
<1>3. ASSUME NEW choice, Plan!List(choice) PROVE PlanInv'
  <2>1. planDay' = Plan!Listed(choice) /\ (planStatus' = "live" => planBoard' = Plan!Shown(Plan!Listed(choice)))
    BY <1>3 DEF Plan!List, Plan!Saves
  <2>2. PlanForm(planDay') /\ AllFree(planDay')
    BY <2>1, ListApart
  <2> QED BY <2>1, <2>2, Replanned DEF Apart, AllFree, DueFree
<1>4. CASE Plan!Generate
  <2>1. planDay' = Plan!Drafted /\ planStatus' = "draft"
    BY <1>4 DEF Plan!Generate
  <2>2. Apart(planDay)'
    BY <2>1, DraftApart DEF Apart, AllFree, DueFree
  <2> QED BY <2>1, <2>2, Replanned
<1>5. CASE Plan!Discard
  <2>1. planDay' = Plan!Drafted /\ planStatus' = "none"
    BY <1>5 DEF Plan!Discard
  <2>2. Apart(planDay)'
    BY <2>1, DraftApart DEF Apart, AllFree, DueFree
  <2> QED BY <2>1, <2>2, Replanned
<1>6. CASE Plan!AutoStart
  <2>1. PICK d : planDay' = d /\ planStatus' = "live" /\ planBoard' = Plan!Shown(d) /\ (d = Plan!Drafted \/ (d = planDay /\ planBare' = planBare))
    BY <1>6 DEF Plan!AutoStart, Plan!TakesEffect
  <2>2. PlanForm(d) /\ (AllFree(d) \/ (DueFree(d) /\ planBare' = planBare))
    BY <2>1, DraftApart, NowApart DEF Apart
  <2>3. Apart(planDay)'
    BY <2>1, <2>2 DEF Apart, AllFree, DueFree, PlanForm, Plan!Seated, Plan!Filled
  <2> QED BY <2>1, <2>3, Replanned
<1>7. CASE Plan!Publish \/ Plan!Upload \/ Plan!DayComes \/ Plan!FirstShift
  <2>1. planDay' = planDay /\ planBare' = planBare /\ (planStatus' = "live" => planBoard' = Plan!Shown(planDay))
    BY <1>7 DEF Plan!Publish, Plan!Upload, Plan!DayComes, Plan!FirstShift, Plan!TakesEffect, PlanInv, Plan!PlanKept,
       Plan!BoardIsPlan
  <2>2. Apart(planDay)'
    BY <2>1, NowApart DEF Apart, DueFree, PlanForm, Plan!Seated, Plan!Filled
  <2> QED BY <2>1, <2>2, Replanned
<1>8. ASSUME NEW list, Plan!Name(list) PROVE PlanInv'
  <2>1. planDay' = Plan!Named(list) /\ (planStatus' = "live" => planBoard' = Plan!Shown(Plan!Named(list)))
        /\ planBare' = Plan!Range(list) \cap Plan!Seated(planDay)
    BY <1>8 DEF Plan!Name, Plan!Saves
  <2> DEFINE n == Plan!Named(list)
  <2>2. PlanForm(n) /\ n.push7 \cap Plan!Seated(n) \subseteq planBare'
    BY <2>1, NameApart DEF n
  <2>3. Apart(planDay)'
    <3> HIDE DEF n
    <3>1. planDay' = n
      BY <2>1 DEF n
    <3> QED BY <2>2, <3>1 DEF Apart, DueFree, PlanForm, Plan!Seated, Plan!Filled
  <2> QED BY <2>1, <2>3, Replanned
<1> QED BY <1>1, <1>2, <1>3, <1>4, <1>5, <1>6, <1>7, <1>8 DEF Plan!Next

-----------------------------------------------------------------------------
-----------------------------------------------------------------------------
(* One employee. *)

PersonRoles == {"CM", "SUPERVISOR", "TA_SUPERVISOR", "TA_GSM"}
PersonRows == [role : PersonRoles, from : Nat, to : Nat, cancelled : BOOLEAN]
PersonTypes ==
    /\ jobToday \in 1..LastDay
    /\ jobEmp \in [hired : Nat, gone : Nat, active : BOOLEAN, deleted : Nat, kind : Person!Kinds, ends : Nat]
    /\ jobAccount \in [has : BOOLEAN, on : BOOLEAN, offAt : Nat]
    /\ jobCycles \in Seq([from : Nat, to : Nat])
    /\ jobBases \in Seq(PersonRows) /\ jobDuties \in Seq(PersonRows)
\* An account tells since when it has been off; who is not archived has one.
AccountTells ==
    /\ Person!OffTimeTrue
    /\ jobAccount.on => jobAccount.offAt = 0
    /\ jobEmp.deleted = 0 => jobAccount.has
\* What the history of an employment is by whether it goes on.
HistoryTells ==
    /\ jobEmp.deleted = 0 => jobEmp.gone = 0 /\ jobEmp.active
    /\ jobEmp.deleted # 0 => ~jobEmp.active /\ jobCycles # << >>
    /\ jobCycles = << >> => jobEmp.hired = 1
    /\ jobBases # << >> /\ jobBases[Len(jobBases)].to = Person!Forever
PersonInv == PersonTypes /\ AccountTells /\ HistoryTells

LEMMA ARow ==
    ASSUME NEW role \in PersonRoles, NEW from \in Nat, NEW to \in Nat
    PROVE  [role |-> role, from |-> from, to |-> to, cancelled |-> FALSE] \in PersonRows
BY DEF PersonRows

LEMMA PersonBegins == Person!Init => PersonInv
<1> SUFFICES ASSUME Person!Init PROVE PersonInv
  OBVIOUS
<1> DEFINE first == [role |-> "CM", from |-> 1, to |-> LastDay + 1, cancelled |-> FALSE]
<1>1. jobToday = 1 /\ jobCycles = << >> /\ jobDuties = << >> /\ jobBases = <<first>> /\ jobOffSince = 0
      /\ jobAccount = [has |-> TRUE, on |-> TRUE, offAt |-> 0]
      /\ jobEmp = [hired |-> 1, gone |-> 0, active |-> TRUE, deleted |-> 0, kind |-> "regular", ends |-> 0]
  BY DEF Person!Init, Person!NewAccount, Person!Row, Person!Forever
<1>2. first \in PersonRows
  <2>1. LastDay + 1 \in Nat /\ 1 \in Nat
    BY CalendarAssumption
  <2>2. "CM" \in PersonRoles
    BY DEF PersonRoles
  <2> QED BY <2>1, <2>2, ARow
<1>3. first.to = Person!Forever /\ first.from = 1
  BY DEF first, Person!Forever
<1>4. <<first>> \in Seq(PersonRows) /\ Len(<<first>>) = 1 /\ <<first>>[1] = first /\ <<first>> # << >>
  <2> HIDE DEF first
  <2> QED BY <1>2
<1> HIDE DEF first
<1>5. PersonTypes
  BY <1>1, <1>2, <1>4, CalendarAssumption DEF PersonTypes, Person!Kinds
<1>6. AccountTells
  BY <1>1 DEF AccountTells, Person!OffTimeTrue
<1>7. HistoryTells
  BY <1>1, <1>3, <1>4 DEF HistoryTells
<1> QED BY <1>5, <1>6, <1>7 DEF PersonInv

\* What a request leaves of an account, for the employee it leaves.
LEMMA ExpiredIs ==
    ASSUME PersonTypes, NEW e, NEW a \in [has : BOOLEAN, on : BOOLEAN, offAt : Nat]
    PROVE  LET x == Person!Expired(e, a)
           IN /\ x \in [has : BOOLEAN, on : BOOLEAN, offAt : Nat] /\ x.has = a.has
              /\ x = a \/ (a.on /\ a.has /\ Person!Due(e) /\ ~x.on /\ x.offAt = jobToday)
              /\ x.on /\ Person!Due(e) /\ e.deleted = 0 => a.on /\ ~a.has
<1>1. CASE a.has /\ a.on /\ Person!Due(e) /\ e.deleted = 0
  <2>1. Person!Expired(e, a) = [a EXCEPT !.on = FALSE, !.offAt = jobToday]
    BY <1>1 DEF Person!Expired
  <2>2. jobToday \in Nat
    BY CalendarAssumption DEF PersonTypes
  <2> QED BY <1>1, <2>1, <2>2
<1>2. CASE ~(a.has /\ a.on /\ Person!Due(e) /\ e.deleted = 0)
  <2>1. Person!Expired(e, a) = a
    BY <1>2 DEF Person!Expired
  <2> QED BY <1>2, <2>1
<1> QED BY <1>1, <1>2

-----------------------------------------------------------------------------
(* What a change of the dated rows leaves of the days gone by. *)

\* Two histories tell the same of the days before today.
SamePast(past, new) ==
    /\ DOMAIN past \subseteq DOMAIN new
    /\ \A i \in DOMAIN past : new[i].role = past[i].role
    /\ \A i \in DOMAIN past : \A d \in 1 .. jobToday - 1 : Person!Covers(new[i], d) <=> Person!Covers(past[i], d)
    /\ \A i \in DOMAIN new \ DOMAIN past : new[i].from >= jobToday

LEMMA PastCovering ==
    ASSUME jobToday \in Nat, NEW past \in Seq(PersonRows), NEW new \in Seq(PersonRows), SamePast(past, new),
           NEW d \in 1 .. jobToday - 1
    PROVE  Person!Covering(new, d) = Person!Covering(past, d)
           /\ \A i \in Person!Covering(past, d) : i \in DOMAIN past /\ new[i].role = past[i].role
<1>1. ASSUME NEW i \in DOMAIN new \ DOMAIN past PROVE ~Person!Covers(new[i], d)
  <2>1. new[i] \in PersonRows /\ new[i].from >= jobToday
    BY <1>1, ElementOfSeq DEF SamePast
  <2> QED BY <2>1 DEF Person!Covers, PersonRows
<1> QED BY <1>1 DEF SamePast, Person!Covering

\* A row that ends, or ends later, no earlier than yesterday, or that never was
\* before today, is the same row for the days gone by.
LEMMA SameBefore ==
    ASSUME jobToday \in Nat \ {0}, NEW r \in PersonRows, NEW x \in PersonRows, NEW d \in 1 .. jobToday - 1,
           x.from = r.from,
           \/ x.cancelled = r.cancelled /\ (x.to = r.to \/ (x.to >= jobToday - 1 /\ r.to >= jobToday - 1))
           \/ r.from >= jobToday
    PROVE  Person!Covers(x, d) <=> Person!Covers(r, d)
<1>1. r.from \in Nat /\ r.to \in Nat /\ x.to \in Nat /\ x.cancelled \in BOOLEAN /\ r.cancelled \in BOOLEAN
  BY DEF PersonRows
<1>2. CASE r.from >= jobToday
  BY <1>1, <1>2 DEF Person!Covers
<1>3. CASE ~(r.from >= jobToday)
  <2>1. d <= x.to <=> d <= r.to
    BY <1>1, <1>3
  <2>2. x.cancelled = r.cancelled
    BY <1>3
  <2> QED BY <2>1, <2>2 DEF Person!Covers
<1> QED BY <1>2, <1>3

\* One row changed.
LEMMA RowChanged ==
    ASSUME jobToday \in Nat \ {0}, NEW past \in Seq(PersonRows), NEW i, NEW x,
           i \in DOMAIN past => x \in PersonRows /\ x.role = past[i].role /\ x.from = past[i].from
               /\ (\/ x.cancelled = past[i].cancelled /\ x.to >= jobToday - 1 /\ past[i].to >= jobToday - 1
                   \/ past[i].from >= jobToday)
    PROVE  LET new == [past EXCEPT ![i] = x]
           IN new \in Seq(PersonRows) /\ Len(new) = Len(past) /\ SamePast(past, new)
<1> DEFINE new == [past EXCEPT ![i] = x]
<1>1. new \in Seq(PersonRows) /\ Len(new) = Len(past) /\ DOMAIN new = DOMAIN past
  <2>1. CASE i \in DOMAIN past
    BY <2>1, ExceptSeq
  <2>2. CASE i \notin DOMAIN past
    <3>1. new = past
      BY <2>2
    <3> QED BY <3>1
  <2> QED BY <2>1, <2>2
<1>2. ASSUME NEW j \in DOMAIN past
      PROVE  new[j].role = past[j].role /\ \A d \in 1 .. jobToday - 1 : Person!Covers(new[j], d) <=> Person!Covers(past[j], d)
  <2>1. CASE j # i
    BY <2>1
  <2>2. CASE j = i
    <3>1. new[j] = x /\ past[i] \in PersonRows
      BY <2>2, ElementOfSeq
    <3> HIDE DEF new
    <3> QED BY <2>2, <3>1, SameBefore
  <2> QED BY <2>1, <2>2
<1> HIDE DEF new
<1>3. SamePast(past, new)
  BY <1>1, <1>2 DEF SamePast
<1> QED BY <1>1, <1>3 DEF new

\* One more row, from today on.
LEMMA OneMore ==
    ASSUME jobToday \in Nat, NEW past \in Seq(PersonRows), NEW new \in Seq(PersonRows), NEW x \in PersonRows,
           SamePast(past, new), x.from = jobToday
    PROVE  Append(new, x) \in Seq(PersonRows) /\ SamePast(past, Append(new, x))
<1>1. Append(new, x) \in Seq(PersonRows) /\ DOMAIN Append(new, x) = DOMAIN new \cup {Len(new) + 1}
      /\ Append(new, x)[Len(new) + 1] = x /\ \A i \in DOMAIN new : Append(new, x)[i] = new[i]
  BY AppendProperties
<1> QED BY <1>1 DEF SamePast

LEMMA LatestOf ==
    ASSUME NEW past \in Seq(PersonRows), NEW d, Person!Covering(past, d) # {}
    PROVE  Person!Max(Person!Covering(past, d)) \in Person!Covering(past, d)
<1> DEFINE C == Person!Covering(past, d)
<1>1. C \subseteq 1 .. Len(past) /\ C \subseteq Nat
  BY DEF Person!Covering
<1>2. IsFiniteSet(C)
  <2>1. Len(past) \in Int /\ 1 \in Int
    OBVIOUS
  <2>2. IsFiniteSet(1 .. Len(past))
    BY <2>1, FS_Interval
  <2> HIDE DEF C
  <2> QED BY <1>1, <2>2, FS_Subset
<1>3. Leave!Max(C) \in C
  <2> HIDE DEF C
  <2> QED BY <1>1, <1>2, Greatest DEF C
<1>4. Person!Max(C) = Leave!Max(C)
  BY DEF Person!Max, Leave!Max
<1> QED BY <1>3, <1>4

LEMMA ActiveIs ==
    ASSUME PersonTypes
    PROVE  \/ Person!ActiveDuty \notin DOMAIN jobDuties
           \/ Person!Covers(jobDuties[Person!ActiveDuty], jobToday)
<1>1. CASE Person!Covering(jobDuties, jobToday) = {}
  BY <1>1 DEF Person!ActiveDuty, PersonTypes
<1>2. CASE Person!Covering(jobDuties, jobToday) # {}
  <2>1. Person!ActiveDuty \in Person!Covering(jobDuties, jobToday)
    BY <1>2, LatestOf DEF Person!ActiveDuty, PersonTypes
  <2> QED BY <2>1 DEF Person!Covering
<1> QED BY <1>1, <1>2

LEMMA TodayIs == PersonTypes => jobToday \in Nat \ {0} /\ Person!Forever \in Nat /\ jobToday < Person!Forever
  BY CalendarAssumption DEF PersonTypes, Person!Forever

\* The duty of today ends yesterday, or never began.
LEMMA EndedPast ==
    ASSUME PersonTypes
    PROVE  LET new == Person!DutyEnded(Person!ActiveDuty) IN new \in Seq(PersonRows) /\ SamePast(jobDuties, new)
<1> DEFINE i == Person!ActiveDuty
           new == Person!DutyEnded(i)
<1>1. i \in DOMAIN jobDuties => jobDuties[i] \in PersonRows /\ Person!Covers(jobDuties[i], jobToday)
  <2>1. jobDuties \in Seq(PersonRows)
    BY DEF PersonTypes
  <2>2. DOMAIN jobDuties = 1 .. Len(jobDuties)
    BY <2>1
  <2> HIDE DEF i
  <2> QED BY <2>1, <2>2, ElementOfSeq, ActiveIs DEF i
<1>2. jobDuties \in Seq(PersonRows) /\ jobToday \in Nat \ {0}
  BY TodayIs DEF PersonTypes
<1>3. ASSUME i = 0 PROVE new \in Seq(PersonRows) /\ SamePast(jobDuties, new)
  <2>1. new = jobDuties
    BY <1>3 DEF Person!DutyEnded
  <2>2. SamePast(jobDuties, jobDuties)
    BY DEF SamePast
  <2> QED BY <1>2, <2>1, <2>2
<1>4. ASSUME i # 0, jobDuties[i].from >= jobToday
      PROVE  new \in Seq(PersonRows) /\ SamePast(jobDuties, new)
  <2> DEFINE x == [jobDuties[i] EXCEPT !.cancelled = TRUE]
  <2>1. new = [jobDuties EXCEPT ![i] = x]
    BY <1>4 DEF Person!DutyEnded
  <2>2. i \in DOMAIN jobDuties => x \in PersonRows /\ x.role = jobDuties[i].role /\ x.from = jobDuties[i].from
    BY <1>1 DEF PersonRows
  <2> HIDE DEF new, i, x
  <2>3. [jobDuties EXCEPT ![i] = x] \in Seq(PersonRows) /\ SamePast(jobDuties, [jobDuties EXCEPT ![i] = x])
    BY <1>2, <1>4, <2>2, RowChanged
  <2> QED BY <2>1, <2>3
<1>5. ASSUME i # 0, ~(jobDuties[i].from >= jobToday)
      PROVE  new \in Seq(PersonRows) /\ SamePast(jobDuties, new)
  <2> DEFINE x == [jobDuties[i] EXCEPT !.to = jobToday - 1]
  <2>1. new = [jobDuties EXCEPT ![i] = x]
    BY <1>5 DEF Person!DutyEnded
  <2>2. i \in DOMAIN jobDuties => x \in PersonRows /\ x.role = jobDuties[i].role /\ x.from = jobDuties[i].from
              /\ x.cancelled = jobDuties[i].cancelled /\ x.to = jobToday - 1
    <3>1. jobToday - 1 \in Nat
      BY <1>2
    <3> QED BY <1>1, <3>1 DEF PersonRows
  <2>3. i \in DOMAIN jobDuties => jobDuties[i].to >= jobToday - 1
    <3> HIDE DEF i
    <3> QED BY <1>1, <1>2 DEF Person!Covers, PersonRows
  <2>4. jobToday - 1 >= jobToday - 1
    BY <1>2
  <2> HIDE DEF new, i, x
  <2>5. [jobDuties EXCEPT ![i] = x] \in Seq(PersonRows) /\ SamePast(jobDuties, [jobDuties EXCEPT ![i] = x])
    BY <1>2, <2>2, <2>3, <2>4, RowChanged
  <2> QED BY <2>1, <2>5
<1> HIDE DEF new, i
<1>6. new \in Seq(PersonRows) /\ SamePast(jobDuties, new)
  BY <1>3, <1>4, <1>5
<1> QED BY <1>6 DEF new, i

\* The duty of today goes on until another day.
LEMMA ProlongedPast ==
    ASSUME PersonTypes, NEW until \in Nat, until >= jobToday
    PROVE  LET new == [jobDuties EXCEPT ![Person!ActiveDuty].to = until]
           IN new \in Seq(PersonRows) /\ SamePast(jobDuties, new)
<1> DEFINE i == Person!ActiveDuty
           x == [jobDuties[i] EXCEPT !.to = until]
<1>1. i \in DOMAIN jobDuties => jobDuties[i] \in PersonRows /\ Person!Covers(jobDuties[i], jobToday)
  <2>1. jobDuties \in Seq(PersonRows)
    BY DEF PersonTypes
  <2>2. DOMAIN jobDuties = 1 .. Len(jobDuties)
    BY <2>1
  <2> HIDE DEF i
  <2> QED BY <2>1, <2>2, ElementOfSeq, ActiveIs DEF i
<1>2. jobDuties \in Seq(PersonRows) /\ jobToday \in Nat \ {0}
  BY TodayIs DEF PersonTypes
<1>3. i \in DOMAIN jobDuties => x \in PersonRows /\ x.role = jobDuties[i].role /\ x.from = jobDuties[i].from
            /\ x.cancelled = jobDuties[i].cancelled /\ x.to = until
  BY <1>1 DEF PersonRows
<1>4. i \in DOMAIN jobDuties => jobDuties[i].to >= jobToday - 1
  <2> HIDE DEF i
  <2> QED BY <1>1, <1>2 DEF Person!Covers, PersonRows
<1>5. until >= jobToday - 1
  BY <1>2
<1> HIDE DEF i, x
<1>6. [jobDuties EXCEPT ![i] = x] \in Seq(PersonRows) /\ SamePast(jobDuties, [jobDuties EXCEPT ![i] = x])
  BY <1>2, <1>3, <1>4, <1>5, RowChanged
<1> QED BY <1>6 DEF i, x

\* The last base identity ends today.
LEMMA LastEndsPast ==
    ASSUME PersonInv
    PROVE  LET new == [jobBases EXCEPT ![Len(jobBases)].to = jobToday]
           IN new \in Seq(PersonRows) /\ SamePast(jobBases, new)
<1> DEFINE i == Len(jobBases)
           x == [jobBases[i] EXCEPT !.to = jobToday]
<1>1. jobBases \in Seq(PersonRows) /\ jobBases # << >> /\ jobBases[i].to = Person!Forever
  BY DEF PersonInv, PersonTypes, HistoryTells
<1>2. i \in DOMAIN jobBases /\ jobBases[i] \in PersonRows
  <2>1. i \in 1 .. Len(jobBases) /\ DOMAIN jobBases = 1 .. Len(jobBases)
    BY <1>1, EmptySeq, LenProperties
  <2> QED BY <1>1, <2>1, ElementOfSeq
<1>3. jobToday \in Nat \ {0} /\ jobToday < Person!Forever /\ Person!Forever \in Nat
  BY TodayIs DEF PersonInv
<1>4. x \in PersonRows /\ x.role = jobBases[i].role /\ x.from = jobBases[i].from
            /\ x.cancelled = jobBases[i].cancelled /\ x.to = jobToday
  BY <1>2, <1>3 DEF PersonRows
<1>5. jobToday >= jobToday - 1 /\ jobBases[i].to >= jobToday - 1
  BY <1>1, <1>3
<1> HIDE DEF i, x
<1>6. [jobBases EXCEPT ![i] = x] \in Seq(PersonRows) /\ SamePast(jobBases, [jobBases EXCEPT ![i] = x])
  BY <1>1, <1>3, <1>4, <1>5, RowChanged
<1> QED BY <1>6 DEF i, x

\* What a cycle closes.
LEMMA ClosedPast ==
    ASSUME PersonTypes, NEW past \in Seq(PersonRows)
    PROVE  Person!Closed(past) \in Seq(PersonRows) /\ SamePast(past, Person!Closed(past))
<1> DEFINE new == Person!Closed(past)
<1>1. jobToday \in Nat \ {0} /\ jobToday - 1 \in Nat
  BY TodayIs
<1>2. ASSUME NEW i \in DOMAIN past
      PROVE  /\ new[i] \in PersonRows /\ new[i].role = past[i].role
             /\ \A d \in 1 .. jobToday - 1 : Person!Covers(new[i], d) <=> Person!Covers(past[i], d)
  <2>1. past[i] \in PersonRows
    BY ElementOfSeq
  <2>2. CASE past[i].cancelled \/ past[i].to < jobToday
    <3>1. new[i] = past[i]
      BY <2>2 DEF Person!Closed
    <3> QED BY <2>1, <3>1
  <2>3. CASE ~(past[i].cancelled \/ past[i].to < jobToday) /\ past[i].from >= jobToday
    <3> DEFINE x == [past[i] EXCEPT !.cancelled = TRUE]
    <3>1. new[i] = x
      BY <2>3 DEF Person!Closed
    <3>2. x \in PersonRows /\ x.role = past[i].role /\ x.from = past[i].from
      BY <2>1 DEF PersonRows
    <3> HIDE DEF new, x
    <3> QED BY <1>1, <2>1, <2>3, <3>1, <3>2, SameBefore
  <2>4. CASE ~(past[i].cancelled \/ past[i].to < jobToday) /\ ~(past[i].from >= jobToday)
    <3> DEFINE x == [past[i] EXCEPT !.to = jobToday - 1]
    <3>1. new[i] = x
      BY <2>4 DEF Person!Closed
    <3>2. x \in PersonRows /\ x.role = past[i].role /\ x.from = past[i].from
          /\ x.cancelled = past[i].cancelled /\ x.to = jobToday - 1
      BY <1>1, <2>1 DEF PersonRows
    <3>3. past[i].to >= jobToday - 1 /\ jobToday - 1 >= jobToday - 1
      BY <1>1, <2>1, <2>4 DEF PersonRows
    <3> HIDE DEF new, x
    <3> QED BY <1>1, <2>1, <3>1, <3>2, <3>3, SameBefore
  <2> QED BY <2>2, <2>3, <2>4
<1>3. DOMAIN new = DOMAIN past /\ DOMAIN past = 1 .. Len(past) /\ Len(past) \in Nat
  BY DEF Person!Closed
<1>4. new \in [1 .. Len(past) -> PersonRows]
  <2>1. new = [i \in 1 .. Len(past) |-> new[i]]
    BY <1>3 DEF Person!Closed
  <2> HIDE DEF new
  <2> QED BY <1>2, <1>3, <2>1
<1> HIDE DEF new
<1>5. new \in Seq(PersonRows)
  BY <1>3, <1>4, SeqDef
<1>6. SamePast(past, new)
  BY <1>2, <1>3 DEF SamePast
<1> QED BY <1>5, <1>6 DEF new

LEMMA AnotherRow ==
    ASSUME PersonTypes, NEW past \in Seq(PersonRows), NEW new \in Seq(PersonRows), SamePast(past, new),
           NEW role \in PersonRoles, NEW to \in Nat
    PROVE  LET more == Append(new, Person!Row(role, to))
           IN more \in Seq(PersonRows) /\ SamePast(past, more) /\ more # << >> /\ more[Len(more)].to = to
<1> DEFINE x == Person!Row(role, to)
           more == Append(new, x)
<1>1. jobToday \in Nat
  BY TodayIs
<1>2. x \in PersonRows /\ x.from = jobToday /\ x.to = to
  BY <1>1, ARow DEF Person!Row
<1> HIDE DEF x
<1>3. more \in Seq(PersonRows) /\ SamePast(past, more)
  BY <1>1, <1>2, OneMore
<1>4. more # << >> /\ more[Len(more)] = x
  BY <1>2, AppendProperties
<1> QED BY <1>2, <1>3, <1>4 DEF x

-----------------------------------------------------------------------------
(* What each step keeps. *)

RowsKept == SamePast(jobDuties, jobDuties') /\ SamePast(jobBases, jobBases')
EmploymentKept == \A d \in 1 .. jobToday - 1 : Person!EmployedOn(d)' = Person!EmployedOn(d)
OffForThree == jobAccount.has /\ ~jobAccount'.has => jobOffSince # 0 /\ jobToday - jobOffSince >= 3
DueOnlyLater == jobAccount'.on /\ Person!Due(jobEmp)' =>
                    (jobAccount.on /\ Person!Due(jobEmp)) \/ jobToday' # jobToday
PersonMoves == PersonInv' /\ RowsKept /\ EmploymentKept /\ OffForThree /\ DueOnlyLater

LEMMA RolesKept ==
    ASSUME PersonTypes, PersonTypes', RowsKept, NEW d \in 1 .. jobToday - 1
    PROVE  Person!RoleOn(d)' = Person!RoleOn(d)
<1>1. jobToday \in Nat /\ jobDuties \in Seq(PersonRows) /\ jobDuties' \in Seq(PersonRows)
      /\ jobBases \in Seq(PersonRows) /\ jobBases' \in Seq(PersonRows)
  BY TodayIs DEF PersonTypes
<1>2. Person!Covering(jobDuties', d) = Person!Covering(jobDuties, d)
      /\ \A i \in Person!Covering(jobDuties, d) : jobDuties'[i].role = jobDuties[i].role
  BY <1>1, PastCovering DEF RowsKept
<1>3. Person!Covering(jobBases', d) = Person!Covering(jobBases, d)
      /\ \A i \in Person!Covering(jobBases, d) : jobBases'[i].role = jobBases[i].role
  BY <1>1, PastCovering DEF RowsKept
<1>4. Person!DutyOn(d)' = Person!DutyOn(d)
  <2>1. {jobDuties'[i].role : i \in Person!Covering(jobDuties', d)} = {jobDuties[i].role : i \in Person!Covering(jobDuties, d)}
    BY <1>2
  <2> QED BY <2>1 DEF Person!DutyOn
<1>5. Person!BaseOn(d)' = Person!BaseOn(d)
  <2>1. CASE Person!Covering(jobBases, d) = {}
    BY <1>3, <2>1 DEF Person!BaseOn
  <2>2. CASE Person!Covering(jobBases, d) # {}
    <3>1. Person!Max(Person!Covering(jobBases, d)) \in Person!Covering(jobBases, d)
      BY <1>1, <2>2, LatestOf
    <3> QED BY <1>3, <2>2, <3>1 DEF Person!BaseOn
  <2> QED BY <2>1, <2>2
<1> QED BY <1>4, <1>5 DEF Person!RoleOn

\* The account a request leaves, for the employee it leaves.
LEMMA SavedAccount ==
    ASSUME PersonTypes, AccountTells, jobToday' = jobToday,
           NEW a \in [has : BOOLEAN, on : BOOLEAN, offAt : Nat],
           Person!Saved(jobEmp', a), Person!Watched,
           a.on => a.offAt = 0,
           a.has /\ ~a.on => a.offAt = IF jobAccount.on \/ ~jobAccount.has THEN jobToday ELSE jobOffSince,
           a.has /\ a.on /\ Person!Due(jobEmp') /\ jobEmp'.deleted = 0 => jobAccount.on \/ ~jobAccount.has
    PROVE  /\ jobAccount' \in [has : BOOLEAN, on : BOOLEAN, offAt : Nat] /\ jobAccount'.has = a.has
           /\ Person!OffTimeTrue'
           /\ (jobAccount.on => jobAccount.offAt = 0)'
           /\ jobAccount'.on /\ Person!Due(jobEmp') /\ jobEmp'.deleted = 0 => ~a.has
<1> DEFINE e == jobEmp'
<1>1. jobAccount' = Person!Expired(e, a)
  BY DEF Person!Saved
<1> HIDE DEF e
<1>2. /\ jobAccount' \in [has : BOOLEAN, on : BOOLEAN, offAt : Nat] /\ jobAccount'.has = a.has
      /\ jobAccount' = a \/ (a.on /\ a.has /\ Person!Due(e) /\ ~jobAccount'.on /\ jobAccount'.offAt = jobToday)
      /\ jobAccount'.on /\ Person!Due(e) /\ e.deleted = 0 => a.on /\ ~a.has
  BY <1>1, ExpiredIs
<1>3. a.on /\ a.has /\ ~jobAccount'.on => e.deleted = 0 /\ Person!Due(e)
  BY <1>1 DEF Person!Expired
<1>4. jobOffSince' = IF ~jobAccount'.has \/ jobAccount'.on THEN 0
                     ELSE IF jobAccount.on \/ ~jobAccount.has THEN jobToday ELSE jobOffSince
  BY DEF Person!Watched
<1>5. a.has => jobAccount'.offAt = jobOffSince'
  <2>1. CASE jobAccount' = a
    BY <1>2, <1>4, <2>1
  <2>2. CASE jobAccount' # a
    BY <1>2, <1>3, <1>4, <2>2 DEF e
  <2> QED BY <2>1, <2>2
<1>6. jobAccount'.on => jobAccount'.offAt = 0
  BY <1>2
<1> QED BY <1>2, <1>5, <1>6 DEF Person!OffTimeTrue, e



LEMMA AtMidnight == ASSUME PersonInv, Person!Midnight PROVE PersonMoves
<1>1. jobToday' = jobToday + 1 /\ jobToday' \in 1 .. LastDay /\ jobToday' # jobToday
  BY CalendarAssumption DEF Person!Midnight, PersonInv, PersonTypes
<1>2. UNCHANGED <<jobEmp, jobCycles, jobAccount, jobBases, jobDuties, jobOffSince>>
  BY DEF Person!Midnight
<1>3. PersonInv'
  <2>1. PersonTypes'
    BY <1>1, <1>2 DEF PersonInv, PersonTypes
  <2>2. AccountTells' /\ HistoryTells'
    BY <1>2 DEF PersonInv, AccountTells, HistoryTells, Person!OffTimeTrue, Person!Forever
  <2> QED BY <2>1, <2>2 DEF PersonInv
<1>4. RowsKept
  BY <1>2 DEF RowsKept, SamePast
<1>5. EmploymentKept
  BY <1>2 DEF EmploymentKept, Person!EmployedOn, Person!ActiveOn, Person!Previously
<1> QED BY <1>1, <1>2, <1>3, <1>4, <1>5 DEF PersonMoves, OffForThree, DueOnlyLater

LEMMA AtExpiryCheck == ASSUME PersonInv, Person!ExpiryCheck PROVE PersonMoves
<1>1. UNCHANGED <<jobToday, jobEmp, jobCycles, jobBases, jobDuties>> /\ Person!Watched
      /\ jobAccount' = Person!Expired(jobEmp, jobAccount) /\ jobAccount' # jobAccount
  BY DEF Person!ExpiryCheck
<1>2. jobAccount.has /\ jobAccount.on /\ jobEmp.deleted = 0 /\ Person!Due(jobEmp)
  BY <1>1 DEF Person!Expired
<1>3. Person!Saved(jobEmp', jobAccount)
  BY <1>1 DEF Person!Saved
<1>4. jobAccount \in [has : BOOLEAN, on : BOOLEAN, offAt : Nat] /\ (jobAccount.on => jobAccount.offAt = 0)
  BY DEF PersonInv, PersonTypes, AccountTells
<1>5. /\ jobAccount' \in [has : BOOLEAN, on : BOOLEAN, offAt : Nat] /\ jobAccount'.has = jobAccount.has
      /\ Person!OffTimeTrue' /\ (jobAccount.on => jobAccount.offAt = 0)'
      /\ jobAccount'.on /\ Person!Due(jobEmp') /\ jobEmp'.deleted = 0 => ~jobAccount.has
  BY <1>1, <1>2, <1>3, <1>4, SavedAccount DEF PersonInv
<1>6. PersonInv'
  <2>1. PersonTypes'
    BY <1>1, <1>5 DEF PersonInv, PersonTypes
  <2>2. AccountTells'
    BY <1>1, <1>5 DEF PersonInv, AccountTells
  <2>3. HistoryTells'
    BY <1>1 DEF PersonInv, HistoryTells, Person!Forever
  <2> QED BY <2>1, <2>2, <2>3 DEF PersonInv
<1>7. RowsKept
  BY <1>1 DEF RowsKept, SamePast
<1>8. EmploymentKept
  BY <1>1 DEF EmploymentKept, Person!EmployedOn, Person!ActiveOn, Person!Previously
<1>9. OffForThree /\ DueOnlyLater
  <2>1. jobAccount'.has /\ ~jobAccount'.on
    BY <1>1, <1>2, <1>5 DEF Person!Expired
  <2> QED BY <2>1 DEF OffForThree, DueOnlyLater
<1> QED BY <1>6, <1>7, <1>8, <1>9 DEF PersonMoves

\* The form and the import, which leave the employment alone.
LEMMA AtEdit ==
    ASSUME PersonInv, NEW kind \in Person!Kinds, NEW ends \in Person!Ends,
           NEW a \in [has : BOOLEAN, on : BOOLEAN, offAt : Nat],
           jobEmp.deleted = 0, jobEmp' = [jobEmp EXCEPT !.kind = kind, !.ends = ends],
           Person!Saved(jobEmp', a), Person!Watched, UNCHANGED <<jobToday, jobCycles>>,
           a.has, a.on => a.offAt = 0,
           ~a.on => a.offAt = IF jobAccount.on THEN jobToday ELSE jobOffSince,
           a.on /\ Person!Due(jobEmp') => jobAccount.on,
           jobDuties' \in Seq(PersonRows), jobBases' \in Seq(PersonRows), RowsKept,
           jobBases' # << >>, jobBases'[Len(jobBases')].to = Person!Forever
    PROVE  PersonMoves
<1>1. /\ jobEmp' \in [hired : Nat, gone : Nat, active : BOOLEAN, deleted : Nat, kind : Person!Kinds, ends : Nat]
      /\ jobEmp'.hired = jobEmp.hired /\ jobEmp'.gone = jobEmp.gone /\ jobEmp'.active = jobEmp.active
      /\ jobEmp'.deleted = jobEmp.deleted
  <2>1. ends \in Nat
    BY CalendarAssumption DEF Person!Ends
  <2> QED BY <2>1 DEF PersonInv, PersonTypes
<1>2. jobAccount.has
  BY DEF PersonInv, AccountTells
<1>3. /\ jobAccount' \in [has : BOOLEAN, on : BOOLEAN, offAt : Nat] /\ jobAccount'.has = a.has
      /\ Person!OffTimeTrue' /\ (jobAccount.on => jobAccount.offAt = 0)'
      /\ jobAccount'.on /\ Person!Due(jobEmp') /\ jobEmp'.deleted = 0 => ~a.has
  BY <1>1, <1>2, SavedAccount DEF PersonInv
<1>4. PersonInv'
  <2>1. PersonTypes'
    BY <1>1, <1>3 DEF PersonInv, PersonTypes
  <2>2. AccountTells'
    BY <1>3 DEF PersonInv, AccountTells
  <2>3. HistoryTells'
    BY <1>1 DEF PersonInv, HistoryTells, Person!Forever
  <2> QED BY <2>1, <2>2, <2>3 DEF PersonInv
<1>5. EmploymentKept
  BY <1>1 DEF EmploymentKept, Person!EmployedOn, Person!ActiveOn, Person!Previously
<1>6. OffForThree /\ DueOnlyLater
  <2>1. Person!Due(jobEmp)' <=> Person!Due(jobEmp')
    BY DEF Person!Due
  <2> QED BY <1>1, <1>3, <2>1 DEF OffForThree, DueOnlyLater
<1> QED BY <1>4, <1>5, <1>6 DEF PersonMoves

LEMMA SameRows == PersonInv => SamePast(jobDuties, jobDuties) /\ SamePast(jobBases, jobBases)
  BY DEF SamePast

LEMMA Stamped ==
    ASSUME NEW r \in [has : BOOLEAN, on : BOOLEAN, offAt : Nat], NEW b \in BOOLEAN, NEW n \in Nat
    PROVE  LET x == [r EXCEPT !.on = b, !.offAt = n]
           IN x \in [has : BOOLEAN, on : BOOLEAN, offAt : Nat] /\ x.has = r.has /\ x.on = b /\ x.offAt = n
OBVIOUS

LEMMA AtForm ==
    ASSUME PersonInv, NEW code \in {"CM", "SUPERVISOR", "TA_SUPERVISOR", "TA_GSM"},
           NEW until \in {jobToday, Person!Forever}, NEW kind \in Person!Kinds, NEW ends \in Person!Ends,
           NEW on \in BOOLEAN, Person!Edit(code, until, kind, ends, on)
    PROVE  PersonMoves
<1> DEFINE a == Person!Toggled(jobAccount, on)
<1>1. /\ jobEmp.deleted = 0 /\ jobEmp' = [jobEmp EXCEPT !.kind = kind, !.ends = ends]
      /\ Person!Saved(jobEmp', a) /\ Person!Watched /\ UNCHANGED <<jobToday, jobCycles>>
      /\ until >= jobToday /\ ~(on /\ ~jobAccount.on /\ Person!Due(jobEmp')) /\ Person!Identity(code, until)
  BY DEF Person!Edit, Person!Written
<1>2. jobToday \in Nat \ {0} /\ Person!Forever \in Nat /\ until \in Nat
  BY TodayIs DEF PersonInv
<1>3. /\ jobAccount \in [has : BOOLEAN, on : BOOLEAN, offAt : Nat] /\ jobAccount.has
      /\ (jobAccount.on => jobAccount.offAt = 0) /\ jobAccount.offAt = jobOffSince
  BY <1>1 DEF PersonInv, PersonTypes, AccountTells, Person!OffTimeTrue
<1>4. /\ a \in [has : BOOLEAN, on : BOOLEAN, offAt : Nat] /\ a.has /\ (a.on => a.offAt = 0)
      /\ ~a.on => a.offAt = IF jobAccount.on THEN jobToday ELSE jobOffSince
      /\ a.on /\ Person!Due(jobEmp') => jobAccount.on
  <2>1. CASE jobAccount.on = on
    <3>1. a = jobAccount
      BY <2>1 DEF Person!Toggled
    <3> QED BY <1>3, <3>1
  <2>2. CASE jobAccount.on # on
    <3>1. CASE on = TRUE
      <4>1. a = [jobAccount EXCEPT !.on = TRUE, !.offAt = 0]
        BY <2>2, <3>1 DEF Person!Toggled
      <4> HIDE DEF a
      <4>2. a \in [has : BOOLEAN, on : BOOLEAN, offAt : Nat] /\ a.has /\ a.on /\ a.offAt = 0
        <5>1. 0 \in Nat /\ TRUE \in BOOLEAN
          OBVIOUS
        <5> QED BY <1>3, <4>1, <5>1, Stamped
      <4> QED BY <1>1, <1>3, <2>2, <3>1, <4>2
    <3>2. CASE on = FALSE
      <4>1. a = [jobAccount EXCEPT !.on = FALSE, !.offAt = jobToday]
        BY <2>2, <3>2 DEF Person!Toggled
      <4> HIDE DEF a
      <4>2. a \in [has : BOOLEAN, on : BOOLEAN, offAt : Nat] /\ a.has /\ ~a.on /\ a.offAt = jobToday
        <5>1. jobToday \in Nat /\ FALSE \in BOOLEAN
          BY <1>2
        <5> QED BY <1>3, <4>1, <5>1, Stamped
      <4>3. jobAccount.on
        BY <1>3, <2>2, <3>2
      <4> QED BY <4>2, <4>3
    <3> QED BY <3>1, <3>2
  <2> QED BY <2>1, <2>2
<1> HIDE DEF a
<1>5. jobDuties' \in Seq(PersonRows) /\ SamePast(jobDuties, jobDuties')
  <2>1. jobDuties \in Seq(PersonRows) /\ SamePast(jobDuties, jobDuties) /\ PersonTypes
    BY SameRows DEF PersonInv, PersonTypes
  <2>2. code \in PersonRoles
    BY DEF PersonRoles
  <2>3. CASE jobDuties' = jobDuties
    BY <2>1, <2>3
  <2>4. CASE jobDuties' = [jobDuties EXCEPT ![Person!ActiveDuty].to = until]
    BY <1>1, <1>2, <2>1, <2>4, ProlongedPast
  <2>5. CASE jobDuties' = Person!DutyEnded(Person!ActiveDuty)
    BY <2>1, <2>5, EndedPast
  <2>6. CASE jobDuties' = Append(Person!DutyEnded(Person!ActiveDuty), Person!Row(code, until))
    BY <1>2, <2>1, <2>2, <2>6, EndedPast, AnotherRow
  <2> QED BY <1>1, <2>3, <2>4, <2>5, <2>6 DEF Person!Identity
<1>6. jobBases' \in Seq(PersonRows) /\ SamePast(jobBases, jobBases') /\ jobBases' # << >>
      /\ jobBases'[Len(jobBases')].to = Person!Forever
  <2>1. jobBases \in Seq(PersonRows) /\ SamePast(jobBases, jobBases) /\ PersonTypes
    BY SameRows DEF PersonInv, PersonTypes
  <2>2. code \in PersonRoles
    BY DEF PersonRoles
  <2>3. CASE jobBases' = jobBases
    BY <2>1, <2>3 DEF PersonInv, HistoryTells
  <2>4. CASE jobBases' = Append([jobBases EXCEPT ![Len(jobBases)].to = jobToday], Person!Row(code, Person!Forever))
    <3> DEFINE new == [jobBases EXCEPT ![Len(jobBases)].to = jobToday]
    <3>1. new \in Seq(PersonRows) /\ SamePast(jobBases, new)
      BY LastEndsPast
    <3>2. jobBases' = Append(new, Person!Row(code, Person!Forever))
      BY <2>4
    <3> HIDE DEF new
    <3> QED BY <1>2, <2>1, <2>2, <3>1, <3>2, AnotherRow
  <2> QED BY <1>1, <2>3, <2>4 DEF Person!Identity
<1> QED BY <1>1, <1>4, <1>5, <1>6, AtEdit DEF RowsKept

LEMMA AtImport ==
    ASSUME PersonInv, NEW kind \in Person!Kinds, NEW ends \in Person!Ends, Person!Import(kind, ends)
    PROVE  PersonMoves
<1>1. /\ jobEmp.deleted = 0 /\ jobEmp' = [jobEmp EXCEPT !.kind = kind, !.ends = ends]
      /\ Person!Saved(jobEmp', jobAccount) /\ Person!Watched
      /\ UNCHANGED <<jobToday, jobCycles, jobBases, jobDuties>>
  BY DEF Person!Import, Person!Written
<1>2. /\ jobAccount \in [has : BOOLEAN, on : BOOLEAN, offAt : Nat] /\ jobAccount.has
      /\ (jobAccount.on => jobAccount.offAt = 0)
      /\ ~jobAccount.on => jobAccount.offAt = IF jobAccount.on THEN jobToday ELSE jobOffSince
  BY <1>1 DEF PersonInv, PersonTypes, AccountTells, Person!OffTimeTrue
<1>3. jobDuties' \in Seq(PersonRows) /\ jobBases' \in Seq(PersonRows) /\ RowsKept
      /\ jobBases' # << >> /\ jobBases'[Len(jobBases')].to = Person!Forever
  BY <1>1, SameRows DEF PersonInv, PersonTypes, HistoryTells, RowsKept
<1> QED BY <1>1, <1>2, <1>3, AtEdit

\* Whoever is archived was employed until today.
LEMMA AtArchive == ASSUME PersonInv, Person!Archive PROVE PersonMoves
<1>1. /\ jobEmp.deleted = 0 /\ jobAccount.has /\ ~jobAccount.on
      /\ jobAccount.offAt # 0 /\ jobToday >= jobAccount.offAt + 3
      /\ jobEmp' = [jobEmp EXCEPT !.gone = jobToday, !.active = FALSE, !.deleted = jobToday]
      /\ jobCycles' = Append(jobCycles, [from |-> jobEmp.hired, to |-> jobToday])
      /\ jobAccount' = [has |-> FALSE, on |-> FALSE, offAt |-> 0] /\ Person!Watched
      /\ UNCHANGED <<jobToday, jobBases, jobDuties>>
  BY DEF Person!Archive, Person!ThreeDaysOff, Person!Written, Person!NoAccount
<1> DEFINE c == [from |-> jobEmp.hired, to |-> jobToday]
<1>2. jobToday \in Nat \ {0} /\ c \in [from : Nat, to : Nat] /\ jobCycles \in Seq([from : Nat, to : Nat])
  BY TodayIs DEF PersonInv, PersonTypes
<1>3. /\ jobCycles' \in Seq([from : Nat, to : Nat]) /\ jobCycles' # << >>
      /\ DOMAIN jobCycles' = DOMAIN jobCycles \cup {Len(jobCycles) + 1} /\ jobCycles'[Len(jobCycles) + 1] = c
      /\ \A i \in DOMAIN jobCycles : jobCycles'[i] = jobCycles[i]
  <2> HIDE DEF c
  <2> QED BY <1>1, <1>2, AppendProperties DEF c
<1>4. /\ jobEmp' \in [hired : Nat, gone : Nat, active : BOOLEAN, deleted : Nat, kind : Person!Kinds, ends : Nat]
      /\ jobEmp'.hired = jobEmp.hired /\ jobEmp'.gone = jobToday /\ ~jobEmp'.active /\ jobEmp'.deleted = jobToday
  BY <1>1, <1>2 DEF PersonInv, PersonTypes
<1>5. PersonInv'
  <2>1. PersonTypes'
    BY <1>1, <1>3, <1>4 DEF PersonInv, PersonTypes
  <2>2. AccountTells'
    BY <1>1, <1>2, <1>4 DEF AccountTells, Person!OffTimeTrue
  <2>3. HistoryTells'
    BY <1>1, <1>2, <1>3, <1>4 DEF PersonInv, HistoryTells, Person!Forever
  <2> QED BY <2>1, <2>2, <2>3 DEF PersonInv
<1>6. RowsKept
  BY <1>1, SameRows DEF RowsKept
<1>7. EmploymentKept
  <2> SUFFICES ASSUME NEW d \in 1 .. jobToday - 1 PROVE Person!EmployedOn(d)' = Person!EmployedOn(d)
    BY DEF EmploymentKept
  <2>1. Person!Previously(d)' <=> Person!Previously(d) \/ jobEmp.hired <= d
    <3>1. c.from = jobEmp.hired /\ c.to = jobToday /\ d < jobToday
      BY <1>2
    <3> HIDE DEF c
    <3>2. Person!Previously(d)' <=> \E i \in DOMAIN jobCycles' : jobCycles'[i].from <= d /\ d < jobCycles'[i].to
      BY DEF Person!Previously
    <3>3. Person!Previously(d) <=> \E i \in DOMAIN jobCycles : jobCycles[i].from <= d /\ d < jobCycles[i].to
      BY DEF Person!Previously
    <3> QED BY <1>3, <3>1, <3>2, <3>3
  <2>2. jobEmp.gone = 0 /\ jobEmp.active
    BY <1>1 DEF PersonInv, HistoryTells
  <2>3. Person!EmployedOn(d)' <=> Person!Previously(d) \/ jobEmp.hired <= d
    BY <1>3, <1>4, <2>1 DEF Person!EmployedOn, Person!ActiveOn
  <2>4. Person!EmployedOn(d) <=> Person!Previously(d) \/ jobEmp.hired <= d
    <3>1. CASE jobCycles = << >>
      <4>1. jobEmp.hired = 1
        BY <3>1 DEF PersonInv, HistoryTells
      <4> QED BY <2>2, <3>1, <4>1 DEF Person!EmployedOn
    <3>2. CASE jobCycles # << >>
      BY <2>2, <3>2 DEF Person!EmployedOn, Person!ActiveOn
    <3> QED BY <3>1, <3>2
  <2>5. Person!EmployedOn(d)' \in BOOLEAN
    BY <1>3 DEF Person!EmployedOn, Person!ActiveOn, Person!Previously
  <2>6. Person!EmployedOn(d) \in BOOLEAN
    <3>1. jobEmp.active \in BOOLEAN
      BY DEF PersonInv, PersonTypes
    <3>2. Person!ActiveOn(d) \in BOOLEAN
      BY DEF Person!ActiveOn, Person!Previously
    <3> QED BY <2>2, <3>1, <3>2 DEF Person!EmployedOn
  <2> QED BY <2>3, <2>4, <2>5, <2>6
<1>8. OffForThree
  <2>1. jobAccount.offAt = jobOffSince /\ jobAccount.offAt \in Nat
    BY <1>1 DEF PersonInv, PersonTypes, AccountTells, Person!OffTimeTrue
  <2> QED BY <1>1, <1>2, <2>1 DEF OffForThree
<1>9. DueOnlyLater
  BY <1>1 DEF DueOnlyLater
<1> QED BY <1>5, <1>6, <1>7, <1>8, <1>9 DEF PersonMoves

\* Whoever comes back begins today.
LEMMA AtRehire ==
    ASSUME PersonInv, NEW code \in {"CM", "SUPERVISOR"}, NEW kind \in Person!Kinds, NEW ends \in Person!Ends,
           Person!Rehire(code, kind, ends)
    PROVE  PersonMoves
<1> DEFINE a == [has |-> TRUE, on |-> TRUE, offAt |-> 0]
<1>1. /\ jobEmp.deleted # 0 /\ ~jobAccount.has
      /\ jobEmp' = [hired |-> jobToday, gone |-> 0, active |-> TRUE, deleted |-> 0, kind |-> kind, ends |-> ends]
      /\ Person!Saved(jobEmp', a) /\ Person!Watched
      /\ jobBases' = Append(Person!Closed(jobBases), Person!Row(code, Person!Forever))
      /\ jobDuties' = Person!Closed(jobDuties)
      /\ UNCHANGED <<jobToday, jobCycles>>
  BY DEF Person!Rehire, Person!Written, Person!NewAccount
<1>2. /\ jobToday \in Nat \ {0} /\ Person!Forever \in Nat /\ PersonTypes /\ code \in PersonRoles
      /\ jobDuties \in Seq(PersonRows) /\ jobBases \in Seq(PersonRows)
  BY TodayIs DEF PersonInv, PersonTypes, PersonRoles
<1>3. jobEmp' \in [hired : Nat, gone : Nat, active : BOOLEAN, deleted : Nat, kind : Person!Kinds, ends : Nat]
  <2>1. ends \in Nat
    BY CalendarAssumption DEF Person!Ends
  <2> QED BY <1>1, <1>2, <2>1
<1>4. a \in [has : BOOLEAN, on : BOOLEAN, offAt : Nat] /\ a.has /\ a.on /\ a.offAt = 0
  OBVIOUS
<1> HIDE DEF a
<1>5. /\ jobAccount' \in [has : BOOLEAN, on : BOOLEAN, offAt : Nat] /\ jobAccount'.has
      /\ Person!OffTimeTrue' /\ (jobAccount.on => jobAccount.offAt = 0)'
      /\ ~(jobAccount'.on /\ Person!Due(jobEmp') /\ jobEmp'.deleted = 0)
  BY <1>1, <1>4, SavedAccount DEF PersonInv
<1>6. jobDuties' \in Seq(PersonRows) /\ SamePast(jobDuties, jobDuties')
  BY <1>1, <1>2, ClosedPast
<1>7. jobBases' \in Seq(PersonRows) /\ SamePast(jobBases, jobBases') /\ jobBases' # << >>
      /\ jobBases'[Len(jobBases')].to = Person!Forever
  BY <1>1, <1>2, ClosedPast, AnotherRow
<1>8. jobCycles # << >> /\ ~jobEmp.active
  BY <1>1 DEF PersonInv, HistoryTells
<1>9. PersonInv'
  <2>1. PersonTypes'
    BY <1>1, <1>3, <1>5, <1>6, <1>7 DEF PersonInv, PersonTypes
  <2>2. AccountTells'
    BY <1>5 DEF AccountTells
  <2>3. HistoryTells'
    BY <1>1, <1>7, <1>8 DEF HistoryTells, Person!Forever
  <2> QED BY <2>1, <2>2, <2>3 DEF PersonInv
<1>10. EmploymentKept
  <2> SUFFICES ASSUME NEW d \in 1 .. jobToday - 1 PROVE Person!EmployedOn(d)' = Person!EmployedOn(d)
    BY DEF EmploymentKept
  <2>1. ~(jobToday <= d) /\ jobEmp'.hired = jobToday
    BY <1>1, <1>2
  <2>2. Person!Previously(d)' = Person!Previously(d)
    BY <1>1 DEF Person!Previously
  <2>3. jobCycles' # << >>
    BY <1>1, <1>8
  <2>4. jobEmp.active \in BOOLEAN
    BY <1>2 DEF PersonTypes
  <2> QED BY <1>8, <2>1, <2>2, <2>3, <2>4 DEF Person!EmployedOn, Person!ActiveOn, Person!Previously
<1>11. OffForThree /\ DueOnlyLater
  <2>1. Person!Due(jobEmp)' <=> Person!Due(jobEmp')
    BY <1>1 DEF Person!Due
  <2>2. jobEmp'.deleted = 0
    BY <1>1
  <2> QED BY <1>1, <1>5, <2>1, <2>2 DEF OffForThree, DueOnlyLater
<1> QED BY <1>6, <1>7, <1>9, <1>10, <1>11 DEF PersonMoves, RowsKept

LEMMA PersonStep ==
    ASSUME PersonInv, [Person!Next]_(Person!employmentVars)
    PROVE  PersonInv' /\ (UNCHANGED Person!employmentVars \/ PersonMoves)
<1>1. CASE UNCHANGED Person!employmentVars
  <2>1. UNCHANGED <<jobToday, jobEmp, jobCycles, jobAccount, jobBases, jobDuties, jobOffSince>>
    BY <1>1 DEF Person!employmentVars
  <2> QED BY <1>1, <2>1 DEF PersonInv, PersonTypes, AccountTells, HistoryTells, Person!OffTimeTrue, Person!Forever
<1>2. CASE Person!Midnight \/ Person!ExpiryCheck \/ Person!Archive
  BY <1>2, AtMidnight, AtExpiryCheck, AtArchive DEF PersonMoves
<1>3. ASSUME NEW kind \in Person!Kinds, NEW ends \in Person!Ends, Person!Import(kind, ends) PROVE PersonMoves
  BY <1>3, AtImport
<1>4. ASSUME NEW kind \in Person!Kinds, NEW ends \in Person!Ends, NEW code \in {"CM", "SUPERVISOR"},
             Person!Rehire(code, kind, ends)
      PROVE  PersonMoves
  BY <1>4, AtRehire
<1>5. ASSUME NEW kind \in Person!Kinds, NEW ends \in Person!Ends,
             NEW code \in {"CM", "SUPERVISOR", "TA_SUPERVISOR", "TA_GSM"},
             NEW until \in {jobToday, Person!Forever}, NEW on \in BOOLEAN, Person!Edit(code, until, kind, ends, on)
      PROVE  PersonMoves
  BY <1>5, AtForm
<1> QED BY <1>1, <1>2, <1>3, <1>4, <1>5 DEF Person!Next, PersonMoves

-----------------------------------------------------------------------------
(* The sealed bands. *)

RankColumns == {"circle", "total", "status", "sig", "standing"}

\* The generations of rows, whoever is in them.
RankForm(rw) ==
    /\ DOMAIN rw = Rank!Scopes
    /\ \A s \in Rank!Scopes : DOMAIN rw[s] \subseteq Staff /\ \A p \in DOMAIN rw[s] : DOMAIN rw[s][p] = RankColumns

\* Whom a row of a CM or TR is compared with: the circle, in the generation of the row.
Cohort(rw, fz, s, c) == {q \in DOMAIN rw[s] \ (Supervisors \cup OnLeave) : fz[q] = c}
Totals(rw, s) == [q \in DOMAIN rw[s] |-> rw[s][q].total]
\* Whom a supervisor's is compared with: the generations a signature names.
NamedIn(rw, fz, sig, q) == {t \in sig : t[1] = fz[q] /\ q \in DOMAIN rw[t[2]]}
HeldBy(rw, fz, sig) == {q \in Supervisors \ OnLeave : NamedIn(rw, fz, sig, q) # {}}
OneOf(S) == CHOOSE t \in S : TRUE
HeldTotal(rw, fz, sig, q) == rw[OneOf(NamedIn(rw, fz, sig, q))[2]][q].total
HeldTotals(rw, fz, sig) == [q \in HeldBy(rw, fz, sig) |-> HeldTotal(rw, fz, sig, q)]

\* A row is as it was compared: in its generation, or in those its signature names as
\* long as none of them was closed anew.
OfCircle(rw, fz, s, p) ==
    /\ rw[s][p].standing = Rank!Standing(p, Totals(rw, s), Cohort(rw, fz, s, fz[p]))
    /\ rw[s][p].status = Rank!Status(Totals(rw, s), Cohort(rw, fz, s, fz[p]))
OfAll(rw, fz, cl, n, s, p) ==
    LET sig == rw[s][p].sig IN
    /\ sig = {} => rw[s][p].status = "waiting_global"
    /\ \A t \in sig : t[1] \in Homes /\ t[2] \in {t[1], All} /\ t[3] \in Nat /\ t[3] <= n
    /\ \A t, u \in sig : t[1] = u[1] => t = u
    /\ sig # {} /\ (\A t \in sig : cl[t[2]].at = t[3]) =>
          /\ rw[s][p].standing = Rank!Standing(p, HeldTotals(rw, fz, sig), HeldBy(rw, fz, sig))
          /\ rw[s][p].status = Rank!Status(HeldTotals(rw, fz, sig), HeldBy(rw, fz, sig))
RowTrue(rw, fz, cl, n, s, p) ==
    /\ fz[p] # All /\ (s = All \/ fz[p] = s)
    /\ p \in OnLeave => rw[s][p].status = "excluded"
    /\ p \notin OnLeave \cup Supervisors => OfCircle(rw, fz, s, p)
    /\ p \in Supervisors \ OnLeave => OfAll(rw, fz, cl, n, s, p)
RowsTrue(rw, fz, cl, n) == \A s \in Rank!Scopes : \A p \in DOMAIN rw[s] : RowTrue(rw, fz, cl, n, s, p)

RankTypes ==
    /\ rankCircle \in [Staff -> Homes]
    /\ rankFrozen \in [Staff -> Homes \cup {All}]
    /\ rankCloses \in Nat
    /\ rankClosure \in [Rank!Scopes -> [closed : BOOLEAN, at : Nat]]
    /\ \A s \in Rank!Scopes : rankClosure[s].at <= rankCloses
    /\ RankForm(rankRows)
RankInv == RankTypes /\ RowsTrue(rankRows, rankFrozen, rankClosure, rankCloses)

\* Only the totals of those compared matter.
LEMMA SameStanding ==
    ASSUME NEW group, NEW p, NEW of, NEW other, \A q \in group \cup {p} : of[q] = other[q]
    PROVE  Rank!Standing(p, of, group) = Rank!Standing(p, other, group)
<1>1. {q \in group : of[q] < of[p]} = {q \in group : other[q] < other[p]}
  OBVIOUS
<1>2. {q \in group : of[q] = of[p]} = {q \in group : other[q] = other[p]}
  OBVIOUS
<1> QED BY <1>1, <1>2, Zenon DEF Rank!Standing

LEMMA SameStatus ==
    ASSUME NEW group, NEW of, NEW other, \A q \in group : of[q] = other[q]
    PROVE  Rank!Status(of, group) = Rank!Status(other, group)
<1>1. (\A p, q \in group : of[p] = of[q]) <=> (\A p, q \in group : other[p] = other[q])
  OBVIOUS
<1> QED BY <1>1, Zenon DEF Rank!Status

\* Generations change: whose rows stay compares as before.
TotalsStay(rw, fz, others, froze, s) ==
    /\ DOMAIN others[s] = DOMAIN rw[s]
    /\ \A q \in DOMAIN rw[s] : others[s][q].total = rw[s][q].total /\ froze[q] = fz[q]

LEMMA SameCompared ==
    ASSUME NEW rw, NEW fz, NEW others, NEW froze, NEW sig,
           \A t \in sig : TotalsStay(rw, fz, others, froze, t[2])
    PROVE  /\ HeldBy(others, froze, sig) = HeldBy(rw, fz, sig)
           /\ HeldTotals(others, froze, sig) = HeldTotals(rw, fz, sig)
<1>1. \A q : NamedIn(others, froze, sig, q) = NamedIn(rw, fz, sig, q)
  BY DEF NamedIn, TotalsStay
<1>2. HeldBy(others, froze, sig) = HeldBy(rw, fz, sig)
  BY <1>1 DEF HeldBy
<1>3. ASSUME NEW q \in HeldBy(rw, fz, sig) PROVE HeldTotal(others, froze, sig, q) = HeldTotal(rw, fz, sig, q)
  <2> DEFINE t == OneOf(NamedIn(rw, fz, sig, q))
  <2>1. t \in NamedIn(rw, fz, sig, q)
    BY <1>3 DEF HeldBy, OneOf
  <2>2. t \in sig /\ q \in DOMAIN rw[t[2]]
    BY <2>1 DEF NamedIn
  <2>3. HeldTotal(rw, fz, sig, q) = rw[t[2]][q].total /\ HeldTotal(others, froze, sig, q) = others[t[2]][q].total
    BY <1>1 DEF HeldTotal
  <2> HIDE DEF t
  <2> QED BY <2>2, <2>3 DEF TotalsStay
<1> QED BY <1>2, <1>3 DEF HeldTotals

\* So a row stays true of another generation of the other rows as long as none that it
\* was compared with was closed anew.
LEMMA CompareAgain ==
    ASSUME NEW rw, NEW fz, NEW others, NEW froze, NEW cl, NEW m, NEW n, NEW before,
           RankForm(rw), RankForm(others), n \in Nat, m \in Nat, n <= m, NEW s \in Rank!Scopes,
           RowsTrue(rw, fz, before, n),
           TotalsStay(rw, fz, others, froze, s),
           \A u \in Rank!Scopes : cl[u].at \in Nat,
           \A u \in Rank!Scopes : cl[u].at <= n =>
              cl[u].at = before[u].at /\ TotalsStay(rw, fz, others, froze, u),
           NEW p \in DOMAIN rw[s], others[s][p] = rw[s][p]
    PROVE  RowTrue(others, froze, cl, m, s, p)
<1>1. RowTrue(rw, fz, before, n, s, p)
  BY DEF RowsTrue
<1>2. others[s][p] = rw[s][p] /\ froze[p] = fz[p]
  BY DEF TotalsStay
<1>3. Totals(others, s) = Totals(rw, s)
  BY DEF Totals, TotalsStay
<1>4. \A c : Cohort(others, froze, s, c) = Cohort(rw, fz, s, c)
  BY DEF Cohort, TotalsStay
<1>5. OfCircle(rw, fz, s, p) => OfCircle(others, froze, s, p)
  BY <1>2, <1>3, <1>4 DEF OfCircle
<1>6. ASSUME OfAll(rw, fz, before, n, s, p) PROVE OfAll(others, froze, cl, m, s, p)
  <2> DEFINE sig == rw[s][p].sig
  <2>1. /\ sig = {} => rw[s][p].status = "waiting_global"
        /\ \A t \in sig : t[1] \in Homes /\ t[2] \in {t[1], All} /\ t[3] \in Nat /\ t[3] <= n
        /\ \A t, u \in sig : t[1] = u[1] => t = u
        /\ sig # {} /\ (\A t \in sig : before[t[2]].at = t[3]) =>
              /\ rw[s][p].standing = Rank!Standing(p, HeldTotals(rw, fz, sig), HeldBy(rw, fz, sig))
              /\ rw[s][p].status = Rank!Status(HeldTotals(rw, fz, sig), HeldBy(rw, fz, sig))
    BY <1>6 DEF OfAll
  <2>2. others[s][p].sig = sig /\ others[s][p].status = rw[s][p].status /\ others[s][p].standing = rw[s][p].standing
    BY <1>2
  <2> HIDE DEF sig
  <2>3. \A t \in sig : t[3] <= m
    BY <2>1
  <2>4. ASSUME sig # {}, \A t \in sig : cl[t[2]].at = t[3]
        PROVE  /\ rw[s][p].standing = Rank!Standing(p, HeldTotals(others, froze, sig), HeldBy(others, froze, sig))
               /\ rw[s][p].status = Rank!Status(HeldTotals(others, froze, sig), HeldBy(others, froze, sig))
    <3>1. \A t \in sig : t[2] \in Rank!Scopes /\ cl[t[2]].at <= n
      <4> TAKE t \in sig
      <4>1. t[2] \in Rank!Scopes
        BY <2>1 DEF Rank!Scopes
      <4>2. t[3] <= n /\ cl[t[2]].at = t[3]
        BY <2>1, <2>4
      <4> QED BY <4>1, <4>2
    <3>2. \A t \in sig : before[t[2]].at = t[3]
      BY <2>4, <3>1
    <3>3. \A t \in sig : TotalsStay(rw, fz, others, froze, t[2])
      BY <3>1
    <3>4. /\ HeldBy(others, froze, sig) = HeldBy(rw, fz, sig)
          /\ HeldTotals(others, froze, sig) = HeldTotals(rw, fz, sig)
      BY <3>3, SameCompared
    <3> QED BY <2>1, <2>4, <3>2, <3>4
  <2> QED BY <2>1, <2>2, <2>3, <2>4 DEF OfAll
<1> QED BY <1>1, <1>2, <1>5, <1>6 DEF RowTrue
-----------------------------------------------------------------------------
(* A refresh of the supervisors' bands. *)

Selected(cl, rw, fz) == {x \in Rank!InForce(cl, rw, fz) : x[1] \in Supervisors /\ fz[x[1]] \in Rank!SealCircles(fz)}
SelectedTotals(cl, rw, fz) ==
    [p \in {x[1] : x \in Selected(cl, rw, fz)} |->
        rw[CHOOSE s \in Rank!Scopes : <<p, s>> \in Selected(cl, rw, fz)][p].total]
\* What a step of a close works on: everyone has a circle, and scopes closures.
RankWorld(cl, rw, fz) ==
    /\ rankCircle \in [Staff -> Homes] /\ fz \in [Staff -> Homes \cup {All}]
    /\ cl \in [Rank!Scopes -> [closed : BOOLEAN, at : Nat]] /\ RankForm(rw)

\* One closure is in force for a circle.
LEMMA OneEffective ==
    ASSUME NEW cl, NEW c \in Rank!Scopes
    PROVE  /\ Rank!Effective(cl, c) \subseteq {c, All} /\ Rank!Effective(cl, c) \subseteq Rank!Scopes
           /\ \A s, u \in Rank!Effective(cl, c) : s = u
BY DEF Rank!Effective, Rank!Scopes

LEMMA SealedCircles ==
    ASSUME NEW cl, NEW rw, NEW fz, RankWorld(cl, rw, fz)
    PROVE  /\ Rank!SealCircles(fz) \subseteq Homes
           /\ \A p \in Supervisors : fz[p] # All => fz[p] \in Rank!SealCircles(fz)
<1>1. \A p \in Supervisors : p \in Staff
  BY RankAssumption
<1> QED BY <1>1 DEF RankWorld, Rank!SealCircles, Rank!Nowhere

LEMMA Named ==
    ASSUME NEW cl, NEW rw, NEW fz, RankWorld(cl, rw, fz), NEW t
    PROVE  t \in Rank!Signature(cl, fz) =>
             \E c \in Rank!SealCircles(fz) : \E s \in Rank!Effective(cl, c) : t = <<c, s, cl[s].at>>
BY DEF Rank!Signature, Rank!Stamp

LEMMA Names ==
    ASSUME NEW cl, NEW rw, NEW fz, RankWorld(cl, rw, fz), Rank!Signature(cl, fz) # {},
           NEW c \in Rank!SealCircles(fz), NEW s \in Rank!Effective(cl, c)
    PROVE  <<c, s, cl[s].at>> \in Rank!Signature(cl, fz)
<1>1. Rank!Signature(cl, fz) = {Rank!Stamp(cl, x[1], x[2]) :
          x \in {y \in Rank!SealCircles(fz) \X Rank!Scopes : y[2] \in Rank!Effective(cl, y[1])}}
  BY DEF Rank!Signature
<1>2. c \in Rank!Scopes
  BY SealedCircles DEF Rank!Scopes
<1>3. s \in Rank!Scopes
  BY <1>2, OneEffective
<1>4. <<c, s>> \in {y \in Rank!SealCircles(fz) \X Rank!Scopes : y[2] \in Rank!Effective(cl, y[1])}
  BY <1>3
<1>5. Rank!Stamp(cl, c, s) \in Rank!Signature(cl, fz)
  BY <1>1, <1>4
<1> QED BY <1>5 DEF Rank!Stamp

\* Who is in force under a signature, and with what total.
LEMMA NamedInForce ==
    ASSUME NEW cl, NEW rw, NEW fz, RankWorld(cl, rw, fz), Rank!Signature(cl, fz) # {},
           NEW q \in Supervisors, NEW s
    PROVE  <<q, s>> \in Rank!InForce(cl, rw, fz) <=>
             \E t \in NamedIn(rw, fz, Rank!Signature(cl, fz), q) : t[2] = s
<1> DEFINE sig == Rank!Signature(cl, fz)
<1>1. q \in Staff
  BY RankAssumption
<1>2. ASSUME <<q, s>> \in Rank!InForce(cl, rw, fz)
      PROVE  \E t \in NamedIn(rw, fz, sig, q) : t[2] = s
  <2>1. fz[q] # All /\ s \in Rank!Effective(cl, fz[q]) /\ q \in DOMAIN rw[s]
    BY <1>2 DEF Rank!InForce, Rank!Nowhere
  <2>2. <<fz[q], s, cl[s].at>> \in sig
    BY <2>1, Names, SealedCircles
  <2>3. PICK t : t = <<fz[q], s, cl[s].at>>
    OBVIOUS
  <2>4. t \in sig /\ t[1] = fz[q] /\ t[2] = s
    BY <2>2, <2>3
  <2> HIDE DEF sig
  <2> QED BY <2>1, <2>4 DEF NamedIn
<1>3. ASSUME NEW t \in NamedIn(rw, fz, sig, q), t[2] = s
      PROVE  <<q, s>> \in Rank!InForce(cl, rw, fz)
  <2>1. t \in sig /\ t[1] = fz[q] /\ q \in DOMAIN rw[s]
    BY <1>3 DEF NamedIn
  <2>2. PICK c \in Rank!SealCircles(fz) : \E u \in Rank!Effective(cl, c) : t = <<c, u, cl[u].at>>
    BY <2>1, Named
  <2>3. c = fz[q] /\ s \in Rank!Effective(cl, c)
    BY <1>3, <2>1, <2>2
  <2>4. c \in Homes /\ c # All
    BY SealedCircles, RankAssumption
  <2>5. s \in Rank!Scopes
    BY <2>3, <2>4, OneEffective DEF Rank!Scopes
  <2> QED BY <1>1, <2>1, <2>3, <2>4, <2>5 DEF Rank!InForce, Rank!Nowhere
<1> QED BY <1>2, <1>3

LEMMA OneInForce ==
    ASSUME NEW cl, NEW rw, NEW fz, RankWorld(cl, rw, fz), NEW q, NEW s, NEW u,
           <<q, s>> \in Rank!InForce(cl, rw, fz), <<q, u>> \in Rank!InForce(cl, rw, fz)
    PROVE  s = u /\ s \in Rank!Scopes /\ q \in Staff /\ q \in DOMAIN rw[s]
<1>1. /\ q \in Staff /\ fz[q] # All /\ s \in Rank!Effective(cl, fz[q]) /\ u \in Rank!Effective(cl, fz[q])
      /\ q \in DOMAIN rw[s] /\ s \in Rank!Scopes
  BY DEF Rank!InForce, Rank!Nowhere
<1>2. fz[q] \in Rank!Scopes
  BY <1>1 DEF RankWorld, Rank!Scopes
<1> QED BY <1>1, <1>2, OneEffective

\* The signature's supervisors are those in force, leave of absence apart.
LEMMA HeldInForce ==
    ASSUME NEW cl, NEW rw, NEW fz, RankWorld(cl, rw, fz), Rank!Signature(cl, fz) # {}
    PROVE  LET sig == Rank!Signature(cl, fz) IN
           /\ HeldBy(rw, fz, sig) = {q \in Supervisors \ OnLeave : \E s \in Rank!Scopes : <<q, s>> \in Rank!InForce(cl, rw, fz)}
           /\ \A q \in HeldBy(rw, fz, sig) : \A s : <<q, s>> \in Rank!InForce(cl, rw, fz)
                                             => HeldTotals(rw, fz, sig)[q] = rw[s][q].total
<1> DEFINE sig == Rank!Signature(cl, fz)
<1>1. ASSUME NEW q \in Supervisors, NEW s
      PROVE  <<q, s>> \in Rank!InForce(cl, rw, fz) <=> \E t \in NamedIn(rw, fz, sig, q) : t[2] = s
  BY NamedInForce
<1>2. \A q \in Supervisors : \A s : <<q, s>> \in Rank!InForce(cl, rw, fz) => s \in Rank!Scopes
  BY OneInForce
<1> HIDE DEF sig
<1>3. \A q \in Supervisors : NamedIn(rw, fz, sig, q) # {} <=> \E s \in Rank!Scopes : <<q, s>> \in Rank!InForce(cl, rw, fz)
  BY <1>1, <1>2
<1>4. HeldBy(rw, fz, sig) = {q \in Supervisors \ OnLeave : \E s \in Rank!Scopes : <<q, s>> \in Rank!InForce(cl, rw, fz)}
  BY <1>3 DEF HeldBy
<1>5. ASSUME NEW q \in HeldBy(rw, fz, sig), NEW s, <<q, s>> \in Rank!InForce(cl, rw, fz)
      PROVE  HeldTotals(rw, fz, sig)[q] = rw[s][q].total
  <2> DEFINE t == OneOf(NamedIn(rw, fz, sig, q))
  <2>1. t \in NamedIn(rw, fz, sig, q) /\ q \in Supervisors
    BY <1>5 DEF HeldBy, OneOf
  <2>2. HeldTotals(rw, fz, sig)[q] = rw[t[2]][q].total
    BY <1>5 DEF HeldTotals, HeldTotal
  <2> HIDE DEF t
  <2>3. <<q, t[2]>> \in Rank!InForce(cl, rw, fz)
    BY <1>1, <2>1
  <2>4. s = t[2]
    BY <1>5, <2>3, OneInForce
  <2> QED BY <2>2, <2>4
<1> QED BY <1>4, <1>5 DEF sig

\* A row that names the present signature is of the comparison it tells of.
LEMMA SignatureTold ==
    ASSUME NEW cl, NEW rw, NEW fz, RankWorld(cl, rw, fz), NEW n \in Nat, \A u \in Rank!Scopes : cl[u].at <= n
    PROVE  /\ \A t \in Rank!Signature(cl, fz) :
                 /\ t[1] \in Homes /\ t[2] \in {t[1], All} /\ t[3] \in Nat /\ t[3] <= n /\ cl[t[2]].at = t[3]
           /\ \A t, u \in Rank!Signature(cl, fz) : t[1] = u[1] => t = u
<1>1. ASSUME NEW t \in Rank!Signature(cl, fz)
      PROVE  \E c \in Homes, s \in Rank!Scopes :
                t = <<c, s, cl[s].at>> /\ s \in Rank!Effective(cl, c) /\ s \in {c, All}
  <2>1. PICK c \in Rank!SealCircles(fz) : \E s \in Rank!Effective(cl, c) : t = <<c, s, cl[s].at>>
    BY Named
  <2>2. PICK s \in Rank!Effective(cl, c) : t = <<c, s, cl[s].at>>
    BY <2>1
  <2>3. c \in Homes /\ c \in Rank!Scopes
    BY SealedCircles DEF Rank!Scopes
  <2> QED BY <2>2, <2>3, OneEffective
<1>2. ASSUME NEW t \in Rank!Signature(cl, fz)
      PROVE  t[1] \in Homes /\ t[2] \in {t[1], All} /\ t[3] \in Nat /\ t[3] <= n /\ cl[t[2]].at = t[3]
  BY <1>1 DEF RankWorld
<1>3. ASSUME NEW t \in Rank!Signature(cl, fz), NEW u \in Rank!Signature(cl, fz), t[1] = u[1]
      PROVE  t = u
  <2>1. PICK c \in Homes, s \in Rank!Scopes : t = <<c, s, cl[s].at>> /\ s \in Rank!Effective(cl, c)
    BY <1>1
  <2>2. PICK d \in Homes, v \in Rank!Scopes : u = <<d, v, cl[v].at>> /\ v \in Rank!Effective(cl, d)
    BY <1>1
  <2>3. c = d /\ c \in Rank!Scopes
    BY <1>3, <2>1, <2>2 DEF Rank!Scopes
  <2>4. s = v
    BY <2>1, <2>2, <2>3, OneEffective
  <2> QED BY <2>1, <2>2, <2>3, <2>4
<1> QED BY <1>2, <1>3

\* Those a refresh compares are those its signature names.
LEMMA SelectedHeld ==
    ASSUME NEW cl, NEW rw, NEW fz, RankWorld(cl, rw, fz), Rank!Signature(cl, fz) # {}
    PROVE  /\ Rank!Compared(Selected(cl, rw, fz)) = HeldBy(rw, fz, Rank!Signature(cl, fz))
           /\ \A q \in HeldBy(rw, fz, Rank!Signature(cl, fz)) :
                 SelectedTotals(cl, rw, fz)[q] = HeldTotals(rw, fz, Rank!Signature(cl, fz))[q]
<1> DEFINE sig == Rank!Signature(cl, fz)
           chosen == Selected(cl, rw, fz)
           at(q) == CHOOSE s \in Rank!Scopes : <<q, s>> \in chosen
<1>1. \A q, s : <<q, s>> \in chosen <=> q \in Supervisors /\ <<q, s>> \in Rank!InForce(cl, rw, fz)
  <2>1. \A q, s : <<q, s>> \in Rank!InForce(cl, rw, fz) => fz[q] # All
    BY DEF Rank!InForce, Rank!Nowhere
  <2> QED BY <2>1, SealedCircles DEF Selected
<1>2. \A x \in chosen : x = <<x[1], x[2]>>
  BY DEF Selected, Rank!InForce
<1>3. HeldBy(rw, fz, sig) = {q \in Supervisors \ OnLeave : \E s \in Rank!Scopes : <<q, s>> \in Rank!InForce(cl, rw, fz)}
  BY HeldInForce
<1>4. ASSUME NEW q \in HeldBy(rw, fz, sig), NEW s, <<q, s>> \in Rank!InForce(cl, rw, fz)
      PROVE  HeldTotals(rw, fz, sig)[q] = rw[s][q].total
  BY <1>4, HeldInForce
<1>5. \A q, s : <<q, s>> \in Rank!InForce(cl, rw, fz) => s \in Rank!Scopes
  BY OneInForce
<1> HIDE DEF sig, chosen
<1>6. {x[1] : x \in chosen} = {q \in Supervisors : \E s \in Rank!Scopes : <<q, s>> \in Rank!InForce(cl, rw, fz)}
  <2>1. \A x \in chosen : x[1] \in Supervisors /\ <<x[1], x[2]>> \in Rank!InForce(cl, rw, fz)
    BY <1>1, <1>2
  <2>2. \A q, s : <<q, s>> \in chosen => q \in {x[1] : x \in chosen}
    OBVIOUS
  <2> QED BY <1>1, <1>5, <2>1, <2>2
<1>7. Rank!Compared(chosen) = HeldBy(rw, fz, sig)
  BY <1>3, <1>6 DEF Rank!Compared
<1>8. ASSUME NEW q \in HeldBy(rw, fz, sig)
      PROVE  SelectedTotals(cl, rw, fz)[q] = HeldTotals(rw, fz, sig)[q]
  <2>1. \E s \in Rank!Scopes : <<q, s>> \in chosen
    BY <1>1, <1>3
  <2>2. <<q, at(q)>> \in chosen
    BY <2>1
  <2>3. q \in {x[1] : x \in chosen}
    BY <1>3, <1>6
  <2>4. SelectedTotals(cl, rw, fz)[q] = rw[at(q)][q].total
    BY <2>3 DEF SelectedTotals, chosen
  <2> HIDE DEF at
  <2> QED BY <1>1, <1>4, <2>2, <2>4
<1> QED BY <1>7, <1>8 DEF sig, chosen

\* A refresh rewrites what the selected are compared with, and nothing else.
LEMMA RefreshedRows ==
    ASSUME NEW cl, NEW rw, NEW fz, RankWorld(cl, rw, fz)
    PROVE  /\ RankForm(Rank!Refreshed(cl, rw, fz))
           /\ \A s \in Rank!Scopes : TotalsStay(rw, fz, Rank!Refreshed(cl, rw, fz), fz, s)
           /\ \A s \in Rank!Scopes : \A p \in DOMAIN rw[s] :
                 LET row == Rank!Refreshed(cl, rw, fz)[s][p]
                     sig == Rank!Signature(cl, fz)
                     group == Rank!Compared(Selected(cl, rw, fz))
                     of == SelectedTotals(cl, rw, fz)
                 IN \/ row = rw[s][p]
                    \/ /\ <<p, s>> \in Selected(cl, rw, fz) /\ sig # {} /\ row.sig = sig
                       /\ p \in OnLeave => row.status = rw[s][p].status
                       /\ p \notin OnLeave => /\ row.status = Rank!Status(of, group)
                                              /\ row.standing = Rank!Standing(p, of, group)
<1> DEFINE sig == Rank!Signature(cl, fz)
           selected == Selected(cl, rw, fz)
           of == SelectedTotals(cl, rw, fz)
           group == Rank!Compared(selected)
           new(s, p) == IF <<p, s>> \notin selected \/ rw[s][p].sig = sig THEN rw[s][p]
                        ELSE IF p \in OnLeave THEN [rw[s][p] EXCEPT !.sig = sig]
                        ELSE [rw[s][p] EXCEPT !.sig = sig, !.status = Rank!Status(of, group),
                                              !.standing = Rank!Standing(p, of, group)]
           news == [s \in Rank!Scopes |-> [p \in DOMAIN rw[s] |-> new(s, p)]]
<1>1. Rank!Refreshed(cl, rw, fz) = IF sig = {} \/ {fz[x[1]] : x \in selected} # Rank!SealCircles(fz) THEN rw ELSE news
  BY DEF Rank!Refreshed, Selected, SelectedTotals
<1>2. \A s \in Rank!Scopes : \A p \in DOMAIN rw[s] : DOMAIN rw[s][p] = RankColumns
  BY DEF RankWorld, RankForm
<1> HIDE DEF sig, selected, of, group
<1>3. ASSUME NEW s \in Rank!Scopes, NEW p \in DOMAIN rw[s]
      PROVE  /\ DOMAIN new(s, p) = RankColumns /\ new(s, p).total = rw[s][p].total
             /\ \/ new(s, p) = rw[s][p]
                \/ /\ <<p, s>> \in selected /\ new(s, p).sig = sig
                   /\ p \in OnLeave => new(s, p).status = rw[s][p].status
                   /\ p \notin OnLeave => /\ new(s, p).status = Rank!Status(of, group)
                                          /\ new(s, p).standing = Rank!Standing(p, of, group)
  BY <1>2 DEF RankColumns
<1>4. CASE sig = {} \/ {fz[x[1]] : x \in selected} # Rank!SealCircles(fz)
  <2>1. Rank!Refreshed(cl, rw, fz) = rw
    BY <1>1, <1>4
  <2> QED BY <2>1 DEF RankWorld, TotalsStay
<1>5. CASE ~(sig = {} \/ {fz[x[1]] : x \in selected} # Rank!SealCircles(fz))
  <2>1. Rank!Refreshed(cl, rw, fz) = news
    BY <1>1, <1>5
  <2>2. /\ DOMAIN news = Rank!Scopes
        /\ \A s \in Rank!Scopes : DOMAIN news[s] = DOMAIN rw[s] /\ \A p \in DOMAIN rw[s] : news[s][p] = new(s, p)
    OBVIOUS
  <2> HIDE DEF new, news
  <2>3. RankForm(news)
    <3>1. \A s \in Rank!Scopes : DOMAIN news[s] \subseteq Staff
      BY <2>2 DEF RankForm, RankWorld
    <3>2. \A s \in Rank!Scopes : \A p \in DOMAIN news[s] : DOMAIN news[s][p] = RankColumns
      <4> TAKE s \in Rank!Scopes
      <4> TAKE p \in DOMAIN news[s]
      <4>1. p \in DOMAIN rw[s] /\ news[s][p] = new(s, p)
        BY <2>2
      <4> QED BY <1>3, <4>1
    <3> QED BY <2>2, <3>1, <3>2, Zenon DEF RankForm
  <2>4. \A s \in Rank!Scopes : TotalsStay(rw, fz, news, fz, s)
    BY <1>3, <2>2 DEF TotalsStay
  <2> QED BY <1>3, <1>5, <2>1, <2>2, <2>3, <2>4 DEF sig, selected, of, group
<1> QED BY <1>4, <1>5

\* A refreshed row is as it was compared.
LEMMA RefreshedTrue ==
    ASSUME NEW cl, NEW rw, NEW fz, RankWorld(cl, rw, fz), NEW n \in Nat, \A u \in Rank!Scopes : cl[u].at <= n,
           RowsTrue(rw, fz, cl, n)
    PROVE  RowsTrue(Rank!Refreshed(cl, rw, fz), fz, cl, n)
<1> DEFINE news == Rank!Refreshed(cl, rw, fz)
           sig == Rank!Signature(cl, fz)
           group == Rank!Compared(Selected(cl, rw, fz))
           of == SelectedTotals(cl, rw, fz)
<1>1. /\ RankForm(rw) /\ RankForm(news)
      /\ \A u \in Rank!Scopes : cl[u].at \in Nat
  BY RefreshedRows DEF RankWorld
<1>2. \A s \in Rank!Scopes : TotalsStay(rw, fz, news, fz, s)
  BY RefreshedRows
<1>3. ASSUME NEW s \in Rank!Scopes, NEW p \in DOMAIN rw[s]
      PROVE  \/ news[s][p] = rw[s][p]
             \/ /\ <<p, s>> \in Selected(cl, rw, fz) /\ sig # {} /\ news[s][p].sig = sig
                /\ p \in OnLeave => news[s][p].status = rw[s][p].status
                /\ p \notin OnLeave => /\ news[s][p].status = Rank!Status(of, group)
                                       /\ news[s][p].standing = Rank!Standing(p, of, group)
  BY RefreshedRows
<1>4. ASSUME NEW s \in Rank!Scopes, NEW p \in DOMAIN rw[s], <<p, s>> \in Selected(cl, rw, fz)
      PROVE  p \in Supervisors /\ fz[p] # All /\ (s = All \/ fz[p] = s)
  <2>1. p \in Supervisors /\ p \in Staff /\ fz[p] # All /\ s \in Rank!Effective(cl, fz[p])
    BY <1>4 DEF Selected, Rank!InForce, Rank!Nowhere
  <2>2. fz[p] \in Rank!Scopes
    BY <2>1 DEF RankWorld, Rank!Scopes
  <2> QED BY <2>1, <2>2, OneEffective
<1>5. sig # {} => /\ Rank!Compared(Selected(cl, rw, fz)) = HeldBy(rw, fz, sig)
                  /\ \A q \in HeldBy(rw, fz, sig) : of[q] = HeldTotals(rw, fz, sig)[q]
  BY SelectedHeld
<1>6. /\ \A t \in sig : t[1] \in Homes /\ t[2] \in {t[1], All} /\ t[3] \in Nat /\ t[3] <= n
      /\ \A t, u \in sig : t[1] = u[1] => t = u
  BY SignatureTold
<1>7. sig # {} => \A p : (\E s \in Rank!Scopes : <<p, s>> \in Selected(cl, rw, fz)) /\ p \notin OnLeave => p \in HeldBy(rw, fz, sig)
  <2>1. \A p, s : <<p, s>> \in Selected(cl, rw, fz) => p \in {x[1] : x \in Selected(cl, rw, fz)}
    OBVIOUS
  <2> QED BY <1>5, <2>1 DEF Rank!Compared
<1>8. /\ HeldBy(news, fz, sig) = HeldBy(rw, fz, sig)
      /\ HeldTotals(news, fz, sig) = HeldTotals(rw, fz, sig)
  <2>1. \A t \in sig : TotalsStay(rw, fz, news, fz, t[2])
    BY <1>2, <1>6 DEF Rank!Scopes
  <2> HIDE DEF sig, news
  <2> QED BY <2>1, SameCompared
<1> HIDE DEF sig, news, of, group
<1>9. ASSUME NEW s \in Rank!Scopes, NEW p \in DOMAIN rw[s] PROVE RowTrue(news, fz, cl, n, s, p)
  <2>1. CASE news[s][p] = rw[s][p]
    <3>1. \A u \in Rank!Scopes : cl[u].at <= n => cl[u].at = cl[u].at /\ TotalsStay(rw, fz, news, fz, u)
      BY <1>2
    <3> QED BY <1>1, <1>2, <2>1, <3>1, CompareAgain
  <2>2. CASE /\ <<p, s>> \in Selected(cl, rw, fz) /\ sig # {} /\ news[s][p].sig = sig
             /\ p \in OnLeave => news[s][p].status = rw[s][p].status
             /\ p \notin OnLeave => /\ news[s][p].status = Rank!Status(of, group)
                                    /\ news[s][p].standing = Rank!Standing(p, of, group)
    <3>1. p \in Supervisors /\ fz[p] # All /\ (s = All \/ fz[p] = s)
      BY <1>4, <2>2
    <3>2. p \in OnLeave => news[s][p].status = "excluded"
      BY <2>2 DEF RowsTrue, RowTrue
    <3>3. ASSUME p \notin OnLeave PROVE OfAll(news, fz, cl, n, s, p)
      <4>1. p \in HeldBy(rw, fz, sig) /\ group = HeldBy(rw, fz, sig)
        BY <1>5, <1>7, <2>2, <3>3 DEF group
      <4>2. \A q \in group : of[q] = HeldTotals(news, fz, sig)[q]
        BY <1>5, <1>8, <2>2, <4>1
      <4>3. group \cup {p} = group
        BY <4>1
      <4>4. news[s][p].status = Rank!Status(HeldTotals(news, fz, sig), HeldBy(news, fz, sig))
        BY <1>8, <2>2, <3>3, <4>1, <4>2, SameStatus
      <4>5. news[s][p].standing = Rank!Standing(p, HeldTotals(news, fz, sig), HeldBy(news, fz, sig))
        BY <1>8, <2>2, <3>3, <4>1, <4>2, <4>3, SameStanding
      <4>6. news[s][p].sig = sig /\ sig # {}
        BY <2>2
      <4> QED BY <1>6, <4>4, <4>5, <4>6 DEF OfAll
    <3> QED BY <3>1, <3>2, <3>3 DEF RowTrue
  <2> QED BY <1>3, <2>1, <2>2
<1>10. \A s \in Rank!Scopes : DOMAIN news[s] = DOMAIN rw[s]
  BY <1>2 DEF TotalsStay
<1>11. RowsTrue(news, fz, cl, n)
  BY <1>9, <1>10 DEF RowsTrue
<1> QED BY <1>11 DEF news
-----------------------------------------------------------------------------
(* The operations. *)

LEMMA RanksBegin == Rank!Init => RankInv
<1> SUFFICES ASSUME Rank!Init PROVE RankInv
  OBVIOUS
<1>1. rankRows = [s \in Rank!Scopes |-> <<>>] /\ DOMAIN <<>> = {}
  BY DEF Rank!Init
<1>2. RankForm(rankRows)
  BY <1>1 DEF RankForm
<1>3. RowsTrue(rankRows, rankFrozen, rankClosure, rankCloses)
  BY <1>1 DEF RowsTrue
<1>4. RankTypes
  BY <1>2, RankAssumption DEF Rank!Init, RankTypes, Rank!Nowhere, Rank!Scopes
<1> QED BY <1>3, <1>4 DEF RankInv

\* A record written, somebody transferred, a scope reopened: no row is touched.
LEMMA RanksStay ==
    ASSUME RankInv, rankCircle' \in [Staff -> Homes], UNCHANGED <<rankFrozen, rankRows, rankCloses>>,
           rankClosure' \in [Rank!Scopes -> [closed : BOOLEAN, at : Nat]],
           \A s \in Rank!Scopes : rankClosure'[s].at = rankClosure[s].at
    PROVE  RankInv'
<1>1. RankTypes'
  BY DEF RankInv, RankTypes
<1>2. ASSUME NEW s \in Rank!Scopes, NEW p \in DOMAIN rankRows[s]
      PROVE  RowTrue(rankRows, rankFrozen, rankClosure', rankCloses, s, p)
  <2>1. \A u \in Rank!Scopes : TotalsStay(rankRows, rankFrozen, rankRows, rankFrozen, u)
    BY DEF TotalsStay
  <2>2. /\ RankForm(rankRows) /\ rankCloses \in Nat /\ RowsTrue(rankRows, rankFrozen, rankClosure, rankCloses)
        /\ \A u \in Rank!Scopes : rankClosure'[u].at \in Nat
    BY DEF RankInv, RankTypes
  <2> QED BY <2>1, <2>2, CompareAgain
<1> QED BY <1>1, <1>2 DEF RankInv, RowsTrue

LEMMA RankReopened ==
    ASSUME RankInv, NEW s \in Rank!Scopes, Rank!Reopen(s)
    PROVE  RankInv'
<1>1. rankClosure' = [rankClosure EXCEPT ![s].closed = FALSE]
  BY DEF Rank!Reopen
<1>2. rankClosure \in [Rank!Scopes -> [closed : BOOLEAN, at : Nat]]
  BY DEF RankInv, RankTypes
<1>3. rankClosure' \in [Rank!Scopes -> [closed : BOOLEAN, at : Nat]]
  BY <1>1, <1>2
<1>4. \A u \in Rank!Scopes : rankClosure'[u].at = rankClosure[u].at
  BY <1>1, <1>2
<1> QED BY <1>3, <1>4, RanksStay DEF Rank!Reopen, RankInv, RankTypes

\* A generation is of those in the scope, compared within their circles.
LEMMA NewGeneration ==
    ASSUME NEW s \in Rank!Scopes, NEW fz \in [Staff -> Homes \cup {All}], NEW rw, RankForm(rw),
           NEW cl, NEW n, NEW others, others = [rw EXCEPT ![s] = Rank!Generation(s, fz)]
    PROVE  /\ RankForm(others)
           /\ \A p \in DOMAIN others[s] : RowTrue(others, fz, cl, n, s, p)
<1> DEFINE who == {p \in Staff : fz[p] # All /\ (s = All \/ fz[p] = s)}
           cohort(c) == {q \in who \ (Supervisors \cup OnLeave) : fz[q] = c}
           seal(p) == IF p \in OnLeave THEN Rank!Sealed(p, fz[p], "excluded", Rank!Unranked)
                      ELSE IF p \in Supervisors THEN Rank!Sealed(p, fz[p], "waiting_global", Rank!Unranked)
                      ELSE Rank!Sealed(p, fz[p], Rank!Status(rankTotal, cohort(fz[p])),
                                       Rank!Standing(p, rankTotal, cohort(fz[p])))
<1>1. Rank!Generation(s, fz) = [p \in who |-> seal(p)]
  BY DEF Rank!Generation, Rank!Nowhere
<1>2. DOMAIN rw = Rank!Scopes
  BY DEF RankForm
<1>3. others[s] = [p \in who |-> seal(p)] /\ DOMAIN others = Rank!Scopes
      /\ \A u \in Rank!Scopes : u # s => others[u] = rw[u]
  BY <1>1, <1>2
<1>4. DOMAIN others[s] = who /\ \A p \in who : others[s][p] = seal(p)
  BY <1>3
<1> HIDE DEF cohort
<1>5. \A p \in who :
      /\ DOMAIN seal(p) = RankColumns /\ seal(p).total = rankTotal[p] /\ seal(p).sig = {}
      /\ p \in OnLeave => seal(p).status = "excluded"
      /\ p \in Supervisors \ OnLeave => seal(p).status = "waiting_global"
      /\ p \notin Supervisors \cup OnLeave =>
            /\ seal(p).status = Rank!Status(rankTotal, cohort(fz[p]))
            /\ seal(p).standing = Rank!Standing(p, rankTotal, cohort(fz[p]))
  BY DEF Rank!Sealed, RankColumns
<1>8. who \subseteq Staff /\ \A p \in who : fz[p] # All /\ (s = All \/ fz[p] = s)
  OBVIOUS
<1>9. \A p \in who : others[s][p] = seal(p)
  BY <1>4
<1>10. \A c : cohort(c) = {q \in who \ (Supervisors \cup OnLeave) : fz[q] = c}
  BY DEF cohort
<1> HIDE DEF seal, who
<1>11. \A p \in who :
      /\ DOMAIN others[s][p] = RankColumns /\ others[s][p].total = rankTotal[p] /\ others[s][p].sig = {}
      /\ p \in OnLeave => others[s][p].status = "excluded"
      /\ p \in Supervisors \ OnLeave => others[s][p].status = "waiting_global"
      /\ p \notin Supervisors \cup OnLeave =>
            /\ others[s][p].status = Rank!Status(rankTotal, cohort(fz[p]))
            /\ others[s][p].standing = Rank!Standing(p, rankTotal, cohort(fz[p]))
  BY <1>5, <1>9
<1>6. RankForm(others)
  <2>1. \A u \in Rank!Scopes : DOMAIN others[u] \subseteq Staff
    BY <1>3, <1>4, <1>8 DEF RankForm
  <2>2. \A u \in Rank!Scopes : \A p \in DOMAIN others[u] : DOMAIN others[u][p] = RankColumns
    <3> TAKE u \in Rank!Scopes
    <3>1. CASE u = s
      BY <1>4, <1>11, <3>1
    <3>2. CASE u # s
      BY <1>3, <3>2 DEF RankForm
    <3> QED BY <3>1, <3>2
  <2> QED BY <1>3, <2>1, <2>2, Zenon DEF RankForm
<1>7. ASSUME NEW p \in who PROVE RowTrue(others, fz, cl, n, s, p)
  <2>1. fz[p] # All /\ (s = All \/ fz[p] = s)
    BY <1>8
  <2>2. others[s][p].sig = {} /\ (p \in OnLeave => others[s][p].status = "excluded")
    BY <1>11
  <2>3. p \in Supervisors \ OnLeave => OfAll(others, fz, cl, n, s, p)
    BY <1>11 DEF OfAll
  <2>4. ASSUME p \notin OnLeave \cup Supervisors PROVE OfCircle(others, fz, s, p)
    <3> DEFINE c == fz[p]
    <3>1. cohort(c) = Cohort(others, fz, s, c)
      BY <1>4, <1>10 DEF Cohort
    <3>2. \A q \in cohort(c) \cup {p} : rankTotal[q] = Totals(others, s)[q]
      <4>1. cohort(c) \cup {p} \subseteq who
        BY <1>10
      <4> QED BY <1>4, <1>11, <4>1 DEF Totals
    <3>3. Rank!Status(rankTotal, cohort(c)) = Rank!Status(Totals(others, s), cohort(c))
      BY <3>2, SameStatus
    <3>4. Rank!Standing(p, rankTotal, cohort(c)) = Rank!Standing(p, Totals(others, s), cohort(c))
      BY <3>2, SameStanding
    <3> QED BY <1>11, <2>4, <3>1, <3>3, <3>4 DEF OfCircle
  <2> QED BY <2>1, <2>2, <2>3, <2>4 DEF RowTrue
<1> QED BY <1>4, <1>6, <1>7

LEMMA RankClosed ==
    ASSUME RankInv, NEW s \in Rank!Scopes, Rank!Close(s)
    PROVE  RankInv'
<1> DEFINE m == rankCloses + 1
           cl == [rankClosure EXCEPT ![s] = [closed |-> TRUE, at |-> m]]
           fz == Rank!Frozen(s)
           others == [rankRows EXCEPT ![s] = Rank!Generation(s, fz)]
<1>1. /\ rankCloses' = m /\ rankClosure' = cl /\ rankFrozen' = fz /\ rankCircle' = rankCircle
      /\ rankRows' = Rank!Refreshed(cl, others, fz)
  BY DEF Rank!Close
<1>2. /\ rankCircle \in [Staff -> Homes] /\ rankFrozen \in [Staff -> Homes \cup {All}] /\ rankCloses \in Nat
      /\ rankClosure \in [Rank!Scopes -> [closed : BOOLEAN, at : Nat]]
      /\ \A u \in Rank!Scopes : rankClosure[u].at <= rankCloses
      /\ RankForm(rankRows) /\ RowsTrue(rankRows, rankFrozen, rankClosure, rankCloses)
  BY DEF RankInv, RankTypes
<1>3. m \in Nat /\ rankCloses <= m
  BY <1>2
<1>4. fz \in [Staff -> Homes \cup {All}] /\ \A p \in Staff : rankFrozen[p] # All => fz[p] = rankFrozen[p]
  BY <1>2 DEF Rank!Frozen, Rank!Nowhere
<1>5. /\ cl \in [Rank!Scopes -> [closed : BOOLEAN, at : Nat]]
      /\ \A u \in Rank!Scopes : cl[u].at <= m /\ (cl[u].at <= rankCloses => u # s)
      /\ \A u \in Rank!Scopes : u # s => cl[u] = rankClosure[u]
  <2>1. cl \in [Rank!Scopes -> [closed : BOOLEAN, at : Nat]]
    BY <1>2, <1>3
  <2>2. cl[s].at = m /\ \A u \in Rank!Scopes : u # s => cl[u] = rankClosure[u]
    BY <1>2
  <2> HIDE DEF cl
  <2>3. \A u \in Rank!Scopes : rankClosure[u].at \in Nat
    BY <1>2
  <2> QED BY <1>2, <2>1, <2>2, <2>3
<1> HIDE DEF m, cl, fz
<1>6. RankForm(others) /\ \A p \in DOMAIN others[s] : RowTrue(others, fz, cl, m, s, p)
  BY <1>2, <1>4, NewGeneration
<1>7. \A u \in Rank!Scopes : u # s => others[u] = rankRows[u]
  BY <1>2 DEF RankForm
<1> HIDE DEF others
<1>8. \A u \in Rank!Scopes : u # s => TotalsStay(rankRows, rankFrozen, others, fz, u)
  <2> TAKE u \in Rank!Scopes
  <2> HAVE u # s
  <2>1. others[u] = rankRows[u] /\ DOMAIN rankRows[u] \subseteq Staff
    BY <1>2, <1>7 DEF RankForm
  <2>2. \A q \in DOMAIN rankRows[u] : rankFrozen[q] # All
    BY <1>2 DEF RowsTrue, RowTrue
  <2> QED BY <1>4, <2>1, <2>2 DEF TotalsStay
<1>9. ASSUME NEW u \in Rank!Scopes, u # s, NEW p \in DOMAIN others[u] PROVE RowTrue(others, fz, cl, m, u, p)
  <2>1. p \in DOMAIN rankRows[u] /\ others[u][p] = rankRows[u][p]
    BY <1>7, <1>9
  <2>2. \A v \in Rank!Scopes : cl[v].at <= rankCloses =>
            cl[v].at = rankClosure[v].at /\ TotalsStay(rankRows, rankFrozen, others, fz, v)
    BY <1>5, <1>8
  <2>3. \A v \in Rank!Scopes : cl[v].at \in Nat
    BY <1>5
  <2>4. TotalsStay(rankRows, rankFrozen, others, fz, u)
    BY <1>8, <1>9
  <2> QED BY <1>2, <1>3, <1>6, <2>1, <2>2, <2>3, <2>4, CompareAgain
<1>10. RowsTrue(others, fz, cl, m)
  BY <1>6, <1>9 DEF RowsTrue
<1>11. RankWorld(cl, others, fz)
  BY <1>2, <1>4, <1>5, <1>6 DEF RankWorld
<1>12. RowsTrue(rankRows', fz, cl, m)
  BY <1>1, <1>3, <1>5, <1>10, <1>11, RefreshedTrue
<1>13. RankForm(rankRows')
  BY <1>1, <1>11, RefreshedRows
<1>14. RankTypes'
  BY <1>1, <1>2, <1>3, <1>4, <1>5, <1>13 DEF RankTypes
<1> QED BY <1>1, <1>12, <1>14 DEF RankInv

LEMMA RankStep == RankInv /\ [Rank!Next]_(Rank!rankVars) => RankInv'
<1>1. ASSUME RankInv, UNCHANGED Rank!rankVars PROVE RankInv'
  BY <1>1, RanksStay DEF Rank!rankVars, RankInv, RankTypes
<1>2. ASSUME RankInv, NEW p \in Staff, NEW x \in Scores, Rank!Write(p, x) PROVE RankInv'
  BY <1>2, RanksStay DEF Rank!Write, RankInv, RankTypes
<1>3. ASSUME RankInv, NEW p \in Staff, NEW c \in Homes, Rank!Transfer(p, c) PROVE RankInv'
  BY <1>3, RanksStay DEF Rank!Transfer, RankInv, RankTypes
<1> QED BY <1>1, <1>2, <1>3, RankClosed, RankReopened DEF Rank!Next

-----------------------------------------------------------------------------
(* What is told. *)

LEMMA SameRankSize == \A S : Rank!Cardinality(S) = Cardinality(S)
  BY DEF Rank!Cardinality, Cardinality

\* A band that is told exists.
LEMMA TierThere ==
    ASSUME NEW group, IsFiniteSet(group), NEW p \in group, NEW of, Rank!Status(of, group) = "ranked"
    PROVE  Rank!Standing(p, of, group).tier >= 0
<1> DEFINE lower == Rank!Cardinality({q \in group : of[q] < of[p]})
           same == {q \in group : of[q] = of[p]}
           size == Rank!Cardinality(group)
           steps == {t \in 1 .. 9 : 5 * (2 * lower + Rank!Cardinality(same)) > t * size} \cup {0}
<1>1. Rank!Standing(p, of, group).tier = Rank!Midpoint(lower, Rank!Cardinality(same), size)
  BY DEF Rank!Standing
<1>2. ~(size < MinCohort) /\ ~(\A q, r \in group : of[q] = of[r])
  BY DEF Rank!Status
<1>3. Rank!Cardinality(same) # size
  <2>1. PICK q, r \in group : of[q] # of[r]
    BY <1>2
  <2>2. same \subseteq group /\ same # group
    BY <2>1
  <2> QED BY <2>2, SameRankSize, FS_Subset
<1>4. Rank!Midpoint(lower, Rank!Cardinality(same), size) = Rank!Max(steps)
  BY <1>2, <1>3 DEF Rank!Midpoint
<1>5. steps \subseteq 0 .. 9 /\ 0 \in steps
  OBVIOUS
<1> HIDE DEF steps
<1>6. \E x \in steps : \A y \in steps : x >= y
  <2>1. \A x \in 0 .. 9 : x \in steps /\ (\A y \in x + 1 .. 9 : y \notin steps) => \A y \in steps : x >= y
    BY <1>5
  <2> QED BY <1>5, <2>1
<1>7. Rank!Max(steps) \in steps
  BY <1>6 DEF Rank!Max
<1>8. Rank!Standing(p, of, group).tier = Rank!Max(steps)
  BY <1>1, <1>4
<1>9. \A x \in steps : x >= 0
  BY <1>5
<1>10. Rank!Max(steps) >= 0
  BY <1>7, <1>9
<1> QED BY <1>8, <1>10

\* Who is in force beside somebody of a circle are those of his generation.
LEMMA BesideInForce ==
    ASSUME NEW cl, NEW rw, NEW fz, RankWorld(cl, rw, fz), NEW p, NEW s, <<p, s>> \in Rank!InForce(cl, rw, fz),
           NEW q, fz[q] = fz[p]
    PROVE  /\ \A u : <<q, u>> \in Rank!InForce(cl, rw, fz) => u = s /\ q \in DOMAIN rw[s]
           /\ q \in DOMAIN rw[s] => <<q, s>> \in Rank!InForce(cl, rw, fz)
<1>1. /\ p \in Staff /\ fz[p] # All /\ s \in Rank!Effective(cl, fz[p]) /\ s \in Rank!Scopes
      /\ fz[p] \in Rank!Scopes
  BY DEF Rank!InForce, Rank!Nowhere, RankWorld, Rank!Scopes
<1>2. ASSUME NEW u, <<q, u>> \in Rank!InForce(cl, rw, fz) PROVE u = s /\ q \in DOMAIN rw[s]
  <2>1. u \in Rank!Effective(cl, fz[p]) /\ q \in DOMAIN rw[u]
    BY <1>2 DEF Rank!InForce
  <2> QED BY <1>1, <2>1, OneEffective
<1>3. ASSUME q \in DOMAIN rw[s] PROVE <<q, s>> \in Rank!InForce(cl, rw, fz)
  <2>1. q \in Staff
    BY <1>1, <1>3 DEF RankWorld, RankForm
  <2> QED BY <1>1, <1>3, <2>1 DEF Rank!InForce, Rank!Nowhere
<1> QED BY <1>2, <1>3

\* Whoever is shown a band is shown that of his present comparison.
LEMMA BandsTold == RankInv => Rank!BandTold
<1> SUFFICES ASSUME RankInv PROVE Rank!BandTold
  OBVIOUS
<1> DEFINE cl == rankClosure
           rw == rankRows
           fz == rankFrozen
           now == Rank!InForce(cl, rw, fz)
           sig == Rank!Signature(cl, fz)
           peers(p) == {y \in now : /\ y[1] \notin OnLeave
                                    /\ (y[1] \in Supervisors) = (p \in Supervisors)
                                    /\ p \in Supervisors \/ fz[y[1]] = fz[p]}
           of(p) == [q \in {y[1] : y \in peers(p)} |-> rw[CHOOSE s \in Rank!Scopes : <<q, s>> \in peers(p)][q].total]
<1>1. RankWorld(cl, rw, fz) /\ rankCloses \in Nat /\ \A u \in Rank!Scopes : cl[u].at <= rankCloses
  BY DEF RankInv, RankTypes, RankWorld
<1> SUFFICES ASSUME NEW x \in now, Rank!Shown(x[1], x[2]) = "ranked"
             PROVE  /\ rw[x[2]][x[1]].standing = Rank!Standing(x[1], of(x[1]), DOMAIN of(x[1]))
                    /\ rw[x[2]][x[1]].standing.tier >= 0
  BY Zenon DEF Rank!BandTold
<1>15. PICK p \in Staff, s \in Rank!Scopes : x = <<p, s>>
  BY DEF Rank!InForce
<1> SUFFICES /\ rw[s][p].standing = Rank!Standing(p, of(p), DOMAIN of(p))
             /\ rw[s][p].standing.tier >= 0
  <2> HIDE DEF of
  <2> QED BY <1>15
<1>16. Rank!Shown(p, s) = "ranked"
  BY <1>15
<1>2. <<p, s>> \in now /\ p \in Staff /\ s \in Rank!Scopes /\ p \in DOMAIN rw[s] /\ fz[p] # All
  BY <1>15 DEF Rank!InForce, Rank!Nowhere
<1>3. /\ rw[s][p].status = "ranked"
      /\ p \in Supervisors => rw[s][p].sig = sig /\ sig # {}
  BY <1>16 DEF Rank!Shown
<1>4. RowTrue(rw, fz, cl, rankCloses, s, p)
  BY <1>2 DEF RankInv, RowsTrue
<1>5. p \notin OnLeave
  BY <1>3, <1>4 DEF RowTrue
<1>6. \A q, u : <<q, u>> \in peers(p) <=>
          /\ <<q, u>> \in now /\ q \notin OnLeave
          /\ q \in Supervisors <=> p \in Supervisors
          /\ p \in Supervisors \/ fz[q] = fz[p]
  OBVIOUS
<1>7. \A y \in peers(p) : y = <<y[1], y[2]>> /\ y[1] \in Staff /\ y[2] \in Rank!Scopes
  BY DEF Rank!InForce
<1>8. \A y \in now : \A u : y = <<y[1], u>> => u = y[2] /\ u \in Rank!Scopes
  BY <1>1, OneInForce
<1> DEFINE at(q) == CHOOSE u \in Rank!Scopes : <<q, u>> \in peers(p)
<1>9. DOMAIN of(p) = {y[1] : y \in peers(p)} /\ \A q \in DOMAIN of(p) : of(p)[q] = rw[at(q)][q].total
  OBVIOUS
<1>10. \A q : q \in {y[1] : y \in peers(p)} <=> \E u \in Rank!Scopes : <<q, u>> \in peers(p)
  <2> HIDE DEF peers
  <2>1. \A q, u : <<q, u>> \in peers(p) => q \in {y[1] : y \in peers(p)}
    OBVIOUS
  <2> QED BY <1>7, <2>1
<1>11. \A q \in DOMAIN of(p) : <<q, at(q)>> \in peers(p)
  <2> HIDE DEF peers
  <2> QED BY <1>9, <1>10
<1>12. <<p, s>> \in peers(p)
  BY <1>2, <1>5, <1>6
<1> HIDE DEF peers, of, at, now
<1>13. CASE p \in Supervisors
  <2>1. sig # {} /\ rw[s][p].sig = sig /\ OfAll(rw, fz, cl, rankCloses, s, p)
    BY <1>3, <1>4, <1>5, <1>13 DEF RowTrue
  <2>2. \A t \in sig : cl[t[2]].at = t[3]
    BY <1>1, SignatureTold
  <2>3. /\ rw[s][p].standing = Rank!Standing(p, HeldTotals(rw, fz, sig), HeldBy(rw, fz, sig))
        /\ rw[s][p].status = Rank!Status(HeldTotals(rw, fz, sig), HeldBy(rw, fz, sig))
    BY <2>1, <2>2 DEF OfAll
  <2>4. HeldBy(rw, fz, sig) = {q \in Supervisors \ OnLeave : \E u \in Rank!Scopes : <<q, u>> \in now}
    BY <1>1, <2>1, HeldInForce DEF now
  <2>5. ASSUME NEW q \in HeldBy(rw, fz, sig), NEW u, <<q, u>> \in now
        PROVE  HeldTotals(rw, fz, sig)[q] = rw[u][q].total
    BY <1>1, <2>1, <2>5, HeldInForce DEF now
  <2> HIDE DEF sig
  <2>6. DOMAIN of(p) = HeldBy(rw, fz, sig)
    BY <1>6, <1>9, <1>10, <1>13, <2>4
  <2>7. p \in HeldBy(rw, fz, sig)
    BY <1>2, <1>5, <1>13, <2>4 DEF now
  <2>8. \A q \in HeldBy(rw, fz, sig) : HeldTotals(rw, fz, sig)[q] = of(p)[q]
    BY <1>6, <1>9, <1>11, <2>5, <2>6
  <2>9. IsFiniteSet(HeldBy(rw, fz, sig))
    <3>1. HeldBy(rw, fz, sig) \subseteq Staff
      BY RankAssumption DEF HeldBy
    <3> QED BY <3>1, RankAssumption, FS_Subset
  <2>10. HeldBy(rw, fz, sig) \cup {p} = HeldBy(rw, fz, sig)
    BY <2>7
  <2>11. Rank!Standing(p, HeldTotals(rw, fz, sig), HeldBy(rw, fz, sig)) = Rank!Standing(p, of(p), HeldBy(rw, fz, sig))
    BY <2>8, <2>10, SameStanding
  <2>12. rw[s][p].standing.tier >= 0
    BY <1>3, <2>3, <2>7, <2>9, TierThere
  <2> QED BY <2>3, <2>6, <2>11, <2>12
<1>14. CASE p \notin Supervisors
  <2> DEFINE group == Cohort(rw, fz, s, fz[p])
  <2>1. /\ rw[s][p].standing = Rank!Standing(p, Totals(rw, s), group)
        /\ rw[s][p].status = Rank!Status(Totals(rw, s), group)
    BY <1>4, <1>5, <1>14 DEF RowTrue, OfCircle
  <2>2. ASSUME NEW q, NEW u
        PROVE  <<q, u>> \in peers(p) <=> u = s /\ q \in group
    <3>1. <<p, s>> \in Rank!InForce(cl, rw, fz)
      BY <1>2 DEF now
    <3>3. fz[q] = fz[p] => /\ <<q, u>> \in now => u = s /\ q \in DOMAIN rw[s]
                           /\ q \in DOMAIN rw[s] => <<q, s>> \in now
      BY <1>1, <3>1, BesideInForce DEF now
    <3>2. q \in group <=> q \in DOMAIN rw[s] /\ fz[q] = fz[p] /\ q \notin Supervisors \cup OnLeave
      BY DEF Cohort
    <3> HIDE DEF group
    <3> QED BY <1>6, <1>14, <3>2, <3>3
  <2> HIDE DEF group
  <2>3. DOMAIN of(p) = group
    BY <1>2, <1>9, <1>10, <2>2
  <2>4. p \in group
    BY <1>12, <2>2
  <2>5. group \subseteq DOMAIN rw[s] /\ group \subseteq Staff
    BY <1>1, <1>2 DEF group, Cohort, RankWorld, RankForm
  <2>6. \A q \in group : Totals(rw, s)[q] = of(p)[q]
    <3>1. \A q \in group : at(q) = s
      BY <1>11, <2>2, <2>3
    <3> QED BY <1>9, <2>3, <2>5, <3>1 DEF Totals
  <2>7. group \cup {p} = group
    BY <2>4
  <2>8. Rank!Standing(p, Totals(rw, s), group) = Rank!Standing(p, of(p), group)
    BY <2>6, <2>7, SameStanding
  <2>9. IsFiniteSet(group)
    BY <2>5, RankAssumption, FS_Subset
  <2>10. rw[s][p].standing.tier >= 0
    BY <1>3, <2>1, <2>4, <2>9, TierThere
  <2> QED BY <2>1, <2>3, <2>8, <2>10
<1> QED BY <1>13, <1>14

-----------------------------------------------------------------------------
(* Sums.  Of integers added up over a finite set the positive ones are the   *)
(* size of a heap with so many members for each, and the negative ones that  *)
(* of another: what is known of the sizes of finite sets is known of sums.   *)

\* Among the subsets of a finite set that have some property one is the smallest.
LEMMA Smallest ==
    ASSUME NEW S, IsFiniteSet(S), NEW B, B \subseteq SUBSET S, B # {}
    PROVE  \E s \in B : \A x \in s : s \ {x} \notin B
<1> DEFINE T == {Cardinality(s) : s \in B}
<1>1. \A s \in B : IsFiniteSet(s) /\ Cardinality(s) \in Nat
  BY FS_Subset, FS_CardinalityType
<1>2. T \subseteq Nat /\ T # {}
  BY <1>1
<1>3. PICK n \in T : \A m \in T : n <= m
  <2> HIDE DEF T
  <2> QED BY <1>2, LeastOf
<1>4. PICK s \in B : n = Cardinality(s)
  BY <1>3
<1>5. ASSUME NEW x \in s, s \ {x} \in B PROVE FALSE
  <2>1. Cardinality(s \ {x}) = Cardinality(s) - 1
    BY <1>1, <1>5, FS_RemoveElement
  <2>2. n <= Cardinality(s \ {x})
    BY <1>3, <1>5
  <2> QED BY <1>1, <1>4, <2>1, <2>2
<1> QED BY <1>4, <1>5

Pile(x, n) == {x} \X (1 .. n)
Raised(g, s) == UNION {Pile(x, g[x]) : x \in s}
Lowered(g, s) == UNION {Pile(x, -g[x]) : x \in s}
AddUp(g, s) == Cardinality(Raised(g, s)) - Cardinality(Lowered(g, s))
Integral(g, S) == \A x \in S : g[x] \in Int

LEMMA PileSize ==
    ASSUME NEW x, NEW n \in Int
    PROVE  IsFiniteSet(Pile(x, n)) /\ Cardinality(Pile(x, n)) = IF n > 0 THEN n ELSE 0
<1>1. IsFiniteSet({x}) /\ Cardinality({x}) = 1
  BY FS_Singleton
<1>2. 1 \in Int /\ n \in Int
  OBVIOUS
<1>3. IsFiniteSet(1 .. n) /\ Cardinality(1 .. n) = IF 1 > n THEN 0 ELSE n - 1 + 1
  BY <1>2, FS_Interval, Zenon
<1>4. IsFiniteSet(1 .. n) /\ Cardinality(1 .. n) = IF n > 0 THEN n ELSE 0
  BY <1>3
<1> DEFINE k == IF n > 0 THEN n ELSE 0
<1>5. IsFiniteSet(1 .. n) /\ Cardinality(1 .. n) = k /\ k \in Nat
  BY <1>4
<1> HIDE DEF k
<1>6. IsFiniteSet({x} \X (1 .. n)) /\ Cardinality({x} \X (1 .. n)) = 1 * k
  BY <1>1, <1>5, FS_Product
<1>7. Cardinality({x} \X (1 .. n)) = k
  BY <1>5, <1>6
<1> QED BY <1>6, <1>7 DEF Pile, k

\* A heap without one of its piles.
LEMMA RaisedSplits ==
    ASSUME NEW g, NEW s, NEW x \in s
    PROVE  /\ Raised(g, s) = Raised(g, s \ {x}) \cup Pile(x, g[x])
           /\ Raised(g, s \ {x}) \cap Pile(x, g[x]) = {}
  BY DEF Raised, Pile

LEMMA LoweredSplits ==
    ASSUME NEW g, NEW s, NEW x \in s
    PROVE  /\ Lowered(g, s) = Lowered(g, s \ {x}) \cup Pile(x, -g[x])
           /\ Lowered(g, s \ {x}) \cap Pile(x, -g[x]) = {}
  BY DEF Lowered, Pile

LEMMA HeapsFinite ==
    ASSUME NEW g, NEW S, IsFiniteSet(S), Integral(g, S)
    PROVE  \A s \in SUBSET S : IsFiniteSet(Raised(g, s)) /\ IsFiniteSet(Lowered(g, s))
<1> DEFINE B == {s \in SUBSET S : ~(IsFiniteSet(Raised(g, s)) /\ IsFiniteSet(Lowered(g, s)))}
<1>1. SUFFICES ASSUME B # {} PROVE FALSE
  OBVIOUS
<1>2. PICK s \in B : \A x \in s : s \ {x} \notin B
  <2>1. B \subseteq SUBSET S
    OBVIOUS
  <2> HIDE DEF B
  <2> QED BY <1>1, <2>1, Smallest
<1>3. s # {}
  <2>1. Raised(g, {}) = {} /\ Lowered(g, {}) = {}
    BY DEF Raised, Lowered
  <2> QED BY <2>1, FS_EmptySet
<1>4. PICK x \in s : TRUE
  BY <1>3
<1>5. IsFiniteSet(Raised(g, s \ {x})) /\ IsFiniteSet(Lowered(g, s \ {x}))
  BY <1>2
<1>6. g[x] \in Int /\ -g[x] \in Int
  BY DEF Integral
<1>7. IsFiniteSet(Pile(x, g[x])) /\ IsFiniteSet(Pile(x, -g[x]))
  BY <1>6, PileSize
<1>8. IsFiniteSet(Raised(g, s \ {x}) \cup Pile(x, g[x]))
  BY <1>5, <1>7, FS_Union
<1>9. IsFiniteSet(Lowered(g, s \ {x}) \cup Pile(x, -g[x]))
  BY <1>5, <1>7, FS_Union
<1>10. IsFiniteSet(Raised(g, s)) /\ IsFiniteSet(Lowered(g, s))
  BY <1>8, <1>9, RaisedSplits, LoweredSplits
<1> QED BY <1>2, <1>10

\* Two finite sets without a common member.
LEMMA Joined ==
    ASSUME NEW A, NEW B, IsFiniteSet(A), IsFiniteSet(B), A \cap B = {}
    PROVE  Cardinality(A \cup B) = Cardinality(A) + Cardinality(B)
<1>1. Cardinality(A) \in Nat /\ Cardinality(B) \in Nat
  BY FS_CardinalityType
<1>2. Cardinality(A \cup B) = Cardinality(A) + Cardinality(B) - Cardinality(A \cap B)
  BY FS_Union
<1>3. Cardinality(A \cap B) = 0
  BY FS_EmptySet
<1> DEFINE a == Cardinality(A)
           b == Cardinality(B)
           c == Cardinality(A \cap B)
<1>4. Cardinality(A \cup B) = a + b - c /\ c = 0 /\ a \in Nat /\ b \in Nat
  BY <1>1, <1>2, <1>3
<1> HIDE DEF a, b, c
<1>5. a + b - c = a + b
  BY <1>4
<1> QED BY <1>4, <1>5 DEF a, b

LEMMA AddOne ==
    ASSUME NEW g, NEW S, IsFiniteSet(S), Integral(g, S), NEW s \in SUBSET S, NEW x \in s
    PROVE  AddUp(g, s) = g[x] + AddUp(g, s \ {x}) /\ AddUp(g, s) \in Int /\ AddUp(g, s \ {x}) \in Int
<1>1. g[x] \in Int /\ -g[x] \in Int
  BY DEF Integral
<1> DEFINE up == Cardinality(Raised(g, s \ {x}))
           down == Cardinality(Lowered(g, s \ {x}))
<1>2. /\ IsFiniteSet(Raised(g, s \ {x})) /\ IsFiniteSet(Lowered(g, s \ {x}))
      /\ up \in Nat /\ down \in Nat
  BY HeapsFinite, FS_CardinalityType
<1>3. Cardinality(Raised(g, s)) = up + IF g[x] > 0 THEN g[x] ELSE 0
  <2>1. IsFiniteSet(Pile(x, g[x])) /\ Cardinality(Pile(x, g[x])) = IF g[x] > 0 THEN g[x] ELSE 0
    BY <1>1, PileSize
  <2> QED BY <1>2, <2>1, RaisedSplits, Joined
<1>4. Cardinality(Lowered(g, s)) = down + IF -g[x] > 0 THEN -g[x] ELSE 0
  <2>1. IsFiniteSet(Pile(x, -g[x])) /\ Cardinality(Pile(x, -g[x])) = IF -g[x] > 0 THEN -g[x] ELSE 0
    BY <1>1, PileSize
  <2> QED BY <1>2, <2>1, LoweredSplits, Joined
<1> HIDE DEF up, down
<1>5. AddUp(g, s) = (up + IF g[x] > 0 THEN g[x] ELSE 0) - (down + IF -g[x] > 0 THEN -g[x] ELSE 0)
  BY <1>3, <1>4 DEF AddUp
<1>6. AddUp(g, s \ {x}) = up - down
  BY DEF AddUp, up, down
<1>7. AddUp(g, s) = g[x] + (up - down)
  BY <1>1, <1>2, <1>5
<1> QED BY <1>1, <1>2, <1>6, <1>7

Splits(g, S) ==
    \A s \in SUBSET S : \A x \in s :
        AddUp(g, s) = g[x] + AddUp(g, s \ {x}) /\ AddUp(g, s \ {x}) \in Int

LEMMA AddAny ==
    ASSUME NEW g, NEW S, IsFiniteSet(S), Integral(g, S)
    PROVE  Splits(g, S)
<1>1. ASSUME NEW s \in SUBSET S, NEW x \in s
      PROVE  AddUp(g, s) = g[x] + AddUp(g, s \ {x}) /\ AddUp(g, s \ {x}) \in Int
  BY AddOne
<1> QED BY <1>1 DEF Splits

LEMMA AddNone ==
    ASSUME NEW g
    PROVE  AddUp(g, {}) = 0
<1>1. Raised(g, {}) = {} /\ Lowered(g, {}) = {}
  BY DEF Raised, Lowered
<1> QED BY <1>1, FS_EmptySet DEF AddUp

LEMMA AddsUp ==
    ASSUME NEW g, NEW S, IsFiniteSet(S), Integral(g, S), NEW s \in SUBSET S
    PROVE  AddUp(g, s) \in Int
<1>1. CASE s = {}
  BY <1>1, AddNone
<1>2. CASE s # {}
  BY <1>2, AddOne
<1> QED BY <1>1, <1>2

\* Whatever adds one number after the other adds them up.
OneByOne(h, g, S) ==
    h[{}] = 0 /\ \A s \in SUBSET S : s # {} => \E x \in s : h[s] = g[x] + h[s \ {x}]

LEMMA OnlyAddUp ==
    ASSUME NEW g, NEW S, IsFiniteSet(S), Integral(g, S), NEW h, OneByOne(h, g, S)
    PROVE  \A s \in SUBSET S : h[s] = AddUp(g, s)
<1> DEFINE B == {s \in SUBSET S : h[s] # AddUp(g, s)}
<1>1. SUFFICES ASSUME B # {} PROVE FALSE
  OBVIOUS
<1>2. PICK s \in B : \A x \in s : s \ {x} \notin B
  <2>1. B \subseteq SUBSET S
    OBVIOUS
  <2> HIDE DEF B
  <2> QED BY <1>1, <2>1, Smallest
<1>3. s # {}
  BY AddNone DEF OneByOne
<1>4. PICK x \in s : h[s] = g[x] + h[s \ {x}]
  BY <1>3 DEF OneByOne
<1>5. h[s \ {x}] = AddUp(g, s \ {x})
  BY <1>2
<1>6. AddUp(g, s) = g[x] + AddUp(g, s \ {x})
  BY AddOne
<1> QED BY <1>4, <1>5, <1>6

\* The equation of the fold, and its only solution.
Picked(s) == CHOOSE x \in s : TRUE
Adds(h, g, S) ==
    h = [s \in SUBSET S |-> IF s = {} THEN 0 ELSE g[Picked(s)] + h[s \ {Picked(s)}]]

LEMMA SomethingAdds ==
    ASSUME NEW g, NEW S, IsFiniteSet(S), Integral(g, S)
    PROVE  \E h : Adds(h, g, S)
<1> DEFINE h == [s \in SUBSET S |-> AddUp(g, s)]
<1>1. ASSUME NEW s \in SUBSET S
      PROVE  h[s] = IF s = {} THEN 0 ELSE g[Picked(s)] + h[s \ {Picked(s)}]
  <2>1. CASE s = {}
    BY <2>1, AddNone
  <2>2. CASE s # {}
    <3>1. Picked(s) \in s
      BY <2>2 DEF Picked
    <3>2. s \ {Picked(s)} \in SUBSET S
      OBVIOUS
    <3> QED BY <2>2, <3>1, <3>2, AddOne
  <2> QED BY <2>1, <2>2
<1>2. h = [s \in SUBSET S |-> h[s]]
  OBVIOUS
<1> HIDE DEF h
<1>3. h = [s \in SUBSET S |-> IF s = {} THEN 0 ELSE g[Picked(s)] + h[s \ {Picked(s)}]]
  BY <1>1, <1>2
<1> QED BY <1>3 DEF Adds

LEMMA AddsIsAddUp ==
    ASSUME NEW g, NEW S, IsFiniteSet(S), Integral(g, S), NEW h, Adds(h, g, S)
    PROVE  h[S] = AddUp(g, S)
<1>1. \A s \in SUBSET S : h[s] = IF s = {} THEN 0 ELSE g[Picked(s)] + h[s \ {Picked(s)}]
  BY DEF Adds
<1>2. h[{}] = 0
  BY <1>1
<1>3. \A s \in SUBSET S : s # {} => Picked(s) \in s
  BY DEF Picked
<1>4. \A s \in SUBSET S : s # {} => \E x \in s : h[s] = g[x] + h[s \ {x}]
  BY <1>1, <1>3
<1>5. OneByOne(h, g, S)
  BY <1>2, <1>4 DEF OneByOne
<1>6. S \in SUBSET S
  OBVIOUS
<1> QED BY <1>5, <1>6, OnlyAddUp

\* The sums of the pages.
LEMMA SumsUp ==
    ASSUME NEW g, NEW S, IsFiniteSet(S), Integral(g, S)
    PROVE  View!Sum(g, S) = AddUp(g, S)
<1> DEFINE h == CHOOSE k : Adds(k, g, S)
<1>1. View!Sum(g, S) = h[S]
  BY DEF View!Sum, View!SumFunctionOnSet, View!FoldFunctionOnSet, View!MapThenFoldSet, Picked, Adds
<1>2. Adds(h, g, S)
  BY SomethingAdds
<1> HIDE DEF h
<1> QED BY <1>1, <1>2, AddsIsAddUp

\* Numbers that agree add up the same.
LEMMA SameSum ==
    ASSUME NEW S, IsFiniteSet(S), NEW f, NEW g, Integral(f, S), \A x \in S : f[x] = g[x]
    PROVE  View!Sum(f, S) = View!Sum(g, S)
<1>1. Integral(g, S)
  BY DEF Integral
<1>2. Raised(f, S) = Raised(g, S) /\ Lowered(f, S) = Lowered(g, S)
  BY DEF Raised, Lowered
<1> QED BY <1>1, <1>2, SumsUp DEF AddUp

LEMMA SumIsInt ==
    ASSUME NEW S, IsFiniteSet(S), NEW g, Integral(g, S)
    PROVE  View!Sum(g, S) \in Int
  BY SumsUp, AddsUp

LEMMA SumOfNone ==
    ASSUME NEW g
    PROVE  View!Sum(g, {}) = 0
<1>1. IsFiniteSet({}) /\ Integral(g, {})
  BY FS_EmptySet DEF Integral
<1> QED BY <1>1, SumsUp, AddNone

\* Two sums less a third are the sum of the differences.
LEMMA SumOfBalances ==
    ASSUME NEW S, IsFiniteSet(S), NEW r, NEW a, NEW d, NEW t,
           Integral(r, S), Integral(a, S), Integral(d, S), \A x \in S : t[x] = r[x] + a[x] - d[x]
    PROVE  View!Sum(t, S) = View!Sum(r, S) + View!Sum(a, S) - View!Sum(d, S)
<1>1. Integral(t, S)
  BY DEF Integral
<1> DEFINE h == [s \in SUBSET S |-> AddUp(r, s) + AddUp(a, s) - AddUp(d, s)]
<1>8. \A s \in SUBSET S : h[s] = AddUp(r, s) + AddUp(a, s) - AddUp(d, s)
  OBVIOUS
<1> HIDE DEF h
<1>2. h[{}] = 0
  BY <1>8, AddNone
<1>9. Splits(r, S) /\ Splits(a, S) /\ Splits(d, S)
  BY AddAny
<1>3. ASSUME NEW s \in SUBSET S, s # {} PROVE \E x \in s : h[s] = t[x] + h[s \ {x}]
  <2>1. PICK x \in s : TRUE
    BY <1>3
  <2>2. AddUp(r, s) = r[x] + AddUp(r, s \ {x}) /\ AddUp(r, s \ {x}) \in Int
    BY <1>9, <2>1 DEF Splits
  <2>3. AddUp(a, s) = a[x] + AddUp(a, s \ {x}) /\ AddUp(a, s \ {x}) \in Int
    BY <1>9, <2>1 DEF Splits
  <2>4. AddUp(d, s) = d[x] + AddUp(d, s \ {x}) /\ AddUp(d, s \ {x}) \in Int
    BY <1>9, <2>1 DEF Splits
  <2>5. r[x] \in Int /\ a[x] \in Int /\ d[x] \in Int /\ t[x] = r[x] + a[x] - d[x]
    BY DEF Integral
  <2>6. AddUp(r, s) + AddUp(a, s) - AddUp(d, s)
        = t[x] + (AddUp(r, s \ {x}) + AddUp(a, s \ {x}) - AddUp(d, s \ {x}))
    BY <2>2, <2>3, <2>4, <2>5
  <2>7. s \ {x} \in SUBSET S
    OBVIOUS
  <2> QED BY <1>8, <2>6, <2>7
<1>4. h[S] = AddUp(t, S)
  <2>1. OneByOne(h, t, S)
    BY <1>2, <1>3 DEF OneByOne
  <2>2. S \in SUBSET S
    OBVIOUS
  <2> QED BY <1>1, <2>1, <2>2, OnlyAddUp
<1>5. h[S] = AddUp(r, S) + AddUp(a, S) - AddUp(d, S)
  BY <1>8
<1> QED BY <1>1, <1>4, <1>5, SumsUp

\* What is zero adds nothing.
LEMMA SumOfRest ==
    ASSUME NEW S, IsFiniteSet(S), NEW g, Integral(g, S), NEW D \in SUBSET S, \A x \in S \ D : g[x] = 0
    PROVE  View!Sum(g, S) = View!Sum(g, D)
<1>1. IsFiniteSet(D) /\ Integral(g, D)
  BY FS_Subset DEF Integral
<1> DEFINE h == [s \in SUBSET S |-> AddUp(g, s \cap D)]
<1>6. \A s \in SUBSET S : h[s] = AddUp(g, s \cap D)
  OBVIOUS
<1> HIDE DEF h
<1>2. h[{}] = 0
  BY <1>6, AddNone
<1>3. ASSUME NEW s \in SUBSET S, s # {} PROVE \E x \in s : h[s] = g[x] + h[s \ {x}]
  <2>1. PICK x \in s : TRUE
    BY <1>3
  <2>2. s \ {x} \in SUBSET S /\ s \cap D \in SUBSET S
    OBVIOUS
  <2>3. CASE x \in D
    <3>1. (s \ {x}) \cap D = (s \cap D) \ {x} /\ x \in s \cap D
      BY <2>3
    <3>2. AddUp(g, s \cap D) = g[x] + AddUp(g, (s \cap D) \ {x})
      BY <2>2, <3>1, AddOne
    <3> QED BY <1>6, <2>2, <3>1, <3>2
  <2>4. CASE x \notin D
    <3>1. (s \ {x}) \cap D = s \cap D /\ g[x] = 0
      BY <2>4
    <3>2. AddUp(g, s \cap D) \in Int
      BY <2>2, AddsUp
    <3>3. h[s] = AddUp(g, s \cap D) /\ h[s \ {x}] = AddUp(g, s \cap D)
      BY <1>6, <2>2, <3>1
    <3>4. h[s] = g[x] + h[s \ {x}]
      BY <3>1, <3>2, <3>3
    <3> QED BY <2>1, <3>4
  <2> QED BY <2>3, <2>4
<1>4. h[S] = AddUp(g, S)
  <2>1. OneByOne(h, g, S)
    BY <1>2, <1>3 DEF OneByOne
  <2>2. S \in SUBSET S
    OBVIOUS
  <2> QED BY <2>1, <2>2, OnlyAddUp
<1>5. h[S] = AddUp(g, D)
  <2>1. S \cap D = D
    OBVIOUS
  <2> QED BY <1>6, <2>1
<1> QED BY <1>1, <1>4, <1>5, SumsUp

\* The members of s that p puts in k, and the sums of what p puts in each of K.
Part(s, p, k) == {x \in s : p[x] = k}
PartSums(g, s, p, K) == [k \in K |-> AddUp(g, Part(s, p, k))]

LEMMA SumOfParts ==
    ASSUME NEW S, IsFiniteSet(S), NEW g, Integral(g, S), NEW K, IsFiniteSet(K), NEW p, \A x \in S : p[x] \in K
    PROVE  View!Sum(g, S) = View!Sum([k \in K |-> View!Sum(g, Part(S, p, k))], K)
<1>1. \A s \in SUBSET S : Integral(PartSums(g, s, p, K), K)
  <2>1. ASSUME NEW s \in SUBSET S, NEW k \in K PROVE AddUp(g, Part(s, p, k)) \in Int
    <3>1. Part(s, p, k) \in SUBSET S
      BY DEF Part
    <3> QED BY <3>1, AddsUp
  <2> QED BY <2>1 DEF Integral, PartSums
<1> DEFINE h == [s \in SUBSET S |-> AddUp(PartSums(g, s, p, K), K)]
<1>2. h[{}] = 0
  <2>1. \A k \in K : PartSums(g, {}, p, K)[k] = 0
    <3>1. \A k \in K : Part({}, p, k) = {}
      BY DEF Part
    <3> QED BY <3>1, AddNone DEF PartSums
  <2>2. {} \in SUBSET S /\ {} \in SUBSET K
    OBVIOUS
  <2>3. View!Sum(PartSums(g, {}, p, K), K) = View!Sum(PartSums(g, {}, p, K), {})
    BY <1>1, <2>1, <2>2, SumOfRest
  <2>4. View!Sum(PartSums(g, {}, p, K), K) = AddUp(PartSums(g, {}, p, K), K)
    BY <1>1, <2>2, SumsUp
  <2> QED BY <2>2, <2>3, <2>4, SumOfNone
<1>3. ASSUME NEW s \in SUBSET S, s # {} PROVE \E x \in s : h[s] = g[x] + h[s \ {x}]
  <2>1. PICK x \in s : TRUE
    BY <1>3
  <2> DEFINE t == s \ {x}
             now == PartSums(g, s, p, K)
             rest == PartSums(g, t, p, K)
  <2>2. t \in SUBSET S /\ p[x] \in K /\ K \in SUBSET K /\ Part(s, p, p[x]) \in SUBSET S
    BY DEF Part
  <2>3. now[p[x]] = g[x] + rest[p[x]]
    <3>1. Part(t, p, p[x]) = Part(s, p, p[x]) \ {x} /\ x \in Part(s, p, p[x])
      BY DEF Part
    <3>2. AddUp(g, Part(s, p, p[x])) = g[x] + AddUp(g, Part(s, p, p[x]) \ {x})
      BY <2>2, <3>1, AddOne
    <3> QED BY <2>2, <3>1, <3>2 DEF PartSums
  <2>4. \A k \in K \ {p[x]} : now[k] = rest[k]
    <3>1. \A k \in K \ {p[x]} : Part(t, p, k) = Part(s, p, k)
      BY DEF Part
    <3> QED BY <3>1 DEF PartSums
  <2>5. Integral(now, K) /\ Integral(rest, K)
    BY <1>1, <2>2
  <2> HIDE DEF now, rest
  <2>6. /\ AddUp(now, K) = now[p[x]] + AddUp(now, K \ {p[x]})
        /\ AddUp(rest, K) = rest[p[x]] + AddUp(rest, K \ {p[x]})
        /\ AddUp(rest, K \ {p[x]}) \in Int
    BY <2>2, <2>5, AddOne
  <2>7. AddUp(now, K \ {p[x]}) = AddUp(rest, K \ {p[x]})
    <3>1. Raised(now, K \ {p[x]}) = Raised(rest, K \ {p[x]})
      BY <2>4 DEF Raised
    <3>2. Lowered(now, K \ {p[x]}) = Lowered(rest, K \ {p[x]})
      BY <2>4 DEF Lowered
    <3> QED BY <3>1, <3>2 DEF AddUp
  <2>8. g[x] \in Int /\ rest[p[x]] \in Int
    BY <2>2, <2>5 DEF Integral
  <2>9. AddUp(now, K) = g[x] + AddUp(rest, K)
    BY <2>3, <2>6, <2>7, <2>8
  <2>10. h[s] = AddUp(now, K) /\ h[t] = AddUp(rest, K)
    BY <2>2 DEF now, rest
  <2> QED BY <2>9, <2>10
<1> HIDE DEF h
<1>4. h[S] = AddUp(g, S)
  <2>1. OneByOne(h, g, S)
    BY <1>2, <1>3 DEF OneByOne
  <2>2. S \in SUBSET S
    OBVIOUS
  <2> QED BY <2>1, <2>2, OnlyAddUp
<1>5. h[S] = AddUp(PartSums(g, S, p, K), K)
  BY DEF h
<1>6. \A k \in K : View!Sum(g, Part(S, p, k)) = AddUp(g, Part(S, p, k))
  <2>1. ASSUME NEW k \in K PROVE View!Sum(g, Part(S, p, k)) = AddUp(g, Part(S, p, k))
    <3>1. IsFiniteSet(Part(S, p, k)) /\ Integral(g, Part(S, p, k))
      BY FS_Subset DEF Part, Integral
    <3> QED BY <3>1, SumsUp
  <2> QED BY <2>1
<1>7. PartSums(g, S, p, K) = [k \in K |-> View!Sum(g, Part(S, p, k))]
  BY <1>6 DEF PartSums
<1>8. View!Sum(PartSums(g, S, p, K), K) = AddUp(PartSums(g, S, p, K), K)
  BY <1>1, SumsUp
<1> QED BY <1>4, <1>5, <1>7, <1>8, SumsUp

-----------------------------------------------------------------------------
(* The scores of the pages. *)

Fields == {"recognition", "attendance", "deduction", "total"}

LEMMA FieldsAre == DOMAIN View!Nought = Fields
  BY DEF View!Nought, Fields

\* What is stored of a month's attendance.
ViewTyped == viewStored \in [Ranked \X RankedMonths -> [eligible : BOOLEAN, final : Int]]

\* A column of a table of table, and its sum.
Column(table, f, S) == [k \in S |-> table[k][f]]
Numbers(table, S) == \A f \in Fields : Integral(Column(table, f, S), S)

LEMMA TotalOf ==
    ASSUME NEW S, NEW table, DOMAIN table = S
    PROVE  /\ DOMAIN View!Total(table) = Fields
           /\ \A f \in Fields : View!Total(table)[f] = View!Sum(Column(table, f, S), S)
           /\ View!Total(table) = [f \in Fields |-> View!Total(table)[f]]
  BY FieldsAre DEF View!Total, Column

\* Two totals are the same if their columns add up the same.
LEMMA SameTotal ==
    ASSUME NEW table, NEW another, \A f \in Fields : View!Total(table)[f] = View!Total(another)[f]
    PROVE  View!Total(table) = View!Total(another)
<1>1. View!Total(table) = [f \in Fields |-> View!Total(table)[f]]
  BY TotalOf
<1>2. View!Total(another) = [f \in Fields |-> View!Total(another)[f]]
  BY TotalOf
<1>3. [f \in Fields |-> View!Total(table)[f]] = [f \in Fields |-> View!Total(another)[f]]
  OBVIOUS
<1> QED BY <1>1, <1>2, <1>3

\* The table of some members of S.
RowsOf(score, S) == [e \in S |-> score[e]]

\* The total of a table is the total of the totals of its parts.
LEMMA TotalOfParts ==
    ASSUME NEW S, IsFiniteSet(S), NEW score, Numbers(score, S),
           NEW K, IsFiniteSet(K), NEW p, \A x \in S : p[x] \in K
    PROVE  View!Total(RowsOf(score, S)) = View!Total([k \in K |-> View!Total(RowsOf(score, Part(S, p, k)))])
<1> DEFINE parts == [k \in K |-> View!Total(RowsOf(score, Part(S, p, k)))]
<1>1. ASSUME NEW f \in Fields
      PROVE  View!Total(RowsOf(score, S))[f] = View!Total(parts)[f]
  <2> DEFINE g == Column(score, f, S)
             sums == [k \in K |-> View!Sum(g, Part(S, p, k))]
  <2>1. Integral(g, S)
    BY DEF Numbers
  <2>2. View!Total(RowsOf(score, S))[f] = View!Sum(g, S)
    <3>1. DOMAIN RowsOf(score, S) = S /\ Column(RowsOf(score, S), f, S) = g
      BY DEF RowsOf, Column
    <3> QED BY <3>1, TotalOf
  <2>3. ASSUME NEW k \in K
        PROVE  View!Total(RowsOf(score, Part(S, p, k)))[f] = View!Sum(g, Part(S, p, k))
    <3> DEFINE P == Part(S, p, k)
    <3>1. P \subseteq S /\ IsFiniteSet(P)
      BY FS_Subset DEF Part
    <3> HIDE DEF P
    <3>2. DOMAIN RowsOf(score, P) = P /\ \A x \in P : Column(RowsOf(score, P), f, P)[x] = g[x]
      BY <3>1 DEF RowsOf, Column
    <3>3. Integral(Column(RowsOf(score, P), f, P), P)
      BY <2>1, <3>1, <3>2 DEF Integral
    <3>4. View!Sum(Column(RowsOf(score, P), f, P), P) = View!Sum(g, P)
      BY <3>1, <3>2, <3>3, SameSum
    <3>5. View!Total(RowsOf(score, P))[f] = View!Sum(g, P)
      BY <3>2, <3>4, TotalOf
    <3> QED BY <3>5 DEF P
  <2>4. Column(parts, f, K) = sums
    BY <2>3 DEF Column
  <2>5. View!Total(parts)[f] = View!Sum(sums, K)
    BY <2>4, TotalOf
  <2>6. View!Sum(g, S) = View!Sum(sums, K)
    <3> HIDE DEF g
    <3> QED BY <2>1, SumOfParts
  <2> QED BY <2>2, <2>5, <2>6
<1> HIDE DEF parts
<1>2. View!Total(RowsOf(score, S)) = View!Total(parts)
  BY <1>1, SameTotal
<1> QED BY <1>2 DEF parts

\* The total of a table whose other table are zero.
LEMMA TotalOfRest ==
    ASSUME NEW S, IsFiniteSet(S), NEW score, DOMAIN score = S, Numbers(score, S),
           NEW D \in SUBSET S, \A x \in S \ D : \A f \in Fields : score[x][f] = 0
    PROVE  View!Total(score) = View!Total(RowsOf(score, D))
<1>1. ASSUME NEW f \in Fields PROVE View!Total(score)[f] = View!Total(RowsOf(score, D))[f]
  <2> DEFINE g == Column(score, f, S)
  <2>1. Integral(g, S) /\ \A x \in S \ D : g[x] = 0
    BY DEF Numbers, Column
  <2>2. IsFiniteSet(D)
    BY FS_Subset
  <2>3. View!Total(score)[f] = View!Sum(g, S)
    BY TotalOf
  <2>4. DOMAIN RowsOf(score, D) = D /\ \A x \in D : Column(RowsOf(score, D), f, D)[x] = g[x]
    BY DEF RowsOf, Column
  <2> HIDE DEF g
  <2>5. View!Sum(g, S) = View!Sum(g, D)
    BY <2>1, SumOfRest
  <2>6. Integral(Column(RowsOf(score, D), f, D), D)
    BY <2>1, <2>4 DEF Integral
  <2>7. View!Sum(Column(RowsOf(score, D), f, D), D) = View!Sum(g, D)
    BY <2>2, <2>4, <2>6, SameSum
  <2>8. View!Total(RowsOf(score, D))[f] = View!Sum(g, D)
    BY <2>4, <2>7, TotalOf
  <2> QED BY <2>3, <2>5, <2>8
<1> QED BY <1>1, SameTotal

\* What the table of employee_month_scores are made of.
Taking(e, m) == IF View!Excluded(e, m) THEN 0 ELSE View!Sum(View!SqlCredit, View!Confirmed(e, m))
Coming(e, m) == IF ~View!Excluded(e, m) /\ View!Ensured(e, m).eligible THEN View!Ensured(e, m).final ELSE 0
Losing(e, m) == IF View!Excluded(e, m) THEN 0 ELSE View!Sum(View!Points, View!Counted(e, m))

LEMMA CreditsAndPoints ==
    /\ Integral(View!SqlCredit, Recs) /\ Integral(View!Points, Deds)
    /\ IsFiniteSet(Recs) /\ IsFiniteSet(Deds) /\ IsFiniteSet(Ranked) /\ IsFiniteSet(RankedMonths)
  BY ViewAssumption DEF Integral, View!SqlCredit, View!Points

LEMMA RowsFinite ==
    ASSUME NEW R \in SUBSET Recs, NEW D \in SUBSET Deds
    PROVE  /\ IsFiniteSet(R) /\ IsFiniteSet(D)
           /\ Integral(View!SqlCredit, R) /\ Integral(View!Points, D)
           /\ View!Sum(View!SqlCredit, R) \in Int /\ View!Sum(View!Points, D) \in Int
<1>1. IsFiniteSet(R) /\ IsFiniteSet(D)
  BY CreditsAndPoints, FS_Subset
<1>2. Integral(View!SqlCredit, R) /\ Integral(View!Points, D)
  BY CreditsAndPoints DEF Integral
<1>3. View!Sum(View!SqlCredit, R) \in Int
  BY <1>1, <1>2, SumIsInt
<1>4. View!Sum(View!Points, D) \in Int
  BY <1>1, <1>2, SumIsInt
<1> QED BY <1>1, <1>2, <1>3, <1>4

LEMMA EnsuredTyped ==
    ASSUME ViewTyped, NEW e \in Ranked, NEW m \in RankedMonths
    PROVE  View!Ensured(e, m) \in [eligible : BOOLEAN, final : Int]
<1>1. viewStored[<<e, m>>] \in [eligible : BOOLEAN, final : Int]
  BY DEF ViewTyped
<1>2. View!Computed(e, m, viewLoa) \in [eligible : BOOLEAN, final : Int]
  BY ViewAssumption DEF View!Computed
<1> QED BY <1>1, <1>2 DEF View!Ensured

LEMMA ScoreIs ==
    ASSUME ViewTyped, NEW e \in Ranked, NEW m \in RankedMonths
    PROVE  /\ Taking(e, m) \in Int /\ Coming(e, m) \in Int /\ Losing(e, m) \in Int
           /\ View!MonthScore(e, m) = View!Row(Taking(e, m), Coming(e, m), Losing(e, m))
           /\ View!Excluded(e, m) => View!MonthScore(e, m) = View!Nought
<1>1. View!Confirmed(e, m) \in SUBSET Recs /\ View!Counted(e, m) \in SUBSET Deds
  BY DEF View!Confirmed, View!Counted
<1>2. Taking(e, m) \in Int /\ Losing(e, m) \in Int
  BY <1>1, RowsFinite DEF Taking, Losing
<1>3. Coming(e, m) \in Int
  BY EnsuredTyped DEF Coming
<1>4. CASE View!Excluded(e, m)
  <2>1. Taking(e, m) = 0 /\ Coming(e, m) = 0 /\ Losing(e, m) = 0
    BY <1>4 DEF Taking, Coming, Losing
  <2>2. View!MonthScore(e, m) = View!Nought
    BY <1>4 DEF View!MonthScore
  <2>3. View!Row(0, 0, 0) = View!Nought
    BY DEF View!Row, View!Nought
  <2> QED BY <1>2, <1>3, <2>1, <2>2, <2>3
<1>5. CASE ~View!Excluded(e, m)
  <2>1. /\ Taking(e, m) = View!Sum(View!SqlCredit, View!Confirmed(e, m))
        /\ Losing(e, m) = View!Sum(View!Points, View!Counted(e, m))
        /\ Coming(e, m) = IF View!Ensured(e, m).eligible THEN View!Ensured(e, m).final ELSE 0
    BY <1>5 DEF Taking, Coming, Losing
  <2>2. View!MonthScore(e, m) =
        View!Row(View!Sum(View!SqlCredit, View!Confirmed(e, m)),
                 IF View!Ensured(e, m).eligible THEN View!Ensured(e, m).final ELSE 0,
                 View!Sum(View!Points, View!Counted(e, m)))
    BY <1>5 DEF View!MonthScore
  <2> QED BY <1>2, <1>3, <1>5, <2>1, <2>2
<1> QED BY <1>4, <1>5

\* The fields of a row.
LEMMA RowHas ==
    ASSUME NEW r, NEW a, NEW d
    PROVE  /\ View!Row(r, a, d).recognition = r /\ View!Row(r, a, d).attendance = a
           /\ View!Row(r, a, d).deduction = d /\ View!Row(r, a, d).total = r + a - d
           /\ DOMAIN View!Row(r, a, d) = Fields
  BY DEF View!Row, Fields

LEMMA NoughtIs == \A f \in Fields : View!Nought[f] = 0
  BY DEF View!Nought, Fields

\* The details of a member are the month's score.
LEMMA DetailsAgree ==
    ASSUME ViewTyped, NEW e \in Ranked, NEW m \in RankedMonths
    PROVE  View!Details(e, m) = View!MonthScore(e, m)
<1> DEFINE R == {r \in Recs : Rec[r].of = e /\ Rec[r].month = m
                              /\ View!Included(e, m, viewRecs[r] = "confirmed")}
           D == {d \in Deds : Ded[d].of = e /\ Ded[d].month = m
                              /\ View!Included(e, m, viewDeds[d] \in {"active", "first"})}
           a == IF View!Included(e, m, View!Ensured(e, m).eligible) THEN View!Ensured(e, m).final ELSE 0
<1>1. View!Details(e, m) = View!Row(View!Sum(View!EffectiveCredit, R), a, View!Sum(View!Points, D))
  BY DEF View!Details
<1>2. a = Coming(e, m)
  BY DEF View!Included, Coming
<1>3. View!Sum(View!EffectiveCredit, R) = Taking(e, m)
  <2>1. CASE View!Excluded(e, m)
    <3>1. R = {}
      BY <2>1 DEF View!Included
    <3> HIDE DEF R
    <3> QED BY <2>1, <3>1, SumOfNone DEF Taking
  <2>2. CASE ~View!Excluded(e, m)
    <3>1. R = View!Confirmed(e, m) /\ R \in SUBSET Recs
      BY <2>2 DEF View!Included, View!Confirmed
    <3> HIDE DEF R
    <3>2. IsFiniteSet(R) /\ Integral(View!SqlCredit, R)
      BY <3>1, RowsFinite
    <3>3. \A r \in R : View!SqlCredit[r] = View!EffectiveCredit[r]
      BY <3>1, ViewAssumption DEF View!SqlCredit, View!EffectiveCredit
    <3>4. View!Sum(View!SqlCredit, R) = View!Sum(View!EffectiveCredit, R)
      BY <3>2, <3>3, SameSum
    <3> QED BY <2>2, <3>1, <3>4 DEF Taking
  <2> QED BY <2>1, <2>2
<1>4. View!Sum(View!Points, D) = Losing(e, m)
  <2>1. CASE View!Excluded(e, m)
    <3>1. D = {}
      BY <2>1 DEF View!Included
    <3> HIDE DEF D
    <3> QED BY <2>1, <3>1, SumOfNone DEF Losing
  <2>2. CASE ~View!Excluded(e, m)
    <3>1. D = View!Counted(e, m)
      BY <2>2 DEF View!Included, View!Counted, View!Counts
    <3> HIDE DEF D
    <3> QED BY <2>2, <3>1 DEF Losing
  <2> QED BY <2>1, <2>2
<1> HIDE DEF R, D, a
<1> QED BY <1>1, <1>2, <1>3, <1>4, ScoreIs

\* The categories of the dashboard are the recognition score.
LEMMA CategoriesAgree ==
    ASSUME ViewTyped, NEW e \in Ranked, NEW m \in RankedMonths
    PROVE  View!Category(e, m) = View!MonthScore(e, m).recognition
<1>1. View!Category(e, m) = Taking(e, m)
  BY DEF View!Category, Taking
<1>2. View!MonthScore(e, m) = View!Row(Taking(e, m), Coming(e, m), Losing(e, m))
  BY ScoreIs
<1> QED BY <1>1, <1>2, RowHas

\* What is summed over the months of a range is summed month by month: of rows that
\* belong to a month each, those of the months that count.
Monthly(part, at, p, S) == \A m \in at : part[m] \in SUBSET S /\ \A x \in part[m] : p[x] = m
AllRows(part, at) == UNION {part[m] : m \in at}
MonthSums(g, part, at, range) == [m \in range |-> IF m \in at THEN View!Sum(g, part[m]) ELSE 0]

LEMMA MonthByMonth ==
    ASSUME NEW S, IsFiniteSet(S), NEW g, Integral(g, S), NEW range, IsFiniteSet(range),
           NEW at \in SUBSET range, NEW p, NEW part, Monthly(part, at, p, S)
    PROVE  View!Sum(g, AllRows(part, at)) = View!Sum(MonthSums(g, part, at, range), range)
<1> DEFINE U == UNION {part[m] : m \in at}
<1>1. U \in SUBSET S
  BY DEF Monthly
<1>2. \A x \in U : p[x] \in range
  BY DEF Monthly
<1>3. \A m \in range : Part(U, p, m) = IF m \in at THEN part[m] ELSE {}
  BY DEF Part, Monthly
<1> HIDE DEF U
<1>4. IsFiniteSet(U) /\ Integral(g, U)
  BY <1>1, FS_Subset DEF Integral
<1>5. View!Sum(g, U) = View!Sum([m \in range |-> View!Sum(g, Part(U, p, m))], range)
  BY <1>2, <1>4, SumOfParts
<1>6. \A m \in range : View!Sum(g, Part(U, p, m)) = IF m \in at THEN View!Sum(g, part[m]) ELSE 0
  BY <1>3, SumOfNone
<1>7. [m \in range |-> View!Sum(g, Part(U, p, m))] = MonthSums(g, part, at, range)
  BY <1>6 DEF MonthSums
<1> QED BY <1>5, <1>7 DEF U, AllRows

\* A ranking is the total of the months of its range.
ScoresOf(e, range) == [m \in range |-> View!MonthScore(e, m)]
At(e, range) == {m \in range : ~View!Excluded(e, m)}

LEMMA RankingAgrees ==
    ASSUME ViewTyped, NEW e \in Ranked, NEW range \in SUBSET RankedMonths
    PROVE  View!Ranking(e, range) = View!Total(ScoresOf(e, range))
<1> DEFINE r == [m \in range |-> Taking(e, m)]
           a == [m \in range |-> Coming(e, m)]
           d == [m \in range |-> Losing(e, m)]
           t == [m \in range |-> Taking(e, m) + Coming(e, m) - Losing(e, m)]
           at == At(e, range)
<1>1. IsFiniteSet(range) /\ Integral(r, range) /\ Integral(a, range) /\ Integral(d, range)
      /\ at \in SUBSET range
  <2>1. IsFiniteSet(range)
    BY CreditsAndPoints, FS_Subset
  <2>2. \A m \in range : Taking(e, m) \in Int /\ Coming(e, m) \in Int /\ Losing(e, m) \in Int
    BY ScoreIs
  <2> QED BY <2>1, <2>2 DEF Integral, At
<1>2. /\ Column(ScoresOf(e, range), "recognition", range) = r
      /\ Column(ScoresOf(e, range), "attendance", range) = a
      /\ Column(ScoresOf(e, range), "deduction", range) = d
      /\ Column(ScoresOf(e, range), "total", range) = t
  <2>1. \A m \in range : View!MonthScore(e, m) = View!Row(Taking(e, m), Coming(e, m), Losing(e, m))
    BY ScoreIs
  <2> QED BY <2>1, RowHas DEF Column, ScoresOf
<1>3. View!Sum(View!SqlCredit, UNION {View!Confirmed(e, m) : m \in at}) = View!Sum(r, range)
  <2> DEFINE part == [m \in at |-> View!Confirmed(e, m)]
             p == [x \in Recs |-> Rec[x].month]
  <2>1. \A m \in at : part[m] \in SUBSET Recs
    BY DEF View!Confirmed
  <2>2. Monthly(part, at, p, Recs)
    BY <2>1 DEF View!Confirmed, Monthly
  <2>3. UNION {View!Confirmed(e, m) : m \in at} = UNION {part[m] : m \in at}
    OBVIOUS
  <2>4. \A m \in range : Taking(e, m) = IF m \in at THEN View!Sum(View!SqlCredit, part[m]) ELSE 0
    BY DEF Taking, At
  <2>7. at \in SUBSET range /\ IsFiniteSet(range)
    BY <1>1
  <2> HIDE DEF part, p, at
  <2>8. IsFiniteSet(Recs) /\ Integral(View!SqlCredit, Recs)
    BY CreditsAndPoints
  <2>5. View!Sum(View!SqlCredit, AllRows(part, at)) = View!Sum(MonthSums(View!SqlCredit, part, at, range), range)
    BY <2>2, <2>7, <2>8, MonthByMonth
  <2>6. MonthSums(View!SqlCredit, part, at, range) = r
    BY <2>4 DEF MonthSums
  <2> QED BY <2>3, <2>5, <2>6 DEF AllRows
<1>4. View!Sum(View!Points, UNION {View!Counted(e, m) : m \in at}) = View!Sum(d, range)
  <2> DEFINE part == [m \in at |-> View!Counted(e, m)]
             p == [x \in Deds |-> Ded[x].month]
  <2>1. \A m \in at : part[m] \in SUBSET Deds
    BY DEF View!Counted
  <2>2. Monthly(part, at, p, Deds)
    BY <2>1 DEF View!Counted, Monthly
  <2>3. UNION {View!Counted(e, m) : m \in at} = UNION {part[m] : m \in at}
    OBVIOUS
  <2>4. \A m \in range : Losing(e, m) = IF m \in at THEN View!Sum(View!Points, part[m]) ELSE 0
    BY DEF Losing, At
  <2>7. at \in SUBSET range /\ IsFiniteSet(range)
    BY <1>1
  <2> HIDE DEF part, p, at
  <2>8. IsFiniteSet(Deds) /\ Integral(View!Points, Deds)
    BY CreditsAndPoints
  <2>5. View!Sum(View!Points, AllRows(part, at)) = View!Sum(MonthSums(View!Points, part, at, range), range)
    BY <2>2, <2>7, <2>8, MonthByMonth
  <2>6. MonthSums(View!Points, part, at, range) = d
    BY <2>4 DEF MonthSums
  <2> QED BY <2>3, <2>5, <2>6 DEF AllRows
<1>5. View!Sum([m \in at |-> View!Ensured(e, m).final], {m \in at : View!Ensured(e, m).eligible})
      = View!Sum(a, range)
  <2> DEFINE D == {m \in at : View!Ensured(e, m).eligible}
             g == [m \in at |-> View!Ensured(e, m).final]
  <2>1. D \in SUBSET range /\ (\A m \in range \ D : a[m] = 0) /\ (\A m \in D : g[m] = a[m])
    BY DEF At, Coming
  <2>2. IsFiniteSet(D)
    BY <1>1, <2>1, FS_Subset
  <2>3. \A m \in D : g[m] \in Int
    BY <1>1, <2>1 DEF Integral
  <2> HIDE DEF D, g, a
  <2>4. View!Sum(a, range) = View!Sum(a, D)
    BY <1>1, <2>1, SumOfRest
  <2>5. View!Sum(g, D) = View!Sum(a, D)
    BY <2>1, <2>2, <2>3, SameSum DEF Integral
  <2> QED BY <2>4, <2>5 DEF D, g
<1>6. View!Ranking(e, range)
      = View!Row(View!Sum(View!SqlCredit, UNION {View!Confirmed(e, m) : m \in at}),
                 View!Sum([m \in at |-> View!Ensured(e, m).final], {m \in at : View!Ensured(e, m).eligible}),
                 View!Sum(View!Points, UNION {View!Counted(e, m) : m \in at}))
  BY DEF View!Ranking, At
<1>7. \A m \in range : t[m] = r[m] + a[m] - d[m]
  OBVIOUS
<1> HIDE DEF r, a, d, t, at
<1>8. View!Ranking(e, range) = View!Row(View!Sum(r, range), View!Sum(a, range), View!Sum(d, range))
  BY <1>3, <1>4, <1>5, <1>6
<1>9. View!Sum(t, range) = View!Sum(r, range) + View!Sum(a, range) - View!Sum(d, range)
  BY <1>1, <1>7, SumOfBalances
<1>10. \A f \in Fields : View!Total(ScoresOf(e, range))[f] = View!Sum(Column(ScoresOf(e, range), f, range), range)
  BY TotalOf DEF ScoresOf
<1>11. /\ View!Total(ScoresOf(e, range)).recognition = View!Sum(r, range)
       /\ View!Total(ScoresOf(e, range)).attendance = View!Sum(a, range)
       /\ View!Total(ScoresOf(e, range)).deduction = View!Sum(d, range)
       /\ View!Total(ScoresOf(e, range)).total = View!Sum(t, range)
  BY <1>2, <1>10 DEF Fields
<1>12. View!Total(ScoresOf(e, range)) = [f \in Fields |-> View!Total(ScoresOf(e, range))[f]]
  BY TotalOf DEF ScoresOf
<1>13. View!Row(View!Sum(r, range), View!Sum(a, range), View!Sum(d, range))
       = [f \in Fields |-> View!Row(View!Sum(r, range), View!Sum(a, range), View!Sum(d, range))[f]]
  BY DEF View!Row, Fields
<1>14. \A f \in Fields : View!Row(View!Sum(r, range), View!Sum(a, range), View!Sum(d, range))[f]
                         = View!Total(ScoresOf(e, range))[f]
  BY <1>9, <1>11, RowHas DEF Fields
<1> QED BY <1>8, <1>12, <1>13, <1>14

\* Groups, circles, the summary and the trend are the totals of their members.
ScoreTable == [m \in RankedMonths |-> [e \in Ranked |-> View!MonthScore(e, m)]]

LEMMA TablesAgree ==
    ASSUME ViewTyped, NEW m \in RankedMonths
    PROVE  /\ View!Trend(ScoreTable[m], m) = View!Summary(ScoreTable[m], m)
           /\ View!Summary(ScoreTable[m], m)
              = View!Total([g \in View!Groups |-> View!Leader(ScoreTable[m], m, g)])
           /\ View!Summary(ScoreTable[m], m) = View!Total(ScoreTable[m])
<1> DEFINE score == ScoreTable[m]
           S == View!Scored(m)
           c == [e \in Ranked |-> Circle[Group[e]]]
           w == [e \in Ranked |-> Group[e]]
<1>1. S \in SUBSET Ranked /\ IsFiniteSet(S) /\ IsFiniteSet(Ranked)
  BY CreditsAndPoints, FS_Subset DEF View!Scored
<1>2. DOMAIN score = Ranked /\ \A e \in Ranked : score[e] = View!MonthScore(e, m)
  BY DEF ScoreTable
<1>3. ASSUME NEW e \in Ranked, NEW f \in Fields
      PROVE  score[e][f] \in Int
  <2>1. score[e] = View!Row(Taking(e, m), Coming(e, m), Losing(e, m))
    BY <1>2, ScoreIs
  <2>2. Taking(e, m) \in Int /\ Coming(e, m) \in Int /\ Losing(e, m) \in Int
    BY ScoreIs
  <2> HIDE DEF score
  <2> QED BY <2>1, <2>2, RowHas DEF Fields
<1>4. \A e \in Ranked \ S : \A f \in Fields : score[e][f] = 0
  <2>1. \A e \in Ranked \ S : score[e] = View!Nought
    BY <1>2, ScoreIs DEF View!Scored
  <2> HIDE DEF score
  <2> QED BY <2>1, NoughtIs
<1>5. IsFiniteSet(View!Groups) /\ IsFiniteSet(View!Circles)
  <2>1. IsFiniteSet(View!Groups)
    BY <1>1, ImageFinite DEF View!Groups
  <2>2. IsFiniteSet(View!Circles)
    BY <2>1, ImageFinite DEF View!Circles
  <2> QED BY <2>1, <2>2
<1>6. (\A e \in S : w[e] \in View!Groups) /\ (\A e \in S : c[e] \in View!Circles)
  BY <1>1 DEF View!Groups, View!Circles
<1>7. View!Summary(score, m) = View!Total(RowsOf(score, S))
  BY DEF View!Summary, RowsOf
<1>8. \A g : View!Leader(score, m, g) = View!Total(RowsOf(score, Part(S, w, g)))
  <2>1. \A g : {x \in View!Scored(m) : Group[x] = g} = Part(S, w, g)
    BY <1>1 DEF Part
  <2> HIDE DEF S, w, score
  <2> QED BY <2>1 DEF View!Leader, RowsOf
<1>9. \A g : View!ByCircle(score, m, g) = View!Total(RowsOf(score, Part(S, c, g)))
  <2>1. \A g : {x \in View!Scored(m) : Circle[Group[x]] = g} = Part(S, c, g)
    BY <1>1 DEF Part
  <2> HIDE DEF S, c, score
  <2> QED BY <2>1 DEF View!ByCircle, RowsOf
<1> HIDE DEF score, S, c, w
<1>10. Numbers(score, S) /\ Numbers(score, Ranked)
  BY <1>1, <1>3 DEF Numbers, Integral, Column
<1>11. View!Trend(score, m) = View!Total([g \in View!Circles |-> View!Total(RowsOf(score, Part(S, c, g)))])
  BY <1>9 DEF View!Trend
<1>12. View!Total(RowsOf(score, S)) = View!Total([g \in View!Circles |-> View!Total(RowsOf(score, Part(S, c, g)))])
  BY <1>1, <1>5, <1>6, <1>10, TotalOfParts
<1>13. View!Total(RowsOf(score, S)) = View!Total([g \in View!Groups |-> View!Total(RowsOf(score, Part(S, w, g)))])
  BY <1>1, <1>5, <1>6, <1>10, TotalOfParts
<1>14. View!Total([g \in View!Groups |-> View!Leader(score, m, g)])
       = View!Total([g \in View!Groups |-> View!Total(RowsOf(score, Part(S, w, g)))])
  BY <1>8
<1>15. View!Total(score) = View!Total(RowsOf(score, S))
  BY <1>1, <1>2, <1>4, <1>10, TotalOfRest
<1>16. /\ View!Trend(score, m) = View!Summary(score, m)
       /\ View!Summary(score, m) = View!Total([g \in View!Groups |-> View!Leader(score, m, g)])
       /\ View!Summary(score, m) = View!Total(score)
  BY <1>7, <1>11, <1>12, <1>13, <1>14, <1>15
<1> QED BY <1>16 DEF score

LEMMA PagesAgree ==
    ASSUME ViewTyped
    PROVE  View!ViewsAgree
<1>1. \A m \in RankedMonths : \A e \in Ranked : ScoreTable[m][e] = View!MonthScore(e, m)
  BY DEF ScoreTable
<1>2. \A e \in Ranked, m \in RankedMonths :
          /\ View!Details(e, m) = ScoreTable[m][e]
          /\ View!Category(e, m) = ScoreTable[m][e].recognition
  BY <1>1, DetailsAgree, CategoriesAgree
<1>3. \A e \in Ranked, range \in SUBSET RankedMonths :
          View!Ranking(e, range) = View!Total([m \in range |-> ScoreTable[m][e]])
  <2>1. ASSUME NEW e \in Ranked, NEW range \in SUBSET RankedMonths
        PROVE  View!Ranking(e, range) = View!Total([m \in range |-> ScoreTable[m][e]])
    <3>1. ScoresOf(e, range) = [m \in range |-> ScoreTable[m][e]]
      BY <1>1 DEF ScoresOf
    <3> QED BY <3>1, RankingAgrees
  <2> QED BY <2>1
<1>4. \A m \in RankedMonths :
          /\ View!Trend(ScoreTable[m], m) = View!Summary(ScoreTable[m], m)
          /\ View!Summary(ScoreTable[m], m)
             = View!Total([g \in View!Groups |-> View!Leader(ScoreTable[m], m, g)])
          /\ View!Summary(ScoreTable[m], m) = View!Total(ScoreTable[m])
  BY TablesAgree
<1> QED BY <1>2, <1>3, <1>4 DEF View!ViewsAgree, ScoreTable

-----------------------------------------------------------------------------
(* Stored attendance. *)

ViewInv == ViewTyped /\ View!LeaveFollowed

\* Finitely many months have a last one.
Ends(s) == \E x \in s : \A y \in s : x >= y

LEMMA GreatestOf ==
    ASSUME NEW T, T \subseteq Nat, IsFiniteSet(T), T # {}
    PROVE  Ends(T)
<1> DEFINE B == {s \in SUBSET T : s # {} /\ ~Ends(s)}
<1>1. SUFFICES ASSUME B # {} PROVE FALSE
  OBVIOUS
<1>2. PICK s \in B : \A x \in s : s \ {x} \notin B
  <2>1. B \subseteq SUBSET T
    OBVIOUS
  <2> HIDE DEF B
  <2> QED BY <1>1, <2>1, Smallest
<1>3. PICK x \in s : TRUE
  OBVIOUS
<1>4. ~Ends(s) /\ s \subseteq Nat
  OBVIOUS
<1>5. CASE s \ {x} = {}
  BY <1>3, <1>4, <1>5 DEF Ends
<1>6. CASE s \ {x} # {}
  <2>1. PICK y \in s \ {x} : \A z \in s \ {x} : y >= z
    BY <1>2, <1>6 DEF Ends
  <2>2. CASE x >= y
    BY <1>3, <1>4, <2>1, <2>2 DEF Ends
  <2>3. CASE ~(x >= y)
    BY <1>3, <1>4, <2>1, <2>3 DEF Ends
  <2> QED BY <2>2, <2>3
<1> QED BY <1>5, <1>6

LEMMA PresentIs == View!Present \in RankedMonths /\ \A m \in RankedMonths : m # View!Present => m < View!Present
<1>1. \E x \in RankedMonths : \A y \in RankedMonths : x >= y
  BY ViewAssumption, GreatestOf DEF Ends
<1>2. View!Present \in RankedMonths /\ \A y \in RankedMonths : View!Present >= y
  BY <1>1 DEF View!Present, View!Max
<1> QED BY <1>2, ViewAssumption

LEMMA ViewsBegin == View!Init => ViewInv
<1> SUFFICES ASSUME View!Init PROVE ViewInv
  OBVIOUS
<1>1. View!Missing \in [eligible : BOOLEAN, final : Int]
  BY DEF View!Missing
<1>2. viewStored = [p \in Ranked \X RankedMonths |-> View!Missing]
  BY DEF View!Init
<1>3. ViewTyped
  BY <1>1, <1>2 DEF ViewTyped
<1>4. View!LeaveFollowed
  BY <1>2 DEF View!LeaveFollowed
<1> QED BY <1>3, <1>4 DEF ViewInv

LEMMA ComputedTyped ==
    ASSUME NEW e, NEW m, NEW leave
    PROVE  View!Computed(e, m, leave) \in [eligible : BOOLEAN, final : Int]
  BY ViewAssumption DEF View!Computed

\* What a page stores is what is computed now.
LEMMA ReadKeepsRows ==
    ASSUME ViewInv, NEW m \in RankedMonths, View!Read(m)
    PROVE  ViewInv'
<1>1. /\ viewStored' = [p \in DOMAIN viewStored |->
                          IF p[2] = m THEN View!Ensured(p[1], m) ELSE viewStored[p]]
      /\ viewLoa' = viewLoa /\ viewGone' = viewGone
  BY DEF View!Read
<1>2. DOMAIN viewStored = Ranked \X RankedMonths
  BY DEF ViewInv, ViewTyped
<1>3. \A e \in Ranked, n \in RankedMonths :
          viewStored'[<<e, n>>] = IF n = m THEN View!Ensured(e, m) ELSE viewStored[<<e, n>>]
  BY <1>1, <1>2
<1>4. ViewTyped'
  <2>1. \A p \in Ranked \X RankedMonths :
            (IF p[2] = m THEN View!Ensured(p[1], m) ELSE viewStored[p]) \in [eligible : BOOLEAN, final : Int]
    BY EnsuredTyped DEF ViewInv, ViewTyped
  <2> QED BY <1>1, <1>2, <2>1 DEF ViewTyped
<1>5. View!LeaveFollowed'
  <2> SUFFICES ASSUME NEW e \in Ranked, NEW n \in RankedMonths,
                      viewStored'[<<e, n>>] # View!Missing, n # View!Present
               PROVE  viewStored'[<<e, n>>] = View!Computed(e, n, viewLoa)'
    BY DEF View!LeaveFollowed, View!Missing, View!Present
  <2>1. View!Computed(e, n, viewLoa)' = View!Computed(e, n, viewLoa)
    BY <1>1 DEF View!Computed, View!ActiveOn
  <2>2. viewStored[<<e, n>>] # View!Missing => viewStored[<<e, n>>] = View!Computed(e, n, viewLoa)
    BY DEF ViewInv, View!LeaveFollowed
  <2> QED BY <1>3, <2>1, <2>2 DEF View!Ensured
<1> QED BY <1>4, <1>5 DEF ViewInv

\* The one row a leave or a dashboard computes, and the rows of the others.
LEMMA RecalculatedKeeps ==
    ASSUME ViewInv, NEW e \in Ranked, NEW m \in RankedMonths,
           viewLoa' \in {viewLoa, viewLoa \cup {<<e, m>>}, viewLoa \ {<<e, m>>}},
           viewGone' = viewGone, viewStored' = View!Recalculated(e, m, viewLoa')
    PROVE  ViewInv'
<1>1. viewStored' = [viewStored EXCEPT ![<<e, m>>] = View!Computed(e, m, viewLoa')]
  BY DEF View!Recalculated
<1>2. viewStored \in [Ranked \X RankedMonths -> [eligible : BOOLEAN, final : Int]] /\ <<e, m>> \in Ranked \X RankedMonths
  BY DEF ViewInv, ViewTyped
<1>3. ViewTyped'
  BY <1>1, <1>2, ComputedTyped DEF ViewTyped
<1>4. View!LeaveFollowed'
  <2> SUFFICES ASSUME NEW d \in Ranked, NEW n \in RankedMonths,
                      viewStored'[<<d, n>>] # View!Missing, n # View!Present
               PROVE  viewStored'[<<d, n>>] = View!Computed(d, n, viewLoa)'
    BY DEF View!LeaveFollowed, View!Missing, View!Present
  <2>1. View!Computed(d, n, viewLoa)' = View!Computed(d, n, viewLoa')
    BY DEF View!Computed, View!ActiveOn
  <2>2. CASE <<d, n>> = <<e, m>>
    <3>1. viewStored'[<<d, n>>] = View!Computed(e, m, viewLoa')
      BY <1>1, <1>2, <2>2
    <3> QED BY <2>1, <2>2, <3>1
  <2>3. CASE <<d, n>> # <<e, m>>
    <3>1. viewStored'[<<d, n>>] = viewStored[<<d, n>>]
      BY <1>1, <1>2, <2>3
    <3>2. viewStored[<<d, n>>] = View!Computed(d, n, viewLoa)
      BY <3>1 DEF ViewInv, View!LeaveFollowed
    <3>3. (<<d, n>> \in viewLoa') = (<<d, n>> \in viewLoa)
      BY <2>3
    <3>4. View!Computed(d, n, viewLoa') = View!Computed(d, n, viewLoa)
      BY <3>3 DEF View!Computed
    <3> QED BY <2>1, <3>1, <3>2, <3>4
  <2> QED BY <2>2, <2>3
<1> QED BY <1>3, <1>4 DEF ViewInv

\* Leaving and coming back change the current month alone.
LEMMA EmploymentKeepsRows ==
    ASSUME ViewInv, NEW e \in Ranked, View!Archive(e) \/ View!Rehire(e)
    PROVE  ViewInv'
<1>1. viewLoa' = viewLoa
  BY DEF View!Archive, View!Rehire
<1>5. \A d \in Ranked, n \in RankedMonths : n # View!Present => View!ActiveOn(d, n)
  BY PresentIs DEF View!ActiveOn
<1>6. \A d \in Ranked, n \in RankedMonths : n # View!Present => View!ActiveOn(d, n)'
  BY PresentIs DEF View!ActiveOn, View!Present
<1>2. viewStored \in [Ranked \X RankedMonths -> [eligible : BOOLEAN, final : Int]]
  BY DEF ViewInv, ViewTyped
<1>3. ViewTyped' /\ \A d \in Ranked, n \in RankedMonths :
          n # View!Present => viewStored'[<<d, n>>] = viewStored[<<d, n>>]
  <2>1. CASE View!Archive(e)
    <3>1. viewStored' = [viewStored EXCEPT ![<<e, View!Present>>] = [eligible |-> FALSE, final |-> 0]]
      BY <2>1 DEF View!Archive
    <3> QED BY <1>2, <3>1, PresentIs DEF ViewTyped
  <2>2. CASE View!Rehire(e)
    BY <1>2, <2>2 DEF View!Rehire, ViewTyped
  <2> QED BY <2>1, <2>2
<1>4. View!LeaveFollowed'
  <2> SUFFICES ASSUME NEW d \in Ranked, NEW n \in RankedMonths,
                      viewStored'[<<d, n>>] # View!Missing, n # View!Present
               PROVE  viewStored'[<<d, n>>] = View!Computed(d, n, viewLoa)'
    BY DEF View!LeaveFollowed, View!Missing, View!Present
  <2>1. View!Computed(d, n, viewLoa)' = View!Computed(d, n, viewLoa)
    BY <1>1, <1>5, <1>6 DEF View!Computed
  <2> QED BY <1>3, <2>1 DEF ViewInv, View!LeaveFollowed
<1> QED BY <1>3, <1>4 DEF ViewInv

LEMMA ViewsStep == ViewInv /\ [View!Next]_(View!viewVars) => ViewInv'
<1> SUFFICES ASSUME ViewInv, [View!Next]_(View!viewVars) PROVE ViewInv'
  OBVIOUS
<1>1. CASE UNCHANGED <<viewLoa, viewGone, viewStored>>
  BY <1>1 DEF ViewInv, ViewTyped, View!LeaveFollowed, View!Computed, View!ActiveOn, View!Missing, View!Present
<1>2. CASE View!Next
  <2>1. ASSUME NEW r \in Recs, View!Recognise(r) PROVE ViewInv'
    BY <1>1, <2>1 DEF View!Recognise
  <2>2. ASSUME NEW d \in Deds, View!Deduct(d) PROVE ViewInv'
    BY <1>1, <2>2 DEF View!Deduct
  <2>3. ASSUME NEW m \in RankedMonths, View!Read(m) PROVE ViewInv'
    BY <2>3, ReadKeepsRows
  <2>4. ASSUME NEW m \in RankedMonths, NEW e \in Ranked, View!Leave(e, m) PROVE ViewInv'
    BY <2>4, RecalculatedKeeps DEF View!Leave
  <2>5. ASSUME NEW m \in RankedMonths, NEW e \in Ranked, View!Dashboard(e, m) PROVE ViewInv'
    BY <2>5, RecalculatedKeeps DEF View!Dashboard
  <2>6. ASSUME NEW e \in Ranked, View!Archive(e) \/ View!Rehire(e) PROVE ViewInv'
    BY <2>6, EmploymentKeepsRows
  <2> QED BY <1>2, <2>1, <2>2, <2>3, <2>4, <2>5, <2>6 DEF View!Next
<1>3. CASE UNCHANGED View!viewVars
  BY <1>1, <1>3 DEF View!viewVars
<1> QED BY <1>2, <1>3

-----------------------------------------------------------------------------
(* The members' server: each component behaves as it does alone. *)

LEMMA MembersStarts ==
  MembersInit => Init /\ Leave!Init /\ Owned!Init /\ Plan!Init /\ Person!Init /\ Share!Init /\ Ask!Init
                 /\ View!Init /\ Rank!Init
  BY DEF MembersInit

LEMMA MembersSteps ==
  [MembersNext]_memberVars =>
    /\ [Leave!Next]_(Leave!absenceVars)
    /\ [Owned!Next]_(Owned!ownerVars)
    /\ [Plan!Next]_(Plan!dayVars)
    /\ [Person!Next]_(Person!employmentVars)
    /\ [Share!Next]_(Share!learningVars)
    /\ [Ask!Next]_(Ask!accessVars)
    /\ [View!Next]_(View!viewVars)
    /\ [Rank!Next]_(Rank!rankVars)
<1> USE DEF absenceVars, ownerVars, dayVars, employmentVars, learningVars, accessVars, viewVars, rankVars,
      Leave!absenceVars, Owned!ownerVars, Plan!dayVars, Person!employmentVars, Share!learningVars, Share!shareVars,
      Ask!accessVars, View!viewVars, Rank!rankVars
<1>1. CASE UNCHANGED memberVars
  BY <1>1 DEF memberVars
<1>2. CASE MembersNext
  BY <1>2 DEF MembersNext, Others
<1> QED BY <1>1, <1>2

\* Attendance is that of the leaves in force, whoever writes its rows and whatever
\* a reader outside a transaction has read, and leaves share days only where an
\* upload was awaited (attendance.py:317, sick_leave_import.py:631).
THEOREM AttendanceIsTrue == MembersSpec => []AttendanceTrue
<1>1. MembersInit => LeaveInv
  BY MembersStarts, LeaveBegins
<1>2. LeaveInv /\ [MembersNext]_memberVars => LeaveInv'
  BY MembersSteps, LeaveStep
<1>3. LeaveInv => AttendanceTrue
  BY DEF LeaveInv, AttendanceTrue
<1> QED BY <1>1, <1>2, <1>3, PTL DEF MembersSpec

\* Whoever decides gets what was shown: an import replaces the rows its preview
\* counted, a successor takes over what the request named, a leader approves the
\* asking on the page and a text is made public by the owner of that moment
\* (sick_leave_import.py:626, announcement_responsibilities.py:158, learning.py:186,
\* 346).
THEOREM DecisionsAreAsShown == MembersSpec => DecidedAsShown
<1>1. MembersInit => LeaveInv /\ OwnersInv /\ ShareInv /\ Ask!Init
  BY MembersStarts, LeaveBegins, OwnersBegin, ShareBegins
<1>2. LeaveInv /\ [MembersNext]_memberVars => LeaveInv'
  BY MembersSteps, LeaveStep
<1>3. OwnersInv /\ [MembersNext]_memberVars => OwnersInv'
  BY MembersSteps, OwnersStep
<1>4. ShareInv /\ [MembersNext]_memberVars => ShareInv'
  BY MembersSteps, ShareStep
<1>5. MembersSpec => []LeaveInv /\ []OwnersInv /\ []ShareInv /\ Ask!Spec
  <2>1. [MembersNext]_memberVars => [Ask!Next]_(Ask!accessVars)
    BY MembersSteps
  <2> QED BY <1>1, <1>2, <1>3, <1>4, <2>1, PTL DEF MembersSpec, Ask!Spec
<1>6. MembersSpec => Leave!ImportAsReviewed
  <2> DEFINE Reviewed == \A r \in leaveSick' \ leaveSick : r.source = "import" =>
          /\ ~Leave!OnLoa(r.emp, r.from, r.to)
          /\ \E p \in Previews : \E v \in leavePreview[p] :
                v.committing /\ leaveSick \ leaveSick' = v.seen
                /\ {<<x.emp, x.from>> : x \in leaveSick' \ leaveSick} = v.matched
  <2>1. LeaveInv /\ [MembersNext]_memberVars => [Reviewed]_(Leave!absenceVars)
    BY MembersSteps, ImportDecides
  <2>2. MembersSpec => [][Reviewed]_(Leave!absenceVars)
    BY <1>5, <2>1, PTL DEF MembersSpec
  <2> QED BY <2>2 DEF Leave!ImportAsReviewed
<1>7. MembersSpec => Owned!PassesAsNamed
  <2> DEFINE Passes ==
          /\ \A s \in Shared : ownedGroups'[s] # NoGroup /\ ownedGroups[s] # NoGroup =>
                LET now == Owned!Range(ownedGroups'[s].members)
                IN \A p \in now \ Owned!Members(s) : Owned!MaySay(p, s)
          /\ \A b \in DOMAIN ownedBatches : ownedBatches'[b].status = "accepted" /\ ownedBatches[b].status = "pending" =>
                LET s == ownedBatches[b].scope
                IN /\ ownedBatches[b].snapshot = {<<i, ownedNotices'[i].version>> :
                          i \in {j \in DOMAIN ownedNotices' : ownedNotices'[j].scope = s}}
                   /\ Owned!Members(s) \ {ownedBatches[b].from} \subseteq Owned!Range(ownedGroups'[s].members)
  <2>1. OwnersInv /\ [MembersNext]_memberVars => [Passes]_(Owned!ownerVars)
    BY MembersSteps, OwnersDecide DEF PassedWhole
  <2>2. MembersSpec => [][Passes]_(Owned!ownerVars)
    BY <1>5, <2>1, PTL DEF MembersSpec
  <2> QED BY <2>2, PTL DEF Owned!PassesAsNamed
<1>8. MembersSpec => Share!OwnerPublishes
  <2> DEFINE Publishes == shareShare'.text # shareShare.text => shareRevs'[shareShare'.text].judge = {shareShare.owner}
  <2>1. ShareInv /\ [MembersNext]_memberVars => [Publishes]_(Share!learningVars)
    BY MembersSteps, ShareDecides
  <2>2. MembersSpec => [][Publishes]_(Share!learningVars)
    BY <1>5, <2>1, PTL DEF MembersSpec
  <2> QED BY <2>2 DEF Share!OwnerPublishes
<1> QED BY <1>5, <1>6, <1>7, <1>8, ApprovedIsRead DEF DecidedAsShown

\* Plans and publications are in the hands they are recorded in: nobody is to relieve
\* a seven o'clock post who is seated himself, and the plan in force is on the board;
\* a shared scope is its members'; a learning document has one line of versions
\* (daily.py:206, announcement_responsibilities.py:106, learning.py:346).
THEOREM HandsAreTrue == MembersSpec => []HandsTrue
<1>1. MembersInit => PlanInv /\ OwnersInv /\ ShareInv
  BY MembersStarts, PlanBegins, OwnersBegin, ShareBegins
<1>2. PlanInv /\ [MembersNext]_memberVars => PlanInv'
  BY MembersSteps, PlanStep
<1>3. OwnersInv /\ [MembersNext]_memberVars => OwnersInv'
  BY MembersSteps, OwnersStep
<1>4. ShareInv /\ [MembersNext]_memberVars => ShareInv'
  BY MembersSteps, ShareStep
<1>5. PlanInv /\ OwnersInv /\ ShareInv => HandsTrue
  BY OwnersTold DEF PlanInv, ShareInv, HandsTrue
<1> QED BY <1>1, <1>2, <1>3, <1>4, <1>5, PTL DEF MembersSpec

\* Nobody's past changes, an account is deleted only after three days without a
\* break, and nothing but midnight makes an enabled account overdue, whatever is
\* edited, imported, archived or registered anew (employment.py:27,
\* employee_status.py:137, employee_types.py:48).
THEOREM EmploymentIsKept ==
    MembersSpec => Person!PastKept /\ Person!DeletedAfterThreeDays /\ Person!OverdueOnlyByMidnight
<1>1. MembersInit => PersonInv
  BY MembersStarts, PersonBegins
<1>2. PersonInv /\ [MembersNext]_memberVars => PersonInv'
  BY MembersSteps, PersonStep
<1>3. MembersSpec => []PersonInv
  BY <1>1, <1>2, PTL DEF MembersSpec
<1>4. MembersSpec => Person!PastKept
  <2> DEFINE Past == \A d \in 1 .. jobToday - 1 :
                         Person!RoleOn(d)' = Person!RoleOn(d) /\ Person!EmployedOn(d)' = Person!EmployedOn(d)
  <2>1. PersonInv /\ [MembersNext]_memberVars => [Past]_(Person!employmentVars)
    BY MembersSteps, PersonStep, RolesKept DEF PersonMoves, PersonInv, EmploymentKept
  <2>2. MembersSpec => [][Past]_(Person!employmentVars)
    BY <1>3, <2>1, PTL DEF MembersSpec
  <2> QED BY <2>2 DEF Person!PastKept
<1>5. MembersSpec => Person!DeletedAfterThreeDays
  <2>1. PersonInv /\ [MembersNext]_memberVars => [OffForThree]_(Person!employmentVars)
    BY MembersSteps, PersonStep DEF PersonMoves
  <2>2. MembersSpec => [][OffForThree]_(Person!employmentVars)
    BY <1>3, <2>1, PTL DEF MembersSpec
  <2> QED BY <2>2 DEF Person!DeletedAfterThreeDays, OffForThree
<1>6. MembersSpec => Person!OverdueOnlyByMidnight
  <2>1. PersonInv /\ [MembersNext]_memberVars => [DueOnlyLater]_(Person!employmentVars)
    BY MembersSteps, PersonStep DEF PersonMoves
  <2>2. MembersSpec => [][DueOnlyLater]_(Person!employmentVars)
    BY <1>3, <2>1, PTL DEF MembersSpec
  <2> QED BY <2>2 DEF Person!OverdueOnlyByMidnight, DueOnlyLater
<1> QED BY <1>4, <1>5, <1>6

\* Every page tells the same score whatever is recorded, excluded, left and stored in
\* between, the attendance of a past month is that of its leaves, and a band that is
\* shown is the rank among those it is compared with, in the generation that is in
\* force (score_queries.py:37, monthly_ranks.py:282).
THEOREM ScoresAreTold == MembersSpec => []ScoresTold
<1>1. MembersInit => ViewInv /\ RankInv
  BY MembersStarts, ViewsBegin, RanksBegin
<1>2. ViewInv /\ [MembersNext]_memberVars => ViewInv'
  BY MembersSteps, ViewsStep
<1>3. RankInv /\ [MembersNext]_memberVars => RankInv'
  BY MembersSteps, RankStep
<1>4. ViewInv /\ RankInv => ScoresTold
  BY PagesAgree, BandsTold DEF ViewInv, ScoresTold
<1> QED BY <1>1, <1>2, <1>3, <1>4, PTL DEF MembersSpec
=============================================================================
