------------------------------ MODULE ExportQueue ------------------------------
(***************************************************************************)
(* Background exports (routers/export_tasks.py).  A request is admitted    *)
(* under the lock, receives its body across awaits and is queued for the   *)
(* one worker thread, which checks the owner's rights, renders the report  *)
(* through the ordinary handler and keeps the file.  Statuses are written  *)
(* outside the lock that admission, expiry and eviction hold.              *)
(***************************************************************************)
EXTENDS Integers, Sequences, FiniteSets

CONSTANTS
    Jobs, Owners, Rights, Nobody,
    FullRights,                  \* what every owner may see at first
    MaxActive, PerOwner, MaxKept, MaxCache, TTL, Attempts,
    Sizes,                       \* sizes a report may have
    MaxTime, MaxChanges          \* bounds

VARIABLES
    job,      \* _jobs: Gone or [owner, scope, status, created, finished, size] with shown, what
              \* its result shows, and moved, whether rights changed from check to rendering
    dir,      \* the job's directory: "none", "empty" (request only) or "result"
    queue,    \* submitted to the pool, in order
    worker,   \* the pool's thread: [job, pc, tries]
    rights, now,
    orphans, changes   \* history: directories a restart left; changes of rights so far

exportVars == <<job, dir, queue, worker, rights, now, orphans, changes>>

Gone == [status |-> "gone"]
Idle == [job |-> Nobody, pc |-> "idle", tries |-> 0]
Init ==
    /\ job = [j \in Jobs |-> Gone] /\ dir = [j \in Jobs |-> "none"]
    /\ queue = <<>> /\ worker = Idle
    /\ rights = [o \in Owners |-> FullRights]
    /\ now = 1 /\ orphans = {} /\ changes = 0

With(statuses) == {j \in Jobs : job[j].status \in statuses}
\* Seeded fault: a request still sending its body is not counted.
OccupyingQueued == With({"queued", "running"})
Occupying == With({"receiving", "queued", "running"})
\* expire: by its end, or by its creation while the end is not yet written.
Age(j) == now - (IF job[j].finished > 0 THEN job[j].finished ELSE job[j].created)
Expired == {j \in With({"completed", "failed"}) : Age(j) > TTL}
Without(set) == [j \in Jobs |-> IF j \in set THEN Gone ELSE job[j]]

\* create_task up to its first await: expiry, limits, the sweep of directories
\* nobody owns, and the new row.
Admit(j, o) ==
    LET kept == (Jobs \ With({"gone"})) \ Expired
        swept == {k \in orphans : job[k].status = "gone"}
    IN /\ job[j].status = "gone" /\ dir[j] = "none" /\ j \notin orphans /\ worker.job # j   \* a new id
       /\ Cardinality(Occupying) < MaxActive
       /\ Cardinality({k \in Occupying : job[k].owner = o}) < PerOwner
       /\ Cardinality(kept) < MaxKept
       /\ \E old \in {swept, {}} :       \* whether they are old enough by now
             /\ dir' = [k \in Jobs |-> IF k = j THEN "empty"
                                       ELSE IF k \in Expired \cup old THEN "none" ELSE dir[k]]
             /\ orphans' = orphans \ old
       /\ job' = [Without(Expired) EXCEPT ![j] = [owner |-> o, scope |-> rights[o], status |-> "receiving",
                                                  created |-> now, finished |-> 0, size |-> 0,
                                                  shown |-> FullRights, moved |-> FALSE]]
       /\ UNCHANGED <<queue, worker, rights, now, changes>>

\* list_tasks, owned
Expire ==
    /\ Expired # {}
    /\ job' = Without(Expired)
    /\ dir' = [j \in Jobs |-> IF j \in Expired THEN "none" ELSE dir[j]]
    /\ UNCHANGED <<queue, worker, rights, now, orphans, changes>>

\* Seeded fault: an interrupted upload forgets its row only.
ForgetsRow(j) == dir
Forgets(j) == [dir EXCEPT ![j] = "none"]
\* The body arrives, or the client goes away or sends too much.
Received(j) ==
    /\ job[j].status = "receiving"
    /\ \/ /\ job' = [job EXCEPT ![j].status = "queued"]
          /\ queue' = Append(queue, j) /\ UNCHANGED dir
       \/ /\ job' = [job EXCEPT ![j] = Gone] /\ dir' = Forgets(j)
          /\ UNCHANGED queue
    /\ UNCHANGED <<worker, rights, now, orphans, changes>>

\* run_job begins
Begin ==
    /\ worker.pc = "idle" /\ queue # <<>>
    /\ worker' = [job |-> Head(queue), pc |-> "check", tries |-> 1]
    /\ queue' = Tail(queue)
    /\ job' = [job EXCEPT ![Head(queue)].status = "running"]
    /\ UNCHANGED <<dir, rights, now, orphans, changes>>

\* The account may no longer be as it was, or the session has ended.
Check(j) ==
    /\ worker.job = j /\ worker.pc = "check"
    /\ \E pc \in (IF rights[job[j].owner] = job[j].scope THEN {"render"} ELSE {}) \cup {"fail"} :
          worker' = [worker EXCEPT !.pc = pc]
    /\ job' = [job EXCEPT ![j].moved = FALSE]
    /\ UNCHANGED <<dir, queue, rights, now, orphans, changes>>

\* The handler renders with the rights of that moment; a locked database is
\* tried again from the check on.
Render(j) ==
    /\ worker.job = j /\ worker.pc = "render"
    /\ \/ \E size \in Sizes :
             /\ job' = [job EXCEPT ![j].size = size, ![j].shown = rights[job[j].owner]]
             /\ dir' = [dir EXCEPT ![j] = "result"]
             /\ worker' = [worker EXCEPT !.pc = "complete"]
       \/ /\ worker' = IF worker.tries < Attempts
                       THEN [worker EXCEPT !.pc = "check", !.tries = @ + 1]
                       ELSE [worker EXCEPT !.pc = "fail"]
          /\ UNCHANGED <<job, dir>>
       \/ /\ worker' = [worker EXCEPT !.pc = "fail"]
          /\ UNCHANGED <<job, dir>>
    /\ UNCHANGED <<queue, rights, now, orphans, changes>>

\* The status is written before the time it ended.
Status(j) ==
    /\ worker.job = j /\ worker.pc \in {"complete", "fail"}
    /\ job' = [job EXCEPT ![j].status = IF worker.pc = "complete" THEN "completed" ELSE "failed"]
    /\ dir' = [dir EXCEPT ![j] = IF worker.pc = "fail" THEN "empty" ELSE @]
    /\ worker' = [worker EXCEPT !.pc = "finish"]
    /\ UNCHANGED <<queue, rights, now, orphans, changes>>

\* A report of size n takes n units.
SizeOf(set, table) == Cardinality(UNION {{j} \X (1..table[j].size) : j \in set})
\* The oldest completed reports go, no more of them than bring the cache under
\* its limit.
Evicted(table) ==
    LET completed == {k \in Jobs : table[k].status = "completed"}
        Fits(out) == SizeOf(completed \ out, table) <= MaxCache
    IN {out \in SUBSET completed :
          /\ Fits(out)
          /\ \A k \in out, x \in completed \ out : table[k].finished <= table[x].finished
          /\ out # {} => \E k \in out : ~Fits(out \ {k}) /\ \A x \in out : table[x].finished <= table[k].finished}
\* The finally block: the end is written, then the cache is trimmed.
Finish(j) ==
    /\ worker.job = j /\ worker.pc = "finish"
    /\ LET ended == [job EXCEPT ![j] = IF @ = Gone THEN @ ELSE [@ EXCEPT !.finished = now]]
       IN \E out \in Evicted(ended) :
          /\ job' = [k \in Jobs |-> IF k \in out THEN Gone ELSE ended[k]]
          /\ dir' = [k \in Jobs |-> IF k \in out THEN "none" ELSE dir[k]]
    /\ worker' = Idle
    /\ UNCHANGED <<queue, rights, now, orphans, changes>>

\* Somebody changes what an owner may see.
RightsChange(o) ==
    /\ changes < MaxChanges
    /\ \E r \in Rights \ {rights[o]} : rights' = [rights EXCEPT ![o] = r]
    /\ job' = IF worker.pc = "render" /\ job[worker.job].owner = o
              THEN [job EXCEPT ![worker.job].moved = TRUE] ELSE job
    /\ changes' = changes + 1
    /\ UNCHANGED <<dir, queue, worker, now, orphans>>

Pass == now < MaxTime /\ now' = now + 1
        /\ UNCHANGED <<job, dir, queue, worker, rights, orphans, changes>>

\* The tasks live in memory only; their directories stay.
Restart ==
    /\ With({"gone"}) # Jobs
    /\ orphans' = orphans \cup {j \in Jobs : dir[j] # "none"}
    /\ job' = [j \in Jobs |-> Gone] /\ queue' = <<>> /\ worker' = Idle
    /\ UNCHANGED <<dir, rights, now, changes>>

Next ==
    \/ \E j \in Jobs, o \in Owners : Admit(j, o)
    \/ \E j \in Jobs : Received(j) \/ Check(j) \/ Render(j) \/ Status(j) \/ Finish(j)
    \/ Begin \/ Expire \/ Pass \/ Restart
    \/ \E o \in Owners : RightsChange(o)
Spec == Init /\ [][Next]_exportVars

----------------------------------------------------------------------------
\* Seeded fault: a finished file is served without asking for the rights again.
ServableIfDone(j) == job[j].status = "completed"
\* download_task serves the file.
Servable(j) == job[j].status = "completed" /\ rights[job[j].owner] = job[j].scope

\* A file that can be downloaded is there and shows what its owner may see now,
\* unless his rights changed away and back while it was being rendered
\* (export_tasks.py:180, 290-296).
ServedUnderRights ==
    \A j \in Jobs : Servable(j) => /\ dir[j] = "result"
                                   /\ job[j].shown = rights[job[j].owner] \/ job[j].moved

\* The limits hold together although each is checked at its own moment, and a
\* directory outlives its task only through a restart (export_tasks.py:220-279).
ExportsBounded ==
    /\ Cardinality(With({"receiving", "queued", "running"})) <= MaxActive
    /\ \A o \in Owners : Cardinality({j \in Jobs \ With({"gone", "completed", "failed"}) :
                                          job[j].owner = o}) <= PerOwner
    /\ Cardinality(Jobs \ With({"gone"})) <= MaxKept
    /\ worker.pc = "idle" => SizeOf(With({"completed"}), job) <= MaxCache
    /\ \A j \in Jobs : dir[j] # "none" => job[j] # Gone \/ j \in orphans
=============================================================================
