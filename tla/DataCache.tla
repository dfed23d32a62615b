------------------------------- MODULE DataCache -------------------------------
(***************************************************************************)
(* The response caches of statistics and rankings (data_cache.py,          *)
(* routers/statistics.py).  A reader looks up, computes and stores under   *)
(* the cache's lock; a write commits first and clears the caches after, in *)
(* the same request.  Some writes never clear them and rely on the expiry. *)
(***************************************************************************)
EXTENDS Integers, Sequences, FiniteSets

CONSTANTS
    Readers, Writers, Keys,
    Seconds,      \* how long an answer is kept
    MaxKeys,      \* answers kept per cache
    MaxCommits, MaxTime   \* bounds

VARIABLES
    commits,   \* when each commit happened: commit n is commits[n]
    entry,     \* per cache, the kept answers: [until, seen], or Nothing
    lock,      \* per cache, the reader inside, or Nobody
    reader,    \* [pc, cache, key, from, seen]: seen, the commit each of its two queries saw
    writer,    \* [pc, commit]
    cleared,   \* history: the newest commit whose request has cleared both caches
    now

cacheVars == <<commits, entry, lock, reader, writer, cleared, now>>

Nobody == "none"
Nothing == [until |-> -1, seen |-> <<>>]
Caches == {"statistics", "rankings"}
Newest == Len(commits)
Out == [pc |-> "out", cache |-> Nobody, key |-> Nobody, from |-> 0, seen |-> <<>>]
Done == [pc |-> "done", commit |-> 0]
Init ==
    /\ commits = <<>> /\ cleared = 0 /\ now = 0
    /\ entry = [c \in Caches |-> [k \in Keys |-> Nothing]]
    /\ lock = [c \in Caches |-> Nobody]
    /\ reader = [r \in Readers |-> Out]
    /\ writer = [w \in Writers |-> Done]

Kept(c, k) == entry[c][k].until > now

\* The lookup under the lock: a kept answer is given at once.
Enter(r) ==
    /\ reader[r].pc = "out"
    /\ \E c \in Caches, k \in Keys :
          /\ lock[c] = Nobody /\ ~Kept(c, k)
          /\ lock' = [lock EXCEPT ![c] = r]
          /\ reader' = [reader EXCEPT ![r] = [pc |-> "query", cache |-> c, key |-> k,
                                              from |-> now, seen |-> <<>>]]
    /\ UNCHANGED <<commits, entry, writer, cleared, now>>

\* Each query sees what is committed by then.
Query(r) ==
    /\ reader[r].pc = "query"
    /\ reader' = [reader EXCEPT ![r].seen = Append(@, Newest),
                                ![r].pc = IF Len(reader[r].seen) = 1 THEN "store" ELSE "query"]
    /\ UNCHANGED <<commits, entry, lock, writer, cleared, now>>

\* Seeded fault: the time is taken after the computation.
KeptFromEnd(r) == now + Seconds
KeptUntil(r) == reader[r].from + Seconds
\* Stored and the lock left; a full cache keeps this answer only.
Store(r) ==
    LET c == reader[r].cache
        k == reader[r].key
        kept == [entry[c] EXCEPT ![k] = [until |-> KeptUntil(r), seen |-> reader[r].seen]]
        full == {x \in Keys : kept[x] # Nothing}
    IN /\ reader[r].pc = "store"
       /\ entry' = [entry EXCEPT ![c] = IF Cardinality(full) <= MaxKeys THEN kept
                                        ELSE [x \in Keys |-> IF x = k THEN kept[k] ELSE Nothing]]
       /\ lock' = [lock EXCEPT ![c] = Nobody]
       /\ reader' = [reader EXCEPT ![r] = Out]
       /\ UNCHANGED <<commits, writer, cleared, now>>

\* The computation fails: nothing is stored.
Fails(r) ==
    /\ reader[r].pc = "query"
    /\ lock' = [lock EXCEPT ![reader[r].cache] = Nobody]
    /\ reader' = [reader EXCEPT ![r] = Out]
    /\ UNCHANGED <<commits, entry, writer, cleared, now>>

\* A write commits; one of a silent path leaves the caches alone.
Commit(w) ==
    /\ writer[w].pc = "done" /\ Newest < MaxCommits
    /\ commits' = Append(commits, now)
    /\ \E pc \in {"committed", "silent"} :
          writer' = [writer EXCEPT ![w] = IF pc = "silent" THEN Done
                                          ELSE [pc |-> "statistics", commit |-> Newest + 1]]
    /\ UNCHANGED <<entry, lock, reader, cleared, now>>

\* Seeded fault: the caches are cleared without their locks.
FreeAnyway(c) == TRUE
Free(c) == lock[c] = Nobody
\* invalidate_data_caches: one cache after the other, each under its lock.
Clear(w, c) ==
    /\ writer[w].pc = c /\ Free(c)
    /\ entry' = [entry EXCEPT ![c] = [k \in Keys |-> Nothing]]
    /\ writer' = [writer EXCEPT ![w] = IF c = "statistics" THEN [@ EXCEPT !.pc = "rankings"] ELSE Done]
    /\ cleared' = IF c = "rankings" /\ writer[w].commit > cleared THEN writer[w].commit ELSE cleared
    /\ UNCHANGED <<commits, lock, reader, now>>

Pass == now < MaxTime /\ now' = now + 1
        /\ UNCHANGED <<commits, entry, lock, reader, writer, cleared>>

Next ==
    \/ \E r \in Readers : Enter(r) \/ Query(r) \/ Store(r) \/ Fails(r)
    \/ \E w \in Writers : Commit(w) \/ \E c \in Caches : Clear(w, c)
    \/ Pass
Spec == Init /\ [][Next]_cacheVars

\* A kept answer holds every commit whose request has cleared the caches, though
\* it may have been computed across that commit; a commit nobody cleared for is
\* missed for Seconds at most (data_cache.py:25, statistics.py:306, 356, 384).
CacheFresh ==
    \A c \in Caches, k \in Keys : Kept(c, k) =>
        LET e == entry[c][k]
        IN \A i \in 1..Len(e.seen) :
              /\ e.seen[i] >= cleared
              /\ \A n \in 1..Newest : n > e.seen[i] => commits[n] > now - Seconds
=============================================================================
