------------------------- MODULE MaterialJobsProofs -------------------------
(***************************************************************************)
(* Safety of the material worker, for any number of jobs, workers and      *)
(* faults.  The inductive invariant says what the claim token is for: two  *)
(* workers that hold the same job hold different claims, so the file and   *)
(* the result of one are never mistaken for those of the other.            *)
(***************************************************************************)
EXTENDS MaterialJobs, TLAPS

Holding(w) == worker[w].pc \in {"claimed", "converted", "failing"}
JobNamed == \A w \in Workers : worker[w].pc # "idle" => worker[w].job \in Jobs
ClaimsDistinct ==
    \A w, v \in Workers : Holding(w) /\ Holding(v) /\ w # v /\ worker[w].job = worker[v].job
        => worker[w].claim # worker[v].claim
ClaimsIssued == \A w \in Workers : Holding(w) => worker[w].claim <= row[worker[w].job].claim
MadeExists == \A w \in Workers : worker[w].pc = "converted" => Generated(w) \in outputs
RecordFollowsRow ==
    \A j \in Jobs : record[j] = CASE row[j].status = "succeeded" -> "ready"
                                 [] row[j].status = "failed" -> "failed"
                                 [] OTHER -> "open"
OutputKept ==
    \A j \in Jobs : row[j].status = "succeeded" =>
        /\ <<j, row[j].output>> \in outputs
        /\ \A w \in Workers : Holding(w) /\ worker[w].job = j => worker[w].claim # row[j].output
CleaningSettled ==
    \A w \in Workers : worker[w].pc \in {"unlinked", "unlink_failed"} =>
        Terminal(worker[w].job) /\ worker[w].attempts < MaxCleanup
AttemptsLeft ==
    \A j \in Jobs : ~Terminal(j) \/ row[j].cleanup = "pending" => row[j].attempts < MaxCleanup
IInv ==
    /\ TypeOK
    /\ JobNamed /\ ClaimsDistinct /\ ClaimsIssued /\ MadeExists
    /\ RecordFollowsRow /\ OutputKept
    /\ CleaningSettled /\ AttemptsLeft /\ SourcesOutliveWork



-----------------------------------------------------------------------------
(* Steps that change nothing but one worker, its file and settled sources. *)

\* An idle worker is a worker.
LEMMA FreeIsWorker == Free \in Worker /\ Free.pc = "idle"
BY JobsAssumption DEF Free, Worker, NoJob

\* The fault counter stays within its bound.
LEMMA FaultCounts == ASSUME TypeOK, Fault PROVE faults' \in 0 .. MaxFaults
BY JobsAssumption DEF TypeOK, Fault

\* A step of one worker that neither invents a claim nor touches a row.
LEMMA LocalStep ==
  ASSUME IInv, NEW w \in Workers, NEW new \in Worker,
         worker' = [worker EXCEPT ![w] = new], UNCHANGED <<row, record>>, faults' \in 0 .. MaxFaults,
         new.pc # "idle" => new.job \in Jobs,
         new.pc \in {"claimed", "converted", "failing"} =>
            Holding(w) /\ new.job = worker[w].job /\ new.claim = worker[w].claim,
         new.pc = "converted" => <<new.job, new.claim>> \in outputs',
         new.pc \in {"unlinked", "unlink_failed"} => Terminal(new.job) /\ new.attempts < MaxCleanup,
         \/ outputs' = outputs
         \/ outputs' = outputs \cup {Generated(w)} /\ Holding(w)
         \/ outputs' = outputs \ {Generated(w)} /\ Holding(w),
         sources' = sources \/ (Terminal(new.job) /\ sources' = sources \ {new.job})
  PROVE IInv'
<1> USE DEF IInv
<1>a. \A v \in Workers : worker'[v] = IF v = w THEN new ELSE worker[v]
  BY DEF TypeOK
<1>1. TypeOK'
  <2>1. Holding(w) => Generated(w) \in Jobs \X Nat
    BY DEF TypeOK, Worker, Holding, JobNamed, Generated
  <2> QED BY <2>1 DEF TypeOK
<1>2. JobNamed'
  BY <1>a DEF TypeOK, Holding, JobNamed
<1>3. ClaimsDistinct'
  BY <1>a DEF TypeOK, Holding, ClaimsDistinct
<1>4. ClaimsIssued'
  BY <1>a DEF TypeOK, Holding, ClaimsIssued
<1>5. MadeExists'
  BY <1>a DEF TypeOK, Worker, Holding, Generated, MadeExists, ClaimsDistinct
<1>6. RecordFollowsRow'
  BY <1>a DEF RecordFollowsRow
<1>7. OutputKept'
  BY <1>a DEF TypeOK, Holding, Generated, OutputKept
<1>8. CleaningSettled'
  BY <1>a DEF CleaningSettled, Terminal
<1>9. AttemptsLeft'
  BY <1>a DEF AttemptsLeft, Terminal
<1>10. SourcesOutliveWork'
  BY <1>a DEF Terminal, SourcesOutliveWork
<1> QED BY <1>1, <1>2, <1>3, <1>4, <1>5, <1>6, <1>7, <1>8, <1>9, <1>10 DEF IInv

\* SELECT of a job to claim.
LEMMA SelectStep == ASSUME IInv, NEW w \in Workers, NEW j \in Jobs, Select(w, j) PROVE IInv'
<1> DEFINE new == [worker[w] EXCEPT !.pc = "selected", !.job = j]
<1> USE DEF IInv
<1>1. new \in Worker /\ worker' = [worker EXCEPT ![w] = new]
  BY FreeIsWorker DEF TypeOK, Worker, Select
<1> QED BY <1>1, LocalStep, FaultCounts, FreeIsWorker DEF TypeOK, Worker, Holding, Generated, Select

\* A conversion that ends well.
LEMMA ConvertStep == ASSUME IInv, NEW w \in Workers, Convert(w) PROVE IInv'
<1> DEFINE new == [worker[w] EXCEPT !.pc = "converted"]
<1> USE DEF IInv
<1>1. new \in Worker /\ worker' = [worker EXCEPT ![w] = new]
  BY FreeIsWorker DEF TypeOK, Worker, Convert, Go, JobNamed
<1> QED BY <1>1, LocalStep, FaultCounts, FreeIsWorker DEF TypeOK, Worker, Holding, Generated, Convert, Go, JobNamed

\* A conversion that fails.
LEMMA ConvertFailsStep == ASSUME IInv, NEW w \in Workers, ConvertFails(w) PROVE IInv'
<1> DEFINE new == [worker[w] EXCEPT !.pc = "failing"]
<1> USE DEF IInv
<1>1. new \in Worker /\ worker' = [worker EXCEPT ![w] = new]
  BY FreeIsWorker DEF TypeOK, Worker, ConvertFails, Go, JobNamed
<1> QED BY <1>1, LocalStep, FaultCounts, FreeIsWorker DEF TypeOK, Worker, Holding, Generated, ConvertFails, Go, JobNamed

\* A result that is refused.
LEMMA ApplyRefusedStep == ASSUME IInv, NEW w \in Workers, ApplyRefused(w) PROVE IInv'
<1> DEFINE new == [worker[w] EXCEPT !.pc = "failing"]
<1> USE DEF IInv
<1>1. new \in Worker /\ worker' = [worker EXCEPT ![w] = new]
  BY FreeIsWorker DEF TypeOK, Worker, ApplyRefused, Go, JobNamed
<1> QED BY <1>1, LocalStep, FaultCounts, FreeIsWorker DEF TypeOK, Worker, Holding, Generated, ApplyRefused, Go, JobNamed

\* An unexpected exception.
LEMMA BreaksStep == ASSUME IInv, NEW w \in Workers, Breaks(w) PROVE IInv'
<1> DEFINE new == Free
<1> USE DEF IInv
<1>1. new \in Worker /\ worker' = [worker EXCEPT ![w] = new]
  BY FreeIsWorker DEF TypeOK, Worker, Breaks, Rest
<1> QED BY <1>1, LocalStep, FaultCounts, FreeIsWorker DEF TypeOK, Worker, Holding, Generated, Breaks, Rest

\* SELECT of a job to clean up.
LEMMA SweepStep == ASSUME IInv, NEW w \in Workers, NEW j \in Jobs, Sweep(w, j) PROVE IInv'
<1> DEFINE new == [worker[w] EXCEPT !.pc = "cleaning", !.job = j]
<1> USE DEF IInv
<1>1. new \in Worker /\ worker' = [worker EXCEPT ![w] = new]
  BY FreeIsWorker DEF TypeOK, Worker, Sweep
<1> QED BY <1>1, LocalStep, FaultCounts, FreeIsWorker DEF TypeOK, Worker, Holding, Generated, Sweep

\* A crash.
LEMMA CrashStep == ASSUME IInv, NEW w \in Workers, Crash(w) PROVE IInv'
<1> DEFINE new == Free
<1> USE DEF IInv
<1>1. new \in Worker /\ worker' = [worker EXCEPT ![w] = new]
  BY FreeIsWorker DEF TypeOK, Worker, Crash, Rest
<1> QED BY <1>1, LocalStep, FaultCounts, FreeIsWorker DEF TypeOK, Worker, Holding, Generated, Crash, Rest

\* A heartbeat that dies.
LEMMA HeartbeatDiesStep == ASSUME IInv, NEW w \in Workers, HeartbeatDies(w) PROVE IInv'
<1> DEFINE new == [worker[w] EXCEPT !.beating = FALSE]
<1> USE DEF IInv
<1>1. new \in Worker /\ worker' = [worker EXCEPT ![w] = new]
  BY DEF TypeOK, Worker, HeartbeatDies
<1>2. new.pc = worker[w].pc /\ new.job = worker[w].job /\ new.claim = worker[w].claim
      /\ new.attempts = worker[w].attempts
  BY DEF TypeOK, Worker
<1>3. UNCHANGED <<row, record, sources, outputs>> /\ Fault
  BY DEF HeartbeatDies
<1>4. /\ new.pc # "idle" => new.job \in Jobs
      /\ new.pc = "converted" => <<new.job, new.claim>> \in outputs'
      /\ new.pc \in {"unlinked", "unlink_failed"} => Terminal(new.job) /\ new.attempts < MaxCleanup
  BY <1>2, <1>3 DEF JobNamed, MadeExists, CleaningSettled, Generated
<1> HIDE DEF new
<1> QED BY <1>1, <1>2, <1>3, <1>4, LocalStep, FaultCounts DEF Holding

\* Unlinking fails: the attempts read are below the limit.
LEMMA UnlinkFailsStep == ASSUME IInv, NEW w \in Workers, UnlinkFails(w) PROVE IInv'
<1> DEFINE j == worker[w].job
           new == [worker[w] EXCEPT !.pc = "unlink_failed", !.attempts = row[j].attempts]
<1> USE DEF IInv
<1>1. j \in Jobs
  BY DEF UnlinkFails, JobNamed
<1>2. row[j].attempts \in 0 .. MaxCleanup /\ row[j].attempts < MaxCleanup
  BY <1>1 DEF UnlinkFails, AttemptsLeft, TypeOK, Row
<1>3. new \in Worker /\ worker' = [worker EXCEPT ![w] = new]
  BY <1>2 DEF TypeOK, Worker, UnlinkFails
<1>4. new.pc = "unlink_failed" /\ new.job = j /\ new.attempts = row[j].attempts
  BY DEF TypeOK, Worker
<1>5. UNCHANGED <<row, record, sources, outputs>> /\ Fault /\ Terminal(j)
  BY DEF UnlinkFails
<1> HIDE DEF new, j
<1> QED BY <1>1, <1>2, <1>3, <1>4, <1>5, LocalStep, FaultCounts

\* The sources of a settled job are unlinked.
LEMMA UnlinkStep == ASSUME IInv, NEW w \in Workers, Unlink(w) PROVE IInv'
<1> DEFINE j == worker[w].job
           new == [worker[w] EXCEPT !.pc = "unlinked", !.attempts = row[j].attempts]
<1> USE DEF IInv
<1>1. j \in Jobs /\ UNCHANGED <<row, record, outputs, faults>>
  BY DEF Unlink, JobNamed
<1>2. CASE Terminal(j) /\ row[j].cleanup = "pending"
  <2>1. row[j].attempts \in 0 .. MaxCleanup /\ row[j].attempts < MaxCleanup
    BY <1>1, <1>2 DEF AttemptsLeft, TypeOK, Row
  <2>2. new \in Worker /\ worker' = [worker EXCEPT ![w] = new] /\ sources' = sources \ {j}
    BY <1>2, <2>1 DEF TypeOK, Worker, Unlink
  <2>3. new.pc = "unlinked" /\ new.job = j /\ new.attempts = row[j].attempts
    BY DEF TypeOK, Worker
  <2>4. faults' \in 0 .. MaxFaults
    BY <1>1 DEF TypeOK
  <2> HIDE DEF new, j
  <2> QED BY <1>1, <1>2, <2>1, <2>2, <2>3, <2>4, LocalStep
<1>3. CASE ~(Terminal(j) /\ row[j].cleanup = "pending")
  BY <1>1, <1>3, LocalStep, FreeIsWorker DEF Unlink, Rest, TypeOK
<1> QED BY <1>2, <1>3

-----------------------------------------------------------------------------
(* Steps that change a row. *)

\* A claim: its number is new, so it differs from every claim that is held.
LEMMA ClaimStep == ASSUME IInv, NEW w \in Workers, Claim(w) PROVE IInv'
<1> DEFINE j == worker[w].job
           next == row[j].claim + 1
           new == [worker[w] EXCEPT !.pc = "claimed", !.claim = next, !.beating = TRUE]
           taken == [row[j] EXCEPT !.status = "processing", !.claim = next, !.stale = FALSE]
<1> USE DEF IInv
<1>a. j \in Jobs /\ UNCHANGED <<record, sources, outputs, faults>>
  BY DEF Claim, JobNamed
<1>b. CASE ~Claimable(j)
  BY <1>a, <1>b, LocalStep, FreeIsWorker DEF Claim, Rest, TypeOK
<1>c. CASE Claimable(j)
  <2>a. row' = [row EXCEPT ![j] = taken] /\ worker' = [worker EXCEPT ![w] = new]
    BY <1>c DEF Claim
  <2>h. row[j] \in Row /\ worker[w] \in Worker /\ worker[w].job = j
    BY <1>a DEF TypeOK
  <2>i. next \in Nat
    BY <2>h DEF Row
  <2>b. taken \in Row /\ new \in Worker /\ next \in Nat
    <3> HIDE DEF next, j
    <3> QED BY <2>h, <2>i DEF Row, Worker
  <2>c. /\ \A v \in Workers : worker'[v] = IF v = w THEN new ELSE worker[v]
        /\ \A k \in Jobs : row'[k] = IF k = j THEN taken ELSE row[k]
    BY <1>a, <2>a DEF TypeOK
  <2>d. /\ new.pc = "claimed" /\ new.job = j /\ new.claim = next
        /\ taken.status = "processing" /\ taken.claim = next /\ taken.attempts = row[j].attempts
    <3> HIDE DEF j, next
    <3> QED BY <2>h DEF Row, Worker
  <2>e. ~Terminal(j) /\ record[j] = "open" /\ j \in sources /\ row[j].attempts < MaxCleanup
    BY <1>a, <1>c DEF Claimable, Terminal, RecordFollowsRow, SourcesOutliveWork, AttemptsLeft
  <2>f. \A v \in Workers : Holding(v) => worker[v].claim \in Nat /\ worker[v].job \in Jobs
    BY DEF TypeOK, Worker, Holding, JobNamed
  <2>g. next = row[j].claim + 1 /\ \A k \in Jobs : row[k].claim \in Nat
    BY DEF TypeOK, Row
  <2>1. TypeOK'
    BY <1>a, <2>a, <2>b DEF TypeOK
  <2> HIDE DEF new, taken, next, j
  <2>2. JobNamed'
    BY <1>a, <2>c, <2>d DEF JobNamed
  <2>3. ClaimsDistinct'
    BY <2>c, <2>d, <2>f, <2>g, <1>a DEF ClaimsDistinct, ClaimsIssued, Holding
  <2>4. ClaimsIssued'
    BY <2>c, <2>d, <2>f, <2>g, <1>a DEF ClaimsIssued, Holding
  <2>5. MadeExists'
    BY <1>a, <2>c, <2>d DEF MadeExists, Generated
  <2>6. RecordFollowsRow'
    BY <1>a, <2>c, <2>d, <2>e DEF RecordFollowsRow
  <2>7. OutputKept'
    BY <1>a, <2>c, <2>d DEF OutputKept, Holding
  <2>8. CleaningSettled'
    BY <1>a, <2>c, <2>d, <2>e DEF CleaningSettled, JobNamed, Terminal
  <2>9. AttemptsLeft'
    BY <2>c, <2>d, <2>e DEF AttemptsLeft, Terminal
  <2>10. SourcesOutliveWork'
    BY <1>a, <2>c, <2>d, <2>e DEF SourcesOutliveWork, Terminal
  <2> QED BY <2>1, <2>2, <2>3, <2>4, <2>5, <2>6, <2>7, <2>8, <2>9, <2>10
<1> QED BY <1>b, <1>c

\* A claim without heartbeat goes stale.
LEMMA AgeStep == ASSUME IInv, NEW j \in Jobs, Age(j) PROVE IInv'
<1> DEFINE old == [row[j] EXCEPT !.stale = TRUE]
<1> USE DEF IInv
<1>a. row' = [row EXCEPT ![j] = old] /\ UNCHANGED <<record, sources, outputs, worker, faults>>
  BY DEF Age, TypeOK, Row
<1>b. old \in Row
  BY DEF TypeOK, Row
<1>c. \A k \in Jobs : /\ row'[k].status = row[k].status /\ row'[k].claim = row[k].claim
                      /\ row'[k].output = row[k].output /\ row'[k].cleanup = row[k].cleanup
                      /\ row'[k].attempts = row[k].attempts
  BY <1>a DEF TypeOK, Row
<1>1. TypeOK'
  BY <1>a, <1>b DEF TypeOK
<1> HIDE DEF old
<1>2. JobNamed' /\ ClaimsDistinct' /\ MadeExists'
  BY <1>a DEF JobNamed, ClaimsDistinct, MadeExists, Holding, Generated
<1>3. ClaimsIssued' /\ CleaningSettled'
  BY <1>a, <1>c DEF ClaimsIssued, CleaningSettled, JobNamed, Holding, Terminal
<1>4. RecordFollowsRow' /\ OutputKept'
  BY <1>a, <1>c DEF RecordFollowsRow, OutputKept, Holding
<1>5. AttemptsLeft' /\ SourcesOutliveWork'
  BY <1>a, <1>c DEF AttemptsLeft, SourcesOutliveWork, Terminal
<1> QED BY <1>1, <1>2, <1>3, <1>4, <1>5

\* A job that its owner settles: the row becomes terminal, the claim is let go.
LEMMA SettleStep ==
  ASSUME IInv, NEW w \in Workers, NEW new \in Worker, NEW settled \in Row, NEW j \in Jobs,
         Holding(w), j = worker[w].job, Owns(w),
         row' = [row EXCEPT ![j] = settled], worker' = [worker EXCEPT ![w] = new],
         new.pc = "cleaning", new.job = j,
         settled.claim = row[j].claim, settled.attempts = row[j].attempts,
         \/ /\ settled.status = "succeeded" /\ record' = [record EXCEPT ![j] = "ready"]
            /\ settled.output = worker[w].claim /\ worker[w].pc = "converted"
         \/ settled.status = "failed" /\ record' = [record EXCEPT ![j] = "failed"],
         UNCHANGED <<sources, outputs, faults>>
  PROVE IInv'
<1> USE DEF IInv
<1>a. /\ \A v \in Workers : worker'[v] = IF v = w THEN new ELSE worker[v]
      /\ \A k \in Jobs : row'[k] = IF k = j THEN settled ELSE row[k]
  BY DEF TypeOK
<1>b. ~Terminal(j) /\ row[j].attempts < MaxCleanup
  BY DEF Owns, Terminal, AttemptsLeft
<1>1. TypeOK'
  BY DEF TypeOK
<1>2. JobNamed'
  BY <1>a DEF JobNamed
<1>3. ClaimsDistinct'
  BY <1>a DEF ClaimsDistinct, Holding
<1>4. ClaimsIssued'
  BY <1>a DEF ClaimsIssued, Holding, JobNamed
<1>5. MadeExists'
  BY <1>a DEF MadeExists, Generated
<1>6. RecordFollowsRow'
  BY <1>a DEF RecordFollowsRow, TypeOK
<1>7. OutputKept'
  <2> SUFFICES ASSUME NEW k \in Jobs, (row[k].status = "succeeded")'
               PROVE  /\ <<k, row'[k].output>> \in outputs'
                      /\ \A v \in Workers : Holding(v)' /\ worker'[v].job = k
                            => worker'[v].claim # row'[k].output
    BY DEF OutputKept
  <2>1. CASE k = j
    BY <1>a, <2>1 DEF MadeExists, Generated, ClaimsDistinct, Holding
  <2>2. CASE k # j
    BY <1>a, <2>2 DEF OutputKept, Holding
  <2> QED BY <2>1, <2>2
<1>8. CleaningSettled'
  BY <1>a DEF CleaningSettled, JobNamed, Terminal
<1>9. AttemptsLeft'
  BY <1>a, <1>b DEF AttemptsLeft, Terminal
<1>10. SourcesOutliveWork'
  BY <1>a DEF SourcesOutliveWork, Terminal
<1> QED BY <1>1, <1>2, <1>3, <1>4, <1>5, <1>6, <1>7, <1>8, <1>9, <1>10

\* A result is applied by the owner, or dropped by a worker that lost its claim.
LEMMA ApplyStep == ASSUME IInv, NEW w \in Workers, Apply(w) PROVE IInv'
<1> DEFINE j == worker[w].job
           new == [worker[w] EXCEPT !.pc = "cleaning"]
           settled == [row[j] EXCEPT !.status = "succeeded", !.output = worker[w].claim, !.cleanup = "pending"]
<1> USE DEF IInv
<1>1. j \in Jobs /\ Holding(w) /\ worker[w].pc = "converted" /\ UNCHANGED <<sources, faults>>
  BY DEF Apply, Holding, JobNamed
<1>2. CASE Owns(w)
  <2>1. /\ row' = [row EXCEPT ![j] = settled] /\ worker' = [worker EXCEPT ![w] = new]
        /\ record' = [record EXCEPT ![j] = "ready"] /\ UNCHANGED outputs
    BY <1>2 DEF Apply, Go, TypeOK, Worker
  <2>2. new \in Worker /\ new.pc = "cleaning" /\ new.job = j
    BY DEF TypeOK, Worker
  <2>3. /\ settled \in Row /\ settled.status = "succeeded" /\ settled.output = worker[w].claim
        /\ settled.claim = row[j].claim /\ settled.attempts = row[j].attempts
    <3>1. row[j] \in Row /\ worker[w].claim \in Nat
      BY <1>1 DEF TypeOK, Worker
    <3> HIDE DEF j
    <3> QED BY <3>1 DEF Row
  <2> HIDE DEF new, settled
  <2> QED BY <1>1, <1>2, <2>1, <2>2, <2>3, SettleStep
<1>3. CASE ~Owns(w)
  <2>1. worker' = [worker EXCEPT ![w] = Free] /\ outputs' = outputs \ {Generated(w)} /\ UNCHANGED <<row, record>>
    BY <1>3 DEF Apply, Rest
  <2>2. faults' \in 0 .. MaxFaults
    BY <1>1 DEF TypeOK
  <2> QED BY <1>1, <2>1, <2>2, LocalStep, FreeIsWorker
<1> QED BY <1>2, <1>3

\* A failure is recorded by the owner and by nobody else.
LEMMA PersistFailureStep == ASSUME IInv, NEW w \in Workers, PersistFailure(w) PROVE IInv'
<1> DEFINE j == worker[w].job
           new == [worker[w] EXCEPT !.pc = "cleaning"]
           settled == [row[j] EXCEPT !.status = "failed", !.cleanup = "pending"]
<1> USE DEF IInv
<1>1. j \in Jobs /\ Holding(w) /\ UNCHANGED <<sources, outputs, faults>>
  BY DEF PersistFailure, Holding, JobNamed
<1>2. CASE Owns(w)
  <2>1. /\ row' = [row EXCEPT ![j] = settled] /\ worker' = [worker EXCEPT ![w] = new]
        /\ record' = [record EXCEPT ![j] = "failed"]
    BY <1>2 DEF PersistFailure, Go, TypeOK, Worker
  <2>2. new \in Worker /\ new.pc = "cleaning" /\ new.job = j
    BY DEF TypeOK, Worker
  <2>3. /\ settled \in Row /\ settled.status = "failed"
        /\ settled.claim = row[j].claim /\ settled.attempts = row[j].attempts
    <3>1. row[j] \in Row
      BY <1>1 DEF TypeOK
    <3> HIDE DEF j
    <3> QED BY <3>1 DEF Row
  <2> HIDE DEF new, settled
  <2> QED BY <1>1, <1>2, <2>1, <2>2, <2>3, SettleStep
<1>3. CASE ~Owns(w)
  <2>1. worker' = [worker EXCEPT ![w] = Free] /\ UNCHANGED <<row, record>>
    BY <1>3 DEF PersistFailure, Rest
  <2>2. faults' \in 0 .. MaxFaults
    BY <1>1 DEF TypeOK
  <2> QED BY <1>1, <2>1, <2>2, LocalStep, FreeIsWorker
<1> QED BY <1>2, <1>3

\* The outcome of a cleanup is recorded within the allowed attempts.
LEMMA RecordCleanupStep == ASSUME IInv, NEW w \in Workers, RecordCleanup(w) PROVE IInv'
<1> DEFINE j == worker[w].job
           tries == worker[w].attempts + 1
           swept == [row[j] EXCEPT
                       !.attempts = tries,
                       !.cleanup = IF worker[w].pc = "unlinked" THEN "done"
                                   ELSE IF Exhausted(tries) THEN "needs_attention" ELSE row[j].cleanup]
<1> USE DEF IInv
<1>1. /\ j \in Jobs /\ Terminal(j) /\ tries \in 0 .. MaxCleanup
      /\ UNCHANGED <<record, sources, outputs, faults>>
  BY JobsAssumption DEF RecordCleanup, JobNamed, CleaningSettled, TypeOK, Worker
<1>2. row' = [row EXCEPT ![j] = swept] /\ worker' = [worker EXCEPT ![w] = Free]
  BY DEF RecordCleanup, Rest
<1>3. /\ swept \in Row /\ swept.status = row[j].status /\ swept.claim = row[j].claim
      /\ swept.output = row[j].output
      /\ worker[w].pc # "unlinked" /\ swept.cleanup = "pending" => swept.attempts < MaxCleanup
      /\ worker[w].pc = "unlinked" => swept.cleanup = "done"
  <2>1. row[j] \in Row
    BY <1>1 DEF TypeOK
  <2>2. ~Exhausted(tries) => tries < MaxCleanup
    BY <1>1, JobsAssumption DEF Exhausted
  <2> HIDE DEF j, tries
  <2> QED BY <1>1, <2>1, <2>2 DEF Row
<1>a. /\ \A v \in Workers : worker'[v] = IF v = w THEN Free ELSE worker[v]
      /\ \A k \in Jobs : row'[k] = IF k = j THEN swept ELSE row[k]
  BY <1>1, <1>2 DEF TypeOK
<1>4. TypeOK'
  BY <1>1, <1>2, <1>3, FreeIsWorker DEF TypeOK
<1> HIDE DEF swept, tries, j
<1>5. JobNamed' /\ ClaimsDistinct' /\ MadeExists'
  BY <1>a, <1>1, FreeIsWorker DEF JobNamed, ClaimsDistinct, MadeExists, Holding, Generated
<1>6. ClaimsIssued' /\ CleaningSettled'
  BY <1>a, <1>1, <1>3, FreeIsWorker DEF ClaimsIssued, CleaningSettled, JobNamed, Holding, Terminal
<1>7. RecordFollowsRow' /\ OutputKept'
  BY <1>a, <1>1, <1>3, FreeIsWorker DEF RecordFollowsRow, OutputKept, Holding
<1>8. AttemptsLeft' /\ SourcesOutliveWork'
  BY <1>a, <1>1, <1>3 DEF AttemptsLeft, SourcesOutliveWork, Terminal
<1> QED BY <1>4, <1>5, <1>6, <1>7, <1>8

-----------------------------------------------------------------------------
(* The invariant and what follows from it. *)

\* The invariant holds initially.
LEMMA InitIInv == Init => IInv
<1> SUFFICES ASSUME Init PROVE IInv
  OBVIOUS
<1>1. TypeOK
  BY JobsAssumption, FreeIsWorker DEF Init, TypeOK, Row
<1>2. \A w \in Workers : worker[w] = Free /\ worker[w].pc = "idle"
  BY FreeIsWorker DEF Init
<1>3. JobNamed /\ ClaimsDistinct /\ ClaimsIssued /\ MadeExists /\ CleaningSettled
  BY <1>2 DEF JobNamed, ClaimsDistinct, ClaimsIssued, MadeExists, CleaningSettled, Holding
<1>4. RecordFollowsRow /\ OutputKept /\ AttemptsLeft /\ SourcesOutliveWork
  BY JobsAssumption DEF Init, RecordFollowsRow, OutputKept, AttemptsLeft, SourcesOutliveWork, Terminal
<1> QED BY <1>1, <1>3, <1>4 DEF IInv

\* Every step keeps the invariant.
LEMMA StepIInv == IInv /\ [Next]_vars => IInv'
<1> SUFFICES ASSUME IInv, [Next]_vars PROVE IInv'
  OBVIOUS
<1>1. ASSUME NEW w \in Workers, Work(w) PROVE IInv'
  BY <1>1, SelectStep, SweepStep, ClaimStep, ConvertStep, ConvertFailsStep, ApplyStep, ApplyRefusedStep,
     PersistFailureStep, UnlinkStep, RecordCleanupStep DEF Work
<1>2. ASSUME NEW w \in Workers, Breaks(w) \/ UnlinkFails(w) \/ Crash(w) \/ HeartbeatDies(w) PROVE IInv'
  BY <1>2, BreaksStep, UnlinkFailsStep, CrashStep, HeartbeatDiesStep
<1>3. ASSUME NEW j \in Jobs, Age(j) PROVE IInv'
  BY <1>3, AgeStep
<1>4. CASE UNCHANGED vars
  BY <1>4 DEF vars, IInv, TypeOK, JobNamed, ClaimsDistinct, ClaimsIssued, MadeExists, RecordFollowsRow,
     OutputKept, CleaningSettled, AttemptsLeft, SourcesOutliveWork, Holding, Generated, Terminal
<1> QED BY <1>1, <1>2, <1>3, <1>4 DEF Next

\* The inductive invariant is an invariant.
LEMMA Invariant == Spec => []IInv
BY InitIInv, StepIInv, PTL DEF Spec

\* The types hold, the bound on cleanup attempts among them.
THEOREM TypeCorrect == Spec => []TypeOK
<1>1. IInv => TypeOK
  BY DEF IInv
<1> QED BY <1>1, Invariant, PTL

\* Ready material has its file: the output row of a succeeded job names a file
\* that no other worker's claim, rollback or crash removes.
THEOREM ReadyFileKept == Spec => []ReadyHasFile
<1>1. IInv => ReadyHasFile
  BY DEF IInv, ReadyHasFile, RecordFollowsRow, OutputKept, TypeOK, Row
<1> QED BY <1>1, Invariant, PTL

\* Sources outlive the work on them, in every interleaving of cleanup and claim.
THEOREM SourcesKept == Spec => []SourcesOutliveWork
<1>1. IInv => SourcesOutliveWork
  BY DEF IInv
<1> QED BY <1>1, Invariant, PTL

\* Both at once, as the run checks them: no file is lost that a record shows or
\* that work under way still needs.
THEOREM FilesStay == Spec => []FilesKept
<1>1. IInv => FilesKept
  BY DEF IInv, FilesKept, ReadyHasFile, RecordFollowsRow, OutputKept, TypeOK, Row
<1> QED BY <1>1, Invariant, PTL

\* A step of the workers is a step of the abstract queue or leaves it alone.
LEMMA StepRefines == IInv /\ [Next]_vars => [Queue!Next]_record
<1> SUFFICES ASSUME IInv, [Next]_vars PROVE [Queue!Next]_record
  OBVIOUS
<1>1. ASSUME NEW w \in Workers, Apply(w), record' # record PROVE Queue!Next
  <2> DEFINE j == worker[w].job
  <2>1. j \in Jobs /\ Owns(w) /\ record' = [record EXCEPT ![j] = "ready"]
    BY <1>1 DEF Apply, IInv, JobNamed
  <2>2. record[j] = "open"
    BY <2>1 DEF IInv, RecordFollowsRow, Owns
  <2> QED BY <2>1, <2>2 DEF Queue!Next, Queue!Settle
<1>2. ASSUME NEW w \in Workers, PersistFailure(w), record' # record PROVE Queue!Next
  <2> DEFINE j == worker[w].job
  <2>1. j \in Jobs /\ Owns(w) /\ record' = [record EXCEPT ![j] = "failed"]
    BY <1>2 DEF PersistFailure, IInv, JobNamed
  <2>2. record[j] = "open"
    BY <2>1 DEF IInv, RecordFollowsRow, Owns
  <2> QED BY <2>1, <2>2 DEF Queue!Next, Queue!Settle
<1>3. ASSUME NEW w \in Workers, Work(w), ~Apply(w), ~PersistFailure(w) PROVE UNCHANGED record
  BY <1>3 DEF Work, Select, Sweep, Claim, Convert, ConvertFails, ApplyRefused, Unlink, RecordCleanup
<1>4. ASSUME NEW w \in Workers, Breaks(w) \/ UnlinkFails(w) \/ Crash(w) \/ HeartbeatDies(w)
      PROVE  UNCHANGED record
  BY <1>4 DEF Breaks, UnlinkFails, Crash, HeartbeatDies
<1>5. ASSUME NEW j \in Jobs, Age(j) PROVE UNCHANGED record
  BY <1>5 DEF Age
<1> QED BY <1>1, <1>2, <1>3, <1>4, <1>5 DEF Next, vars

\* The workers implement the queue that gives each job one result, once.
THEOREM WorkersImplementQueue == Spec => OneResult
<1>1. Init => Queue!Init
  BY DEF Init, Queue!Init
<1> QED BY <1>1, Invariant, StepRefines, PTL DEF Spec, OneResult, Queue!Spec
=============================================================================
