--------------------------- MODULE RecognitionProofs ---------------------------
(***************************************************************************)
(* Recognitions, for any submissions, reviews, withdrawals, rules and      *)
(* batch sizes.                                                            *)
(*                                                                         *)
(* What may happen once happens once (TakenOnce): the month's quota row    *)
(* belongs to the one active record whose rule takes it, and submissions   *)
(* with one key are answered with one record.  The weak places are the     *)
(* submission that was let through and still awaits its image, and the     *)
(* withdrawal that read its record before it had the writer.               *)
(*                                                                         *)
(* What is credited stays within the rules (CreditKept).  The bounds are   *)
(* stated of every set of records, not of all of them together: a record   *)
(* that goes may have been the one whose rule allowed the rest.  Sums are  *)
(* sizes of heaps of points, so that the theorems about finite sets apply. *)
(***************************************************************************)
EXTENDS Recognition, FiniteSetTheorems, WellFoundedInduction, TLAPS

-----------------------------------------------------------------------------
(* The inductive invariant. *)

\* The columns of the rows and of the submissions.
Shape ==
    /\ DOMAIN record = Records
    /\ \A r \in Records :
          DOMAIN record[r] = {"status", "day", "raw", "credited", "policy", "from"}
    /\ DOMAIN req = Requests
    /\ \A q \in Requests :
          DOMAIN req[q] = {"pc", "kind", "key", "day", "raw", "n", "again", "policy", "answer"}
    /\ DOMAIN wd = Withdrawals
    /\ \A w \in Withdrawals : DOMAIN wd[w] = {"pc", "rec", "from"}

\* The quota row and its one owner.
QuotaOwned ==
    /\ quota = {r \in Active : TakesQuota(record[r].policy)}
    /\ \A r, s \in quota : r = s

\* Only a submission that was answered has rows, and only a batch several; a
\* withdrawal under way has read a row that is there.
StoredOnce ==
    /\ \A r \in Records : req[r[1]].pc # "done" => record[r].status = "none"
    /\ \A q \in Requests : req[q].n \in 1..BatchMax /\ (req[q].n = 1 \/ req[q].kind = "batch")
    /\ \A w \in Withdrawals :
          wd[w].pc = "read" => wd[w].rec \in Records /\ record[wd[w].rec].status # "none"

\* A special contribution takes no quota row, neither stored nor on its way.
PocFree ==
    /\ \A r \in Records : record[r].status # "none" /\ req[r[1]].kind = "poc"
                            => ~TakesQuota(record[r].policy)
    /\ \A q \in Requests : req[q].pc = "flush" /\ req[q].kind = "poc" => ~TakesQuota(req[q].policy)

\* Who awaits its image holds the writer, and what it was let through for is still free.
SavingSafe ==
    \A q \in Requests : req[q].pc = "saving" =>
        /\ writer = q /\ req[q].kind = "self"
        /\ TakesQuota(req[q].policy) => quota = {}

\* One receipt for a key, and every answer given for the key is the receipt's.
Receipted ==
    /\ \A t, u \in receipts : t.kind = u.kind /\ t.key = u.key => t = u
    /\ \A q \in Requests : req[q].pc = "done" /\ req[q].key # NoKey =>
          \E t \in receipts : t.kind = req[q].kind /\ t.key = req[q].key /\ t.owner = req[q].answer

IInv == Shape /\ QuotaOwned /\ StoredOnce /\ PocFree /\ SavingSafe /\ Receipted

LEMMA UnruledFree == ~TakesQuota(Unruled)
BY DEF TakesQuota, Unruled

LEMMA InitHolds == Init => IInv
<1> SUFFICES ASSUME Init PROVE IInv
  OBVIOUS
<1>1. Shape
  BY DEF Init, Shape, Blank, Unsent
<1>2. \A r \in Records : record[r].status = "none"
  BY DEF Init, Blank
<1>3. \A q \in Requests : req[q].pc = "idle" /\ req[q].n = 1
  BY DEF Init, Unsent
<1>4. Active = {}
  BY <1>2 DEF Active, Ruled, Rows
<1>5. QuotaOwned
  BY <1>4 DEF Init, QuotaOwned
<1>6. StoredOnce
  BY <1>2, <1>3, EntriesAssumption DEF Init, StoredOnce
<1> QED BY <1>1, <1>2, <1>3, <1>5, <1>6 DEF Init, IInv, PocFree, SavingSafe, Receipted

LEMMA Implies == IInv => TakenOnce
<1> SUFFICES ASSUME IInv PROVE TakenOnce
  OBVIOUS
<1>1. Cardinality(quota) <= 1
  <2>1. CASE quota = {}
    BY <2>1, FS_EmptySet
  <2>2. CASE quota # {}
    <3>1. PICK r : quota = {r}
      BY <2>2 DEF IInv, QuotaOwned
    <3> QED BY <3>1, FS_Singleton
  <2> QED BY <2>1, <2>2
<1>2. OneRecordPerKey
  BY DEF IInv, Receipted, OneRecordPerKey
<1> QED BY <1>1, <1>2 DEF TakenOnce, QuotaMatches, IInv, QuotaOwned

-----------------------------------------------------------------------------
(* A submission goes on without storing anything. *)

\* What such a step does to the form and the progress of q.
Progress(q, pcs) ==
    /\ UNCHANGED <<db, wd>>
    /\ DOMAIN req' = Requests
    /\ \A s \in Requests : DOMAIN req'[s] = DOMAIN req[s] /\ (s # q => req'[s] = req[s])
    /\ req'[q].kind = req[q].kind /\ req'[q].key = req[q].key /\ req'[q].n = req[q].n
    /\ req'[q].pc \in pcs

LEMMA ProgressKeeps ==
  ASSUME IInv, NEW q \in Requests, req[q].pc # "done", Progress(q, {"flush", "refused", "saving", "done"}),
         req'[q].pc = "flush" /\ req[q].kind = "poc" => ~TakesQuota(req'[q].policy),
         req'[q].pc = "done" => \E t \in ReceiptOf(req[q].kind, req[q].key) : t.owner = req'[q].answer,
         SavingSafe'
  PROVE  IInv'
<1>1. Shape'
  BY DEF Progress, IInv, Shape, db
<1>2. \A s \in Requests : req'[s].kind = req[s].kind
  BY DEF Progress
<1>3. Active' = Active
  BY <1>2 DEF Active, Ruled, Rows, Records, Progress, db
<1>4. QuotaOwned'
  BY <1>3 DEF QuotaOwned, IInv, Progress, db
<1>5. StoredOnce'
  BY <1>2 DEF StoredOnce, IInv, Progress, Records, db
<1>6. PocFree'
  BY <1>2 DEF PocFree, IInv, Progress, Records, db
<1>7. Receipted'
  BY DEF Receipted, ReceiptOf, IInv, Progress, db
<1> QED BY <1>1, <1>4, <1>5, <1>6, <1>7 DEF IInv

\* An answer from the receipts, or a refusal.
LEMMA ReplyKeeps ==
  ASSUME IInv, NEW q \in Requests, req[q].pc # "done", UNCHANGED <<db, wd>>,
         (Known(q) /\ Reply(q)) \/ Refuse(q),
         writer' = writer \/ (writer = q /\ writer' = NoOne)
  PROVE  IInv'
<1>1. CASE Known(q) /\ Reply(q)
  <2> DEFINE t == CHOOSE t \in ReceiptOf(req[q].kind, req[q].key) : TRUE
             a == Replied(req[q].kind, req[q].key, Payload(q))
  <2>1. t \in ReceiptOf(req[q].kind, req[q].key)
    BY <1>1 DEF Known
  <2>2. a.pc \in {"done", "refused"} /\ (a.pc = "done" => a.answer = t.owner)
    BY DEF Replied
  <2>3. req' = [req EXCEPT ![q].pc = a.pc, ![q].answer = a.answer]
    BY <1>1 DEF Reply
  <2> HIDE DEF t, a
  <2>4. Progress(q, {"flush", "refused", "saving", "done"})
    BY <2>2, <2>3 DEF Progress, IInv, Shape
  <2>5. req'[q].pc = a.pc /\ req'[q].answer = a.answer
    BY <2>3 DEF IInv, Shape
  <2>6. SavingSafe'
    BY <2>2, <2>4, <2>5 DEF Progress, SavingSafe, IInv, db
  <2> QED BY <2>1, <2>2, <2>4, <2>5, <2>6, ProgressKeeps
<1>2. CASE Refuse(q)
  <2>1. req' = [req EXCEPT ![q].pc = "refused"]
    BY <1>2 DEF Refuse
  <2>2. Progress(q, {"flush", "refused", "saving", "done"}) /\ req'[q].pc = "refused"
    BY <2>1 DEF Progress, IInv, Shape
  <2>3. SavingSafe'
    BY <2>2 DEF Progress, SavingSafe, IInv, db
  <2> QED BY <2>2, <2>3, ProgressKeeps
<1> QED BY <1>1, <1>2

\* A submission is let through: to the loop, or to its awaited image.
LEMMA StartKeeps ==
  ASSUME IInv, NEW q \in Requests, req[q].pc \in {"sent", "flush"}, UNCHANGED <<db, wd>>,
         \/ /\ UNCHANGED writer
            /\ \/ req' = [req EXCEPT ![q].pc = "flush"] /\ req[q].kind = "batch"
               \/ \E p : /\ req' = [req EXCEPT ![q].pc = "flush", ![q].policy = p]
                         /\ req[q].kind = "poc" => ~TakesQuota(p)
         \/ /\ req' = [req EXCEPT ![q].pc = "saving"] /\ req[q].kind = "self"
            /\ writer = NoOne /\ writer' = q
            /\ TakesQuota(req[q].policy) => quota = {}
  PROVE  IInv'
<1>1. CASE UNCHANGED writer /\ req' = [req EXCEPT ![q].pc = "flush"] /\ req[q].kind = "batch"
  <2>1. Progress(q, {"flush", "refused", "saving", "done"}) /\ req'[q].pc = "flush"
    BY <1>1 DEF Progress, IInv, Shape
  <2>2. SavingSafe'
    BY <1>1, <2>1 DEF Progress, SavingSafe, IInv, db
  <2> QED BY <1>1, <2>1, <2>2, ProgressKeeps
<1>2. CASE UNCHANGED writer /\ \E p : /\ req' = [req EXCEPT ![q].pc = "flush", ![q].policy = p]
                                      /\ req[q].kind = "poc" => ~TakesQuota(p)
  <2>1. PICK p : /\ req' = [req EXCEPT ![q].pc = "flush", ![q].policy = p]
                 /\ req[q].kind = "poc" => ~TakesQuota(p)
    BY <1>2
  <2>2. /\ Progress(q, {"flush", "refused", "saving", "done"})
        /\ req'[q].pc = "flush" /\ req'[q].policy = p
    BY <2>1 DEF Progress, IInv, Shape
  <2>3. UNCHANGED writer
    BY <1>2
  <2>4. SavingSafe'
    BY <2>2, <2>3 DEF Progress, SavingSafe, IInv, db
  <2> QED BY <2>1, <2>2, <2>4, ProgressKeeps
<1>3. CASE /\ req' = [req EXCEPT ![q].pc = "saving"] /\ req[q].kind = "self"
           /\ writer = NoOne /\ writer' = q
           /\ TakesQuota(req[q].policy) => quota = {}
  <2>1. /\ Progress(q, {"flush", "refused", "saving", "done"})
        /\ req'[q].pc = "saving" /\ req'[q].policy = req[q].policy
    BY <1>3 DEF Progress, IInv, Shape
  <2>2. \A s \in Requests \ {q} : req'[s].pc # "saving"
    BY <1>3, <2>1, NamesAssumption DEF Progress, SavingSafe, IInv
  <2>3. SavingSafe'
    BY <1>3, <2>1, <2>2 DEF Progress, SavingSafe, db
  <2> QED BY <2>1, <2>3, ProgressKeeps
<1> QED BY <1>1, <1>2, <1>3

\* A form is filled in: it had stored nothing, whatever kind it becomes.
LEMMA FormKeeps ==
  ASSUME IInv, NEW q \in Requests, Form(q)
  PROVE  IInv'
<1>1. PICK kind \in Kinds, key \in Keys \cup {NoKey}, day \in Days, raw \in Scores,
           n \in 1..BatchMax, again \in BOOLEAN :
        /\ n = 1 \/ kind = "batch"
        /\ key # NoKey \/ kind # "batch"
        /\ req' = [req EXCEPT ![q] = [@ EXCEPT !.pc = "sent", !.kind = kind, !.key = key,
                       !.day = day, !.raw = raw, !.n = n, !.again = again]]
  BY DEF Form
<1>2. req[q].pc = "idle" /\ UNCHANGED <<db, writer, wd>>
  BY DEF Form
<1>3. /\ DOMAIN req' = Requests
      /\ \A s \in Requests : DOMAIN req'[s] = DOMAIN req[s] /\ (s # q => req'[s] = req[s])
      /\ req'[q].pc = "sent" /\ req'[q].kind = kind /\ req'[q].n = n
  BY <1>1 DEF IInv, Shape
<1>4. \A r \in Records : r[1] = q => record[r].status = "none"
  BY <1>2 DEF IInv, StoredOnce
<1>5. Shape'
  BY <1>2, <1>3 DEF IInv, Shape, db
<1>6. Active' = Active
  BY <1>2, <1>3, <1>4 DEF Active, Ruled, Rows, Records, db
<1>7. QuotaOwned'
  BY <1>2, <1>6 DEF QuotaOwned, IInv, db
<1>8. StoredOnce'
  BY <1>1, <1>2, <1>3, <1>4 DEF StoredOnce, IInv, db, Records
<1>9. PocFree'
  BY <1>2, <1>3, <1>4 DEF PocFree, IInv, db, Records
<1>10. SavingSafe' /\ Receipted'
  BY <1>2, <1>3 DEF SavingSafe, Receipted, IInv, db
<1> QED BY <1>5, <1>7, <1>8, <1>9, <1>10 DEF IInv

-----------------------------------------------------------------------------
(* A submission is stored. *)

\* The rows, the quota row and the receipt appear together, none of them before.
LEMMA InsertKeeps ==
  ASSUME IInv, NEW q \in Requests, req[q].pc \in {"flush", "saving"}, ~Known(q), UNCHANGED wd,
         NEW p, NEW status \in {"pending", "confirmed"}, NEW credited, Insert(q, p, status, credited),
         TakesQuota(p) => quota = {} /\ req[q].n = 1 /\ req[q].kind # "poc",
         writer \in {NoOne, q}, writer' = NoOne
  PROVE  IInv'
<1> DEFINE new == {q} \X (1..req[q].n)
<1>1. /\ DOMAIN req' = Requests
      /\ \A s \in Requests : DOMAIN req'[s] = DOMAIN req[s] /\ (s # q => req'[s] = req[s])
      /\ req'[q].kind = req[q].kind /\ req'[q].key = req[q].key /\ req'[q].n = req[q].n
      /\ req'[q].pc = "done" /\ req'[q].answer = q
  BY DEF Insert, IInv, Shape
<1>2. /\ DOMAIN record' = Records
      /\ \A r \in Records : r \notin new => record'[r] = record[r]
      /\ \A r \in Records : r \in new =>
            /\ record'[r].status = status /\ record'[r].policy = p
            /\ DOMAIN record'[r] = {"status", "day", "raw", "credited", "policy", "from"}
  BY DEF Insert
<1>3. \A r \in Records : r[1] = q => record[r].status = "none"
  BY DEF IInv, StoredOnce
<1>4. \A r \in Records : r \in new => r[1] = q
  BY DEF Records
<1>5. \A s \in Requests : req[s].pc = "saving" => s = q
  BY NamesAssumption DEF IInv, SavingSafe
<1>6. Shape'
  BY <1>1, <1>2 DEF IInv, Shape
<1>7. quota' = quota \cup IF TakesQuota(p) THEN new ELSE {}
  BY DEF Insert
<1>8. QuotaOwned'
  <2>1. \A r \in Records \ new : r \in Active' <=> r \in Active
    BY <1>1, <1>2 DEF Active, Ruled, Rows, Records
  <2>2. \A r \in Records : r \in new => (r \in Active' <=> req[q].kind # "poc")
    BY <1>1, <1>2, <1>4 DEF Active, Ruled, Rows
  <2>3. Active' \subseteq Records /\ Active \subseteq Records
    BY DEF Active, Ruled, Rows
  <2>4. \A r \in Active : r \notin new
    BY <1>3, <1>4 DEF Active, Ruled, Rows
  <2>5. CASE TakesQuota(p)
    <3>1. quota = {} /\ new = {<<q, 1>>} /\ req[q].kind # "poc"
      BY <2>5
    <3>2. new \subseteq Records
      BY <3>1, EntriesAssumption DEF Records
    <3>3. \A r \in Active : ~TakesQuota(record[r].policy)
      BY <3>1 DEF IInv, QuotaOwned
    <3> HIDE DEF new
    <3>4. \A r \in Active' : TakesQuota(record'[r].policy) <=> r \in new
      BY <1>2, <2>1, <2>3, <2>5, <3>3
    <3>5. quota' = {r \in Active' : TakesQuota(record'[r].policy)}
      BY <1>7, <2>2, <2>5, <3>1, <3>2, <3>4
    <3> QED BY <1>7, <2>5, <3>1, <3>5 DEF QuotaOwned
  <2>6. CASE ~TakesQuota(p)
    <3> HIDE DEF new
    <3>1. \A r \in Records : r \in Active' /\ TakesQuota(record'[r].policy)
                               <=> r \in Active /\ TakesQuota(record[r].policy)
      BY <1>2, <2>1, <2>4, <2>6
    <3>2. quota' = quota
      BY <1>7, <2>6
    <3> QED BY <2>3, <3>1, <3>2 DEF QuotaOwned, IInv
  <2> QED BY <2>5, <2>6
<1>9. StoredOnce'
  <2>1. \A r \in Records : req'[r[1]].pc # "done" => r[1] # q /\ req[r[1]].pc # "done"
    BY <1>1 DEF Records
  <2>2. \A r \in Records : record[r].status # "none" => record'[r] = record[r]
    BY <1>2, <1>3, <1>4
  <2> HIDE DEF new
  <2>3. \A r \in Records : req'[r[1]].pc # "done" => record'[r].status = "none"
    BY <1>2, <1>4, <2>1 DEF IInv, StoredOnce
  <2>4. \A s \in Requests : req'[s].n \in 1..BatchMax /\ (req'[s].n = 1 \/ req'[s].kind = "batch")
    BY <1>1 DEF IInv, StoredOnce
  <2> QED BY <2>2, <2>3, <2>4 DEF IInv, StoredOnce
<1>10. PocFree'
  <2> HIDE DEF new
  <2>1. \A r \in Records : req'[r[1]].kind = req[r[1]].kind
    BY <1>1 DEF Records
  <2>2. \A r \in Records : record'[r].status # "none" /\ req'[r[1]].kind = "poc"
                             => ~TakesQuota(record'[r].policy)
    BY <1>2, <1>4, <2>1 DEF IInv, PocFree
  <2> QED BY <1>1, <2>2 DEF IInv, PocFree
<1>11. SavingSafe'
  BY <1>1, <1>5 DEF SavingSafe
<1>12. Receipted'
  <2> DEFINE mine == [kind |-> req[q].kind, key |-> req[q].key, payload |-> Payload(q), owner |-> q]
  <2>1. receipts' = receipts \cup IF req[q].key = NoKey THEN {} ELSE {mine}
    BY DEF Insert
  <2>2. \A t \in receipts : ~(t.kind = req[q].kind /\ t.key = req[q].key)
    BY DEF Known, ReceiptOf
  <2>3. mine.kind = req[q].kind /\ mine.key = req[q].key /\ mine.owner = q
    OBVIOUS
  <2> HIDE DEF mine
  <2>4. \A t, u \in receipts' : t.kind = u.kind /\ t.key = u.key => t = u
    BY <2>1, <2>2, <2>3 DEF IInv, Receipted
  <2>5. \A s \in Requests : req'[s].pc = "done" /\ req'[s].key # NoKey =>
          \E t \in receipts' : t.kind = req'[s].kind /\ t.key = req'[s].key /\ t.owner = req'[s].answer
    BY <1>1, <2>1, <2>3 DEF IInv, Receipted
  <2> QED BY <2>4, <2>5 DEF Receipted
<1> QED BY <1>6, <1>8, <1>9, <1>10, <1>11, <1>12 DEF IInv

-----------------------------------------------------------------------------
(* A stored record changes its status. *)

LEMMA RowKeeps ==
  ASSUME IInv, NEW r \in Records, record[r].status # "none", writer = NoOne,
         UNCHANGED <<receipts, writer, req>>,
         DOMAIN record' = Records,
         \A s \in Records : /\ DOMAIN record'[s] = DOMAIN record[s]
                            /\ record'[s].policy = record[s].policy
                            /\ s # r => record'[s] = record[s],
         NEW status, record'[r].status = status, status # "none",
         IF status \in {"pending", "confirmed"} /\ TakesQuota(record[r].policy)
         THEN quota \subseteq {r} /\ quota' = {r}
         ELSE quota' = quota \ {r},
         DOMAIN wd' = Withdrawals,
         \A w \in Withdrawals : /\ DOMAIN wd'[w] = DOMAIN wd[w]
                                /\ wd'[w].pc = "read" => wd'[w] = wd[w]
  PROVE  IInv'
<1>1. Shape'
  BY DEF IInv, Shape
<1>2. \A s \in Records : s # r => (s \in Active' <=> s \in Active)
  BY DEF Active, Ruled, Rows
<1>3. r \in Active' <=> status \in {"pending", "confirmed"} /\ req[r[1]].kind # "poc"
  BY DEF Active, Ruled, Rows
<1>4. TakesQuota(record[r].policy) => req[r[1]].kind # "poc"
  BY DEF IInv, PocFree
<1>5. Active' \subseteq Records /\ Active \subseteq Records
  BY DEF Active, Ruled, Rows
<1>6. \A s \in Records : s \in quota' <=> s \in Active' /\ TakesQuota(record'[s].policy)
  BY <1>2, <1>3, <1>4, <1>5 DEF IInv, QuotaOwned
<1>7. quota' \subseteq Records /\ \A s, t \in quota' : s = t
  BY <1>5 DEF IInv, QuotaOwned
<1>8. QuotaOwned'
  BY <1>5, <1>6, <1>7 DEF QuotaOwned
<1>9. StoredOnce'
  BY DEF IInv, StoredOnce
<1>10. PocFree'
  BY DEF IInv, PocFree
<1>11. SavingSafe' /\ Receipted'
  BY NamesAssumption DEF IInv, SavingSafe, Receipted
<1> QED BY <1>1, <1>8, <1>9, <1>10, <1>11 DEF IInv

-----------------------------------------------------------------------------
(* The steps. *)

LEMMA StartSingleKeeps ==
  ASSUME IInv, NEW q \in Requests, StartSingle(q)
  PROVE  IInv'
<1> DEFINE p == IF req[q].kind = "poc" THEN Unruled ELSE policy[req[q].day]
<1>1. req[q].pc = "sent" /\ UNCHANGED <<db, writer, wd>>
  BY DEF StartSingle
<1>2. \/ (Known(q) /\ Reply(q)) \/ Refuse(q)
      \/ req' = [req EXCEPT ![q].pc = "flush", ![q].policy = p]
  BY DEF StartSingle
<1>3. req[q].kind = "poc" => ~TakesQuota(p)
  BY UnruledFree
<1> HIDE DEF p
<1>4. CASE (Known(q) /\ Reply(q)) \/ Refuse(q)
  BY <1>1, <1>4, ReplyKeeps
<1>5. CASE req' = [req EXCEPT ![q].pc = "flush", ![q].policy = p]
  BY <1>1, <1>3, <1>5, StartKeeps
<1> QED BY <1>2, <1>4, <1>5

LEMMA StartBatchKeeps ==
  ASSUME IInv, NEW q \in Requests, StartBatch(q)
  PROVE  IInv'
BY StartKeeps DEF StartBatch

LEMMA FlushManagerKeeps ==
  ASSUME IInv, NEW q \in Requests, FlushManager(q)
  PROVE  IInv'
<1> DEFINE p == req[q].policy
           credited == Credited(p, req[q].raw, Ruled({"confirmed"}))
<1>1. /\ req[q].pc = "flush" /\ req[q].kind = "manager" /\ writer = NoOne
      /\ UNCHANGED <<writer, wd>>
  BY DEF FlushManager, Flushing
<1>2. \/ /\ UNCHANGED db
         /\ (Known(q) /\ Reply(q)) \/ Refuse(q)
      \/ /\ ~Known(q) /\ ~QuotaTaken(p)
         /\ Insert(q, p, "confirmed", credited)
  BY DEF FlushManager, Barred, Overtaken
<1>3. req[q].n = 1
  BY <1>1 DEF IInv, StoredOnce
<1>4. CASE UNCHANGED db /\ ((Known(q) /\ Reply(q)) \/ Refuse(q))
  BY <1>1, <1>4, ReplyKeeps
<1>5. CASE ~Known(q) /\ ~QuotaTaken(p) /\ Insert(q, p, "confirmed", credited)
  <2>1. TakesQuota(p) => quota = {}
    BY <1>5 DEF QuotaTaken
  <2> HIDE DEF p, credited
  <2> QED BY <1>1, <1>3, <1>5, <2>1, InsertKeeps
<1> QED BY <1>2, <1>4, <1>5

LEMMA FlushPocKeeps ==
  ASSUME IInv, NEW q \in Requests, FlushPoc(q)
  PROVE  IInv'
<1>1. /\ req[q].pc = "flush" /\ req[q].kind = "poc" /\ writer = NoOne
      /\ UNCHANGED <<writer, wd>>
  BY DEF FlushPoc, Flushing
<1>2. \/ /\ UNCHANGED db
         /\ (Known(q) /\ Reply(q)) \/ Refuse(q)
      \/ ~Known(q) /\ Insert(q, req[q].policy, "confirmed", req[q].raw)
  BY DEF FlushPoc
<1>3. ~TakesQuota(req[q].policy)
  BY <1>1 DEF IInv, PocFree
<1>4. CASE UNCHANGED db /\ ((Known(q) /\ Reply(q)) \/ Refuse(q))
  BY <1>1, <1>4, ReplyKeeps
<1>5. CASE ~Known(q) /\ Insert(q, req[q].policy, "confirmed", req[q].raw)
  BY <1>1, <1>3, <1>5, InsertKeeps
<1> QED BY <1>2, <1>4, <1>5

LEMMA FlushSelfKeeps ==
  ASSUME IInv, NEW q \in Requests, FlushSelf(q)
  PROVE  IInv'
<1>1. /\ req[q].pc = "flush" /\ req[q].kind = "self" /\ writer = NoOne
      /\ UNCHANGED <<db, wd>>
  BY DEF FlushSelf, Flushing
<1>2. \/ /\ UNCHANGED writer
         /\ (Known(q) /\ Reply(q)) \/ Refuse(q)
      \/ /\ ~QuotaTaken(req[q].policy)
         /\ req' = [req EXCEPT ![q].pc = "saving"] /\ writer' = q
  BY DEF FlushSelf, Barred, Overtaken
<1>3. CASE UNCHANGED writer /\ ((Known(q) /\ Reply(q)) \/ Refuse(q))
  BY <1>1, <1>3, ReplyKeeps
<1>4. CASE /\ ~QuotaTaken(req[q].policy)
           /\ req' = [req EXCEPT ![q].pc = "saving"] /\ writer' = q
  <2>1. TakesQuota(req[q].policy) => quota = {}
    BY <1>4 DEF QuotaTaken
  <2> QED BY <1>1, <1>4, <2>1, StartKeeps
<1> QED BY <1>2, <1>3, <1>4

\* Nobody else could take the quota row while the image was awaited.
LEMMA SaveSelfKeeps ==
  ASSUME IInv, NEW q \in Requests, SaveSelf(q) \/ SaveSelfFails(q)
  PROVE  IInv'
<1>1. /\ req[q].pc = "saving" /\ writer' = NoOne /\ UNCHANGED wd
  BY DEF SaveSelf, SaveSelfFails
<1>2. \/ /\ UNCHANGED db
         /\ (Known(q) /\ Reply(q)) \/ Refuse(q)
      \/ ~Known(q) /\ Insert(q, req[q].policy, "pending", 0)
  BY DEF SaveSelf, SaveSelfFails
<1>3. /\ writer = q /\ req[q].kind = "self" /\ req[q].n = 1
      /\ TakesQuota(req[q].policy) => quota = {}
  BY <1>1 DEF IInv, SavingSafe, StoredOnce
<1>4. CASE UNCHANGED db /\ ((Known(q) /\ Reply(q)) \/ Refuse(q))
  BY <1>1, <1>3, <1>4, ReplyKeeps
<1>5. CASE ~Known(q) /\ Insert(q, req[q].policy, "pending", 0)
  BY <1>1, <1>3, <1>5, InsertKeeps
<1> QED BY <1>2, <1>4, <1>5

LEMMA WriteBatchKeeps ==
  ASSUME IInv, NEW q \in Requests, WriteBatch(q)
  PROVE  IInv'
<1> DEFINE p == policy[req[q].day]
<1>1. /\ req[q].pc = "flush" /\ req[q].kind = "batch" /\ writer = NoOne
      /\ UNCHANGED <<writer, wd>>
  BY DEF WriteBatch, Flushing
<1>2. \/ /\ UNCHANGED db
         /\ (Known(q) /\ Reply(q)) \/ Refuse(q)
      \/ /\ ~Known(q) /\ ~QuotaTaken(p) /\ ~(TakesQuota(p) /\ req[q].n > 1)
         /\ Insert(q, p, "pending", 0)
  BY DEF WriteBatch, Barred
<1>3. CASE UNCHANGED db /\ ((Known(q) /\ Reply(q)) \/ Refuse(q))
  BY <1>1, <1>3, ReplyKeeps
<1>4. CASE /\ ~Known(q) /\ ~QuotaTaken(p) /\ ~(TakesQuota(p) /\ req[q].n > 1)
           /\ Insert(q, p, "pending", 0)
  <2>1. TakesQuota(p) => quota = {} /\ req[q].n = 1
    BY <1>4 DEF QuotaTaken, IInv, StoredOnce
  <2> HIDE DEF p
  <2> QED BY <1>1, <1>4, <2>1, InsertKeeps
<1> QED BY <1>2, <1>3, <1>4

LEMMA BusyTimeoutKeeps ==
  ASSUME IInv, NEW q \in Requests, BusyTimeout(q)
  PROVE  IInv'
BY ReplyKeeps DEF BusyTimeout, TimesOut

LEMMA ConfirmKeeps ==
  ASSUME IInv, NEW r \in Records, Confirm(r)
  PROVE  IInv'
<1> DEFINE credited == Credited(record[r].policy, record[r].raw, Ruled({"confirmed"}))
<1>1. /\ writer = NoOne /\ record[r].status = "pending"
      /\ TakesQuota(record[r].policy) => quota \subseteq {r}
      /\ record' = [record EXCEPT ![r].status = "confirmed", ![r].credited = credited]
      /\ quota' = quota \cup IF TakesQuota(record[r].policy) THEN {r} ELSE {}
      /\ UNCHANGED <<receipts, writer, req, wd>>
  BY DEF Confirm
<1> HIDE DEF credited
<1>2. /\ DOMAIN record' = Records /\ record'[r].status = "confirmed"
      /\ \A s \in Records : /\ DOMAIN record'[s] = DOMAIN record[s]
                            /\ record'[s].policy = record[s].policy
                            /\ s # r => record'[s] = record[s]
  BY <1>1 DEF IInv, Shape
<1>3. IF TakesQuota(record[r].policy) THEN quota \subseteq {r} /\ quota' = {r} ELSE quota' = quota \ {r}
  BY <1>1 DEF IInv, QuotaOwned
<1> QED BY <1>1, <1>2, <1>3, RowKeeps DEF IInv, Shape

LEMMA RejectKeeps ==
  ASSUME IInv, NEW r \in Records, Reject(r)
  PROVE  IInv'
<1>1. /\ writer = NoOne /\ record[r].status = "pending"
      /\ record' = [record EXCEPT ![r].status = "rejected", ![r].credited = CreditAfterReview(r)]
      /\ quota' = quota \ {r}
      /\ UNCHANGED <<receipts, writer, req, wd>>
  BY DEF Reject
<1>2. /\ DOMAIN record' = Records /\ record'[r].status = "rejected"
      /\ \A s \in Records : /\ DOMAIN record'[s] = DOMAIN record[s]
                            /\ record'[s].policy = record[s].policy
                            /\ s # r => record'[s] = record[s]
  BY <1>1 DEF IInv, Shape
<1> QED BY <1>1, <1>2, RowKeeps DEF IInv, Shape

LEMMA RestoreReviewKeeps ==
  ASSUME IInv, NEW r \in Records, RestoreReview(r)
  PROVE  IInv'
<1>1. /\ writer = NoOne /\ record[r].status \in {"confirmed", "rejected"}
      /\ TakesQuota(record[r].policy) => quota \subseteq {r}
      /\ record' = [record EXCEPT ![r].status = "pending", ![r].credited = CreditAfterReview(r)]
      /\ quota' = quota \cup IF TakesQuota(record[r].policy) THEN {r} ELSE {}
      /\ UNCHANGED <<receipts, writer, req, wd>>
  BY DEF RestoreReview, Vacant
<1>2. /\ DOMAIN record' = Records /\ record'[r].status = "pending"
      /\ \A s \in Records : /\ DOMAIN record'[s] = DOMAIN record[s]
                            /\ record'[s].policy = record[s].policy
                            /\ s # r => record'[s] = record[s]
  BY <1>1 DEF IInv, Shape
<1>3. IF TakesQuota(record[r].policy) THEN quota \subseteq {r} /\ quota' = {r} ELSE quota' = quota \ {r}
  BY <1>1 DEF IInv, QuotaOwned
<1> QED BY <1>1, <1>2, <1>3, RowKeeps DEF IInv, Shape

LEMMA ReadWithdrawnKeeps ==
  ASSUME IInv, NEW w \in Withdrawals, NEW r \in Records, ReadWithdrawn(w, r)
  PROVE  IInv'
<1>1. /\ record[r].status # "none"
      /\ wd' = [wd EXCEPT ![w] = [pc |-> "read", rec |-> r, from |-> record[r].status]]
      /\ UNCHANGED <<db, writer, req>>
  BY DEF ReadWithdrawn
<1>2. /\ DOMAIN wd' = Withdrawals /\ \A v \in Withdrawals : DOMAIN wd'[v] = {"pc", "rec", "from"}
      /\ wd'[w].rec = r /\ \A v \in Withdrawals : v # w => wd'[v] = wd[v]
  BY <1>1 DEF IInv, Shape
<1>3. Shape' /\ StoredOnce'
  BY <1>1, <1>2 DEF IInv, Shape, StoredOnce, db
<1>4. QuotaOwned' /\ PocFree' /\ SavingSafe' /\ Receipted'
  BY <1>1 DEF IInv, QuotaOwned, PocFree, SavingSafe, Receipted, Active, Ruled, Rows, db
<1> QED BY <1>3, <1>4 DEF IInv

\* The row a withdrawal writes may have been reviewed since it was read: its
\* quota row goes with it all the same.
LEMMA WithdrawKeeps ==
  ASSUME IInv, NEW w \in Withdrawals, Withdraw(w)
  PROVE  IInv'
<1> DEFINE r == wd[w].rec
<1>1. /\ wd[w].pc = "read" /\ writer = NoOne
      /\ wd' = [wd EXCEPT ![w].pc = "done"]
      /\ UNCHANGED <<receipts, writer, req>>
      /\ \/ UNCHANGED <<record, quota>>
         \/ /\ record' = [record EXCEPT ![r].status = "void", ![r].from = wd[w].from]
            /\ quota' = quota \ {r}
  BY DEF Withdraw, Freed
<1>2. r \in Records /\ record[r].status # "none"
  BY <1>1 DEF IInv, StoredOnce
<1>3. /\ DOMAIN wd' = Withdrawals
      /\ \A v \in Withdrawals : /\ DOMAIN wd'[v] = DOMAIN wd[v]
                                /\ wd'[v].pc = "read" => wd'[v] = wd[v]
  BY <1>1 DEF IInv, Shape
<1>4. CASE UNCHANGED <<record, quota>>
  <2>1. Shape' /\ StoredOnce'
    BY <1>1, <1>3, <1>4 DEF IInv, Shape, StoredOnce
  <2>2. QuotaOwned' /\ PocFree' /\ SavingSafe' /\ Receipted'
    BY <1>1, <1>4 DEF IInv, QuotaOwned, PocFree, SavingSafe, Receipted, Active, Ruled, Rows
  <2> QED BY <2>1, <2>2 DEF IInv
<1>5. CASE /\ record' = [record EXCEPT ![r].status = "void", ![r].from = wd[w].from]
           /\ quota' = quota \ {r}
  <2> HIDE DEF r
  <2>1. /\ DOMAIN record' = Records /\ record'[r].status = "void"
        /\ \A s \in Records : /\ DOMAIN record'[s] = DOMAIN record[s]
                              /\ record'[s].policy = record[s].policy
                              /\ s # r => record'[s] = record[s]
    BY <1>2, <1>5 DEF IInv, Shape
  <2> QED BY <1>1, <1>2, <1>3, <1>5, <2>1, RowKeeps
<1> QED BY <1>1, <1>4, <1>5

LEMMA UnchangedKeeps ==
  ASSUME IInv, UNCHANGED <<db, writer, req, wd>>
  PROVE  IInv'
BY DEF IInv, Shape, StoredOnce, QuotaOwned, PocFree, SavingSafe, Receipted, Active, Ruled, Rows, db

LEMMA StepKeeps == IInv /\ [Next]_vars => IInv'
<1> SUFFICES ASSUME IInv, [Next]_vars PROVE IInv'
  OBVIOUS
<1>1. ASSUME NEW q \in Requests, Submission(q) PROVE IInv'
  BY <1>1, FormKeeps, StartSingleKeeps, StartBatchKeeps, FlushManagerKeeps, FlushPocKeeps,
     FlushSelfKeeps, SaveSelfKeeps, WriteBatchKeeps, BusyTimeoutKeeps DEF Submission
<1>2. ASSUME NEW r \in Records, Review(r) PROVE IInv'
  BY <1>2, ConfirmKeeps, RejectKeeps, RestoreReviewKeeps DEF Review
<1>3. ASSUME \/ CloseMonth \/ ReopenMonth
             \/ \E p \in Policies, from, until \in Days : SaveConfig(p, from, until)
             \/ UNCHANGED vars
      PROVE  IInv'
  <2>1. UNCHANGED <<db, writer, req, wd>>
    BY <1>3 DEF CloseMonth, ReopenMonth, SaveConfig, vars, db
  <2> QED BY <2>1, UnchangedKeeps
<1> QED BY <1>1, <1>2, <1>3, ReadWithdrawnKeeps, WithdrawKeeps DEF Next

\* The month's quota row belongs to the one active record whose rule takes it, and
\* submissions with one key are answered with one record.
THEOREM OnceIsOnce == Spec => []TakenOnce
BY InitHolds, StepKeeps, Implies, PTL DEF Spec

-----------------------------------------------------------------------------
(* Sums of credits.  The credit of a set of rows is as large as a heap with  *)
(* one element for each point of each row, so that what is known of the      *)
(* sizes of finite sets is known of credits.                                 *)

LEMMA LeastOf ==
    ASSUME NEW T, T \subseteq Nat, T # {}
    PROVE  \E x \in T : \A y \in T : x <= y
<1>1. PICK x \in T : \A y \in T : ~ (<<y, x>> \in OpToRel(<, Nat))
  BY NatLessThanWellFounded, WFMin, Zenon
<1>2. \A y \in T : ~(y < x)
  BY <1>1 DEF OpToRel
<1>3. x \in Nat /\ \A y \in T : y \in Nat
  OBVIOUS
<1> QED
  BY <1>2, <1>3

\* Among the subsets of a finite set that have some property one is the smallest.
LEMMA Smallest ==
    ASSUME NEW S, IsFiniteSet(S), NEW B, B \subseteq SUBSET S, B # {}
    PROVE  \E s \in B : \A x \in s : s \ {x} \notin B
<1> DEFINE T == {Cardinality(s) : s \in B}
<1>1. \A s \in B : IsFiniteSet(s) /\ Cardinality(s) \in Nat
  BY FS_Subset, FS_CardinalityType
<1>2. T \subseteq Nat /\ T # {}
  BY <1>1
<1>3. PICK n \in T : \A m \in T : n <= m
  <2> HIDE DEF T
  <2> QED BY <1>2, LeastOf
<1>4. PICK s \in B : n = Cardinality(s)
  BY <1>3
<1>5. ASSUME NEW x \in s, s \ {x} \in B PROVE FALSE
  <2>1. Cardinality(s \ {x}) = Cardinality(s) - 1
    BY <1>1, <1>5, FS_RemoveElement
  <2>2. n <= Cardinality(s \ {x})
    BY <1>3, <1>5
  <2> QED BY <1>1, <1>4, <2>1, <2>2
<1> QED BY <1>4, <1>5

\* The points of a row, the points of the rows of s, and columns that hold numbers.
Pile(rows, x) == {x} \X (1 .. rows[x].credited)
Heap(rows, s) == UNION {Pile(rows, x) : x \in s}
CreditNat(rows, S) == \A x \in S : rows[x].credited \in Nat

LEMMA PileSize ==
    ASSUME NEW x, NEW n \in Nat
    PROVE  IsFiniteSet({x} \X (1 .. n)) /\ Cardinality({x} \X (1 .. n)) = n
<1>1. IsFiniteSet({x}) /\ Cardinality({x}) = 1
  BY FS_Singleton
<1>2. 1 \in Int /\ n \in Int
  OBVIOUS
<1>3. IsFiniteSet(1 .. n) /\ Cardinality(1 .. n) = IF 1 > n THEN 0 ELSE n - 1 + 1
  BY <1>2, FS_Interval, Zenon
<1>4. IsFiniteSet(1 .. n) /\ Cardinality(1 .. n) = n
  BY <1>3
<1>5. IsFiniteSet({x} \X (1 .. n)) /\ Cardinality({x} \X (1 .. n)) = 1 * n
  BY <1>1, <1>4, FS_Product
<1> QED BY <1>5

LEMMA PileOf ==
    ASSUME NEW rows, NEW x, rows[x].credited \in Nat
    PROVE  IsFiniteSet(Pile(rows, x)) /\ Cardinality(Pile(rows, x)) = rows[x].credited
BY PileSize DEF Pile

\* A heap without one of its rows.
LEMMA HeapSplits ==
    ASSUME NEW rows, NEW s, NEW x \in s
    PROVE  /\ Heap(rows, s) = Heap(rows, s \ {x}) \cup Pile(rows, x)
           /\ Heap(rows, s \ {x}) \cap Pile(rows, x) = {}
  BY DEF Heap, Pile

LEMMA HeapFinite ==
    ASSUME NEW rows, NEW S, IsFiniteSet(S), CreditNat(rows, S)
    PROVE  \A s \in SUBSET S : IsFiniteSet(Heap(rows, s))
<1> DEFINE B == {s \in SUBSET S : ~IsFiniteSet(Heap(rows, s))}
<1>1. SUFFICES ASSUME B # {} PROVE FALSE
  OBVIOUS
<1>2. PICK s \in B : \A x \in s : s \ {x} \notin B
  <2>1. B \subseteq SUBSET S
    OBVIOUS
  <2> HIDE DEF B
  <2> QED BY <1>1, <2>1, Smallest
<1>3. s # {}
  <2>1. Heap(rows, {}) = {}
    BY DEF Heap
  <2> QED BY <2>1, FS_EmptySet
<1>4. PICK x \in s : TRUE
  BY <1>3
<1>5. IsFiniteSet(Heap(rows, s \ {x}))
  BY <1>2
<1>6. IsFiniteSet(Pile(rows, x))
  BY PileOf DEF CreditNat
<1>7. IsFiniteSet(Heap(rows, s \ {x}) \cup Pile(rows, x))
  BY <1>5, <1>6, FS_Union
<1> QED BY <1>7, HeapSplits

LEMMA HeapGrows ==
    ASSUME NEW rows, NEW S, IsFiniteSet(S), CreditNat(rows, S), NEW s \in SUBSET S, NEW x \in s
    PROVE  Cardinality(Heap(rows, s)) = rows[x].credited + Cardinality(Heap(rows, s \ {x}))
<1>1. IsFiniteSet(Heap(rows, s \ {x})) /\ IsFiniteSet(Pile(rows, x))
      /\ Cardinality(Pile(rows, x)) = rows[x].credited /\ rows[x].credited \in Nat
  BY HeapFinite, PileOf DEF CreditNat
<1>2. Cardinality(Heap(rows, s \ {x}) \cup Pile(rows, x)) =
      Cardinality(Heap(rows, s \ {x})) + Cardinality(Pile(rows, x))
      - Cardinality(Heap(rows, s \ {x}) \cap Pile(rows, x))
  BY <1>1, FS_Union
<1>3. Cardinality(Heap(rows, s \ {x}) \cap Pile(rows, x)) = 0
  BY HeapSplits, FS_EmptySet
<1>4. Cardinality(Heap(rows, s \ {x})) \in Nat
  BY <1>1, FS_CardinalityType
<1>5. Heap(rows, s) = Heap(rows, s \ {x}) \cup Pile(rows, x)
  BY HeapSplits
<1> DEFINE a == Cardinality(Heap(rows, s \ {x}))
           b == Cardinality(Pile(rows, x))
           c == Cardinality(Heap(rows, s \ {x}) \cap Pile(rows, x))
<1>6. Cardinality(Heap(rows, s)) = a + b - c /\ c = 0 /\ b = rows[x].credited /\ b \in Nat /\ a \in Nat
  BY <1>1, <1>2, <1>3, <1>4, <1>5
<1> HIDE DEF a, b, c
<1>7. a + b - c = b + a
  BY <1>6
<1> QED BY <1>6, <1>7 DEF a

\* The equation of the fold, and its only solution.
Picked(s) == CHOOSE x \in s : TRUE
Adds(h, rows, S) ==
    h = [s \in SUBSET S |-> IF s = {} THEN 0 ELSE rows[Picked(s)].credited + h[s \ {Picked(s)}]]
Sizes(rows, S) == [s \in SUBSET S |-> Cardinality(Heap(rows, s))]

\* The sizes of the heaps solve it ...
LEMMA SizesAdd ==
    ASSUME NEW rows, NEW S, IsFiniteSet(S), CreditNat(rows, S)
    PROVE  Adds(Sizes(rows, S), rows, S)
<1> DEFINE h == Sizes(rows, S)
<1>1. ASSUME NEW s \in SUBSET S
      PROVE  h[s] = IF s = {} THEN 0 ELSE rows[Picked(s)].credited + h[s \ {Picked(s)}]
  <2>1. CASE s = {}
    BY <2>1, FS_EmptySet DEF Sizes, Heap
  <2>2. CASE s # {}
    <3>1. Picked(s) \in s
      BY <2>2 DEF Picked
    <3>2. s \ {Picked(s)} \in SUBSET S
      OBVIOUS
    <3> QED BY <2>2, <3>1, <3>2, HeapGrows DEF Sizes
  <2> QED BY <2>1, <2>2
<1>2. h = [s \in SUBSET S |-> h[s]]
  BY DEF Sizes
<1> HIDE DEF h
<1>3. h = [s \in SUBSET S |-> IF s = {} THEN 0 ELSE rows[Picked(s)].credited + h[s \ {Picked(s)}]]
  BY <1>1, <1>2
<1> QED BY <1>3 DEF Adds, h

\* ... and nothing else does.
LEMMA OnlySizes ==
    ASSUME NEW rows, NEW S, IsFiniteSet(S), CreditNat(rows, S), NEW h, Adds(h, rows, S)
    PROVE  \A s \in SUBSET S : h[s] = Cardinality(Heap(rows, s))
<1> DEFINE B == {s \in SUBSET S : h[s] # Cardinality(Heap(rows, s))}
<1>1. SUFFICES ASSUME B # {} PROVE FALSE
  OBVIOUS
<1>2. PICK s \in B : \A x \in s : s \ {x} \notin B
  <2>1. B \subseteq SUBSET S
    OBVIOUS
  <2> HIDE DEF B
  <2> QED BY <1>1, <2>1, Smallest
<1>3. h[s] = IF s = {} THEN 0 ELSE rows[Picked(s)].credited + h[s \ {Picked(s)}]
  <2>1. s \in SUBSET S
    OBVIOUS
  <2> HIDE DEF B
  <2> QED BY <2>1 DEF Adds
<1>4. CASE s = {}
  BY <1>3, <1>4, FS_EmptySet DEF Heap
<1>5. CASE s # {}
  <2>1. Picked(s) \in s
    BY <1>5 DEF Picked
  <2>2. h[s \ {Picked(s)}] = Cardinality(Heap(rows, s \ {Picked(s)}))
    BY <1>2, <2>1
  <2>3. Cardinality(Heap(rows, s)) = rows[Picked(s)].credited + Cardinality(Heap(rows, s \ {Picked(s)}))
    BY <2>1, HeapGrows
  <2> QED BY <1>3, <1>5, <2>2, <2>3
<1> QED BY <1>4, <1>5

SumOf(rows, R) == MapThenSumSet(LAMBDA r : rows[r].credited, R)

LEMMA SumIsSize ==
    ASSUME NEW rows, NEW R, IsFiniteSet(R), CreditNat(rows, R)
    PROVE  SumOf(rows, R) = Cardinality(Heap(rows, R))
<1> DEFINE h == CHOOSE k : Adds(k, rows, R)
<1>1. SumOf(rows, R) = h[R]
  BY DEF SumOf, MapThenSumSet, MapThenFoldSet, Picked, Adds
<1>2. Adds(h, rows, R)
  BY SizesAdd
<1> HIDE DEF h
<1> QED BY <1>1, <1>2, OnlySizes
\* The credit of the model is the sum, of the rows of now and of the rows after a step.
LEMMA NowCredit == \A R : Credit(R) = SumOf(record, R)
<1>1. ASSUME NEW R PROVE Credit(R) = SumOf(record, R)
  BY DEF SumOf, Credit, MapThenSumSet, MapThenFoldSet
<1> QED BY <1>1

LEMMA NextCredit == \A R : Credit(R)' = SumOf(record', R)
<1>1. ASSUME NEW CONSTANT R PROVE Credit(R)' = SumOf(record', R)
  BY DEF SumOf, Credit, MapThenSumSet, MapThenFoldSet
<1> QED BY <1>1

\* Fewer rows have no more credit, one more has its own, the same credit sums up the same.
LEMMA SumGrows ==
    ASSUME NEW rows, NEW S, IsFiniteSet(S), CreditNat(rows, S), NEW D \in SUBSET S
    PROVE  SumOf(rows, D) \in Nat /\ SumOf(rows, S) \in Nat /\ SumOf(rows, D) <= SumOf(rows, S)
<1>1. IsFiniteSet(D) /\ CreditNat(rows, D)
  BY FS_Subset DEF CreditNat
<1>2. SumOf(rows, D) = Cardinality(Heap(rows, D)) /\ SumOf(rows, S) = Cardinality(Heap(rows, S))
  BY <1>1, SumIsSize
<1>3. IsFiniteSet(Heap(rows, D)) /\ IsFiniteSet(Heap(rows, S))
  BY HeapFinite
<1>4. Heap(rows, D) \subseteq Heap(rows, S)
  BY DEF Heap
<1> QED BY <1>2, <1>3, <1>4, FS_Subset, FS_CardinalityType

LEMMA SumPlus ==
    ASSUME NEW rows, NEW S, IsFiniteSet(S), CreditNat(rows, S), NEW x \in S
    PROVE  SumOf(rows, S) = rows[x].credited + SumOf(rows, S \ {x})
<1>1. IsFiniteSet(S \ {x}) /\ CreditNat(rows, S \ {x})
  BY FS_Subset DEF CreditNat
<1>2. SumOf(rows, S) = Cardinality(Heap(rows, S)) /\ SumOf(rows, S \ {x}) = Cardinality(Heap(rows, S \ {x}))
  BY <1>1, SumIsSize
<1> QED BY <1>2, HeapGrows

LEMMA SumSame ==
    ASSUME NEW rows, NEW others, NEW S, IsFiniteSet(S), CreditNat(rows, S),
           \A x \in S : rows[x].credited = others[x].credited
    PROVE  SumOf(rows, S) = SumOf(others, S)
<1>1. CreditNat(others, S)
  BY DEF CreditNat
<1>2. Heap(rows, S) = Heap(others, S)
  BY DEF Heap, Pile
<1> QED BY <1>1, <1>2, SumIsSize

-----------------------------------------------------------------------------
(* The inductive invariant of the rules. *)

Rules == Policies \cup Initials \cup {Unruled}

\* What the rows, the submissions and the withdrawals hold.
Typed ==
    /\ record \in [Records -> [status : Statuses, day : Nat, raw : Nat, credited : Nat,
                                policy : Rules, from : Statuses]]
    /\ policy \in [Days -> Policies \cup Initials]
    /\ closed \in BOOLEAN /\ sealed \in Nat
    /\ loop \in Requests \cup {NoOne}
    /\ \A r \in Records : record[r].credited > 0 => record[r].status \in {"confirmed", "void"}
    /\ \A q \in Requests : /\ req[q].day \in Nat /\ req[q].raw \in Nat /\ req[q].policy \in Rules
                           /\ req[q].pc # "idle" => req[q].day \in Days
    /\ \A w \in Withdrawals : wd[w].from \in Statuses

\* Who holds the writer awaits an image, and what was checked before is still so.
SavingOpen ==
    /\ writer \in Requests \cup {NoOne}
    /\ writer # NoOne => req[writer].pc = "saving"
    /\ \A q \in Requests : req[q].pc = "saving" =>
          ~closed /\ ~OverCount(req[q].policy, Active, 1)

CInv == IInv /\ Typed /\ SavingOpen /\ CreditWithinRules /\ LimitedWithinRules /\ SealKept

LEMMA RuleTypes == \A p \in Rules : p.configured \in BOOLEAN /\ p.count \in Nat /\ p.cap \in Nat
<1>1. \A p \in Policies \cup Initials : p \in Policy
  BY PolicyAssumption
<1>2. \A p \in Policies \cup Initials : p.configured \in BOOLEAN /\ p.count \in Nat /\ p.cap \in Nat
  BY <1>1 DEF Policy
<1>3. Unruled.configured \in BOOLEAN /\ Unruled.count \in Nat /\ Unruled.cap \in Nat
  BY DEF Unruled, Unlimited
<1> QED BY <1>2, <1>3 DEF Rules

LEMMA RecordsFinite == IsFiniteSet(Records)
<1>1. IsFiniteSet(1..BatchMax)
  <2>1. 1 \in Int /\ BatchMax \in Int
    BY EntriesAssumption
  <2> QED BY <2>1, FS_Interval, Zenon
<1> QED BY <1>1, FiniteAssumption, FS_Product DEF Records

LEMMA CreditTyped == Typed => CreditNat(record, Records)
BY DEF Typed, CreditNat

LEMMA CreditIsNat ==
    ASSUME Typed, NEW R \in SUBSET Records
    PROVE  Credit(R) \in Nat
<1>1. SumOf(record, R) \in Nat
  BY RecordsFinite, CreditTyped, SumGrows
<1> QED BY <1>1, NowCredit

LEMMA RowSets ==
    /\ \A S : Rows(S) \subseteq Records /\ Ruled(S) \subseteq Records
    /\ Active \subseteq Records /\ Scored \subseteq Records /\ Limited \subseteq Records
  BY DEF Rows, Ruled, Active, Scored, Limited

\* What a confirmation credits.
LEMMA Least ==
    ASSUME NEW a \in Nat, NEW k \in Int
    PROVE  LET m == Min({a, Max({0, k})}) IN m \in Nat /\ (m > 0 => m <= k)
<1> DEFINE M == Max({0, k})
<1>1. M \in {0, k} /\ \A y \in {0, k} : M >= y
  <2>1. \E x \in {0, k} : \A y \in {0, k} : x >= y
    OBVIOUS
  <2> QED BY <2>1 DEF Max
<1>2. M \in Nat /\ (M > 0 => M = k)
  BY <1>1
<1> HIDE DEF M
<1> DEFINE m == Min({a, M})
<1>3. m \in {a, M} /\ \A y \in {a, M} : m <= y
  <2>1. \E x \in {a, M} : \A y \in {a, M} : x <= y
    BY <1>2
  <2> QED BY <2>1 DEF Min
<1>4. m \in Nat /\ (m > 0 => m <= k)
  <2> HIDE DEF m
  <2> QED BY <1>2, <1>3
<1> QED BY <1>4 DEF m, M

LEMMA CreditGiven ==
    ASSUME Typed, NEW p \in Rules, NEW raw \in Nat
    PROVE  LET R == Ruled({"confirmed"})
               given == Credited(p, raw, R)
           IN /\ given \in Nat
              /\ given > 0 => /\ given <= p.cap - Credit(R)
                              /\ p.configured => Cardinality(R) < p.count
<1> DEFINE R == Ruled({"confirmed"})
           given == Credited(p, raw, R)
<1>1. Credit(R) \in Nat
  BY RowSets, CreditIsNat
<1>2. IsFiniteSet(R) /\ Cardinality(R) \in Nat
  BY RowSets, RecordsFinite, FS_Subset, FS_CardinalityType
<1>3. p.configured \in BOOLEAN /\ p.count \in Nat /\ p.cap \in Nat
  BY RuleTypes
<1> HIDE DEF R
<1>4. CASE p.configured /\ Cardinality(R) >= p.count
  <2>1. given = 0
    BY <1>4 DEF Credited
  <2> QED BY <2>1 DEF R
<1>5. CASE ~(p.configured /\ Cardinality(R) >= p.count)
  <2>1. given = Min({raw, Max({0, p.cap - Credit(R)})})
    BY <1>5 DEF Credited
  <2>2. given \in Nat /\ (given > 0 => given <= p.cap - Credit(R))
    <3> DEFINE k == p.cap - Credit(R)
    <3>1. k \in Int
      BY <1>1, <1>3
    <3> HIDE DEF k
    <3>2. LET m == Min({raw, Max({0, k})}) IN m \in Nat /\ (m > 0 => m <= k)
      BY <3>1, Least
    <3> QED BY <2>1, <3>2 DEF k
  <2>3. p.configured => Cardinality(R) < p.count
    BY <1>2, <1>3, <1>5
  <2> HIDE DEF given
  <2> QED BY <2>2, <2>3 DEF R, given
<1> QED BY <1>4, <1>5

-----------------------------------------------------------------------------
(* What a step does to the rows that count. *)

\* No row counts that did not: a credit given earlier stays, or goes with its row.
LEMMA ScoredKeeps ==
    ASSUME Typed, CreditWithinRules,
           \A r \in Scored' : /\ r \in Scored /\ record'[r].policy = record[r].policy
                              /\ record'[r].credited = record[r].credited
    PROVE  CreditWithinRules'
<1> SUFFICES ASSUME NEW CONSTANT C, C \in SUBSET Scored', C # {}
             PROVE  /\ \E r \in C : Credit(C)' <= record'[r].policy.cap
                    /\ (\A r \in C : record'[r].policy.configured)
                          => \E r \in C : Cardinality(C) <= record'[r].policy.count
  BY DEF CreditWithinRules
<1>1. C \in SUBSET Scored /\ C \in SUBSET Records
  BY RowSets
<1>2. SumOf(record', C) = SumOf(record, C)
  <2>1. IsFiniteSet(C) /\ CreditNat(record, C)
    BY <1>1, RecordsFinite, CreditTyped, FS_Subset DEF CreditNat
  <2>2. \A x \in C : record[x].credited = record'[x].credited
    OBVIOUS
  <2> QED BY <2>1, <2>2, SumSame
<1>3. Credit(C)' = Credit(C)
  BY <1>2, NowCredit, NextCredit
<1>4. /\ \E r \in C : Credit(C) <= record[r].policy.cap
      /\ (\A r \in C : record[r].policy.configured)
            => \E r \in C : Cardinality(C) <= record[r].policy.count
  BY <1>1 DEF CreditWithinRules
<1> QED BY <1>1, <1>3, <1>4

\* One row is confirmed, with what apply_credit leaves for it.
LEMMA ScoredAdds ==
    ASSUME Typed, CreditWithinRules, NEW CONSTANT x \in Records, x \notin Ruled({"confirmed"}),
           NEW p \in Rules, NEW raw \in Nat,
           record'[x].policy = p, record'[x].credited = Credited(p, raw, Ruled({"confirmed"})),
           \A r \in Scored' \ {x} : /\ r \in Scored /\ record'[r].policy = record[r].policy
                                    /\ record'[r].credited = record[r].credited
    PROVE  CreditWithinRules'
<1> SUFFICES ASSUME NEW CONSTANT C, C \in SUBSET Scored', C # {}
             PROVE  /\ \E r \in C : Credit(C)' <= record'[r].policy.cap
                    /\ (\A r \in C : record'[r].policy.configured)
                          => \E r \in C : Cardinality(C) <= record'[r].policy.count
  BY DEF CreditWithinRules
<1> DEFINE R == Ruled({"confirmed"})
           D == C \ {x}
           given == Credited(p, raw, R)
<1>1. /\ given \in Nat
      /\ given > 0 => /\ given <= p.cap - Credit(R)
                      /\ p.configured => Cardinality(R) < p.count
  BY CreditGiven
<1>2. D \in SUBSET Scored /\ D \in SUBSET R /\ R \in SUBSET Records
  BY RowSets DEF Scored
<1>3. IsFiniteSet(R) /\ CreditNat(record, R) /\ IsFiniteSet(D) /\ CreditNat(record, D)
  BY <1>2, RecordsFinite, CreditTyped, FS_Subset DEF CreditNat
<1>4. SumOf(record', D) = SumOf(record, D)
  <2>1. \A r \in D : record[r].credited = record'[r].credited
    OBVIOUS
  <2> HIDE DEF D
  <2> QED BY <2>1, <1>3, SumSame
<1>5. CASE x \notin C
  <2>1. C = D
    BY <1>5
  <2>2. Credit(C)' = Credit(C)
    BY <1>4, <2>1, NowCredit, NextCredit
  <2>3. /\ \E r \in C : Credit(C) <= record[r].policy.cap
        /\ (\A r \in C : record[r].policy.configured)
              => \E r \in C : Cardinality(C) <= record[r].policy.count
    BY <1>2, <2>1 DEF CreditWithinRules
  <2> QED BY <1>5, <2>2, <2>3
<1>6. CASE x \in C
  <2>1. given > 0 /\ record'[x].credited = given
    <3>1. record'[x].credited > 0
      BY <1>6 DEF Scored
    <3> QED BY <3>1
  <2> HIDE DEF given
  <2>2. SumOf(record', C) = given + SumOf(record, D)
    <3>1. IsFiniteSet(C) /\ CreditNat(record', C)
      <4>1. C = D \cup {x}
        BY <1>6
      <4>2. IsFiniteSet(C)
        <5> HIDE DEF D
        <5> QED BY <4>1, <1>3, FS_AddElement
      <4>3. \A r \in D : record'[r].credited = record[r].credited
        OBVIOUS
      <4> QED BY <1>1, <1>3, <2>1, <4>2, <4>3 DEF CreditNat
    <3>2. SumOf(record', C) = record'[x].credited + SumOf(record', C \ {x})
      BY <1>6, <3>1, SumPlus
    <3> QED BY <1>4, <2>1, <3>2
  <2>3. SumOf(record, D) \in Nat /\ SumOf(record, R) \in Nat /\ SumOf(record, D) <= SumOf(record, R)
    <3> HIDE DEF D, R
    <3> QED BY <1>2, <1>3, SumGrows
  <2>4. p.configured \in BOOLEAN /\ p.count \in Nat /\ p.cap \in Nat
    BY RuleTypes
  <2>5. Credit(C)' <= p.cap
    <3>1. Credit(C)' = given + SumOf(record, D) /\ Credit(R) = SumOf(record, R)
      <4> HIDE DEF D, R
      <4> QED BY <2>2, NowCredit, NextCredit
    <3> HIDE DEF D, R
    <3> QED BY <1>1, <2>1, <2>3, <2>4, <3>1
  <2>6. p.configured => Cardinality(C) <= p.count
    <3>1. Cardinality(D) \in Nat /\ Cardinality(R) \in Nat /\ Cardinality(D) <= Cardinality(R)
      <4> HIDE DEF D, R
      <4> QED BY <1>2, <1>3, FS_Subset, FS_CardinalityType
    <3>2. Cardinality(C) = Cardinality(D) + 1
      <4>1. C = D \cup {x} /\ x \notin D
        BY <1>6
      <4> HIDE DEF D
      <4> QED BY <4>1, <1>3, FS_AddElement
    <3> HIDE DEF D, R
    <3> QED BY <1>1, <2>1, <2>4, <3>1, <3>2
  <2> QED BY <1>6, <2>5, <2>6
<1> QED BY <1>5, <1>6

\* Rows of one rule are added, none or more, after they were counted.
LEMMA LimitedKeeps ==
    ASSUME LimitedWithinRules, NEW CONSTANT N, NEW p \in Rules,
           \A r \in Limited' \ N : r \in Limited /\ record'[r].policy = record[r].policy,
           \A r \in Limited' : r \in N => record'[r].policy = p,
           Active' \cap N # {} /\ p.configured /\ p.block => Cardinality(Active') <= p.count
    PROVE  LimitedWithinRules'
<1> SUFFICES ASSUME NEW CONSTANT L, L \in SUBSET Limited', L # {}
             PROVE  \E r \in L : Cardinality(L) <= record'[r].policy.count
  BY DEF LimitedWithinRules
<1>1. CASE L \cap N = {}
  <2>1. L \in SUBSET Limited /\ \A r \in L : record'[r].policy = record[r].policy
    BY <1>1
  <2>2. \E r \in L : Cardinality(L) <= record[r].policy.count
    BY <2>1 DEF LimitedWithinRules
  <2> QED BY <2>1, <2>2
<1>2. CASE L \cap N # {}
  <2>1. PICK x \in L : x \in N
    BY <1>2
  <2>2. x \in Active' /\ record'[x].policy = p /\ p.configured /\ p.block
    BY <2>1 DEF Limited
  <2>3. Cardinality(Active') <= p.count
    BY <2>1, <2>2
  <2>4. L \subseteq Active' /\ Active' \subseteq Records
    BY DEF Limited, Active, Ruled, Rows
  <2>5. PICK A : A = Active'
    OBVIOUS
  <2>6. IsFiniteSet(A) /\ L \in SUBSET A /\ Cardinality(A) <= p.count
    BY <2>3, <2>4, <2>5, RecordsFinite, FS_Subset
  <2>7. Cardinality(L) <= Cardinality(A) /\ Cardinality(L) \in Nat /\ Cardinality(A) \in Nat
    BY <2>6, FS_Subset, FS_CardinalityType
  <2>8. p.count \in Nat
    BY RuleTypes
  <2>9. Cardinality(L) <= p.count
    BY <2>6, <2>7, <2>8
  <2> QED BY <2>1, <2>2, <2>9
<1> QED BY <1>1, <1>2

-----------------------------------------------------------------------------
(* The steps, for what follows from OnceIsOnce's invariant. *)

\* Nobody awaits an image while the writer is free.
LEMMA NobodySaves ==
    ASSUME IInv, writer = NoOne
    PROVE  \A q \in Requests : req[q].pc # "saving"
BY NamesAssumption DEF IInv, SavingSafe

LEMMA NobodySavesNext ==
    ASSUME IInv', writer' = NoOne
    PROVE  SavingOpen'
<1>1. \A q \in Requests : req'[q].pc # "saving"
  BY NamesAssumption DEF IInv, SavingSafe
<1> QED BY <1>1 DEF SavingOpen

LEMMA ActiveKept ==
    ASSUME IInv, UNCHANGED record,
           \A q \in Requests : req'[q].kind = req[q].kind \/ req[q].pc # "done"
    PROVE  Active' = Active
<1>1. \A r \in Records : record[r].status # "none" => req'[r[1]].kind = req[r[1]].kind
  BY DEF IInv, StoredOnce, Records
<1> QED BY <1>1 DEF Active, Ruled, Rows

\* No row changes, nor what was sealed.
LEMMA UntouchedKeeps ==
    ASSUME CInv, IInv', Typed', SavingOpen', UNCHANGED <<record, closed, sealed>>,
           \A q \in Requests : req'[q].kind = req[q].kind \/ req[q].pc # "done"
    PROVE  CInv'
<1>1. \A r \in Records : record[r].status # "none" => req'[r[1]].kind = req[r[1]].kind
  BY DEF CInv, IInv, StoredOnce, Records
<1>2. Active' = Active
  BY ActiveKept DEF CInv
<1>3. Scored' = Scored
  BY <1>1 DEF Scored, Ruled, Rows
<1>4. Limited' = Limited
  BY <1>2 DEF Limited
<1>5. CreditWithinRules'
  BY <1>3, ScoredKeeps DEF CInv
<1>6. LimitedWithinRules'
  BY <1>4 DEF CInv, LimitedWithinRules
<1>7. SealKept'
  BY DEF CInv, SealKept, Rows, Credit, MapThenSumSet, MapThenFoldSet
<1> QED BY <1>5, <1>6, <1>7 DEF CInv

\* The form and the progress of q, and whoever has the writer.
LEMMA SubmissionTyped ==
    ASSUME CInv, IInv', NEW q \in Requests, UNCHANGED <<record, policy, closed, sealed, wd>>,
           loop' \in Requests \cup {NoOne},
           \A s \in Requests : s # q => req'[s] = req[s],
           req'[q].day \in Nat /\ req'[q].raw \in Nat /\ req'[q].policy \in Rules,
           req'[q].pc # "idle" => req'[q].day \in Days
    PROVE  Typed'
BY DEF CInv, Typed

LEMMA OpenKept ==
    ASSUME CInv, IInv', NEW q \in Requests, UNCHANGED <<writer, closed>>,
           Active' = Active, req[q].pc # "saving", req'[q].pc # "saving",
           \A s \in Requests : s # q => req'[s] = req[s]
    PROVE  SavingOpen'
<1>1. \A s \in Requests : req'[s].pc = "saving" => req'[s] = req[s]
  OBVIOUS
<1>2. \A s \in Requests : req'[s].pc = "saving" => ~closed' /\ ~OverCount(req'[s].policy, Active', 1)
  BY <1>1 DEF CInv, SavingOpen
<1>3. writer' # NoOne => req'[writer'].pc = "saving"
  BY DEF CInv, SavingOpen
<1> QED BY <1>2, <1>3 DEF CInv, SavingOpen
\* An answer from the receipts, or a refusal.
LEMMA AnswerKeepsRules ==
    ASSUME CInv, IInv', NEW q \in Requests, req[q].pc \in {"sent", "flush", "saving"},
           (Known(q) /\ Reply(q)) \/ Refuse(q),
           UNCHANGED <<db, policy, closed, sealed, wd>>, loop' \in {loop, NoOne},
           writer' = writer \/ writer' = NoOne, req[q].pc = "saving" => writer' = NoOne
    PROVE  CInv'
<1>1. /\ \A s \in Requests : s # q => req'[s] = req[s]
      /\ req'[q].day = req[q].day /\ req'[q].raw = req[q].raw /\ req'[q].kind = req[q].kind
      /\ req'[q].policy = req[q].policy /\ req'[q].pc \in {"done", "refused"}
  <2>1. CASE Known(q) /\ Reply(q)
    <3> DEFINE a == Replied(req[q].kind, req[q].key, Payload(q))
    <3>1. a.pc \in {"done", "refused"}
      BY DEF Replied
    <3>2. req' = [req EXCEPT ![q].pc = a.pc, ![q].answer = a.answer]
      BY <2>1 DEF Reply
    <3> HIDE DEF a
    <3> QED BY <3>1, <3>2 DEF CInv, IInv, Shape
  <2>2. CASE Refuse(q)
    BY <2>2 DEF Refuse, CInv, IInv, Shape
  <2> QED BY <2>1, <2>2
<1>2. Typed'
  <2>1. /\ loop' \in Requests \cup {NoOne}
        /\ req'[q].day \in Nat /\ req'[q].raw \in Nat /\ req'[q].policy \in Rules
        /\ req'[q].pc # "idle" => req'[q].day \in Days
    BY <1>1 DEF CInv, Typed
  <2> QED BY <1>1, <2>1, SubmissionTyped DEF db
<1>3. \A s \in Requests : req'[s].kind = req[s].kind
  BY <1>1
<1>4. Active' = Active
  BY <1>3, ActiveKept DEF CInv, db
<1>5. SavingOpen'
  <2>1. CASE writer' = NoOne
    BY <2>1, NobodySavesNext
  <2>2. CASE writer' # NoOne
    BY <1>1, <1>4, <2>2, OpenKept
  <2> QED BY <2>1, <2>2
<1> QED BY <1>2, <1>3, <1>5, UntouchedKeeps DEF db

\* A form is filled in, or a submission is let through to the loop.
LEMMA SentKeepsRules ==
    ASSUME CInv, IInv', NEW q \in Requests, Form(q) \/ StartSingle(q) \/ StartBatch(q)
    PROVE  CInv'
<1>1. CASE Form(q)
  <2>1. PICK kind \in Kinds, key \in Keys \cup {NoKey}, day \in Days, raw \in Scores,
             n \in 1..BatchMax, again \in BOOLEAN :
          /\ n = 1 \/ kind = "batch"
          /\ key # NoKey \/ kind # "batch"
          /\ req' = [req EXCEPT ![q] = [@ EXCEPT !.pc = "sent", !.kind = kind, !.key = key,
                         !.day = day, !.raw = raw, !.n = n, !.again = again]]
    BY <1>1 DEF Form
  <2>2. req[q].pc = "idle" /\ UNCHANGED <<db, policy, closed, sealed, loop, writer, wd>>
    BY <1>1 DEF Form
  <2>3. /\ \A s \in Requests : s # q => req'[s] = req[s]
        /\ req'[q].day = day /\ req'[q].raw = raw /\ req'[q].policy = req[q].policy
        /\ req'[q].pc = "sent"
    BY <2>1 DEF CInv, IInv, Shape
  <2>4. Typed'
    <3>1. /\ loop' \in Requests \cup {NoOne}
          /\ req'[q].day \in Nat /\ req'[q].raw \in Nat /\ req'[q].policy \in Rules
          /\ req'[q].pc # "idle" => req'[q].day \in Days
      BY <2>1, <2>2, <2>3, NumbersAssumption DEF CInv, Typed
    <3> QED BY <2>2, <2>3, <3>1, SubmissionTyped DEF db
  <2>5. \A s \in Requests : req'[s].kind = req[s].kind \/ req[s].pc # "done"
    BY <2>2, <2>3
  <2>6. Active' = Active
    BY <2>2, <2>5, ActiveKept DEF CInv, db
  <2>7. SavingOpen'
    BY <2>2, <2>3, <2>6, OpenKept
  <2> QED BY <2>2, <2>4, <2>5, <2>7, UntouchedKeeps DEF db
<1>2. ASSUME NEW p \in Rules, req[q].pc = "sent",
             \/ req' = [req EXCEPT ![q].pc = "flush", ![q].policy = p]
             \/ req' = [req EXCEPT ![q].pc = "flush"],
             loop' \in {loop, q}, UNCHANGED <<db, policy, closed, sealed, writer, wd>>
      PROVE  CInv'
  <2>1. /\ \A s \in Requests : s # q => req'[s] = req[s]
        /\ req'[q].day = req[q].day /\ req'[q].raw = req[q].raw /\ req'[q].kind = req[q].kind
        /\ req'[q].policy \in {req[q].policy, p} /\ req'[q].pc = "flush"
    <3>1. CASE req' = [req EXCEPT ![q].pc = "flush", ![q].policy = p]
      BY <3>1 DEF CInv, IInv, Shape
    <3>2. CASE req' = [req EXCEPT ![q].pc = "flush"]
      BY <3>2 DEF CInv, IInv, Shape
    <3> QED BY <1>2, <3>1, <3>2
  <2>2. Typed'
    <3>1. /\ loop' \in Requests \cup {NoOne}
          /\ req'[q].day \in Nat /\ req'[q].raw \in Nat /\ req'[q].policy \in Rules
          /\ req'[q].pc # "idle" => req'[q].day \in Days
      BY <1>2, <2>1 DEF CInv, Typed
    <3> QED BY <1>2, <2>1, <3>1, SubmissionTyped DEF db
  <2>3. \A s \in Requests : req'[s].kind = req[s].kind
    BY <2>1
  <2>4. Active' = Active
    BY <1>2, <2>3, ActiveKept DEF CInv, db
  <2>5. SavingOpen'
    BY <1>2, <2>1, <2>4, OpenKept
  <2> QED BY <1>2, <2>2, <2>3, <2>5, UntouchedKeeps DEF db
<1>3. CASE StartSingle(q)
  <2> DEFINE p == IF req[q].kind = "poc" THEN Unruled ELSE policy[req[q].day]
  <2>1. req[q].pc = "sent" /\ UNCHANGED <<db, policy, closed, sealed, writer, wd>>
    BY <1>3 DEF StartSingle
  <2>2. p \in Rules
    BY <2>1 DEF CInv, Typed, Rules
  <2>3. \/ ((Known(q) /\ Reply(q)) \/ Refuse(q)) /\ loop' = loop
        \/ req' = [req EXCEPT ![q].pc = "flush", ![q].policy = p] /\ loop' \in {loop, q}
    BY <1>3 DEF StartSingle
  <2> HIDE DEF p
  <2>4. CASE ((Known(q) /\ Reply(q)) \/ Refuse(q)) /\ loop' = loop
    BY <2>1, <2>4, AnswerKeepsRules
  <2>5. CASE req' = [req EXCEPT ![q].pc = "flush", ![q].policy = p] /\ loop' \in {loop, q}
    BY <1>2, <2>1, <2>2, <2>5
  <2> QED BY <2>3, <2>4, <2>5
<1>4. CASE StartBatch(q)
  <2>1. Unruled \in Rules
    BY DEF Rules
  <2> QED BY <1>2, <1>4, <2>1 DEF StartBatch
<1> QED BY <1>1, <1>3, <1>4
\* One's own submission is let through to its awaited image: nothing bars it, and
\* with the writer taken nothing will.
LEMMA FlushSelfKeepsRules ==
    ASSUME CInv, IInv', NEW q \in Requests, FlushSelf(q)
    PROVE  CInv'
<1>1. /\ req[q].pc = "flush" /\ writer = NoOne /\ req[q].kind = "self"
      /\ UNCHANGED <<db, policy, closed, sealed, wd>> /\ loop' \in {loop, NoOne}
  BY DEF FlushSelf, Flushing, LeaveLoop
<1>2. \/ ((Known(q) /\ Reply(q)) \/ Refuse(q)) /\ writer' = writer
      \/ /\ req' = [req EXCEPT ![q].pc = "saving"] /\ writer' = q
         /\ ~closed /\ ~OverCount(req[q].policy, Active, req[q].n)
  BY DEF FlushSelf, Barred, Overtaken
<1>3. CASE ((Known(q) /\ Reply(q)) \/ Refuse(q)) /\ writer' = writer
  BY <1>1, <1>3, AnswerKeepsRules
<1>4. CASE /\ req' = [req EXCEPT ![q].pc = "saving"] /\ writer' = q
           /\ ~closed /\ ~OverCount(req[q].policy, Active, req[q].n)
  <2>1. /\ \A s \in Requests : s # q => req'[s] = req[s]
        /\ req'[q].day = req[q].day /\ req'[q].raw = req[q].raw /\ req'[q].kind = req[q].kind
        /\ req'[q].policy = req[q].policy /\ req'[q].pc = "saving"
    BY <1>4 DEF CInv, IInv, Shape
  <2>2. Typed'
    <3>1. /\ loop' \in Requests \cup {NoOne}
          /\ req'[q].day \in Nat /\ req'[q].raw \in Nat /\ req'[q].policy \in Rules
          /\ req'[q].pc # "idle" => req'[q].day \in Days
      BY <1>1, <2>1 DEF CInv, Typed
    <3> QED BY <1>1, <2>1, <3>1, SubmissionTyped DEF db
  <2>3. \A s \in Requests : req'[s].kind = req[s].kind
    BY <2>1
  <2>4. Active' = Active
    BY <1>1, <2>3, ActiveKept DEF CInv, db
  <2>5. SavingOpen'
    <3>1. \A s \in Requests : req[s].pc # "saving"
      BY <1>1, NobodySaves DEF CInv
    <3>2. req[q].n = 1
      BY <1>1 DEF CInv, IInv, StoredOnce
    <3>3. ~OverCount(req'[q].policy, Active', 1) /\ ~closed'
      BY <1>1, <1>4, <2>1, <2>4, <3>2
    <3>4. \A s \in Requests : req'[s].pc = "saving" => s = q
      BY <2>1, <3>1
    <3> QED BY <1>4, <2>1, <3>3, <3>4 DEF SavingOpen
  <2> QED BY <1>1, <2>2, <2>3, <2>5, UntouchedKeeps DEF db
<1> QED BY <1>2, <1>3, <1>4

\* Rows are stored: pending ones counted before, a proxy's one confirmed, a special
\* contribution's outside the rules.
LEMMA InsertKeepsRules ==
    ASSUME CInv, IInv', NEW q \in Requests, req[q].pc \in {"flush", "saving"},
           NEW p \in Rules, NEW status \in {"pending", "confirmed"}, NEW credited \in Nat,
           Insert(q, p, status, credited), ~closed, UNCHANGED <<policy, closed, sealed, wd>>,
           loop' \in {loop, NoOne}, writer' = NoOne,
           req[q].kind # "poc" => ~OverCount(p, Active, req[q].n),
           \/ status = "pending" /\ credited = 0
           \/ status = "confirmed" /\ req[q].kind = "poc"
           \/ /\ status = "confirmed" /\ req[q].n = 1 /\ req[q].kind # "poc"
              /\ credited = Credited(p, req[q].raw, Ruled({"confirmed"}))
    PROVE  CInv'
<1> DEFINE new == {q} \X (1..req[q].n)
<1>1. /\ \A s \in Requests : s # q => req'[s] = req[s]
      /\ req'[q].day = req[q].day /\ req'[q].raw = req[q].raw /\ req'[q].kind = req[q].kind
      /\ req'[q].policy = req[q].policy /\ req'[q].n = req[q].n
      /\ \A s \in Requests : req'[s].kind = req[s].kind
  BY DEF Insert, CInv, IInv, Shape
<1>2. /\ \A r \in Records : r \notin new => record'[r] = record[r]
      /\ \A r \in Records : r \in new =>
            record'[r] = [status |-> status, day |-> req[q].day, raw |-> req[q].raw,
                          credited |-> credited, policy |-> p, from |-> "none"]
      /\ DOMAIN record' = Records /\ record' = [r \in Records |-> record'[r]]
  BY DEF Insert
<1>3. \A r \in Records : r[1] = q => record[r].status = "none"
  BY DEF CInv, IInv, StoredOnce
<1>4. \A r \in new : r[1] = q
  OBVIOUS
<1>5. req[q].n \in 1..BatchMax
  BY DEF CInv, IInv, StoredOnce
<1>6. new \subseteq Records
  BY <1>5, EntriesAssumption DEF Records
<1>7. IsFiniteSet(new) /\ Cardinality(new) = req[q].n
  <2>1. req[q].n \in Nat
    BY <1>5, EntriesAssumption
  <2> QED BY <2>1, PileSize
<1> HIDE DEF new
<1>8. Typed'
  <2>1. /\ req[q].day \in Nat /\ req[q].raw \in Nat /\ "none" \in Statuses /\ status \in Statuses
        /\ record \in [Records -> [status : Statuses, day : Nat, raw : Nat, credited : Nat,
                                   policy : Rules, from : Statuses]]
    BY DEF CInv, Typed, Statuses
  <2>2. \A r \in Records : record'[r] \in [status : Statuses, day : Nat, raw : Nat, credited : Nat,
                                          policy : Rules, from : Statuses]
    BY <1>2, <2>1
  <2>3. record' \in [Records -> [status : Statuses, day : Nat, raw : Nat, credited : Nat,
                                   policy : Rules, from : Statuses]]
    BY <1>2, <2>2
  <2>4. \A r \in Records : record'[r].credited > 0 => record'[r].status \in {"confirmed", "void"}
    BY <1>2 DEF CInv, Typed
  <2>5. /\ loop' \in Requests \cup {NoOne}
        /\ \A s \in Requests : /\ req'[s].day \in Nat /\ req'[s].raw \in Nat /\ req'[s].policy \in Rules
                               /\ req'[s].pc # "idle" => req'[s].day \in Days
    BY <1>1 DEF CInv, Typed
  <2> QED BY <2>3, <2>4, <2>5 DEF CInv, Typed
<1>9. /\ \A r \in Records : r \notin new => (r \in Active' <=> r \in Active)
      /\ \A r \in Records : r \notin new => (r \in Ruled({"confirmed"})' <=> r \in Ruled({"confirmed"}))
  BY <1>1, <1>2 DEF Active, Ruled, Rows, Records
<1>10. \A r \in new : /\ r \in Active' => req[q].kind # "poc"
                      /\ r \in Ruled({"confirmed"})' => req[q].kind # "poc" /\ status = "confirmed"
  BY <1>1, <1>2, <1>4, <1>6 DEF Active, Ruled, Rows
<1>11. Active' \subseteq Records /\ Scored' \subseteq Records /\ Limited' \subseteq Records
  BY DEF Active, Scored, Limited, Ruled, Rows
<1>12. LimitedWithinRules'
  <2>1. \A r \in Limited' \ new : r \in Limited /\ record'[r].policy = record[r].policy
    BY <1>2, <1>9, <1>11 DEF Limited
  <2>2. \A r \in Limited' : r \in new => record'[r].policy = p
    BY <1>2, <1>11
  <2>3. ASSUME Active' \cap new # {}, p.configured, p.block PROVE Cardinality(Active') <= p.count
    <3>1. req[q].kind # "poc"
      BY <1>10, <2>3
    <3>2. ~(Cardinality(Active) + req[q].n > p.count)
      BY <2>3, <3>1 DEF OverCount
    <3>3. Active' \subseteq Active \cup new
      BY <1>9, <1>11
    <3>4. PICK A : A = Active'
      OBVIOUS
    <3>5. IsFiniteSet(Active) /\ Cardinality(Active) \in Nat
      BY RowSets, RecordsFinite, FS_Subset, FS_CardinalityType
    <3>6. Active \cap new = {}
      BY <1>3, <1>4, <1>6 DEF Active, Ruled, Rows
    <3>7. IsFiniteSet(Active \cup new) /\ Cardinality(Active \cup new) =
             Cardinality(Active) + Cardinality(new) - Cardinality(Active \cap new)
      BY <1>7, <3>5, FS_Union
    <3>8. Cardinality(Active \cap new) = 0
      BY <3>6, FS_EmptySet
    <3>9. Cardinality(A) <= Cardinality(Active \cup new) /\ Cardinality(A) \in Nat
      <4>1. A \in SUBSET (Active \cup new)
        BY <3>3, <3>4
      <4> QED BY <3>7, <4>1, FS_Subset, FS_CardinalityType
    <3>10. p.count \in Nat /\ req[q].n \in Nat
      BY <1>5, RuleTypes, EntriesAssumption
    <3>11. Cardinality(Active \cup new) = Cardinality(Active) + req[q].n
      BY <1>7, <3>5, <3>7, <3>8, <3>10
    <3>12. Cardinality(A) <= p.count
      BY <3>2, <3>5, <3>9, <3>10, <3>11
    <3> QED BY <3>4, <3>12
  <2> QED BY <2>1, <2>2, <2>3, LimitedKeeps DEF CInv
<1>13. CreditWithinRules'
  <2>1. \A r \in Scored' \ new : /\ r \in Scored /\ record'[r].policy = record[r].policy
                                 /\ record'[r].credited = record[r].credited
    BY <1>2, <1>9, <1>11 DEF Scored
  <2>2. CASE status = "pending" \/ req[q].kind = "poc"
    <3>1. \A r \in Scored' : r \notin new
      BY <1>10, <2>2 DEF Scored
    <3> QED BY <2>1, <3>1, ScoredKeeps DEF CInv
  <2>3. CASE /\ status = "confirmed" /\ req[q].n = 1 /\ req[q].kind # "poc"
             /\ credited = Credited(p, req[q].raw, Ruled({"confirmed"}))
    <3>1. PICK x : x = <<q, 1>>
      OBVIOUS
    <3>2. new = {x}
      BY <2>3, <3>1 DEF new
    <3>3. x \in Records /\ x \notin Ruled({"confirmed"})
      BY <1>3, <1>4, <1>6, <3>2 DEF Ruled, Rows
    <3>4. record'[x].policy = p /\ record'[x].credited = Credited(p, req[q].raw, Ruled({"confirmed"}))
      BY <1>2, <2>3, <3>2, <3>3
    <3>5. req[q].raw \in Nat
      BY DEF CInv, Typed
    <3> QED BY <2>1, <3>2, <3>3, <3>4, <3>5, ScoredAdds DEF CInv
  <2> QED BY <2>2, <2>3
<1>14. SavingOpen'
  BY NobodySavesNext
<1>15. SealKept'
  BY DEF SealKept
<1> QED BY <1>8, <1>12, <1>13, <1>14, <1>15 DEF CInv
LEMMA StoreKeepsRules ==
    ASSUME CInv, IInv', NEW q \in Requests,
           FlushManager(q) \/ FlushPoc(q) \/ SaveSelf(q) \/ SaveSelfFails(q) \/ WriteBatch(q)
    PROVE  CInv'
<1> DEFINE R == Ruled({"confirmed"})
<1>1. req[q].policy \in Rules /\ req[q].raw \in Nat /\ req[q].day \in Nat
  BY DEF CInv, Typed
<1>2. CASE FlushManager(q)
  <2> DEFINE p == req[q].policy
  <2>1. /\ req[q].pc = "flush" /\ req[q].kind = "manager" /\ writer = NoOne
        /\ UNCHANGED <<policy, closed, sealed, writer, wd>> /\ loop' \in {loop, NoOne}
    BY <1>2 DEF FlushManager, Flushing, LeaveLoop
  <2>2. \/ UNCHANGED db /\ ((Known(q) /\ Reply(q)) \/ Refuse(q))
        \/ /\ ~closed /\ ~OverCount(p, Active, req[q].n)
           /\ Insert(q, p, "confirmed", Credited(p, req[q].raw, R))
    BY <1>2 DEF FlushManager, Barred, Overtaken
  <2>3. req[q].n = 1
    BY <2>1 DEF CInv, IInv, StoredOnce
  <2>4. Credited(p, req[q].raw, R) \in Nat
    BY <1>1, CreditGiven DEF CInv
  <2> HIDE DEF p, R
  <2>5. CASE UNCHANGED db /\ ((Known(q) /\ Reply(q)) \/ Refuse(q))
    BY <2>1, <2>5, AnswerKeepsRules
  <2>6. CASE /\ ~closed /\ ~OverCount(p, Active, req[q].n)
             /\ Insert(q, p, "confirmed", Credited(p, req[q].raw, R))
    <3>1. /\ p \in Rules /\ ~OverCount(p, Active, req[q].n) /\ writer' = NoOne
          /\ Credited(p, req[q].raw, R) = Credited(p, req[q].raw, Ruled({"confirmed"}))
      BY <1>1, <2>1, <2>6 DEF p, R
    <3> QED BY <2>1, <2>3, <2>4, <2>6, <3>1, InsertKeepsRules
  <2> QED BY <2>2, <2>5, <2>6
<1>3. CASE FlushPoc(q)
  <2>1. /\ req[q].pc = "flush" /\ req[q].kind = "poc" /\ writer = NoOne
        /\ UNCHANGED <<policy, closed, sealed, writer, wd, loop>>
    BY <1>3 DEF FlushPoc, Flushing
  <2>2. \/ UNCHANGED db /\ ((Known(q) /\ Reply(q)) \/ Refuse(q))
        \/ ~closed /\ Insert(q, req[q].policy, "confirmed", req[q].raw)
    BY <1>3 DEF FlushPoc
  <2>3. CASE UNCHANGED db /\ ((Known(q) /\ Reply(q)) \/ Refuse(q))
    BY <2>1, <2>3, AnswerKeepsRules
  <2>4. CASE ~closed /\ Insert(q, req[q].policy, "confirmed", req[q].raw)
    BY <1>1, <2>1, <2>4, InsertKeepsRules
  <2> QED BY <2>2, <2>3, <2>4
<1>4. CASE SaveSelf(q) \/ SaveSelfFails(q)
  <2>1. /\ req[q].pc = "saving" /\ writer' = NoOne
        /\ UNCHANGED <<policy, closed, sealed, wd, loop>>
    BY <1>4 DEF SaveSelf, SaveSelfFails
  <2>2. \/ UNCHANGED db /\ ((Known(q) /\ Reply(q)) \/ Refuse(q))
        \/ Insert(q, req[q].policy, "pending", 0)
    BY <1>4 DEF SaveSelf, SaveSelfFails
  <2>3. ~closed /\ ~OverCount(req[q].policy, Active, 1) /\ req[q].kind = "self" /\ req[q].n = 1
    BY <2>1 DEF CInv, SavingOpen, IInv, SavingSafe, StoredOnce
  <2>4. CASE UNCHANGED db /\ ((Known(q) /\ Reply(q)) \/ Refuse(q))
    BY <2>1, <2>4, AnswerKeepsRules
  <2>5. CASE Insert(q, req[q].policy, "pending", 0)
    BY <1>1, <2>1, <2>3, <2>5, InsertKeepsRules
  <2> QED BY <2>2, <2>4, <2>5
<1>5. CASE WriteBatch(q)
  <2> DEFINE p == policy[req[q].day]
  <2>1. /\ req[q].pc = "flush" /\ req[q].kind = "batch" /\ writer = NoOne
        /\ UNCHANGED <<policy, closed, sealed, writer, wd>> /\ loop' \in {loop, NoOne}
    BY <1>5 DEF WriteBatch, Flushing, LeaveLoop
  <2>2. \/ UNCHANGED db /\ ((Known(q) /\ Reply(q)) \/ Refuse(q))
        \/ /\ ~closed /\ ~OverCount(p, Active, req[q].n) /\ Insert(q, p, "pending", 0)
    BY <1>5 DEF WriteBatch, Barred
  <2>3. p \in Rules
    BY <2>1 DEF CInv, Typed, Rules
  <2> HIDE DEF p
  <2>4. CASE UNCHANGED db /\ ((Known(q) /\ Reply(q)) \/ Refuse(q))
    BY <2>1, <2>4, AnswerKeepsRules
  <2>5. CASE ~closed /\ ~OverCount(p, Active, req[q].n) /\ Insert(q, p, "pending", 0)
    BY <1>1, <2>1, <2>3, <2>5, InsertKeepsRules
  <2> QED BY <2>2, <2>4, <2>5
<1> QED BY <1>2, <1>3, <1>4, <1>5
\* A stored record changes its status: what it is credited, and whether it may count
\* again, was decided among the others under the writer.
LEMMA RowKeepsRules ==
    ASSUME CInv, IInv', NEW CONSTANT r \in Records, writer = NoOne, ~closed,
           UNCHANGED <<policy, closed, sealed, loop, writer, req>>,
           \A w \in Withdrawals : wd'[w].from \in Statuses,
           record' \in [Records -> [status : Statuses, day : Nat, raw : Nat, credited : Nat,
                                    policy : Rules, from : Statuses]],
           \A s \in Records : s # r => record'[s] = record[s],
           record'[r].policy = record[r].policy,
           record'[r].credited > 0 => record'[r].status \in {"confirmed", "void"},
           record'[r].status \in {"pending", "confirmed"} => ~OverCount(record[r].policy, Active \ {r}, 1),
           record'[r].status = "confirmed" =>
              /\ record[r].status = "pending"
              /\ record'[r].credited = Credited(record[r].policy, record[r].raw, Ruled({"confirmed"}))
    PROVE  CInv'
<1> DEFINE p == record[r].policy
<1>1. p \in Rules /\ record[r].raw \in Nat
  BY DEF CInv, Typed
<1>2. Typed'
  BY DEF CInv, Typed
<1>3. /\ \A s \in Records : s # r => (s \in Active' <=> s \in Active)
      /\ \A s \in Records : s # r => (s \in Ruled({"confirmed"})' <=> s \in Ruled({"confirmed"}))
  BY DEF Active, Ruled, Rows
<1>4. /\ r \in Active' => record'[r].status \in {"pending", "confirmed"}
      /\ r \in Ruled({"confirmed"})' => record'[r].status = "confirmed"
  BY DEF Active, Ruled, Rows
<1>5. Active' \subseteq Records /\ Scored' \subseteq Records /\ Limited' \subseteq Records
  BY DEF Active, Scored, Limited, Ruled, Rows
<1>6. LimitedWithinRules'
  <2>1. \A s \in Limited' \ {r} : s \in Limited /\ record'[s].policy = record[s].policy
    BY <1>3, <1>5 DEF Limited
  <2>2. \A s \in Limited' : s \in {r} => record'[s].policy = p
    OBVIOUS
  <2>3. ASSUME Active' \cap {r} # {}, p.configured, p.block PROVE Cardinality(Active') <= p.count
    <3>1. ~(Cardinality(Active \ {r}) + 1 > p.count)
      BY <1>4, <2>3 DEF OverCount
    <3>2. PICK A : A = Active'
      OBVIOUS
    <3>3. A \subseteq (Active \ {r}) \cup {r}
      BY <1>3, <1>5, <3>2
    <3>4. IsFiniteSet(Active)
      BY RowSets, RecordsFinite, FS_Subset
    <3>5. IsFiniteSet(Active \ {r}) /\ Cardinality(Active \ {r}) \in Nat
      BY <3>4, FS_Subset, FS_CardinalityType
    <3>6. IsFiniteSet((Active \ {r}) \cup {r}) /\
          Cardinality((Active \ {r}) \cup {r}) = Cardinality(Active \ {r}) + 1
      BY <3>5, FS_AddElement
    <3>7. Cardinality(A) <= Cardinality((Active \ {r}) \cup {r}) /\ Cardinality(A) \in Nat
      BY <3>3, <3>6, FS_Subset, FS_CardinalityType
    <3>8. p.count \in Nat
      BY <1>1, RuleTypes
    <3> HIDE DEF p
    <3>9. Cardinality(A) <= p.count
      BY <3>1, <3>5, <3>6, <3>7, <3>8
    <3> QED BY <3>2, <3>9
  <2> HIDE DEF p
  <2> QED BY <1>1, <2>1, <2>2, <2>3, LimitedKeeps DEF CInv
<1>7. CreditWithinRules'
  <2>1. \A s \in Scored' \ {r} : /\ s \in Scored /\ record'[s].policy = record[s].policy
                                 /\ record'[s].credited = record[s].credited
    BY <1>3, <1>5 DEF Scored
  <2>2. CASE record'[r].status # "confirmed"
    <3>1. \A s \in Scored' : s # r
      BY <1>4, <2>2 DEF Scored
    <3> QED BY <2>1, <3>1, ScoredKeeps DEF CInv
  <2>3. CASE record'[r].status = "confirmed"
    <3>1. r \notin Ruled({"confirmed"})
      BY <2>3 DEF Ruled, Rows
    <3>2. record'[r].credited = Credited(p, record[r].raw, Ruled({"confirmed"})) /\ record'[r].policy = p
      BY <2>3
    <3> HIDE DEF p
    <3> QED BY <1>1, <2>1, <3>1, <3>2, ScoredAdds DEF CInv
  <2> QED BY <2>2, <2>3
<1>8. SavingOpen' /\ SealKept'
  BY NobodySavesNext DEF SealKept
<1> QED BY <1>2, <1>6, <1>7, <1>8 DEF CInv

LEMMA ReviewKeepsRules ==
    ASSUME CInv, IInv', NEW r \in Records, Review(r)
    PROVE  CInv'
<1> DEFINE given == Credited(record[r].policy, record[r].raw, Ruled({"confirmed"}))
<1>1. /\ record \in [Records -> [status : Statuses, day : Nat, raw : Nat, credited : Nat,
                                 policy : Rules, from : Statuses]]
      /\ record[r].policy \in Rules /\ record[r].raw \in Nat
  BY DEF CInv, Typed
<1>2. given \in Nat
  BY <1>1, CreditGiven DEF CInv
<1>3. /\ writer = NoOne /\ ~closed /\ UNCHANGED <<policy, closed, sealed, loop, writer, req, wd>>
      /\ \A w \in Withdrawals : wd'[w].from \in Statuses
  BY DEF Review, Confirm, Reject, RestoreReview, CInv, Typed
<1> HIDE DEF given
<1>4. ASSUME NEW status \in {"confirmed", "pending", "rejected"}, NEW credited \in Nat,
             record' = [record EXCEPT ![r].status = status, ![r].credited = credited],
             credited > 0 => status = "confirmed",
             status \in {"pending", "confirmed"} => ~OverCount(record[r].policy, Active \ {r}, 1),
             status = "confirmed" => record[r].status = "pending" /\ credited = given
      PROVE  CInv'
  <2>1. status \in Statuses
    BY DEF Statuses
  <2>2. record' \in [Records -> [status : Statuses, day : Nat, raw : Nat, credited : Nat,
                                 policy : Rules, from : Statuses]]
    BY <1>1, <1>4, <2>1
  <2>3. /\ \A s \in Records : s # r => record'[s] = record[s]
        /\ record'[r].policy = record[r].policy
        /\ record'[r].status = status /\ record'[r].credited = credited
    BY <1>1, <1>4
  <2> QED BY <1>3, <1>4, <2>2, <2>3, RowKeepsRules DEF given
<1>5. CASE Confirm(r)
  <2>1. /\ record' = [record EXCEPT ![r].status = "confirmed", ![r].credited = given]
        /\ record[r].status = "pending" /\ ~OverCount(record[r].policy, Active \ {r}, 1)
    BY <1>5 DEF Confirm, given
  <2> QED BY <1>2, <1>4, <2>1
<1>6. CASE Reject(r)
  <2>1. record' = [record EXCEPT ![r].status = "rejected", ![r].credited = 0]
    BY <1>6 DEF Reject, CreditAfterReview
  <2> DEFINE none == 0
  <2>2. none \in Nat /\ ~(none > 0) /\ record' = [record EXCEPT ![r].status = "rejected", ![r].credited = none]
    BY <2>1
  <2> HIDE DEF none
  <2> QED BY <1>4, <2>2
<1>7. CASE RestoreReview(r)
  <2>1. /\ record' = [record EXCEPT ![r].status = "pending", ![r].credited = 0]
        /\ ~OverCount(record[r].policy, Active \ {r}, 1)
    BY <1>7 DEF RestoreReview, Vacant, CreditAfterReview
  <2> DEFINE none == 0
  <2>2. none \in Nat /\ ~(none > 0) /\ record' = [record EXCEPT ![r].status = "pending", ![r].credited = none]
    BY <2>1
  <2> HIDE DEF none
  <2> QED BY <1>4, <2>1, <2>2
<1> QED BY <1>5, <1>6, <1>7 DEF Review

\* A withdrawal reads, and later makes its record void with the credit it had.
LEMMA WithdrawalKeepsRules ==
    ASSUME CInv, IInv', NEW w \in Withdrawals,
           Withdraw(w) \/ \E r \in Records : ReadWithdrawn(w, r)
    PROVE  CInv'
<1>1. CASE \E r \in Records : ReadWithdrawn(w, r)
  <2>1. PICK r \in Records : ReadWithdrawn(w, r)
    BY <1>1
  <2>2. UNCHANGED <<db, policy, closed, sealed, loop, writer, req>>
    BY <2>1 DEF ReadWithdrawn
  <2>3. record[r].status \in Statuses
    BY DEF CInv, Typed
  <2>4. \A v \in Withdrawals : wd'[v].from \in Statuses
    BY <2>1, <2>3 DEF ReadWithdrawn, CInv, Typed, IInv, Shape
  <2>5. Typed'
    BY <2>2, <2>4 DEF CInv, Typed, db
  <2>6. Active' = Active
    BY <2>2, ActiveKept DEF CInv, db
  <2>7. SavingOpen'
    BY <2>2, <2>6 DEF CInv, SavingOpen
  <2> QED BY <2>2, <2>5, <2>7, UntouchedKeeps DEF db
<1>2. CASE Withdraw(w)
  <2> DEFINE r == wd[w].rec
  <2>1. /\ wd[w].pc = "read" /\ writer = NoOne /\ wd' = [wd EXCEPT ![w].pc = "done"]
        /\ UNCHANGED <<policy, closed, sealed, loop, writer, req>>
        /\ \/ UNCHANGED record
           \/ ~closed /\ record' = [record EXCEPT ![r].status = "void", ![r].from = wd[w].from]
    BY <1>2 DEF Withdraw
  <2>2. r \in Records
    BY <2>1 DEF CInv, IInv, StoredOnce
  <2>3. wd[w].from \in Statuses /\ \A v \in Withdrawals : wd'[v].from \in Statuses
    BY <2>1 DEF CInv, Typed, IInv, Shape
  <2> HIDE DEF r
  <2>4. CASE UNCHANGED record
    <3>1. Typed'
      BY <2>1, <2>3, <2>4 DEF CInv, Typed
    <3>2. SavingOpen'
      BY <2>1, NobodySavesNext
    <3> QED BY <2>1, <2>4, <3>1, <3>2, UntouchedKeeps
  <2>5. CASE ~closed /\ record' = [record EXCEPT ![r].status = "void", ![r].from = wd[w].from]
    <3>1. /\ "void" \in Statuses
          /\ record \in [Records -> [status : Statuses, day : Nat, raw : Nat, credited : Nat,
                                     policy : Rules, from : Statuses]]
      BY DEF Statuses, CInv, Typed
    <3>2. record' \in [Records -> [status : Statuses, day : Nat, raw : Nat, credited : Nat,
                                   policy : Rules, from : Statuses]]
      BY <2>3, <2>5, <3>1
    <3>3. /\ \A s \in Records : s # r => record'[s] = record[s]
          /\ record'[r].policy = record[r].policy /\ record'[r].status = "void"
      BY <2>2, <2>5, <3>1
    <3> QED BY <2>1, <2>2, <2>3, <2>5, <3>2, <3>3, RowKeepsRules
  <2> QED BY <2>1, <2>4, <2>5
<1> QED BY <1>1, <1>2

\* A close waits for reviews and for whoever awaits an image, and seals the sum.
LEMMA MonthKeepsRules ==
    ASSUME CInv, IInv',
           \/ CloseMonth \/ ReopenMonth
           \/ \E p \in Policies, from, until \in Days : SaveConfig(p, from, until)
    PROVE  CInv'
<1>1. /\ writer = NoOne /\ UNCHANGED <<db, loop, writer, req, wd>>
  BY DEF CloseMonth, ReopenMonth, SaveConfig
<1>2. SavingOpen'
  BY <1>1, NobodySavesNext
<1>3. Active' = Active /\ Scored' = Scored
  BY <1>1 DEF Active, Scored, Ruled, Rows, db
<1>4. CreditWithinRules'
  BY <1>1, <1>3, ScoredKeeps DEF CInv, db
<1>5. LimitedWithinRules'
  BY <1>1, <1>3 DEF CInv, LimitedWithinRules, Limited, db
<1>6. Typed' /\ SealKept'
  <2>1. CASE CloseMonth
    <3>1. PICK R : R = Rows({"confirmed"})
      OBVIOUS
    <3>2. sealed' = Credit(R) /\ Credit(R) \in Nat
      BY <2>1, <3>1, RowSets, CreditIsNat DEF CloseMonth, CInv
    <3>3. Rows({"confirmed"})' = R /\ Rows({"pending"})' = {}
      BY <1>1, <2>1, <3>1 DEF Rows, db, CloseMonth, Reviewed
    <3>4. Credit(R)' = Credit(R)
      BY <1>1, NowCredit, NextCredit DEF db
    <3>5. Credit(Rows({"confirmed"}))' = Credit(R)'
      BY <3>3 DEF Credit, MapThenSumSet, MapThenFoldSet
    <3>6. closed' = TRUE /\ policy' = policy
      BY <2>1 DEF CloseMonth
    <3> QED BY <1>1, <3>2, <3>3, <3>4, <3>5, <3>6 DEF CInv, Typed, SealKept, db
  <2>2. CASE ReopenMonth
    <3>1. closed' = FALSE /\ sealed' = 0 /\ policy' = policy
      BY <2>2 DEF ReopenMonth
    <3> QED BY <1>1, <3>1 DEF CInv, Typed, SealKept, db
  <2>3. ASSUME NEW p \in Policies, NEW from \in Days, NEW until \in Days, SaveConfig(p, from, until)
        PROVE  Typed' /\ SealKept'
    <3>1. closed' = closed /\ sealed' = sealed
      BY <2>3 DEF SaveConfig
    <3>2. policy' \in [Days -> Policies \cup Initials]
      BY <2>3 DEF SaveConfig, CInv, Typed
    <3>3. Typed'
      BY <1>1, <3>1, <3>2 DEF CInv, Typed, db
    <3>4. SealKept'
      BY <1>1, <3>1 DEF CInv, SealKept, Rows, Credit, MapThenSumSet, MapThenFoldSet, db
    <3> QED BY <3>3, <3>4
  <2> QED BY <2>1, <2>2, <2>3
<1> QED BY <1>2, <1>4, <1>5, <1>6 DEF CInv
LEMMA InitRules == Init => CInv
<1> SUFFICES ASSUME Init PROVE CInv
  OBVIOUS
<1>1. \A r \in Records : record[r].status = "none"
  BY DEF Init, Blank
<1>2. \A q \in Requests : req[q].pc = "idle" /\ req[q].day = 0 /\ req[q].raw = 0 /\ req[q].policy = Unruled
  BY DEF Init, Unsent
<1>3. Active = {} /\ Scored = {} /\ Limited = {}
  BY <1>1 DEF Active, Scored, Limited, Ruled, Rows
<1>4. Typed
  <2>1. /\ Blank \in [status : Statuses, day : Nat, raw : Nat, credited : Nat,
                      policy : Rules, from : Statuses]
        /\ ~(Blank.credited > 0)
    BY DEF Blank, Statuses, Rules
  <2>2. \A r \in Records : record[r] = Blank
    BY DEF Init
  <2>3. /\ record \in [Records -> [status : Statuses, day : Nat, raw : Nat, credited : Nat,
                                   policy : Rules, from : Statuses]]
        /\ \A r \in Records : record[r].credited > 0 => record[r].status \in {"confirmed", "void"}
    <3> HIDE DEF Blank
    <3> QED BY <2>1, <2>2 DEF Init
  <2>4. policy \in [Days -> Policies \cup Initials]
    BY DEF Init
  <2>5. Unruled \in Rules
    BY DEF Rules
  <2>6. \A w \in Withdrawals : wd[w].from \in Statuses
    BY DEF Init, Statuses
  <2>7. \A q \in Requests : /\ req[q].day \in Nat /\ req[q].raw \in Nat /\ req[q].policy \in Rules
                            /\ req[q].pc # "idle" => req[q].day \in Days
    <3>1. 0 \in Nat
      OBVIOUS
    <3> QED BY <1>2, <2>5, <3>1
  <2>8. closed \in BOOLEAN /\ sealed \in Nat /\ loop \in Requests \cup {NoOne}
    BY DEF Init
  <2> QED BY <2>3, <2>4, <2>6, <2>7, <2>8 DEF Typed
<1>5. SavingOpen
  BY <1>2 DEF Init, SavingOpen
<1>6. CreditWithinRules /\ LimitedWithinRules /\ SealKept
  BY <1>3 DEF CreditWithinRules, LimitedWithinRules, SealKept, Init
<1> QED BY <1>4, <1>5, <1>6, InitHolds DEF CInv

LEMMA RulesHold == CInv => CreditKept
<1> SUFFICES ASSUME CInv PROVE CreditKept
  OBVIOUS
<1>1. writer # NoOne <=> \E q \in Requests : req[q].pc = "saving"
  BY NamesAssumption DEF CInv, SavingOpen, IInv, SavingSafe
<1>2. quota \subseteq Records
  BY DEF CInv, IInv, QuotaOwned, Active, Ruled, Rows
<1>3. TypeOK
  BY <1>1, <1>2 DEF TypeOK, CInv, Typed, SavingOpen, Rules
<1> QED BY <1>3 DEF CreditKept, CInv

\* What confirmed records are credited stays within the rules frozen in them, in sum
\* and in number, and a closed month's seal is what they are credited with.
THEOREM CreditIsKept == Spec => []CreditKept
<1>1. CInv /\ IInv' /\ [Next]_vars => CInv'
  <2> SUFFICES ASSUME CInv, IInv', [Next]_vars PROVE CInv'
    OBVIOUS
  <2>1. ASSUME NEW q \in Requests, Submission(q) PROVE CInv'
    <3>1. CASE BusyTimeout(q)
      <4>1. /\ req[q].pc = "flush" /\ Refuse(q) /\ loop' \in {loop, NoOne}
            /\ UNCHANGED <<db, policy, closed, sealed, writer, wd>>
        BY <3>1 DEF BusyTimeout, TimesOut, LeaveLoop
      <4> QED BY <4>1, AnswerKeepsRules
    <3> QED BY <2>1, <3>1, SentKeepsRules, FlushSelfKeepsRules, StoreKeepsRules DEF Submission
  <2>2. ASSUME NEW r \in Records, Review(r) PROVE CInv'
    BY <2>2, ReviewKeepsRules
  <2>3. ASSUME NEW w \in Withdrawals, Withdraw(w) \/ \E r \in Records : ReadWithdrawn(w, r) PROVE CInv'
    BY <2>3, WithdrawalKeepsRules
  <2>4. ASSUME \/ CloseMonth \/ ReopenMonth
               \/ \E p \in Policies, from, until \in Days : SaveConfig(p, from, until)
        PROVE  CInv'
    BY <2>4, MonthKeepsRules
  <2>5. ASSUME UNCHANGED vars PROVE CInv'
    <3>1. UNCHANGED <<record, policy, closed, sealed, loop, writer, req, wd>>
      BY <2>5 DEF vars
    <3>2. Typed'
      BY <3>1 DEF CInv, Typed
    <3>3. Active' = Active
      BY <3>1 DEF Active, Ruled, Rows
    <3>4. SavingOpen'
      BY <3>1, <3>3 DEF CInv, SavingOpen
    <3> QED BY <3>1, <3>2, <3>4, UntouchedKeeps
  <2> QED BY <2>1, <2>2, <2>3, <2>4, <2>5 DEF Next
<1>2. CInv => IInv
  BY DEF CInv
<1> QED BY <1>1, <1>2, InitRules, RulesHold, StepKeeps, PTL DEF Spec
===============================================================================
