------------------------------ MODULE Recognition ------------------------------
(***************************************************************************)
(* Recognitions (routers/recognitions.py) of one employee, one month and   *)
(* one recognition type: single, proxy, batch and special-contribution     *)
(* submissions, reviews, withdrawals, the month's close and the scoring    *)
(* rules an administrator changes meanwhile (routers/scoring_config.py).   *)
(*                                                                         *)
(* Submissions run on the server's one event loop and keep it until they   *)
(* await; the special contribution, reviews and withdrawals run on         *)
(* threads.  SQLite has one writer.  A transaction that holds the writer   *)
(* until its commit is one action; the single submission of one's own      *)
(* recognition is two, because it awaits the decoding of its image while   *)
(* it holds the writer.                                                    *)
(***************************************************************************)
EXTENDS Integers, FiniteSets, FiniteSetsExt

CONSTANTS
    Requests,      \* submissions that reach the server
    Kinds,         \* the entries in use: "self", "manager", "batch", "poc"
    Keys, NoKey,   \* submission keys chosen by the client; NoKey: none sent
    BatchMax,      \* records of one batch (5 in the code)
    Days,          \* days of the month on which a recognition happened
    Scores,        \* original scores
    Policies,      \* rules an administrator may save
    Initials,      \* the rules of the type before any was saved
    Withdrawals,   \* withdrawal requests
    NoOne          \* nobody holds the loop or the writer

ASSUME EntriesAssumption == /\ Kinds \subseteq {"self", "manager", "batch", "poc"}
                            /\ BatchMax \in Nat \ {0}
ASSUME NamesAssumption == /\ NoKey \notin Keys
                          /\ NoOne \notin Requests
ASSUME NumbersAssumption == Days \subseteq Nat /\ Scores \subseteq Nat
ASSUME FiniteAssumption == IsFiniteSet(Requests)

\* A limit that is not set.
Unlimited == 99

Policy == [configured : BOOLEAN, fixed : BOOLEAN, block : BOOLEAN, count : Nat, cap : Nat]
\* A special contribution is a type of its own that no rule limits.
Unruled == [configured |-> FALSE, fixed |-> FALSE, block |-> FALSE,
            count |-> Unlimited, cap |-> Unlimited]
ASSUME PolicyAssumption == /\ Initials \subseteq Policy
                           /\ \A p \in Policies : p \in Policy /\ p.configured

VARIABLES
    record,    \* the rows of recognition_records
    quota,     \* records that hold the month's row of recognition_monthly_quotas
    receipts,  \* rows of submission_requests
    policy,    \* the rule each day resolves to
    closed, sealed,  \* the month's closure and the score it sealed
    loop,      \* the submission that occupies the event loop
    writer,    \* the submission that holds SQLite's writer across an await
    req,       \* each submission: its form, its progress, its answer
    wd         \* each withdrawal: the record it read and the status it saw

vars == <<record, quota, receipts, policy, closed, sealed, loop, writer, req, wd>>
db == <<record, quota, receipts>>

Records == Requests \X (1..BatchMax)
Statuses == {"none", "pending", "confirmed", "rejected", "void"}
Blank == [status |-> "none", day |-> 0, raw |-> 0, credited |-> 0,
          policy |-> Unruled, from |-> "none"]
Unsent == [pc |-> "idle", kind |-> "self", key |-> NoKey, day |-> 0, raw |-> 0, n |-> 1,
           again |-> FALSE, policy |-> Unruled, answer |-> NoOne]

Rows(status) == {r \in Records : record[r].status \in status}
\* Those of the type that has the rule.
Ruled(status) == {r \in Rows(status) : req[r[1]].kind # "poc"}
Active == Ruled({"pending", "confirmed"})
Credit(R) == MapThenSumSet(LAMBDA r : record[r].credited, R)
-----------------------------------------------------------------------------
(* The rules of one type. *)

\* One row per employee and month stands for a fixed score given once.
TakesQuota(p) == p.fixed /\ p.block /\ p.count = 1
\* reserve_count: n more records than the rule allows beside the others.
OverCount(p, others, n) ==
    p.configured /\ p.block /\ Cardinality(others) + n > p.count
\* Seeded fault: the cap is forgotten.
CreditedWhole(p, raw, confirmed) ==
    IF p.configured /\ Cardinality(confirmed) >= p.count THEN 0 ELSE raw
\* apply_monthly_category_cap and apply_credit: what a confirmation credits.
Credited(p, raw, confirmed) ==
    IF p.configured /\ Cardinality(confirmed) >= p.count THEN 0
    ELSE Min({raw, Max({0, p.cap - Credit(confirmed)})})
-----------------------------------------------------------------------------
(* Submission receipts. *)

Payload(q) == <<req[q].day, req[q].raw, req[q].n, req[q].again>>
ReceiptOf(kind, key) == {t \in receipts : t.kind = kind /\ t.key = key}
\* existing_submission: a repeated submission is answered with its first record,
\* one with the same key and another content is refused.
Replied(kind, key, payload) ==
    LET t == CHOOSE t \in ReceiptOf(kind, key) : TRUE
    IN IF t.payload = payload THEN [pc |-> "done", answer |-> t.owner]
       ELSE [pc |-> "refused", answer |-> NoOne]
Reply(q) == LET a == Replied(req[q].kind, req[q].key, Payload(q))
            IN req' = [req EXCEPT ![q].pc = a.pc, ![q].answer = a.answer]
Refuse(q) == req' = [req EXCEPT ![q].pc = "refused"]
\* Seeded fault: another content with a known key counts as new.
KnownSameContent(q) == \E t \in ReceiptOf(req[q].kind, req[q].key) : t.payload = Payload(q)
Known(q) == ReceiptOf(req[q].kind, req[q].key) # {}
LeaveLoop(q) == loop' = IF loop = q THEN NoOne ELSE loop

\* The rows a submission adds, committed together with its receipt.
Insert(q, p, status, credited) ==
    LET new == {q} \X (1..req[q].n) IN
    /\ record' = [r \in Records |->
           IF r \in new
           THEN [status |-> status, day |-> req[q].day, raw |-> req[q].raw,
                 credited |-> credited, policy |-> p, from |-> "none"]
           ELSE record[r]]
    /\ quota' = quota \cup IF TakesQuota(p) THEN new ELSE {}
    /\ receipts' = receipts \cup
           IF req[q].key = NoKey THEN {}
           ELSE {[kind |-> req[q].kind, key |-> req[q].key,
                  payload |-> Payload(q), owner |-> q]}
    /\ req' = [req EXCEPT ![q].pc = "done", ![q].answer = q]
-----------------------------------------------------------------------------
Init ==
    /\ record = [r \in Records |-> Blank]
    /\ quota = {} /\ receipts = {}
    /\ \E i \in Initials : policy = [d \in Days |-> i]
    /\ closed = FALSE /\ sealed = 0
    /\ loop = NoOne /\ writer = NoOne
    /\ req = [q \in Requests |-> Unsent]
    /\ wd = [w \in Withdrawals |-> [pc |-> "idle", rec |-> NoOne, from |-> "none"]]

\* A form as the client fills it in.
Form(q) ==
    /\ req[q].pc = "idle"
    /\ \E kind \in Kinds, key \in Keys \cup {NoKey}, day \in Days, raw \in Scores,
          n \in 1..BatchMax, again \in BOOLEAN :
        /\ n = 1 \/ kind = "batch"
        /\ key # NoKey \/ kind # "batch"
        /\ req' = [req EXCEPT ![q] = [@ EXCEPT !.pc = "sent", !.kind = kind, !.key = key,
                       !.day = day, !.raw = raw, !.n = n, !.again = again]]
    /\ UNCHANGED <<db, policy, closed, sealed, loop, writer, wd>>

\* Reads of _create_recognition and create_poc_recognition, before any write:
\* the receipt, the month, the day's other records, the quota row.
SameDay(q) == {r \in Active : record[r].day = req[q].day}
Objection(q, p) ==
    \/ closed
    \/ req[q].kind # "poc" /\ SameDay(q) # {} /\ ~req[q].again
    \/ TakesQuota(p) /\ quota # {}

StartSingle(q) ==
    LET p == IF req[q].kind = "poc" THEN Unruled ELSE policy[req[q].day] IN
    /\ req[q].pc = "sent" /\ req[q].kind # "batch"
    /\ req[q].kind = "poc" \/ loop = NoOne
    /\ \/ /\ Known(q) /\ Reply(q) /\ UNCHANGED loop
       \/ /\ ~Known(q) /\ Objection(q, p) /\ Refuse(q) /\ UNCHANGED loop
       \/ /\ ~Known(q) /\ ~Objection(q, p)
          /\ req' = [req EXCEPT ![q].pc = "flush", ![q].policy = p]
          /\ loop' = IF req[q].kind = "poc" THEN loop ELSE q
    /\ UNCHANGED <<db, policy, closed, sealed, writer, wd>>

\* The batch has read its image and asks for the writer before it reads anything.
StartBatch(q) ==
    /\ req[q].pc = "sent" /\ req[q].kind = "batch" /\ loop = NoOne
    /\ req' = [req EXCEPT ![q].pc = "flush"]
    /\ loop' = q
    /\ UNCHANGED <<db, policy, closed, sealed, writer, wd>>

Flushing(q, kinds) == req[q].pc = "flush" /\ req[q].kind \in kinds /\ writer = NoOne
\* What is refused under the writer: the month, the count, the unique quota row.
QuotaTaken(p) == TakesQuota(p) /\ quota # {}
Barred(q, p) == closed \/ OverCount(p, Active, req[q].n) \/ QuotaTaken(p)
\* A unique key that another submission took first: its record is the answer.
Overtaken(q, p) == Known(q) /\ ~closed /\ ~OverCount(p, Active, req[q].n)

\* A submission on behalf of an employee: flush, checks and commit.
FlushManager(q) ==
    LET p == req[q].policy IN
    /\ Flushing(q, {"manager"})
    /\ \/ /\ Barred(q, p)
          /\ IF Overtaken(q, p) THEN Reply(q) ELSE Refuse(q)
          /\ UNCHANGED db
       \/ /\ ~Barred(q, p)
          /\ IF Known(q) THEN Reply(q) /\ UNCHANGED db
             ELSE Insert(q, p, "confirmed", Credited(p, req[q].raw, Ruled({"confirmed"})))
    /\ LeaveLoop(q)
    /\ UNCHANGED <<policy, closed, sealed, writer, wd>>

\* A special contribution: no rule limits it, its score is its own.
FlushPoc(q) ==
    /\ Flushing(q, {"poc"})
    /\ \/ closed /\ Refuse(q) /\ UNCHANGED db
       \/ ~closed /\ Known(q) /\ Reply(q) /\ UNCHANGED db
       \/ ~closed /\ ~Known(q) /\ Insert(q, req[q].policy, "confirmed", req[q].raw)
    /\ UNCHANGED <<policy, closed, sealed, loop, writer, wd>>

\* One's own submission: the flush takes the writer, the image is awaited with it.
FlushSelf(q) ==
    LET p == req[q].policy IN
    /\ Flushing(q, {"self"})
    /\ \/ /\ Barred(q, p)
          /\ IF Overtaken(q, p) THEN Reply(q) ELSE Refuse(q)
          /\ UNCHANGED writer
       \/ /\ ~Barred(q, p)
          /\ req' = [req EXCEPT ![q].pc = "saving"]
          /\ writer' = q
    /\ LeaveLoop(q)
    /\ UNCHANGED <<db, policy, closed, sealed, wd>>

SaveSelf(q) ==
    /\ req[q].pc = "saving" /\ loop = NoOne
    /\ writer' = NoOne
    /\ IF Known(q) THEN Reply(q) /\ UNCHANGED db
       ELSE Insert(q, req[q].policy, "pending", 0)
    /\ UNCHANGED <<policy, closed, sealed, loop, wd>>

\* The image is refused or the client is gone: everything is rolled back.
SaveSelfFails(q) ==
    /\ req[q].pc = "saving" /\ loop = NoOne
    /\ writer' = NoOne
    /\ Refuse(q)
    /\ UNCHANGED <<db, policy, closed, sealed, loop, wd>>

\* BEGIN IMMEDIATE, the receipt, then every entry with the checks of a single one.
WriteBatch(q) ==
    LET p == policy[req[q].day]
        again == req[q].again \/ (SameDay(q) = {} /\ req[q].n = 1)
        bars == Barred(q, p) \/ ~again \/ (TakesQuota(p) /\ req[q].n > 1)
    IN /\ Flushing(q, {"batch"})
       /\ \/ Known(q) /\ Reply(q) /\ UNCHANGED db
          \/ ~Known(q) /\ bars /\ Refuse(q) /\ UNCHANGED db
          \/ ~Known(q) /\ ~bars /\ Insert(q, p, "pending", 0)
       /\ LeaveLoop(q)
       /\ UNCHANGED <<policy, closed, sealed, writer, wd>>

\* Seeded fault: a statement on the event loop waits for ever.
TimesOutOnThread(q) == req[q].pc = "flush" /\ writer # NoOne /\ loop # q
\* SQLite's busy timeout: the statement fails, the submission is rolled back.
TimesOut(q) == req[q].pc = "flush" /\ writer # NoOne
BusyTimeout(q) ==
    /\ TimesOut(q)
    /\ Refuse(q) /\ LeaveLoop(q)
    /\ UNCHANGED <<db, policy, closed, sealed, writer, wd>>
-----------------------------------------------------------------------------
(* Reviews, withdrawals, closes and rules: threads. *)

\* apply_recognition_review, from BEGIN IMMEDIATE to the commit.
Confirm(r) ==
    LET row == record[r] IN
    /\ writer = NoOne /\ ~closed /\ row.status = "pending"
    /\ ~OverCount(row.policy, Active \ {r}, 1)
    /\ TakesQuota(row.policy) => quota \subseteq {r}
    /\ record' = [record EXCEPT ![r].status = "confirmed",
                  ![r].credited = Credited(row.policy, row.raw, Ruled({"confirmed"}))]
    /\ quota' = quota \cup IF TakesQuota(row.policy) THEN {r} ELSE {}
    /\ UNCHANGED <<receipts, policy, closed, sealed, loop, writer, req, wd>>

\* Seeded fault: a record that is rejected keeps its credit.
CreditUntouched(r) == record[r].credited
\* A record that is no longer confirmed is credited with nothing.
CreditAfterReview(r) == 0

Reject(r) ==
    /\ writer = NoOne /\ ~closed /\ record[r].status = "pending"
    /\ record' = [record EXCEPT ![r].status = "rejected", ![r].credited = CreditAfterReview(r)]
    /\ quota' = quota \ {r}
    /\ UNCHANGED <<receipts, policy, closed, sealed, loop, writer, req, wd>>

\* Seeded fault: the quota row is not looked at.
VacantCountOnly(r) == ~OverCount(record[r].policy, Active \ {r}, 1)
Vacant(r) ==
    LET p == record[r].policy IN
    /\ ~OverCount(p, Active \ {r}, 1)
    /\ TakesQuota(p) => quota \subseteq {r}

RestoreReview(r) ==
    /\ writer = NoOne /\ ~closed /\ record[r].status \in {"confirmed", "rejected"}
    /\ Vacant(r)
    /\ record' = [record EXCEPT ![r].status = "pending", ![r].credited = CreditAfterReview(r)]
    /\ quota' = quota \cup IF TakesQuota(record[r].policy) THEN {r} ELSE {}
    /\ UNCHANGED <<receipts, policy, closed, sealed, loop, writer, req, wd>>

\* withdraw_recognition: the row is read without the writer ...
ReadWithdrawn(w, r) ==
    /\ wd[w].pc = "idle" /\ record[r].status \notin {"none", "void"} /\ ~closed
    /\ wd' = [wd EXCEPT ![w] = [pc |-> "read", rec |-> r, from |-> record[r].status]]
    /\ UNCHANGED <<db, policy, closed, sealed, loop, writer, req>>

\* Seeded fault: only a pending record gives its quota row back.
FreedIfPending(r) == IF \E w \in Withdrawals : wd[w].rec = r /\ wd[w].from = "pending"
                     THEN {r} ELSE {}
\* ... and written, by its primary key, whatever happened to it since.
Freed(r) == {r}
Withdraw(w) ==
    LET r == wd[w].rec IN
    /\ wd[w].pc = "read" /\ writer = NoOne
    /\ wd' = [wd EXCEPT ![w].pc = "done"]
    /\ \/ /\ closed /\ UNCHANGED <<record, quota>>
       \/ /\ ~closed
          /\ record' = [record EXCEPT ![r].status = "void", ![r].from = wd[w].from]
          /\ quota' = quota \ Freed(r)
    /\ UNCHANGED <<receipts, policy, closed, sealed, loop, writer, req>>

\* Seeded fault: the close does not wait for reviews.
ReviewedOrNot == TRUE
\* A close needs the month's submissions reviewed and seals the credited score.
Reviewed == Rows({"pending"}) = {}
CloseMonth ==
    /\ writer = NoOne /\ ~closed /\ Reviewed
    /\ closed' = TRUE /\ sealed' = Credit(Rows({"confirmed"}))
    /\ UNCHANGED <<db, policy, loop, writer, req, wd>>

ReopenMonth ==
    /\ writer = NoOne /\ closed
    /\ closed' = FALSE /\ sealed' = 0
    /\ UNCHANGED <<db, policy, loop, writer, req, wd>>

\* save_config: from a day on, until the day of the next version.
SaveConfig(p, from, until) ==
    /\ writer = NoOne
    /\ policy' = [d \in Days |-> IF from <= d /\ d <= until THEN p ELSE policy[d]]
    /\ UNCHANGED <<db, closed, sealed, loop, writer, req, wd>>
-----------------------------------------------------------------------------
Submission(q) == \/ Form(q) \/ StartSingle(q) \/ StartBatch(q) \/ FlushManager(q)
                 \/ FlushPoc(q) \/ FlushSelf(q) \/ SaveSelf(q) \/ SaveSelfFails(q) \/ WriteBatch(q)
                 \/ BusyTimeout(q)
Review(r) == Confirm(r) \/ Reject(r) \/ RestoreReview(r)
Next == \/ \E q \in Requests : Submission(q)
        \/ \E r \in Records : Review(r)
        \/ \E w \in Withdrawals, r \in Records : ReadWithdrawn(w, r)
        \/ \E w \in Withdrawals : Withdraw(w)
        \/ CloseMonth \/ ReopenMonth
        \/ \E p \in Policies, from, until \in Days : SaveConfig(p, from, until)

Spec == Init /\ [][Next]_vars

\* The loop runs what is ready, a decoding ends, a busy statement times out.
Answering(q) == \/ StartSingle(q) \/ StartBatch(q) \/ FlushManager(q) \/ FlushPoc(q)
                \/ FlushSelf(q) \/ SaveSelf(q) \/ WriteBatch(q) \/ BusyTimeout(q)
FairSpec == Spec /\ \A q \in Requests : WF_vars(Answering(q))
-----------------------------------------------------------------------------
(* Types. *)
TypeOK ==
    /\ record \in [Records -> [status : Statuses, day : Nat, raw : Nat, credited : Nat,
                                policy : Policies \cup Initials \cup {Unruled}, from : Statuses]]
    /\ quota \subseteq Records
    /\ policy \in [Days -> Policies \cup Initials]
    /\ closed \in BOOLEAN /\ sealed \in Nat
    /\ loop \in Requests \cup {NoOne} /\ writer \in Requests \cup {NoOne}
    /\ writer # NoOne <=> \E q \in Requests : req[q].pc = "saving"
    /\ \A r \in Records : record[r].credited > 0 => record[r].status \in {"confirmed", "void"}

\* What confirmed records are credited stays within the rules that were frozen in
\* them, however submissions, reviews, withdrawals and new rules interleave: of any
\* of them together one has a rule whose cap the sum respects
\* (apply_monthly_category_cap), and of any under a configured rule one whose count
\* scores so many (apply_credit).
Scored == {r \in Ruled({"confirmed"}) : record[r].credited > 0}
CreditWithinRules ==
    \A C \in SUBSET Scored :
        C # {} =>
            /\ \E r \in C : Credit(C) <= record[r].policy.cap
            /\ (\A r \in C : record[r].policy.configured)
                  => \E r \in C : Cardinality(C) <= record[r].policy.count

\* A type may be given a number of times a month.  Of any records under configured
\* rules that block, pending ones included, one has a rule that allows so many
\* (reserve_count).
Limited == {r \in Active : record[r].policy.configured /\ record[r].policy.block}
LimitedWithinRules ==
    \A L \in SUBSET Limited :
        L # {} => \E r \in L : Cardinality(L) <= record[r].policy.count

\* The same of all active records, those of a rule that was never configured
\* included.  The code does not promise it: only the quota row limits those.
CountWithinRules ==
    LET Allowed(p) == IF p.block /\ (p.configured \/ TakesQuota(p)) THEN p.count ELSE Unlimited
    IN Active # {} => Cardinality(Active) <= Max({Allowed(record[r].policy) : r \in Active})

\* The month's quota row belongs to the one active record whose rule takes it: it
\* is neither lost while the record counts nor kept after a rejection or withdrawal
\* (apply_recognition_review, withdraw_recognition).
QuotaMatches ==
    /\ quota = {r \in Active : TakesQuota(record[r].policy)}
    /\ Cardinality(quota) <= 1

\* Submissions with one key are answered with one and the same record
\* (existing_submission, remember_submission).
OneRecordPerKey ==
    \A q, s \in Requests :
        (/\ req[q].pc = "done" /\ req[s].pc = "done" /\ req[q].key # NoKey
         /\ req[q].kind = req[s].kind /\ req[q].key = req[s].key) => req[q].answer = req[s].answer

\* What a close sealed is what the month's confirmed records are credited with
\* until it is reopened, and none of them awaits a review meanwhile.
SealKept == closed => /\ sealed = Credit(Rows({"confirmed"}))
                      /\ Rows({"pending"}) = {}

\* The rules of the month hold of its records at every moment, and the seal of a
\* closed one: types, credit, numbers.
CreditKept == TypeOK /\ CreditWithinRules /\ LimitedWithinRules /\ SealKept

\* What may happen once happens once: a quota row, the record of a submission.
TakenOnce == QuotaMatches /\ OneRecordPerKey

\* A withdrawn record keeps the status it was withdrawn from (the column
\* voided_from_status, the report's "status before the void").
WithdrawnFromStatus ==
    [][\A r \in Records : record'[r].status = "void" /\ record[r].status # "void"
                           => record'[r].from = record[r].status]_vars

\* The event loop never waits for a writer held by a submission that needs the
\* loop to go on: uploads do not reserve the writer (month_closure.py).
LoopNotStalled == ~\E q, s \in Requests : loop = q /\ req[q].pc = "flush" /\ writer = s

\* Every submission that reached the server is answered: a submission that waits,
\* on the loop, for a writer whose holder needs the loop is freed by the timeout
\* (the connection's busy_timeout in database/connection.py).
EverySubmissionAnswered ==
    \A q \in Requests : req[q].pc \in {"sent", "flush", "saving"} ~> req[q].pc \in {"done", "refused"}
=============================================================================
