----------------------------- MODULE Announcements -----------------------------
(***************************************************************************)
(* One announcement: its versions, who has to receipt them and the codes   *)
(* with which trainers let people sign (announcements.py,                  *)
(* announcement_training.py, announcement_worker.py and                    *)
(* routers/announcements.py).                                              *)
(*                                                                         *)
(* Every operation takes SQLite's writer (BEGIN IMMEDIATE) before its      *)
(* first read, so each is one action; a refused one is rolled back, save   *)
(* for a wrong code, whose count is committed.  What happens around them   *)
(* happens at any moment: people change circle, leave, come back, go on    *)
(* leave, trainers lose and regain their role, days pass, codes run out.   *)
(* The deliveries follow only when some request or the worker reconciles.  *)
(*                                                                         *)
(* Abstracted: what is written, attachments and signature images, the      *)
(* levels below the signature (all complete a delivery), circles, tiers    *)
(* and projects (a draft's scope is a set of places, Away is in no scope), *)
(* the trainers' circle (Able trainers are those set_trainers accepts),    *)
(* notifications, and who owns the announcement (AnnouncementOwners).      *)
(***************************************************************************)
EXTENDS Integers, FiniteSets, SequencesExt

CONSTANTS
    Employees, Trainers,
    Places, Away,
    Drafts,      \* records [scope, effective, expires, due, training]
    Grace,       \* days a late receiver gets
    Tries,       \* wrong codes until the lock
    LastDay,     \* bound: days
    MaxVersions, MaxCodes, MaxChanges   \* bounds

Never == LastDay + Grace + 1
ASSUME BoundsAssumption ==
    /\ {Grace, Tries, LastDay, MaxVersions} \subseteq Nat \ {0}
    /\ {MaxCodes, MaxChanges} \subseteq Nat
ASSUME DraftsAssumption ==
    /\ Away \notin Places
    /\ Drafts \subseteq [scope : SUBSET Places, effective : 1..LastDay, expires : 1..Never,
                         due : 1..Never, training : BOOLEAN]
    \* AnnouncementInput.valid
    /\ \A x \in Drafts : x.effective <= x.due /\ x.due <= x.expires

VARIABLES
    today,
    place, leave,    \* where an employee is, whether on leave
    able,            \* the trainers a grant may name and who may use it
    withdrawn,       \* Announcement.status
    versions,        \* the drafts published, in order
    receipts,        \* AnnouncementDelivery, by version and employee
    since,           \* history: the day a receipt was last asked for late, 0 if never
    grants,          \* AnnouncementTrainer, of the current version
    codes,           \* AnnouncementTrainingCode
    wrong,           \* AnnouncementTrainingAttempt, of the current version
    changes

world == <<place, leave, able, changes>>
notice == <<withdrawn, versions>>
training == <<grants, codes, wrong>>
vars == <<today, world, notice, receipts, since, training>>

Unasked == [status |-> "none", paused |-> FALSE, due |-> 0, signed |-> FALSE, code |-> 0]
NoTries == [e \in Employees |-> [failures |-> 0, locked |-> FALSE]]

Init ==
    /\ today = 1
    /\ place \in [Employees -> Places \cup {Away}] /\ leave = {} /\ able = Trainers
    /\ withdrawn = FALSE /\ versions = <<>>
    /\ receipts = [v \in 1..MaxVersions |-> [e \in Employees |-> Unasked]]
    /\ since = [v \in 1..MaxVersions |-> [e \in Employees |-> 0]]
    /\ grants = {} /\ codes = <<>> /\ wrong = NoTries
    /\ changes = 0
-----------------------------------------------------------------------------
(* What holds now. *)

current == Len(versions)
Over(draft, day) == draft.expires < day
\* effective
InForce(vs, v) ==
    /\ vs # <<>> /\ v = Len(vs) /\ ~withdrawn
    /\ vs[v].effective <= today /\ ~Over(vs[v], today)
\* intended
Intended(draft) == {e \in Employees : place[e] \in draft.scope}
\* authorized
Authorized(gs) == gs \cap able

Sooner(i, j) == IF i < j THEN i ELSE j
GraceDay(draft) == Sooner(today + Grace, draft.expires)
Extended(due, draft) == IF due < today THEN GraceDay(draft) ELSE due
-----------------------------------------------------------------------------
(* sync_current, on the state a request has reached. *)

NewReceipt(e, draft, late) ==
    [Unasked EXCEPT !.status = IF e \in leave THEN "suspended" ELSE "pending",
                 !.paused = e \in leave,
                 !.due = IF late THEN Extended(draft.due, draft) ELSE draft.due]

Standing(r, e) == IF e \in leave THEN "suspended" ELSE IF r.signed THEN "completed" ELSE "pending"
\* Seeded fault: only those who return from leave get time to sign.
ComesBackFromLeave(r, e) == e \notin leave /\ r.paused
ComesBack(r, e) == e \notin leave /\ (r.paused \/ (r.status = "exited" /\ ~r.signed))
Follows(r, e, draft) ==
    [r EXCEPT !.status = Standing(r, e),
              !.paused = e \in leave /\ (r.paused \/ ~r.signed),
              !.due = IF ComesBack(r, e) THEN Extended(r.due, draft) ELSE @]

\* Seeded fault: whoever has left the scope once stays out.
ReceiptOfStayers(r, e, draft, late) ==
    IF e \notin Intended(draft) THEN IF r = Unasked THEN r ELSE [r EXCEPT !.status = "exited"]
    ELSE IF r = Unasked THEN NewReceipt(e, draft, late)
    ELSE IF r.status = "exited" THEN r ELSE Follows(r, e, draft)
\* Seeded fault: who leaves while having signed loses the signature.
ReceiptForgotten(r, e, draft, late) ==
    IF e \notin Intended(draft) THEN IF r = Unasked THEN r ELSE [r EXCEPT !.status = "exited", !.signed = FALSE]
    ELSE IF r = Unasked THEN NewReceipt(e, draft, late)
    ELSE Follows(r, e, draft)
Receipt(r, e, draft, late) ==
    IF e \notin Intended(draft) THEN IF r = Unasked THEN r ELSE [r EXCEPT !.status = "exited"]
    ELSE IF r = Unasked THEN NewReceipt(e, draft, late)
    ELSE Follows(r, e, draft)

Expired(r) == IF r = Unasked \/ r.signed THEN r ELSE [r EXCEPT !.status = "expired"]
\* The receipts of the last version in vs.
SyncedRow(row, draft, late) ==
    IF withdrawn \/ draft.effective > today THEN row
    ELSE IF Over(draft, today) THEN [e \in Employees |-> Expired(row[e])]
    ELSE [e \in Employees |-> Receipt(row[e], e, draft, late)]
Synced(vs, rs, late) ==
    IF vs = <<>> THEN rs
    ELSE [rs EXCEPT ![Len(vs)] = SyncedRow(@, Last(vs), late)]

\* A receipt asked for late: new, or pending again.
AskedAgain(old, new, late) == late /\ new.status = "pending" /\ old.status \notin {"pending", "completed"}
Since(rs, late) == [v \in 1..MaxVersions |-> [e \in Employees |->
    IF AskedAgain(receipts[v][e], rs[v][e], late) THEN today ELSE since[v][e]]]

\* end_codes
End(cs, ids) == [i \in DOMAIN cs |-> [cs[i] EXCEPT !.live = @ /\ i \notin ids]]
\* reconcile
Reconciled(vs, cs, gs) ==
    End(cs, {i \in DOMAIN cs : ~InForce(vs, cs[i].version) \/ cs[i].trainer \notin Authorized(gs)})

Settle(vs, rs, cs, gs, late) ==
    /\ receipts' = Synced(vs, rs, late)
    /\ since' = Since(Synced(vs, rs, late), late)
    /\ codes' = Reconciled(vs, cs, gs)

\* The worker, once a minute, and every request that reads the announcement.
Sync ==
    /\ versions # <<>>
    /\ Settle(versions, receipts, codes, grants, TRUE)
    /\ UNCHANGED <<today, world, notice, grants, wrong>>
-----------------------------------------------------------------------------
(* The owner. *)

Named(draft, gs) == gs \subseteq able /\ (draft.training <=> gs # {})

\* create
Publish(draft, gs) ==
    /\ versions = <<>> /\ Named(draft, gs)
    /\ versions' = <<draft>> /\ grants' = gs
    /\ Settle(<<draft>>, receipts, codes, gs, FALSE)
    /\ UNCHANGED <<today, world, withdrawn, wrong>>

\* Seeded fault: the receipts of the old version stay as they are.
StaysOpen(r) == r
Superseded(r) == IF r = Unasked \/ r.signed THEN r ELSE [r EXCEPT !.status = "superseded"]
\* revise
Revise(draft, gs) ==
    LET vs == Append(versions, draft)
        rs == [receipts EXCEPT ![current] = [e \in Employees |-> Superseded(@[e])]]
    IN /\ versions # <<>> /\ current < MaxVersions /\ ~withdrawn /\ Named(draft, gs)
       /\ versions' = vs /\ grants' = gs /\ wrong' = NoTries
       /\ Settle(vs, rs, End(codes, {i \in DOMAIN codes : codes[i].version = current}), gs, TRUE)
       /\ UNCHANGED <<today, world, withdrawn>>

Closed(r) == IF r = Unasked \/ r.signed THEN r ELSE [r EXCEPT !.status = "withdrawn"]
Withdraw ==
    /\ versions # <<>> /\ ~withdrawn
    /\ withdrawn' = TRUE
    /\ receipts' = [v \in 1..MaxVersions |-> [e \in Employees |-> Closed(receipts[v][e])]]
    /\ codes' = End(codes, {i \in DOMAIN codes : codes[i].version = current})
    /\ UNCHANGED <<today, world, versions, since, grants, wrong>>

\* Seeded fault: a revoked trainer's code stays.
RevokedKeepsCode(c, gs) == FALSE
Revoked(c, gs) == c.version = current /\ c.trainer \notin gs
\* update_trainers
Grant(gs) ==
    /\ versions # <<>> /\ Last(versions).training /\ ~withdrawn /\ gs \subseteq able
    /\ grants' = gs
    /\ codes' = End(codes, {i \in DOMAIN codes : Revoked(codes[i], gs)})
    /\ UNCHANGED <<today, world, notice, receipts, since, wrong>>
-----------------------------------------------------------------------------
(* A trainer. *)

MayTrain(t) == InForce(versions, current) /\ t \in Authorized(grants)

Made(cs, k) == \E i \in DOMAIN cs : cs[i].key = k
\* Seeded fault: the trainer's earlier code stays valid.
KeepsEarlier(t) == codes
EndsEarlier(t) == End(codes, {i \in DOMAIN codes : codes[i].version = current /\ codes[i].trainer = t})
\* generate, with a key of the request: a repeat finds the code made and is
\* answered without it.
Generate(t, k) ==
    /\ MayTrain(t) /\ Len(codes) < MaxCodes /\ k <= Len(codes) + 1
    /\ ~Made(codes, k)
    /\ codes' = Append(EndsEarlier(t), [version |-> current, trainer |-> t, key |-> k, live |-> TRUE])
    /\ UNCHANGED <<today, world, notice, receipts, since, grants, wrong>>

\* end_training_code
EndCode(t) ==
    /\ versions # <<>> /\ t \in Authorized(grants)
    /\ codes' = EndsEarlier(t)
    /\ UNCHANGED <<today, world, notice, receipts, since, grants, wrong>>
-----------------------------------------------------------------------------
(* An employee; the request reconciles first. *)

Reach == [rs |-> Synced(versions, receipts, TRUE), cs |-> Reconciled(versions, codes, grants)]
\* Seeded fault: the code is looked up before the codes are reconciled.
GoodStale(i, cs) == codes[i].version = current /\ codes[i].live
Good(i, cs) == cs[i].version = current /\ cs[i].live

\* validate_code lets e's code pass.
Passes(e, i) ==
    /\ versions # <<>> /\ Last(versions).training /\ i \in DOMAIN codes
    /\ Reach.rs[current][e].status = "pending" /\ InForce(versions, current)
    /\ ~wrong[e].locked /\ Good(i, Reach.cs)

\* Seeded fault: wrong codes are counted, but nobody is locked out.
CountOnly(n) == [failures |-> n, locked |-> FALSE]
Count(n) == [failures |-> n, locked |-> n >= Tries]
\* A wrong code, entered to verify or to sign: counted although refused.
WrongCode(e) ==
    /\ versions # <<>> /\ Last(versions).training
    /\ Reach.rs[current][e].status = "pending" /\ InForce(versions, current)
    /\ ~wrong[e].locked
    /\ wrong' = [wrong EXCEPT ![e] = Count(@.failures + 1)]
    /\ Settle(versions, receipts, codes, grants, TRUE)
    /\ UNCHANGED <<today, world, notice, grants>>

Enters(rs) ==
    /\ receipts' = rs /\ since' = Since(rs, TRUE) /\ codes' = Reach.cs
    /\ UNCHANGED <<today, world, notice, grants>>

\* verify_training_code
VerifyCode(e, i) ==
    /\ Passes(e, i)
    /\ wrong' = [wrong EXCEPT ![e] = Count(0)]
    /\ Enters([Reach.rs EXCEPT ![current][e].code = i])

\* Seeded fault: the code verified before is not asked for again.
SignsVerified(e, i) == versions # <<>> /\ i \in DOMAIN codes /\ receipts[current][e].code = i
                       /\ Reach.rs[current][e].status = "pending"
SignsWith(e, i) == Passes(e, i)
\* receipt, of a version that asks for training
Sign(e, i) ==
    /\ SignsWith(e, i)
    /\ wrong' = [wrong EXCEPT ![e] = Count(0)]
    /\ Enters([Reach.rs EXCEPT ![current][e] = [@ EXCEPT !.signed = TRUE, !.status = "completed", !.code = i]])

\* receipt, of any other
Acknowledge(e) ==
    /\ versions # <<>> /\ ~Last(versions).training
    /\ Reach.rs[current][e].status = "pending" /\ ~withdrawn
    /\ Enters([Reach.rs EXCEPT ![current][e] = [@ EXCEPT !.signed = TRUE, !.status = "completed"]])
    /\ UNCHANGED wrong
-----------------------------------------------------------------------------
(* The world. *)

Changes == changes < MaxChanges /\ changes' = changes + 1
Moves(e, p) ==
    /\ Changes /\ place[e] # p /\ place' = [place EXCEPT ![e] = p]
    /\ UNCHANGED <<today, leave, able, notice, receipts, since, training>>
Leave(e) ==
    /\ Changes /\ leave' = IF e \in leave THEN leave \ {e} ELSE leave \cup {e}
    /\ UNCHANGED <<today, place, able, notice, receipts, since, training>>
Qualifies(t) ==
    /\ Changes /\ able' = IF t \in able THEN able \ {t} ELSE able \cup {t}
    /\ UNCHANGED <<today, place, leave, notice, receipts, since, training>>

\* A code runs out after its hours, and no later than the version.
Lapse(i) == codes' = [codes EXCEPT ![i].live = FALSE]
CodeLapses(i) ==
    /\ i \in DOMAIN codes /\ codes[i].live /\ Lapse(i)
    /\ UNCHANGED <<today, world, notice, receipts, since, grants, wrong>>
\* The ten minutes are over; the next try counts from none.
LockLapses(e) ==
    /\ wrong[e].locked /\ wrong' = [wrong EXCEPT ![e] = Count(0)]
    /\ UNCHANGED <<today, world, notice, receipts, since, grants, codes>>
DayPasses ==
    /\ today < LastDay /\ today' = today + 1
    /\ codes' = [i \in DOMAIN codes |-> IF codes[i].live /\ Over(versions[codes[i].version], today + 1)
                                        THEN [codes[i] EXCEPT !.live = FALSE] ELSE codes[i]]
    /\ UNCHANGED <<world, notice, receipts, since, grants, wrong>>

Owner == Withdraw \/ \E gs \in SUBSET Trainers : Grant(gs) \/ \E x \in Drafts : Publish(x, gs) \/ Revise(x, gs)
Next ==
    \/ Sync \/ Owner \/ DayPasses
    \/ \E t \in Trainers : EndCode(t) \/ Qualifies(t) \/ \E k \in 1..MaxCodes : Generate(t, k)
    \/ \E i \in 1..MaxCodes : CodeLapses(i)
    \/ \E e \in Employees :
          \/ WrongCode(e) \/ Acknowledge(e) \/ Leave(e) \/ LockLapses(e)
          \/ \E p \in Places \cup {Away} : Moves(e, p)
          \/ \E i \in 1..MaxCodes : VerifyCode(e, i) \/ Sign(e, i)

Spec == Init /\ [][Next]_vars
\* The worker thread survives every failure and runs again a minute later.
FairSpec == Spec /\ WF_vars(Sync)
-----------------------------------------------------------------------------
(* Properties. *)

Statuses == {"none", "pending", "suspended", "completed", "exited", "expired", "superseded", "withdrawn"}

\* Types; no more wrong codes are counted than lock a person out
\* (announcement_training.py:133-136).
TypeOK ==
    /\ today \in 1..LastDay /\ changes \in 0..MaxChanges
    /\ place \in [Employees -> Places \cup {Away}] /\ leave \subseteq Employees /\ able \subseteq Trainers
    /\ withdrawn \in BOOLEAN /\ versions \in Seq(Drafts) /\ current <= MaxVersions
    /\ receipts \in [1..MaxVersions -> [Employees ->
           [status : Statuses, paused : BOOLEAN, due : 0..Never, signed : BOOLEAN, code : 0..MaxCodes]]]
    /\ since \in [1..MaxVersions -> [Employees -> 0..LastDay]]
    /\ grants \subseteq Trainers
    /\ codes \in Seq([version : 1..MaxVersions, trainer : Trainers, key : 1..MaxCodes, live : BOOLEAN])
    /\ wrong \in [Employees -> [failures : 0..Tries, locked : BOOLEAN]]

\* Only the current version of a published announcement can be waiting for
\* somebody's receipt, and not for one already signed, although revise and
\* withdraw do not reconcile what people's moves have made of old receipts
\* (routers/announcements.py:346-348, 541-542; announcements.py:209-210).
PendingInForce == \A v \in 1..MaxVersions, e \in Employees :
    receipts[v][e].status = "pending" => v = current /\ ~withdrawn /\ ~receipts[v][e].signed

\* A code that works is for the current version of a published announcement,
\* of a trainer still granted, who has no other, and no request made two of
\* them (announcement_training.py:45-46, 79-83, 95-103).
LiveCodes == \A i \in DOMAIN codes : codes[i].live =>
    /\ codes[i].version = current /\ ~withdrawn /\ codes[i].trainer \in grants
    /\ \A j \in DOMAIN codes \ {i} :
          /\ codes[j].key # codes[i].key
          /\ codes[j].live => codes[j].trainer # codes[i].trainer

\* Who is asked late (joins, returns from leave, comes back into the scope or
\* is met by a new version) is not overdue on the day of being asked, however
\* leave and scope changed in between (announcements.py:179-181, 205-222).
TimeToSign == \A v \in 1..MaxVersions, e \in Employees :
    receipts[v][e].status = "pending" => receipts[v][e].due >= since[v][e]

\* What people are asked at every moment: types, receipts and codes in force, and
\* time to answer.
AskedInForce == TypeOK /\ PendingInForce /\ LiveCodes /\ TimeToSign

\* Nobody signs but the current version in force, in its scope and not on
\* leave; where training is asked for, with a code of this version that is
\* valid, of a trainer granted and qualified at that moment, and not while
\* locked out - whatever was verified before (routers/announcements.py:593-630,
\* announcement_training.py:119-142).
SignedInForce == [][\A v \in 1..MaxVersions, e \in Employees :
    receipts'[v][e].signed /\ ~receipts[v][e].signed =>
        /\ InForce(versions, v) /\ e \in Intended(versions[v]) /\ e \notin leave
        /\ versions[v].training =>
              LET c == codes[receipts'[v][e].code]
              IN c.version = v /\ c.live /\ c.trainer \in Authorized(grants) /\ ~wrong[e].locked]_vars

\* A signature and the code that vouches for it are never lost or replaced, by
\* leaving and rejoining, expiry, revision, withdrawal or entering another code
\* (announcements.py:183-232, announcement_training.py:145-152).
ReceiptKept == [][\A v \in 1..MaxVersions, e \in Employees :
    receipts[v][e].signed => receipts'[v][e].signed /\ receipts'[v][e].code = receipts[v][e].code]_vars

\* A signature is given in force and kept.
SignaturesKept == SignedInForce /\ ReceiptKept

\* Whoever an announcement in force is for is in the end asked for a receipt
\* (or suspended while on leave, or shown as done), and whoever it is no longer
\* for is not: the worker's catch-up (announcement_worker.py:22-32).
Stands(e) ==
    LET r == receipts[current][e]
    IN IF e \in Intended(Last(versions)) THEN r.status = Standing(r, e) ELSE r.status \in {"none", "exited"}
EveryoneAsked == \A e \in Employees :
    InForce(versions, current) ~> (~InForce(versions, current) \/ Stands(e))
=============================================================================
