---------------------------- MODULE LearningShares ----------------------------
(***************************************************************************)
(* One document of the learning library with its revisions, the private    *)
(* drafts of it and its owner (routers/learning.py, learning.py).          *)
(* Handlers read and check first, each read on its own, and take SQLite's  *)
(* writer with their first statement that writes: Read, then Commit, with  *)
(* other commits between.                                                  *)
(*                                                                         *)
(* A text is the revision it came from.  Left out: titles, categories,     *)
(* attachments, reactions, feedback, and who may read or manage, which is  *)
(* asked once at the start of a request (WorkGroups has the leaders).      *)
(***************************************************************************)
EXTENDS Integers, SequencesExt, FiniteSets

CONSTANTS
    TRs,         \* the circle's TRs, who may own the document
    Supervisors, \* others of the circle who may edit and manage it
    FirstOwner,
    Requests,    \* requests that may be under way at once
    MaxRevisions, MaxSaves  \* bounds

VARIABLES share, revs, draft, request
shareVars == <<share, revs, draft>>
learningVars == <<shareVars, request>>

Idle == [op |-> "idle"]
Editors == TRs \cup Supervisors
Revision(base, who, st, of) ==
    [base |-> base, by |-> who, st |-> st, of |-> of,
     judge |-> IF st = "published" THEN {who} ELSE {}]

Init ==
    /\ share = [status |-> "published", owner |-> FirstOwner, version |-> 1, text |-> 1]
    /\ revs = <<Revision(0, FirstOwner, "published", 0)>>
    /\ draft = [p \in Editors |-> [version |-> 0, base |-> 0, saves |-> 0]]
    /\ request = [r \in Requests |-> Idle]
-----------------------------------------------------------------------------
(* What a request reads before it writes. *)

Seen == [version |-> share.version, owner |-> share.owner]
Reads(r, q) == /\ request[r] = Idle /\ share.status = "published"
               /\ request' = [request EXCEPT ![r] = q]
               /\ UNCHANGED shareVars

\* POST /learning/{id}/revisions; the page's version is the document's.
ReadEdit(r, p) == Reads(r, [op |-> "edit", who |-> p, of |-> 0, seen |-> Seen])
\* POST /learning/drafts/{id}/publish, of a draft begun at this version.
ReadDraft(r, p) == /\ draft[p].version # 0 /\ draft[p].base = share.version
                   /\ Reads(r, [op |-> "edit", who |-> p, of |-> draft[p].version, seen |-> Seen])
\* Seeded fault: the base of the revision is not compared.
CurrentNever(i) == TRUE
CurrentBase(i) == revs[i].base = share.version
\* POST /learning/{id}/revisions/{revision_id}/decision
ReadReview(r, i, op) == /\ op = "approve" => CurrentBase(i)
                        /\ Reads(r, [op |-> op, who |-> share.owner, i |-> i, seen |-> Seen])
ReadWithdraw(r) == Reads(r, [op |-> "withdraw", seen |-> Seen])
ReadTransfer(r, p) == Reads(r, [op |-> "transfer", to |-> p, seen |-> Seen])

(* PUT /learning/drafts/{id}: one conditional UPDATE; the first save is a POST. *)
SaveDraft(p) ==
    /\ draft[p].saves < MaxSaves
    /\ draft' = [draft EXCEPT ![p] =
           [version |-> @.saves + 1, saves |-> @.saves + 1,
            base |-> IF @.version = 0 THEN share.version ELSE @.base]]
    /\ share.status = "published"
    /\ UNCHANGED <<share, revs, request>>
-----------------------------------------------------------------------------
(* The writes. *)

\* Seeded fault: the owner the request has read is not compared again.
ClaimedByAnyone(seen) == share.status = "published" /\ share.version = seen.version
\* claim: the document is still the one the request has read.
Claimed(seen) ==
    /\ share.status = "published"
    /\ share.version = seen.version /\ share.owner = seen.owner
Publishes(i) == share' = [share EXCEPT !.version = @ + 1, !.text = i]
\* owner_can_publish, of what was read
Direct(q) == q.who = q.seen.owner
\* Seeded fault: a draft is looked at, not claimed.
DraftSeen(q) == TRUE
\* The conditional DELETE that claims the draft.
DraftClaimed(q) == q.of = 0 \/ draft[q.who].version = q.of

CommitEdit(q) ==
    LET st == IF Direct(q) THEN "published" ELSE "pending"
    IN /\ Len(revs) < MaxRevisions
       /\ DraftClaimed(q)
       /\ Direct(q) => Claimed(q.seen)
       /\ revs' = Append(revs, Revision(q.seen.version, q.who, st, q.of))
       /\ IF Direct(q) THEN Publishes(Len(revs) + 1) ELSE UNCHANGED share
       /\ draft' = IF q.of = 0 THEN draft ELSE [draft EXCEPT ![q.who].version = 0]
CommitApprove(q) ==
    /\ revs[q.i].st = "pending" /\ Claimed(q.seen)
    /\ revs' = [revs EXCEPT ![q.i].st = "published", ![q.i].judge = {q.who}]
    /\ Publishes(q.i) /\ UNCHANGED draft
CommitReject(q) ==
    /\ revs[q.i].st = "pending"
    /\ revs' = [revs EXCEPT ![q.i].st = "returned"] /\ UNCHANGED <<share, draft>>
CommitWithdraw(q) ==
    /\ Claimed(q.seen) /\ share' = [share EXCEPT !.status = "withdrawn", !.version = @ + 1]
    /\ UNCHANGED <<revs, draft>>
\* A change of owner leaves the version, and so the pending revisions, alone.
CommitTransfer(q) ==
    /\ Claimed(q.seen) /\ share' = [share EXCEPT !.owner = q.to]
    /\ UNCHANGED <<revs, draft>>

Commit(r) ==
    LET q == request[r]
    IN /\ \/ q.op = "edit" /\ CommitEdit(q)
          \/ q.op = "approve" /\ CommitApprove(q)
          \/ q.op = "reject" /\ CommitReject(q)
          \/ q.op = "withdraw" /\ CommitWithdraw(q)
          \/ q.op = "transfer" /\ CommitTransfer(q)
       /\ request' = [request EXCEPT ![r] = Idle]
\* 409, or the connection is gone: everything is rolled back.
Refused(r) ==
    /\ request[r] # Idle /\ request' = [request EXCEPT ![r] = Idle]
    /\ UNCHANGED shareVars
-----------------------------------------------------------------------------
Next ==
    \/ \E r \in Requests :
           \/ Commit(r) \/ Refused(r) \/ ReadWithdraw(r)
           \/ \E p \in Editors : ReadEdit(r, p) \/ ReadDraft(r, p)
           \/ \E p \in TRs : ReadTransfer(r, p)
           \/ \E i \in DOMAIN revs, op \in {"approve", "reject"} : ReadReview(r, i, op)
    \/ \E p \in Editors : SaveDraft(p)

Spec == Init /\ [][Next]_learningVars
-----------------------------------------------------------------------------
PublishedRevisions == {i \in DOMAIN revs : revs[i].st = "published"}

(* No publication swallows another: every text ever public was written     *)
(* upon the one it replaced, and the public text is the last of them.      *)
NoneSwallowed ==
    /\ \A i, j \in PublishedRevisions : revs[i].base = revs[j].base => i = j
    /\ share.text \in PublishedRevisions /\ \A i \in PublishedRevisions : revs[i].base <= revs[share.text].base
(* A draft goes out once, as it was last saved.                            *)
DraftOnce ==
    \A i, j \in DOMAIN revs :
        revs[i].of # 0 /\ revs[i].of = revs[j].of /\ revs[i].by = revs[j].by => i = j
LibraryWhole == NoneSwallowed /\ DraftOnce

(* Only the TR who owns the document at that moment makes a text public,   *)
(* also when it changes hands while the confirmation is under way.         *)
OwnerPublishes ==
    [][share'.text # share.text => revs'[share'.text].judge = {share.owner}]_learningVars
=============================================================================
