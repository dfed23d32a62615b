---------------------------- MODULE ProtocolProofs ----------------------------
(***************************************************************************)
(* What the components around the records rely on: each in a section of    *)
(* its own, and in the end the server they run on together.                *)
(*                                                                         *)
(* Announcements: receipts are asked for in force only, and a signature is *)
(* given in force and kept, for any people, drafts, codes and changes      *)
(* around them.  The status of a receipt tells more than the properties    *)
(* say: which version it can be of, whether leave has paused it, and that  *)
(* an expired one stays so.  The rest is that synchronizing a row again,   *)
(* late, leaves what it tells true.                                        *)
(*                                                                         *)
(* Release: the files of the application are replaced only while nothing   *)
(* runs on them, for any releases and any number of deployments, failures  *)
(* and deaths.  The property is about two states; what makes it true is    *)
(* what a transaction has established by the time it touches a file: the   *)
(* watchdog was quiesced before the application was stopped, and the       *)
(* rollback goes on to the files only when it has stopped both again.  A   *)
(* receipt for the whole of it tells the truth: what a deployment has not  *)
(* touched by then is as it was, and what its rollback has passed without  *)
(* an error is so again.                                                   *)
(*                                                                         *)
(* ManualBackup: the row carries a token.  Manual backups do not overlap   *)
(* unless one was taken over as stale, for any number of runs and any      *)
(* times.  A run that no longer holds the row was already stale when the   *)
(* row was claimed by the run that took it over: this relates each run to  *)
(* the row, and so each two runs.                                          *)
(*                                                                         *)
(* RecoveryBundle: a capture reads a system that goes on moving.  A key of *)
(* its snapshot that was passed without its file was deleted by then, for  *)
(* any keys and releases and any number of moves.                          *)
(*                                                                         *)
(* DataCache: a cache is cleared under its lock, statistics before         *)
(* rankings.  A query that saw the first commits missed none that is       *)
(* cleared, nor, in statistics, one whose request went on to rankings, nor *)
(* any made before the reader came in, for any readers, writers and keys.  *)
(*                                                                         *)
(* ExportQueue: the counts the limits read are those of the jobs there     *)
(* are, a file is stored once and given out under its owner's rights.      *)
(*                                                                         *)
(* DatabaseStart: where a start is in the scripts of its patches tells     *)
(* what its session has, and the disk at each commit, whatever interrupts  *)
(* it and however often, for any old scopes and any edits while serving.   *)
(***************************************************************************)
EXTENDS Announcements, Server, FiniteSetTheorems, WellFoundedInduction, TLAPS

-----------------------------------------------------------------------------
(* Announcements: what a receipt tells. *)

Receipts == [status : Statuses, paused : BOOLEAN, due : 0..Never, signed : BOOLEAN, code : 0..MaxCodes]
Code == [version : 1..MaxVersions, trainer : Trainers, key : 1..MaxCodes, live : BOOLEAN]

\* What the status of a receipt of version v tells, with the versions vs, whether
\* the announcement is withdrawn and the day asked.
Fits(r, asked, vs, v, w, day) ==
    /\ v > Len(vs) => r = Unasked /\ asked = 0
    /\ r.status = "none" => r = Unasked
    /\ r.status = "pending" => v = Len(vs) /\ ~w /\ ~r.signed /\ asked <= r.due
                             /\ vs[v].effective <= day
    /\ r.status = "completed" => r.signed
    /\ r.status = "suspended" => r.signed \/ r.paused
    /\ r.status = "expired" => v < Len(vs) \/ Over(vs[v], day)
    /\ r.status = "superseded" => v < Len(vs)
    /\ r.status = "withdrawn" => w

AllFit == \A v \in 1..MaxVersions, e \in Employees :
              Fits(receipts[v][e], since[v][e], versions, v, withdrawn, today)
Locks == \A e \in Employees : ~wrong[e].locked => wrong[e].failures < Tries

WorldOK ==
    /\ today \in 1..LastDay /\ changes \in 0..MaxChanges
    /\ place \in [Employees -> Places \cup {Away}] /\ leave \subseteq Employees /\ able \subseteq Trainers
NoticeOK ==
    /\ withdrawn \in BOOLEAN /\ versions \in Seq(Drafts) /\ Len(versions) <= MaxVersions
    /\ grants \subseteq Trainers
ReceiptsOK ==
    /\ receipts \in [1..MaxVersions -> [Employees -> Receipts]]
    /\ since \in [1..MaxVersions -> [Employees -> 0..LastDay]]
    /\ AllFit
CodesOK == codes \in Seq(Code) /\ LiveCodes
WrongOK == wrong \in [Employees -> [failures : 0..Tries, locked : BOOLEAN]] /\ Locks

IInv == WorldOK /\ NoticeOK /\ ReceiptsOK /\ CodesOK /\ WrongOK
-----------------------------------------------------------------------------
(* Days. *)

LEMMA Days ==
    ASSUME today \in 1..LastDay, NEW draft \in Drafts, ~Over(draft, today)
    PROVE  /\ draft.due \in 0..Never /\ Never \in Nat
           /\ Extended(draft.due, draft) \in 0..Never
           /\ Extended(draft.due, draft) >= today
           /\ \A due \in 0..Never : /\ Extended(due, draft) \in 0..Never
                                    /\ Extended(due, draft) >= today /\ Extended(due, draft) >= due
<1>1. draft.due \in 1..Never /\ draft.expires \in 1..Never /\ Grace \in Nat /\ LastDay \in Nat /\ Never \in Nat
  BY DraftsAssumption, BoundsAssumption DEF Never
<1>2. draft.expires >= today
  BY <1>1 DEF Over
<1>3. GraceDay(draft) \in 0..Never /\ GraceDay(draft) >= today
  BY <1>1, <1>2 DEF GraceDay, Sooner
<1>4. \A due \in 0..Never : /\ Extended(due, draft) \in 0..Never
                            /\ Extended(due, draft) >= today /\ Extended(due, draft) >= due
  BY <1>1, <1>3 DEF Extended
<1> QED
  BY <1>1, <1>4

-----------------------------------------------------------------------------
(* One receipt. *)

LEMMA UnaskedIs ==
    /\ Unasked \in Receipts /\ Unasked.status = "none" /\ Unasked.signed = FALSE
    /\ Unasked.code = 0 /\ Unasked.paused = FALSE
  BY BoundsAssumption DEF Unasked, Receipts, Statuses, Never

LEMMA StatusIs ==
    ASSUME NEW r \in Receipts, NEW status \in Statuses
    PROVE  LET n == [r EXCEPT !.status = status]
           IN /\ n \in Receipts /\ n.status = status /\ n.signed = r.signed /\ n.code = r.code
              /\ n.due = r.due /\ n.paused = r.paused
<1> DEFINE n == [status |-> status, paused |-> r.paused, due |-> r.due, signed |-> r.signed, code |-> r.code]
<1>1. [r EXCEPT !.status = status] = n
  BY DEF Receipts
<1> QED
  BY <1>1 DEF Receipts

\* A receipt asked for, after the members, leaves and places of the moment.
LEMMA ReceiptIs ==
    ASSUME today \in 1..LastDay, NEW draft \in Drafts, ~Over(draft, today),
           NEW e \in Employees, NEW r \in Receipts, NEW late \in BOOLEAN,
           r.status = "none" => r = Unasked
    PROVE  LET n == Receipt(r, e, draft, late)
           IN /\ n \in Receipts /\ n.signed = r.signed /\ n.code = r.code
              /\ n = Unasked \/ n.status \in {"pending", "completed", "suspended", "exited"}
              /\ n.status = "completed" => r.signed
              /\ n.status = "pending" => ~r.signed /\ e \in Intended(draft) /\ e \notin leave
              /\ n.status = "suspended" => r.signed \/ n.paused
              /\ n.status = "pending" =>
                    n.due = IF r = Unasked THEN IF late THEN Extended(draft.due, draft) ELSE draft.due
                            ELSE IF ComesBack(r, e) THEN Extended(r.due, draft) ELSE r.due
<1> DEFINE n == Receipt(r, e, draft, late)
<1>0. Unasked \in Receipts /\ Unasked.signed = FALSE /\ Unasked.code = 0
  BY UnaskedIs
<1>1. CASE e \notin Intended(draft)
  <2>1. n = IF r = Unasked THEN r ELSE [r EXCEPT !.status = "exited"]
    BY <1>1 DEF Receipt
  <2> QED
    BY <2>1, UnaskedIs DEF Receipts, Statuses
<1>2. CASE e \in Intended(draft) /\ r = Unasked
  <2>1. n = NewReceipt(e, draft, late)
    BY <1>2 DEF Receipt
  <2>2. Extended(draft.due, draft) \in 0..Never /\ draft.due \in 0..Never
    BY Days
  <2>3. CASE e \in leave
    BY <1>2, <2>1, <2>2, <2>3, UnaskedIs DEF NewReceipt, Unasked, Receipts, Statuses
  <2>4. CASE e \notin leave
    <3> DEFINE due == IF late THEN Extended(draft.due, draft) ELSE draft.due
    <3>1. n = [status |-> "pending", paused |-> e \in leave, due |-> due, signed |-> FALSE, code |-> 0]
      BY <2>1, <2>4 DEF NewReceipt, Unasked
    <3>2. due \in 0..Never /\ 0 \in 0..MaxCodes
      BY <2>2, BoundsAssumption
    <3> HIDE DEF due
    <3>3. n \in Receipts
      BY <3>1, <3>2 DEF Receipts, Statuses
    <3>4. n.status = "pending" /\ n.due = due /\ n.signed = FALSE /\ n.code = 0
      BY <3>1
    <3> QED
      BY <1>2, <2>4, <3>3, <3>4, UnaskedIs DEF due
  <2> QED
    BY <2>3, <2>4
<1>3. CASE e \in Intended(draft) /\ r # Unasked
  <2>1. n = Follows(r, e, draft)
    BY <1>3 DEF Receipt
  <2>2. r.due \in 0..Never /\ Extended(r.due, draft) \in 0..Never
    BY Days DEF Receipts
  <2> DEFINE due == IF ComesBack(r, e) THEN Extended(r.due, draft) ELSE r.due
             paused == e \in leave /\ (r.paused \/ ~r.signed)
  <2>3. n = [status |-> Standing(r, e), paused |-> paused, due |-> due, signed |-> r.signed, code |-> r.code]
    BY <2>1 DEF Follows, Receipts
  <2>4. due \in 0..Never /\ paused \in BOOLEAN
    BY <2>2
  <2>5. Standing(r, e) \in {"pending", "completed", "suspended"}
    BY DEF Standing
  <2>6. n \in Receipts
    BY <2>3, <2>4, <2>5 DEF Receipts, Statuses
  <2>7. /\ Standing(r, e) = "completed" => r.signed
        /\ Standing(r, e) = "pending" => ~r.signed /\ e \notin leave
        /\ Standing(r, e) = "suspended" => r.signed \/ paused
    BY DEF Standing, Receipts
  <2> HIDE DEF due, paused
  <2>8. n.status = Standing(r, e) /\ n.paused = paused /\ n.signed = r.signed /\ n.code = r.code /\ n.due = due
    BY <2>3
  <2> QED
    BY <1>3, <2>5, <2>6, <2>7, <2>8 DEF due
<1> QED
  BY <1>1, <1>2, <1>3

-----------------------------------------------------------------------------
(* The receipts of the last version, synchronized. *)

Asked(old, n, late, day) == IF AskedAgain(old, n, late) THEN today ELSE day

LEMMA ReceiptFits ==
    ASSUME today \in 1..LastDay, withdrawn = FALSE, NEW vs \in Seq(Drafts), vs # <<>>,
           vs[Len(vs)].effective <= today, ~Over(vs[Len(vs)], today),
           NEW e \in Employees, NEW r \in Receipts, NEW asked \in 0..LastDay, NEW late \in BOOLEAN,
           late \/ asked = 0, Fits(r, asked, vs, Len(vs), withdrawn, today)
    PROVE  LET n == Receipt(r, e, vs[Len(vs)], late)
           IN Fits(n, Asked(r, n, late, asked), vs, Len(vs), withdrawn, today)
<1> DEFINE draft == vs[Len(vs)]
           n == Receipt(r, e, draft, late)
<1>1. draft \in Drafts /\ Len(vs) \in Nat
  OBVIOUS
<1>2. /\ n \in Receipts /\ n.signed = r.signed /\ n.code = r.code
      /\ n = Unasked \/ n.status \in {"pending", "completed", "suspended", "exited"}
      /\ n.status = "completed" => r.signed
      /\ n.status = "pending" => ~r.signed /\ e \in Intended(draft) /\ e \notin leave
      /\ n.status = "suspended" => r.signed \/ n.paused
      /\ n.status = "pending" =>
            n.due = IF r = Unasked THEN IF late THEN Extended(draft.due, draft) ELSE draft.due
                    ELSE IF ComesBack(r, e) THEN Extended(r.due, draft) ELSE r.due
  BY <1>1, ReceiptIs DEF Fits
<1>3. n.status = "pending" => Asked(r, n, late, asked) <= n.due
  <2> SUFFICES ASSUME n.status = "pending" PROVE Asked(r, n, late, asked) <= n.due
    OBVIOUS
  <2>0. today \in Nat /\ asked \in Nat /\ asked <= LastDay /\ r.due \in 0..Never /\ r.status \in Statuses /\ Never \in Nat
    BY <1>1, Days, BoundsAssumption DEF Receipts
  <2>1. /\ draft.due \in 0..Never /\ Extended(draft.due, draft) \in 0..Never
        /\ Extended(draft.due, draft) >= today
        /\ Extended(r.due, draft) \in 0..Never /\ Extended(r.due, draft) >= today
        /\ Extended(r.due, draft) >= r.due
    BY <1>1, <2>0, Days
  <2>2. CASE AskedAgain(r, n, late)
    <3>1. Asked(r, n, late, asked) = today /\ late
      BY <2>2 DEF Asked, AskedAgain
    <3>2. ~r.signed /\ e \notin leave
      BY <1>2
    <3>3. r = Unasked \/ ComesBack(r, e)
      <4>1. r.status \in {"none", "suspended", "exited", "expired", "superseded", "withdrawn"}
        BY <2>0, <2>2 DEF AskedAgain, Statuses
      <4>2. r.status \in {"none", "suspended", "exited"}
        BY <4>1 DEF Fits
      <4> QED
        BY <3>2, <4>2 DEF Fits, ComesBack
    <3>4. CASE r = Unasked
      BY <1>2, <2>1, <3>1, <3>4
    <3>5. CASE r # Unasked
      BY <1>2, <2>1, <3>1, <3>3, <3>5
    <3> QED
      BY <3>4, <3>5
  <2>3. CASE ~AskedAgain(r, n, late)
    <3>1. Asked(r, n, late, asked) = asked
      BY <2>3 DEF Asked
    <3>2. CASE asked = 0
      <4>1. n.due \in 0..Never
        BY <1>2 DEF Receipts
      <4> QED
        BY <2>0, <3>1, <3>2, <4>1
    <3>3. CASE asked # 0
      <4>1. r.status \in {"pending", "completed"}
        BY <2>3, <3>3 DEF AskedAgain
      <4>2. r.status = "pending" /\ asked <= r.due
        BY <1>2, <4>1 DEF Fits
      <4>3. r # Unasked
        BY <4>2, UnaskedIs
      <4> QED
        BY <1>2, <2>0, <2>1, <3>1, <4>2, <4>3
    <3> QED
      BY <3>2, <3>3
  <2> QED
    BY <2>2, <2>3
<1>4. n.status \in {"none", "pending", "completed", "suspended", "exited"}
  BY <1>2, UnaskedIs
<1>5. n.status = "none" => n = Unasked
  BY <1>2
<1>6. n.signed = r.signed
  BY <1>2
<1> SUFFICES Fits(n, Asked(r, n, late, asked), vs, Len(vs), withdrawn, today)
  OBVIOUS
<1>7. /\ ~(Len(vs) > Len(vs)) /\ n.status \notin {"expired", "superseded", "withdrawn"}
      /\ vs[Len(vs)].effective <= today /\ ~withdrawn
  BY <1>1, <1>4
<1>8. /\ n.status = "pending" => ~n.signed
      /\ n.status = "completed" => n.signed
      /\ n.status = "suspended" => n.signed \/ n.paused
  BY <1>2, Zenon
<1> HIDE DEF n
<1> QED
  BY <1>3, <1>5, <1>7, <1>8 DEF Fits

LEMMA RowIs ==
    ASSUME today \in 1..LastDay, withdrawn \in BOOLEAN, NEW vs \in Seq(Drafts), vs # <<>>,
           NEW old \in [Employees -> Receipts], NEW late \in BOOLEAN,
           NEW asked \in [Employees -> 0..LastDay],
           \A e \in Employees : (late \/ asked[e] = 0) /\ Fits(old[e], asked[e], vs, Len(vs), withdrawn, today)
    PROVE  LET n == SyncedRow(old, Last(vs), late)
           IN /\ n \in [Employees -> Receipts]
              /\ \A e \in Employees :
                    /\ n[e].signed = old[e].signed /\ n[e].code = old[e].code
                    /\ Fits(n[e], Asked(old[e], n[e], late, asked[e]), vs, Len(vs), withdrawn, today)
                    /\ n[e].status = "pending" =>
                          InForce(vs, Len(vs)) /\ e \in Intended(vs[Len(vs)]) /\ e \notin leave
<1> DEFINE draft == vs[Len(vs)]
           n == SyncedRow(old, draft, late)
<1>0. Last(vs) = draft /\ draft \in Drafts /\ Len(vs) \in Nat
  BY DEF Last
<1>1. CASE withdrawn \/ draft.effective > today
  <2>1. n = old
    BY <1>1 DEF SyncedRow
  <2>2. \A e \in Employees : Asked(old[e], n[e], late, asked[e]) = asked[e]
    BY <2>1 DEF Asked, AskedAgain
  <2>3. draft.effective \in Int /\ today \in Int
    BY <1>0, DraftsAssumption
  <2>4. \A e \in Employees : old[e].status # "pending"
    BY <1>1, <2>3 DEF Fits
  <2> QED
    BY <1>0, <2>1, <2>2, <2>4
<1>2. CASE ~withdrawn /\ ~(draft.effective > today) /\ Over(draft, today)
  <2>1. n = [e \in Employees |-> Expired(old[e])]
    BY <1>2 DEF SyncedRow
  <2>2. ASSUME NEW e \in Employees
        PROVE  /\ n[e] \in Receipts
               /\ n[e].signed = old[e].signed /\ n[e].code = old[e].code
               /\ Fits(n[e], Asked(old[e], n[e], late, asked[e]), vs, Len(vs), withdrawn, today)
               /\ n[e].status # "pending"
    <3>1. n[e] = Expired(old[e])
      BY <2>1
    <3>2. CASE old[e] = Unasked \/ old[e].signed
      <4>1. n[e] = old[e]
        BY <3>1, <3>2 DEF Expired
      <4>2. old[e].status # "pending"
        BY <3>2, UnaskedIs DEF Fits
      <4>3. Asked(old[e], n[e], late, asked[e]) = asked[e]
        BY <4>1, <4>2 DEF Asked, AskedAgain
      <4> QED
        BY <4>1, <4>2, <4>3
    <3>3. CASE ~(old[e] = Unasked \/ old[e].signed)
      <4>1. n[e] = [old[e] EXCEPT !.status = "expired"]
        BY <3>1, <3>3 DEF Expired
      <4>2. /\ n[e] \in Receipts /\ n[e].status = "expired"
            /\ n[e].signed = old[e].signed /\ n[e].code = old[e].code
        <5>1. old[e] \in Receipts /\ "expired" \in Statuses
          BY DEF Statuses
        <5>2. LET x == [old[e] EXCEPT !.status = "expired"]
              IN x \in Receipts /\ x.status = "expired" /\ x.signed = old[e].signed /\ x.code = old[e].code
          BY <5>1, StatusIs
        <5> QED
          BY <4>1, <5>2, Zenon
      <4>3. ASSUME NEW r \in Receipts, r.status = "expired", NEW when
            PROVE  Fits(r, when, vs, Len(vs), withdrawn, today)
        BY <1>0, <1>2, <4>3 DEF Fits
      <4>4. Fits(n[e], Asked(old[e], n[e], late, asked[e]), vs, Len(vs), withdrawn, today)
        BY <4>2, <4>3
      <4> QED
        BY <4>2, <4>4
    <3> QED
      BY <3>2, <3>3
  <2> QED
    BY <1>0, <2>1, <2>2
<1>3. CASE ~withdrawn /\ ~(draft.effective > today) /\ ~Over(draft, today)
  <2>1. n = [e \in Employees |-> Receipt(old[e], e, draft, late)]
    BY <1>3 DEF SyncedRow
  <2>2. draft.effective <= today /\ withdrawn = FALSE
    BY <1>0, <1>3, DraftsAssumption
  <2>3. InForce(vs, Len(vs))
    BY <1>3, <2>2 DEF InForce
  <2>4. ASSUME NEW e \in Employees
        PROVE  /\ n[e] \in Receipts
               /\ n[e].signed = old[e].signed /\ n[e].code = old[e].code
               /\ Fits(n[e], Asked(old[e], n[e], late, asked[e]), vs, Len(vs), withdrawn, today)
               /\ n[e].status = "pending" => e \in Intended(draft) /\ e \notin leave
    <3>1. n[e] = Receipt(old[e], e, draft, late)
      BY <2>1
    <3>2. old[e].status = "none" => old[e] = Unasked
      BY DEF Fits
    <3>3. Fits(n[e], Asked(old[e], n[e], late, asked[e]), vs, Len(vs), withdrawn, today)
      BY <1>3, <2>2, <3>1, ReceiptFits
    <3> QED
      BY <1>0, <1>3, <3>1, <3>2, <3>3, ReceiptIs
  <2> QED
    BY <1>0, <2>1, <2>3, <2>4
<1> QED
  BY <1>1, <1>2, <1>3

\* What a request makes of the receipts rs of the versions vs.
LEMMA SettledFit ==
    ASSUME today \in 1..LastDay, withdrawn \in BOOLEAN, since \in [1..MaxVersions -> [Employees -> 0..LastDay]],
           NEW vs \in Seq(Drafts), vs # <<>>, Len(vs) <= MaxVersions, NEW late \in BOOLEAN,
           NEW rs \in [1..MaxVersions -> [Employees -> Receipts]],
           \A v \in 1..MaxVersions, e \in Employees : Fits(rs[v][e], since[v][e], vs, v, withdrawn, today),
           \A e \in Employees : late \/ since[Len(vs)][e] = 0,
           receipts[Len(vs)] = rs[Len(vs)]
    PROVE  LET out == Synced(vs, rs, late)
               day == Since(out, late)
           IN /\ out \in [1..MaxVersions -> [Employees -> Receipts]]
              /\ day \in [1..MaxVersions -> [Employees -> 0..LastDay]]
              /\ \A v \in 1..MaxVersions, e \in Employees :
                    /\ out[v][e].signed = rs[v][e].signed /\ out[v][e].code = rs[v][e].code
                    /\ Fits(out[v][e], day[v][e], vs, v, withdrawn, today)
              /\ \A e \in Employees : out[Len(vs)][e].status = "pending" =>
                    InForce(vs, Len(vs)) /\ e \in Intended(vs[Len(vs)]) /\ e \notin leave
<1> DEFINE out == Synced(vs, rs, late)
           day == Since(out, late)
           last == Len(vs)
           new == SyncedRow(rs[last], Last(vs), late)
<1>1. last \in 1..MaxVersions
  BY BoundsAssumption
<1>2. out = [rs EXCEPT ![last] = new]
  BY DEF Synced
<1>3. /\ new \in [Employees -> Receipts]
      /\ \A e \in Employees :
            /\ new[e].signed = rs[last][e].signed /\ new[e].code = rs[last][e].code
            /\ Fits(new[e], Asked(rs[last][e], new[e], late, since[last][e]), vs, last, withdrawn, today)
            /\ new[e].status = "pending" =>
                  InForce(vs, last) /\ e \in Intended(vs[last]) /\ e \notin leave
  <2>1. rs[last] \in [Employees -> Receipts] /\ since[last] \in [Employees -> 0..LastDay]
    BY <1>1
  <2>2. \A e \in Employees : (late \/ since[last][e] = 0)
                             /\ Fits(rs[last][e], since[last][e], vs, last, withdrawn, today)
    BY <1>1
  <2> QED
    BY <2>1, <2>2, RowIs
<1>4. out \in [1..MaxVersions -> [Employees -> Receipts]] /\ out[last] = new
      /\ \A v \in 1..MaxVersions : v # last => out[v] = rs[v]
  BY <1>1, <1>2, <1>3
<1>5. \A v \in 1..MaxVersions, e \in Employees : day[v][e] = Asked(receipts[v][e], out[v][e], late, since[v][e])
  BY DEF Since, Asked
<1>6. day \in [1..MaxVersions -> [Employees -> 0..LastDay]]
  <2>1. \A v \in 1..MaxVersions, e \in Employees : since[v][e] \in 0..LastDay /\ today \in 0..LastDay
    BY BoundsAssumption
  <2> QED
    BY <2>1 DEF Since
<1>7. ASSUME NEW v \in 1..MaxVersions, NEW e \in Employees
      PROVE  /\ out[v][e].signed = rs[v][e].signed /\ out[v][e].code = rs[v][e].code
             /\ Fits(out[v][e], day[v][e], vs, v, withdrawn, today)
  <2>1. CASE v = last
    BY <1>3, <1>4, <1>5, <2>1
  <2>2. CASE v # last
    <3>1. out[v][e] = rs[v][e]
      BY <1>4, <2>2
    <3>2. out[v][e].status # "pending"
      BY <2>2, <3>1 DEF Fits
    <3>3. day[v][e] = since[v][e]
      BY <1>5, <3>2 DEF Asked, AskedAgain
    <3> QED
      BY <3>1, <3>3
  <2> QED
    BY <2>1, <2>2
<1> QED
  BY <1>3, <1>4, <1>6, <1>7

-----------------------------------------------------------------------------
(* Codes. *)

\* Codes that differ from cs only in fewer of them being valid.
Fewer(ds, cs) ==
    /\ ds \in Seq(Code) /\ DOMAIN ds = DOMAIN cs
    /\ \A i \in DOMAIN cs :
          /\ ds[i].version = cs[i].version /\ ds[i].trainer = cs[i].trainer /\ ds[i].key = cs[i].key
          /\ ds[i].live => cs[i].live

LEMMA LapsedIs ==
    ASSUME NEW c \in Code
    PROVE  LET d == [c EXCEPT !.live = FALSE]
           IN d \in Code /\ d.version = c.version /\ d.trainer = c.trainer /\ d.key = c.key /\ ~d.live
<1>1. ASSUME NEW live \in BOOLEAN
      PROVE  [c EXCEPT !.live = live] =
                 [version |-> c.version, trainer |-> c.trainer, key |-> c.key, live |-> live]
  BY DEF Code
<1>2. [c EXCEPT !.live = FALSE] =
          [version |-> c.version, trainer |-> c.trainer, key |-> c.key, live |-> FALSE]
  BY <1>1
<1> QED
  BY <1>2 DEF Code

LEMMA EndIs ==
    ASSUME NEW cs \in Seq(Code), NEW ids
    PROVE  /\ Fewer(End(cs, ids), cs)
           /\ \A i \in DOMAIN cs : End(cs, ids)[i].live => i \notin ids
<1> DEFINE ds == End(cs, ids)
<1>1. DOMAIN ds = DOMAIN cs /\ DOMAIN cs = 1..Len(cs) /\ Len(cs) \in Nat
  BY DEF End
<1>3. ASSUME NEW i \in DOMAIN cs
      PROVE  /\ ds[i] \in Code
             /\ ds[i].version = cs[i].version /\ ds[i].trainer = cs[i].trainer /\ ds[i].key = cs[i].key
             /\ ds[i].live => cs[i].live /\ i \notin ids
  <2> DEFINE live == cs[i].live /\ i \notin ids
             d == [version |-> cs[i].version, trainer |-> cs[i].trainer, key |-> cs[i].key, live |-> live]
  <2>1. cs[i] \in Code
    BY <1>1
  <2>2. ds[i] = [cs[i] EXCEPT !.live = live]
    BY DEF End
  <2>3. live \in BOOLEAN
    OBVIOUS
  <2> HIDE DEF live
  <2>4. ds[i] = d
    BY <2>1, <2>2 DEF Code
  <2>5. d \in Code /\ d.version = cs[i].version /\ d.trainer = cs[i].trainer /\ d.key = cs[i].key /\ d.live = live
    BY <2>1, <2>3 DEF Code
  <2> QED
    BY <2>4, <2>5, Zenon DEF live
<1>4. ds \in Seq(Code)
  <2>1. ds = [i \in 1..Len(cs) |-> ds[i]]
    BY <1>1 DEF End
  <2> HIDE DEF ds
  <2> QED
    BY <1>1, <1>3, <2>1
<1> QED
  BY <1>1, <1>3, <1>4 DEF Fewer

LEMMA FewerMore ==
    ASSUME NEW bs, NEW cs, NEW ds, Fewer(cs, bs), Fewer(ds, cs)
    PROVE  Fewer(ds, bs)
  BY DEF Fewer

LEMMA FewerKept ==
    ASSUME CodesOK, Fewer(codes', codes),
           \A i \in DOMAIN codes' : codes'[i].live =>
               codes'[i].version = Len(versions') /\ ~withdrawn' /\ codes'[i].trainer \in grants'
    PROVE  CodesOK'
<1>1. codes' \in Seq(Code)
  BY DEF Fewer
<1>2. LiveCodes'
  BY DEF CodesOK, LiveCodes, Fewer, current
<1> QED
  BY <1>1, <1>2 DEF CodesOK

LEMMA ReconciledIs ==
    ASSUME NEW cs \in Seq(Code), NEW vs, NEW gs
    PROVE  /\ Fewer(Reconciled(vs, cs, gs), cs)
           /\ \A i \in DOMAIN cs : Reconciled(vs, cs, gs)[i].live =>
                 InForce(vs, cs[i].version) /\ cs[i].trainer \in Authorized(gs)
<1> DEFINE ids == {i \in DOMAIN cs : ~InForce(vs, cs[i].version) \/ cs[i].trainer \notin Authorized(gs)}
<1>1. Reconciled(vs, cs, gs) = End(cs, ids)
  BY DEF Reconciled
<1>2. \A i \in DOMAIN cs : i \notin ids => InForce(vs, cs[i].version) /\ cs[i].trainer \in Authorized(gs)
  OBVIOUS
<1> HIDE DEF ids
<1> QED
  BY <1>1, <1>2, EndIs

-----------------------------------------------------------------------------
(* The steps. *)

\* What a new signature of e under version v needs.
MaySign(v, e) ==
    /\ InForce(versions, v) /\ e \in Intended(versions[v]) /\ e \notin leave
    /\ versions[v].training =>
          LET c == codes[receipts'[v][e].code]
          IN c.version = v /\ c.live /\ c.trainer \in Authorized(grants) /\ ~wrong[e].locked

\* A step keeps signatures and gives one in force only.
Signs ==
    \A v \in 1..MaxVersions, e \in Employees :
        /\ receipts[v][e].signed => receipts'[v][e].signed /\ receipts'[v][e].code = receipts[v][e].code
        /\ receipts'[v][e].signed /\ ~receipts[v][e].signed => MaySign(v, e)

LEMMA SettleKept ==
    ASSUME WorldOK, NoticeOK, ReceiptsOK, CodesOK,
           UNCHANGED <<today, withdrawn>>,
           versions' \in Seq(Drafts), versions' # <<>>, Len(versions') <= MaxVersions, grants' \subseteq Trainers,
           NEW late \in BOOLEAN,
           NEW rs \in [1..MaxVersions -> [Employees -> Receipts]],
           \A v \in 1..MaxVersions, e \in Employees :
               Fits(rs[v][e], since[v][e], versions', v, withdrawn, today) /\ rs[v][e].signed = receipts[v][e].signed
               /\ rs[v][e].code = receipts[v][e].code,
           \A e \in Employees : late \/ since[Len(versions')][e] = 0,
           receipts[Len(versions')] = rs[Len(versions')],
           NEW cs, Fewer(cs, codes),
           Settle(versions', rs, cs, grants', late)
    PROVE  ReceiptsOK' /\ CodesOK' /\ Signs
<1> DEFINE vs == versions'
           out == Synced(vs, rs, late)
           day == Since(out, late)
<1>1. /\ out \in [1..MaxVersions -> [Employees -> Receipts]]
      /\ day \in [1..MaxVersions -> [Employees -> 0..LastDay]]
      /\ \A v \in 1..MaxVersions, e \in Employees :
            /\ out[v][e].signed = rs[v][e].signed /\ out[v][e].code = rs[v][e].code
            /\ Fits(out[v][e], day[v][e], vs, v, withdrawn, today)
  <2>1. today \in 1..LastDay /\ withdrawn \in BOOLEAN /\ since \in [1..MaxVersions -> [Employees -> 0..LastDay]]
    BY DEF WorldOK, NoticeOK, ReceiptsOK
  <2> HIDE DEF vs
  <2>2. /\ vs \in Seq(Drafts) /\ vs # <<>> /\ Len(vs) <= MaxVersions /\ receipts[Len(vs)] = rs[Len(vs)]
        /\ \A e \in Employees : late \/ since[Len(vs)][e] = 0
        /\ \A v \in 1..MaxVersions, e \in Employees : Fits(rs[v][e], since[v][e], vs, v, withdrawn, today)
    BY DEF vs
  <2> QED
    BY <2>1, <2>2, SettledFit
<1>2. receipts' = out /\ since' = day /\ codes' = Reconciled(vs, cs, grants')
  BY DEF Settle
<1>3. ReceiptsOK'
  <2>1. \A v \in 1..MaxVersions, e \in Employees : Fits(receipts'[v][e], since'[v][e], versions', v, withdrawn', today')
    BY <1>1, <1>2
  <2> QED
    BY <1>1, <1>2, <2>1 DEF ReceiptsOK, AllFit
<1>4. CodesOK'
  <2>1. cs \in Seq(Code)
    BY DEF Fewer
  <2>2. /\ Fewer(Reconciled(vs, cs, grants'), cs)
        /\ \A i \in DOMAIN cs : Reconciled(vs, cs, grants')[i].live =>
              InForce(vs, cs[i].version) /\ cs[i].trainer \in Authorized(grants')
    BY <2>1, ReconciledIs
  <2>3. \A i \in DOMAIN codes' : codes'[i].live =>
            codes'[i].version = Len(versions') /\ ~withdrawn /\ codes'[i].trainer \in grants'
    BY <1>2, <2>2 DEF Fewer, InForce, Authorized
  <2>4. Fewer(codes', codes)
    BY <1>2, <2>2, FewerMore
  <2> QED
    BY <2>3, <2>4, FewerKept
<1>5. Signs
  <2>1. \A v \in 1..MaxVersions, e \in Employees :
            receipts'[v][e].signed = receipts[v][e].signed /\ receipts'[v][e].code = receipts[v][e].code
    BY <1>1, <1>2
  <2> QED
    BY <2>1 DEF Signs
<1> QED
  BY <1>3, <1>4, <1>5

\* A step that leaves the receipts alone.
LEMMA SameReceipts ==
    ASSUME ReceiptsOK, UNCHANGED <<receipts, since, versions, withdrawn, today>>
    PROVE  ReceiptsOK' /\ Signs
  BY DEF ReceiptsOK, AllFit, Signs

LEMMA SyncKept == ASSUME IInv, Settle(versions, receipts, codes, grants, TRUE), versions # <<>>,
                         UNCHANGED <<today, world, notice, grants>>, WrongOK'
                  PROVE  IInv' /\ Signs
<1>1. UNCHANGED <<today, changes, place, leave, able, withdrawn, versions, grants>>
  BY DEF world, notice
<1>2. WorldOK' /\ NoticeOK'
  BY <1>1 DEF IInv, WorldOK, NoticeOK
<1>3. /\ versions' \in Seq(Drafts) /\ versions' # <<>> /\ Len(versions') <= MaxVersions /\ grants' \subseteq Trainers
      /\ receipts \in [1..MaxVersions -> [Employees -> Receipts]]
      /\ \A v \in 1..MaxVersions, e \in Employees : Fits(receipts[v][e], since[v][e], versions', v, withdrawn, today)
  BY <1>1 DEF IInv, NoticeOK, ReceiptsOK, AllFit
<1>6. Settle(versions', receipts, codes, grants', TRUE)
  BY <1>1, Zenon
<1>4. Fewer(codes, codes)
  BY DEF IInv, CodesOK, Fewer
<1>5. ReceiptsOK' /\ CodesOK' /\ Signs
  BY <1>1, <1>3, <1>4, <1>6, SettleKept DEF IInv
<1> QED
  BY <1>2, <1>5 DEF IInv

LEMMA CountIs ==
    ASSUME NEW n \in 0..Tries
    PROVE  /\ Count(n) \in [failures : 0..Tries, locked : BOOLEAN]
           /\ ~Count(n).locked => Count(n).failures < Tries
<1> DEFINE b == n >= Tries
<1>1. b \in BOOLEAN
  OBVIOUS
<1>2. ~b => n < Tries
  BY BoundsAssumption
<1> HIDE DEF b
<1>3. Count(n) = [failures |-> n, locked |-> b]
  BY DEF Count, b
<1> QED
  BY <1>1, <1>2, <1>3

LEMMA WrongCodeKept == ASSUME IInv, NEW e \in Employees, WrongCode(e) PROVE IInv' /\ Signs
<1>1. wrong' = [wrong EXCEPT ![e] = Count(wrong[e].failures + 1)] /\ ~wrong[e].locked
  BY DEF WrongCode
<1>2. wrong[e].failures + 1 \in 0..Tries
  BY <1>1, BoundsAssumption DEF IInv, WrongOK, Locks
<1>3. WrongOK'
  BY <1>1, <1>2, CountIs DEF IInv, WrongOK, Locks
<1> QED
  BY <1>3, SyncKept DEF WrongCode

LEMMA PublishKept == ASSUME IInv, NEW draft \in Drafts, NEW gs \in SUBSET Trainers, Publish(draft, gs)
                     PROVE  IInv' /\ Signs
<1>1. /\ versions = <<>> /\ versions' = <<draft>> /\ grants' = gs
      /\ Settle(versions', receipts, codes, grants', FALSE)
      /\ UNCHANGED <<today, changes, place, leave, able, withdrawn, wrong>>
  BY DEF Publish, world
<1>2. versions' \in Seq(Drafts) /\ versions' # <<>> /\ Len(versions') = 1 /\ 1 <= MaxVersions /\ 1 \in 1..MaxVersions
      /\ Len(versions) = 0
  BY <1>1, BoundsAssumption
<1>3. ASSUME NEW v \in 1..MaxVersions, NEW e \in Employees
      PROVE  receipts[v][e] = Unasked /\ since[v][e] = 0
  <2>1. Fits(receipts[v][e], since[v][e], versions, v, withdrawn, today) /\ v > Len(versions)
    BY <1>2 DEF IInv, ReceiptsOK, AllFit
  <2> QED
    BY <2>1 DEF Fits
<1>4. ASSUME NEW v \in 1..MaxVersions, NEW e \in Employees
      PROVE  Fits(receipts[v][e], since[v][e], versions', v, withdrawn, today)
  BY <1>3, UnaskedIs DEF Fits
<1>5. Fewer(codes, codes) /\ receipts \in [1..MaxVersions -> [Employees -> Receipts]]
  BY DEF IInv, CodesOK, Fewer, ReceiptsOK
<1>6. \A e \in Employees : FALSE \/ since[Len(versions')][e] = 0
  BY <1>2, <1>3
<1>7. ReceiptsOK' /\ CodesOK' /\ Signs
  <2>1. Len(versions') <= MaxVersions /\ grants' \subseteq Trainers
    BY <1>1, <1>2
  <2> QED
    BY <1>1, <1>2, <1>4, <1>5, <1>6, <2>1, SettleKept DEF IInv
<1>8. WorldOK' /\ NoticeOK' /\ WrongOK'
  BY <1>1, <1>2 DEF IInv, WorldOK, NoticeOK, WrongOK, Locks
<1> QED
  BY <1>7, <1>8 DEF IInv

\* What revise and withdraw make of the receipts nobody signed.
LEMMA ClosedIs ==
    ASSUME NEW r \in Receipts, NEW status \in Statuses,
           NEW n, n = IF r = Unasked \/ r.signed THEN r ELSE [r EXCEPT !.status = status]
    PROVE  /\ n \in Receipts /\ n.signed = r.signed /\ n.code = r.code /\ n.paused = r.paused
           /\ n.status = status \/ (n = r /\ (r = Unasked \/ r.signed))
<1>1. CASE r = Unasked \/ r.signed
  BY <1>1
<1>2. CASE ~(r = Unasked \/ r.signed)
  <2>1. n = [r EXCEPT !.status = status]
    BY <1>2
  <2>2. LET x == [r EXCEPT !.status = status]
        IN x \in Receipts /\ x.status = status /\ x.signed = r.signed /\ x.code = r.code /\ x.paused = r.paused
    BY StatusIs
  <2> QED
    BY <2>1, <2>2, Zenon
<1> QED
  BY <1>1, <1>2

LEMMA ReviseKept == ASSUME IInv, NEW draft \in Drafts, NEW gs \in SUBSET Trainers, Revise(draft, gs)
                    PROVE  IInv' /\ Signs
<1> DEFINE rs == [receipts EXCEPT ![current] = [e \in Employees |-> Superseded(receipts[current][e])]]
           cs == End(codes, {i \in DOMAIN codes : codes[i].version = current})
<1>1. /\ versions # <<>> /\ Len(versions) < MaxVersions /\ versions' = Append(versions, draft)
      /\ grants' = gs /\ wrong' = NoTries
      /\ UNCHANGED <<today, changes, place, leave, able, withdrawn>>
  BY DEF Revise, world, current
<1>2. Settle(versions', rs, cs, grants', TRUE)
  <2>1. Settle(Append(versions, draft), rs, cs, gs, TRUE)
    BY DEF Revise
  <2> QED
    BY <1>1, <2>1, Zenon
<1>3. /\ versions' \in Seq(Drafts) /\ versions' # <<>> /\ Len(versions') = Len(versions) + 1
      /\ Len(versions) \in Nat /\ Len(versions) \in 1..MaxVersions /\ Len(versions) + 1 \in 1..MaxVersions
      /\ Len(versions') <= MaxVersions
  BY <1>1, BoundsAssumption DEF IInv, NoticeOK
<1>4. receipts \in [1..MaxVersions -> [Employees -> Receipts]]
  BY DEF IInv, ReceiptsOK
<1>5. ASSUME NEW v \in 1..MaxVersions, NEW e \in Employees
      PROVE  /\ rs[v][e] \in Receipts
             /\ rs[v][e].signed = receipts[v][e].signed /\ rs[v][e].code = receipts[v][e].code
             /\ Fits(rs[v][e], since[v][e], versions', v, withdrawn, today)
  <2>0. Fits(receipts[v][e], since[v][e], versions, v, withdrawn, today) /\ receipts[v][e] \in Receipts
    BY <1>4 DEF IInv, ReceiptsOK, AllFit
  <2>1. CASE v = current
    <3>1. v = Len(versions) /\ v < Len(versions') /\ ~(v > Len(versions'))
      BY <1>3, <2>1 DEF current
    <3>2. rs[v][e] = IF receipts[v][e] = Unasked \/ receipts[v][e].signed THEN receipts[v][e]
                     ELSE [receipts[v][e] EXCEPT !.status = "superseded"]
      BY <1>3, <1>4, <2>1 DEF Superseded, current
    <3>3. /\ rs[v][e] \in Receipts /\ rs[v][e].signed = receipts[v][e].signed /\ rs[v][e].code = receipts[v][e].code
          /\ \/ rs[v][e].status = "superseded"
             \/ rs[v][e] = receipts[v][e] /\ (receipts[v][e] = Unasked \/ receipts[v][e].signed)
      <4>1. "superseded" \in Statuses
        BY DEF Statuses
      <4> QED
        BY <2>0, <3>2, <4>1, ClosedIs
    <3> HIDE DEF rs
    <3>4. CASE rs[v][e].status = "superseded"
      <4>1. ASSUME NEW r, r.status = "superseded" PROVE Fits(r, since[v][e], versions', v, withdrawn, today)
        BY <3>1, <4>1 DEF Fits
      <4> QED
        BY <3>3, <3>4, <4>1
    <3>5. CASE rs[v][e] = receipts[v][e] /\ (receipts[v][e] = Unasked \/ receipts[v][e].signed)
      <4>1. rs[v][e].status # "pending"
        BY <2>0, <3>5, UnaskedIs DEF Fits
      <4>2. Fits(rs[v][e], since[v][e], versions, v, withdrawn, today)
        BY <2>0, <3>5
      <4>3. Fits(rs[v][e], since[v][e], versions', v, withdrawn, today)
        BY <3>1, <4>1, <4>2 DEF Fits
      <4> QED
        BY <3>3, <4>3
    <3> QED
      BY <3>3, <3>4, <3>5
  <2>2. CASE v # current
    <3>1. rs[v] = receipts[v]
      BY <1>4, <2>2
    <3>2. v # Len(versions) /\ (v < Len(versions) => v < Len(versions'))
      BY <1>3, <2>2 DEF current
    <3> HIDE DEF rs
    <3>3. CASE v > Len(versions)
      <4>1. receipts[v][e] = Unasked /\ since[v][e] = 0
        BY <2>0, <3>3 DEF Fits
      <4>2. Fits(Unasked, 0, versions', v, withdrawn, today)
        BY UnaskedIs DEF Fits
      <4> QED
        BY <2>0, <3>1, <4>1, <4>2
    <3>4. CASE v < Len(versions)
      <4>1. Fits(receipts[v][e], since[v][e], versions', v, withdrawn, today)
        <5>1. v < Len(versions') /\ ~(v > Len(versions')) /\ receipts[v][e].status # "pending"
          BY <1>3, <2>0, <3>2, <3>4 DEF Fits
        <5> QED
          BY <2>0, <5>1 DEF Fits
      <4> QED
        BY <2>0, <3>1, <4>1
    <3> QED
      BY <1>3, <3>2, <3>3, <3>4
  <2> QED
    BY <2>1, <2>2
<1>6. rs \in [1..MaxVersions -> [Employees -> Receipts]] /\ receipts[Len(versions')] = rs[Len(versions')]
  <2>1. [e \in Employees |-> Superseded(receipts[current][e])] = rs[current]
        /\ current \in 1..MaxVersions /\ Len(versions') # current
    BY <1>3, <1>4 DEF current
  <2>2. \A e \in Employees : rs[current][e] \in Receipts
    BY <1>5, <2>1
  <2>3. [e \in Employees |-> Superseded(receipts[current][e])] \in [Employees -> Receipts]
    BY <2>1, <2>2
  <2> QED
    BY <1>3, <1>4, <2>1, <2>3
<1>7. Fewer(cs, codes)
  BY EndIs DEF IInv, CodesOK
<1>8. ReceiptsOK' /\ CodesOK' /\ Signs
  <2> HIDE DEF rs, cs
  <2>1. grants' \subseteq Trainers
    BY <1>1
  <2> QED
    BY <1>1, <1>2, <1>3, <1>5, <1>6, <1>7, <2>1, SettleKept DEF IInv
<1>9. WrongOK'
  <2>1. NoTries \in [Employees -> [failures : 0..Tries, locked : BOOLEAN]]
        /\ \A e \in Employees : NoTries[e].failures < Tries
    BY BoundsAssumption DEF NoTries
  <2> QED
    BY <1>1, <2>1 DEF WrongOK, Locks
<1>10. WorldOK' /\ NoticeOK'
  BY <1>1, <1>3 DEF IInv, WorldOK, NoticeOK
<1> QED
  BY <1>8, <1>9, <1>10 DEF IInv

LEMMA WithdrawKept == ASSUME IInv, Withdraw PROVE IInv' /\ Signs
<1>1. /\ withdrawn' = TRUE
      /\ UNCHANGED <<today, changes, place, leave, able, versions, since, grants, wrong>>
      /\ receipts' = [v \in 1..MaxVersions |-> [e \in Employees |-> Closed(receipts[v][e])]]
      /\ codes' = End(codes, {i \in DOMAIN codes : codes[i].version = current})
  BY DEF Withdraw, world
<1>2. ASSUME NEW v \in 1..MaxVersions, NEW e \in Employees
      PROVE  /\ receipts'[v][e] \in Receipts
             /\ receipts'[v][e].signed = receipts[v][e].signed /\ receipts'[v][e].code = receipts[v][e].code
             /\ Fits(receipts'[v][e], since[v][e], versions, v, TRUE, today)
  <2>0. Fits(receipts[v][e], since[v][e], versions, v, withdrawn, today) /\ receipts[v][e] \in Receipts
    BY DEF IInv, ReceiptsOK, AllFit
  <2>1. receipts'[v][e] = IF receipts[v][e] = Unasked \/ receipts[v][e].signed THEN receipts[v][e]
                          ELSE [receipts[v][e] EXCEPT !.status = "withdrawn"]
    BY <1>1 DEF Closed
  <2>2. /\ receipts'[v][e] \in Receipts
        /\ receipts'[v][e].signed = receipts[v][e].signed /\ receipts'[v][e].code = receipts[v][e].code
        /\ \/ receipts'[v][e].status = "withdrawn"
           \/ receipts'[v][e] = receipts[v][e] /\ (receipts[v][e] = Unasked \/ receipts[v][e].signed)
    <3>1. "withdrawn" \in Statuses
      BY DEF Statuses
    <3> QED
      BY <2>0, <2>1, <3>1, ClosedIs
  <2>3. CASE receipts'[v][e] = receipts[v][e] /\ (receipts[v][e] = Unasked \/ receipts[v][e].signed)
    <3>1. receipts[v][e].status # "pending"
      BY <2>0, <2>3, UnaskedIs DEF Fits
    <3>2. Fits(receipts[v][e], since[v][e], versions, v, TRUE, today)
      BY <2>0, <3>1 DEF Fits
    <3> QED
      BY <2>2, <2>3, <3>2
  <2>4. CASE receipts'[v][e].status = "withdrawn" /\ receipts'[v][e] # receipts[v][e]
    <3>1. receipts[v][e] # Unasked
      BY <2>1, <2>4
    <3>2. ~(v > Len(versions))
      BY <2>0, <3>1 DEF Fits
    <3>3. ASSUME NEW r, r.status = "withdrawn" PROVE Fits(r, since[v][e], versions, v, TRUE, today)
      BY <3>2, <3>3 DEF Fits
    <3> QED
      BY <2>2, <2>4, <3>3
  <2>5. CASE receipts'[v][e].status = "withdrawn" /\ receipts'[v][e] = receipts[v][e]
    <3>1. Fits(receipts[v][e], since[v][e], versions, v, TRUE, today)
      BY <2>0, <2>5 DEF Fits
    <3> QED
      BY <2>2, <2>5, <3>1
  <2> QED
    BY <2>2, <2>3, <2>4, <2>5
<1>3. ReceiptsOK'
  <2>1. receipts' \in [1..MaxVersions -> [Employees -> Receipts]]
    <3>1. \A v \in 1..MaxVersions, e \in Employees : Closed(receipts[v][e]) \in Receipts
      BY <1>1, <1>2
    <3> QED
      BY <1>1, <3>1
  <2>2. AllFit'
    BY <1>1, <1>2 DEF AllFit
  <2> QED
    BY <1>1, <2>1, <2>2 DEF IInv, ReceiptsOK
<1>4. CodesOK'
  <2>1. Fewer(codes', codes) /\ \A i \in DOMAIN codes' : codes'[i].live => codes[i].live /\ codes[i].version # current
    <3>1. codes \in Seq(Code)
      BY DEF IInv, CodesOK
    <3>2. Fewer(codes', codes)
          /\ \A i \in DOMAIN codes : codes'[i].live => i \notin {j \in DOMAIN codes : codes[j].version = current}
      BY <1>1, <3>1, EndIs
    <3> QED
      BY <3>2 DEF Fewer
  <2>2. \A i \in DOMAIN codes' : ~codes'[i].live
    BY <2>1 DEF IInv, CodesOK, LiveCodes, Fewer
  <2> QED
    BY <2>1, <2>2, FewerKept DEF IInv
<1>5. Signs
  BY <1>2 DEF Signs
<1>6. WorldOK' /\ NoticeOK' /\ WrongOK'
  BY <1>1 DEF IInv, WorldOK, NoticeOK, WrongOK, Locks
<1> QED
  BY <1>3, <1>4, <1>5, <1>6 DEF IInv

\* The steps that leave receipts, versions and grants alone.
LEMMA GeneratedCodes == ASSUME IInv, NEW t \in Trainers, NEW k \in 1..MaxCodes, Generate(t, k) PROVE CodesOK'
<1> DEFINE c == [version |-> current, trainer |-> t, key |-> k, live |-> TRUE]
           cs == EndsEarlier(t)
           ids == {i \in DOMAIN codes : codes[i].version = current /\ codes[i].trainer = t}
<1>1. /\ InForce(versions, current) /\ t \in grants /\ \A i \in DOMAIN codes : codes[i].key # k
      /\ codes' = Append(cs, c) /\ UNCHANGED <<versions, withdrawn, grants>>
  BY DEF Generate, MayTrain, Authorized, Made, notice
<1>2. ~withdrawn /\ versions # <<>> /\ current \in 1..MaxVersions /\ current = Len(versions)
  BY <1>1 DEF InForce, IInv, NoticeOK, current
<1>3. codes \in Seq(Code) /\ LiveCodes
  BY DEF IInv, CodesOK
<1>4. Fewer(cs, codes) /\ \A i \in DOMAIN codes : cs[i].live => i \notin ids
  BY <1>3, EndIs DEF EndsEarlier
<1>5. c \in Code
  BY <1>2 DEF Code
<1>6. cs \in Seq(Code) /\ DOMAIN cs = 1..Len(cs) /\ Len(cs) \in Nat
  BY <1>4 DEF Fewer
<1> HIDE DEF c, cs, ids
<1>7. /\ codes' \in Seq(Code) /\ DOMAIN codes' = 1..Len(cs) + 1
      /\ \A i \in 1..Len(cs) : codes'[i] = cs[i]
      /\ codes'[Len(cs) + 1] = c
  BY <1>1, <1>5, <1>6
<1>8. ASSUME NEW i \in 1..Len(cs)
      PROVE  /\ codes'[i].key = codes[i].key /\ codes'[i].key # k
             /\ codes'[i].trainer = codes[i].trainer
             /\ codes'[i].live => /\ codes[i].live /\ codes'[i].version = current /\ codes'[i].trainer \in grants
                                  /\ codes'[i].trainer # t
             /\ i \in DOMAIN codes
  BY <1>1, <1>3, <1>4, <1>6, <1>7 DEF Fewer, LiveCodes, ids
<1>9. c.version = current /\ c.trainer = t /\ c.key = k
  BY DEF c
<1>10. LiveCodes'
  <2> SUFFICES ASSUME NEW i \in DOMAIN codes', codes'[i].live
               PROVE  /\ codes'[i].version = Len(versions) /\ ~withdrawn /\ codes'[i].trainer \in grants
                      /\ \A j \in DOMAIN codes' \ {i} :
                            /\ codes'[j].key # codes'[i].key
                            /\ codes'[j].live => codes'[j].trainer # codes'[i].trainer
    BY <1>1 DEF LiveCodes, current
  <2>1. CASE i \in 1..Len(cs)
    <3>1. ASSUME NEW j \in DOMAIN codes' \ {i}
          PROVE  /\ codes'[j].key # codes'[i].key
                 /\ codes'[j].live => codes'[j].trainer # codes'[i].trainer
      <4>1. CASE j \in 1..Len(cs)
        BY <1>3, <1>8, <2>1, <4>1 DEF LiveCodes
      <4>2. CASE j = Len(cs) + 1
        BY <1>7, <1>8, <1>9, <2>1, <4>2
      <4> QED
        BY <1>6, <1>7, <4>1, <4>2
    <3> QED
      BY <1>2, <1>8, <2>1, <3>1
  <2>2. CASE i = Len(cs) + 1
    <3>1. ASSUME NEW j \in DOMAIN codes' \ {i}
          PROVE  /\ codes'[j].key # codes'[i].key
                 /\ codes'[j].live => codes'[j].trainer # codes'[i].trainer
      <4>1. j \in 1..Len(cs)
        BY <1>6, <1>7, <2>2
      <4> QED
        BY <1>7, <1>8, <1>9, <2>2, <4>1
    <3> QED
      BY <1>1, <1>2, <1>7, <1>9, <2>2, <3>1
  <2> QED
    BY <1>6, <1>7, <2>1, <2>2
<1> QED
  BY <1>7, <1>10 DEF CodesOK

LEMMA FewerStays ==
    ASSUME IInv, Fewer(codes', codes), UNCHANGED <<versions, withdrawn, grants>>
    PROVE  CodesOK'
<1>1. \A i \in DOMAIN codes' : codes'[i].live =>
          codes'[i].version = Len(versions') /\ ~withdrawn' /\ codes'[i].trainer \in grants'
  BY DEF IInv, CodesOK, LiveCodes, Fewer, current
<1> QED
  BY <1>1, FewerKept DEF IInv

LEMMA GrantKept == ASSUME IInv, NEW gs \in SUBSET Trainers, Grant(gs) PROVE IInv' /\ Signs
<1> DEFINE ids == {i \in DOMAIN codes : Revoked(codes[i], gs)}
<1>1. grants' = gs /\ codes' = End(codes, ids)
      /\ UNCHANGED <<today, changes, place, leave, able, withdrawn, versions, receipts, since, wrong>>
  BY DEF Grant, world, notice
<1>2. codes \in Seq(Code)
  BY DEF IInv, CodesOK
<1>3. Fewer(codes', codes) /\ \A i \in DOMAIN codes : codes'[i].live => i \notin ids
  BY <1>1, <1>2, EndIs
<1>4. \A i \in DOMAIN codes' : codes'[i].live =>
          codes'[i].version = Len(versions') /\ ~withdrawn' /\ codes'[i].trainer \in grants'
  BY <1>1, <1>3 DEF IInv, CodesOK, LiveCodes, Fewer, current, Revoked
<1>5. CodesOK'
  BY <1>3, <1>4, FewerKept DEF IInv
<1>6. ReceiptsOK' /\ Signs
  BY <1>1, SameReceipts DEF IInv
<1>7. WorldOK' /\ NoticeOK' /\ WrongOK'
  BY <1>1 DEF IInv, WorldOK, NoticeOK, WrongOK, Locks
<1> QED
  BY <1>5, <1>6, <1>7 DEF IInv

LEMMA CodesOnly ==
    ASSUME IInv, CodesOK',
           UNCHANGED <<today, changes, place, leave, able, withdrawn, versions, receipts, since, grants, wrong>>
    PROVE  IInv' /\ Signs
<1>1. ReceiptsOK' /\ Signs
  BY SameReceipts DEF IInv
<1>2. WorldOK' /\ NoticeOK' /\ WrongOK'
  BY DEF IInv, WorldOK, NoticeOK, WrongOK, Locks
<1> QED
  BY <1>1, <1>2 DEF IInv

LEMMA GenerateKept == ASSUME IInv, NEW t \in Trainers, NEW k \in 1..MaxCodes, Generate(t, k) PROVE IInv' /\ Signs
<1>1. UNCHANGED <<today, changes, place, leave, able, withdrawn, versions, receipts, since, grants, wrong>>
  BY DEF Generate, world, notice
<1> QED
  BY <1>1, GeneratedCodes, CodesOnly

LEMMA EndCodeKept == ASSUME IInv, NEW t \in Trainers, EndCode(t) PROVE IInv' /\ Signs
<1>1. UNCHANGED <<today, changes, place, leave, able, withdrawn, versions, receipts, since, grants, wrong>>
  BY DEF EndCode, world, notice
<1>2. Fewer(codes', codes)
  BY EndIs DEF EndCode, EndsEarlier, IInv, CodesOK
<1> QED
  BY <1>1, <1>2, FewerStays, CodesOnly

LEMMA CodeLapsesKept == ASSUME IInv, NEW k \in 1..MaxCodes, CodeLapses(k) PROVE IInv' /\ Signs
<1>1. UNCHANGED <<today, changes, place, leave, able, withdrawn, versions, receipts, since, grants, wrong>>
  BY DEF CodeLapses, world, notice
<1>2. codes \in Seq(Code) /\ k \in DOMAIN codes /\ codes' = [codes EXCEPT ![k] = [codes[k] EXCEPT !.live = FALSE]]
  BY DEF CodeLapses, Lapse, IInv, CodesOK
<1>3. codes[k] \in Code
  BY <1>2
<1>4. /\ codes'[k] \in Code /\ codes'[k].version = codes[k].version /\ codes'[k].trainer = codes[k].trainer
      /\ codes'[k].key = codes[k].key /\ ~codes'[k].live
  BY <1>2, <1>3, LapsedIs
<1>5. codes' \in Seq(Code) /\ DOMAIN codes' = DOMAIN codes
  BY <1>2, <1>4
<1>6. Fewer(codes', codes)
  BY <1>2, <1>4, <1>5 DEF Fewer
<1> QED
  BY <1>1, <1>6, FewerStays, CodesOnly

LEMMA LockLapsesKept == ASSUME IInv, NEW e \in Employees, LockLapses(e) PROVE IInv' /\ Signs
<1>1. wrong' = [wrong EXCEPT ![e] = Count(0)]
      /\ UNCHANGED <<today, changes, place, leave, able, withdrawn, versions, receipts, since, grants, codes>>
  BY DEF LockLapses, world, notice
<1>2. WrongOK'
  BY <1>1, CountIs, BoundsAssumption DEF IInv, WrongOK, Locks
<1>3. ReceiptsOK' /\ Signs
  BY <1>1, SameReceipts DEF IInv
<1>4. WorldOK' /\ NoticeOK' /\ CodesOK'
  BY <1>1 DEF IInv, WorldOK, NoticeOK, CodesOK, LiveCodes, current
<1> QED
  BY <1>2, <1>3, <1>4 DEF IInv

LEMMA WorldOnly ==
    ASSUME IInv, WorldOK', UNCHANGED <<today, withdrawn, versions, receipts, since, grants, codes, wrong>>
    PROVE  IInv' /\ Signs
<1>1. ReceiptsOK' /\ Signs
  BY SameReceipts DEF IInv
<1>2. NoticeOK' /\ CodesOK' /\ WrongOK'
  BY DEF IInv, NoticeOK, CodesOK, LiveCodes, current, WrongOK, Locks
<1> QED
  BY <1>1, <1>2 DEF IInv

LEMMA PersonKept ==
    ASSUME IInv, NEW e \in Employees, Leave(e) \/ \E p \in Places \cup {Away} : Moves(e, p)
    PROVE  IInv' /\ Signs
<1>1. UNCHANGED <<today, withdrawn, versions, receipts, since, grants, codes, wrong>>
  BY DEF Moves, Leave, notice, training
<1>2. WorldOK'
  BY BoundsAssumption DEF IInv, WorldOK, Moves, Leave, Changes
<1> QED
  BY <1>1, <1>2, WorldOnly

LEMMA QualifiesKept == ASSUME IInv, NEW t \in Trainers, Qualifies(t) PROVE IInv' /\ Signs
<1>1. UNCHANGED <<today, withdrawn, versions, receipts, since, grants, codes, wrong>>
  BY DEF Qualifies, notice, training
<1>2. WorldOK'
  BY BoundsAssumption DEF IInv, WorldOK, Qualifies, Changes
<1> QED
  BY <1>1, <1>2, WorldOnly

LEMMA DayPassesKept == ASSUME IInv, DayPasses PROVE IInv' /\ Signs
<1>1. /\ today' = today + 1 /\ today < LastDay
      /\ UNCHANGED <<changes, place, leave, able, withdrawn, versions, receipts, since, grants, wrong>>
  BY DEF DayPasses, world, notice
<1>2. Fewer(codes', codes)
  <2>1. codes \in Seq(Code) /\ DOMAIN codes = 1..Len(codes) /\ Len(codes) \in Nat
    BY DEF IInv, CodesOK
  <2>2. /\ DOMAIN codes' = DOMAIN codes /\ codes' = [i \in 1..Len(codes) |-> codes'[i]]
        /\ \A i \in DOMAIN codes : codes'[i] = [codes[i] EXCEPT !.live = FALSE] \/ codes'[i] = codes[i]
    BY <2>1 DEF DayPasses
  <2>3. ASSUME NEW i \in DOMAIN codes
        PROVE  /\ codes'[i] \in Code /\ codes'[i].version = codes[i].version
               /\ codes'[i].trainer = codes[i].trainer /\ codes'[i].key = codes[i].key
               /\ codes'[i].live => codes[i].live
    <3>1. codes[i] \in Code
      BY <2>1
    <3> QED
      BY <2>2, <3>1, LapsedIs
  <2>4. codes' \in Seq(Code)
    BY <2>1, <2>2, <2>3
  <2> QED
    BY <2>2, <2>3, <2>4 DEF Fewer
<1>3. CodesOK'
  BY <1>1, <1>2, FewerStays
<1>4. ASSUME NEW v \in 1..MaxVersions, NEW e \in Employees
      PROVE  Fits(receipts[v][e], since[v][e], versions, v, withdrawn, today + 1)
  <2>1. Fits(receipts[v][e], since[v][e], versions, v, withdrawn, today)
    BY DEF IInv, ReceiptsOK, AllFit
  <2>2. v <= Len(versions) => versions[v] \in Drafts
    BY DEF IInv, NoticeOK
  <2>3. v <= Len(versions) =>
            /\ versions[v].effective <= today => versions[v].effective <= today + 1
            /\ Over(versions[v], today) => Over(versions[v], today + 1)
    BY <2>2, DraftsAssumption, BoundsAssumption DEF Over, Never, IInv, WorldOK
  <2>4. v > Len(versions) => receipts[v][e].status = "none"
    BY <2>1, UnaskedIs DEF Fits
  <2>5. v > Len(versions) \/ v <= Len(versions)
    BY DEF IInv, NoticeOK
  <2> QED
    BY <2>1, <2>3, <2>4, <2>5 DEF Fits
<1>5. ReceiptsOK' /\ Signs
  BY <1>1, <1>4 DEF IInv, ReceiptsOK, AllFit, Signs
<1>6. WorldOK' /\ NoticeOK' /\ WrongOK'
  BY <1>1, BoundsAssumption DEF IInv, WorldOK, NoticeOK, WrongOK, Locks
<1> QED
  BY <1>3, <1>5, <1>6 DEF IInv

-----------------------------------------------------------------------------
(* An employee enters a code or signs. *)

LEMMA ReachIs ==
    ASSUME IInv, versions # <<>>
    PROVE  /\ current \in 1..MaxVersions /\ current = Len(versions)
           /\ Reach.rs \in [1..MaxVersions -> [Employees -> Receipts]]
           /\ Since(Reach.rs, TRUE) \in [1..MaxVersions -> [Employees -> 0..LastDay]]
           /\ \A v \in 1..MaxVersions, e \in Employees :
                 /\ Reach.rs[v][e].signed = receipts[v][e].signed /\ Reach.rs[v][e].code = receipts[v][e].code
                 /\ Fits(Reach.rs[v][e], Since(Reach.rs, TRUE)[v][e], versions, v, withdrawn, today)
           /\ \A e \in Employees : Reach.rs[current][e].status = "pending" =>
                 InForce(versions, current) /\ e \in Intended(versions[current]) /\ e \notin leave
<1>1. /\ today \in 1..LastDay /\ withdrawn \in BOOLEAN
      /\ since \in [1..MaxVersions -> [Employees -> 0..LastDay]]
      /\ receipts \in [1..MaxVersions -> [Employees -> Receipts]]
      /\ versions \in Seq(Drafts) /\ Len(versions) <= MaxVersions
      /\ \A v \in 1..MaxVersions, e \in Employees :
            Fits(receipts[v][e], since[v][e], versions, v, withdrawn, today)
  BY DEF IInv, WorldOK, NoticeOK, ReceiptsOK, AllFit
<1>2. current \in 1..MaxVersions /\ current = Len(versions)
  BY <1>1, BoundsAssumption DEF current
<1>3. Reach.rs = Synced(versions, receipts, TRUE)
  BY DEF Reach
<1> DEFINE out == Synced(versions, receipts, TRUE)
           day == Since(out, TRUE)
<1>4. /\ out \in [1..MaxVersions -> [Employees -> Receipts]]
      /\ day \in [1..MaxVersions -> [Employees -> 0..LastDay]]
      /\ \A v \in 1..MaxVersions, e \in Employees :
            /\ out[v][e].signed = receipts[v][e].signed /\ out[v][e].code = receipts[v][e].code
            /\ Fits(out[v][e], day[v][e], versions, v, withdrawn, today)
      /\ \A e \in Employees : out[Len(versions)][e].status = "pending" =>
            InForce(versions, Len(versions)) /\ e \in Intended(versions[Len(versions)]) /\ e \notin leave
  <2>1. \A e \in Employees : TRUE \/ since[Len(versions)][e] = 0
    OBVIOUS
  <2> QED
    BY <1>1, <2>1, SettledFit
<1> HIDE DEF out
<1>5. Reach.rs = out
  BY <1>3 DEF out
<1> QED
  BY <1>2, <1>4, <1>5, Zenon

\* One receipt changes after the rest was synchronized: by a code entered or by a
\* signature.
LEMMA EntersKept ==
    ASSUME IInv, versions # <<>>, NEW e \in Employees, Reach.rs[current][e].status = "pending",
           NEW n \in Receipts,
           \/ n.status = "pending" /\ ~n.signed /\ n.due = Reach.rs[current][e].due
           \/ n.status = "completed" /\ n.signed,
           Enters([Reach.rs EXCEPT ![current] = [Reach.rs[current] EXCEPT ![e] = n]]), WrongOK'
    PROVE  /\ IInv'
           /\ receipts'[current][e] = n /\ ~receipts[current][e].signed
           /\ \A v \in 1..MaxVersions, x \in Employees : v # current \/ x # e =>
                 receipts'[v][x].signed = receipts[v][x].signed /\ receipts'[v][x].code = receipts[v][x].code
           /\ InForce(versions, current) /\ e \in Intended(versions[current]) /\ e \notin leave
<1> DEFINE out == Reach.rs
           day == Since(out, TRUE)
<1>1. /\ UNCHANGED <<today, changes, place, leave, able, withdrawn, versions, grants>>
      /\ receipts' = [out EXCEPT ![current] = [out[current] EXCEPT ![e] = n]]
      /\ since' = Since(receipts', TRUE) /\ codes' = Reconciled(versions, codes, grants)
  BY DEF Enters, Reach, world, notice
<1>2. /\ current \in 1..MaxVersions /\ current = Len(versions)
      /\ out \in [1..MaxVersions -> [Employees -> Receipts]]
      /\ day \in [1..MaxVersions -> [Employees -> 0..LastDay]]
      /\ \A v \in 1..MaxVersions, x \in Employees :
            /\ out[v][x].signed = receipts[v][x].signed /\ out[v][x].code = receipts[v][x].code
            /\ Fits(out[v][x], day[v][x], versions, v, withdrawn, today)
      /\ \A x \in Employees : out[current][x].status = "pending" =>
            InForce(versions, current) /\ x \in Intended(versions[current]) /\ x \notin leave
  BY ReachIs
<1>0. out[current][e].status = "pending"
  OBVIOUS
<1> HIDE DEF out
<1>3. /\ receipts' \in [1..MaxVersions -> [Employees -> Receipts]]
      /\ receipts'[current][e] = n
      /\ \A v \in 1..MaxVersions, x \in Employees : v # current \/ x # e => receipts'[v][x] = out[v][x]
  BY <1>1, <1>2
<1>4. \A v \in 1..MaxVersions, x \in Employees :
          /\ since'[v][x] = Asked(receipts[v][x], receipts'[v][x], TRUE, since[v][x])
          /\ day[v][x] = Asked(receipts[v][x], out[v][x], TRUE, since[v][x])
  BY <1>1 DEF Since, Asked
<1>5. since' \in [1..MaxVersions -> [Employees -> 0..LastDay]]
  <2>1. \A v \in 1..MaxVersions, x \in Employees : since[v][x] \in 0..LastDay /\ today \in 0..LastDay
    <3>1. today \in 0..LastDay
      BY BoundsAssumption DEF IInv, WorldOK
    <3>2. since \in [1..MaxVersions -> [Employees -> 0..LastDay]]
      BY DEF IInv, ReceiptsOK
    <3> QED
      BY <3>1, <3>2
  <2> QED
    BY <1>1, <2>1 DEF Since
<1>6. Fits(n, since'[current][e], versions, current, withdrawn, today)
  <2>0. /\ Fits(out[current][e], day[current][e], versions, current, withdrawn, today)
        /\ out[current][e].status = "pending" /\ ~(current > Len(versions))
    <3>1. current \in 1..MaxVersions /\ ~(current > Len(versions))
      BY <1>2
    <3>2. Fits(out[current][e], day[current][e], versions, current, withdrawn, today)
      BY <1>2, Zenon
    <3> QED
      BY <1>0, <3>1, <3>2
  <2>1. CASE n.status = "pending" /\ ~n.signed /\ n.due = out[current][e].due
    <3>1. since'[current][e] = day[current][e]
      BY <1>2, <1>3, <1>4, <2>0, <2>1 DEF Asked, AskedAgain
    <3> QED
      BY <2>0, <2>1, <3>1 DEF Fits
  <2>2. CASE n.status = "completed" /\ n.signed
    BY <2>0, <2>2 DEF Fits
  <2> QED
    BY <2>1, <2>2 DEF out
<1>7. ReceiptsOK'
  <2>1. ASSUME NEW v \in 1..MaxVersions, NEW x \in Employees
        PROVE  Fits(receipts'[v][x], since'[v][x], versions', v, withdrawn', today')
    <3>1. CASE v = current /\ x = e
      BY <1>1, <1>3, <1>6, <3>1
    <3>2. CASE v # current \/ x # e
      <4>1. receipts'[v][x] = out[v][x] /\ since'[v][x] = day[v][x]
        <5>1. receipts'[v][x] = out[v][x]
          BY <1>3, <3>2, Zenon
        <5>2. since'[v][x] = Asked(receipts[v][x], receipts'[v][x], TRUE, since[v][x])
              /\ day[v][x] = Asked(receipts[v][x], out[v][x], TRUE, since[v][x])
          BY <1>4, Zenon
        <5> QED
          BY <5>1, <5>2, Zenon
      <4>2. Fits(out[v][x], day[v][x], versions, v, withdrawn, today)
        BY <1>2
      <4> QED
        BY <1>1, <4>1, <4>2, Zenon
    <3> QED
      BY <3>1, <3>2
  <2> QED
    BY <1>3, <1>5, <2>1 DEF ReceiptsOK, AllFit
<1>8. CodesOK'
  <2>1. Fewer(codes', codes)
    BY <1>1, ReconciledIs DEF IInv, CodesOK
  <2> QED
    BY <1>1, <2>1, FewerStays
<1>9. WorldOK' /\ NoticeOK'
  BY <1>1 DEF IInv, WorldOK, NoticeOK
<1>10. ~receipts[current][e].signed
  <2>1. Fits(out[current][e], day[current][e], versions, current, withdrawn, today)
        /\ out[current][e].status = "pending"
    BY <1>0, <1>2
  <2>2. ~out[current][e].signed
    BY <2>1 DEF Fits
  <2> QED
    BY <1>2, <2>2
<1>11. InForce(versions, current) /\ e \in Intended(versions[current]) /\ e \notin leave
  BY <1>0, <1>2
<1>12. \A v \in 1..MaxVersions, x \in Employees : v # current \/ x # e =>
           receipts'[v][x].signed = receipts[v][x].signed /\ receipts'[v][x].code = receipts[v][x].code
  <2> SUFFICES ASSUME NEW v \in 1..MaxVersions, NEW x \in Employees, v # current \/ x # e
               PROVE  receipts'[v][x].signed = receipts[v][x].signed /\ receipts'[v][x].code = receipts[v][x].code
    OBVIOUS
  <2>1. receipts'[v][x] = out[v][x]
    BY <1>3
  <2>2. out[v][x].signed = receipts[v][x].signed /\ out[v][x].code = receipts[v][x].code
    BY <1>2
  <2> QED
    BY <2>1, <2>2, Zenon
<1>13. IInv'
  BY <1>7, <1>8, <1>9 DEF IInv
<1> QED
  BY <1>3, <1>10, <1>11, <1>12, <1>13, Zenon

\* A right code stands for one more count from none.
LEMMA RightCode == ASSUME IInv, NEW e \in Employees, wrong' = [wrong EXCEPT ![e] = Count(0)] PROVE WrongOK'
  BY CountIs, BoundsAssumption DEF IInv, WrongOK, Locks

\* What validate_code has seen of the code it lets pass.
LEMMA PassedIs ==
    ASSUME IInv, NEW e \in Employees, NEW i \in 1..MaxCodes, Passes(e, i)
    PROVE  /\ versions # <<>> /\ Reach.rs[current][e].status = "pending" /\ ~wrong[e].locked
           /\ codes[i].version = current /\ codes[i].live /\ codes[i].trainer \in Authorized(grants)
<1>1. codes \in Seq(Code) /\ i \in DOMAIN codes
  BY DEF IInv, CodesOK, Passes
<1>2. Reach.cs = Reconciled(versions, codes, grants)
  BY DEF Reach
<1>3. Reach.cs[i].version = current /\ Reach.cs[i].live
  BY DEF Passes, Good
<1>4. /\ Fewer(Reach.cs, codes)
      /\ Reach.cs[i].live => codes[i].trainer \in Authorized(grants)
  BY <1>1, <1>2, ReconciledIs
<1>5. codes[i].version = current /\ codes[i].live
  BY <1>1, <1>3, <1>4 DEF Fewer
<1> QED
  BY <1>3, <1>4, <1>5 DEF Passes

LEMMA VerifyCodeKept == ASSUME IInv, NEW e \in Employees, NEW i \in 1..MaxCodes, VerifyCode(e, i) PROVE IInv' /\ Signs
<1> DEFINE r == Reach.rs[current][e]
           n == [status |-> r.status, paused |-> r.paused, due |-> r.due, signed |-> r.signed, code |-> i]
<1>1. versions # <<>> /\ r.status = "pending"
  BY PassedIs DEF VerifyCode
<1>2. r \in Receipts /\ ~r.signed
  <2>1. r \in Receipts /\ Fits(r, Since(Reach.rs, TRUE)[current][e], versions, current, withdrawn, today)
    BY <1>1, ReachIs
  <2> QED
    BY <1>1, <2>1 DEF Fits
<1>3. [r EXCEPT !.code = i] = n
  BY <1>2 DEF Receipts
<1>4. n \in Receipts /\ n.status = "pending" /\ ~n.signed /\ n.due = r.due
  BY <1>1, <1>2, BoundsAssumption DEF Receipts
<1>5. Enters([Reach.rs EXCEPT ![current] = [Reach.rs[current] EXCEPT ![e] = n]])
  <2>1. [Reach.rs EXCEPT ![current][e].code = i] = [Reach.rs EXCEPT ![current] = [Reach.rs[current] EXCEPT ![e] = n]]
    BY <1>3, Zenon
  <2> QED
    BY <2>1, Zenon DEF VerifyCode
<1>6. WrongOK'
  BY RightCode DEF VerifyCode
<1> HIDE DEF n, r
<1>7. /\ IInv'
      /\ receipts'[current][e] = n /\ ~receipts[current][e].signed
      /\ \A v \in 1..MaxVersions, x \in Employees : v # current \/ x # e =>
            receipts'[v][x].signed = receipts[v][x].signed /\ receipts'[v][x].code = receipts[v][x].code
  BY <1>1, <1>4, <1>5, <1>6, EntersKept DEF r
<1>8. Signs
  <2> SUFFICES ASSUME NEW v \in 1..MaxVersions, NEW x \in Employees
               PROVE  /\ receipts[v][x].signed => receipts'[v][x].signed /\ receipts'[v][x].code = receipts[v][x].code
                      /\ receipts'[v][x].signed /\ ~receipts[v][x].signed => MaySign(v, x)
    BY DEF Signs
  <2>1. CASE v = current /\ x = e
    BY <1>4, <1>7, <2>1
  <2>2. CASE v # current \/ x # e
    BY <1>7, <2>2
  <2> QED
    BY <2>1, <2>2
<1> QED
  BY <1>7, <1>8

\* A signature with the code i, or without one.
LEMMA SignedIs ==
    ASSUME IInv, versions # <<>>, NEW e \in Employees, NEW i \in 0..MaxCodes,
           Reach.rs[current][e].status = "pending",
           NEW n, n = [Reach.rs[current][e] EXCEPT !.signed = TRUE, !.status = "completed", !.code = i],
           Enters([Reach.rs EXCEPT ![current] = [Reach.rs[current] EXCEPT ![e] = n]]), WrongOK',
           versions[current].training =>
               /\ codes[i].version = current /\ codes[i].live /\ codes[i].trainer \in Authorized(grants)
               /\ ~wrong[e].locked
    PROVE  IInv' /\ Signs
<1> DEFINE r == Reach.rs[current][e]
<1>1. r \in Receipts
  BY ReachIs
<1>2. n = [status |-> "completed", paused |-> r.paused, due |-> r.due, signed |-> TRUE, code |-> i]
  BY <1>1 DEF Receipts
<1>3. n \in Receipts /\ n.status = "completed" /\ n.signed /\ n.code = i
  BY <1>1, <1>2 DEF Receipts, Statuses
<1> HIDE DEF r
<1>4. /\ IInv'
      /\ receipts'[current][e] = n /\ ~receipts[current][e].signed
      /\ \A v \in 1..MaxVersions, x \in Employees : v # current \/ x # e =>
            receipts'[v][x].signed = receipts[v][x].signed /\ receipts'[v][x].code = receipts[v][x].code
      /\ InForce(versions, current) /\ e \in Intended(versions[current]) /\ e \notin leave
  BY <1>3, EntersKept
<1>5. Signs
  <2> SUFFICES ASSUME NEW v \in 1..MaxVersions, NEW x \in Employees
               PROVE  /\ receipts[v][x].signed => receipts'[v][x].signed /\ receipts'[v][x].code = receipts[v][x].code
                      /\ receipts'[v][x].signed /\ ~receipts[v][x].signed => MaySign(v, x)
    BY DEF Signs
  <2>1. CASE v = current /\ x = e
    BY <1>3, <1>4, <2>1 DEF MaySign
  <2>2. CASE v # current \/ x # e
    BY <1>4, <2>2
  <2> QED
    BY <2>1, <2>2
<1> QED
  BY <1>4, <1>5

LEMMA SignKept == ASSUME IInv, NEW e \in Employees, NEW i \in 1..MaxCodes, Sign(e, i) PROVE IInv' /\ Signs
<1> DEFINE n == [Reach.rs[current][e] EXCEPT !.signed = TRUE, !.status = "completed", !.code = i]
<1>1. /\ versions # <<>> /\ Reach.rs[current][e].status = "pending" /\ ~wrong[e].locked
      /\ codes[i].version = current /\ codes[i].live /\ codes[i].trainer \in Authorized(grants)
  BY PassedIs DEF Sign, SignsWith
<1>2. Enters([Reach.rs EXCEPT ![current] = [Reach.rs[current] EXCEPT ![e] = n]])
  BY Zenon DEF Sign
<1>3. WrongOK'
  <2>1. wrong' = [wrong EXCEPT ![e] = Count(0)]
    BY DEF Sign
  <2> QED
    BY <2>1, RightCode
<1>4. i \in 0..MaxCodes
  BY BoundsAssumption
<1> QED
  BY <1>1, <1>2, <1>3, <1>4, SignedIs

LEMMA AcknowledgeKept == ASSUME IInv, NEW e \in Employees, Acknowledge(e) PROVE IInv' /\ Signs
<1> DEFINE r == Reach.rs[current][e]
           n == [r EXCEPT !.signed = TRUE, !.status = "completed"]
<1>1. versions # <<>> /\ r.status = "pending" /\ ~Last(versions).training /\ wrong' = wrong
  BY DEF Acknowledge
<1>2. Last(versions) = versions[current]
  BY DEF Last, current
<1>3. r \in Receipts
  BY <1>1, ReachIs
<1>4. n = [r EXCEPT !.signed = TRUE, !.status = "completed", !.code = r.code] /\ r.code \in 0..MaxCodes
  BY <1>3 DEF Receipts
<1>5. Enters([Reach.rs EXCEPT ![current] = [Reach.rs[current] EXCEPT ![e] = n]])
  BY Zenon DEF Acknowledge
<1>6. WrongOK'
  BY <1>1 DEF IInv, WrongOK, Locks
<1> QED
  BY <1>1, <1>2, <1>4, <1>5, <1>6, SignedIs

-----------------------------------------------------------------------------
(* The specification. *)

LEMMA InitIInv == Init => IInv
<1> SUFFICES ASSUME Init PROVE IInv
  OBVIOUS
<1>1. WorldOK /\ NoticeOK
  <2>1. 1 \in 1..LastDay /\ 0 \in 0..MaxChanges /\ MaxVersions \in Nat
    BY BoundsAssumption
  <2>2. versions \in Seq(Drafts) /\ Len(versions) = 0
    BY DEF Init
  <2>3. today \in 1..LastDay /\ changes \in 0..MaxChanges
    BY <2>1 DEF Init
  <2>4. withdrawn \in BOOLEAN /\ Len(versions) <= MaxVersions
    <3>1. withdrawn \in BOOLEAN
      BY Zenon DEF Init
    <3>2. Len(versions) <= MaxVersions
      BY <2>1, <2>2
    <3> QED
      BY <3>1, <3>2
  <2>5. /\ place \in [Employees -> Places \cup {Away}] /\ leave \subseteq Employees /\ able \subseteq Trainers
        /\ grants \subseteq Trainers
    BY DEF Init
  <2> QED
    BY <2>2, <2>3, <2>4, <2>5 DEF WorldOK, NoticeOK
<1>2. ReceiptsOK
  <2>1. \A v \in 1..MaxVersions, e \in Employees : receipts[v][e] = Unasked /\ since[v][e] = 0
    BY DEF Init
  <2>2. receipts \in [1..MaxVersions -> [Employees -> Receipts]]
        /\ since \in [1..MaxVersions -> [Employees -> 0..LastDay]]
    BY UnaskedIs, BoundsAssumption DEF Init
  <2>3. \A v \in 1..MaxVersions : Fits(Unasked, 0, versions, v, withdrawn, today)
    BY UnaskedIs DEF Fits
  <2> QED
    BY <2>1, <2>2, <2>3 DEF ReceiptsOK, AllFit
<1>3. CodesOK
  BY DEF Init, CodesOK, LiveCodes
<1>4. WrongOK
  BY BoundsAssumption DEF Init, WrongOK, Locks, NoTries
<1> QED
  BY <1>1, <1>2, <1>3, <1>4 DEF IInv

LEMMA Kept == IInv /\ Next => IInv' /\ Signs
<1> SUFFICES ASSUME IInv, Next PROVE IInv' /\ Signs
  OBVIOUS
<1>1. CASE Sync
  <2>1. WrongOK'
    BY <1>1 DEF Sync, IInv, WrongOK, Locks
  <2> QED
    BY <1>1, <2>1, SyncKept DEF Sync
<1>2. CASE Owner
  BY <1>2, WithdrawKept, GrantKept, PublishKept, ReviseKept DEF Owner
<1>3. CASE DayPasses
  BY <1>3, DayPassesKept
<1>4. ASSUME NEW t \in Trainers, EndCode(t) \/ Qualifies(t) \/ \E k \in 1..MaxCodes : Generate(t, k)
      PROVE  IInv' /\ Signs
  BY <1>4, EndCodeKept, QualifiesKept, GenerateKept
<1>5. ASSUME NEW i \in 1..MaxCodes, CodeLapses(i) PROVE IInv' /\ Signs
  BY <1>5, CodeLapsesKept
<1>6. ASSUME NEW e \in Employees, WrongCode(e) \/ Acknowledge(e) \/ LockLapses(e) PROVE IInv' /\ Signs
  BY <1>6, WrongCodeKept, AcknowledgeKept, LockLapsesKept
<1>7. ASSUME NEW e \in Employees, Leave(e) \/ \E p \in Places \cup {Away} : Moves(e, p) PROVE IInv' /\ Signs
  BY <1>7, PersonKept
<1>8. ASSUME NEW e \in Employees, NEW i \in 1..MaxCodes, VerifyCode(e, i) \/ Sign(e, i) PROVE IInv' /\ Signs
  BY <1>8, VerifyCodeKept, SignKept
<1> QED
  BY <1>1, <1>2, <1>3, <1>4, <1>5, <1>6, <1>7, <1>8 DEF Next

LEMMA Rests == ASSUME IInv, UNCHANGED vars PROVE IInv' /\ Signs
<1>1. UNCHANGED <<today, changes, place, leave, able, withdrawn, versions, receipts, since, grants, wrong, codes>>
  BY DEF vars, world, notice, training
<1>2. CodesOK'
  BY <1>1 DEF IInv, CodesOK, LiveCodes, current
<1> QED
  BY <1>1, <1>2, CodesOnly

LEMMA StepKept == IInv /\ [Next]_vars => IInv' /\ Signs
  BY Kept, Rests

\* Types, receipts and codes in force and time to answer, at every moment of the
\* announcement (announcements.py:171-232, announcement_training.py:45-103).
THEOREM AskedOnlyInForce == Spec => []AskedInForce
<1>1. IInv => AskedInForce
  <2> SUFFICES ASSUME IInv PROVE AskedInForce
    OBVIOUS
  <2>1. TypeOK
    BY DEF IInv, WorldOK, NoticeOK, ReceiptsOK, CodesOK, WrongOK, TypeOK, Receipts, Code, current
  <2>2. \A v \in 1..MaxVersions, e \in Employees :
            Fits(receipts[v][e], since[v][e], versions, v, withdrawn, today)
    BY DEF IInv, ReceiptsOK, AllFit
  <2>3. PendingInForce
    BY <2>2 DEF PendingInForce, Fits, current
  <2>4. TimeToSign
    <3> SUFFICES ASSUME NEW v \in 1..MaxVersions, NEW e \in Employees, receipts[v][e].status = "pending"
                 PROVE  receipts[v][e].due >= since[v][e]
      BY DEF TimeToSign
    <3>1. since[v][e] <= receipts[v][e].due
      BY <2>2 DEF Fits
    <3> QED
      BY <3>1
  <2> QED
    BY <2>1, <2>3, <2>4 DEF AskedInForce, IInv, CodesOK
<1>2. IInv /\ [Next]_vars => IInv'
  BY StepKept
<1> QED
  BY <1>1, <1>2, InitIInv, PTL DEF Spec

\* Nobody signs but in force, in scope and with a valid code of a trainer granted
\* and qualified, and no signature is lost, whatever joins, leaves, expires or is
\* revised (routers/announcements.py:593-630, announcement_training.py:119-152).
THEOREM SignedInForceAndKept == Spec => SignaturesKept
<1>1. IInv /\ [Next]_vars =>
      [\A v \in 1..MaxVersions, e \in Employees :
         receipts'[v][e].signed /\ ~receipts[v][e].signed =>
           /\ InForce(versions, v) /\ e \in Intended(versions[v]) /\ e \notin leave
           /\ versions[v].training =>
                 LET c == codes[receipts'[v][e].code]
                 IN c.version = v /\ c.live /\ c.trainer \in Authorized(grants) /\ ~wrong[e].locked]_vars
  BY StepKept DEF Signs, MaySign
<1>2. IInv /\ [Next]_vars =>
      [\A v \in 1..MaxVersions, e \in Employees :
         receipts[v][e].signed => receipts'[v][e].signed /\ receipts'[v][e].code = receipts[v][e].code]_vars
  BY StepKept DEF Signs
<1>3. IInv /\ [Next]_vars => IInv'
  BY StepKept
<1>4. Spec => SignedInForce
  BY <1>1, <1>3, InitIInv, PTL DEF Spec, SignedInForce
<1>5. Spec => ReceiptKept
  BY <1>2, <1>3, InitIInv, PTL DEF Spec, ReceiptKept
<1> QED
  BY <1>4, <1>5 DEF SignaturesKept
-----------------------------------------------------------------------------
(* Releases. *)

Versions == Releases \cup {First}
Environments == {Needs[v] : v \in Versions} \cup {Torn}
Disks == [app : Versions \cup {None}, reqs : Environments, manifest : Versions, env : Environments]
Steps == {"snapshot", "service_task", "watchdog", "quiesce", "stop", "verify", "move_old",
          "move_new", "requirements", "pip", "start", "external_health", "metadata", "deployed",
          "enable", "confirm", Undo, "undo_stop", "undo_environment", "undo_application",
          "undo_metadata", "undo_start", "undo_enable", "undo_receipt", "over"}
Transactions ==
    [pc : Steps, release : Releases, old : Disks, changed : BOOLEAN, moved : BOOLEAN,
     kept : BOOLEAN, pip : BOOLEAN, stop : BOOLEAN, managed : BOOLEAN, enabled : BOOLEAN,
     safe : BOOLEAN, errors : BOOLEAN, dog : BOOLEAN]

ReleaseTypes ==
    /\ disk \in Disks
    /\ proc \in Versions \cup {None}
    /\ dog \in [enabled : BOOLEAN, runs : BOOLEAN]
    /\ tx \in [pc : {"idle"}] \cup Transactions

Active == tx.pc \notin {"idle", "over"}
Stopped == {"verify", "move_old", "move_new", "requirements", "pip"}
Undoing == {"undo_environment", "undo_application"}

\* Whoever touched files had stopped the application, and whoever stopped it
\* had taken the watchdog in hand.
InOrder == Active => /\ tx.moved \/ tx.pip => tx.stop
                     /\ tx.stop => tx.managed
                     /\ tx.pc \in {"quiesce", "stop"} => tx.managed
                     /\ tx.pc \in Stopped => tx.stop

\* While files are replaced nothing runs and nothing can be started.
Silent ==
    /\ tx.pc \in Stopped \cup {"stop"} => dog = Quiet
    /\ tx.pc \in Stopped => proc = None
    /\ tx.pc = "undo_stop" /\ tx.managed /\ tx.safe => dog = Quiet
    /\ tx.pc \in Undoing /\ tx.managed => dog = Quiet
    /\ tx.pc \in Undoing /\ tx.stop => proc = None

ReleaseInv == ReleaseTypes /\ InOrder /\ Silent

LEMMA ReleaseInitInv == ReleaseInit => ReleaseInv
<1> SUFFICES ASSUME ReleaseInit PROVE ReleaseInv
  OBVIOUS
<1>1. disk \in Disks /\ proc \in Versions \cup {None}
  BY DEF ReleaseInit, Disks, Environments, Versions
<1>2. tx = [pc |-> "idle"]
  BY DEF ReleaseInit, Idle
<1>3. ReleaseTypes
  <2>1. tx \in [pc : {"idle"}] \cup Transactions
    BY <1>2
  <2>2. dog \in [enabled : BOOLEAN, runs : BOOLEAN]
    BY DEF ReleaseInit
  <2> QED BY <1>1, <2>1, <2>2 DEF ReleaseTypes
<1>4. InOrder /\ Silent
  BY <1>2 DEF InOrder, Silent, Active, Stopped, Undoing, Undo
<1> QED BY <1>3, <1>4 DEF ReleaseInv

\* The names of the steps, for the leaves below.
LEMMA StepNames ==
    /\ {"snapshot", "service_task", "watchdog", "quiesce", "stop", "verify", "move_old", "move_new",
        "requirements", "pip", "start", "external_health", "metadata", "deployed", "enable",
        "confirm", "undo_watchdog", "undo_stop", "undo_environment", "undo_application",
        "undo_metadata", "undo_start", "undo_enable", "undo_receipt", "over"} \subseteq Steps
    /\ "idle" \notin Steps
  BY DEF Steps, Undo

\* What a transaction knows of files.
LEMMA Known ==
  ASSUME tx \in Transactions
  PROVE  /\ tx.release \in Versions /\ Needs[tx.release] \in Environments
         /\ tx.old.app \in Versions \cup {None} /\ tx.old.reqs \in Environments
         /\ tx.old.manifest \in Versions /\ tx.old.env \in Environments
<1>1. tx.release \in Releases /\ tx.old \in Disks
  BY DEF Transactions
<1> QED BY <1>1 DEF Versions, Environments, Disks

\* Whatever an attempt to disable the watchdog leaves is a state of its task.
LEMMA Disabled ==
  ASSUME dog \in [enabled : BOOLEAN, runs : BOOLEAN]
  PROVE  Quiet \in [enabled : BOOLEAN, runs : BOOLEAN] /\ Disabling \subseteq [enabled : BOOLEAN, runs : BOOLEAN]
<1>1. Quiet \in [enabled : BOOLEAN, runs : BOOLEAN]
  BY DEF Quiet
<1>2. [dog EXCEPT !.enabled = FALSE] \in [enabled : BOOLEAN, runs : BOOLEAN]
  OBVIOUS
<1> QED BY <1>1, <1>2 DEF Disabling

\* The steps of the release itself.
LEMMA ForwardKeeps ==
  ASSUME ReleaseInv,
         \/ Snapshot \/ ServiceTask \/ AskWatchdog \/ Quiesce \/ Stop \/ Verify
         \/ MoveOld \/ MoveNew \/ Requirements \/ Pip \/ Start \/ ExternalHealth
         \/ Metadata \/ Deployed \/ Enable \/ Confirm
  PROVE  ReleaseInv'
<1>0. /\ disk \in Disks /\ proc \in Versions \cup {None}
      /\ dog \in [enabled : BOOLEAN, runs : BOOLEAN]
  BY DEF ReleaseInv, ReleaseTypes
<1>1. CASE Snapshot
  <2>1. tx \in Transactions /\ tx.pc = "snapshot"
    BY <1>1 DEF Snapshot, At, Undo, ReleaseInv, ReleaseTypes
  <2>2. tx' \in Transactions
    BY <1>1, <1>0, <2>1, StepNames DEF Snapshot, Fault, Transactions, Done, Fails, Undo
  <2>3. disk' \in Disks /\ proc' \in Versions \cup {None} /\ dog' \in [enabled : BOOLEAN, runs : BOOLEAN]
    BY <1>1, <1>0, <2>1 DEF Snapshot, Fault, Quiet
  <2>4. InOrder' /\ Silent'
    BY <1>1, <2>1 DEF Snapshot, Fault, Transactions, Done, Fails, Quiet, Undo,
      ReleaseInv, InOrder, Silent, Active, Stopped, Undoing
  <2> QED BY <2>2, <2>3, <2>4 DEF ReleaseInv, ReleaseTypes
<1>2. CASE ServiceTask
  <2>1. tx \in Transactions /\ tx.pc = "service_task"
    BY <1>2 DEF ServiceTask, At, Undo, ReleaseInv, ReleaseTypes
  <2>2. tx' \in Transactions
    BY <1>2, <1>0, <2>1, StepNames DEF ServiceTask, Transactions, Done, Fails, Undo
  <2>3. disk' \in Disks /\ proc' \in Versions \cup {None} /\ dog' \in [enabled : BOOLEAN, runs : BOOLEAN]
    BY <1>2, <1>0, <2>1 DEF ServiceTask, Quiet
  <2>4. InOrder' /\ Silent'
    BY <1>2, <2>1 DEF ServiceTask, Transactions, Done, Fails, Quiet, Undo,
      ReleaseInv, InOrder, Silent, Active, Stopped, Undoing
  <2> QED BY <2>2, <2>3, <2>4 DEF ReleaseInv, ReleaseTypes
<1>3. CASE AskWatchdog
  <2>1. tx \in Transactions /\ tx.pc = "watchdog"
    BY <1>3 DEF AskWatchdog, At, Undo, ReleaseInv, ReleaseTypes
  <2>2. tx' \in Transactions
    BY <1>3, <1>0, <2>1, StepNames DEF AskWatchdog, Transactions, Done, Fails, Undo
  <2>3. disk' \in Disks /\ proc' \in Versions \cup {None} /\ dog' \in [enabled : BOOLEAN, runs : BOOLEAN]
    BY <1>3, <1>0, <2>1 DEF AskWatchdog, Quiet
  <2>4. InOrder' /\ Silent'
    BY <1>3, <2>1 DEF AskWatchdog, Transactions, Done, Fails, Quiet, Undo,
      ReleaseInv, InOrder, Silent, Active, Stopped, Undoing
  <2> QED BY <2>2, <2>3, <2>4 DEF ReleaseInv, ReleaseTypes
<1>4. CASE Quiesce
  <2>1. tx \in Transactions /\ tx.pc = "quiesce"
    BY <1>4 DEF Quiesce, At, Undo, ReleaseInv, ReleaseTypes
  <2>2. tx' \in Transactions
    BY <1>4, <1>0, <2>1, StepNames DEF Quiesce, Disabling, Transactions, Done, Fails, Undo
  <2>3. disk' \in Disks /\ proc' \in Versions \cup {None} /\ dog' \in [enabled : BOOLEAN, runs : BOOLEAN]
    <3>1. disk' \in Disks
      BY <1>4, <1>0, <2>1, Known DEF Quiesce, Disks
    <3>2. proc' \in Versions \cup {None}
      BY <1>4, <1>0 DEF Quiesce
    <3>3. dog' \in [enabled : BOOLEAN, runs : BOOLEAN]
      BY <1>4, <1>0, Disabled DEF Quiesce
    <3> QED BY <3>1, <3>2, <3>3
  <2>4. InOrder' /\ Silent'
    BY <1>4, <2>1 DEF Quiesce, Disabling, Transactions, Done, Fails, Quiet, Undo,
      ReleaseInv, InOrder, Silent, Active, Stopped, Undoing
  <2> QED BY <2>2, <2>3, <2>4 DEF ReleaseInv, ReleaseTypes
<1>5. CASE Stop
  <2>1. tx \in Transactions /\ tx.pc = "stop"
    BY <1>5 DEF Stop, At, Undo, ReleaseInv, ReleaseTypes
  <2>2. tx' \in Transactions
    BY <1>5, <1>0, <2>1, StepNames DEF Stop, Transactions, Done, Fails, Undo
  <2>3. disk' \in Disks /\ proc' \in Versions \cup {None} /\ dog' \in [enabled : BOOLEAN, runs : BOOLEAN]
    BY <1>5, <1>0, <2>1 DEF Stop, Disks, Quiet
  <2>4. InOrder' /\ Silent'
    <3>1. InOrder'
      BY <1>5, <2>1 DEF Stop, Transactions, Done, Fails, Undo, ReleaseInv, InOrder, Active, Stopped
    <3>2. Silent'
      BY <1>5, <2>1 DEF Stop, Transactions, Done, Fails, Undo, ReleaseInv, Silent, Stopped, Undoing
    <3> QED BY <3>1, <3>2
  <2> QED BY <2>2, <2>3, <2>4 DEF ReleaseInv, ReleaseTypes
<1>6. CASE Verify
  <2>1. tx \in Transactions /\ tx.pc = "verify"
    BY <1>6 DEF Verify, At, Undo, ReleaseInv, ReleaseTypes
  <2>2. tx' \in Transactions
    BY <1>6, <1>0, <2>1, StepNames DEF Verify, Transactions, Done, Fails, Undo
  <2>3. disk' \in Disks /\ proc' \in Versions \cup {None} /\ dog' \in [enabled : BOOLEAN, runs : BOOLEAN]
    BY <1>6, <1>0, <2>1 DEF Verify, Quiet
  <2>4. InOrder' /\ Silent'
    BY <1>6, <2>1 DEF Verify, Transactions, Done, Fails, Quiet, Undo,
      ReleaseInv, InOrder, Silent, Active, Stopped, Undoing
  <2> QED BY <2>2, <2>3, <2>4 DEF ReleaseInv, ReleaseTypes
<1>7. CASE MoveOld
  <2>1. tx \in Transactions /\ tx.pc = "move_old"
    BY <1>7 DEF MoveOld, At, Undo, ReleaseInv, ReleaseTypes
  <2>2. tx' \in Transactions
    <3>1. CASE tx' = [tx EXCEPT !.pc = "move_new", !.moved = TRUE, !.kept = TRUE]
      BY <3>1, <2>1, StepNames DEF Transactions
    <3>2. CASE tx' = [tx EXCEPT !.pc = Undo]
      BY <3>2, <2>1, StepNames DEF Transactions, Undo
    <3>3. CASE tx' = [tx EXCEPT !.pc = Undo, !.kept = TRUE]
      BY <3>3, <2>1, StepNames DEF Transactions, Undo
    <3> QED BY <1>7, <3>1, <3>2, <3>3 DEF MoveOld, Fails
  <2>3. disk' \in Disks /\ proc' \in Versions \cup {None} /\ dog' \in [enabled : BOOLEAN, runs : BOOLEAN]
    BY <1>7, <1>0, <2>1 DEF MoveOld, Disks, Quiet
  <2>4. InOrder' /\ Silent'
    <3>1. InOrder'
      BY <1>7, <2>1 DEF MoveOld, Transactions, Done, Fails, Undo, ReleaseInv, InOrder, Active, Stopped
    <3>2. Silent'
      BY <1>7, <2>1 DEF MoveOld, Transactions, Done, Fails, Undo, ReleaseInv, Silent, Stopped, Undoing
    <3> QED BY <3>1, <3>2
  <2> QED BY <2>2, <2>3, <2>4 DEF ReleaseInv, ReleaseTypes
<1>8. CASE MoveNew
  <2>1. tx \in Transactions /\ tx.pc = "move_new"
    BY <1>8 DEF MoveNew, Writes, At, Undo, ReleaseInv, ReleaseTypes
  <2>2. tx' \in Transactions
    BY <1>8, <1>0, <2>1, StepNames DEF MoveNew, Writes, Transactions, Done, Fails, Undo
  <2>3. disk' \in Disks /\ proc' \in Versions \cup {None} /\ dog' \in [enabled : BOOLEAN, runs : BOOLEAN]
    <3>1. disk' \in Disks
      BY <1>8, <1>0, <2>1, Known DEF MoveNew, Writes, Disks
    <3>2. proc' \in Versions \cup {None}
      BY <1>8, <1>0 DEF MoveNew, Writes
    <3>3. dog' \in [enabled : BOOLEAN, runs : BOOLEAN]
      BY <1>8, <1>0 DEF MoveNew, Writes
    <3> QED BY <3>1, <3>2, <3>3
  <2>4. InOrder' /\ Silent'
    BY <1>8, <2>1 DEF MoveNew, Writes, Transactions, Done, Fails, Quiet, Undo,
      ReleaseInv, InOrder, Silent, Active, Stopped, Undoing
  <2> QED BY <2>2, <2>3, <2>4 DEF ReleaseInv, ReleaseTypes
<1>9. CASE Requirements
  <2>1. tx \in Transactions /\ tx.pc = "requirements"
    BY <1>9 DEF Requirements, Writes, At, Undo, ReleaseInv, ReleaseTypes
  <2>2. tx' \in Transactions
    BY <1>9, <1>0, <2>1, StepNames DEF Requirements, Writes, Transactions, Done, Fails, Undo
  <2>3. disk' \in Disks /\ proc' \in Versions \cup {None} /\ dog' \in [enabled : BOOLEAN, runs : BOOLEAN]
    <3>1. disk' \in Disks
      BY <1>9, <1>0, <2>1, Known DEF Requirements, Writes, Disks
    <3>2. proc' \in Versions \cup {None}
      BY <1>9, <1>0 DEF Requirements, Writes
    <3>3. dog' \in [enabled : BOOLEAN, runs : BOOLEAN]
      BY <1>9, <1>0 DEF Requirements, Writes
    <3> QED BY <3>1, <3>2, <3>3
  <2>4. InOrder' /\ Silent'
    BY <1>9, <2>1 DEF Requirements, Writes, Transactions, Done, Fails, Quiet, Undo,
      ReleaseInv, InOrder, Silent, Active, Stopped, Undoing
  <2> QED BY <2>2, <2>3, <2>4 DEF ReleaseInv, ReleaseTypes
<1>10. CASE Pip
  <2>1. tx \in Transactions /\ tx.pc = "pip"
    BY <1>10 DEF Pip, At, Undo, ReleaseInv, ReleaseTypes
  <2>2. tx' \in Transactions
    BY <1>10, <1>0, <2>1, StepNames DEF Pip, Transactions, Done, Fails, Undo
  <2>3. disk' \in Disks /\ proc' \in Versions \cup {None} /\ dog' \in [enabled : BOOLEAN, runs : BOOLEAN]
    BY <1>10, <1>0, <2>1 DEF Pip, Disks, Environments, Quiet
  <2>4. InOrder' /\ Silent'
    <3>1. InOrder'
      BY <1>10, <2>1 DEF Pip, Transactions, Done, Fails, Undo, ReleaseInv, InOrder, Active, Stopped
    <3>2. Silent'
      BY <1>10, <2>1 DEF Pip, Transactions, Done, Fails, Undo, ReleaseInv, Silent, Stopped, Undoing
    <3> QED BY <3>1, <3>2
  <2> QED BY <2>2, <2>3, <2>4 DEF ReleaseInv, ReleaseTypes
<1>11. CASE Start
  <2>1. tx \in Transactions /\ tx.pc = "start"
    BY <1>11 DEF Start, At, Undo, ReleaseInv, ReleaseTypes
  <2>2. tx' \in Transactions
    BY <1>11, <1>0, <2>1, StepNames DEF Start, Transactions, Done, Fails, Undo
  <2>3. disk' \in Disks /\ proc' \in Versions \cup {None} /\ dog' \in [enabled : BOOLEAN, runs : BOOLEAN]
    BY <1>11, <1>0, <2>1 DEF Start, Disks, Quiet
  <2>4. InOrder' /\ Silent'
    BY <1>11, <2>1 DEF Start, Transactions, Done, Fails, Quiet, Undo,
      ReleaseInv, InOrder, Silent, Active, Stopped, Undoing
  <2> QED BY <2>2, <2>3, <2>4 DEF ReleaseInv, ReleaseTypes
<1>12. CASE ExternalHealth
  <2>1. tx \in Transactions /\ tx.pc = "external_health"
    BY <1>12 DEF ExternalHealth, At, Undo, ReleaseInv, ReleaseTypes
  <2>2. tx' \in Transactions
    BY <1>12, <1>0, <2>1, StepNames DEF ExternalHealth, Transactions, Done, Fails, Undo
  <2>3. disk' \in Disks /\ proc' \in Versions \cup {None} /\ dog' \in [enabled : BOOLEAN, runs : BOOLEAN]
    BY <1>12, <1>0, <2>1 DEF ExternalHealth, Quiet
  <2>4. InOrder' /\ Silent'
    BY <1>12, <2>1 DEF ExternalHealth, Transactions, Done, Fails, Quiet, Undo,
      ReleaseInv, InOrder, Silent, Active, Stopped, Undoing
  <2> QED BY <2>2, <2>3, <2>4 DEF ReleaseInv, ReleaseTypes
<1>13. CASE Metadata
  <2>1. tx \in Transactions /\ tx.pc = "metadata"
    BY <1>13 DEF Metadata, Writes, At, Undo, ReleaseInv, ReleaseTypes
  <2>2. tx' \in Transactions
    BY <1>13, <1>0, <2>1, StepNames DEF Metadata, Writes, Transactions, Done, Fails, Undo
  <2>3. disk' \in Disks /\ proc' \in Versions \cup {None} /\ dog' \in [enabled : BOOLEAN, runs : BOOLEAN]
    <3>1. disk' \in Disks
      BY <1>13, <1>0, <2>1, Known DEF Metadata, Writes, Disks
    <3>2. proc' \in Versions \cup {None}
      BY <1>13, <1>0 DEF Metadata, Writes
    <3>3. dog' \in [enabled : BOOLEAN, runs : BOOLEAN]
      BY <1>13, <1>0 DEF Metadata, Writes
    <3> QED BY <3>1, <3>2, <3>3
  <2>4. InOrder' /\ Silent'
    BY <1>13, <2>1 DEF Metadata, Writes, Transactions, Done, Fails, Quiet, Undo,
      ReleaseInv, InOrder, Silent, Active, Stopped, Undoing
  <2> QED BY <2>2, <2>3, <2>4 DEF ReleaseInv, ReleaseTypes
<1>14. CASE Deployed
  <2>1. tx \in Transactions /\ tx.pc = "deployed"
    BY <1>14 DEF Deployed, At, Undo, ReleaseInv, ReleaseTypes
  <2>2. tx' \in Transactions
    BY <1>14, <1>0, <2>1, StepNames DEF Deployed, Transactions, Done, Fails, Undo
  <2>3. disk' \in Disks /\ proc' \in Versions \cup {None} /\ dog' \in [enabled : BOOLEAN, runs : BOOLEAN]
    BY <1>14, <1>0, <2>1 DEF Deployed, Quiet
  <2>4. InOrder' /\ Silent'
    BY <1>14, <2>1 DEF Deployed, Transactions, Done, Fails, Quiet, Undo,
      ReleaseInv, InOrder, Silent, Active, Stopped, Undoing
  <2> QED BY <2>2, <2>3, <2>4 DEF ReleaseInv, ReleaseTypes
<1>15. CASE Enable
  <2>1. tx \in Transactions /\ tx.pc = "enable"
    BY <1>15 DEF Enable, At, Undo, ReleaseInv, ReleaseTypes
  <2>2. tx' \in Transactions
    BY <1>15, <1>0, <2>1, StepNames DEF Enable, Transactions, Done, Fails, Undo
  <2>3. disk' \in Disks /\ proc' \in Versions \cup {None} /\ dog' \in [enabled : BOOLEAN, runs : BOOLEAN]
    BY <1>15, <1>0, <2>1 DEF Enable, Quiet
  <2>4. InOrder' /\ Silent'
    BY <1>15, <2>1 DEF Enable, Transactions, Done, Fails, Quiet, Undo,
      ReleaseInv, InOrder, Silent, Active, Stopped, Undoing
  <2> QED BY <2>2, <2>3, <2>4 DEF ReleaseInv, ReleaseTypes
<1>16. CASE Confirm
  <2>1. tx \in Transactions /\ tx.pc = "confirm"
    BY <1>16 DEF Confirm, At, Undo, ReleaseInv, ReleaseTypes
  <2>2. tx' \in Transactions
    BY <1>16, <1>0, <2>1, StepNames DEF Confirm, Transactions, Done, Fails, Undo
  <2>3. disk' \in Disks /\ proc' \in Versions \cup {None} /\ dog' \in [enabled : BOOLEAN, runs : BOOLEAN]
    BY <1>16, <1>0, <2>1 DEF Confirm, Quiet
  <2>4. InOrder' /\ Silent'
    BY <1>16, <2>1 DEF Confirm, Transactions, Done, Fails, Quiet, Undo,
      ReleaseInv, InOrder, Silent, Active, Stopped, Undoing
  <2> QED BY <2>2, <2>3, <2>4 DEF ReleaseInv, ReleaseTypes
<1> QED BY <1>1, <1>2, <1>3, <1>4, <1>5, <1>6, <1>7, <1>8, <1>9, <1>10, <1>11, <1>12, <1>13, <1>14, <1>15, <1>16

\* The steps of the rollback.
LEMMA RollbackKeeps ==
  ASSUME ReleaseInv,
         \/ UndoWatchdog \/ UndoStop \/ UndoEnvironment \/ UndoApplication
         \/ UndoMetadata \/ UndoStart \/ UndoEnable \/ UndoReceipt
  PROVE  ReleaseInv'
<1>0. /\ disk \in Disks /\ proc \in Versions \cup {None}
      /\ dog \in [enabled : BOOLEAN, runs : BOOLEAN]
  BY DEF ReleaseInv, ReleaseTypes
<1>1. CASE UndoWatchdog
  <2>1. tx \in Transactions /\ tx.pc = Undo
    BY <1>1 DEF UndoWatchdog, At, Undo, ReleaseInv, ReleaseTypes
  <2>2. tx' \in Transactions
    BY <1>1, <1>0, <2>1, StepNames DEF UndoWatchdog, Disabling, Transactions, Done, Noted, Undo
  <2>3. disk' \in Disks /\ proc' \in Versions \cup {None} /\ dog' \in [enabled : BOOLEAN, runs : BOOLEAN]
    <3>1. disk' \in Disks
      BY <1>1, <1>0, <2>1, Known DEF UndoWatchdog, Disks
    <3>2. proc' \in Versions \cup {None}
      BY <1>1, <1>0 DEF UndoWatchdog
    <3>3. dog' \in [enabled : BOOLEAN, runs : BOOLEAN]
      BY <1>1, <1>0, Disabled DEF UndoWatchdog
    <3> QED BY <3>1, <3>2, <3>3
  <2>4. InOrder' /\ Silent'
    BY <1>1, <2>1 DEF UndoWatchdog, Disabling, Transactions, Done, Noted, Quiet, Undo,
      ReleaseInv, InOrder, Silent, Active, Stopped, Undoing
  <2> QED BY <2>2, <2>3, <2>4 DEF ReleaseInv, ReleaseTypes
<1>2. CASE UndoStop
  <2>1. tx \in Transactions /\ tx.pc = "undo_stop"
    BY <1>2 DEF UndoStop, At, Undo, ReleaseInv, ReleaseTypes
  <2>2. tx' \in Transactions
    BY <1>2, <1>0, <2>1, StepNames DEF UndoStop, StoppedSafely, Transactions, Done, Noted, Undo
  <2>3. disk' \in Disks /\ proc' \in Versions \cup {None} /\ dog' \in [enabled : BOOLEAN, runs : BOOLEAN]
    BY <1>2, <1>0, <2>1 DEF UndoStop, StoppedSafely, Quiet
  <2>4. InOrder' /\ Silent'
    BY <1>2, <2>1 DEF UndoStop, StoppedSafely, Transactions, Done, Noted, Quiet, Undo,
      ReleaseInv, InOrder, Silent, Active, Stopped, Undoing
  <2> QED BY <2>2, <2>3, <2>4 DEF ReleaseInv, ReleaseTypes
<1>3. CASE UndoEnvironment
  <2>1. tx \in Transactions /\ tx.pc = "undo_environment"
    BY <1>3 DEF UndoEnvironment, At, Undo, ReleaseInv, ReleaseTypes
  <2>2. tx' \in Transactions
    BY <1>3, <1>0, <2>1, StepNames DEF UndoEnvironment, Transactions, Done, Noted, Undo
  <2>3. disk' \in Disks /\ proc' \in Versions \cup {None} /\ dog' \in [enabled : BOOLEAN, runs : BOOLEAN]
    <3>1. disk' \in Disks
      BY <1>3, <1>0, <2>1, Known DEF UndoEnvironment, Disks, Environments
    <3>2. proc' \in Versions \cup {None}
      BY <1>3, <1>0 DEF UndoEnvironment
    <3>3. dog' \in [enabled : BOOLEAN, runs : BOOLEAN]
      BY <1>3, <1>0 DEF UndoEnvironment
    <3> QED BY <3>1, <3>2, <3>3
  <2>4. InOrder' /\ Silent'
    BY <1>3, <2>1 DEF UndoEnvironment, Transactions, Done, Noted, Quiet, Undo,
      ReleaseInv, InOrder, Silent, Active, Stopped, Undoing
  <2> QED BY <2>2, <2>3, <2>4 DEF ReleaseInv, ReleaseTypes
<1>4. CASE UndoApplication
  <2>1. tx \in Transactions /\ tx.pc = "undo_application"
    BY <1>4 DEF UndoApplication, At, Undo, ReleaseInv, ReleaseTypes
  <2>2. tx' \in Transactions
    BY <1>4, <1>0, <2>1, StepNames DEF UndoApplication, Transactions, Done, Noted, Undo
  <2>3. disk' \in Disks /\ proc' \in Versions \cup {None} /\ dog' \in [enabled : BOOLEAN, runs : BOOLEAN]
    <3>1. disk' \in Disks
      BY <1>4, <1>0, <2>1, Known DEF UndoApplication, Disks
    <3>2. proc' \in Versions \cup {None}
      BY <1>4, <1>0 DEF UndoApplication
    <3>3. dog' \in [enabled : BOOLEAN, runs : BOOLEAN]
      BY <1>4, <1>0 DEF UndoApplication
    <3> QED BY <3>1, <3>2, <3>3
  <2>4. InOrder' /\ Silent'
    BY <1>4, <2>1 DEF UndoApplication, Transactions, Done, Noted, Quiet, Undo,
      ReleaseInv, InOrder, Silent, Active, Stopped, Undoing
  <2> QED BY <2>2, <2>3, <2>4 DEF ReleaseInv, ReleaseTypes
<1>5. CASE UndoMetadata
  <2>1. tx \in Transactions /\ tx.pc = "undo_metadata"
    BY <1>5 DEF UndoMetadata, At, Undo, ReleaseInv, ReleaseTypes
  <2>2. tx' \in Transactions
    BY <1>5, <1>0, <2>1, StepNames DEF UndoMetadata, Restored, Transactions, Done, Noted, Undo
  <2>3. disk' \in Disks /\ proc' \in Versions \cup {None} /\ dog' \in [enabled : BOOLEAN, runs : BOOLEAN]
    <3>1. disk' \in Disks
      BY <1>5, <1>0, <2>1, Known DEF UndoMetadata, Restored, Disks
    <3>2. proc' \in Versions \cup {None}
      BY <1>5, <1>0 DEF UndoMetadata, Restored
    <3>3. dog' \in [enabled : BOOLEAN, runs : BOOLEAN]
      BY <1>5, <1>0 DEF UndoMetadata, Restored
    <3> QED BY <3>1, <3>2, <3>3
  <2>4. InOrder' /\ Silent'
    BY <1>5, <2>1 DEF UndoMetadata, Restored, Transactions, Done, Noted, Quiet, Undo,
      ReleaseInv, InOrder, Silent, Active, Stopped, Undoing
  <2> QED BY <2>2, <2>3, <2>4 DEF ReleaseInv, ReleaseTypes
<1>6. CASE UndoStart
  <2>1. tx \in Transactions /\ tx.pc = "undo_start"
    BY <1>6 DEF UndoStart, At, Undo, ReleaseInv, ReleaseTypes
  <2>2. tx' \in Transactions
    BY <1>6, <1>0, <2>1, StepNames DEF UndoStart, Transactions, Done, Noted, Undo
  <2>3. disk' \in Disks /\ proc' \in Versions \cup {None} /\ dog' \in [enabled : BOOLEAN, runs : BOOLEAN]
    BY <1>6, <1>0, <2>1 DEF UndoStart, Disks, Quiet
  <2>4. InOrder' /\ Silent'
    BY <1>6, <2>1 DEF UndoStart, Transactions, Done, Noted, Quiet, Undo,
      ReleaseInv, InOrder, Silent, Active, Stopped, Undoing
  <2> QED BY <2>2, <2>3, <2>4 DEF ReleaseInv, ReleaseTypes
<1>7. CASE UndoEnable
  <2>1. tx \in Transactions /\ tx.pc = "undo_enable"
    BY <1>7 DEF UndoEnable, At, Undo, ReleaseInv, ReleaseTypes
  <2>2. tx' \in Transactions
    BY <1>7, <1>0, <2>1, StepNames DEF UndoEnable, Transactions, Done, Noted, Undo
  <2>3. disk' \in Disks /\ proc' \in Versions \cup {None} /\ dog' \in [enabled : BOOLEAN, runs : BOOLEAN]
    BY <1>7, <1>0, <2>1 DEF UndoEnable, Quiet
  <2>4. InOrder' /\ Silent'
    BY <1>7, <2>1 DEF UndoEnable, Transactions, Done, Noted, Quiet, Undo,
      ReleaseInv, InOrder, Silent, Active, Stopped, Undoing
  <2> QED BY <2>2, <2>3, <2>4 DEF ReleaseInv, ReleaseTypes
<1>8. CASE UndoReceipt
  <2>1. tx \in Transactions /\ tx.pc = "undo_receipt"
    BY <1>8 DEF UndoReceipt, At, Undo, ReleaseInv, ReleaseTypes
  <2>2. tx' \in Transactions
    BY <1>8, <1>0, <2>1, StepNames DEF UndoReceipt, Transactions, Done, Noted, Undo
  <2>3. disk' \in Disks /\ proc' \in Versions \cup {None} /\ dog' \in [enabled : BOOLEAN, runs : BOOLEAN]
    BY <1>8, <1>0, <2>1 DEF UndoReceipt, Quiet
  <2>4. InOrder' /\ Silent'
    BY <1>8, <2>1 DEF UndoReceipt, Transactions, Done, Noted, Quiet, Undo,
      ReleaseInv, InOrder, Silent, Active, Stopped, Undoing
  <2> QED BY <2>2, <2>3, <2>4 DEF ReleaseInv, ReleaseTypes
<1> QED BY <1>1, <1>2, <1>3, <1>4, <1>5, <1>6, <1>7, <1>8

\* Its beginning, its death, and what happens beside it.
LEMMA OthersKeep ==
  ASSUME ReleaseInv,
         (\E r \in Releases : Prepare(r)) \/ Dies \/ WatchdogFires \/ WatchdogLooks \/ AppEnds
  PROVE  ReleaseInv'
<1> USE DEF ReleaseInv, ReleaseTypes, InOrder, Silent, Active, Stopped, Undoing, Undo, Quiet
<1>1. CASE \E r \in Releases : Prepare(r)
  BY <1>1, StepNames DEF Prepare, Transactions
<1>2. CASE Dies
  BY <1>2 DEF Dies, Idle, Disks, Environments
<1>3. CASE WatchdogFires
  <2>1. ReleaseTypes'
    BY <1>3 DEF WatchdogFires
  <2>2. InOrder' /\ Silent'
    BY <1>3 DEF WatchdogFires
  <2> QED BY <2>1, <2>2
<1>4. CASE WatchdogLooks
  <2>1. ReleaseTypes'
    BY <1>4 DEF WatchdogLooks, Disks
  <2>2. InOrder' /\ Silent'
    BY <1>4 DEF WatchdogLooks
  <2> QED BY <2>1, <2>2
<1>5. CASE AppEnds
  BY <1>5 DEF AppEnds
<1> QED BY <1>1, <1>2, <1>3, <1>4, <1>5

LEMMA ReleaseStepInv == ReleaseInv /\ [ReleaseNext]_releaseVars => ReleaseInv'
<1> SUFFICES ASSUME ReleaseInv, [ReleaseNext]_releaseVars PROVE ReleaseInv'
  OBVIOUS
<1>1. CASE UNCHANGED releaseVars
  BY <1>1 DEF releaseVars, ReleaseInv, ReleaseTypes, InOrder, Silent, Active
<1>2. CASE ReleaseNext
  BY <1>2, ForwardKeeps, RollbackKeeps, OthersKeep DEF ReleaseNext
<1> QED BY <1>1, <1>2

LEMMA ReleaseInvariant == ReleaseSpec => []ReleaseInv
  BY ReleaseInitInv, ReleaseStepInv, PTL DEF ReleaseSpec

-----------------------------------------------------------------------------
\* Only these steps change the application's directory or its environment.
LEMMA Replacing ==
  ASSUME ReleaseNext, disk'.app # disk.app \/ disk'.env # disk.env, ReleaseInv
  PROVE  \/ tx.pc \in {"move_old", "move_new", "pip"}
         \/ tx.pc = "undo_environment" /\ tx.pip
         \/ tx.pc = "undo_application" /\ tx.moved
<1> USE DEF ReleaseInv, ReleaseTypes, Disks, At
<1>1. CASE Requirements \/ Metadata \/ MoveNew
  BY <1>1 DEF Requirements, Metadata, MoveNew, Writes
<1>2. CASE UndoMetadata
  BY <1>2 DEF UndoMetadata, Restored
<1>3. CASE MoveOld \/ Pip
  BY <1>3 DEF MoveOld, Pip
<1>4. CASE UndoEnvironment \/ UndoApplication
  BY <1>4 DEF UndoEnvironment, UndoApplication
<1>5. CASE Dies
  BY <1>5 DEF Dies
<1>6. ASSUME disk' # disk,
             \/ \E r \in Releases : Prepare(r)
             \/ Snapshot \/ ServiceTask \/ AskWatchdog \/ Quiesce \/ Stop \/ Verify
             \/ Start \/ ExternalHealth \/ Deployed \/ Enable \/ Confirm
             \/ UndoWatchdog \/ UndoStop \/ UndoStart \/ UndoEnable \/ UndoReceipt
             \/ WatchdogFires \/ WatchdogLooks \/ AppEnds
      PROVE  FALSE
  BY <1>6 DEF Prepare, Snapshot, ServiceTask, AskWatchdog, Quiesce, Stop, Verify, Start,
              ExternalHealth, Deployed, Enable, Confirm, UndoWatchdog, UndoStop, UndoStart,
              UndoEnable, UndoReceipt, WatchdogFires, WatchdogLooks, AppEnds
<1> QED BY <1>1, <1>2, <1>3, <1>4, <1>5, <1>6 DEF ReleaseNext

\* "Never replace app directories or environment files under a live process"
\* (server_release.py:513), in the release, in its rollback, and after a death.
THEOREM NothingRunsOnReplacedFiles == ReleaseSpec => SwapOnlyStopped
<1>1. ASSUME ReleaseInv, [ReleaseNext]_releaseVars
      PROVE  [disk'.app # disk.app \/ disk'.env # disk.env =>
                 proc = None /\ ~dog.enabled /\ ~dog.runs]_releaseVars
  <2> SUFFICES ASSUME ReleaseNext, disk'.app # disk.app \/ disk'.env # disk.env
               PROVE  proc = None /\ ~dog.enabled /\ ~dog.runs
    BY <1>1
  <2>1. proc = None /\ dog = Quiet
    BY <1>1, Replacing DEF ReleaseInv, InOrder, Silent, Active, Stopped, Undoing
  <2> QED BY <2>1 DEF Quiet
<1> QED BY <1>1, ReleaseInvariant, PTL DEF ReleaseSpec, SwapOnlyStopped
-----------------------------------------------------------------------------
(* What a receipt may say. *)

Reports == [status : {"none", "prepared", "preparation_failed", "deployed", "rolled_back", "rollback_failed"},
            watchdog : {"unknown", "known"}]

\* The steps before any file is touched, those with everything in place, the
\* rollback's until the files are as they were, and until the watchdog is.
Before == {"snapshot", "service_task", "watchdog", "quiesce", "stop", "verify", "move_old"}
Placed == {"start", "external_health", "metadata", "deployed", "enable", "confirm"}
Rollback == {Undo, "undo_stop", "undo_environment", "undo_application"}
Undark == {"undo_stop", "undo_environment", "undo_application", "undo_metadata", "undo_start", "undo_enable"}

\* The files as the release has put them so far.
Forward ==
    /\ tx.changed <=> Needs[tx.release] # tx.old.reqs
    /\ tx.pc \in Before => disk = tx.old
    /\ tx.pc \in {"move_new", "requirements"} =>
          disk.reqs = tx.old.reqs /\ disk.manifest = tx.old.manifest /\ disk.env = tx.old.env
    /\ tx.pc = "pip" => disk.manifest = tx.old.manifest /\ disk.env = tx.old.env
    /\ tx.pc \in Placed /\ ~tx.changed => disk.env = tx.old.env
    /\ tx.pc \in {"requirements", "pip"} \cup Placed => disk.app = tx.release
    /\ tx.pc \in {"pip"} \cup Placed => disk.reqs = Needs[tx.release]
    /\ tx.pc = "pip" => tx.changed
    /\ tx.pc \in Placed /\ tx.changed => disk.env = Needs[tx.release]
    /\ tx.pc \in {"deployed", "enable", "confirm"} => disk.manifest = tx.release

\* Which marks the transaction has made by then.
Marks ==
    /\ tx.pc \in Before => ~tx.moved /\ ~tx.pip
    /\ tx.pc \in {"move_new", "requirements", "pip"} => tx.moved /\ ~tx.pip
    /\ tx.pc \in Placed => tx.moved /\ (~tx.pip => ~tx.changed)
    /\ tx.pc \in Before \cup {"move_new", "requirements", "pip"} \cup Placed => tx.safe /\ ~tx.errors
    /\ ~tx.safe => tx.errors

\* What a transaction has not touched is as it was, and what its rollback has
\* passed without an error is so again.
Backward ==
    /\ tx.pc \in Rollback /\ ~tx.moved => disk.reqs = tx.old.reqs /\ disk.manifest = tx.old.manifest
    /\ (tx.pc \in Rollback /\ ~tx.moved) \/ (tx.pc = "undo_start" /\ ~tx.errors) =>
          disk.app \in {tx.old.app, None} /\ (~tx.stop => disk.app = tx.old.app)
    /\ tx.pc \in Rollback /\ ~tx.pip => disk.env = tx.old.env
    /\ tx.pc \in {"undo_application", "undo_metadata", "undo_start", "undo_enable", "undo_receipt"} /\ ~tx.errors =>
          disk.env = tx.old.env
    /\ tx.pc = "undo_metadata" /\ ~tx.errors => disk.app = tx.old.app
    /\ tx.pc \in {"undo_start", "undo_enable", "undo_receipt"} /\ ~tx.errors =>
          disk.reqs = tx.old.reqs /\ disk.manifest = tx.old.manifest
    /\ tx.pc \in {"undo_enable", "undo_receipt"} /\ ~tx.errors => disk.app = tx.old.app

\* The watchdog's schedule: as found, off in between, and as found again.
Schedule ==
    /\ tx.managed => tx.enabled = tx.dog
    /\ tx.pc \in {"snapshot", "service_task", "watchdog"} => dog.enabled = tx.dog /\ ~tx.managed /\ ~tx.enabled
    /\ ~tx.managed => ~tx.enabled
    /\ tx.pc \in Placed => tx.managed
    /\ tx.pc \in Placed \ {"confirm"} => ~dog.enabled
    /\ tx.pc = "enable" => tx.enabled
    /\ tx.pc = "confirm" => dog.enabled = tx.enabled
    /\ tx.pc \in Undark /\ tx.managed /\ ~tx.errors => ~dog.enabled
    /\ tx.pc = "undo_receipt" /\ tx.managed /\ ~tx.errors => dog.enabled = tx.enabled

Progress == Active => Forward /\ Marks /\ Backward /\ Schedule

\* The receipt is whole at the end only.
Told ==
    /\ receipt \in Reports
    /\ Active => receipt.watchdog = "unknown"
    /\ tx.pc \in {"enable", "confirm"} => receipt.status = "deployed"
    /\ ReceiptTrue

ReceiptInv == Progress /\ Told

\* Files are what they are one by one.
LEMMA SameFiles ==
  ASSUME NEW d \in Disks, NEW o \in Disks,
         d.app = o.app, d.reqs = o.reqs, d.manifest = o.manifest, d.env = o.env
  PROVE  d = o
  BY DEF Disks

LEMMA ForwardTells ==
  ASSUME ReleaseInv, ReceiptInv,
         \/ Snapshot \/ ServiceTask \/ AskWatchdog \/ Quiesce \/ Stop \/ Verify \/ MoveOld
         \/ MoveNew \/ Requirements \/ Pip \/ Start \/ ExternalHealth \/ Metadata \/ Deployed
         \/ Enable \/ Confirm
  PROVE  ReceiptInv'
<1>0. disk \in Disks /\ dog \in [enabled : BOOLEAN, runs : BOOLEAN] /\ receipt \in Reports
  BY DEF ReleaseInv, ReleaseTypes, ReceiptInv, Told
<1>1. CASE Snapshot
  <2>1. tx \in Transactions /\ tx.pc = "snapshot"
    BY <1>1 DEF Snapshot, At, Undo, ReleaseInv, ReleaseTypes
  <2>2. /\ tx'.pc \in {"service_task", "over"}
        /\ tx'.release = tx.release /\ tx'.old = tx.old /\ tx'.changed = tx.changed /\ tx'.moved = tx.moved
        /\ tx'.kept = tx.kept /\ tx'.pip = tx.pip /\ tx'.stop = tx.stop /\ tx'.managed = tx.managed
        /\ tx'.enabled = tx.enabled /\ tx'.safe = tx.safe /\ tx'.errors = tx.errors /\ tx'.dog = tx.dog
    BY <1>1, <2>1 DEF Snapshot, At, Done, Fails, Transactions
  <2>3. Forward /\ Marks /\ Backward /\ Schedule /\ InOrder /\ Silent
    BY <2>1 DEF ReceiptInv, ReleaseInv, Progress, Active, Undo
  <2>4. Active' => Forward'
    BY <1>1, <1>0, <2>1, <2>2, <2>3 DEF Snapshot, At, Done, Fails, Transactions, Disks, Forward,
      Placed, Before, Marks, Undo, Active
  <2>5. Active' => Marks'
    BY <1>1, <1>0, <2>1, <2>2, <2>3 DEF Snapshot, At, Done, Fails, Transactions, Disks, Marks,
      Placed, Before, Undo, Active
  <2>6. Active' => Backward'
    BY <1>1, <1>0, <2>1, <2>2, <2>3 DEF Snapshot, At, Done, Fails, Transactions, Disks, Backward,
      Forward, Marks, Placed, Before, Rollback, InOrder, Active, Stopped, Undo, Active
  <2>7. Active' => Schedule'
    BY <1>1, <1>0, <2>1, <2>2, <2>3 DEF Snapshot, At, Done, Fails, Transactions, Disks, Schedule,
      Marks, InOrder, Active, Stopped, Undoing, Silent, Quiet, Placed, Before, Undark, Undo, Active
  <2>8. Told'
    BY <1>1, <1>0, <2>1, <2>2, <2>3 DEF Snapshot, At, Done, Fails, Transactions, Reports, Told,
      ReceiptTrue,
      ReceiptInv, Forward, Schedule, Placed, Undo, Active
  <2> QED BY <2>4, <2>5, <2>6, <2>7, <2>8 DEF ReceiptInv, Progress
<1>2. CASE ServiceTask
  <2>1. tx \in Transactions /\ tx.pc = "service_task"
    BY <1>2 DEF ServiceTask, At, Undo, ReleaseInv, ReleaseTypes
  <2>2. /\ tx'.pc \in {"watchdog", Undo}
        /\ tx'.release = tx.release /\ tx'.old = tx.old /\ tx'.changed = tx.changed /\ tx'.moved = tx.moved
        /\ tx'.kept = tx.kept /\ tx'.pip = tx.pip /\ tx'.stop = tx.stop /\ tx'.managed = tx.managed
        /\ tx'.enabled = tx.enabled /\ tx'.safe = tx.safe /\ tx'.errors = tx.errors /\ tx'.dog = tx.dog
    BY <1>2, <2>1 DEF ServiceTask, At, Done, Fails, Transactions
  <2>3. Forward /\ Marks /\ Backward /\ Schedule /\ InOrder /\ Silent
    BY <2>1 DEF ReceiptInv, ReleaseInv, Progress, Active, Undo
  <2>4. Active' => Forward'
    BY <1>2, <1>0, <2>1, <2>2, <2>3 DEF ServiceTask, At, Done, Fails, Transactions, Disks, Forward,
      Placed, Before, Marks, Undo, Active
  <2>5. Active' => Marks'
    BY <1>2, <1>0, <2>1, <2>2, <2>3 DEF ServiceTask, At, Done, Fails, Transactions, Disks, Marks,
      Placed, Before, Undo, Active
  <2>6. Active' => Backward'
    BY <1>2, <1>0, <2>1, <2>2, <2>3 DEF ServiceTask, At, Done, Fails, Transactions, Disks, Backward,
      Forward, Marks, Placed, Before, Rollback, InOrder, Active, Stopped, Undo, Active
  <2>7. Active' => Schedule'
    BY <1>2, <1>0, <2>1, <2>2, <2>3 DEF ServiceTask, At, Done, Fails, Transactions, Disks, Schedule,
      Marks, InOrder, Active, Stopped, Undoing, Silent, Quiet, Placed, Before, Undark, Undo, Active
  <2>8. Told'
    BY <1>2, <1>0, <2>1, <2>2, <2>3 DEF ServiceTask, At, Done, Fails, Transactions, Reports, Told,
      ReceiptTrue,
      ReceiptInv, Forward, Schedule, Placed, Undo, Active
  <2> QED BY <2>4, <2>5, <2>6, <2>7, <2>8 DEF ReceiptInv, Progress
<1>3. CASE AskWatchdog
  <2>1. tx \in Transactions /\ tx.pc = "watchdog"
    BY <1>3 DEF AskWatchdog, At, Undo, ReleaseInv, ReleaseTypes
  <2>2. /\ tx'.pc \in {"quiesce", Undo}
        /\ tx'.release = tx.release /\ tx'.old = tx.old /\ tx'.changed = tx.changed /\ tx'.moved = tx.moved
        /\ tx'.kept = tx.kept /\ tx'.pip = tx.pip /\ tx'.stop = tx.stop /\ tx'.safe = tx.safe
        /\ tx'.errors = tx.errors /\ tx'.dog = tx.dog
    BY <1>3, <2>1 DEF AskWatchdog, At, Done, Fails, Transactions
  <2>3. Forward /\ Marks /\ Backward /\ Schedule /\ InOrder /\ Silent
    BY <2>1 DEF ReceiptInv, ReleaseInv, Progress, Active, Undo
  <2>4. Active' => Forward'
    BY <1>3, <1>0, <2>1, <2>2, <2>3 DEF AskWatchdog, At, Done, Fails, Transactions, Disks, Forward,
      Placed, Before, Marks, Undo, Active
  <2>5. Active' => Marks'
    BY <1>3, <1>0, <2>1, <2>2, <2>3 DEF AskWatchdog, At, Done, Fails, Transactions, Disks, Marks,
      Placed, Before, Undo, Active
  <2>6. Active' => Backward'
    BY <1>3, <1>0, <2>1, <2>2, <2>3 DEF AskWatchdog, At, Done, Fails, Transactions, Disks, Backward,
      Forward, Marks, Placed, Before, Rollback, InOrder, Active, Stopped, Undo, Active
  <2>7. Active' => Schedule'
    BY <1>3, <1>0, <2>1, <2>2, <2>3 DEF AskWatchdog, At, Done, Fails, Transactions, Disks, Schedule,
      Marks, InOrder, Active, Stopped, Undoing, Silent, Quiet, Placed, Before, Undark, Undo, Active
  <2>8. Told'
    BY <1>3, <1>0, <2>1, <2>2, <2>3 DEF AskWatchdog, At, Done, Fails, Transactions, Reports, Told,
      ReceiptTrue,
      ReceiptInv, Forward, Schedule, Placed, Undo, Active
  <2> QED BY <2>4, <2>5, <2>6, <2>7, <2>8 DEF ReceiptInv, Progress
<1>4. CASE Quiesce
  <2>1. tx \in Transactions /\ tx.pc = "quiesce"
    BY <1>4 DEF Quiesce, At, Undo, ReleaseInv, ReleaseTypes
  <2>2. /\ tx'.pc \in {"stop", Undo}
        /\ tx'.release = tx.release /\ tx'.old = tx.old /\ tx'.changed = tx.changed /\ tx'.moved = tx.moved
        /\ tx'.kept = tx.kept /\ tx'.pip = tx.pip /\ tx'.stop = tx.stop /\ tx'.managed = tx.managed
        /\ tx'.enabled = tx.enabled /\ tx'.safe = tx.safe /\ tx'.errors = tx.errors /\ tx'.dog = tx.dog
    BY <1>4, <2>1 DEF Quiesce, At, Done, Fails, Disabling, Transactions
  <2>3. Forward /\ Marks /\ Backward /\ Schedule /\ InOrder /\ Silent
    BY <2>1 DEF ReceiptInv, ReleaseInv, Progress, Active, Undo
  <2>4. Active' => Forward'
    BY <1>4, <1>0, <2>1, <2>2, <2>3 DEF Quiesce, At, Done, Fails, Disabling, Transactions, Disks,
      Forward, Placed, Before, Marks, Undo, Active
  <2>5. Active' => Marks'
    BY <1>4, <1>0, <2>1, <2>2, <2>3 DEF Quiesce, At, Done, Fails, Disabling, Transactions, Disks,
      Marks, Placed, Before, Undo, Active
  <2>6. Active' => Backward'
    BY <1>4, <1>0, <2>1, <2>2, <2>3 DEF Quiesce, At, Done, Fails, Disabling, Transactions, Disks,
      Backward, Forward, Marks, Placed, Before, Rollback, InOrder, Active, Stopped, Undo, Active
  <2>7. Active' => Schedule'
    BY <1>4, <1>0, <2>1, <2>2, <2>3 DEF Quiesce, At, Done, Fails, Disabling, Transactions, Disks,
      Schedule, Marks, InOrder, Active, Stopped, Undoing, Silent, Quiet, Placed, Before, Undark,
      Undo, Active
  <2>8. Told'
    BY <1>4, <1>0, <2>1, <2>2, <2>3 DEF Quiesce, At, Done, Fails, Disabling, Transactions, Reports,
      Told, ReceiptTrue,
      ReceiptInv, Forward, Schedule, Placed, Undo, Active
  <2> QED BY <2>4, <2>5, <2>6, <2>7, <2>8 DEF ReceiptInv, Progress
<1>5. CASE Stop
  <2>1. tx \in Transactions /\ tx.pc = "stop"
    BY <1>5 DEF Stop, At, Undo, ReleaseInv, ReleaseTypes
  <2>2. /\ tx'.pc \in {"verify", "move_old", Undo}
        /\ tx'.release = tx.release /\ tx'.old = tx.old /\ tx'.changed = tx.changed /\ tx'.moved = tx.moved
        /\ tx'.kept = tx.kept /\ tx'.pip = tx.pip /\ tx'.managed = tx.managed /\ tx'.enabled = tx.enabled
        /\ tx'.safe = tx.safe /\ tx'.errors = tx.errors /\ tx'.dog = tx.dog
    BY <1>5, <2>1 DEF Stop, At, Done, Fails, Transactions
  <2>3. Forward /\ Marks /\ Backward /\ Schedule /\ InOrder /\ Silent
    BY <2>1 DEF ReceiptInv, ReleaseInv, Progress, Active, Undo
  <2>4. Active' => Forward'
    BY <1>5, <1>0, <2>1, <2>2, <2>3 DEF Stop, At, Done, Fails, Transactions, Disks, Forward, Placed,
      Before, Marks, Undo, Active
  <2>5. Active' => Marks'
    BY <1>5, <1>0, <2>1, <2>2, <2>3 DEF Stop, At, Done, Fails, Transactions, Disks, Marks, Placed,
      Before, Undo, Active
  <2>6. Active' => Backward'
    BY <1>5, <1>0, <2>1, <2>2, <2>3 DEF Stop, At, Done, Fails, Transactions, Disks, Backward,
      Forward, Marks, Placed, Before, Rollback, InOrder, Active, Stopped, Undo, Active
  <2>7. Active' => Schedule'
    BY <1>5, <1>0, <2>1, <2>2, <2>3 DEF Stop, At, Done, Fails, Transactions, Disks, Schedule, Marks,
      InOrder, Active, Stopped, Undoing, Silent, Quiet, Placed, Before, Undark, Undo, Active
  <2>8. Told'
    BY <1>5, <1>0, <2>1, <2>2, <2>3 DEF Stop, At, Done, Fails, Transactions, Reports, Told,
      ReceiptTrue,
      ReceiptInv, Forward, Schedule, Placed, Undo, Active
  <2> QED BY <2>4, <2>5, <2>6, <2>7, <2>8 DEF ReceiptInv, Progress
<1>6. CASE Verify
  <2>1. tx \in Transactions /\ tx.pc = "verify"
    BY <1>6 DEF Verify, At, Undo, ReleaseInv, ReleaseTypes
  <2>2. /\ tx'.pc \in {"move_old", Undo}
        /\ tx'.release = tx.release /\ tx'.old = tx.old /\ tx'.changed = tx.changed /\ tx'.moved = tx.moved
        /\ tx'.kept = tx.kept /\ tx'.pip = tx.pip /\ tx'.stop = tx.stop /\ tx'.managed = tx.managed
        /\ tx'.enabled = tx.enabled /\ tx'.safe = tx.safe /\ tx'.errors = tx.errors /\ tx'.dog = tx.dog
    BY <1>6, <2>1 DEF Verify, At, Done, Fails, Transactions
  <2>3. Forward /\ Marks /\ Backward /\ Schedule /\ InOrder /\ Silent
    BY <2>1 DEF ReceiptInv, ReleaseInv, Progress, Active, Undo
  <2>4. Active' => Forward'
    BY <1>6, <1>0, <2>1, <2>2, <2>3 DEF Verify, At, Done, Fails, Transactions, Disks, Forward,
      Placed, Before, Marks, Undo, Active
  <2>5. Active' => Marks'
    BY <1>6, <1>0, <2>1, <2>2, <2>3 DEF Verify, At, Done, Fails, Transactions, Disks, Marks, Placed,
      Before, Undo, Active
  <2>6. Active' => Backward'
    BY <1>6, <1>0, <2>1, <2>2, <2>3 DEF Verify, At, Done, Fails, Transactions, Disks, Backward,
      Forward, Marks, Placed, Before, Rollback, InOrder, Active, Stopped, Undo, Active
  <2>7. Active' => Schedule'
    BY <1>6, <1>0, <2>1, <2>2, <2>3 DEF Verify, At, Done, Fails, Transactions, Disks, Schedule,
      Marks, InOrder, Active, Stopped, Undoing, Silent, Quiet, Placed, Before, Undark, Undo, Active
  <2>8. Told'
    BY <1>6, <1>0, <2>1, <2>2, <2>3 DEF Verify, At, Done, Fails, Transactions, Reports, Told,
      ReceiptTrue,
      ReceiptInv, Forward, Schedule, Placed, Undo, Active
  <2> QED BY <2>4, <2>5, <2>6, <2>7, <2>8 DEF ReceiptInv, Progress
<1>7. CASE MoveOld
  <2>1. tx \in Transactions /\ tx.pc = "move_old"
    BY <1>7 DEF MoveOld, At, Undo, ReleaseInv, ReleaseTypes
  <2>2. /\ tx'.pc \in {"move_new", Undo}
        /\ tx'.release = tx.release /\ tx'.old = tx.old /\ tx'.changed = tx.changed /\ tx'.pip = tx.pip
        /\ tx'.stop = tx.stop /\ tx'.managed = tx.managed /\ tx'.enabled = tx.enabled /\ tx'.safe = tx.safe
        /\ tx'.errors = tx.errors /\ tx'.dog = tx.dog
    BY <1>7, <2>1 DEF MoveOld, At, Done, Fails, Transactions
  <2>3. Forward /\ Marks /\ Backward /\ Schedule /\ InOrder /\ Silent
    BY <2>1 DEF ReceiptInv, ReleaseInv, Progress, Active, Undo
  <2>4. Active' => Forward'
    BY <1>7, <1>0, <2>1, <2>2, <2>3 DEF MoveOld, At, Done, Fails, Transactions, Disks, Forward,
      Placed, Before, Marks, Undo, Active
  <2>5. Active' => Marks'
    BY <1>7, <1>0, <2>1, <2>2, <2>3 DEF MoveOld, At, Done, Fails, Transactions, Disks, Marks,
      Placed, Before, Undo, Active
  <2>6. Active' => Backward'
    BY <1>7, <1>0, <2>1, <2>2, <2>3 DEF MoveOld, At, Done, Fails, Transactions, Disks, Backward,
      Forward, Marks, Placed, Before, Rollback, InOrder, Active, Stopped, Undo, Active
  <2>7. Active' => Schedule'
    BY <1>7, <1>0, <2>1, <2>2, <2>3 DEF MoveOld, At, Done, Fails, Transactions, Disks, Schedule,
      Marks, InOrder, Active, Stopped, Undoing, Silent, Quiet, Placed, Before, Undark, Undo, Active
  <2>8. Told'
    BY <1>7, <1>0, <2>1, <2>2, <2>3 DEF MoveOld, At, Done, Fails, Transactions, Reports, Told,
      ReceiptTrue,
      ReceiptInv, Forward, Schedule, Placed, Undo, Active
  <2> QED BY <2>4, <2>5, <2>6, <2>7, <2>8 DEF ReceiptInv, Progress
<1>8. CASE MoveNew
  <2>1. tx \in Transactions /\ tx.pc = "move_new"
    BY <1>8 DEF MoveNew, Writes, At, Undo, ReleaseInv, ReleaseTypes
  <2>2. /\ tx'.pc \in {"requirements", Undo}
        /\ tx'.release = tx.release /\ tx'.old = tx.old /\ tx'.changed = tx.changed /\ tx'.moved = tx.moved
        /\ tx'.kept = tx.kept /\ tx'.pip = tx.pip /\ tx'.stop = tx.stop /\ tx'.managed = tx.managed
        /\ tx'.enabled = tx.enabled /\ tx'.safe = tx.safe /\ tx'.errors = tx.errors /\ tx'.dog = tx.dog
    BY <1>8, <2>1 DEF MoveNew, At, Done, Fails, Writes, Transactions
  <2>3. Forward /\ Marks /\ Backward /\ Schedule /\ InOrder /\ Silent
    BY <2>1 DEF ReceiptInv, ReleaseInv, Progress, Active, Undo
  <2>4. Active' => Forward'
    BY <1>8, <1>0, <2>1, <2>2, <2>3 DEF MoveNew, At, Done, Fails, Writes, Transactions, Disks,
      Forward, Placed, Before, Marks, Undo, Active
  <2>5. Active' => Marks'
    BY <1>8, <1>0, <2>1, <2>2, <2>3 DEF MoveNew, At, Done, Fails, Writes, Transactions, Disks,
      Marks, Placed, Before, Undo, Active
  <2>6. Active' => Backward'
    BY <1>8, <1>0, <2>1, <2>2, <2>3 DEF MoveNew, At, Done, Fails, Writes, Transactions, Disks,
      Backward, Forward, Marks, Placed, Before, Rollback, InOrder, Active, Stopped, Undo, Active
  <2>7. Active' => Schedule'
    BY <1>8, <1>0, <2>1, <2>2, <2>3 DEF MoveNew, At, Done, Fails, Writes, Transactions, Disks,
      Schedule, Marks, InOrder, Active, Stopped, Undoing, Silent, Quiet, Placed, Before, Undark,
      Undo, Active
  <2>8. Told'
    BY <1>8, <1>0, <2>1, <2>2, <2>3 DEF MoveNew, At, Done, Fails, Writes, Transactions, Reports,
      Told, ReceiptTrue,
      ReceiptInv, Forward, Schedule, Placed, Undo, Active
  <2> QED BY <2>4, <2>5, <2>6, <2>7, <2>8 DEF ReceiptInv, Progress
<1>9. CASE Requirements
  <2>1. tx \in Transactions /\ tx.pc = "requirements"
    BY <1>9 DEF Requirements, Writes, At, Undo, ReleaseInv, ReleaseTypes
  <2>2. /\ tx'.pc \in {"pip", "start", Undo}
        /\ tx'.release = tx.release /\ tx'.old = tx.old /\ tx'.changed = tx.changed /\ tx'.moved = tx.moved
        /\ tx'.kept = tx.kept /\ tx'.pip = tx.pip /\ tx'.stop = tx.stop /\ tx'.managed = tx.managed
        /\ tx'.enabled = tx.enabled /\ tx'.safe = tx.safe /\ tx'.errors = tx.errors /\ tx'.dog = tx.dog
    BY <1>9, <2>1 DEF Requirements, At, Done, Fails, Writes, Transactions
  <2>3. Forward /\ Marks /\ Backward /\ Schedule /\ InOrder /\ Silent
    BY <2>1 DEF ReceiptInv, ReleaseInv, Progress, Active, Undo
  <2>4. Active' => Forward'
    BY <1>9, <1>0, <2>1, <2>2, <2>3 DEF Requirements, At, Done, Fails, Writes, Transactions, Disks,
      Forward, Placed, Before, Marks, Undo, Active
  <2>5. Active' => Marks'
    BY <1>9, <1>0, <2>1, <2>2, <2>3 DEF Requirements, At, Done, Fails, Writes, Transactions, Disks,
      Marks, Placed, Before, Undo, Active
  <2>6. Active' => Backward'
    BY <1>9, <1>0, <2>1, <2>2, <2>3 DEF Requirements, At, Done, Fails, Writes, Transactions, Disks,
      Backward, Forward, Marks, Placed, Before, Rollback, InOrder, Active, Stopped, Undo, Active
  <2>7. Active' => Schedule'
    BY <1>9, <1>0, <2>1, <2>2, <2>3 DEF Requirements, At, Done, Fails, Writes, Transactions, Disks,
      Schedule, Marks, InOrder, Active, Stopped, Undoing, Silent, Quiet, Placed, Before, Undark,
      Undo, Active
  <2>8. Told'
    BY <1>9, <1>0, <2>1, <2>2, <2>3 DEF Requirements, At, Done, Fails, Writes, Transactions,
      Reports, Told, ReceiptTrue,
      ReceiptInv, Forward, Schedule, Placed, Undo, Active
  <2> QED BY <2>4, <2>5, <2>6, <2>7, <2>8 DEF ReceiptInv, Progress
<1>10. CASE Pip
  <2>1. tx \in Transactions /\ tx.pc = "pip"
    BY <1>10 DEF Pip, At, Undo, ReleaseInv, ReleaseTypes
  <2>2. /\ tx'.pc \in {"start", Undo}
        /\ tx'.release = tx.release /\ tx'.old = tx.old /\ tx'.changed = tx.changed /\ tx'.moved = tx.moved
        /\ tx'.kept = tx.kept /\ tx'.stop = tx.stop /\ tx'.managed = tx.managed /\ tx'.enabled = tx.enabled
        /\ tx'.safe = tx.safe /\ tx'.errors = tx.errors /\ tx'.dog = tx.dog
    BY <1>10, <2>1 DEF Pip, At, Done, Fails, Transactions
  <2>3. Forward /\ Marks /\ Backward /\ Schedule /\ InOrder /\ Silent
    BY <2>1 DEF ReceiptInv, ReleaseInv, Progress, Active, Undo
  <2>4. Active' => Forward'
    BY <1>10, <1>0, <2>1, <2>2, <2>3 DEF Pip, At, Done, Fails, Transactions, Disks, Forward, Placed,
      Before, Marks, Undo, Active
  <2>5. Active' => Marks'
    BY <1>10, <1>0, <2>1, <2>2, <2>3 DEF Pip, At, Done, Fails, Transactions, Disks, Marks, Placed,
      Before, Undo, Active
  <2>6. Active' => Backward'
    BY <1>10, <1>0, <2>1, <2>2, <2>3 DEF Pip, At, Done, Fails, Transactions, Disks, Backward,
      Forward, Marks, Placed, Before, Rollback, InOrder, Active, Stopped, Undo, Active
  <2>7. Active' => Schedule'
    BY <1>10, <1>0, <2>1, <2>2, <2>3 DEF Pip, At, Done, Fails, Transactions, Disks, Schedule, Marks,
      InOrder, Active, Stopped, Undoing, Silent, Quiet, Placed, Before, Undark, Undo, Active
  <2>8. Told'
    BY <1>10, <1>0, <2>1, <2>2, <2>3 DEF Pip, At, Done, Fails, Transactions, Reports, Told,
      ReceiptTrue,
      ReceiptInv, Forward, Schedule, Placed, Undo, Active
  <2> QED BY <2>4, <2>5, <2>6, <2>7, <2>8 DEF ReceiptInv, Progress
<1>11. CASE Start
  <2>1. tx \in Transactions /\ tx.pc = "start"
    BY <1>11 DEF Start, At, Undo, ReleaseInv, ReleaseTypes
  <2>2. /\ tx'.pc \in {"external_health", Undo}
        /\ tx'.release = tx.release /\ tx'.old = tx.old /\ tx'.changed = tx.changed /\ tx'.moved = tx.moved
        /\ tx'.kept = tx.kept /\ tx'.pip = tx.pip /\ tx'.stop = tx.stop /\ tx'.managed = tx.managed
        /\ tx'.enabled = tx.enabled /\ tx'.safe = tx.safe /\ tx'.errors = tx.errors /\ tx'.dog = tx.dog
    BY <1>11, <2>1 DEF Start, At, Done, Fails, Starts, Transactions
  <2>3. Forward /\ Marks /\ Backward /\ Schedule /\ InOrder /\ Silent
    BY <2>1 DEF ReceiptInv, ReleaseInv, Progress, Active, Undo
  <2>4. Active' => Forward'
    BY <1>11, <1>0, <2>1, <2>2, <2>3 DEF Start, At, Done, Fails, Starts, Transactions, Disks,
      Forward, Placed, Before, Marks, Undo, Active
  <2>5. Active' => Marks'
    BY <1>11, <1>0, <2>1, <2>2, <2>3 DEF Start, At, Done, Fails, Starts, Transactions, Disks, Marks,
      Placed, Before, Undo, Active
  <2>6. Active' => Backward'
    BY <1>11, <1>0, <2>1, <2>2, <2>3 DEF Start, At, Done, Fails, Starts, Transactions, Disks,
      Backward, Forward, Marks, Placed, Before, Rollback, InOrder, Active, Stopped, Undo, Active
  <2>7. Active' => Schedule'
    BY <1>11, <1>0, <2>1, <2>2, <2>3 DEF Start, At, Done, Fails, Starts, Transactions, Disks,
      Schedule, Marks, InOrder, Active, Stopped, Undoing, Silent, Quiet, Placed, Before, Undark,
      Undo, Active
  <2>8. Told'
    BY <1>11, <1>0, <2>1, <2>2, <2>3 DEF Start, At, Done, Fails, Starts, Transactions, Reports,
      Told, ReceiptTrue,
      ReceiptInv, Forward, Schedule, Placed, Undo, Active
  <2> QED BY <2>4, <2>5, <2>6, <2>7, <2>8 DEF ReceiptInv, Progress
<1>12. CASE ExternalHealth
  <2>1. tx \in Transactions /\ tx.pc = "external_health"
    BY <1>12 DEF ExternalHealth, At, Undo, ReleaseInv, ReleaseTypes
  <2>2. /\ tx'.pc \in {"metadata", Undo}
        /\ tx'.release = tx.release /\ tx'.old = tx.old /\ tx'.changed = tx.changed /\ tx'.moved = tx.moved
        /\ tx'.kept = tx.kept /\ tx'.pip = tx.pip /\ tx'.stop = tx.stop /\ tx'.managed = tx.managed
        /\ tx'.enabled = tx.enabled /\ tx'.safe = tx.safe /\ tx'.errors = tx.errors /\ tx'.dog = tx.dog
    BY <1>12, <2>1 DEF ExternalHealth, At, Done, Fails, Transactions
  <2>3. Forward /\ Marks /\ Backward /\ Schedule /\ InOrder /\ Silent
    BY <2>1 DEF ReceiptInv, ReleaseInv, Progress, Active, Undo
  <2>4. Active' => Forward'
    BY <1>12, <1>0, <2>1, <2>2, <2>3 DEF ExternalHealth, At, Done, Fails, Transactions, Disks,
      Forward, Placed, Before, Marks, Undo, Active
  <2>5. Active' => Marks'
    BY <1>12, <1>0, <2>1, <2>2, <2>3 DEF ExternalHealth, At, Done, Fails, Transactions, Disks,
      Marks, Placed, Before, Undo, Active
  <2>6. Active' => Backward'
    BY <1>12, <1>0, <2>1, <2>2, <2>3 DEF ExternalHealth, At, Done, Fails, Transactions, Disks,
      Backward, Forward, Marks, Placed, Before, Rollback, InOrder, Active, Stopped, Undo, Active
  <2>7. Active' => Schedule'
    BY <1>12, <1>0, <2>1, <2>2, <2>3 DEF ExternalHealth, At, Done, Fails, Transactions, Disks,
      Schedule, Marks, InOrder, Active, Stopped, Undoing, Silent, Quiet, Placed, Before, Undark,
      Undo, Active
  <2>8. Told'
    BY <1>12, <1>0, <2>1, <2>2, <2>3 DEF ExternalHealth, At, Done, Fails, Transactions, Reports,
      Told, ReceiptTrue,
      ReceiptInv, Forward, Schedule, Placed, Undo, Active
  <2> QED BY <2>4, <2>5, <2>6, <2>7, <2>8 DEF ReceiptInv, Progress
<1>13. CASE Metadata
  <2>1. tx \in Transactions /\ tx.pc = "metadata"
    BY <1>13 DEF Metadata, Writes, At, Undo, ReleaseInv, ReleaseTypes
  <2>2. /\ tx'.pc \in {"deployed", Undo}
        /\ tx'.release = tx.release /\ tx'.old = tx.old /\ tx'.changed = tx.changed /\ tx'.moved = tx.moved
        /\ tx'.kept = tx.kept /\ tx'.pip = tx.pip /\ tx'.stop = tx.stop /\ tx'.managed = tx.managed
        /\ tx'.enabled = tx.enabled /\ tx'.safe = tx.safe /\ tx'.errors = tx.errors /\ tx'.dog = tx.dog
    BY <1>13, <2>1 DEF Metadata, At, Done, Fails, Writes, Transactions
  <2>3. Forward /\ Marks /\ Backward /\ Schedule /\ InOrder /\ Silent
    BY <2>1 DEF ReceiptInv, ReleaseInv, Progress, Active, Undo
  <2>4. Active' => Forward'
    BY <1>13, <1>0, <2>1, <2>2, <2>3 DEF Metadata, At, Done, Fails, Writes, Transactions, Disks,
      Forward, Placed, Before, Marks, Undo, Active
  <2>5. Active' => Marks'
    BY <1>13, <1>0, <2>1, <2>2, <2>3 DEF Metadata, At, Done, Fails, Writes, Transactions, Disks,
      Marks, Placed, Before, Undo, Active
  <2>6. Active' => Backward'
    BY <1>13, <1>0, <2>1, <2>2, <2>3 DEF Metadata, At, Done, Fails, Writes, Transactions, Disks,
      Backward, Forward, Marks, Placed, Before, Rollback, InOrder, Active, Stopped, Undo, Active
  <2>7. Active' => Schedule'
    BY <1>13, <1>0, <2>1, <2>2, <2>3 DEF Metadata, At, Done, Fails, Writes, Transactions, Disks,
      Schedule, Marks, InOrder, Active, Stopped, Undoing, Silent, Quiet, Placed, Before, Undark,
      Undo, Active
  <2>8. Told'
    BY <1>13, <1>0, <2>1, <2>2, <2>3 DEF Metadata, At, Done, Fails, Writes, Transactions, Reports,
      Told, ReceiptTrue,
      ReceiptInv, Forward, Schedule, Placed, Undo, Active
  <2> QED BY <2>4, <2>5, <2>6, <2>7, <2>8 DEF ReceiptInv, Progress
<1>14. CASE Deployed
  <2>1. tx \in Transactions /\ tx.pc = "deployed"
    BY <1>14 DEF Deployed, At, Undo, ReleaseInv, ReleaseTypes
  <2>2. /\ tx'.pc \in {"enable", "confirm", Undo}
        /\ tx'.release = tx.release /\ tx'.old = tx.old /\ tx'.changed = tx.changed /\ tx'.moved = tx.moved
        /\ tx'.kept = tx.kept /\ tx'.pip = tx.pip /\ tx'.stop = tx.stop /\ tx'.managed = tx.managed
        /\ tx'.enabled = tx.enabled /\ tx'.safe = tx.safe /\ tx'.errors = tx.errors /\ tx'.dog = tx.dog
    BY <1>14, <2>1 DEF Deployed, At, Done, Fails, Transactions
  <2>3. Forward /\ Marks /\ Backward /\ Schedule /\ InOrder /\ Silent
    BY <2>1 DEF ReceiptInv, ReleaseInv, Progress, Active, Undo
  <2>4. Active' => Forward'
    BY <1>14, <1>0, <2>1, <2>2, <2>3 DEF Deployed, At, Done, Fails, Transactions, Disks, Forward,
      Placed, Before, Marks, Undo, Active
  <2>5. Active' => Marks'
    BY <1>14, <1>0, <2>1, <2>2, <2>3 DEF Deployed, At, Done, Fails, Transactions, Disks, Marks,
      Placed, Before, Undo, Active
  <2>6. Active' => Backward'
    BY <1>14, <1>0, <2>1, <2>2, <2>3 DEF Deployed, At, Done, Fails, Transactions, Disks, Backward,
      Forward, Marks, Placed, Before, Rollback, InOrder, Active, Stopped, Undo, Active
  <2>7. Active' => Schedule'
    BY <1>14, <1>0, <2>1, <2>2, <2>3 DEF Deployed, At, Done, Fails, Transactions, Disks, Schedule,
      Marks, InOrder, Active, Stopped, Undoing, Silent, Quiet, Placed, Before, Undark, Undo, Active
  <2>8. Told'
    BY <1>14, <1>0, <2>1, <2>2, <2>3 DEF Deployed, At, Done, Fails, Transactions, Reports, Told,
      ReceiptTrue,
      ReceiptInv, Forward, Schedule, Placed, Undo, Active
  <2> QED BY <2>4, <2>5, <2>6, <2>7, <2>8 DEF ReceiptInv, Progress
<1>15. CASE Enable
  <2>1. tx \in Transactions /\ tx.pc = "enable"
    BY <1>15 DEF Enable, At, Undo, ReleaseInv, ReleaseTypes
  <2>2. /\ tx'.pc \in {"confirm", Undo}
        /\ tx'.release = tx.release /\ tx'.old = tx.old /\ tx'.changed = tx.changed /\ tx'.moved = tx.moved
        /\ tx'.kept = tx.kept /\ tx'.pip = tx.pip /\ tx'.stop = tx.stop /\ tx'.managed = tx.managed
        /\ tx'.enabled = tx.enabled /\ tx'.safe = tx.safe /\ tx'.errors = tx.errors /\ tx'.dog = tx.dog
    BY <1>15, <2>1 DEF Enable, At, Done, Fails, Transactions
  <2>3. Forward /\ Marks /\ Backward /\ Schedule /\ InOrder /\ Silent
    BY <2>1 DEF ReceiptInv, ReleaseInv, Progress, Active, Undo
  <2>4. Active' => Forward'
    BY <1>15, <1>0, <2>1, <2>2, <2>3 DEF Enable, At, Done, Fails, Transactions, Disks, Forward,
      Placed, Before, Marks, Undo, Active
  <2>5. Active' => Marks'
    BY <1>15, <1>0, <2>1, <2>2, <2>3 DEF Enable, At, Done, Fails, Transactions, Disks, Marks,
      Placed, Before, Undo, Active
  <2>6. Active' => Backward'
    BY <1>15, <1>0, <2>1, <2>2, <2>3 DEF Enable, At, Done, Fails, Transactions, Disks, Backward,
      Forward, Marks, Placed, Before, Rollback, InOrder, Active, Stopped, Undo, Active
  <2>7. Active' => Schedule'
    BY <1>15, <1>0, <2>1, <2>2, <2>3 DEF Enable, At, Done, Fails, Transactions, Disks, Schedule,
      Marks, InOrder, Active, Stopped, Undoing, Silent, Quiet, Placed, Before, Undark, Undo, Active
  <2>8. Told'
    BY <1>15, <1>0, <2>1, <2>2, <2>3 DEF Enable, At, Done, Fails, Transactions, Reports, Told,
      ReceiptTrue,
      ReceiptInv, Forward, Schedule, Placed, Undo, Active
  <2> QED BY <2>4, <2>5, <2>6, <2>7, <2>8 DEF ReceiptInv, Progress
<1>16. CASE Confirm
  <2>1. tx \in Transactions /\ tx.pc = "confirm"
    BY <1>16 DEF Confirm, At, Undo, ReleaseInv, ReleaseTypes
  <2>2. /\ tx'.pc \in {"over", Undo}
        /\ tx'.release = tx.release /\ tx'.old = tx.old /\ tx'.changed = tx.changed /\ tx'.moved = tx.moved
        /\ tx'.kept = tx.kept /\ tx'.pip = tx.pip /\ tx'.stop = tx.stop /\ tx'.managed = tx.managed
        /\ tx'.enabled = tx.enabled /\ tx'.safe = tx.safe /\ tx'.errors = tx.errors /\ tx'.dog = tx.dog
    BY <1>16, <2>1 DEF Confirm, At, Done, Fails, Transactions
  <2>3. Forward /\ Marks /\ Backward /\ Schedule /\ InOrder /\ Silent
    BY <2>1 DEF ReceiptInv, ReleaseInv, Progress, Active, Undo
  <2>4. Active' => Forward'
    BY <1>16, <1>0, <2>1, <2>2, <2>3 DEF Confirm, At, Done, Fails, Transactions, Disks, Forward,
      Placed, Before, Marks, Undo, Active
  <2>5. Active' => Marks'
    BY <1>16, <1>0, <2>1, <2>2, <2>3 DEF Confirm, At, Done, Fails, Transactions, Disks, Marks,
      Placed, Before, Undo, Active
  <2>6. Active' => Backward'
    BY <1>16, <1>0, <2>1, <2>2, <2>3 DEF Confirm, At, Done, Fails, Transactions, Disks, Backward,
      Forward, Marks, Placed, Before, Rollback, InOrder, Active, Stopped, Undo, Active
  <2>7. Active' => Schedule'
    BY <1>16, <1>0, <2>1, <2>2, <2>3 DEF Confirm, At, Done, Fails, Transactions, Disks, Schedule,
      Marks, InOrder, Active, Stopped, Undoing, Silent, Quiet, Placed, Before, Undark, Undo, Active
  <2>8. Told'
    BY <1>16, <1>0, <2>1, <2>2, <2>3 DEF Confirm, At, Done, Fails, Transactions, Reports, Told,
      ReceiptTrue,
      ReceiptInv, Forward, Schedule, Placed, Undo, Active
  <2> QED BY <2>4, <2>5, <2>6, <2>7, <2>8 DEF ReceiptInv, Progress
<1> QED BY <1>1, <1>2, <1>3, <1>4, <1>5, <1>6, <1>7, <1>8, <1>9, <1>10, <1>11, <1>12, <1>13, <1>14,
  <1>15, <1>16

LEMMA RollbackTells ==
  ASSUME ReleaseInv, ReceiptInv,
         \/ UndoWatchdog \/ UndoStop \/ UndoEnvironment \/ UndoApplication \/ UndoMetadata \/ UndoStart \/ UndoEnable
         \/ UndoReceipt
  PROVE  ReceiptInv'
<1>0. disk \in Disks /\ dog \in [enabled : BOOLEAN, runs : BOOLEAN] /\ receipt \in Reports
  BY DEF ReleaseInv, ReleaseTypes, ReceiptInv, Told
<1>1. CASE UndoWatchdog
  <2>1. tx \in Transactions /\ tx.pc = Undo
    BY <1>1 DEF UndoWatchdog, At, Undo, ReleaseInv, ReleaseTypes
  <2>2. /\ tx'.pc \in {"undo_stop"}
        /\ tx'.release = tx.release /\ tx'.old = tx.old /\ tx'.changed = tx.changed /\ tx'.moved = tx.moved
        /\ tx'.kept = tx.kept /\ tx'.pip = tx.pip /\ tx'.stop = tx.stop /\ tx'.managed = tx.managed
        /\ tx'.enabled = tx.enabled /\ tx'.dog = tx.dog
    BY <1>1, <2>1 DEF UndoWatchdog, At, Done, Fails, Disabling, Noted, Transactions
  <2>3. Forward /\ Marks /\ Backward /\ Schedule /\ InOrder /\ Silent
    BY <2>1 DEF ReceiptInv, ReleaseInv, Progress, Active, Undo
  <2>4. Active' => Forward'
    BY <1>1, <1>0, <2>1, <2>2, <2>3 DEF UndoWatchdog, At, Done, Fails, Disabling, Noted,
      Transactions, Disks, Forward, Placed, Before, Marks, Undo, Active
  <2>5. Active' => Marks'
    BY <1>1, <1>0, <2>1, <2>2, <2>3 DEF UndoWatchdog, At, Done, Fails, Disabling, Noted,
      Transactions, Disks, Marks, Placed, Before, Undo, Active
  <2>6. Active' => Backward'
    BY <1>1, <1>0, <2>1, <2>2, <2>3 DEF UndoWatchdog, At, Done, Fails, Disabling, Noted,
      Transactions, Disks, Backward, Forward, Marks, Placed, Before, Rollback, InOrder, Active,
      Stopped, Undo, Active
  <2>7. Active' => Schedule'
    <3>1. tx'.pc = "undo_stop" /\ (tx'.errors \/ (tx.managed => dog' = Quiet))
      BY <1>1, <2>1, <2>2 DEF UndoWatchdog, Done, Noted, Transactions
    <3> QED BY <2>2, <2>3, <3>1 DEF Schedule, Placed, Quiet, Undo, Undark
  <2>8. Told'
    BY <1>1, <1>0, <2>1, <2>2, <2>3 DEF UndoWatchdog, At, Done, Fails, Disabling, Noted,
      Transactions, Reports, Told, ReceiptTrue,
      ReceiptInv, Forward, Schedule, Placed, Undo, Active
  <2> QED BY <2>4, <2>5, <2>6, <2>7, <2>8 DEF ReceiptInv, Progress
<1>2. CASE UndoStop
  <2>1. tx \in Transactions /\ tx.pc = "undo_stop"
    BY <1>2 DEF UndoStop, At, Undo, ReleaseInv, ReleaseTypes
  <2>2. /\ tx'.pc \in {"undo_environment", "undo_receipt"}
        /\ tx'.release = tx.release /\ tx'.old = tx.old /\ tx'.changed = tx.changed /\ tx'.moved = tx.moved
        /\ tx'.kept = tx.kept /\ tx'.pip = tx.pip /\ tx'.stop = tx.stop /\ tx'.managed = tx.managed
        /\ tx'.enabled = tx.enabled /\ tx'.safe = tx.safe /\ tx'.dog = tx.dog
    BY <1>2, <2>1 DEF UndoStop, At, Done, Fails, StoppedSafely, Noted, Transactions
  <2>3. Forward /\ Marks /\ Backward /\ Schedule /\ InOrder /\ Silent
    BY <2>1 DEF ReceiptInv, ReleaseInv, Progress, Active, Undo
  <2>4. Active' => Forward'
    BY <1>2, <1>0, <2>1, <2>2, <2>3 DEF UndoStop, At, Done, Fails, StoppedSafely, Noted,
      Transactions, Disks, Forward, Placed, Before, Marks, Undo, Active
  <2>5. Active' => Marks'
    BY <1>2, <1>0, <2>1, <2>2, <2>3 DEF UndoStop, At, Done, Fails, StoppedSafely, Noted,
      Transactions, Disks, Marks, Placed, Before, Undo, Active
  <2>6. Active' => Backward'
    BY <1>2, <1>0, <2>1, <2>2, <2>3 DEF UndoStop, At, Done, Fails, StoppedSafely, Noted,
      Transactions, Disks, Backward, Forward, Marks, Placed, Before, Rollback, InOrder, Active,
      Stopped, Undo, Active
  <2>7. Active' => Schedule'
    BY <1>2, <1>0, <2>1, <2>2, <2>3 DEF UndoStop, At, Done, Fails, StoppedSafely, Noted,
      Transactions, Disks, Schedule, Marks, InOrder, Active, Stopped, Undoing, Silent, Quiet,
      Placed, Before, Undark, Undo, Active
  <2>8. Told'
    BY <1>2, <1>0, <2>1, <2>2, <2>3 DEF UndoStop, At, Done, Fails, StoppedSafely, Noted,
      Transactions, Reports, Told, ReceiptTrue,
      ReceiptInv, Forward, Schedule, Placed, Undo, Active
  <2> QED BY <2>4, <2>5, <2>6, <2>7, <2>8 DEF ReceiptInv, Progress
<1>3. CASE UndoEnvironment
  <2>1. tx \in Transactions /\ tx.pc = "undo_environment"
    BY <1>3 DEF UndoEnvironment, At, Undo, ReleaseInv, ReleaseTypes
  <2>2. /\ tx'.pc \in {"undo_application"}
        /\ tx'.release = tx.release /\ tx'.old = tx.old /\ tx'.changed = tx.changed /\ tx'.moved = tx.moved
        /\ tx'.kept = tx.kept /\ tx'.pip = tx.pip /\ tx'.stop = tx.stop /\ tx'.managed = tx.managed
        /\ tx'.enabled = tx.enabled /\ tx'.safe = tx.safe /\ tx'.dog = tx.dog
    BY <1>3, <2>1 DEF UndoEnvironment, At, Done, Fails, Noted, Transactions
  <2>3. Forward /\ Marks /\ Backward /\ Schedule /\ InOrder /\ Silent
    BY <2>1 DEF ReceiptInv, ReleaseInv, Progress, Active, Undo
  <2>4. Active' => Forward'
    BY <1>3, <1>0, <2>1, <2>2, <2>3 DEF UndoEnvironment, At, Done, Fails, Noted, Transactions,
      Disks, Forward, Placed, Before, Marks, Undo, Active
  <2>5. Active' => Marks'
    BY <1>3, <1>0, <2>1, <2>2, <2>3 DEF UndoEnvironment, At, Done, Fails, Noted, Transactions,
      Disks, Marks, Placed, Before, Undo, Active
  <2>6. Active' => Backward'
    <3>1. /\ disk'.app = disk.app /\ disk'.reqs = disk.reqs /\ disk'.manifest = disk.manifest
          /\ \/ tx.pip /\ (tx'.errors \/ disk'.env = tx.old.env)
             \/ ~tx.pip /\ disk'.env = disk.env
      <4>1. CASE ~tx.pip
        BY <1>3, <1>0, <4>1 DEF UndoEnvironment
      <4>2. CASE tx.pip
        <5>1. CASE disk' = [disk EXCEPT !.env = tx.old.env]
          BY <1>0, <4>2, <5>1 DEF Disks
        <5>2. CASE /\ disk' \in {disk, [disk EXCEPT !.env = Torn]}
                   /\ tx' = [[tx EXCEPT !.errors = TRUE] EXCEPT !.pc = "undo_application"]
          <6>1. tx'.errors
            BY <2>1, <5>2 DEF Transactions
          <6>2. disk'.app = disk.app /\ disk'.reqs = disk.reqs /\ disk'.manifest = disk.manifest
            BY <1>0, <5>2 DEF Disks
          <6> QED BY <4>2, <6>1, <6>2
        <5> QED BY <1>3, <4>2, <5>1, <5>2 DEF UndoEnvironment, Noted
      <4> QED BY <4>1, <4>2
    <3> QED BY <2>1, <2>2, <2>3, <3>1 DEF Backward, Rollback, Undo
  <2>7. Active' => Schedule'
    BY <1>3, <1>0, <2>1, <2>2, <2>3 DEF UndoEnvironment, At, Done, Fails, Noted, Transactions,
      Disks, Schedule, Marks, InOrder, Active, Stopped, Undoing, Silent, Quiet, Placed, Before,
      Undark, Undo, Active
  <2>8. Told'
    BY <1>3, <1>0, <2>1, <2>2, <2>3 DEF UndoEnvironment, At, Done, Fails, Noted, Transactions,
      Reports, Told, ReceiptTrue,
      ReceiptInv, Forward, Schedule, Placed, Undo, Active
  <2> QED BY <2>4, <2>5, <2>6, <2>7, <2>8 DEF ReceiptInv, Progress
<1>4. CASE UndoApplication
  <2>1. tx \in Transactions /\ tx.pc = "undo_application"
    BY <1>4 DEF UndoApplication, At, Undo, ReleaseInv, ReleaseTypes
  <2>2. /\ tx'.pc \in {"undo_start", "undo_metadata"}
        /\ tx'.release = tx.release /\ tx'.old = tx.old /\ tx'.changed = tx.changed /\ tx'.moved = tx.moved
        /\ tx'.pip = tx.pip /\ tx'.stop = tx.stop /\ tx'.managed = tx.managed /\ tx'.enabled = tx.enabled
        /\ tx'.safe = tx.safe /\ tx'.dog = tx.dog
    BY <1>4, <2>1 DEF UndoApplication, At, Done, Fails, Noted, Transactions
  <2>3. Forward /\ Marks /\ Backward /\ Schedule /\ InOrder /\ Silent
    BY <2>1 DEF ReceiptInv, ReleaseInv, Progress, Active, Undo
  <2>4. Active' => Forward'
    BY <1>4, <1>0, <2>1, <2>2, <2>3 DEF UndoApplication, At, Done, Fails, Noted, Transactions,
      Disks, Forward, Placed, Before, Marks, Undo, Active
  <2>5. Active' => Marks'
    BY <1>4, <1>0, <2>1, <2>2, <2>3 DEF UndoApplication, At, Done, Fails, Noted, Transactions,
      Disks, Marks, Placed, Before, Undo, Active
  <2>6. Active' => Backward'
    <3>1. /\ disk'.env = disk.env /\ disk'.reqs = disk.reqs /\ disk'.manifest = disk.manifest
          /\ tx.errors => tx'.errors
          /\ \/ tx'.errors
             \/ ~tx.moved /\ disk' = disk /\ tx'.pc = "undo_start"
             \/ tx.moved /\ disk'.app = tx.old.app /\ tx'.pc = "undo_metadata"
      BY <1>4, <1>0, <2>1 DEF UndoApplication, Done, Noted, Transactions, Disks
    <3> QED BY <2>1, <2>2, <2>3, <3>1 DEF Backward, Rollback, Undo
  <2>7. Active' => Schedule'
    BY <1>4, <1>0, <2>1, <2>2, <2>3 DEF UndoApplication, At, Done, Fails, Noted, Transactions,
      Disks, Schedule, Marks, InOrder, Active, Stopped, Undoing, Silent, Quiet, Placed, Before,
      Undark, Undo, Active
  <2>8. Told'
    BY <1>4, <1>0, <2>1, <2>2, <2>3 DEF UndoApplication, At, Done, Fails, Noted, Transactions,
      Reports, Told, ReceiptTrue,
      ReceiptInv, Forward, Schedule, Placed, Undo, Active
  <2> QED BY <2>4, <2>5, <2>6, <2>7, <2>8 DEF ReceiptInv, Progress
<1>5. CASE UndoMetadata
  <2>1. tx \in Transactions /\ tx.pc = "undo_metadata"
    BY <1>5 DEF UndoMetadata, At, Undo, ReleaseInv, ReleaseTypes
  <2>2. /\ tx'.pc \in {"undo_start"}
        /\ tx'.release = tx.release /\ tx'.old = tx.old /\ tx'.changed = tx.changed /\ tx'.moved = tx.moved
        /\ tx'.kept = tx.kept /\ tx'.pip = tx.pip /\ tx'.stop = tx.stop /\ tx'.managed = tx.managed
        /\ tx'.enabled = tx.enabled /\ tx'.safe = tx.safe /\ tx'.dog = tx.dog
    BY <1>5, <2>1 DEF UndoMetadata, At, Done, Fails, Noted, Restored, Transactions
  <2>3. Forward /\ Marks /\ Backward /\ Schedule /\ InOrder /\ Silent
    BY <2>1 DEF ReceiptInv, ReleaseInv, Progress, Active, Undo
  <2>4. Active' => Forward'
    BY <1>5, <1>0, <2>1, <2>2, <2>3 DEF UndoMetadata, At, Done, Fails, Noted, Restored,
      Transactions, Disks, Forward, Placed, Before, Marks, Undo, Active
  <2>5. Active' => Marks'
    BY <1>5, <1>0, <2>1, <2>2, <2>3 DEF UndoMetadata, At, Done, Fails, Noted, Restored,
      Transactions, Disks, Marks, Placed, Before, Undo, Active
  <2>6. Active' => Backward'
    <3>1. /\ disk'.env = disk.env /\ disk'.app = disk.app /\ (tx.errors => tx'.errors)
          /\ tx'.errors \/ (disk'.reqs = tx.old.reqs /\ disk'.manifest = tx.old.manifest)
      BY <1>5, <1>0, <2>1 DEF UndoMetadata, Restored, Done, Noted, Transactions, Disks
    <3> QED BY <2>1, <2>2, <2>3, <3>1 DEF Backward, Rollback, Undo
  <2>7. Active' => Schedule'
    BY <1>5, <1>0, <2>1, <2>2, <2>3 DEF UndoMetadata, At, Done, Fails, Noted, Restored,
      Transactions, Disks, Schedule, Marks, InOrder, Active, Stopped, Undoing, Silent, Quiet,
      Placed, Before, Undark, Undo, Active
  <2>8. Told'
    BY <1>5, <1>0, <2>1, <2>2, <2>3 DEF UndoMetadata, At, Done, Fails, Noted, Restored,
      Transactions, Reports, Told, ReceiptTrue,
      ReceiptInv, Forward, Schedule, Placed, Undo, Active
  <2> QED BY <2>4, <2>5, <2>6, <2>7, <2>8 DEF ReceiptInv, Progress
<1>6. CASE UndoStart
  <2>1. tx \in Transactions /\ tx.pc = "undo_start"
    BY <1>6 DEF UndoStart, At, Undo, ReleaseInv, ReleaseTypes
  <2>2. /\ tx'.pc \in {"undo_enable"}
        /\ tx'.release = tx.release /\ tx'.old = tx.old /\ tx'.changed = tx.changed /\ tx'.moved = tx.moved
        /\ tx'.kept = tx.kept /\ tx'.pip = tx.pip /\ tx'.stop = tx.stop /\ tx'.managed = tx.managed
        /\ tx'.enabled = tx.enabled /\ tx'.safe = tx.safe /\ tx'.dog = tx.dog
    BY <1>6, <2>1 DEF UndoStart, At, Done, Fails, Noted, Starts, Transactions
  <2>3. Forward /\ Marks /\ Backward /\ Schedule /\ InOrder /\ Silent
    BY <2>1 DEF ReceiptInv, ReleaseInv, Progress, Active, Undo
  <2>4. Active' => Forward'
    BY <1>6, <1>0, <2>1, <2>2, <2>3 DEF UndoStart, At, Done, Fails, Noted, Starts, Transactions,
      Disks, Forward, Placed, Before, Marks, Undo, Active
  <2>5. Active' => Marks'
    BY <1>6, <1>0, <2>1, <2>2, <2>3 DEF UndoStart, At, Done, Fails, Noted, Starts, Transactions,
      Disks, Marks, Placed, Before, Undo, Active
  <2>6. Active' => Backward'
    BY <1>6, <1>0, <2>1, <2>2, <2>3 DEF UndoStart, At, Done, Fails, Noted, Starts, Transactions,
      Disks, Backward, Forward, Marks, Placed, Before, Rollback, InOrder, Active, Stopped, Undo,
      Active
  <2>7. Active' => Schedule'
    BY <1>6, <1>0, <2>1, <2>2, <2>3 DEF UndoStart, At, Done, Fails, Noted, Starts, Transactions,
      Disks, Schedule, Marks, InOrder, Active, Stopped, Undoing, Silent, Quiet, Placed, Before,
      Undark, Undo, Active
  <2>8. Told'
    BY <1>6, <1>0, <2>1, <2>2, <2>3 DEF UndoStart, At, Done, Fails, Noted, Starts, Transactions,
      Reports, Told, ReceiptTrue,
      ReceiptInv, Forward, Schedule, Placed, Undo, Active
  <2> QED BY <2>4, <2>5, <2>6, <2>7, <2>8 DEF ReceiptInv, Progress
<1>7. CASE UndoEnable
  <2>1. tx \in Transactions /\ tx.pc = "undo_enable"
    BY <1>7 DEF UndoEnable, At, Undo, ReleaseInv, ReleaseTypes
  <2>2. /\ tx'.pc \in {"undo_receipt"}
        /\ tx'.release = tx.release /\ tx'.old = tx.old /\ tx'.changed = tx.changed /\ tx'.moved = tx.moved
        /\ tx'.kept = tx.kept /\ tx'.pip = tx.pip /\ tx'.stop = tx.stop /\ tx'.managed = tx.managed
        /\ tx'.enabled = tx.enabled /\ tx'.safe = tx.safe /\ tx'.dog = tx.dog
    BY <1>7, <2>1 DEF UndoEnable, At, Done, Fails, Noted, Transactions
  <2>3. Forward /\ Marks /\ Backward /\ Schedule /\ InOrder /\ Silent
    BY <2>1 DEF ReceiptInv, ReleaseInv, Progress, Active, Undo
  <2>4. Active' => Forward'
    BY <1>7, <1>0, <2>1, <2>2, <2>3 DEF UndoEnable, At, Done, Fails, Noted, Transactions, Disks,
      Forward, Placed, Before, Marks, Undo, Active
  <2>5. Active' => Marks'
    BY <1>7, <1>0, <2>1, <2>2, <2>3 DEF UndoEnable, At, Done, Fails, Noted, Transactions, Disks,
      Marks, Placed, Before, Undo, Active
  <2>6. Active' => Backward'
    BY <1>7, <1>0, <2>1, <2>2, <2>3 DEF UndoEnable, At, Done, Fails, Noted, Transactions, Disks,
      Backward, Forward, Marks, Placed, Before, Rollback, InOrder, Active, Stopped, Undo, Active
  <2>7. Active' => Schedule'
    <3>1. /\ tx'.pc = "undo_receipt" /\ (tx.errors => tx'.errors)
          /\ \/ tx'.errors
             \/ ~tx.enabled /\ dog' = dog
             \/ tx.enabled /\ dog'.enabled = TRUE
      BY <1>7, <1>0, <2>1 DEF UndoEnable, Done, Noted, Transactions
    <3> QED BY <1>0, <2>1, <2>2, <2>3, <3>1 DEF Schedule, Placed, Undo, Undark, Transactions
  <2>8. Told'
    BY <1>7, <1>0, <2>1, <2>2, <2>3 DEF UndoEnable, At, Done, Fails, Noted, Transactions, Reports,
      Told, ReceiptTrue,
      ReceiptInv, Forward, Schedule, Placed, Undo, Active
  <2> QED BY <2>4, <2>5, <2>6, <2>7, <2>8 DEF ReceiptInv, Progress
<1>8. CASE UndoReceipt
  <2>1. tx \in Transactions /\ tx.pc = "undo_receipt"
    BY <1>8 DEF UndoReceipt, At, Undo, ReleaseInv, ReleaseTypes
  <2>2. /\ tx'.pc \in {"over"}
        /\ tx'.release = tx.release /\ tx'.old = tx.old /\ tx'.changed = tx.changed /\ tx'.moved = tx.moved
        /\ tx'.kept = tx.kept /\ tx'.pip = tx.pip /\ tx'.stop = tx.stop /\ tx'.managed = tx.managed
        /\ tx'.enabled = tx.enabled /\ tx'.safe = tx.safe /\ tx'.dog = tx.dog
    BY <1>8, <2>1 DEF UndoReceipt, At, Done, Fails, Noted, Transactions
  <2>3. Forward /\ Marks /\ Backward /\ Schedule /\ InOrder /\ Silent
    BY <2>1 DEF ReceiptInv, ReleaseInv, Progress, Active, Undo
  <2>4. Active' => Forward'
    BY <1>8, <1>0, <2>1, <2>2, <2>3 DEF UndoReceipt, At, Done, Fails, Noted, Transactions, Disks,
      Forward, Placed, Before, Marks, Undo, Active
  <2>5. Active' => Marks'
    BY <1>8, <1>0, <2>1, <2>2, <2>3 DEF UndoReceipt, At, Done, Fails, Noted, Transactions, Disks,
      Marks, Placed, Before, Undo, Active
  <2>6. Active' => Backward'
    BY <1>8, <1>0, <2>1, <2>2, <2>3 DEF UndoReceipt, At, Done, Fails, Noted, Transactions, Disks,
      Backward, Forward, Marks, Placed, Before, Rollback, InOrder, Active, Stopped, Undo, Active
  <2>7. Active' => Schedule'
    BY <1>8, <1>0, <2>1, <2>2, <2>3 DEF UndoReceipt, At, Done, Fails, Noted, Transactions, Disks,
      Schedule, Marks, InOrder, Active, Stopped, Undoing, Silent, Quiet, Placed, Before, Undark,
      Undo, Active
  <2>8. Told'
    <3>1. /\ tx'.pc = "over" /\ UNCHANGED <<disk, dog>>
          /\ \/ receipt' = receipt
             \/ receipt' = [status |-> IF tx.errors THEN "rollback_failed" ELSE "rolled_back", watchdog |-> "known"]
      BY <1>8, <2>1, <2>2 DEF UndoReceipt
    <3>2. receipt.watchdog = "unknown"
      BY <2>1 DEF ReceiptInv, Told, Active
    <3>3. receipt' \in Reports
      BY <1>0, <3>1 DEF Reports
    <3>4. ~tx.errors => disk = tx.old /\ (tx.managed => dog.enabled = tx.dog)
      BY <1>0, <2>1, <2>3, SameFiles DEF Backward, Schedule, Transactions
    <3>5. ReceiptTrue'
      BY <2>2, <3>1, <3>2, <3>4 DEF ReceiptTrue
    <3> QED BY <3>1, <3>3, <3>5 DEF Told, Active
  <2> QED BY <2>4, <2>5, <2>6, <2>7, <2>8 DEF ReceiptInv, Progress
<1> QED BY <1>1, <1>2, <1>3, <1>4, <1>5, <1>6, <1>7, <1>8

LEMMA OthersTell ==
  ASSUME ReleaseInv, ReceiptInv,
         (\E r \in Releases : Prepare(r)) \/ Dies \/ WatchdogFires \/ WatchdogLooks \/ AppEnds
  PROVE  ReceiptInv'
<1>0. /\ disk \in Disks /\ dog \in [enabled : BOOLEAN, runs : BOOLEAN] /\ receipt \in Reports
      /\ Progress /\ Told
  BY DEF ReleaseInv, ReleaseTypes, ReceiptInv, Told
<1>1. ASSUME NEW r \in Releases, Prepare(r) PROVE ReceiptInv'
  <2>1. /\ tx'.pc \in {"snapshot", "service_task"} /\ tx'.release = r /\ tx'.old = disk
        /\ tx'.changed = (Needs[r] # disk.reqs) /\ ~tx'.moved /\ ~tx'.pip /\ ~tx'.managed
        /\ ~tx'.enabled /\ tx'.safe /\ ~tx'.errors /\ tx'.dog = dog.enabled
        /\ UNCHANGED <<disk, dog>> /\ receipt' = [status |-> "prepared", watchdog |-> "unknown"]
    BY <1>1 DEF Prepare
  <2>2. Forward' /\ Marks' /\ Backward' /\ Schedule'
    BY <2>1 DEF Forward, Marks, Backward, Schedule, Before, Placed, Rollback, Undark, Undo
  <2>3. Told'
    BY <2>1 DEF Told, Reports, ReceiptTrue
  <2> QED BY <2>2, <2>3 DEF ReceiptInv, Progress
<1>2. CASE Dies
  <2>1. tx' = [pc |-> "idle"] /\ receipt' = receipt
    BY <1>2 DEF Dies, Idle
  <2> QED BY <1>0, <2>1 DEF ReceiptInv, Progress, Told, ReceiptTrue, Active
<1>3. CASE WatchdogFires \/ WatchdogLooks \/ AppEnds
  <2>1. UNCHANGED <<disk, tx, receipt>> /\ dog'.enabled = dog.enabled
    BY <1>0, <1>3 DEF WatchdogFires, WatchdogLooks, AppEnds
  <2>2. Active' => Forward' /\ Marks' /\ Backward' /\ Schedule'
    BY <1>0, <2>1 DEF Progress, Active, Forward, Marks, Backward, Schedule
  <2>3. Told'
    BY <1>0, <2>1 DEF Told, ReceiptTrue, Active
  <2> QED BY <2>2, <2>3 DEF ReceiptInv, Progress
<1> QED BY <1>1, <1>2, <1>3

LEMMA ReceiptInitInv == ReleaseInit => ReceiptInv
  BY DEF ReleaseInit, Idle, NoReceipt, ReceiptInv, Progress, Told, Reports, ReceiptTrue, Active

\* What a receipt for the whole of a deployment says is so: the release in place,
\* or everything as it was, and the watchdog's schedule as it was found
\* (server_release.py:471-555), whichever steps failed or were interrupted.
THEOREM ReceiptsAreTrue == ReleaseSpec => []ReceiptTrue
<1>1. ReceiptInv => ReceiptTrue
  BY DEF ReceiptInv, Told
<1>2. ASSUME ReleaseInv, ReceiptInv, [ReleaseNext]_releaseVars PROVE ReceiptInv'
  <2>1. CASE UNCHANGED releaseVars
    <3>1. UNCHANGED <<disk, dog, tx, receipt>>
      BY <2>1 DEF releaseVars
    <3> QED BY <1>2, <3>1 DEF ReceiptInv, Progress, Told, ReceiptTrue, Active, Forward, Marks,
      Backward, Schedule
  <2>2. CASE ReleaseNext
    BY <1>2, <2>2, ForwardTells, RollbackTells, OthersTell DEF ReleaseNext
  <2> QED BY <1>2, <2>1, <2>2
<1>3. ReceiptInv /\ ReleaseInv /\ [ReleaseNext]_releaseVars => ReceiptInv'
  BY <1>2
<1> QED BY <1>1, <1>3, ReceiptInitInv, ReleaseInvariant, PTL DEF ReleaseSpec
-----------------------------------------------------------------------------
(* Manual backups. *)

Runs == [st : {"none", "copying", "copied", "failed", "ended"}, at : Int]

BackupTypes ==
    /\ row \in [status : {"idle", "running", "completed", "failed"}, token : Tokens \cup {None},
                started : Int, completed : Int, file : Tokens \cup {None}]
    /\ runs \in [Tokens -> Runs]
    /\ bakNow \in Int

\* The run the row waits for is the one that started when the row says, and any
\* other was stale by then.
Holder ==
    /\ row.started <= bakNow
    /\ \A t \in Tokens : Bak!Going(t) =>
          IF t = row.token THEN row.status = "running" /\ runs[t].at = row.started
          ELSE runs[t].at < row.started - Stale

\* What a run says it copied is there.
CopiesThere ==
    /\ \A t \in Tokens : runs[t].st = "copied" => t \in copies
    /\ row.status = "completed" => row.file \in copies

Apart == \A t, u \in Tokens : t # u /\ Bak!Going(t) /\ Bak!Going(u) =>
            runs[t].at < runs[u].at - Stale \/ runs[u].at < runs[t].at - Stale

BackupInv == BackupTypes /\ Holder /\ CopiesThere /\ Apart

LEMMA BackupInitInv == Bak!Init => BackupInv
  BY DEF Bak!Init, BackupInv, BackupTypes, Holder, CopiesThere, Apart, Bak!Going, Runs

LEMMA ClaimKeeps ==
  ASSUME None \notin Tokens, Stale \in Nat, BackupInv, NEW c \in Tokens, Bak!Claim(c)
  PROVE  BackupInv'
<1>1. BackupTypes'
  BY DEF BackupInv, BackupTypes, Bak!Claim, Runs
<1>2. \A t \in Tokens : t # c => (Bak!Going(t)' <=> Bak!Going(t)) /\ runs'[t] = runs[t]
  BY DEF BackupInv, BackupTypes, Bak!Claim, Bak!Going
<1>3. row'.token = c /\ row'.status = "running" /\ row'.started = bakNow /\ bakNow' = bakNow
      /\ runs'[c] = [st |-> "copying", at |-> bakNow]
  BY DEF BackupInv, BackupTypes, Bak!Claim
<1>4. \A t \in Tokens : Bak!Going(t) => runs[t].at < bakNow - Stale
  <2> SUFFICES ASSUME NEW t \in Tokens, Bak!Going(t) PROVE runs[t].at < bakNow - Stale
    OBVIOUS
  <2>1. CASE t = row.token
    BY <2>1 DEF BackupInv, Holder, Bak!Claim, Bak!Claimable
  <2>2. CASE t # row.token
    <3>1. runs[t].at < row.started - Stale /\ row.started <= bakNow
      BY <2>2 DEF BackupInv, Holder
    <3> QED BY <3>1 DEF BackupInv, BackupTypes, Runs
  <2> QED BY <2>1, <2>2
<1>5. Holder'
  BY <1>2, <1>3, <1>4 DEF Holder, BackupInv, BackupTypes
<1>6. Apart'
  BY <1>2, <1>3, <1>4 DEF Apart, BackupInv
<1>7. CopiesThere'
  BY <1>2, <1>3 DEF CopiesThere, BackupInv, Bak!Claim
<1> QED BY <1>1, <1>5, <1>6, <1>7 DEF BackupInv

\* The steps that end or advance a run.
LEMMA RunKeeps ==
  ASSUME None \notin Tokens, Stale \in Nat, BackupInv, NEW c \in Tokens, Bak!Copied(c) \/ Bak!Reported(c) \/ Bak!Lost(c)
  PROVE  BackupInv'
<1>0. /\ runs'[c].at = runs[c].at /\ bakNow' = bakNow
      /\ \A t \in Tokens : t # c => runs'[t] = runs[t]
  BY DEF BackupInv, BackupTypes, Runs, Bak!Copied, Bak!Reported, Bak!Lost
<1>1. \A t \in Tokens : Bak!Going(t)' => Bak!Going(t) /\ runs'[t].at = runs[t].at
  BY <1>0 DEF BackupInv, BackupTypes, Runs, Bak!Copied, Bak!Reported, Bak!Lost, Bak!Going
<1>2. Apart'
  BY <1>1 DEF Apart, BackupInv
<1>3. CASE Bak!Copied(c)
  <2>1. BackupTypes'
    BY <1>3 DEF BackupInv, BackupTypes, Bak!Copied, Runs
  <2>2. Holder'
    BY <1>1, <1>3 DEF BackupInv, Holder, Bak!Copied
  <2>3. CopiesThere'
    BY <1>3 DEF BackupInv, BackupTypes, Runs, CopiesThere, Bak!Copied
  <2> QED BY <1>2, <2>1, <2>2, <2>3 DEF BackupInv
<1>4. CASE Bak!Lost(c)
  <2>1. BackupTypes'
    BY <1>4 DEF BackupInv, BackupTypes, Bak!Lost, Runs
  <2>2. Holder'
    BY <1>1, <1>4 DEF BackupInv, Holder, Bak!Lost
  <2>3. CopiesThere'
    BY <1>4 DEF BackupInv, BackupTypes, Runs, CopiesThere, Bak!Lost
  <2> QED BY <1>2, <2>1, <2>2, <2>3 DEF BackupInv
<1>5. CASE Bak!Reported(c)
  <2>0. ~Bak!Going(c)'
    BY <1>5 DEF BackupInv, BackupTypes, Runs, Bak!Reported, Bak!Going
  <2>1. BackupTypes'
    <3>1. runs' \in [Tokens -> Runs] /\ bakNow' \in Int
      BY <1>5 DEF BackupInv, BackupTypes, Bak!Reported, Runs
    <3>2. CASE ~Bak!Owns(c)
      BY <1>5, <3>1, <3>2 DEF BackupInv, BackupTypes, Bak!Reported
    <3>3. CASE Bak!Owns(c)
      BY <1>5, <3>1, <3>3 DEF BackupInv, BackupTypes, Bak!Reported
    <3> QED BY <3>2, <3>3
  <2>2. Holder'
    <3>1. CASE ~Bak!Owns(c)
      BY <1>1, <1>5, <3>1 DEF BackupInv, Holder, Bak!Reported
    <3>2. CASE Bak!Owns(c)
      <4>1. row'.token = None /\ row'.started = row.started
        BY <1>5, <3>2 DEF BackupInv, BackupTypes, Bak!Reported
      <4>2. \A t \in Tokens : Bak!Going(t)' => t # row.token
        BY <2>0, <3>2 DEF Bak!Owns
      <4> QED BY <1>0, <1>1, <4>1, <4>2 DEF BackupInv, Holder
    <3> QED BY <3>1, <3>2
  <2>3. CopiesThere'
    <3>1. \A t \in Tokens : runs'[t].st = "copied" => t \in copies'
      BY <1>5 DEF BackupInv, BackupTypes, Runs, CopiesThere, Bak!Reported
    <3>2. row'.status = "completed" => row'.file \in copies'
      BY <1>5 DEF BackupInv, BackupTypes, CopiesThere, Bak!Reported
    <3> QED BY <3>1, <3>2 DEF CopiesThere
  <2> QED BY <1>2, <2>1, <2>2, <2>3 DEF BackupInv
<1> QED BY <1>3, <1>4, <1>5

LEMMA BackupStepInv ==
  ASSUME None \notin Tokens, Stale \in Nat, BackupInv, [Bak!Next]_(Bak!manualVars)
  PROVE  BackupInv'
<1>1. CASE Bak!Pass
  BY <1>1 DEF Bak!Pass, BackupInv, BackupTypes, Holder, CopiesThere, Apart, Bak!Going
<1>2. CASE UNCHANGED Bak!manualVars
  BY <1>2 DEF Bak!manualVars, BackupInv, BackupTypes, Holder, CopiesThere, Apart, Bak!Going
<1> QED BY <1>1, <1>2, ClaimKeeps, RunKeeps DEF Bak!Next

\* Two backups under way were claimed further apart than a run is trusted, and
\* the one reported completed is there (backup_management.py:79-101, 167-184).
THEOREM OneAtATime == Bak!Spec => []Bak!OneManualBackup
<1>1. BackupInv => Bak!OneManualBackup
  BY DEF BackupInv, Apart, CopiesThere, Bak!OneManualBackup
<1>2. BackupInv /\ [Bak!Next]_(Bak!manualVars) => BackupInv'
  BY BackupStepInv, TokensAssumption
<1> QED BY BackupInitInv, <1>1, <1>2, PTL DEF Bak!Spec
-----------------------------------------------------------------------------
(* Recovery bundles. *)

RowsOK == rows \in [Keys -> {"none", "kept", "deleted"}]

\* What the database keeps is on disk.
KeptThere == \A k \in Keys : rows[k] = "kept" => k \in files

\* A key of the snapshot is kept still or was deleted since, and one that was passed
\* without its file was deleted.
CaptureTells ==
    /\ capture.pc \in {"idle", "expected", "release", "code", "files"}
    /\ capture.pc # "idle" => \A k \in capture.kept : k \in Keys /\ rows[k] # "none"
    /\ capture.pc = "files" =>
          \A k \in capture.kept : k \in capture.seen => k \in capture.entries \/ rows[k] = "deleted"
\* The records of each stage.
Stages ==
    \/ capture.pc = "idle"
    \/ /\ capture.pc \in {"expected", "release"}
       /\ capture = [pc |-> capture.pc, kept |-> capture.kept]
    \/ /\ capture.pc = "code"
       /\ capture = [pc |-> "code", kept |-> capture.kept, release |-> capture.release]
    \/ /\ capture.pc = "files"
       /\ capture = [pc |-> "files", kept |-> capture.kept, release |-> capture.release,
                     app |-> capture.app, seen |-> capture.seen, entries |-> capture.entries]

BundleInv == RowsOK /\ KeptThere /\ CaptureTells /\ Stages /\ Bun!BundleWhole

LEMMA BundleInitInv == Bun!Init => BundleInv
  BY DEF Bun!Init, Bun!Idle, BundleInv, RowsOK, KeptThere, CaptureTells, Stages, Bun!BundleWhole

\* The application and the releases: a row that is set is never unset.
LEMMA LiveKeeps ==
  ASSUME BundleInv,
         \/ \E k \in Keys : Bun!Written(k) \/ Bun!Stored(k) \/ Bun!Deleted(k) \/ Bun!Erased(k)
         \/ (\E v \in Releases : Bun!Swapped(v)) \/ Bun!Released
  PROVE  BundleInv'
<1>1. capture' = capture /\ bundles' = bundles
  BY DEF Bun!Written, Bun!Stored, Bun!Deleted, Bun!Erased, Bun!Swapped, Bun!Released, Bun!Moves
<1>2. RowsOK' /\ KeptThere'
  BY DEF BundleInv, RowsOK, KeptThere, Bun!Written, Bun!Stored, Bun!Deleted, Bun!Erased,
    Bun!Swapped, Bun!Released
<1>3. \A k \in Keys : /\ rows[k] # "none" => rows'[k] # "none"
                      /\ rows[k] = "deleted" => rows'[k] = "deleted"
  BY DEF BundleInv, RowsOK, Bun!Written, Bun!Stored, Bun!Deleted, Bun!Erased, Bun!Swapped,
    Bun!Released
<1>4. CaptureTells'
  BY <1>1, <1>3 DEF BundleInv, CaptureTells
<1>5. Stages' /\ Bun!BundleWhole'
  BY <1>1 DEF BundleInv, Stages, Bun!BundleWhole
<1> QED BY <1>2, <1>4, <1>5 DEF BundleInv

\* A file the snapshot keeps that is not found was deleted.
LEMMA CopyKeeps ==
  ASSUME BundleInv, NEW k \in Keys, Bun!CopyFile(k)
  PROVE  CaptureTells' /\ Stages'
<1>1. rows' = rows /\ capture.pc = "files"
  BY DEF Bun!CopyFile, Bun!Reads, Bun!treeVars
<1>2. capture = [pc |-> "files", kept |-> capture.kept, release |-> capture.release,
                 app |-> capture.app, seen |-> capture.seen, entries |-> capture.entries]
  BY <1>1 DEF BundleInv, Stages
<1> DEFINE all == IF k \in files THEN capture.entries \cup {k} ELSE capture.entries
<1>3. capture' = [capture EXCEPT !.seen = capture.seen \cup {k}, !.entries = all]
  BY DEF Bun!CopyFile, Bun!Reads
<1> HIDE DEF all
<1>4. capture' = [pc |-> "files", kept |-> capture.kept, release |-> capture.release,
                  app |-> capture.app, seen |-> capture.seen \cup {k}, entries |-> all]
  <2>1. PICK kept, release, app, seen, entries :
            capture = [pc |-> "files", kept |-> kept, release |-> release, app |-> app,
                       seen |-> seen, entries |-> entries]
    BY <1>2
  <2>2. capture' = [pc |-> "files", kept |-> kept, release |-> release, app |-> app,
                    seen |-> capture.seen \cup {k}, entries |-> all]
    BY <1>3, <2>1
  <2> QED BY <2>1, <2>2
<1>5. k \in capture.kept => k \in capture'.entries \/ rows[k] = "deleted"
  BY <1>1, <1>4 DEF all, BundleInv, RowsOK, KeptThere, CaptureTells
<1>6. CaptureTells'
  BY <1>1, <1>4, <1>5 DEF all, BundleInv, CaptureTells
<1> QED BY <1>4, <1>6 DEF Stages

LEMMA CaptureKeeps ==
  ASSUME BundleInv,
         \/ \E k \in Keys : Bun!CopyFile(k) \/ Bun!Vanishes(k)
         \/ Bun!Snapshot \/ Bun!Expected \/ Bun!Provenance \/ Bun!CopyCode \/ Bun!Interrupted
  PROVE  BundleInv'
<1>1. UNCHANGED <<rows, files, bundles>>
  BY DEF Bun!CopyFile, Bun!Vanishes, Bun!Snapshot, Bun!Expected, Bun!Provenance, Bun!CopyCode,
         Bun!Interrupted, Bun!Reads, Bun!treeVars
<1>2. RowsOK' /\ KeptThere' /\ Bun!BundleWhole'
  BY <1>1 DEF BundleInv, RowsOK, KeptThere, Bun!BundleWhole
<1>3. CaptureTells' /\ Stages'
  <2>1. CASE capture' = Bun!Idle
    BY <2>1 DEF Bun!Idle, CaptureTells, Stages
  <2>2. CASE Bun!Snapshot
    BY <1>1, <2>2 DEF Bun!Snapshot, Bun!Reads, Bun!Kept, BundleInv, RowsOK, CaptureTells, Stages
  <2>3. CASE Bun!Expected
    BY <1>1, <2>1, <2>3 DEF Bun!Expected, Bun!Reads, BundleInv, CaptureTells, Stages
  <2>4. CASE Bun!Provenance
    BY <1>1, <2>1, <2>4 DEF Bun!Provenance, Bun!Reads, BundleInv, CaptureTells, Stages
  <2>5. CASE Bun!CopyCode
    BY <1>1, <2>5 DEF Bun!CopyCode, Bun!Reads, BundleInv, CaptureTells, Stages
  <2> QED BY <2>1, <2>2, <2>3, <2>4, <2>5, CopyKeeps DEF Bun!Vanishes, Bun!Interrupted, Bun!Reads
<1> QED BY <1>2, <1>3 DEF BundleInv

\* The manifest is written when every key was passed and the code still compares.
LEMMA PublishKeeps ==
  ASSUME BundleInv, Bun!Publish
  PROVE  BundleInv'
<1>1. UNCHANGED <<rows, files>> /\ capture' = [pc |-> "idle"]
  BY DEF Bun!Publish, Bun!treeVars, Bun!Idle
<1>2. CASE bundles' = bundles
  BY <1>1, <1>2 DEF BundleInv, RowsOK, KeptThere, CaptureTells, Stages, Bun!BundleWhole
<1>3. CASE bundles' # bundles
  <2>1. /\ capture.app = capture.release /\ capture.seen = Keys /\ capture.pc = "files"
        /\ bundles' = {[app |-> capture.app, version |-> capture.release, kept |-> capture.kept,
                        entries |-> capture.entries, gone |-> {k \in Keys : rows[k] = "deleted"}]}
    BY <1>3 DEF Bun!Publish, Bun!Unchanged
  <2>2. \A k \in capture.kept : k \in Keys /\ (k \in capture.entries \/ rows[k] = "deleted")
    BY <2>1 DEF BundleInv, CaptureTells
  <2>3. Bun!BundleWhole'
    BY <2>1, <2>2 DEF Bun!BundleWhole
  <2> QED BY <1>1, <2>3 DEF BundleInv, RowsOK, KeptThere, CaptureTells, Stages
<1> QED BY <1>2, <1>3

LEMMA BundleStepInv == BundleInv /\ [Bun!Next]_(Bun!bundleVars) => BundleInv'
<1> SUFFICES ASSUME BundleInv, [Bun!Next]_(Bun!bundleVars) PROVE BundleInv'
  OBVIOUS
<1>1. CASE UNCHANGED Bun!bundleVars
  BY <1>1 DEF Bun!bundleVars, BundleInv, RowsOK, KeptThere, CaptureTells, Stages, Bun!BundleWhole
<1>2. CASE Bun!Next
  BY <1>2, LiveKeeps, CaptureKeeps, PublishKeeps DEF Bun!Next
<1> QED BY <1>1, <1>2

\* A published bundle is of one version, with every file its database keeps but
\* those deleted meanwhile, whatever moved while it was read
\* (recovery_bundle.py:111-195), for any keys and any number of moves.
THEOREM BundlesAreWhole == Bun!Spec => []Bun!BundleWhole
<1>1. BundleInv => Bun!BundleWhole
  BY DEF BundleInv
<1> QED BY BundleInitInv, BundleStepInv, <1>1, PTL DEF Bun!Spec
-----------------------------------------------------------------------------
(* Answers kept for a while. *)

Answers == [until : Int, seen : Seq(Nat)]
ReaderStates ==
    [pc : {"out", "query", "store"}, cache : Cache!Caches \cup {Cache!Nobody}, key : Questions \cup {Cache!Nobody},
     from : Nat, seen : Seq(Nat)]
WriterStates == [pc : {"done"} \cup Cache!Caches, commit : Nat]

CacheTypes ==
    /\ cacheNow \in Nat /\ commits \in Seq(Nat) /\ cleared \in 0..Len(commits)
    /\ entry \in [Cache!Caches -> [Questions -> Answers]]
    /\ lock \in [Cache!Caches -> Readers \cup {Cache!Nobody}]
    /\ reader \in [Readers -> ReaderStates]
    /\ writer \in [Writers -> WriterStates]

\* Who is inside a cache holds its lock.
Inside == \A r \in Readers : reader[r].pc # "out" =>
    /\ reader[r].cache \in Cache!Caches /\ reader[r].key \in Questions
    /\ lock[reader[r].cache] = r /\ reader[r].from <= cacheNow

\* A query of cache c that saw the first s commits has missed none that is cleared,
\* nor one whose request has cleared c already, and none made before from.
Fresh(s, c, from) ==
    /\ s >= cleared
    /\ c = "statistics" => \A w \in Writers : writer[w].pc = "rankings" => s >= writer[w].commit
    /\ \A n \in 1..Len(commits) : n > s => commits[n] >= from
AllFresh(seen, c, from) == \A i \in 1..Len(seen) : Fresh(seen[i], c, from)

AnswersFresh ==
    /\ \A c \in Cache!Caches, k \in Questions :
          /\ entry[c][k].until - Seconds <= cacheNow
          /\ AllFresh(entry[c][k].seen, c, entry[c][k].until - Seconds)
    /\ \A r \in Readers : reader[r].pc # "out" => AllFresh(reader[r].seen, reader[r].cache, reader[r].from)

\* A request clears for a commit of its own, made before.
Committed == \A w \in Writers : writer[w].commit <= Len(commits)

CacheInv == CacheTypes /\ Inside /\ AnswersFresh /\ Committed

LEMMA CacheInitInv == ASSUME Seconds \in Nat, Cache!Init PROVE CacheInv
<1>1. Cache!Nothing \in Answers /\ Len(Cache!Nothing.seen) = 0 /\ Cache!Nothing.until = -1
  BY DEF Cache!Nothing, Answers
<1>2. CacheTypes
  BY <1>1 DEF Cache!Init, CacheTypes, Cache!Out, Cache!Done, ReaderStates, WriterStates
<1>3. Inside /\ Committed
  BY DEF Cache!Init, Inside, Committed, Cache!Out, Cache!Done
<1>4. AnswersFresh
  BY <1>1 DEF Cache!Init, AnswersFresh, AllFresh, Cache!Out
<1> QED BY <1>2, <1>3, <1>4 DEF CacheInv

\* Nothing is committed or cleared, and no request goes on to rankings.
LEMMA FreshStays ==
  ASSUME UNCHANGED <<cleared, commits, writer>>, NEW seen, NEW c, NEW from, AllFresh(seen, c, from)
  PROVE  AllFresh(seen, c, from)'
  BY DEF AllFresh, Fresh

LEMMA EnterKeeps ==
  ASSUME Cache!Nobody \notin Readers, CacheInv, NEW r \in Readers, Cache!Enter(r)
  PROVE  CacheInv'
<1>1. PICK c \in Cache!Caches, k \in Questions :
          /\ lock[c] = Cache!Nobody /\ lock' = [lock EXCEPT ![c] = r]
          /\ reader' = [reader EXCEPT ![r] = [pc |-> "query", cache |-> c, key |-> k, from |-> cacheNow, seen |-> <<>>]]
  BY DEF Cache!Enter
<1>2. UNCHANGED <<commits, entry, writer, cleared, cacheNow>>
  BY DEF Cache!Enter
<1>3. CacheTypes'
  BY <1>1, <1>2 DEF CacheInv, CacheTypes, ReaderStates
<1>4. /\ reader'[r] = [pc |-> "query", cache |-> c, key |-> k, from |-> cacheNow, seen |-> <<>>]
      /\ \A q \in Readers : q # r => reader'[q] = reader[q]
  BY <1>1 DEF CacheInv, CacheTypes
<1>5. Inside'
  <2> SUFFICES ASSUME NEW q \in Readers, reader'[q].pc # "out"
               PROVE  /\ reader'[q].cache \in Cache!Caches /\ reader'[q].key \in Questions
                      /\ lock'[reader'[q].cache] = q /\ reader'[q].from <= cacheNow
    BY <1>2 DEF Inside
  <2>1. CASE q = r
    BY <1>1, <1>4, <2>1 DEF CacheInv, CacheTypes
  <2>2. CASE q # r
    <3>1. /\ reader'[q] = reader[q] /\ reader[q].cache \in Cache!Caches /\ reader[q].key \in Questions
          /\ lock[reader[q].cache] = q /\ reader[q].from <= cacheNow
      BY <1>4, <2>2 DEF CacheInv, Inside
    <3>2. reader[q].cache # c
      BY <1>1, <3>1
    <3> QED BY <1>1, <3>1, <3>2 DEF CacheInv, CacheTypes
  <2> QED BY <2>1, <2>2
<1>6. AnswersFresh' /\ Committed'
  <2>1. \A q \in Readers : reader'[q].pc # "out" =>
            AllFresh(reader'[q].seen, reader'[q].cache, reader'[q].from)
    BY <1>4 DEF CacheInv, AnswersFresh, AllFresh
  <2>2. \A q \in Readers : reader'[q].pc # "out" =>
            AllFresh(reader[q].seen, reader[q].cache, reader[q].from)'
    BY <1>2, <2>1, FreshStays
  <2>3. \A d \in Cache!Caches, j \in Questions :
            AllFresh(entry[d][j].seen, d, entry[d][j].until - Seconds)'
    BY <1>2, FreshStays DEF CacheInv, AnswersFresh
  <2> QED BY <1>2, <2>2, <2>3 DEF CacheInv, AnswersFresh, Committed
<1> QED BY <1>3, <1>5, <1>6 DEF CacheInv

\* A query sees everything committed, so all that was cleared.
LEMMA QueryKeeps ==
  ASSUME CacheInv, NEW r \in Readers, Cache!Query(r)
  PROVE  CacheInv'
<1>1. UNCHANGED <<commits, entry, lock, writer, cleared, cacheNow>> /\ reader[r].pc = "query"
  BY DEF Cache!Query
<1>2. PICK pc \in {"store", "query"} :
          reader' = [reader EXCEPT ![r].seen = Append(@, Len(commits)), ![r].pc = pc]
  BY DEF Cache!Query, Cache!Newest
<1>3. reader[r] \in ReaderStates /\ Len(commits) \in Nat
  BY DEF CacheInv, CacheTypes
<1>4. /\ \A q \in Readers : /\ reader'[q].cache = reader[q].cache /\ reader'[q].key = reader[q].key
                            /\ reader'[q].from = reader[q].from
                            /\ q # r => reader'[q] = reader[q]
      /\ reader'[r].pc = pc /\ reader'[r].seen = Append(reader[r].seen, Len(commits))
  BY <1>2, <1>3 DEF CacheInv, CacheTypes, ReaderStates
<1>5. CacheTypes'
  <2>1. Append(reader[r].seen, Len(commits)) \in Seq(Nat)
    BY <1>3 DEF ReaderStates
  <2>2. reader' \in [Readers -> ReaderStates]
    BY <1>2, <2>1, <1>3 DEF CacheInv, CacheTypes, ReaderStates
  <2> QED BY <1>1, <2>2 DEF CacheInv, CacheTypes
<1>6. Inside' /\ Committed'
  BY <1>1, <1>4 DEF CacheInv, Inside, Committed
<1>7. Fresh(Len(commits), reader[r].cache, reader[r].from)
  BY <1>3 DEF CacheInv, CacheTypes, Committed, Fresh
<1>8. AllFresh(reader'[r].seen, reader[r].cache, reader[r].from)
  <2>1. AllFresh(reader[r].seen, reader[r].cache, reader[r].from) /\ reader[r].seen \in Seq(Nat)
    BY <1>1, <1>3 DEF CacheInv, AnswersFresh, ReaderStates
  <2> QED BY <1>3, <1>4, <1>7, <2>1 DEF AllFresh
<1>9. AnswersFresh'
  <2>1. \A q \in Readers : reader'[q].pc # "out" =>
            AllFresh(reader'[q].seen, reader'[q].cache, reader'[q].from)
    BY <1>4, <1>8 DEF CacheInv, AnswersFresh
  <2>2. \A q \in Readers : reader'[q].pc # "out" =>
            AllFresh(reader[q].seen, reader[q].cache, reader[q].from)'
    BY <1>1, <2>1, FreshStays
  <2>3. \A d \in Cache!Caches, j \in Questions :
            AllFresh(entry[d][j].seen, d, entry[d][j].until - Seconds)'
    BY <1>1, FreshStays DEF CacheInv, AnswersFresh
  <2> QED BY <1>1, <2>2, <2>3 DEF CacheInv, AnswersFresh
<1> QED BY <1>5, <1>6, <1>9 DEF CacheInv

\* Stored or failed, the reader leaves and what is kept was read under its lock.
LEMMA LeaveKeeps ==
  ASSUME Seconds \in Nat, CacheInv, NEW r \in Readers, Cache!Store(r) \/ Cache!Fails(r)
  PROVE  CacheInv'
<1> DEFINE c == reader[r].cache
           k == reader[r].key
           kept == [until |-> reader[r].from + Seconds, seen |-> reader[r].seen]
<1>0. /\ c \in Cache!Caches /\ k \in Questions /\ lock[c] = r /\ reader[r] \in ReaderStates
      /\ reader[r].from <= cacheNow /\ AllFresh(reader[r].seen, c, reader[r].from)
  BY DEF CacheInv, CacheTypes, Inside, AnswersFresh, Cache!Store, Cache!Fails
<1>1. /\ UNCHANGED <<commits, writer, cleared, cacheNow>>
      /\ reader' = [reader EXCEPT ![r] = Cache!Out] /\ lock' = [lock EXCEPT ![c] = Cache!Nobody]
  BY DEF Cache!Store, Cache!Fails
<1>2. Cache!Nothing \in Answers /\ Len(Cache!Nothing.seen) = 0 /\ Cache!Nothing.until = -1
  BY DEF Cache!Nothing, Answers
<1>3. kept \in Answers /\ kept.until - Seconds = reader[r].from /\ kept.seen = reader[r].seen
  BY <1>0 DEF Answers, ReaderStates
<1>4. /\ entry' \in [Cache!Caches -> [Questions -> Answers]]
      /\ \A d \in Cache!Caches, j \in Questions :
            \/ entry'[d][j] = entry[d][j]
            \/ d = c /\ entry'[d][j] = kept
            \/ entry'[d][j] = Cache!Nothing
  <2>1. CASE Cache!Fails(r)
    BY <2>1 DEF Cache!Fails, CacheInv, CacheTypes
  <2>2. CASE Cache!Store(r)
    <3> HIDE DEF kept
    <3>1. PICK e : /\ entry' = [entry EXCEPT ![c] = e]
                   /\ \/ e = [entry[c] EXCEPT ![k] = kept]
                      \/ e = [x \in Questions |-> IF x = k THEN [entry[c] EXCEPT ![k] = kept][k] ELSE Cache!Nothing]
      BY <2>2 DEF Cache!Store, Cache!KeptUntil, kept
    <3>2. /\ e \in [Questions -> Answers]
          /\ \A j \in Questions : e[j] = entry[c][j] \/ e[j] = kept \/ e[j] = Cache!Nothing
      <4>1. entry[c] \in [Questions -> Answers]
        BY <1>0 DEF CacheInv, CacheTypes
      <4>2. CASE e = [entry[c] EXCEPT ![k] = kept]
        BY <1>0, <1>3, <4>1, <4>2
      <4>3. CASE e = [x \in Questions |-> IF x = k THEN [entry[c] EXCEPT ![k] = kept][k] ELSE Cache!Nothing]
        BY <1>0, <1>2, <1>3, <4>1, <4>3
      <4> QED BY <3>1, <4>2, <4>3
    <3> QED BY <1>0, <3>1, <3>2 DEF CacheInv, CacheTypes
  <2> QED BY <2>1, <2>2
<1> HIDE DEF kept
<1>5. /\ reader'[r] = Cache!Out
      /\ \A q \in Readers : q # r => reader'[q] = reader[q]
      /\ Cache!Out.pc = "out" /\ Cache!Out \in ReaderStates
  BY <1>1 DEF CacheInv, CacheTypes, Cache!Out, ReaderStates
<1>6. CacheTypes'
  BY <1>0, <1>1, <1>4, <1>5 DEF CacheInv, CacheTypes
<1>7. Inside'
  BY <1>0, <1>1, <1>5 DEF CacheInv, CacheTypes, Inside
<1>8. AnswersFresh'
  <2>1. \A q \in Readers : reader'[q].pc # "out" =>
            AllFresh(reader'[q].seen, reader'[q].cache, reader'[q].from)
    BY <1>5 DEF CacheInv, AnswersFresh
  <2>2. \A q \in Readers : reader'[q].pc # "out" =>
            AllFresh(reader[q].seen, reader[q].cache, reader[q].from)'
    BY <1>1, <2>1, FreshStays
  <2>3. ASSUME NEW d \in Cache!Caches, NEW j \in Questions
        PROVE  /\ entry'[d][j].until - Seconds <= cacheNow
               /\ AllFresh(entry'[d][j].seen, d, entry'[d][j].until - Seconds)
    <3>1. CASE entry'[d][j] = entry[d][j]
      BY <3>1 DEF CacheInv, AnswersFresh
    <3>2. CASE d = c /\ entry'[d][j] = kept
      BY <1>0, <1>3, <3>2
    <3>3. CASE entry'[d][j] = Cache!Nothing
      <4>1. cacheNow \in Nat
        BY DEF CacheInv, CacheTypes
      <4> QED BY <1>2, <3>3, <4>1 DEF AllFresh
    <3> QED BY <1>4, <3>1, <3>2, <3>3
  <2>4. \A d \in Cache!Caches, j \in Questions : AllFresh(entry[d][j].seen, d, entry[d][j].until - Seconds)'
    BY <1>1, <2>3, FreshStays
  <2> QED BY <1>1, <2>2, <2>3, <2>4 DEF AnswersFresh
<1>9. Committed'
  BY <1>1 DEF CacheInv, Committed
<1> QED BY <1>6, <1>7, <1>8, <1>9 DEF CacheInv

\* A commit is made cacheNow, after every reader inside came in and every answer was begun.
LEMMA CommitKeeps ==
  ASSUME Seconds \in Nat, CacheInv, NEW w \in Writers, Cache!Commit(w)
  PROVE  CacheInv'
<1>1. UNCHANGED <<entry, lock, reader, cleared, cacheNow>> /\ commits' = Append(commits, cacheNow) /\ writer[w].pc = "done"
  BY DEF Cache!Commit
<1>2. PICK one \in {Cache!Done, [pc |-> "statistics", commit |-> Len(commits) + 1]} :
          writer' = [writer EXCEPT ![w] = one]
  BY DEF Cache!Commit, Cache!Newest
<1>3. /\ cacheNow \in Nat /\ commits \in Seq(Nat) /\ Len(commits) \in Nat
      /\ commits' \in Seq(Nat) /\ Len(commits') = Len(commits) + 1
      /\ \A n \in 1..Len(commits') : commits'[n] = IF n <= Len(commits) THEN commits[n] ELSE cacheNow
  BY <1>1 DEF CacheInv, CacheTypes
<1>4. one \in WriterStates /\ one.pc # "rankings" /\ one.commit <= Len(commits')
  BY <1>2, <1>3 DEF WriterStates, Cache!Done, Cache!Caches
<1>5. CacheTypes'
  BY <1>1, <1>2, <1>3, <1>4 DEF CacheInv, CacheTypes
<1>6. Inside'
  BY <1>1 DEF CacheInv, Inside
<1>7. /\ writer'[w] = one
      /\ \A x \in Writers : x # w => writer'[x] = writer[x]
      /\ \A x \in Writers : writer[x].commit \in Nat
  BY <1>2 DEF CacheInv, CacheTypes, WriterStates
<1>8. Committed'
  BY <1>3, <1>4, <1>7 DEF CacheInv, Committed
<1>9. ASSUME NEW seen, NEW c, NEW from \in Int, from <= cacheNow, AllFresh(seen, c, from)
      PROVE  AllFresh(seen, c, from)'
  BY <1>1, <1>3, <1>4, <1>7, <1>9 DEF AllFresh, Fresh
<1>10. \A r \in Readers : reader[r].from \in Int
  BY DEF CacheInv, CacheTypes, ReaderStates
<1>11. \A c \in Cache!Caches, k \in Questions : entry[c][k].until - Seconds \in Int
  BY DEF CacheInv, CacheTypes, Answers
<1>12. AnswersFresh'
  BY <1>1, <1>9, <1>10, <1>11 DEF CacheInv, AnswersFresh, Inside
<1> QED BY <1>5, <1>6, <1>8, <1>12 DEF CacheInv

\* A cache is cleared when nobody is inside: what is kept or read in it later saw
\* the request's commit.
LEMMA ClearKeeps ==
  ASSUME Cache!Nobody \notin Readers, Seconds \in Nat, CacheInv,
         NEW w \in Writers, NEW c \in Cache!Caches, Cache!Clear(w, c)
  PROVE  CacheInv'
<1>1. UNCHANGED <<commits, lock, reader, cacheNow>> /\ writer[w].pc = c /\ lock[c] = Cache!Nobody
  BY DEF Cache!Clear, Cache!Free
<1>2. entry' = [entry EXCEPT ![c] = [k \in Questions |-> Cache!Nothing]]
  BY DEF Cache!Clear
<1>3. cleared' \in {cleared, writer[w].commit} /\ cleared' >= cleared /\ (cleared' # cleared => c = "rankings")
  BY DEF CacheInv, CacheTypes, WriterStates, Cache!Clear
<1>4. writer' = [writer EXCEPT ![w] = IF c = "statistics" THEN [@ EXCEPT !.pc = "rankings"] ELSE Cache!Done]
  BY DEF Cache!Clear
<1>5. /\ \A x \in Writers : x # w => writer'[x] = writer[x]
      /\ c = "statistics" => writer'[w].pc = "rankings" /\ writer'[w].commit = writer[w].commit
      /\ c # "statistics" => writer'[w].pc = "done" /\ writer'[w].commit = 0
      /\ writer' \in [Writers -> WriterStates]
  BY <1>4 DEF CacheInv, CacheTypes, WriterStates, Cache!Done, Cache!Caches
<1>6. Cache!Nothing \in Answers /\ Len(Cache!Nothing.seen) = 0 /\ Cache!Nothing.until = -1
  BY DEF Cache!Nothing, Answers
<1>7. /\ entry' \in [Cache!Caches -> [Questions -> Answers]]
      /\ \A k \in Questions : entry'[c][k] = Cache!Nothing
      /\ \A d \in Cache!Caches, k \in Questions : d # c => entry'[d][k] = entry[d][k]
  BY <1>2, <1>6 DEF CacheInv, CacheTypes
<1>8. CacheTypes' /\ Committed'
  <2>1. \A x \in Writers : writer[x].commit \in Nat /\ writer[x].commit <= Len(commits)
    BY DEF CacheInv, CacheTypes, Committed, WriterStates
  <2>2. Len(commits) \in Nat /\ cleared \in 0..Len(commits)
    BY DEF CacheInv, CacheTypes
  <2>3. cleared' \in 0..Len(commits)
    BY <1>3, <2>1, <2>2
  <2>4. Committed'
    BY <1>1, <1>5, <2>1, <2>2 DEF Committed, Cache!Caches
  <2> QED BY <1>1, <1>5, <1>7, <2>3, <2>4 DEF CacheInv, CacheTypes
<1>9. Inside'
  BY <1>1 DEF CacheInv, Inside
<1>10. \A r \in Readers : reader[r].pc # "out" => reader[r].cache \in Cache!Caches /\ reader[r].cache # c
  BY <1>1 DEF CacheInv, Inside
\* The other cache: if rankings were cleared, statistics were before.
<1>11. ASSUME NEW s \in Nat, NEW d \in Cache!Caches, d # c, NEW from, Fresh(s, d, from)
       PROVE  Fresh(s, d, from)'
  <2>1. s >= cleared'
    BY <1>1, <1>3, <1>11 DEF Fresh, Cache!Caches, CacheInv, CacheTypes, WriterStates
  <2>2. d = "statistics" => \A x \in Writers : writer'[x].pc = "rankings" => s >= writer'[x].commit
    BY <1>5, <1>11 DEF Fresh
  <2> QED BY <1>1, <1>11, <2>1, <2>2 DEF Fresh
<1>12. \A r \in Readers : reader[r].seen \in Seq(Nat)
  BY DEF CacheInv, CacheTypes, ReaderStates
<1>13. \A d \in Cache!Caches, k \in Questions : entry[d][k].seen \in Seq(Nat)
  BY DEF CacheInv, CacheTypes, Answers
<1>14. ASSUME NEW seen \in Seq(Nat), NEW d \in Cache!Caches, d # c, NEW from, AllFresh(seen, d, from)
       PROVE  AllFresh(seen, d, from)'
  BY <1>11, <1>14 DEF AllFresh
<1>15. AnswersFresh'
  <2>1. \A r \in Readers : reader'[r].pc # "out" => AllFresh(reader[r].seen, reader[r].cache, reader[r].from)'
    BY <1>1, <1>10, <1>12, <1>14 DEF CacheInv, AnswersFresh
  <2>2. ASSUME NEW d \in Cache!Caches, NEW k \in Questions
        PROVE  /\ entry'[d][k].until - Seconds <= cacheNow'
               /\ AllFresh(entry[d][k].seen, d, entry[d][k].until - Seconds)'
    <3>1. CASE d # c
      BY <1>1, <1>7, <1>13, <1>14, <3>1 DEF CacheInv, AnswersFresh
    <3>2. CASE d = c
      <4>1. cacheNow' \in Nat /\ entry'[d][k] = Cache!Nothing
        BY <1>7, <1>8, <3>2 DEF CacheTypes
      <4> QED BY <1>6, <4>1 DEF AllFresh
    <3> QED BY <3>1, <3>2
  <2> QED BY <2>1, <2>2 DEF AnswersFresh
<1> QED BY <1>8, <1>9, <1>15 DEF CacheInv

LEMMA PassKeeps == ASSUME Seconds \in Nat, CacheInv, Cache!Pass PROVE CacheInv'
<1>1. UNCHANGED <<commits, entry, lock, reader, writer, cleared>> /\ cacheNow' = cacheNow + 1 /\ cacheNow \in Nat
  BY DEF Cache!Pass, CacheInv, CacheTypes
<1>2. CacheTypes' /\ Committed'
  BY <1>1 DEF CacheInv, CacheTypes, Committed
<1>3. Inside'
  BY <1>1 DEF CacheInv, CacheTypes, ReaderStates, Inside
<1>4. AnswersFresh'
  <2>1. \A r \in Readers : reader'[r].pc # "out" => AllFresh(reader[r].seen, reader[r].cache, reader[r].from)'
    BY <1>1, FreshStays DEF CacheInv, AnswersFresh
  <2>2. ASSUME NEW d \in Cache!Caches, NEW k \in Questions
        PROVE  /\ entry'[d][k].until - Seconds <= cacheNow'
               /\ AllFresh(entry[d][k].seen, d, entry[d][k].until - Seconds)'
    <3>1. entry[d][k].until - Seconds \in Int
      BY DEF CacheInv, CacheTypes, Answers
    <3>2. entry[d][k].until - Seconds <= cacheNow /\ AllFresh(entry[d][k].seen, d, entry[d][k].until - Seconds)
      BY DEF CacheInv, AnswersFresh
    <3> QED BY <1>1, <3>1, <3>2, FreshStays
  <2> QED BY <2>1, <2>2 DEF AnswersFresh
<1> QED BY <1>2, <1>3, <1>4 DEF CacheInv

LEMMA CacheStepInv ==
  ASSUME Cache!Nobody \notin Readers, Seconds \in Nat, CacheInv, [Cache!Next]_(Cache!cacheVars)
  PROVE  CacheInv'
<1>1. CASE UNCHANGED Cache!cacheVars
  BY <1>1 DEF Cache!cacheVars, CacheInv, CacheTypes, Inside, AnswersFresh, AllFresh, Fresh,
    Committed
<1> QED BY <1>1, EnterKeeps, QueryKeeps, LeaveKeeps, CommitKeeps, ClearKeeps, PassKeeps DEF
  Cache!Next

\* A kept answer holds every commit whose request has cleared the caches and misses
\* another for Seconds at most (data_cache.py:25, statistics.py:306), for any
\* readers, writers and keys and however long a computation takes.
THEOREM AnswersAreFresh == Cache!Spec => []Cache!CacheFresh
<1>1. CacheInv => Cache!CacheFresh
  <2> SUFFICES ASSUME CacheInv, NEW c \in Cache!Caches, NEW k \in Questions, Cache!Kept(c, k),
                      NEW i \in 1..Len(entry[c][k].seen)
               PROVE  /\ entry[c][k].seen[i] >= cleared
                      /\ \A n \in 1..Cache!Newest : n > entry[c][k].seen[i] => commits[n] > cacheNow - Seconds
    BY DEF Cache!CacheFresh
  <2>1. Fresh(entry[c][k].seen[i], c, entry[c][k].until - Seconds)
    BY DEF CacheInv, AnswersFresh, AllFresh
  <2>2. entry[c][k].until \in Int /\ cacheNow \in Nat /\ \A n \in 1..Len(commits) : commits[n] \in Nat
    BY DEF CacheInv, CacheTypes, Answers
  <2> QED BY <2>1, <2>2, ReadersAssumption DEF Fresh, Cache!Kept, Cache!Newest
<1>2. Cache!Init => CacheInv
  BY CacheInitInv, ReadersAssumption
<1>3. CacheInv /\ [Cache!Next]_(Cache!cacheVars) => CacheInv'
  BY CacheStepInv, ReadersAssumption
<1> QED BY <1>1, <1>2, <1>3, PTL DEF Cache!Spec
-----------------------------------------------------------------------------
(* Background exports. *)

ExpRows == [owner : Owners, scope : Rights, status : {"receiving", "queued", "running", "completed", "failed"},
            created : Int, finished : Int, size : Nat, shown : Rights, moved : BOOLEAN]

ExportTypes ==
    /\ job \in [Jobs -> {Exp!Gone} \cup ExpRows] /\ dir \in [Jobs -> {"none", "empty", "result"}]
    /\ queue \in Seq(Jobs)
    /\ worker \in [job : Jobs \cup {NoOne}, pc : {"idle", "check", "render", "complete", "fail", "finish"}, tries : Int]
    /\ rights \in [Owners -> Rights] /\ expNow \in Int /\ orphans \subseteq Jobs

\* A job waits once, for one turn of the worker.
QueuedOnce ==
    /\ \A i \in 1..Len(queue) : job[queue[i]].status = "queued"
    /\ \A i, k \in 1..Len(queue) : queue[i] = queue[k] => i = k

\* What the worker has found out about its job, and what rests on it.
Shown(j) == job[j].shown = job[j].scope \/ job[j].moved
WorkerTells ==
    /\ worker.pc # "idle" => worker.job \in Jobs
    /\ worker.pc \in {"check", "render", "complete", "fail"} => job[worker.job].status = "running"
    /\ worker.pc = "render" => job[worker.job].moved \/ rights[job[worker.job].owner] = job[worker.job].scope
    /\ worker.pc = "complete" => dir[worker.job] = "result" /\ Shown(worker.job)
CompletedThere == \A j \in Jobs : job[j].status = "completed" => dir[j] = "result" /\ Shown(j)

\* A directory is a job's or was left by a restart, and a size is what a report may have.
DirsOwned == \A j \in Jobs : dir[j] # "none" => job[j] # Exp!Gone \/ j \in orphans

Live(j) == job[j].status \in {"receiving", "queued", "running"}
Occupied == {j \in Jobs : Live(j)}
Holding(o) == {j \in Jobs : Live(j) /\ job[j].owner = o}
Here == {j \in Jobs : job[j].status # "gone"}
Counted ==
    /\ Cardinality(Occupied) <= MaxActive
    /\ \A o \in Owners : Cardinality(Holding(o)) <= PerOwner
    /\ Cardinality(Here) <= MaxKept
Ready == {j \in Jobs : job[j].status = "completed"}
Trimmed == worker.pc = "idle" => Exp!SizeOf(Ready, job) <= MaxCache

ExportInv == ExportTypes /\ QueuedOnce /\ WorkerTells /\ CompletedThere /\ DirsOwned /\ Counted /\ Trimmed

LEMMA JobIs ==
  ASSUME ExportTypes, NEW j \in Jobs
  PROVE  /\ job[j] = Exp!Gone \/ job[j] \in ExpRows
         /\ Exp!Gone.status = "gone"
         /\ job[j].status = "gone" <=> job[j] = Exp!Gone
         /\ job[j].status # "gone" => job[j] \in ExpRows
  BY DEF ExportTypes, ExpRows, Exp!Gone

\* Counting in the module is counting.
LEMMA ExportCounts == \A S : Exp!Cardinality(S) = Cardinality(S)
  BY DEF Exp!Cardinality, Cardinality, Exp!IsFiniteSet, IsFiniteSet

\* Of fewer reports of the same sizes the units are no more.
LEMMA UnitsFinite ==
  ASSUME NEW S \in SUBSET Jobs, NEW g, \A j \in S : g[j].size \in Nat
  PROVE  IsFiniteSet(UNION {{j} \X (1..g[j].size) : j \in S})
<1> DEFINE f == [j \in S |-> {j} \X (1..g[j].size)]
           P == {{j} \X (1..g[j].size) : j \in S}
<1>1. IsFiniteSet(S)
  BY FS_Subset, ExportsAssumption
<1>2. f \in Surjection(S, P)
  BY DEF Surjection
<1>3. IsFiniteSet(P)
  BY <1>1, <1>2, FS_Surjection
<1>4. \A T \in P : IsFiniteSet(T)
  <2> SUFFICES ASSUME NEW j \in S PROVE IsFiniteSet({j} \X (1..g[j].size))
    OBVIOUS
  <2>1. IsFiniteSet({j}) /\ IsFiniteSet(1..g[j].size)
    <3>1. IsFiniteSet({j})
      BY FS_Singleton
    <3>2. 1 \in Int /\ g[j].size \in Int
      OBVIOUS
    <3>3. IsFiniteSet(1..g[j].size)
      BY ONLY <3>2, FS_Interval
    <3> QED BY <3>1, <3>3
  <2> QED BY <2>1, FS_Product
<1> QED BY <1>3, <1>4, FS_UNION

LEMMA SizesAre ==
  ASSUME NEW S \in SUBSET Jobs, NEW g, \A j \in S : g[j].size \in Nat
  PROVE  Exp!SizeOf(S, g) \in Nat
<1>1. IsFiniteSet(UNION {{j} \X (1..g[j].size) : j \in S})
  BY UnitsFinite
<1> QED BY <1>1, ExportCounts, FS_CardinalityType DEF Exp!SizeOf

LEMMA UnitsLess ==
  ASSUME NEW T \in SUBSET Jobs, NEW S \in SUBSET T, NEW f, NEW g,
         \A j \in T : g[j].size \in Nat, \A j \in S : f[j].size = g[j].size
  PROVE  Exp!SizeOf(S, f) <= Exp!SizeOf(T, g)
<1>1. UNION {{j} \X (1..f[j].size) : j \in S} \subseteq UNION {{j} \X (1..g[j].size) : j \in T}
  OBVIOUS
<1> QED BY <1>1, ExportCounts, UnitsFinite, FS_Subset DEF Exp!SizeOf

\* No job comes in.
LEMMA NoneComesIn ==
  ASSUME ExportInv, ExportTypes',
         \A j \in Jobs : Live(j)' => Live(j) /\ job'[j].owner = job[j].owner,
         \A j \in Jobs : job'[j].status # "gone" => job[j].status # "gone"
  PROVE  Counted'
<1>1. /\ Occupied' \subseteq Occupied /\ Here' \subseteq Here
      /\ \A o \in Owners : Holding(o)' \subseteq Holding(o)
  BY DEF Here, Holding, Occupied
<1>2. /\ IsFiniteSet(Occupied) /\ IsFiniteSet(Here)
      /\ \A o \in Owners : IsFiniteSet(Holding(o))
  BY ExportsAssumption, FS_Subset DEF Here, Holding, Occupied
<1>3. /\ Cardinality(Occupied') <= Cardinality(Occupied)
      /\ Cardinality(Here') <= Cardinality(Here)
  BY <1>1, <1>2, FS_Subset
<1>4. \A o \in Owners : Cardinality(Holding(o)') <= Cardinality(Holding(o))
  BY <1>1, <1>2, FS_Subset
<1>5. /\ Cardinality(Occupied') \in Nat /\ Cardinality(Occupied) \in Nat
      /\ Cardinality(Here') \in Nat /\ Cardinality(Here) \in Nat
      /\ \A o \in Owners : Cardinality(Holding(o)') \in Nat /\ Cardinality(Holding(o)) \in Nat
  BY <1>1, <1>2, FS_Subset, FS_CardinalityType
<1> QED BY <1>3, <1>4, <1>5, ExportsAssumption DEF ExportInv, Counted

\* No report is completed while the worker rests.
LEMMA NoneStored ==
  ASSUME ExportInv, ExportTypes', worker'.pc = "idle" => worker.pc = "idle",
         \A j \in Jobs : job'[j].status = "completed" =>
            job[j].status = "completed" /\ job'[j].size = job[j].size
  PROVE  Trimmed'
<1>1. \A j \in Ready : job[j].size \in Nat
  BY JobIs DEF Ready, ExportInv, ExpRows
<1>2. Ready' \subseteq Ready /\ Ready \subseteq Jobs /\ \A j \in Ready' : job'[j].size = job[j].size
  BY DEF Ready
<1>3. Exp!SizeOf(Ready', job') <= Exp!SizeOf(Ready, job)
  BY <1>1, <1>2, UnitsLess
<1>4. Exp!SizeOf(Ready, job) \in Nat /\ Exp!SizeOf(Ready', job') \in Nat
  BY <1>1, <1>2, SizesAre
<1> QED BY <1>3, <1>4, ExportsAssumption DEF ExportInv, Trimmed

LEMMA ExportInit == Exp!Init => ExportInv
<1> SUFFICES ASSUME Exp!Init PROVE ExportInv
  OBVIOUS
<1>1. \A j \in Jobs : job[j] = Exp!Gone /\ job[j].status = "gone" /\ dir[j] = "none"
  BY DEF Exp!Init, Exp!Gone
<1>2. ExportTypes /\ QueuedOnce /\ WorkerTells /\ CompletedThere /\ DirsOwned
  BY <1>1, ExportsAssumption DEF Exp!Init, Exp!Idle, ExportTypes, QueuedOnce, WorkerTells,
    CompletedThere, DirsOwned
<1>3. Occupied = {} /\ Here = {} /\ Ready = {} /\ \A o \in Owners : Holding(o) = {}
  BY <1>1 DEF Occupied, Live, Here, Ready, Holding
<1>4. Counted
  BY <1>3, FS_EmptySet, ExportsAssumption DEF Counted
<1>5. UNION {{j} \X (1..job[j].size) : j \in Ready} = {}
  BY <1>3
<1>6. Trimmed
  BY <1>5, FS_EmptySet, ExportCounts, ExportsAssumption DEF Trimmed, Exp!SizeOf
<1> QED BY <1>2, <1>4, <1>6 DEF ExportInv

\* An expired job has ended.
LEMMA ExpiredEnded ==
  ASSUME NEW j \in Exp!Expired PROVE j \in Jobs /\ job[j].status \in {"completed", "failed"}
  BY DEF Exp!Expired, Exp!With

LEMMA AdmitKeeps ==
  ASSUME ExportInv, NEW j \in Jobs, NEW o \in Owners, Exp!Admit(j, o)
  PROVE  ExportInv'
<1> DEFINE new == [owner |-> o, scope |-> rights[o], status |-> "receiving", created |-> expNow,
                   finished |-> 0, size |-> 0, shown |-> FullRights, moved |-> FALSE]
<1>1. /\ job[j].status = "gone" /\ dir[j] = "none" /\ j \notin orphans
      /\ UNCHANGED <<queue, worker, rights, expNow>>
      /\ job' = [Exp!Without(Exp!Expired) EXCEPT ![j] = new]
      /\ \E old \in SUBSET orphans :
            /\ \A k \in old : job[k].status = "gone"
            /\ dir' = [k \in Jobs |-> IF k = j THEN "empty"
                                      ELSE IF k \in Exp!Expired \cup old THEN "none" ELSE dir[k]]
            /\ orphans' = orphans \ old
  BY DEF Exp!Admit
<1>2. /\ job'[j] = new
      /\ \A k \in Jobs : k # j => job'[k] = IF k \in Exp!Expired THEN Exp!Gone ELSE job[k]
  BY <1>1 DEF Exp!Without
<1>3. new \in ExpRows
  BY ExportsAssumption DEF ExpRows, ExportInv, ExportTypes
<1>4. ExportTypes'
  <2>1. job' \in [Jobs -> {Exp!Gone} \cup ExpRows]
    <3>1. job' = [k \in Jobs |-> job'[k]]
      BY <1>1 DEF Exp!Without
    <3>2. \A k \in Jobs : job'[k] \in {Exp!Gone} \cup ExpRows
      BY <1>2, <1>3 DEF ExportInv, ExportTypes
    <3> QED BY <3>1, <3>2
  <2>2. dir' \in [Jobs -> {"none", "empty", "result"}] /\ orphans' \subseteq Jobs
    BY <1>1 DEF ExportInv, ExportTypes
  <2> QED BY <1>1, <2>1, <2>2 DEF ExportInv, ExportTypes
<1>5. \A k \in Jobs : k # j /\ job'[k].status # "gone" => job'[k] = job[k]
  BY <1>2 DEF Exp!Gone
<1>6. \A k \in Jobs : k # j /\ (Live(k) \/ k \notin Exp!Expired) => job'[k] = job[k]
  BY <1>2, ExpiredEnded DEF Live
<1>7. QueuedOnce'
  <2>1. \A i \in 1..Len(queue) : queue[i] \in Jobs /\ job[queue[i]].status = "queued"
    BY DEF ExportInv, ExportTypes, QueuedOnce
  <2>2. \A i \in 1..Len(queue) : job'[queue[i]] = job[queue[i]]
    BY <1>1, <1>6, <2>1 DEF Live
  <2> QED BY <1>1, <2>1, <2>2 DEF ExportInv, QueuedOnce
<1>8. WorkerTells'
  <2>1. worker.pc \in {"check", "render", "complete", "fail"} =>
          /\ worker.job \in Jobs /\ job'[worker.job] = job[worker.job]
          /\ dir'[worker.job] = dir[worker.job]
    <3>1. SUFFICES ASSUME worker.pc \in {"check", "render", "complete", "fail"}
                   PROVE  /\ worker.job \in Jobs /\ job'[worker.job] = job[worker.job]
                          /\ dir'[worker.job] = dir[worker.job]
      OBVIOUS
    <3>2. worker.job \in Jobs /\ job[worker.job].status = "running"
      BY <3>1 DEF ExportInv, WorkerTells
    <3>3. worker.job # j /\ worker.job \notin Exp!Expired
      BY <1>1, <3>2, ExpiredEnded
    <3> QED BY <1>1, <1>6, <3>2, <3>3
  <2> QED BY <1>1, <2>1 DEF ExportInv, WorkerTells, Shown
<1>9. CompletedThere'
  <2> SUFFICES ASSUME NEW k \in Jobs, job'[k].status = "completed"
               PROVE  dir'[k] = "result" /\ Shown(k)'
    BY DEF CompletedThere
  <2>1. k # j /\ job'[k] = job[k]
    BY <1>2, <1>5
  <2>2. k \notin Exp!Expired
    BY <1>2, <2>1 DEF Exp!Gone
  <2>3. dir'[k] = dir[k]
    BY <1>1, <2>1, <2>2
  <2> QED BY <2>1, <2>3 DEF ExportInv, CompletedThere, Shown
<1>10. DirsOwned'
  <2> SUFFICES ASSUME NEW k \in Jobs, dir'[k] # "none", k \notin orphans', k # j
               PROVE  job'[k] # Exp!Gone
    BY <1>2, <1>3 DEF DirsOwned, ExpRows, Exp!Gone
  <2>1. k \notin Exp!Expired /\ dir'[k] = dir[k] /\ k \notin orphans
    BY <1>1
  <2> QED BY <1>6, <2>1 DEF ExportInv, DirsOwned
<1>11. Counted'
  <2>1. /\ Occupied' \subseteq Occupied \cup {j} /\ Holding(o)' \subseteq Holding(o) \cup {j}
        /\ \A p \in Owners : p # o => Holding(p)' \subseteq Holding(p)
    BY <1>2, <1>5 DEF Occupied, Holding, Live
  <2>2. Here' \subseteq ((Jobs \ Exp!With({"gone"})) \ Exp!Expired) \cup {j}
    BY <1>2 DEF Here, Exp!With, Exp!Gone
  <2>3. /\ Occupied = Exp!Occupying /\ Holding(o) = {k \in Exp!Occupying : job[k].owner = o}
    BY DEF Occupied, Holding, Live, Exp!Occupying, Exp!With
  <2>4. /\ Cardinality(Occupied) < MaxActive /\ Cardinality(Holding(o)) < PerOwner
        /\ Cardinality((Jobs \ Exp!With({"gone"})) \ Exp!Expired) < MaxKept
    BY <2>3, ExportCounts DEF Exp!Admit
  <2>5. ASSUME NEW S \in SUBSET Jobs, NEW T \in SUBSET Jobs, NEW n \in Nat, S \subseteq T \cup {j},
               Cardinality(T) < n
        PROVE  Cardinality(S) <= n
    <3>1. IsFiniteSet(T)
      BY ExportsAssumption, FS_Subset
    <3>2. IsFiniteSet(T \cup {j}) /\ Cardinality(T) \in Nat
      BY <3>1, FS_AddElement, FS_CardinalityType
    <3>5. Cardinality(T \cup {j}) <= Cardinality(T) + 1 /\ Cardinality(T \cup {j}) \in Nat
      BY <3>1, <3>2, FS_AddElement, FS_CardinalityType
    <3>3. Cardinality(S) <= Cardinality(T \cup {j}) /\ IsFiniteSet(S)
      BY <2>5, <3>2, FS_Subset
    <3>4. Cardinality(S) \in Nat
      BY <3>3, FS_CardinalityType
    <3> QED BY <2>5, <3>2, <3>3, <3>4, <3>5
  <2>6. ASSUME NEW p \in Owners, p # o PROVE Cardinality(Holding(p)') <= PerOwner
    <3>1. IsFiniteSet(Holding(p))
      BY ExportsAssumption, FS_Subset DEF Holding
    <3>2. Cardinality(Holding(p)') <= Cardinality(Holding(p)) /\ IsFiniteSet(Holding(p)')
      BY <2>1, <2>6, <3>1, FS_Subset
    <3>3. Cardinality(Holding(p)') \in Nat /\ Cardinality(Holding(p)) \in Nat
      BY <3>1, <3>2, FS_CardinalityType
    <3> QED BY <3>2, <3>3, ExportsAssumption DEF ExportInv, Counted
  <2>7. /\ Occupied \subseteq Jobs /\ Occupied' \subseteq Jobs /\ Here' \subseteq Jobs
        /\ Holding(o) \subseteq Jobs /\ Holding(o)' \subseteq Jobs
    BY DEF Occupied, Here, Holding
  <2>8. Cardinality(Occupied') <= MaxActive /\ Cardinality(Holding(o)') <= PerOwner
    BY <2>1, <2>4, <2>5, <2>7, ExportsAssumption
  <2>9. Cardinality(Here') <= MaxKept
    BY <2>2, <2>4, <2>5, <2>7, ExportsAssumption
  <2> QED BY <2>6, <2>8, <2>9 DEF Counted
<1>12. Trimmed'
  <2>1. \A k \in Jobs : job'[k].status = "completed" => job[k].status = "completed" /\ job'[k].size = job[k].size
    BY <1>2, <1>5
  <2> QED BY <1>1, <1>4, <2>1, NoneStored
<1> QED BY <1>4, <1>7, <1>8, <1>9, <1>10, <1>11, <1>12 DEF ExportInv

LEMMA ExpireKeeps ==
  ASSUME ExportInv, Exp!Expire PROVE ExportInv'
<1>1. /\ UNCHANGED <<queue, worker, rights, expNow, orphans>>
      /\ job' = [k \in Jobs |-> IF k \in Exp!Expired THEN Exp!Gone ELSE job[k]]
      /\ dir' = [k \in Jobs |-> IF k \in Exp!Expired THEN "none" ELSE dir[k]]
  BY DEF Exp!Expire, Exp!Without
<1>2. \A k \in Jobs : Live(k) \/ job'[k].status # "gone" => job'[k] = job[k] /\ dir'[k] = dir[k]
  BY <1>1, ExpiredEnded DEF Live, Exp!Gone
<1>3. ExportTypes'
  BY <1>1 DEF ExportInv, ExportTypes
<1>4. QueuedOnce'
  <2>1. \A i \in 1..Len(queue) : queue[i] \in Jobs /\ job[queue[i]].status = "queued"
    BY DEF ExportInv, ExportTypes, QueuedOnce
  <2>2. \A i \in 1..Len(queue) : job'[queue[i]] = job[queue[i]]
    BY <1>2, <2>1 DEF Live
  <2> QED BY <1>1, <2>1, <2>2 DEF ExportInv, QueuedOnce
<1>5. WorkerTells'
  BY <1>1, <1>2 DEF ExportInv, WorkerTells, Shown, Live
<1>6. CompletedThere'
  BY <1>2 DEF ExportInv, CompletedThere, Shown
<1>7. DirsOwned'
  BY <1>1 DEF ExportInv, DirsOwned
<1>8. Counted'
  <2>1. \A k \in Jobs : Live(k)' => Live(k) /\ job'[k].owner = job[k].owner
    BY <1>2 DEF Live
  <2> QED BY <1>2, <1>3, <2>1, NoneComesIn
<1>9. Trimmed'
  BY <1>1, <1>2, <1>3, NoneStored
<1> QED BY <1>3, <1>4, <1>5, <1>6, <1>7, <1>8, <1>9 DEF ExportInv

LEMMA ReceivedKeeps ==
  ASSUME ExportInv, NEW j \in Jobs, Exp!Received(j) PROVE ExportInv'
<1>1. /\ job[j].status = "receiving" /\ job[j] \in ExpRows
      /\ UNCHANGED <<worker, rights, expNow, orphans>>
      /\ \A k \in Jobs : k # j => job'[k] = job[k] /\ dir'[k] = dir[k]
      /\ queue \in Seq(Jobs) /\ \A i \in 1..Len(queue) : queue[i] # j
  BY JobIs DEF Exp!Received, Exp!Forgets, ExportInv, ExportTypes, QueuedOnce
<1>2. WorkerTells'
  BY <1>1 DEF ExportInv, WorkerTells, Shown
<1>3. CASE job' = [job EXCEPT ![j].status = "queued"] /\ queue' = Append(queue, j) /\ UNCHANGED dir
  <2>1. job'[j] \in ExpRows /\ job'[j].status = "queued" /\ job'[j].owner = job[j].owner
    BY <1>1, <1>3 DEF ExpRows, ExportInv, ExportTypes
  <2>2. ExportTypes'
    BY <1>1, <1>3, <2>1 DEF ExportInv, ExportTypes
  <2>3. QueuedOnce'
    <3>1. Len(queue') = Len(queue) + 1 /\ queue'[Len(queue) + 1] = j
          /\ \A i \in 1..Len(queue) : queue'[i] = queue[i] /\ queue[i] \in Jobs
      BY <1>1, <1>3
    <3> QED BY <1>1, <2>1, <3>1 DEF ExportInv, QueuedOnce
  <2>4. CompletedThere' /\ DirsOwned'
    BY <1>1, <1>3, <2>1 DEF ExportInv, CompletedThere, DirsOwned, Shown, ExpRows, Exp!Gone
  <2>5. Counted'
    <3>1. \A k \in Jobs : Live(k)' => Live(k) /\ job'[k].owner = job[k].owner
      BY <1>1, <2>1 DEF Live
    <3> QED BY <1>1, <2>2, <3>1, NoneComesIn
  <2>6. Trimmed'
    BY <1>1, <2>1, <2>2, NoneStored
  <2> QED BY <1>2, <2>2, <2>3, <2>4, <2>5, <2>6 DEF ExportInv
<1>4. CASE job' = [job EXCEPT ![j] = Exp!Gone] /\ dir' = Exp!Forgets(j) /\ UNCHANGED queue
  <2>1. job'[j] = Exp!Gone /\ job'[j].status = "gone" /\ dir'[j] = "none"
    BY <1>4 DEF Exp!Gone, Exp!Forgets, ExportInv, ExportTypes
  <2>2. ExportTypes'
    BY <1>1, <1>4 DEF ExportInv, ExportTypes, Exp!Forgets
  <2>3. QueuedOnce'
    BY <1>1, <1>4 DEF ExportInv, QueuedOnce, ExportTypes
  <2>4. CompletedThere' /\ DirsOwned'
    BY <1>1, <2>1 DEF ExportInv, CompletedThere, DirsOwned, Shown
  <2>5. Counted'
    <3>1. \A k \in Jobs : Live(k)' => Live(k) /\ job'[k].owner = job[k].owner
      BY <1>1, <2>1 DEF Live
    <3> QED BY <1>1, <2>1, <2>2, <3>1, NoneComesIn
  <2>6. Trimmed'
    BY <1>1, <2>1, <2>2, NoneStored
  <2> QED BY <1>2, <2>2, <2>3, <2>4, <2>5, <2>6 DEF ExportInv
<1> QED BY <1>3, <1>4 DEF Exp!Received

LEMMA BeginKeeps ==
  ASSUME ExportInv, Exp!Begin PROVE ExportInv'
<1> DEFINE j == Head(queue)
<1>1. /\ worker.pc = "idle" /\ queue # <<>> /\ queue \in Seq(Jobs)
      /\ worker' = [job |-> j, pc |-> "check", tries |-> 1] /\ queue' = Tail(queue)
      /\ job' = [job EXCEPT ![j].status = "running"]
      /\ UNCHANGED <<dir, rights, expNow, orphans>>
  BY DEF Exp!Begin, ExportInv, ExportTypes
<1>2. /\ j \in Jobs /\ j = queue[1] /\ 1 \in 1..Len(queue) /\ Len(queue') = Len(queue) - 1
      /\ queue' \in Seq(Jobs) /\ Len(queue) \in Nat
      /\ \A i \in 1..Len(queue') : queue'[i] = queue[i + 1] /\ i + 1 \in 1..Len(queue)
  BY <1>1
<1>3. job[j].status = "queued" /\ job[j] \in ExpRows
  BY <1>2, JobIs DEF ExportInv, QueuedOnce
<1>4. /\ job'[j] \in ExpRows /\ job'[j].status = "running" /\ job'[j].owner = job[j].owner
      /\ \A k \in Jobs : k # j => job'[k] = job[k]
  BY <1>1, <1>2, <1>3 DEF ExpRows, ExportInv, ExportTypes
<1>5. ExportTypes'
  BY <1>1, <1>2, <1>4 DEF ExportInv, ExportTypes
<1>6. QueuedOnce'
  <2>1. \A i \in 1..Len(queue') : queue'[i] # j /\ queue'[i] \in Jobs
    BY <1>1, <1>2 DEF ExportInv, QueuedOnce
  <2>2. \A i \in 1..Len(queue') : job'[queue'[i]].status = "queued"
    BY <1>2, <1>4, <2>1 DEF ExportInv, QueuedOnce
  <2>3. \A i, k \in 1..Len(queue') : queue'[i] = queue'[k] => i = k
    <3> SUFFICES ASSUME NEW i \in 1..Len(queue'), NEW k \in 1..Len(queue'), queue'[i] = queue'[k] PROVE i = k
      OBVIOUS
    <3>1. i + 1 = k + 1
      BY <1>2 DEF ExportInv, QueuedOnce
    <3> QED BY <3>1
  <2> QED BY <2>2, <2>3 DEF QueuedOnce
<1>7. WorkerTells'
  BY <1>1, <1>2, <1>4 DEF WorkerTells
<1>8. CompletedThere' /\ DirsOwned'
  BY <1>1, <1>4 DEF ExportInv, CompletedThere, DirsOwned, Shown, ExpRows, Exp!Gone
<1>9. Counted'
  <2>1. \A k \in Jobs : Live(k)' => Live(k) /\ job'[k].owner = job[k].owner
    BY <1>3, <1>4 DEF Live
  <2> QED BY <1>3, <1>4, <1>5, <2>1, NoneComesIn
<1>10. Trimmed'
  BY <1>1 DEF Trimmed
<1> QED BY <1>5, <1>6, <1>7, <1>8, <1>9, <1>10 DEF ExportInv

\* The worker goes on with its job, which stays running.
LEMMA WorkingKeeps ==
  ASSUME ExportInv, NEW j \in Jobs, Exp!Check(j) \/ Exp!Render(j) PROVE ExportInv'
<1>1. /\ worker.job = j /\ worker.pc \in {"check", "render"} /\ worker'.job = j
      /\ UNCHANGED <<queue, rights, expNow, orphans>> /\ job[j].status = "running" /\ job[j] \in ExpRows
  BY JobIs DEF Exp!Check, Exp!Render, ExportInv, WorkerTells, ExportTypes
<1>2. /\ job'[j] \in ExpRows /\ job'[j].status = "running" /\ job'[j].owner = job[j].owner
      /\ job'[j].scope = job[j].scope
      /\ \A k \in Jobs : k # j => job'[k] = job[k] /\ dir'[k] = dir[k]
      /\ job' \in [Jobs -> {Exp!Gone} \cup ExpRows]
  <2>1. rights[job[j].owner] \in Rights
    BY <1>1 DEF ExportInv, ExportTypes, ExpRows
  <2>2. CASE Exp!Check(j)
    BY <1>1, <2>2 DEF Exp!Check, ExportInv, ExportTypes, ExpRows
  <2>3. CASE UNCHANGED <<job, dir>>
    BY <1>1, <2>3 DEF ExportInv, ExportTypes
  <2>4. ASSUME NEW size \in Sizes, job' = [job EXCEPT ![j].size = size, ![j].shown = rights[job[j].owner]],
               dir' = [dir EXCEPT ![j] = "result"]
        PROVE  /\ job'[j] \in ExpRows /\ job'[j].status = "running" /\ job'[j].owner = job[j].owner
               /\ job'[j].scope = job[j].scope
               /\ \A k \in Jobs : k # j => job'[k] = job[k] /\ dir'[k] = dir[k]
               /\ job' \in [Jobs -> {Exp!Gone} \cup ExpRows]
    <3>1. size \in Nat
      BY ExportsAssumption
    <3>2. job' = [job EXCEPT ![j] = [job[j] EXCEPT !.size = size, !.shown = rights[job[j].owner]]]
      BY <2>4 DEF ExportInv, ExportTypes
    <3>3. [job[j] EXCEPT !.size = size, !.shown = rights[job[j].owner]] \in ExpRows
      BY <1>1, <2>1, <3>1 DEF ExpRows
    <3>4. job'[j] = [job[j] EXCEPT !.size = size, !.shown = rights[job[j].owner]]
      BY <3>2 DEF ExportInv, ExportTypes
    <3>5. job'[j].status = "running" /\ job'[j].owner = job[j].owner /\ job'[j].scope = job[j].scope
      BY <1>1, <3>4 DEF ExpRows
    <3> QED BY <2>4, <3>2, <3>3, <3>4, <3>5 DEF ExportInv, ExportTypes
  <2> QED BY <2>2, <2>3, <2>4 DEF Exp!Render
<1>3. dir' \in [Jobs -> {"none", "empty", "result"}] /\ (dir'[j] # "none" => dir'[j] = "result" \/ dir'[j] = dir[j])
  BY <1>1 DEF Exp!Check, Exp!Render, ExportInv, ExportTypes
<1>4. /\ worker'.pc \in {"check", "render", "complete", "fail"}
      /\ worker' \in [job : Jobs \cup {NoOne}, pc : {"idle", "check", "render", "complete", "fail", "finish"}, tries : Int]
  <2>1. worker \in [job : Jobs \cup {NoOne}, pc : {"idle", "check", "render", "complete", "fail", "finish"}, tries : Int]
    BY DEF ExportInv, ExportTypes
  <2>2. worker = [job |-> j, pc |-> worker.pc, tries |-> worker.tries] /\ worker.tries \in Int
    BY <1>1, <2>1
  <2>3. \E pc \in {"render", "fail", "complete", "check"}, t \in Int :
          worker' = [job |-> j, pc |-> pc, tries |-> t]
    <3>1. CASE Exp!Check(j)
      BY <2>2, <3>1 DEF Exp!Check
    <3>2. CASE Exp!Render(j)
      <4>1. \A pc : [worker EXCEPT !.pc = pc] = [job |-> j, pc |-> pc, tries |-> worker.tries]
        BY <2>2
      <4>2. [[worker EXCEPT !.pc = "check"] EXCEPT !.tries = worker.tries + 1]
              = [job |-> j, pc |-> "check", tries |-> worker.tries + 1]
        <5>1. ASSUME NEW w, w = [job |-> j, pc |-> "check", tries |-> worker.tries], NEW t
              PROVE  [w EXCEPT !.tries = t] = [job |-> j, pc |-> "check", tries |-> t]
          BY <5>1
        <5>2. [worker EXCEPT !.pc = "check"] = [job |-> j, pc |-> "check", tries |-> worker.tries]
          BY <4>1
        <5> QED BY <5>1, <5>2
      <4>3. \/ \E pc \in {"complete", "fail"} : worker' = [worker EXCEPT !.pc = pc]
            \/ worker' = [[worker EXCEPT !.pc = "check"] EXCEPT !.tries = worker.tries + 1]
        BY <3>2 DEF Exp!Render
      <4>4. worker.tries + 1 \in Int
        BY <2>2
      <4> QED BY <2>2, <4>1, <4>2, <4>3, <4>4
    <3> QED BY <3>1, <3>2
  <2> QED BY <2>3
<1>5. ExportTypes'
  BY <1>1, <1>2, <1>3, <1>4 DEF ExportInv, ExportTypes
<1>6. QueuedOnce'
  <2>1. \A i \in 1..Len(queue) : queue[i] \in Jobs /\ queue[i] # j
    BY <1>1 DEF ExportInv, ExportTypes, QueuedOnce
  <2> QED BY <1>1, <1>2, <2>1 DEF ExportInv, QueuedOnce
<1>7. WorkerTells'
  <2>1. worker'.pc = "render" => rights[job[j].owner] = job[j].scope
    BY <1>1 DEF Exp!Check, Exp!Render, ExportInv, ExportTypes
  <2>2. worker'.pc = "complete" => dir'[j] = "result" /\ Shown(j)'
    <3>1. SUFFICES ASSUME worker'.pc = "complete" PROVE dir'[j] = "result" /\ Shown(j)'
      OBVIOUS
    <3>2. Exp!Render(j) /\ worker.pc = "render" /\ dir' = [dir EXCEPT ![j] = "result"]
          /\ \E size \in Sizes : job' = [job EXCEPT ![j].size = size, ![j].shown = rights[job[j].owner]]
      BY <1>1, <3>1 DEF Exp!Check, Exp!Render, ExportInv, ExportTypes
    <3>3. job[j].moved \/ rights[job[j].owner] = job[j].scope
      BY <1>1, <3>2 DEF ExportInv, WorkerTells
    <3> QED BY <1>1, <3>2, <3>3 DEF Shown, ExportInv, ExportTypes, ExpRows
  <2> QED BY <1>1, <1>2, <1>4, <2>1, <2>2 DEF WorkerTells
<1>8. CompletedThere' /\ DirsOwned'
  BY <1>1, <1>2, <1>3 DEF ExportInv, CompletedThere, DirsOwned, Shown, ExpRows, Exp!Gone
<1>9. Counted'
  <2>1. \A k \in Jobs : Live(k)' => Live(k) /\ job'[k].owner = job[k].owner
    BY <1>1, <1>2 DEF Live
  <2> QED BY <1>1, <1>2, <1>5, <2>1, NoneComesIn
<1>10. Trimmed'
  BY <1>4 DEF Trimmed
<1> QED BY <1>5, <1>6, <1>7, <1>8, <1>9, <1>10 DEF ExportInv

LEMMA StatusKeeps ==
  ASSUME ExportInv, NEW j \in Jobs, Exp!Status(j) PROVE ExportInv'
<1>1. /\ worker.job = j /\ worker.pc \in {"complete", "fail"} /\ worker' = [worker EXCEPT !.pc = "finish"]
      /\ UNCHANGED <<queue, rights, expNow, orphans>> /\ job[j].status = "running" /\ job[j] \in ExpRows
      /\ job' = [job EXCEPT ![j].status = IF worker.pc = "complete" THEN "completed" ELSE "failed"]
      /\ dir' = [dir EXCEPT ![j] = IF worker.pc = "fail" THEN "empty" ELSE @]
  BY JobIs DEF Exp!Status, ExportInv, WorkerTells
<1>2. /\ job'[j] \in ExpRows
      /\ job'[j].status = IF worker.pc = "complete" THEN "completed" ELSE "failed"
      /\ job'[j].shown = job[j].shown /\ job'[j].scope = job[j].scope /\ job'[j].moved = job[j].moved
      /\ \A k \in Jobs : k # j => job'[k] = job[k] /\ dir'[k] = dir[k]
      /\ dir'[j] = IF worker.pc = "fail" THEN "empty" ELSE dir[j]
  BY <1>1 DEF ExpRows, ExportInv, ExportTypes
<1>3. ExportTypes'
  BY <1>1, <1>2 DEF ExportInv, ExportTypes
<1>4. QueuedOnce'
  <2>1. \A i \in 1..Len(queue) : queue[i] \in Jobs /\ queue[i] # j
    BY <1>1 DEF ExportInv, ExportTypes, QueuedOnce
  <2> QED BY <1>1, <1>2, <2>1 DEF ExportInv, QueuedOnce
<1>5. worker'.pc = "finish" /\ worker'.job = j
  BY <1>1 DEF ExportInv, ExportTypes
<1>6. WorkerTells' /\ Trimmed'
  BY <1>5 DEF WorkerTells, Trimmed
<1>7. CompletedThere'
  <2>1. worker.pc = "complete" => dir[j] = "result" /\ Shown(j)
    BY <1>1 DEF ExportInv, WorkerTells
  <2> QED BY <1>1, <1>2, <2>1 DEF ExportInv, CompletedThere, Shown
<1>8. DirsOwned'
  BY <1>1, <1>2 DEF ExportInv, DirsOwned, ExpRows, Exp!Gone
<1>9. Counted'
  <2>1. \A k \in Jobs : Live(k)' => Live(k) /\ job'[k].owner = job[k].owner
    BY <1>2 DEF Live
  <2> QED BY <1>1, <1>2, <1>3, <2>1, NoneComesIn
<1> QED BY <1>3, <1>4, <1>6, <1>7, <1>8, <1>9 DEF ExportInv

LEMMA FinishKeeps ==
  ASSUME ExportInv, NEW j \in Jobs, Exp!Finish(j) PROVE ExportInv'
<1> DEFINE ended == [job EXCEPT ![j] = IF @ = Exp!Gone THEN @ ELSE [@ EXCEPT !.finished = expNow]]
           completed == {k \in Jobs : ended[k].status = "completed"}
<1>1. PICK out \in SUBSET completed :
        /\ Exp!SizeOf(completed \ out, ended) <= MaxCache
        /\ job' = [k \in Jobs |-> IF k \in out THEN Exp!Gone ELSE ended[k]]
        /\ dir' = [k \in Jobs |-> IF k \in out THEN "none" ELSE dir[k]]
  BY DEF Exp!Finish, Exp!Evicted
<1>2. worker.job = j /\ worker.pc = "finish" /\ worker' = Exp!Idle /\ UNCHANGED <<queue, rights, expNow, orphans>>
  BY DEF Exp!Finish
<1>3. /\ \A k \in Jobs : k # j => ended[k] = job[k]
      /\ job[j] = Exp!Gone => ended[j] = Exp!Gone
      /\ job[j] # Exp!Gone => ended[j] = [job[j] EXCEPT !.finished = expNow]
  BY DEF ExportInv, ExportTypes
<1>4. ASSUME NEW k \in Jobs
      PROVE  /\ ended[k] = Exp!Gone <=> job[k] = Exp!Gone
             /\ ended[k] \in {Exp!Gone} \cup ExpRows
             /\ ended[k].status = job[k].status
             /\ job[k] # Exp!Gone => /\ ended[k].owner = job[k].owner /\ ended[k].size = job[k].size
                                     /\ ended[k].shown = job[k].shown /\ ended[k].scope = job[k].scope
                                     /\ ended[k].moved = job[k].moved
  <2>1. job[k] \in {Exp!Gone} \cup ExpRows /\ expNow \in Int
    BY DEF ExportInv, ExportTypes
  <2>2. CASE k = j /\ job[j] # Exp!Gone
    <3>1. [job[j] EXCEPT !.finished = expNow] \in ExpRows
      BY <2>1, <2>2 DEF ExpRows
    <3> QED BY <1>3, <2>1, <2>2, <3>1, JobIs DEF ExpRows, ExportInv, Exp!Gone
  <2>3. CASE k # j \/ job[j] = Exp!Gone
    BY <1>3, <2>1, <2>3
  <2> QED BY <2>2, <2>3
<1> HIDE DEF ended
<1>5. \A k \in Jobs : job'[k] = (IF k \in out THEN Exp!Gone ELSE ended[k])
                    /\ dir'[k] = (IF k \in out THEN "none" ELSE dir[k])
  BY <1>1
<1>6. ExportTypes'
  <2>1. job' \in [Jobs -> {Exp!Gone} \cup ExpRows]
    BY <1>1, <1>4
  <2>2. dir' \in [Jobs -> {"none", "empty", "result"}]
    BY <1>1 DEF ExportInv, ExportTypes
  <2> QED BY <1>2, <2>1, <2>2 DEF ExportInv, ExportTypes, Exp!Idle
<1>7. \A k \in Jobs : job'[k].status # "gone" => k \notin out /\ job'[k] = ended[k] /\ dir'[k] = dir[k]
                                                 /\ job'[k].status = job[k].status /\ job[k] # Exp!Gone
  BY <1>4, <1>5 DEF Exp!Gone
<1>8. QueuedOnce'
  <2>1. \A i \in 1..Len(queue) : queue[i] \in Jobs /\ job[queue[i]].status = "queued"
    BY DEF ExportInv, ExportTypes, QueuedOnce
  <2>2. \A i \in 1..Len(queue) : queue[i] \notin out /\ job'[queue[i]].status = "queued"
    BY <1>4, <1>5, <2>1
  <2> QED BY <1>2, <2>2 DEF ExportInv, QueuedOnce
<1>9. WorkerTells'
  BY <1>2 DEF WorkerTells, Exp!Idle
<1>10. CompletedThere'
  BY <1>4, <1>7 DEF ExportInv, CompletedThere, Shown
<1>11. DirsOwned'
  BY <1>2, <1>4, <1>5 DEF ExportInv, DirsOwned
<1>12. Counted'
  <2>1. \A k \in Jobs : Live(k)' => Live(k) /\ job'[k].owner = job[k].owner
    BY <1>4, <1>7 DEF Live
  <2>2. \A k \in Jobs : job'[k].status # "gone" => job[k].status # "gone"
    BY <1>7
  <2> QED BY <1>6, <2>1, <2>2, NoneComesIn
<1>13. Trimmed'
  <2>1. \A k \in completed : ended[k].size \in Nat
    BY <1>4 DEF ExpRows, Exp!Gone
  <2>2. Ready' \subseteq completed \ out /\ \A k \in Ready' : job'[k].size = ended[k].size
    BY <1>7 DEF Ready
  <2>3. Exp!SizeOf(Ready', job') <= Exp!SizeOf(completed \ out, ended)
    BY <2>1, <2>2, UnitsLess
  <2>4. Exp!SizeOf(completed \ out, ended) \in Nat /\ Exp!SizeOf(Ready', job') \in Nat
    BY <2>1, <2>2, SizesAre
  <2> QED BY <1>1, <2>3, <2>4, ExportsAssumption DEF Trimmed
<1> QED BY <1>6, <1>8, <1>9, <1>10, <1>11, <1>12, <1>13 DEF ExportInv

LEMMA RightsChangeKeeps ==
  ASSUME ExportInv, NEW o \in Owners, Exp!RightsChange(o) PROVE ExportInv'
<1>1. /\ UNCHANGED <<dir, queue, worker, expNow, orphans>>
      /\ \E r \in Rights : rights' = [rights EXCEPT ![o] = r]
      /\ job' = IF worker.pc = "render" /\ job[worker.job].owner = o
                THEN [job EXCEPT ![worker.job].moved = TRUE] ELSE job
  BY DEF Exp!RightsChange
<1>2. ASSUME NEW k \in Jobs
      PROVE  /\ job'[k] = Exp!Gone <=> job[k] = Exp!Gone
             /\ job'[k] \in {Exp!Gone} \cup ExpRows
             /\ job'[k].status = job[k].status
             /\ job[k] # Exp!Gone => /\ job'[k].owner = job[k].owner /\ job'[k].size = job[k].size
                                     /\ job'[k].shown = job[k].shown /\ job'[k].scope = job[k].scope
                                     /\ (job[k].moved => job'[k].moved)
             /\ worker.pc = "render" /\ job[worker.job].owner = o /\ k = worker.job => job'[k].moved
  <2>1. job[k] \in {Exp!Gone} \cup ExpRows
    BY DEF ExportInv, ExportTypes
  <2>2. CASE worker.pc = "render" /\ job[worker.job].owner = o /\ k = worker.job
    <3>1. job[k].status = "running" /\ job[k] \in ExpRows
      BY <2>2, JobIs DEF ExportInv, WorkerTells
    <3>2. job'[k] = [job[k] EXCEPT !.moved = TRUE]
      BY <1>1, <2>2 DEF ExportInv, ExportTypes
    <3> QED BY <3>1, <3>2 DEF ExpRows, Exp!Gone
  <2>3. CASE ~(worker.pc = "render" /\ job[worker.job].owner = o /\ k = worker.job)
    <3>1. job'[k] = job[k]
      BY <1>1, <2>3 DEF ExportInv, ExportTypes
    <3> QED BY <2>1, <2>3, <3>1
  <2> QED BY <2>2, <2>3
<1>3. ExportTypes'
  <2>1. job' \in [Jobs -> {Exp!Gone} \cup ExpRows]
    <3>1. job' = [k \in Jobs |-> job'[k]]
      BY <1>1 DEF ExportInv, ExportTypes
    <3> QED BY <1>2, <3>1
  <2> QED BY <1>1, <2>1 DEF ExportInv, ExportTypes
<1>4. QueuedOnce'
  BY <1>1, <1>2 DEF ExportInv, ExportTypes, QueuedOnce
<1>5. WorkerTells'
  <2>1. ASSUME worker.pc \in {"check", "render", "complete", "fail"}
        PROVE  worker.job \in Jobs /\ job[worker.job].status = "running" /\ job[worker.job] \in ExpRows
               /\ job[worker.job] # Exp!Gone
    BY <2>1, JobIs DEF ExportInv, WorkerTells, Exp!Gone
  <2>2. ASSUME worker.pc = "render"
        PROVE  job'[worker.job].moved \/ rights'[job'[worker.job].owner] = job'[worker.job].scope
    <3>1. worker.job \in Jobs /\ job[worker.job] \in ExpRows /\ job[worker.job] # Exp!Gone
      BY <2>1, <2>2
    <3>2. CASE job[worker.job].owner = o
      BY <1>2, <2>2, <3>1, <3>2
    <3>3. CASE job[worker.job].owner # o
      <4>1. rights'[job[worker.job].owner] = rights[job[worker.job].owner]
        BY <1>1, <3>1, <3>3 DEF ExportInv, ExportTypes, ExpRows
      <4> QED BY <1>2, <2>2, <3>1, <4>1 DEF ExportInv, WorkerTells
    <3> QED BY <3>2, <3>3
  <2>3. worker.pc = "complete" => dir[worker.job] = "result" /\ Shown(worker.job)'
    BY <1>1, <1>2, <2>1 DEF ExportInv, WorkerTells, Shown
  <2> QED BY <1>1, <1>2, <2>1, <2>2, <2>3 DEF ExportInv, WorkerTells
<1>6. CompletedThere'
  BY <1>1, <1>2 DEF ExportInv, CompletedThere, Shown, Exp!Gone
<1>7. DirsOwned'
  BY <1>1, <1>2 DEF ExportInv, DirsOwned
<1>8. Counted'
  <2>1. \A k \in Jobs : Live(k)' => Live(k) /\ job'[k].owner = job[k].owner
    BY <1>2 DEF Live, Exp!Gone
  <2> QED BY <1>2, <1>3, <2>1, NoneComesIn
<1>9. Trimmed'
  <2>1. \A k \in Jobs : job'[k].status = "completed" => job[k].status = "completed" /\ job'[k].size = job[k].size
    BY <1>2 DEF Exp!Gone
  <2> QED BY <1>1, <1>3, <2>1, NoneStored
<1> QED BY <1>3, <1>4, <1>5, <1>6, <1>7, <1>8, <1>9 DEF ExportInv

LEMMA RestartKeeps ==
  ASSUME ExportInv, Exp!Restart PROVE ExportInv'
<1>1. /\ \A j \in Jobs : job'[j] = Exp!Gone /\ job'[j].status = "gone"
      /\ job' \in [Jobs -> {Exp!Gone} \cup ExpRows]
      /\ queue' = <<>> /\ worker' = Exp!Idle /\ UNCHANGED <<dir, rights, expNow>>
      /\ orphans' = orphans \cup {j \in Jobs : dir[j] # "none"}
  BY DEF Exp!Restart, Exp!Gone
<1>2. ExportTypes' /\ QueuedOnce' /\ WorkerTells' /\ CompletedThere' /\ DirsOwned'
  BY <1>1 DEF ExportInv, ExportTypes, QueuedOnce, WorkerTells, CompletedThere, DirsOwned, Exp!Idle
<1>3. Counted'
  BY <1>1, <1>2, NoneComesIn DEF Live
<1>4. UNION {{j} \X (1..job'[j].size) : j \in Ready'} = {}
  BY <1>1 DEF Ready
<1>5. Trimmed'
  BY <1>4, FS_EmptySet, ExportCounts, ExportsAssumption DEF Trimmed, Exp!SizeOf
<1> QED BY <1>2, <1>3, <1>5 DEF ExportInv

LEMMA ExportStep == ExportInv /\ [Exp!Next]_(Exp!exportVars) => ExportInv'
<1> SUFFICES ASSUME ExportInv, [Exp!Next]_(Exp!exportVars) PROVE ExportInv'
  OBVIOUS
<1>1. CASE UNCHANGED Exp!exportVars \/ Exp!Pass
  <2>1. UNCHANGED <<job, dir, queue, worker, rights, orphans>> /\ expNow' \in Int
    BY <1>1 DEF Exp!exportVars, Exp!Pass, ExportInv, ExportTypes
  <2> QED BY <2>1 DEF ExportInv, ExportTypes, QueuedOnce, WorkerTells, CompletedThere, DirsOwned, Shown,
        Counted, Occupied, Holding, Here, Live, Trimmed, Ready
<1> QED BY <1>1, AdmitKeeps, ExpireKeeps, ReceivedKeeps, BeginKeeps, WorkingKeeps, StatusKeeps,
      FinishKeeps, RightsChangeKeeps, RestartKeeps DEF Exp!Next

\* A report that can be downloaded shows what its owner may see, and the limits of
\* the queue and of the store hold together, each checked at a moment of its own
\* (export_tasks.py:180, 220-296), for any jobs, owners, rights and limits.
THEOREM ExportsAreBounded == Exp!Spec => [](Exp!ServedUnderRights /\ Exp!ExportsBounded)
<1>1. ASSUME ExportInv PROVE Exp!ServedUnderRights
  <2> SUFFICES ASSUME NEW j \in Jobs, Exp!Servable(j)
               PROVE  dir[j] = "result" /\ (job[j].shown = rights[job[j].owner] \/ job[j].moved)
    BY DEF Exp!ServedUnderRights
  <2> QED BY <1>1 DEF ExportInv, CompletedThere, Shown, Exp!Servable
<1>2. ASSUME ExportInv PROVE Exp!ExportsBounded
  <2>1. \A j \in Jobs : job[j].status \in {"gone", "receiving", "queued", "running", "completed", "failed"}
    BY <1>2, JobIs DEF ExportInv, ExpRows
  <2>2. /\ Exp!With({"receiving", "queued", "running"}) = Occupied
        /\ \A o \in Owners : {j \in Jobs \ Exp!With({"gone", "completed", "failed"}) : job[j].owner = o} = Holding(o)
        /\ Jobs \ Exp!With({"gone"}) = Here /\ Exp!With({"completed"}) = Ready
    BY <2>1 DEF Exp!With, Occupied, Holding, Here, Ready, Live
  <2> QED BY <1>2, <2>2, ExportCounts DEF ExportInv, Counted, Trimmed, DirsOwned, Exp!ExportsBounded
<1>3. ExportInv => Exp!ServedUnderRights /\ Exp!ExportsBounded
  BY <1>1, <1>2
<1> QED BY <1>3, ExportInit, ExportStep, PTL DEF Exp!Spec
-----------------------------------------------------------------------------
(* The start on an old database. Where a start is in the scripts tells what the *)
(* session has: which keys are recorded, which patches are whole, how far the   *)
(* rebuilds of the two tables are and what the guarantees have established.     *)

\* The patches of the registry one by one, as far as the proofs read them.
Plain(t) == t \in Seq({"ensure", "fill", "commit"})

LEMMA RunnersAre ==
    /\ Len(Runners) = 33 /\ Patches = 1..33 /\ Finally = 34
    /\ Runners[17] = SickLeaveImport /\ Runners[19] = SharedEvidence
<1>1. Len(Runners) = 33
  BY DEF Runners
<1>2. Runners[17] = SickLeaveImport
  BY DEF Runners
<1>3. Runners[19] = SharedEvidence
  BY DEF Runners
<1>4. DOMAIN Runners = 1..33
  BY DEF Runners
<1> QED
  BY <1>1, <1>2, <1>3, <1>4 DEF Patches, Finally

LEMMA PlainRunners ==
    ASSUME NEW s \in Patches, s # 17, s # 19
    PROVE  Plain(Runners[s])
<1>1. /\ Plain(VoidAudit) /\ Plain(Credentials) /\ Plain(AttractionDimensions) /\ Plain(PerformanceIndexes)
      /\ Plain(GovernanceIndexes) /\ Plain(SameDayDuplicates) /\ Plain(StatementUpgrade) /\ Plain(CreditCap)
      /\ Plain(NumberHistory) /\ Plain(PhotoMaterials) /\ Plain(CollaborativeMaterials)
  BY DEF Plain, VoidAudit, Credentials, AttractionDimensions, PerformanceIndexes, GovernanceIndexes,
         SameDayDuplicates, StatementUpgrade, CreditCap, NumberHistory, PhotoMaterials, CollaborativeMaterials
<1>2. /\ Plain(PasswordTimestamp) /\ Plain(LoginArchive) /\ Plain(PayloadDigest) /\ Plain(QueryIndexes)
      /\ Plain(ClaimGeneration) /\ Plain(ActingDuties) /\ Plain(AuditScope) /\ Plain(LeaderTypes)
      /\ Plain(GroupCodes) /\ Plain(Resequence) /\ Plain(RankComments)
  BY DEF Plain, PasswordTimestamp, LoginArchive, PayloadDigest, QueryIndexes, ClaimGeneration, ActingDuties,
         AuditScope, LeaderTypes, GroupCodes, Resequence, RankComments
<1>3. /\ Plain(RankRules) /\ Plain(IndexRepair) /\ Plain(EmploymentHistory) /\ Plain(EmployeeTypes)
      /\ Plain(LearningCategories) /\ Plain(AboutCredits) /\ Plain(FivePosts) /\ Plain(PolicySnapshots) /\ Plain(SixPosts)
  BY DEF Plain, RankRules, IndexRepair, EmploymentHistory, EmployeeTypes, LearningCategories, AboutCredits,
         FivePosts, PolicySnapshots, SixPosts
<1>4. \A n \in (1..33) \ {17, 19} : Plain(Runners[n])
  BY <1>1, <1>2, <1>3 DEF Runners
<1> QED
  BY <1>4, RunnersAre

\* Two scripts have statements of their own.
LEMMA Scripts ==
    /\ Script(Finally) = Guarantees
    /\ Script(17) = <<"ensure", "ensure", "fill", "commit", "unlessNew", "begin", "clear", "create", "copy", "drop",
                      "rename", "commit", "index", "commit", "record", "commit">>
    /\ Script(19) = <<"unlessNew", "create", "copy", "drop", "rename", "index", "record", "commit">>
    /\ Len(Runners[17]) = 14 /\ Len(Runners[19]) = 6
<1>1. \A s \in Patches : Script(s) = Runners[s] \o <<"record", "commit">>
  BY RunnersAre DEF Script, Patched
<1>2. Script(Finally) = Guarantees
  BY DEF Script
<1>4. Runners[19] = <<"unlessNew", "create", "copy", "drop", "rename", "index">>
  BY RunnersAre DEF SharedEvidence
<1>5. 17 \in Patches /\ 19 \in Patches
  BY RunnersAre
<1>6. Script(17) = <<"ensure", "ensure", "fill", "commit", "unlessNew", "begin", "clear", "create", "copy", "drop",
                      "rename", "commit", "index", "commit">> \o <<"record", "commit">>
  BY <1>1, <1>5, RunnersAre DEF SickLeaveImport
<1>7. Script(19) = <<"unlessNew", "create", "copy", "drop", "rename", "index">> \o <<"record", "commit">>
  BY <1>1, <1>4, <1>5
<1> QED
  BY <1>2, <1>4, <1>6, <1>7, RunnersAre DEF SickLeaveImport

\* Every patch ends with its key and a commit; before them stand its statements.
LEMMA PatchScript ==
    ASSUME NEW s \in Patches
    PROVE  /\ Len(Runners[s]) \in Nat /\ DOMAIN Runners[s] = 1..Len(Runners[s])
           /\ Len(Script(s)) = Len(Runners[s]) + 2
           /\ \A i \in 1..Len(Runners[s]) : Script(s)[i] = Runners[s][i]
           /\ Script(s)[Len(Runners[s]) + 1] = "record" /\ Script(s)[Len(Runners[s]) + 2] = "commit"
<1>1. Script(s) = Runners[s] \o <<"record", "commit">>
  BY RunnersAre DEF Script, Patched
<1>2. CASE s = 17
  <2>3. Runners[17] = <<"ensure", "ensure", "fill", "commit", "unlessNew", "begin", "clear", "create", "copy", "drop",
                      "rename", "commit", "index", "commit">>
    BY RunnersAre DEF SickLeaveImport
  <2>4. /\ DOMAIN Runners[17] = 1..14 /\ Len(Script(17)) = 16
        /\ Script(17)[15] = "record" /\ Script(17)[16] = "commit"
    BY <2>3, Scripts
  <2>5. \A i \in 1..14 : Script(17)[i] = Runners[17][i]
    BY <2>3, Scripts
  <2> QED
    BY <1>2, <2>4, <2>5, Scripts
<1>3. CASE s = 19
  <2>1. Runners[19] = <<"unlessNew", "create", "copy", "drop", "rename", "index">>
    BY RunnersAre DEF SharedEvidence
  <2>2. /\ DOMAIN Runners[19] = 1..6 /\ Len(Script(19)) = 8
        /\ Script(19)[7] = "record" /\ Script(19)[8] = "commit"
    BY <2>1, Scripts
  <2>3. \A i \in 1..6 : Script(19)[i] = Runners[19][i]
    BY <2>1, Scripts
  <2> QED
    BY <1>3, <2>2, <2>3, Scripts
<1>4. CASE s # 17 /\ s # 19
  <2>1. Runners[s] \in Seq({"ensure", "fill", "commit"})
    BY <1>4, PlainRunners DEF Plain
  <2> QED
    BY <1>1, <2>1
<1> QED
  BY <1>2, <1>3, <1>4

\* What a statement says of its place.
LEMMA PlaceOf ==
    ASSUME NEW s \in 1..Finally, NEW i \in 1..Len(Script(s))
    PROVE  /\ Script(s)[i] \in {"ensure", "fill"} => s \in Patches /\ s # 19 /\ i <= Len(Runners[s]) /\ (s = 17 => i <= 3)
           /\ Script(s)[i] = "record" => s \in Patches /\ i = Len(Runners[s]) + 1
           /\ Script(s)[i] = "commit" => /\ s \notin Patches => s = Finally /\ i \in {2, 4, 6, 8, 10, 12, 14, 18}
                                         /\ s = 17 => i \in {4, 12, 14, 16}
                                         /\ s = 19 => i = 8
           /\ Script(s)[i] = "unlessNew" => (s = 17 /\ i = 5) \/ (s = 19 /\ i = 1)
           /\ Script(s)[i] = "begin" => s = 17 /\ i = 6
           /\ Script(s)[i] = "clear" => s = 17 /\ i = 7
           /\ Script(s)[i] = "create" => (s = 17 /\ i = 8) \/ (s = 19 /\ i = 2)
           /\ Script(s)[i] = "copy" => (s = 17 /\ i = 9) \/ (s = 19 /\ i = 3)
           /\ Script(s)[i] = "drop" => (s = 17 /\ i = 10) \/ (s = 19 /\ i = 4)
           /\ Script(s)[i] = "rename" => (s = 17 /\ i = 11) \/ (s = 19 /\ i = 5)
           /\ Script(s)[i] = "index" => (s = 17 /\ i = 13) \/ (s = 19 /\ i = 6)
           /\ Script(s)[i] = "catalog" => s = Finally /\ i = 1
           /\ Script(s)[i] = "reference" => s = Finally /\ i = 3
           /\ Script(s)[i] = "scopes" => s = Finally /\ i = 5
           /\ Script(s)[i] = "demo" => s = Finally /\ i = 7
           /\ Script(s)[i] = "admin" => s = Finally /\ i = 9
           /\ Script(s)[i] = "hr" => s = Finally /\ i = 11
           /\ Script(s)[i] = "ranks" => s = Finally /\ i = 13
           /\ Script(s)[i] = "dropView" => s = Finally /\ i = 15
           /\ Script(s)[i] = "makeView" => s = Finally /\ i = 16
           /\ Script(s)[i] = "rotation" => s = Finally /\ i = 17
           /\ Script(s)[i] = "serve" => s = Finally /\ i = 19
<1>1. CASE s = 17
  <2>1. i \in 1..16
    BY <1>1, Scripts
  <2>2. \/ i = 1 /\ Script(s)[i] = "ensure"
        \/ i = 2 /\ Script(s)[i] = "ensure"
        \/ i = 3 /\ Script(s)[i] = "fill"
        \/ i = 4 /\ Script(s)[i] = "commit"
        \/ i = 5 /\ Script(s)[i] = "unlessNew"
        \/ i = 6 /\ Script(s)[i] = "begin"
        \/ i = 7 /\ Script(s)[i] = "clear"
        \/ i = 8 /\ Script(s)[i] = "create"
        \/ i = 9 /\ Script(s)[i] = "copy"
        \/ i = 10 /\ Script(s)[i] = "drop"
        \/ i = 11 /\ Script(s)[i] = "rename"
        \/ i = 12 /\ Script(s)[i] = "commit"
        \/ i = 13 /\ Script(s)[i] = "index"
        \/ i = 14 /\ Script(s)[i] = "commit"
        \/ i = 15 /\ Script(s)[i] = "record"
        \/ i = 16 /\ Script(s)[i] = "commit"
    BY <1>1, <2>1, Scripts
  <2>3. s \in Patches /\ Finally = 34 /\ Len(Runners[s]) = 14
    BY <1>1, Scripts, RunnersAre
  <2> QED
    BY <1>1, <2>2, <2>3
<1>2. CASE s = 19
  <2>1. i \in 1..8
    BY <1>2, Scripts
  <2>2. \/ i = 1 /\ Script(s)[i] = "unlessNew"
        \/ i = 2 /\ Script(s)[i] = "create"
        \/ i = 3 /\ Script(s)[i] = "copy"
        \/ i = 4 /\ Script(s)[i] = "drop"
        \/ i = 5 /\ Script(s)[i] = "rename"
        \/ i = 6 /\ Script(s)[i] = "index"
        \/ i = 7 /\ Script(s)[i] = "record"
        \/ i = 8 /\ Script(s)[i] = "commit"
    BY <1>2, <2>1, Scripts
  <2>3. s \in Patches /\ Finally = 34 /\ Len(Runners[s]) = 6
    BY <1>2, Scripts, RunnersAre
  <2> QED
    BY <1>2, <2>2, <2>3
<1>3. CASE s = 34
  <2>1. /\ i \in 1..19
        /\ Script(s) = <<"catalog", "commit", "reference", "commit", "scopes", "commit", "demo", "commit", "admin", "commit",
                         "hr", "commit", "ranks", "commit", "dropView", "makeView", "rotation", "commit", "serve">>
    BY <1>3, Scripts, RunnersAre DEF Guarantees
  <2>2. \/ i = 1 /\ Script(s)[i] = "catalog"
        \/ i = 2 /\ Script(s)[i] = "commit"
        \/ i = 3 /\ Script(s)[i] = "reference"
        \/ i = 4 /\ Script(s)[i] = "commit"
        \/ i = 5 /\ Script(s)[i] = "scopes"
        \/ i = 6 /\ Script(s)[i] = "commit"
        \/ i = 7 /\ Script(s)[i] = "demo"
        \/ i = 8 /\ Script(s)[i] = "commit"
        \/ i = 9 /\ Script(s)[i] = "admin"
        \/ i = 10 /\ Script(s)[i] = "commit"
        \/ i = 11 /\ Script(s)[i] = "hr"
        \/ i = 12 /\ Script(s)[i] = "commit"
        \/ i = 13 /\ Script(s)[i] = "ranks"
        \/ i = 14 /\ Script(s)[i] = "commit"
        \/ i = 15 /\ Script(s)[i] = "dropView"
        \/ i = 16 /\ Script(s)[i] = "makeView"
        \/ i = 17 /\ Script(s)[i] = "rotation"
        \/ i = 18 /\ Script(s)[i] = "commit"
        \/ i = 19 /\ Script(s)[i] = "serve"
    BY <2>1
  <2>3. s \notin Patches /\ Finally = 34
    BY <1>3, RunnersAre
  <2> QED
    BY <1>3, <2>2, <2>3
<1>4. CASE s # 17 /\ s # 19 /\ s # 34
  <2>1. s \in Patches
    BY <1>4, RunnersAre
  <2>2. Runners[s] \in Seq({"ensure", "fill", "commit"})
    BY <1>4, <2>1, PlainRunners DEF Plain
  <2>3. CASE i <= Len(Runners[s])
    <3>1. Script(s)[i] \in {"ensure", "fill", "commit"}
      <4>1. /\ Len(Runners[s]) \in Nat /\ DOMAIN Runners[s] = 1..Len(Runners[s]) /\ Len(Script(s)) = Len(Runners[s]) + 2
            /\ \A k \in 1..Len(Runners[s]) : Script(s)[k] = Runners[s][k]
        BY <2>1, PatchScript
      <4>2. i \in 1..Len(Runners[s])
        BY <2>3, <4>1
      <4>3. Runners[s][i] \in {"ensure", "fill", "commit"}
        BY <2>2, <4>2
      <4> QED
        BY <4>1, <4>2, <4>3
    <3> QED
      BY <1>4, <2>1, <2>3, <3>1
  <2>4. CASE i = Len(Runners[s]) + 1
    <3>1. Script(s)[i] = "record"
      BY <2>1, <2>4, PatchScript
    <3> QED
      BY <1>4, <2>1, <2>4, <3>1
  <2>5. CASE i = Len(Runners[s]) + 2
    <3>1. Script(s)[i] = "commit"
      BY <2>1, <2>5, PatchScript
    <3> QED
      BY <1>4, <2>1, <2>5, <3>1
  <2>6. i <= Len(Runners[s]) \/ i = Len(Runners[s]) + 1 \/ i = Len(Runners[s]) + 2
    <3>1. i \in 1..(Len(Runners[s]) + 2) /\ Len(Runners[s]) \in Nat
      BY <2>1, PatchScript
    <3> QED
      BY <3>1
  <2> QED
    BY <2>3, <2>4, <2>5, <2>6
<1> QED
  BY <1>1, <1>2, <1>3, <1>4, RunnersAre

LEMMA LeastExists ==
    ASSUME NEW T, T \subseteq Nat, T # {}
    PROVE  \E x \in T : \A y \in T : x <= y
<1>1. PICK x \in T : \A y \in T : ~ (<<y, x>> \in OpToRel(<, Nat))
  BY NatLessThanWellFounded, WFMin, Zenon
<1>2. \A y \in T : ~(y < x)
  BY <1>1 DEF OpToRel
<1>3. x \in Nat /\ \A y \in T : y \in Nat
  OBVIOUS
<1> QED
  BY <1>2, <1>3

\* The next patch of the release that is not recorded, or the guarantees.
LEMMA NextPatch ==
    ASSUME NEW s \in 0..33, NEW keys, known \in 0..33
    PROVE  /\ Following(s, keys) \in s + 1 .. 34
           /\ Following(s, keys) \in Patches => Following(s, keys) \notin keys
           /\ \A t \in 1..known : s < t /\ t < Following(s, keys) => t \in keys
<1> DEFINE T == Pending(s, keys)
<1>1. T = {t \in s + 1 .. known : t \notin keys}
  BY DEF Pending, Skipped
<1>2. CASE T = {}
  <2>1. Following(s, keys) = 34
    BY <1>2, RunnersAre DEF Following
  <2>2. \A t \in 1..known : s < t => t \in keys
    BY <1>1, <1>2
  <2> QED
    BY <2>1, <2>2, RunnersAre
<1>3. CASE T # {}
  <2>1. T \subseteq Nat /\ T \subseteq s + 1 .. 33
    BY <1>1
  <2>2. \E x \in T : \A y \in T : x <= y
    BY <1>3, <2>1, LeastExists
  <2>3. Following(s, keys) = Min(T)
    BY <1>3 DEF Following
  <2>4. Min(T) \in T /\ \A y \in T : Min(T) <= y
    BY <2>2 DEF Min
  <2> HIDE DEF T
  <2>5. Min(T) \in s + 1 .. 33 /\ Min(T) \notin keys
    BY <1>1, <2>4, <2>1
  <2>6. \A t \in 1..known : s < t /\ t < Min(T) => t \in keys
    <3> SUFFICES ASSUME NEW t \in 1..known, s < t, t < Min(T), t \notin keys PROVE FALSE
      OBVIOUS
    <3>1. t \in T
      BY <1>1
    <3> QED
      BY <2>4, <2>5, <3>1
  <2> QED
    BY <2>3, <2>5, <2>6
<1> QED
  BY <1>2, <1>3

\* How many of the things a patch makes its first k statements make.
EnsuresTo(s, k) == Cardinality({i \in 1..k : Script(s)[i] = "ensure"})

LEMMA Counts ==
    ASSUME NEW s \in Patches, NEW k \in 0..Len(Script(s))
    PROVE  /\ EnsuresTo(s, k) \in Nat
           /\ k <= Len(Runners[s]) => EnsuresTo(s, k) <= Ensures(s)
           /\ k = Len(Runners[s]) => EnsuresTo(s, k) = Ensures(s)
           /\ k > 0 => /\ EnsuresTo(s, k - 1) <= EnsuresTo(s, k)
                       /\ Script(s)[k] # "ensure" => EnsuresTo(s, k - 1) = EnsuresTo(s, k)
<1> DEFINE C(n) == {i \in 1..n : Script(s)[i] = "ensure"}
           R == {i \in DOMAIN Runners[s] : Runners[s][i] = "ensure"}
<1>1. Len(Runners[s]) \in Nat /\ Len(Script(s)) = Len(Runners[s]) + 2
  BY PatchScript
<1>2. \A n \in Nat : IsFiniteSet(C(n))
  <2> TAKE n \in Nat
  <2>1. IsFiniteSet(1..n)
    BY FS_Interval
  <2>2. C(n) \subseteq 1..n
    OBVIOUS
  <2> QED
    BY <2>1, <2>2, FS_Subset
<1>3. k \in Nat /\ EnsuresTo(s, k) = Cardinality(C(k)) /\ Ensures(s) = Cardinality(R)
  BY <1>1 DEF EnsuresTo, Ensures
<1>4. R = C(Len(Runners[s]))
  BY PatchScript
<1>5. EnsuresTo(s, k) \in Nat
  BY <1>2, <1>3, FS_CardinalityType
<1>6. ASSUME k <= Len(Runners[s]) PROVE EnsuresTo(s, k) <= Ensures(s)
  <2>1. C(k) \subseteq C(Len(Runners[s]))
    BY <1>1, <1>3, <1>6
  <2> QED
    BY <1>1, <1>2, <1>3, <1>4, <2>1, FS_Subset
<1>7. ASSUME k = Len(Runners[s]) PROVE EnsuresTo(s, k) = Ensures(s)
  BY <1>3, <1>4, <1>7
<1>8. ASSUME k > 0
      PROVE  /\ EnsuresTo(s, k - 1) <= EnsuresTo(s, k)
             /\ Script(s)[k] # "ensure" => EnsuresTo(s, k - 1) = EnsuresTo(s, k)
  <2>1. C(k - 1) \subseteq C(k) /\ k - 1 \in Nat
    BY <1>3, <1>8
  <2>2. EnsuresTo(s, k - 1) = Cardinality(C(k - 1))
    BY DEF EnsuresTo
  <2>3. EnsuresTo(s, k - 1) <= EnsuresTo(s, k)
    BY <1>2, <1>3, <2>1, <2>2, FS_Subset
  <2>4. ASSUME Script(s)[k] # "ensure" PROVE C(k - 1) = C(k)
    BY <1>3, <1>8, <2>4
  <2> QED
    BY <1>3, <2>2, <2>3, <2>4
<1> QED
  BY <1>5, <1>6, <1>7, <1>8

TableRows == [shape : {"old", "new"}, main : BOOLEAN, copy : {"none", "empty", "full"}, indexed : BOOLEAN]
OldTable == [shape |-> "old", main |-> TRUE, copy |-> "none", indexed |-> TRUE]
LeftTable == [shape |-> "old", main |-> TRUE, copy |-> "empty", indexed |-> TRUE]
FullTable == [shape |-> "old", main |-> TRUE, copy |-> "full", indexed |-> TRUE]
GoneTable == [shape |-> "old", main |-> FALSE, copy |-> "full", indexed |-> FALSE]
BareTable == [shape |-> "new", main |-> TRUE, copy |-> "none", indexed |-> FALSE]
NewTable == [shape |-> "new", main |-> TRUE, copy |-> "none", indexed |-> TRUE]

AccountRows == [hash : {"none", "legacy", "temporary", "chosen"}, initialized : BOOLEAN, enabled : BOOLEAN]
ScopeRows == [place : ScopePlaces, from : Nat, to : Nat]
Databases ==
    [made : [Patches -> Nat], keys : SUBSET Patches, filled : SUBSET Patches,
     table : [Rebuilt -> TableRows], account : [Accounts -> AccountRows], people : {"venue", "circle"},
     scopes : {T \in SUBSET ScopeRows : IsFiniteSet(T)}, granted : 0..33,
     kinds : SUBSET {"SAFETY", "RETIRED", "CUSTOM"}, policies : SUBSET {"CUSTOM"}, view : BOOLEAN,
     manages : BOOLEAN, ranked : BOOLEAN]

StartTypes ==
    /\ saved \in Databases /\ work \in Databases /\ inTx \in BOOLEAN
    /\ phase \in {"down", "starting", "failed", "serving"}
    /\ step \in 0..34 /\ at \in Nat \ {0} /\ applied \subseteq Patches /\ known \in 0..33
    /\ entered \subseteq Patches
    /\ ~inTx => work = saved
    /\ phase \in {"down", "serving"} => ~inTx

\* Where a start is tells which keys are recorded.
KeysSoFar ==
    /\ saved.keys \subseteq work.keys /\ entered \subseteq saved.keys
    /\ phase = "starting" =>
        /\ step \in 1..34 /\ at \in 1..Len(Script(step)) /\ applied \subseteq work.keys
        /\ work.keys \subseteq applied \cup 1..step
        /\ \A t \in 1..known : t < step => t \in work.keys
        /\ at = 1 => ~inTx
        /\ step \in Patches => (step \in work.keys <=> at = Len(Script(step)))

\* What a database has whose key of a patch is recorded.
Finished(w, s) == w.made[s] = Ensures(s) /\ (s \in Filling => s \in w.filled)
Full(w) == (\A s \in Patches : w.made[s] <= Ensures(s)) /\ (\A s \in w.keys : Finished(w, s))
\* How far a patch is when a start is at its nth statement.
Behind(s, n, w) == EnsuresTo(s, n - 1) <= w.made[s] /\ \A i \in 1..n - 1 : Script(s)[i] = "fill" => s \in w.filled
MadeSoFar ==
    /\ Full(saved) /\ Full(work)
    /\ phase = "starting" /\ step \in Patches => Behind(step, at, work)

\* How far the rebuilds of the two tables are.
Settled(w) ==
    /\ w.table[17] \in {OldTable, BareTable, NewTable} /\ w.table[19] \in {OldTable, LeftTable, NewTable}
    /\ \A t \in Rebuilt : t \in w.keys => w.table[t] = NewTable
LeavesAt(n, table) ==
    CASE n <= 5 -> table \in {OldTable, BareTable, NewTable}
      [] n \in 6..8 -> table = OldTable
      [] n = 9 -> table = LeftTable
      [] n = 10 -> table = FullTable
      [] n = 11 -> table = GoneTable
      [] n = 12 -> table = BareTable
      [] n = 13 -> table \in {BareTable, NewTable}
      [] OTHER -> table = NewTable
EvidenceAt(n, table) ==
    CASE n = 1 -> table \in {OldTable, LeftTable, NewTable}
      [] n = 2 -> table \in {OldTable, LeftTable}
      [] n = 3 -> table = LeftTable
      [] n = 4 -> table = FullTable
      [] n = 5 -> table = GoneTable
      [] n = 6 -> table = BareTable
      [] OTHER -> table = NewTable
TablesSoFar ==
    /\ Settled(saved)
    /\ ~(phase = "starting" /\ step \in Rebuilt) => Settled(work)
    /\ phase = "starting" /\ step = 17 =>
        /\ LeavesAt(at, work.table[17]) /\ (at \in 5..6 => ~inTx) /\ (at \in 7..12 => inTx)
        /\ work.table[19] \in {OldTable, LeftTable, NewTable} /\ (19 \in work.keys => work.table[19] = NewTable)
    /\ phase = "starting" /\ step = 19 =>
        /\ EvidenceAt(at, work.table[19]) /\ (at \in 2..3 => ~inTx) /\ (at \in 4..6 => inTx)
        /\ work.table[17] \in {OldTable, BareTable, NewTable} /\ (17 \in work.keys => work.table[17] = NewTable)
    /\ phase = "failed" => saved.table[19] = LeftTable

\* What the guarantees have established.
OpeningSoFar ==
    /\ phase = "starting" /\ step = 34 =>
        /\ at >= 2 => work.people = "circle"
        /\ at >= 4 => work.granted = known
        /\ at = 19 => ~inTx
        /\ at >= 17 => work.view
    /\ phase = "serving" =>
        /\ 1..known \subseteq saved.keys /\ saved.granted = known /\ saved.view /\ saved.people = "circle"

\* What people entered is on disk and in the start's session alike.
Held(w) ==
    /\ \A a \in Accounts : w.account[a].hash = "chosen" => w.account[a].initialized
    /\ w.policies \subseteq w.kinds
EntriesSoFar ==
    /\ Held(saved) /\ Held(work)
    /\ work.policies = saved.policies
    /\ \A a \in Accounts : work.account[a].hash = "chosen" => saved.account[a].hash = "chosen"
    /\ Past(work) = Past(saved)

\* What the start has established on its way through the guarantees.
FitsOffice(w) ==
    /\ \A s \in ScopesInForce(w.scopes) : w.manages /\ s.place = "circle" /\ s.to = Open
    /\ w.manages => \E s \in w.scopes : ScopesInForce(w.scopes) = {s}
Guaranteed(n, w) ==
    /\ n >= 6 => FitsOffice(w)
    /\ n >= 8 => ~w.account["TEST"].enabled
    /\ n >= 10 => w.account["HR01"].enabled
    /\ n >= 14 => w.ranked
    /\ n >= 18 => w.account["SCREEN"].hash # "none"
GuaranteedSoFar == phase = "starting" /\ step = 34 => Guaranteed(at, work)

StartInv == StartTypes /\ KeysSoFar /\ MadeSoFar /\ TablesSoFar /\ OpeningSoFar /\ EntriesSoFar /\ GuaranteedSoFar

-----------------------------------------------------------------------------
(* The statements. *)

\* A statement other than a record or a commit, with what it writes.
Writing ==
    /\ Onward /\ work'.keys = work.keys
    /\ \/ (inTx' = inTx /\ saved' = IF inTx THEN saved ELSE work')
       \/ (inTx' = TRUE /\ saved' = saved)
Failing == phase' = "failed" /\ Stays /\ UNCHANGED <<step, at, applied, known, stops, edits>>

LEMMA Typed ==
    ASSUME StartTypes
    PROVE  /\ work.table \in [Rebuilt -> TableRows] /\ work.account \in [Accounts -> AccountRows]
           /\ work.made \in [Patches -> Nat] /\ work.keys \subseteq Patches /\ work.filled \subseteq Patches
           /\ saved.table \in [Rebuilt -> TableRows] /\ saved.account \in [Accounts -> AccountRows]
           /\ saved.made \in [Patches -> Nat] /\ saved.keys \subseteq Patches /\ saved.filled \subseteq Patches
BY DEF StartTypes, Databases

\* What a step of a start is.
LEMMA Statements ==
    ASSUME StartTypes, KeysSoFar, phase = "starting", Run
    PROVE  \/ Failing \/ Commit \/ Record \/ Unless \/ Begin \/ Serve
           \/ (Ensure \/ Fill) /\ Writing
           \/ (Clear \/ CreateCopy \/ CopyRows \/ DropOld \/ RenameCopy \/ Index) /\ Writing
           \/ (Catalog \/ Reference \/ ScopeSync \/ Demo \/ Admin \/ Hr \/ Ranks \/ DropView \/ MakeView \/ Rotation) /\ Writing
<1> USE DEF Writing, Failing, Alters, Defines, StartTypes, Databases
<1>1. ASSUME Ensure PROVE Failing \/ Writing
  <2>1. CASE Missing(Rank) /\ work.made[step] >= Rank
    BY <1>1, <2>1 DEF Ensure
  <2>2. CASE Missing(Rank) /\ ~(work.made[step] >= Rank)
    BY <1>1, <2>2 DEF Ensure
  <2>3. CASE ~Missing(Rank)
    <3>1. Onward /\ saved' = saved /\ work' = work /\ inTx' = inTx
      BY <1>1, <2>3 DEF Ensure
    <3> QED
      BY <3>1
  <2> QED
    BY <2>1, <2>2, <2>3
<1>2. ASSUME Fill PROVE Writing
  BY <1>2 DEF Fill
<1>3. ASSUME Clear PROVE Writing
  BY <1>3 DEF Clear
<1>4. ASSUME CreateCopy PROVE Failing \/ Writing
  BY <1>4 DEF CreateCopy
<1>5. ASSUME CopyRows PROVE Writing
  BY <1>5 DEF CopyRows
<1>6. ASSUME DropOld PROVE Writing
  BY <1>6 DEF DropOld
<1>7. ASSUME RenameCopy PROVE Writing
  BY <1>7 DEF RenameCopy
<1>8. ASSUME Index PROVE Writing
  BY <1>8 DEF Index
<1>9. ASSUME Catalog \/ Reference \/ ScopeSync \/ Demo \/ Admin \/ Hr \/ Ranks \/ Rotation PROVE Writing
  BY <1>9 DEF Catalog, Reference, ScopeSync, Demo, Admin, Hr, Ranks, Rotation
<1>10. ASSUME DropView \/ MakeView PROVE Writing
  BY <1>10 DEF DropView, MakeView
<1>11. ~BeginStart
  BY DEF BeginStart
<1> QED
  BY <1>1, <1>2, <1>3, <1>4, <1>5, <1>6, <1>7, <1>8, <1>9, <1>10, <1>11 DEF Run

\* Where a start goes from a statement.
LEMMA Advances ==
    ASSUME StartTypes, KeysSoFar, phase = "starting", Onward, Script(step)[at] # "serve"
    PROVE  /\ phase' = "starting" /\ applied' = applied /\ known' = known
           /\ \/ at < Len(Script(step)) /\ at' = at + 1 /\ step' = step
              \/ /\ step \in Patches /\ at = Len(Script(step)) /\ Script(step)[at] = "commit"
                 /\ at' = 1 /\ step' \in step + 1 .. 34 /\ (step' \in Patches => step' \notin applied)
                 /\ \A t \in 1..known : step < t /\ t < step' => t \in applied
<1>1. step \in 1..34 /\ at \in 1..Len(Script(step)) /\ known \in 0..33
  BY DEF KeysSoFar, StartTypes
<1>2. phase' = "starting" /\ applied' = applied /\ known' = known
  BY DEF Onward
<1>3. CASE at < Len(Script(step))
  BY <1>2, <1>3 DEF Onward
<1>4. CASE ~(at < Len(Script(step)))
  <2>1. Len(Script(step)) \in Nat
    <3>1. CASE step = 34
      BY <3>1, Scripts, RunnersAre DEF Guarantees
    <3>2. CASE step \in Patches
      BY <3>2, PatchScript
    <3> QED
      BY <1>1, <3>1, <3>2, RunnersAre
  <2>2. at = Len(Script(step))
    BY <1>1, <1>4, <2>1
  <2>3. step \in Patches
    <3> SUFFICES ASSUME step = 34 PROVE FALSE
      BY <1>1, RunnersAre
    <3>1. Script(step) = Guarantees
      BY Scripts, RunnersAre
    <3>2. Len(Guarantees) = 19 /\ Guarantees[19] = "serve"
      BY DEF Guarantees
    <3> QED
      BY <2>2, <3>1, <3>2
  <2>4. Script(step)[at] = "commit"
    BY <2>2, <2>3, PatchScript
  <2>5. at' = 1 /\ step' = Following(step, applied)
    BY <1>4 DEF Onward
  <2>6. step \in 0..33
    BY <2>3, RunnersAre
  <2> QED
    BY <1>1, <1>2, <2>2, <2>3, <2>4, <2>5, <2>6, NextPatch
<1> QED
  BY <1>3, <1>4

LEMMA ScriptLengths ==
    ASSUME NEW s \in 1..34
    PROVE  Len(Script(s)) \in Nat /\ 1 \in 1..Len(Script(s)) /\ 1 # Len(Script(s))
<1>1. CASE s = 34
  <2>1. Script(s) = Guarantees
    BY <1>1, Scripts, RunnersAre
  <2> QED
    BY <2>1 DEF Guarantees
<1>2. CASE s \in Patches
  <2>1. Len(Runners[s]) \in Nat /\ Len(Script(s)) = Len(Runners[s]) + 2
    BY <1>2, PatchScript
  <2> QED
    BY <2>1
<1> QED
  BY <1>1, <1>2, RunnersAre

LEMMA AdvancedKeys ==
    ASSUME StartTypes, KeysSoFar, phase = "starting", Onward, Script(step)[at] # "serve",
           entered' = entered, saved'.keys \subseteq work'.keys, saved.keys \subseteq saved'.keys,
           \/ work'.keys = work.keys /\ Script(step)[at] # "record"
           \/ work'.keys = work.keys \cup {step} /\ Script(step)[at] = "record",
           Script(step)[at] = "commit" => ~inTx'
    PROVE  KeysSoFar'
<1>1. /\ step \in 1..34 /\ at \in 1..Len(Script(step)) /\ known \in 0..33 /\ applied \subseteq work.keys
      /\ work.keys \subseteq applied \cup 1..step
      /\ \A t \in 1..known : t < step => t \in work.keys
      /\ step \in Patches => (step \in work.keys <=> at = Len(Script(step)))
      /\ saved.keys \subseteq work.keys /\ entered \subseteq saved.keys
  BY DEF KeysSoFar, StartTypes
<1>2. /\ phase' = "starting" /\ applied' = applied /\ known' = known
      /\ \/ at < Len(Script(step)) /\ at' = at + 1 /\ step' = step
         \/ /\ step \in Patches /\ at = Len(Script(step)) /\ Script(step)[at] = "commit"
            /\ at' = 1 /\ step' \in step + 1 .. 34 /\ (step' \in Patches => step' \notin applied)
            /\ \A t \in 1..known : step < t /\ t < step' => t \in applied
  BY Advances
<1>3. Len(Script(step)) \in Nat
  BY <1>1, ScriptLengths
<1>4. step \in Patches => (Script(step)[at] = "record" <=> at = Len(Script(step)) - 1)
  <2> SUFFICES ASSUME step \in Patches PROVE Script(step)[at] = "record" <=> at = Len(Script(step)) - 1
    OBVIOUS
  <2>1. /\ Len(Runners[step]) \in Nat /\ Len(Script(step)) = Len(Runners[step]) + 2
        /\ Script(step)[Len(Runners[step]) + 1] = "record"
    BY PatchScript
  <2>2. Script(step)[at] = "record" => at = Len(Runners[step]) + 1
    BY <1>1, PlaceOf, RunnersAre
  <2> QED
    BY <2>1, <2>2
<1>5. CASE at < Len(Script(step)) /\ at' = at + 1 /\ step' = step
  <2>1. at' \in 1..Len(Script(step')) /\ at' # 1
    BY <1>1, <1>3, <1>5
  <2>2. step \in Patches => (step \in work'.keys <=> at' = Len(Script(step)))
    BY <1>1, <1>3, <1>4, <1>5
  <2>3. work'.keys \subseteq applied \cup 1..step /\ work.keys \subseteq work'.keys
    BY <1>1
  <2> QED
    BY <1>1, <1>2, <1>5, <2>1, <2>2, <2>3 DEF KeysSoFar
<1>6. CASE /\ step \in Patches /\ at = Len(Script(step)) /\ Script(step)[at] = "commit"
           /\ at' = 1 /\ step' \in step + 1 .. 34 /\ (step' \in Patches => step' \notin applied)
           /\ \A t \in 1..known : step < t /\ t < step' => t \in applied
  <2>7. step' \in 1..34
    <3>1. step \in 1..34
      BY <1>1
    <3>2. step' \in step + 1 .. 34
      BY <1>6
    <3> QED
      BY <3>1, <3>2
  <2>1. \A s \in 1..34 : 1 \in 1..Len(Script(s)) /\ 1 # Len(Script(s))
    BY ScriptLengths
  <2>2. at' \in 1..Len(Script(step')) /\ at' # Len(Script(step')) /\ ~inTx'
    <3>1. at' = 1 /\ ~inTx'
      BY <1>6
    <3> QED
      BY <2>1, <2>7, <3>1
  <2>3. work'.keys = work.keys /\ step \in work.keys
    BY <1>1, <1>6
  <2>4. step' \in Patches => step' \notin work.keys
    BY <1>1, <1>6
  <2>5. \A t \in 1..known : t < step' => t \in work.keys
    <3> TAKE t \in 1..known
    <3> SUFFICES ASSUME t < step' PROVE t \in work.keys
      OBVIOUS
    <3>1. t \in Int /\ step \in Int
      BY <1>1
    <3>2. CASE t < step
      BY <1>1, <3>2
    <3>3. CASE t = step
      BY <2>3, <3>3
    <3>4. CASE step < t
      BY <1>1, <1>6, <3>4
    <3> QED
      BY <3>1, <3>2, <3>3, <3>4
  <2>6. work.keys \subseteq applied \cup 1..step'
    <3>1. step \in 1..34 /\ step' \in step + 1 .. 34
      BY <1>1, <1>6
    <3>2. 1..step \subseteq 1..step'
      BY <3>1
    <3>3. work.keys \subseteq applied \cup 1..step
      BY <1>1
    <3> QED
      BY <3>2, <3>3
  <2>8. saved'.keys \subseteq work'.keys /\ entered' \subseteq saved'.keys
    BY <1>1
  <2>9. applied' = applied /\ applied \subseteq work.keys /\ known' = known /\ phase' = "starting"
    BY <1>1, <1>2
  <2>10. step' \in Patches => (step' \in work'.keys <=> at' = Len(Script(step')))
    BY <2>2, <2>3, <2>4
  <2>11. work'.keys \subseteq applied' \cup 1..step'
    BY <2>3, <2>6, <2>9
  <2>12. \A t \in 1..known' : t < step' => t \in work'.keys
    BY <2>3, <2>5, <2>9
  <2> QED
    BY <2>2, <2>3, <2>7, <2>8, <2>9, <2>10, <2>11, <2>12 DEF KeysSoFar
<1> QED
  BY <1>2, <1>5, <1>6

\* The place a statement of a start is at.
LEMMA AtPlace ==
    ASSUME StartTypes, KeysSoFar, phase = "starting"
    PROVE  step \in 1..Finally /\ at \in 1..Len(Script(step))
BY RunnersAre DEF KeysSoFar

LEMMA KeysKept ==
    ASSUME StartTypes, KeysSoFar, StartNext
    PROVE  KeysSoFar'
<1>1. ASSUME BeginStart PROVE KeysSoFar'
  <2>1. /\ phase' = "starting" /\ applied' = work.keys /\ at' = 1 /\ step' = Following(0, work.keys)
        /\ saved' = saved /\ work' = work /\ inTx' = inTx /\ entered' = entered /\ known' = known /\ phase = "down"
    BY <1>1 DEF BeginStart, Stays
  <2>2. known \in 0..33 /\ ~inTx /\ saved.keys \subseteq work.keys /\ entered \subseteq saved.keys
    BY <2>1 DEF StartTypes, KeysSoFar
  <2>3. /\ step' \in 1..34 /\ (step' \in Patches => step' \notin work.keys)
        /\ \A t \in 1..known : t < step' => t \in work.keys
    <3>1. /\ Following(0, work.keys) \in 0 + 1 .. 34
          /\ Following(0, work.keys) \in Patches => Following(0, work.keys) \notin work.keys
          /\ \A t \in 1..known : 0 < t /\ t < Following(0, work.keys) => t \in work.keys
      BY <2>2, NextPatch
    <3>2. \A t \in 1..known : 0 < t
      BY <2>2
    <3> QED
      BY <2>1, <3>1, <3>2
  <2>4. at' \in 1..Len(Script(step')) /\ at' # Len(Script(step'))
    BY <2>1, <2>3, ScriptLengths
  <2> QED
    BY <2>1, <2>2, <2>3, <2>4 DEF KeysSoFar
<1>2. ASSUME Failing PROVE KeysSoFar'
  BY <1>2 DEF Failing, Stays, KeysSoFar
<1>3. ASSUME phase = "starting", Commit PROVE KeysSoFar'
  BY <1>3, AdvancedKeys DEF Commit, Doing, KeysSoFar
<1>4. ASSUME phase = "starting", Record PROVE KeysSoFar'
  <2>1. /\ Script(step)[at] = "record" /\ work' = [work EXCEPT !.keys = @ \cup {step}] /\ saved' = saved
        /\ Onward /\ entered' = entered
    BY <1>4 DEF Record, Doing, Alters
  <2>2. work'.keys = work.keys \cup {step}
    BY <2>1 DEF StartTypes, Databases
  <2> QED
    BY <1>4, <2>1, <2>2, AdvancedKeys DEF KeysSoFar
<1>5. ASSUME phase = "starting", Unless PROVE KeysSoFar'
  <2>1. /\ Script(step)[at] = "unlessNew" /\ phase' = phase /\ step' = step /\ applied' = applied /\ known' = known
        /\ saved' = saved /\ work' = work /\ entered' = entered
        /\ at' = IF work.table[step].shape = "new" THEN PastRebuild ELSE at + 1
    BY <1>5 DEF Unless, Doing, Stays
  <2>2. (step = 17 /\ at = 5) \/ (step = 19 /\ at = 1)
    BY <1>5, <2>1, AtPlace, PlaceOf
  <2>3. CASE step = 17
    <3>1. PastRebuild = 13
      <4>1. Script(step)[13] = "index" /\ 13 \in DOMAIN Script(step)
        BY <2>3, Scripts
      <4>2. \A i \in DOMAIN Script(step) : Script(step)[i] = "index" => i = 13
        <5>1. DOMAIN Script(step) = 1..Len(Script(step)) /\ step \in 1..Finally
          BY <2>3, Scripts, RunnersAre
        <5> QED
          BY <2>3, <5>1, PlaceOf
      <4> QED
        BY <2>3, <4>1, <4>2 DEF PastRebuild, Ahead, Leaves
    <3>2. at' \in {6, 13} /\ Len(Script(step)) = 16 /\ step \in Patches /\ at # 16
      BY <2>1, <2>2, <2>3, <3>1, Scripts, RunnersAre
    <3>3. at' \in 1..Len(Script(step')) /\ at' # 1 /\ at' # Len(Script(step')) /\ step \notin work.keys
      BY <1>5, <2>1, <3>2 DEF KeysSoFar
    <3> QED
      BY <1>5, <2>1, <3>3 DEF KeysSoFar
  <2>4. CASE step = 19
    <3>1. PastRebuild = 7
      BY <2>4, Scripts DEF PastRebuild, Leaves, Evidence
    <3>2. at' \in {2, 7} /\ Len(Script(step)) = 8 /\ step \in Patches /\ at # 8
      BY <2>1, <2>2, <2>4, <3>1, Scripts, RunnersAre
    <3>3. at' \in 1..Len(Script(step')) /\ at' # 1 /\ at' # Len(Script(step')) /\ step \notin work.keys
      BY <1>5, <2>1, <3>2 DEF KeysSoFar
    <3> QED
      BY <1>5, <2>1, <3>3 DEF KeysSoFar
  <2> QED
    BY <2>2, <2>3, <2>4
<1>6. ASSUME phase = "starting", Begin PROVE KeysSoFar'
  BY <1>6, AdvancedKeys DEF Begin, Doing, KeysSoFar
<1>7. ASSUME Serve PROVE KeysSoFar'
  BY <1>7 DEF Serve, Stays, KeysSoFar
<1>8. ASSUME phase = "starting", Writing, entered' = entered, Script(step)[at] \notin {"record", "commit", "serve"}
      PROVE  KeysSoFar'
  <2>1. saved'.keys \subseteq work'.keys /\ saved.keys \subseteq saved'.keys
    BY <1>8 DEF Writing, KeysSoFar, StartTypes
  <2> QED
    BY <1>8, <2>1, AdvancedKeys DEF Writing
<1>9. ASSUME phase = "starting", Writing,
             \/ Ensure \/ Fill
             \/ Clear \/ CreateCopy \/ CopyRows \/ DropOld \/ RenameCopy \/ Index
             \/ Catalog \/ Reference \/ ScopeSync \/ Demo \/ Admin \/ Hr \/ Ranks \/ DropView \/ MakeView \/ Rotation
      PROVE  KeysSoFar'
  <2>1. ASSUME Ensure \/ Fill \/ Clear \/ CreateCopy \/ CopyRows \/ DropOld \/ RenameCopy \/ Index
        PROVE  entered' = entered /\ Script(step)[at] \notin {"record", "commit", "serve"}
    BY <2>1 DEF Ensure, Fill, Clear, CreateCopy, CopyRows, DropOld, RenameCopy, Index, Doing, Stays
  <2>2. ASSUME Catalog \/ Reference \/ ScopeSync \/ Demo \/ Admin \/ Hr \/ Ranks \/ DropView \/ MakeView \/ Rotation
        PROVE  entered' = entered /\ Script(step)[at] \notin {"record", "commit", "serve"}
    BY <2>2 DEF Catalog, Reference, ScopeSync, Demo, Admin, Hr, Ranks, DropView, MakeView, Rotation, Doing
  <2> QED
    BY <1>8, <1>9, <2>1, <2>2
<1>10. ASSUME Run PROVE KeysSoFar'
  <2>1. CASE phase = "starting"
    BY <1>2, <1>3, <1>4, <1>5, <1>6, <1>7, <1>9, <1>10, <2>1, Statements
  <2>2. CASE phase # "starting"
    <3>1. BeginStart
      BY <1>10, <2>2 DEF Run, Ensure, Fill, Commit, Record, Unless, Begin, Clear, CreateCopy, CopyRows, DropOld,
            RenameCopy, Index, Catalog, Reference, ScopeSync, Demo, Admin, Hr, Ranks, DropView, MakeView, Rotation, Serve, Doing
    <3> QED
      BY <1>1, <3>1
  <2> QED
    BY <2>1, <2>2
<1>11. ASSUME NEW w, Edits(w), w.keys = saved.keys, entered' \subseteq saved.keys PROVE KeysSoFar'
  BY <1>11 DEF Edits, KeysSoFar
<1>12. ASSUME NEW s \in LaterRows, Enter(s) PROVE KeysSoFar'
  BY <1>11, <1>12 DEF Enter, KeysSoFar
<1>13. ASSUME NEW a \in Accounts, ChangePassword(a) \/ Disable(a) PROVE KeysSoFar'
  BY <1>11, <1>13 DEF ChangePassword, Disable, KeysSoFar, StartTypes, Databases
<1>14. ASSUME ResetHr \/ AddKind PROVE KeysSoFar'
  BY <1>11, <1>14 DEF ResetHr, AddKind, KeysSoFar, StartTypes, Databases
<1>15. ASSUME NEW release, Halt(release) PROVE KeysSoFar'
  BY <1>15 DEF Halt, KeysSoFar
<1>16. ASSUME OfficeTurns \/ \E m \in BOOLEAN : Appoint(m) PROVE KeysSoFar'
  BY <1>11, <1>16 DEF OfficeTurns, Appoint, KeysSoFar, StartTypes, Databases
<1> QED
  BY <1>10, <1>12, <1>13, <1>14, <1>15, <1>16 DEF StartNext

LEMMA GreatestExists ==
    ASSUME NEW T, T \subseteq Nat, T # {}, IsFiniteSet(T)
    PROVE  \E x \in T : \A y \in T : x >= y
<1> DEFINE Bad == {n \in Nat : \E S : /\ S \subseteq Nat /\ S # {} /\ IsFiniteSet(S) /\ Cardinality(S) = n
                                      /\ ~ \E x \in S : \A y \in S : x >= y}
<1> SUFFICES ASSUME ~ \E x \in T : \A y \in T : x >= y PROVE FALSE
  OBVIOUS
<1>1. Cardinality(T) \in Bad
  BY FS_CardinalityType
<1>2. PICK n \in Bad : \A k \in Bad : n <= k
  <2>1. Bad \subseteq Nat /\ Bad # {}
    BY <1>1
  <2> HIDE DEF Bad
  <2> QED
    BY <2>1, LeastExists
<1>3. PICK S : /\ S \subseteq Nat /\ S # {} /\ IsFiniteSet(S) /\ Cardinality(S) = n
               /\ ~ \E x \in S : \A y \in S : x >= y
  BY <1>2
<1>4. PICK x \in S : TRUE
  BY <1>3
<1> DEFINE R == S \ {x}
<1>5. R \subseteq Nat /\ IsFiniteSet(R) /\ Cardinality(R) = n - 1
  BY <1>3, <1>4, FS_RemoveElement
<1>6. R # {}
  <2> SUFFICES ASSUME R = {} PROVE FALSE
    OBVIOUS
  <2>1. \A y \in S : y = x
    OBVIOUS
  <2> QED
    BY <1>3, <1>4, <2>1
<1>7. \E m \in R : \A y \in R : m >= y
  <2> SUFFICES ASSUME ~ \E m \in R : \A y \in R : m >= y PROVE FALSE
    OBVIOUS
  <2>1. n - 1 \in Nat
    BY <1>5, FS_CardinalityType
  <2>2. n - 1 \in Bad
    BY <1>5, <1>6, <2>1
  <2>3. n \in Nat /\ n <= n - 1
    BY <1>2, <2>2
  <2> QED
    BY <2>3
<1>8. PICK m \in R : \A y \in R : m >= y
  BY <1>7
<1>9. m \in Nat /\ x \in Nat /\ m \in S /\ \A y \in S : y = x \/ y \in R
  BY <1>3, <1>4, <1>5, <1>8
<1>10. CASE x >= m
  <2>1. \A y \in S : x >= y
    BY <1>5, <1>8, <1>9, <1>10
  <2> QED
    BY <1>3, <1>4, <2>1
<1>11. CASE ~(x >= m)
  <2>1. \A y \in S : m >= y
    BY <1>8, <1>9, <1>11
  <2> QED
    BY <1>3, <1>9, <2>1
<1> QED
  BY <1>10, <1>11

LEMMA FiniteImage ==
    ASSUME NEW S, IsFiniteSet(S), NEW f, f \in [S -> {f[x] : x \in S}]
    PROVE  IsFiniteSet({f[x] : x \in S})
<1>1. f \in Surjection(S, {f[x] : x \in S})
  BY DEF Surjection
<1> QED
  BY <1>1, FS_Surjection

\* A scope of the circle, or of another place, that lasts over a day.
Covers(T, far, n) == \E s \in T : far = (s.place = "other") /\ n \in s.from..s.to

\* Scopes that become scopes of their circle cover the days they covered.
LEMMA MergedCovers ==
    ASSUME NEW T \in SUBSET ScopeRows, IsFiniteSet(T)
    PROVE  /\ Merged(T) \in SUBSET ScopeRows /\ IsFiniteSet(Merged(T))
           /\ \A far, n : Covers(Merged(T), far, n) <=> Covers(T, far, n)
<1> DEFINE near == {s \in T : s.place # "other"}
           Same(d) == {r \in near : r.from = d}
           Ends(d) == {s.to : s \in Same(d)}
           Row(d) == [place |-> "circle", from |-> d, to |-> Max(Ends(d))]
           Firsts == {s.from : s \in near}
           new == {Row(d) : d \in Firsts}
<1>1. Merged(T) = (T \ near) \cup new
  BY DEF Merged
<1>2. ASSUME NEW d \in Firsts
      PROVE  Max(Ends(d)) \in Ends(d) /\ Max(Ends(d)) \in Nat /\ \A n \in Ends(d) : Max(Ends(d)) >= n
  <2>1. Same(d) # {} /\ IsFiniteSet(Same(d)) /\ Same(d) \subseteq ScopeRows
    BY FS_Subset
  <2>2. Ends(d) # {} /\ Ends(d) \subseteq Nat
    BY <2>1 DEF ScopeRows
  <2>3. IsFiniteSet(Ends(d))
    <3> DEFINE f == [s \in Same(d) |-> s.to]
    <3>1. {f[s] : s \in Same(d)} = Ends(d)
      OBVIOUS
    <3>2. f \in [Same(d) -> {f[s] : s \in Same(d)}]
      OBVIOUS
    <3> HIDE DEF f
    <3>3. IsFiniteSet({f[s] : s \in Same(d)})
      BY <2>1, <3>2, FiniteImage
    <3> QED
      BY <3>1, <3>3
  <2> HIDE DEF Ends
  <2>4. \E x \in Ends(d) : \A y \in Ends(d) : x >= y
    BY <2>2, <2>3, GreatestExists
  <2> QED
    BY <2>2, <2>4 DEF Max
<1>3. Firsts \subseteq Nat
  BY DEF ScopeRows
<1>4. Merged(T) \in SUBSET ScopeRows
  <2>1. \A d \in Firsts : Row(d) \in ScopeRows
    BY <1>2, <1>3 DEF ScopeRows, ScopePlaces
  <2> QED
    BY <1>1, <2>1
<1>5. IsFiniteSet(Merged(T))
  <2> DEFINE f == [s \in near |-> Row(s.from)]
  <2>1. {f[s] : s \in near} = new
    OBVIOUS
  <2>2. f \in [near -> {f[s] : s \in near}]
    OBVIOUS
  <2>3. IsFiniteSet(near) /\ IsFiniteSet(T \ near)
    BY FS_Subset
  <2> HIDE DEF f, near, new
  <2>4. IsFiniteSet({f[s] : s \in near})
    BY <2>2, <2>3, FiniteImage
  <2>5. IsFiniteSet(new)
    BY <2>1, <2>4
  <2> QED
    BY <1>1, <2>3, <2>5, FS_Union
<1>6. ASSUME NEW n, NEW s \in new, n \in s.from..s.to PROVE s.place = "circle" /\ \E r \in near : n \in r.from..r.to
  <2>1. PICK d \in Firsts : s = Row(d)
    BY <1>6
  <2>2. PICK r \in near : r.from = d /\ r.to = Max(Ends(d))
    BY <1>2
  <2>3. s.place = "circle" /\ s.from = d /\ s.to = Max(Ends(d))
    BY <2>1
  <2> QED
    BY <1>6, <2>2, <2>3
<1>7. ASSUME NEW n, NEW r \in near, n \in r.from..r.to PROVE \E s \in new : s.place = "circle" /\ n \in s.from..s.to
  <2>1. r.from \in Firsts /\ r.to \in Ends(r.from) /\ r.from \in Nat /\ r.to \in Nat
    BY DEF ScopeRows
  <2>2. Max(Ends(r.from)) >= r.to /\ Max(Ends(r.from)) \in Nat
    BY <1>2, <2>1
  <2>3. Row(r.from) \in new
    BY <2>1
  <2>4. Row(r.from).place = "circle" /\ Row(r.from).from = r.from /\ Row(r.from).to = Max(Ends(r.from))
    OBVIOUS
  <2> HIDE DEF Row, new
  <2>5. n \in Row(r.from).from..Row(r.from).to
    BY <1>7, <2>1, <2>2, <2>4
  <2> QED
    BY <2>3, <2>4, <2>5
<1>8. ASSUME NEW far, NEW n PROVE Covers(Merged(T), far, n) <=> Covers(T, far, n)
  <2>1. \A s \in near : s \in T /\ s.place # "other"
    OBVIOUS
  <2>2. \A s \in T : s \in near \/ s \in T \ near
    OBVIOUS
  <2> HIDE DEF near, new
  <2>3. ASSUME NEW s \in Merged(T), far = (s.place = "other"), n \in s.from..s.to PROVE Covers(T, far, n)
    <3>1. CASE s \in new
      <4>1. s.place = "circle" /\ \E r \in near : n \in r.from..r.to
        BY <1>6, <2>3, <3>1
      <4> QED BY <2>1, <2>3, <4>1 DEF Covers
    <3>2. CASE s \in T \ near
      BY <2>3, <3>2 DEF Covers
    <3> QED BY <1>1, <3>1, <3>2
  <2>4. ASSUME NEW s \in T, far = (s.place = "other"), n \in s.from..s.to PROVE Covers(Merged(T), far, n)
    <3>1. CASE s \in near
      <4>1. PICK r \in new : r.place = "circle" /\ n \in r.from..r.to
        BY <1>7, <2>4, <3>1
      <4> QED BY <1>1, <2>1, <2>4, <3>1, <4>1 DEF Covers
    <3>2. CASE s \in T \ near
      BY <1>1, <2>4, <3>2 DEF Covers
    <3> QED BY <2>2, <3>1, <3>2
  <2> QED BY <2>3, <2>4 DEF Covers
<1> QED
  BY <1>4, <1>5, <1>8

\* After the sync whoever manages the circle, and nobody else, has one scope in
\* force; no day before today has changed.
LEMMA SyncedFits ==
    ASSUME NEW T \in SUBSET ScopeRows, IsFiniteSet(T), NEW manages \in BOOLEAN
    PROVE  /\ SyncedScopes(T, manages) \in SUBSET ScopeRows /\ IsFiniteSet(SyncedScopes(T, manages))
           /\ \A s \in ScopesInForce(SyncedScopes(T, manages)) : manages /\ s.place = "circle" /\ s.to = Open
           /\ manages => \E s \in SyncedScopes(T, manages) : ScopesInForce(SyncedScopes(T, manages)) = {s}
           /\ \A far, n : n \in 0..Today - 1 => (Covers(SyncedScopes(T, manages), far, n) <=> Covers(T, far, n))
<1> DEFINE own == {s \in ScopesInForce(T) : manages /\ s.place = "circle"}
           kept == StillManaged(T, manages)
           ended == {s \in ScopesInForce(T) \ kept : s.from < Today}
           first == [place |-> "circle", from |-> Today, to |-> Open]
           now == IF manages /\ kept = {} THEN {first} ELSE {[s EXCEPT !.to = Open] : s \in kept}
           past == {[s EXCEPT !.to = Today - 1] : s \in ended}
           rest == T \ ScopesInForce(T)
<1>0. Today \in Nat /\ Today # 0 /\ Open \in Nat /\ Today <= Open /\ Today - 1 \in Nat
  BY StartAssumption
<1>1. SyncedScopes(T, manages) = rest \cup past \cup now
  BY DEF SyncedScopes
<1>2. \A s \in T : s.place \in ScopePlaces /\ s.from \in Nat /\ s.to \in Nat
  BY DEF ScopeRows
<1>3. \A s \in T : s \in ScopesInForce(T) <=> s.from <= Today /\ Today <= s.to
  BY DEF ScopesInForce
<1>4. kept = {} \/ \E k \in own : kept = {k}
  <2>1. CASE own = {}
    BY <2>1 DEF StillManaged
  <2>2. CASE own # {}
    <3> DEFINE k == CHOOSE s \in own : \A r \in own : r.from <= s.from
               froms == {s.from : s \in own}
               f == [s \in own |-> s.from]
    <3>1. kept = {k}
      BY <2>2 DEF StillManaged
    <3>2. own \subseteq T /\ IsFiniteSet(own)
      BY FS_Subset DEF ScopesInForce
    <3>3. f \in [own -> {f[s] : s \in own}] /\ {f[s] : s \in own} = froms
      OBVIOUS
    <3>4. froms \subseteq Nat /\ froms # {}
      BY <1>2, <2>2, <3>2
    <3>5. IsFiniteSet(froms)
      <4> HIDE DEF f, froms, own
      <4> QED BY <3>2, <3>3, FiniteImage
    <3>6. \E s \in own : \A r \in own : r.from <= s.from
      <4>1. PICK x \in froms : \A y \in froms : x >= y
        <5> HIDE DEF froms
        <5> QED BY <3>4, <3>5, GreatestExists
      <4>2. PICK s \in own : s.from = x
        OBVIOUS
      <4>3. \A r \in own : r.from \in froms /\ r.from \in Nat
        BY <1>2, <3>2
      <4> QED BY <3>4, <4>1, <4>2, <4>3
    <3>7. k \in own
      <4> HIDE DEF own
      <4> QED BY <3>6
    <3> QED BY <3>1, <3>7
  <2> QED BY <2>1, <2>2
<1>5. manages \/ kept = {}
  BY <1>4
<1>6. \A s \in kept : s \in ScopesInForce(T) /\ s \in T /\ manages /\ s.place = "circle"
  BY <1>4 DEF ScopesInForce
<1>7. \A s \in ended : s \in T /\ s \in ScopesInForce(T) /\ s.from < Today
  BY DEF ScopesInForce
<1> HIDE DEF own, kept
<1>8. \A r \in past : \E s \in ended : r = [place |-> s.place, from |-> s.from, to |-> Today - 1]
  BY <1>7 DEF ScopeRows
<1>9. \A s \in ended : [place |-> s.place, from |-> s.from, to |-> Today - 1] \in past
  BY <1>7 DEF ScopeRows
<1>10. kept # {} => \E k \in kept : kept = {k} /\ now = {[place |-> "circle", from |-> k.from, to |-> Open]}
  <2>1. ASSUME kept # {} PROVE \E k \in kept : kept = {k} /\ now = {[place |-> "circle", from |-> k.from, to |-> Open]}
    <3>1. PICK k : kept = {k}
      BY <1>4, <2>1
    <3>2. now = {[k EXCEPT !.to = Open]}
      BY <2>1, <3>1
    <3>3. [k EXCEPT !.to = Open] = [place |-> "circle", from |-> k.from, to |-> Open]
      BY <1>6, <3>1 DEF ScopeRows
    <3> QED BY <3>1, <3>2, <3>3
  <2> QED BY <2>1
<1>11. kept = {} => (manages => now = {first}) /\ (~manages => now = {})
  OBVIOUS
<1> HIDE DEF ended, past, now
<1>12. now \subseteq ScopeRows /\ past \subseteq ScopeRows /\ rest \subseteq ScopeRows
  <2>1. now \subseteq ScopeRows
    BY <1>0, <1>2, <1>5, <1>6, <1>10, <1>11 DEF ScopeRows, ScopePlaces
  <2>2. past \subseteq ScopeRows
    BY <1>0, <1>2, <1>7, <1>8 DEF ScopeRows
  <2> QED BY <2>1, <2>2
<1>13. IsFiniteSet(SyncedScopes(T, manages))
  <2>1. IsFiniteSet(now)
    <3>1. now = {} \/ \E x : now = {x}
      BY <1>10, <1>11
    <3>2. ASSUME NEW x, now = {x} PROVE IsFiniteSet(now)
      <4>1. IsFiniteSet({x})
        BY FS_Singleton
      <4> QED BY <3>2, <4>1
    <3>3. CASE now = {}
      BY <3>3, FS_EmptySet
    <3> QED BY <3>1, <3>2, <3>3
  <2>2. IsFiniteSet(past)
    <3> DEFINE f == [s \in ended |-> [s EXCEPT !.to = Today - 1]]
    <3>1. f \in [ended -> {f[s] : s \in ended}] /\ {f[s] : s \in ended} = past
      BY DEF past
    <3>2. IsFiniteSet(ended)
      BY <1>7, FS_Subset
    <3> HIDE DEF f
    <3> QED BY <3>1, <3>2, FiniteImage
  <2>3. IsFiniteSet(rest)
    BY FS_Subset
  <2>4. IsFiniteSet(rest \cup past)
    BY <2>2, <2>3, FS_Union
  <2> QED BY <1>1, <2>1, <2>4, FS_Union
<1>14. ScopesInForce(SyncedScopes(T, manages)) = now
  <2>1. \A s \in rest : ~(s.from <= Today /\ Today <= s.to)
    BY <1>3
  <2>2. \A s \in past : ~(Today <= s.to)
    BY <1>0, <1>8
  <2>3. \A s \in now : s.from <= Today /\ Today <= s.to
    BY <1>0, <1>3, <1>5, <1>6, <1>10, <1>11
  <2> QED BY <1>1, <2>1, <2>2, <2>3 DEF ScopesInForce
<1>15. (\A s \in now : manages /\ s.place = "circle" /\ s.to = Open) /\ (manages => \E s \in now : now = {s})
  <2> DEFINE opened(d) == [place |-> "circle", from |-> d, to |-> Open]
  <2>1. \A d : opened(d).place = "circle" /\ opened(d).to = Open
    OBVIOUS
  <2>2. now # {} => manages /\ \E d : now = {opened(d)}
    BY <1>5, <1>10, <1>11
  <2>3. manages => now # {}
    BY <1>10, <1>11
  <2> HIDE DEF opened
  <2> QED BY <2>1, <2>2, <2>3
<1>16. ASSUME NEW far, NEW n \in 0..Today - 1 PROVE Covers(SyncedScopes(T, manages), far, n) <=> Covers(T, far, n)
  <2>1. ASSUME NEW s \in SyncedScopes(T, manages), far = (s.place = "other"), n \in s.from..s.to PROVE Covers(T, far, n)
    <3>1. CASE s \in rest
      BY <2>1, <3>1 DEF Covers
    <3>2. CASE s \in past
      <4>1. PICK r \in ended : s = [place |-> r.place, from |-> r.from, to |-> Today - 1]
        BY <1>8, <3>2
      <4>2. r \in T /\ r.place = s.place /\ r.from = s.from /\ Today <= r.to /\ r.to \in Nat /\ r.from \in Nat
        BY <1>2, <1>3, <1>7, <4>1
      <4>3. n \in r.from..r.to
        BY <1>0, <2>1, <4>1, <4>2
      <4> QED BY <2>1, <4>2, <4>3 DEF Covers
    <3>3. CASE s \in now
      <4>1. CASE kept = {}
        BY <1>0, <1>11, <2>1, <3>3, <4>1
      <4>2. CASE kept # {}
        <5>1. PICK k \in kept : s = [place |-> "circle", from |-> k.from, to |-> Open]
          BY <1>10, <3>3, <4>2
        <5>2. k \in T /\ k.place = "circle" /\ k.from = s.from /\ Today <= k.to /\ k.to \in Nat /\ k.from \in Nat
          BY <1>2, <1>3, <1>6, <5>1
        <5>3. n \in k.from..k.to
          BY <1>0, <2>1, <5>2
        <5> QED BY <2>1, <5>1, <5>2, <5>3 DEF Covers
      <4> QED BY <4>1, <4>2
    <3> QED BY <1>1, <3>1, <3>2, <3>3
  <2>2. ASSUME NEW s \in T, far = (s.place = "other"), n \in s.from..s.to PROVE Covers(SyncedScopes(T, manages), far, n)
    <3>0. s.from \in Nat /\ s.to \in Nat /\ s.from < Today
      BY <1>0, <1>2, <2>2
    <3>1. CASE s \in rest
      BY <1>1, <2>2, <3>1 DEF Covers
    <3>2. CASE s \in kept
      <4> DEFINE r == [place |-> "circle", from |-> s.from, to |-> Open]
      <4>1. r \in now
        BY <1>10, <3>2
      <4>2. n \in r.from..r.to /\ r.place = s.place
        BY <1>0, <1>6, <2>2, <3>0, <3>2
      <4> QED BY <1>1, <2>2, <4>1, <4>2 DEF Covers
    <3>3. CASE s \in ScopesInForce(T) /\ s \notin kept
      <4> DEFINE r == [place |-> s.place, from |-> s.from, to |-> Today - 1]
      <4>1. r \in past
        BY <1>9, <3>0, <3>3 DEF ended
      <4>2. n \in r.from..r.to /\ r.place = s.place
        BY <1>0, <2>2, <3>0
      <4> QED BY <1>1, <2>2, <4>1, <4>2 DEF Covers
    <3> QED BY <3>1, <3>2, <3>3
  <2> QED BY <2>1, <2>2 DEF Covers
<1> QED
  BY <1>1, <1>12, <1>13, <1>14, <1>15, <1>16

\* The days before today by the scopes that cover them.
LEMMA SamePast ==
    ASSUME NEW v, NEW w, \A far, n : n \in 0..Today - 1 => (Covers(v.scopes, far, n) <=> Covers(w.scopes, far, n))
    PROVE  Past(v) = Past(w)
<1>1. \A u : Past(u) = {p \in BOOLEAN \X (0..Today - 1) : Covers(u.scopes, p[1], p[2])}
  BY DEF Past, Covers
<1> QED
  BY <1>1

LEMMA TableSet ==
    ASSUME NEW w \in Databases, NEW s \in Rebuilt, NEW r \in TableRows
    PROVE  [w EXCEPT !.table = [w.table EXCEPT ![s] = r]] \in Databases
<1>1. w.table \in [Rebuilt -> TableRows]
  BY DEF Databases
<1>2. [w.table EXCEPT ![s] = r] \in [Rebuilt -> TableRows]
  BY <1>1
<1> QED
  BY <1>2 DEF Databases

LEMMA AccountSet ==
    ASSUME NEW w \in Databases, NEW a \in Accounts, NEW r \in AccountRows
    PROVE  [w EXCEPT !.account = [w.account EXCEPT ![a] = r]] \in Databases
<1>1. w.account \in [Accounts -> AccountRows]
  BY DEF Databases
<1>2. [w.account EXCEPT ![a] = r] \in [Accounts -> AccountRows]
  BY <1>1
<1> QED
  BY <1>2 DEF Databases

LEMMA NextTypes ==
    ASSUME StartTypes, KeysSoFar, OpeningSoFar, StartNext
    PROVE  StartTypes'
<1> DEFINE Rest == /\ phase' \in {"down", "starting", "failed", "serving"}
                   /\ step' \in 0..34 /\ at' \in Nat \ {0} /\ applied' \subseteq Patches /\ known' \in 0..33
                   /\ entered' \subseteq Patches
<1>0. /\ saved \in Databases /\ work \in Databases /\ inTx \in BOOLEAN /\ (~inTx => work = saved)
      /\ work.keys \subseteq Patches /\ saved.keys \subseteq Patches
      /\ step \in 0..34 /\ at \in Nat \ {0} /\ applied \subseteq Patches /\ known \in 0..33 /\ entered \subseteq Patches
      /\ (phase \in {"down", "serving"} => ~inTx) /\ phase \in {"down", "starting", "failed", "serving"}
  BY Typed DEF StartTypes
<1>1. ASSUME phase' = "starting", KeysSoFar', saved' \in Databases, work' \in Databases, inTx' \in BOOLEAN,
             ~inTx' => work' = saved', applied' \subseteq Patches, known' \in 0..33, entered' \subseteq Patches
      PROVE  StartTypes'
  <2>1. step' \in 1..34 /\ at' \in 1..Len(Script(step'))
    BY <1>1 DEF KeysSoFar
  <2>2. at' \in Nat \ {0} /\ step' \in 0..34
    <3>1. Len(Script(step')) \in Nat
      BY <2>1, ScriptLengths
    <3> QED
      BY <2>1, <3>1
  <2> QED
    BY <1>1, <2>2 DEF StartTypes
<1>2. KeysSoFar'
  BY KeysKept
<1>3. ASSUME phase = "starting", Writing, work' \in Databases, entered' = entered PROVE StartTypes'
  <2>1. phase' = "starting" /\ applied' = applied /\ known' = known
    BY <1>3 DEF Writing, Onward
  <2>2. saved' \in Databases /\ inTx' \in BOOLEAN /\ (~inTx' => work' = saved')
    <3>1. CASE inTx' = TRUE /\ saved' = saved
      BY <1>0, <3>1
    <3>2. CASE inTx' = inTx /\ saved' = (IF inTx THEN saved ELSE work')
      <4>1. CASE inTx
        BY <1>0, <3>2, <4>1
      <4>2. CASE ~inTx
        BY <1>0, <1>3, <3>2, <4>2
      <4> QED
        BY <4>1, <4>2
    <3> QED
      BY <1>3, <3>1, <3>2 DEF Writing
  <2> QED
    BY <1>0, <1>1, <1>2, <1>3, <2>1, <2>2
<1>4. ASSUME Failing PROVE StartTypes'
  BY <1>0, <1>4 DEF Failing, Stays, StartTypes
<1>5. ASSUME phase = "starting", Commit \/ Begin \/ Unless PROVE StartTypes'
  <2>1. phase' = "starting" /\ applied' = applied /\ known' = known /\ work' = work /\ entered' = entered
    BY <1>5 DEF Commit, Begin, Unless, Onward, Stays
  <2>2. saved' \in {saved, work} /\ inTx' \in BOOLEAN /\ (~inTx' => work' = saved')
    BY <1>0, <1>5 DEF Commit, Begin, Unless, Stays
  <2> QED
    BY <1>0, <1>1, <1>2, <2>1, <2>2
<1>6. ASSUME phase = "starting", Record PROVE StartTypes'
  <2>1. phase' = "starting" /\ applied' = applied /\ known' = known /\ entered' = entered /\ saved' = saved /\ inTx' = TRUE
        /\ work' = [work EXCEPT !.keys = @ \cup {step}] /\ Script(step)[at] = "record"
    BY <1>6 DEF Record, Onward, Alters, Doing
  <2>2. step \in Patches
    BY <1>6, <2>1, AtPlace, PlaceOf
  <2>3. work' \in Databases
    BY <1>0, <2>1, <2>2 DEF Databases
  <2> QED
    BY <1>0, <1>1, <1>2, <2>1, <2>3
<1>7. ASSUME Serve, phase = "starting" PROVE StartTypes'
  <2>1. Script(step)[at] = "serve" /\ phase' = "serving" /\ UNCHANGED <<saved, work, inTx, entered, step, at, applied, known>>
    BY <1>7 DEF Serve, Stays, Doing
  <2>2. step = 34 /\ at = 19
    BY <1>7, <2>1, AtPlace, PlaceOf, RunnersAre
  <2>3. ~inTx
    BY <1>7, <2>2 DEF OpeningSoFar
  <2> QED
    BY <1>0, <2>1, <2>3 DEF StartTypes
<1>8. ASSUME phase = "starting", Writing, Ensure \/ Fill PROVE work' \in Databases /\ entered' = entered
  <2>1. CASE Ensure
    <3>1. step \in Patches
      BY <1>8, <2>1, AtPlace, PlaceOf DEF Ensure, Doing
    <3>2. Rank \in Nat
      <4>1. Rank = EnsuresTo(step, at)
        BY DEF Rank, EnsuresTo
      <4>2. at \in 0..Len(Script(step))
        BY <1>8, AtPlace
      <4> QED
        BY <3>1, <4>1, <4>2, Counts
    <3>3. work' \in {work, [work EXCEPT !.made[step] = Rank]} /\ entered' = entered
      BY <2>1, <1>8 DEF Ensure, Defines, Stays, Writing
    <3> QED
      BY <1>0, <3>1, <3>2, <3>3 DEF Databases
  <2>2. CASE Fill
    <3>1. step \in Patches
      BY <1>8, <2>2, AtPlace, PlaceOf DEF Fill, Doing
    <3> QED
      BY <1>0, <2>2, <3>1 DEF Fill, Alters, Databases
  <2> QED
    BY <1>8, <2>1, <2>2
<1>9. ASSUME phase = "starting", Writing, Clear \/ CreateCopy \/ CopyRows \/ DropOld \/ RenameCopy \/ Index
      PROVE  work' \in Databases /\ entered' = entered
  <2>1. step \in Rebuilt /\ entered' = entered
    <3>1. Script(step)[at] \in {"clear", "create", "copy", "drop", "rename", "index"} /\ entered' = entered
      BY <1>9 DEF Clear, CreateCopy, CopyRows, DropOld, RenameCopy, Index, Doing, Stays
    <3>2. step = 17 \/ step = 19
      BY <1>9, <3>1, AtPlace, PlaceOf
    <3> QED
      BY <3>1, <3>2 DEF Rebuilt, Leaves, Evidence
  <2>0. /\ work.table[step] \in TableRows
        /\ \A r \in TableRows : [work EXCEPT !.table = [work.table EXCEPT ![step] = r]] \in Databases
    BY <1>0, <2>1, TableSet DEF Databases
  <2>2. CASE Clear
    <3>1. work' = [work EXCEPT !.table = [work.table EXCEPT ![step] = [work.table[step] EXCEPT !.copy = "none"]]]
      BY <2>2 DEF Clear, Defines
    <3>2. [work.table[step] EXCEPT !.copy = "none"] \in TableRows
      BY <2>0 DEF TableRows
    <3> QED
      BY <2>0, <2>1, <3>1, <3>2
  <2>3. CASE CreateCopy
    <3>1. work' = [work EXCEPT !.table = [work.table EXCEPT ![step] = [work.table[step] EXCEPT !.copy = "empty"]]] \/ work' = work
      BY <2>3 DEF CreateCopy, Defines, Stays
    <3>2. [work.table[step] EXCEPT !.copy = "empty"] \in TableRows
      BY <2>0 DEF TableRows
    <3> QED
      BY <1>0, <2>0, <2>1, <3>1, <3>2
  <2>4. CASE CopyRows
    <3>1. work' = [work EXCEPT !.table = [work.table EXCEPT ![step] = [work.table[step] EXCEPT !.copy = "full"]]]
      BY <2>4 DEF CopyRows, Alters
    <3>2. [work.table[step] EXCEPT !.copy = "full"] \in TableRows
      BY <2>0 DEF TableRows
    <3> QED
      BY <2>0, <2>1, <3>1, <3>2
  <2>5. CASE DropOld
    <3> DEFINE r == [work.table[step] EXCEPT !.main = FALSE, !.indexed = FALSE]
    <3>1. work' = [work EXCEPT !.table = [work.table EXCEPT ![step] = r]]
      BY <1>0, <2>1, <2>5 DEF DropOld, Defines, Databases
    <3>2. r \in TableRows
      BY <2>0 DEF TableRows
    <3> QED
      BY <2>0, <2>1, <3>1, <3>2
  <2>6. CASE RenameCopy
    <3> DEFINE r == [work.table[step] EXCEPT !.main = (work.table[step].copy = "full"), !.copy = "none", !.shape = "new"]
    <3>1. work' = [work EXCEPT !.table = [work.table EXCEPT ![step] = r]]
      BY <1>0, <2>1, <2>6 DEF RenameCopy, Defines, Databases
    <3>2. r \in TableRows
      BY <2>0 DEF TableRows
    <3> QED
      BY <2>0, <2>1, <3>1, <3>2
  <2>7. CASE Index
    <3>1. work' = [work EXCEPT !.table = [work.table EXCEPT ![step] = [work.table[step] EXCEPT !.indexed = TRUE]]]
      BY <2>7 DEF Index, Defines
    <3>2. [work.table[step] EXCEPT !.indexed = TRUE] \in TableRows
      BY <2>0 DEF TableRows
    <3> QED
      BY <2>0, <2>1, <3>1, <3>2
  <2> QED
    BY <1>9, <2>1, <2>2, <2>3, <2>4, <2>5, <2>6, <2>7
<1>10. ASSUME Catalog \/ Reference \/ ScopeSync \/ Demo \/ Admin \/ Hr \/ Ranks \/ DropView \/ MakeView \/ Rotation
       PROVE  work' \in Databases /\ entered' = entered
  <2>1. CASE Catalog
    <3>1. Merged(work.scopes) \in {T \in SUBSET ScopeRows : IsFiniteSet(T)}
      BY <1>0, MergedCovers DEF Databases
    <3> QED
      BY <1>0, <2>1, <3>1 DEF Catalog, Alters, Databases
  <2>2. CASE Reference
    <3>1. InUse(work) \in SUBSET {"SAFETY", "RETIRED", "CUSTOM"}
      BY <1>0 DEF InUse, Databases
    <3> QED
      BY <1>0, <2>2, <3>1 DEF Reference, Alters, Databases
  <2>3. CASE Demo
    <3>1. /\ work' = [work EXCEPT !.account = [work.account EXCEPT !["TEST"] = [work.account["TEST"] EXCEPT !.enabled = FALSE]]]
          /\ entered' = entered
      BY <2>3 DEF Demo, Alters
    <3>2. "TEST" \in Accounts /\ work.account["TEST"] \in AccountRows
      BY <1>0 DEF Databases, Accounts
    <3>3. [work.account["TEST"] EXCEPT !.enabled = FALSE] \in AccountRows
      BY <3>2 DEF AccountRows
    <3> QED
      BY <1>0, <3>1, <3>2, <3>3, AccountSet
  <2>4. CASE Admin
    <3>1. \A r \in AccountRows : SecuredAdmin(r) \in AccountRows
      BY DEF SecuredAdmin, Unsafe, AccountRows
    <3> QED
      BY <1>0, <2>4, <3>1 DEF Admin, Alters, Databases, Accounts
  <2>5. CASE Hr
    <3>1. \A r \in AccountRows : SecuredHr(r) \in AccountRows
      BY DEF SecuredHr, AccountRows
    <3> QED
      BY <1>0, <2>5, <3>1 DEF Hr, Alters, Databases, Accounts
  <2>6. CASE DropView \/ MakeView
    <3>1. \A yes \in BOOLEAN : work' = [work EXCEPT !.view = yes] => work' \in Databases
      BY <1>0 DEF Databases
    <3>2. \E yes \in BOOLEAN : work' = [work EXCEPT !.view = yes]
      BY <2>6 DEF DropView, MakeView, Defines
    <3> QED
      BY <2>6, <3>1, <3>2 DEF DropView, MakeView
  <2>7. CASE ScopeSync
    <3>1. SyncedScopes(work.scopes, work.manages) \in {T \in SUBSET ScopeRows : IsFiniteSet(T)}
      BY <1>0, SyncedFits DEF Databases
    <3> QED
      BY <1>0, <2>7, <3>1 DEF ScopeSync, Alters, Databases
  <2>8. CASE Ranks
    BY <1>0, <2>8 DEF Ranks, Alters, Databases
  <2>9. CASE Rotation
    <3>1. \A r \in AccountRows : GivenDevice(r) \in AccountRows
      BY DEF GivenDevice, AccountRows
    <3> QED
      BY <1>0, <2>9, <3>1 DEF Rotation, Alters, Databases, Accounts
  <2> QED
    BY <1>10, <2>1, <2>2, <2>3, <2>4, <2>5, <2>6, <2>7, <2>8, <2>9
<1>11. ASSUME Run PROVE StartTypes'
  <2>1. CASE phase = "starting"
    BY <1>3, <1>4, <1>5, <1>6, <1>7, <1>8, <1>9, <1>10, <1>11, <2>1, Statements
  <2>2. CASE phase # "starting"
    <3>1. BeginStart
      BY <1>11, <2>2 DEF Run, Ensure, Fill, Commit, Record, Unless, Begin, Clear, CreateCopy, CopyRows, DropOld,
            RenameCopy, Index, Catalog, Reference, ScopeSync, Demo, Admin, Hr, Ranks, DropView, MakeView, Rotation, Serve, Doing
    <3>2. /\ phase' = "starting" /\ applied' = work.keys /\ known' = known
          /\ saved' = saved /\ work' = work /\ inTx' = inTx /\ entered' = entered
      BY <3>1 DEF BeginStart, Stays
    <3> QED
      BY <1>0, <1>1, <1>2, <3>2
  <2> QED
    BY <2>1, <2>2
<1>12. ASSUME NEW w, Edits(w), w \in Databases, entered' \subseteq Patches PROVE StartTypes'
  BY <1>0, <1>12 DEF Edits, StartTypes
<1>13. ASSUME NEW s \in LaterRows, Enter(s) PROVE StartTypes'
  BY <1>0, <1>12, <1>13 DEF Enter
<1>14. ASSUME NEW a \in Accounts, ChangePassword(a) PROVE StartTypes'
  <2>1. [hash |-> "chosen", initialized |-> TRUE, enabled |-> TRUE] \in AccountRows
    BY DEF AccountRows
  <2>2. [saved EXCEPT !.account[a] = [hash |-> "chosen", initialized |-> TRUE, enabled |-> TRUE]] \in Databases
    BY <1>0, <2>1 DEF Databases
  <2> QED
    BY <1>0, <1>12, <1>14, <2>2 DEF ChangePassword
<1>15. ASSUME NEW a \in Accounts, Disable(a) PROVE StartTypes'
  <2>1. [saved EXCEPT !.account[a].enabled = FALSE] \in Databases
    <3>1. saved.account[a] \in AccountRows
      BY <1>0 DEF Databases
    <3>2. [saved.account[a] EXCEPT !.enabled = FALSE] \in AccountRows
      BY <3>1 DEF AccountRows
    <3> QED
      BY <1>0, <3>2, AccountSet
  <2> QED
    BY <1>0, <1>12, <1>15, <2>1 DEF Disable
<1>16. ASSUME ResetHr PROVE StartTypes'
  <2>1. [hash |-> "temporary", initialized |-> TRUE, enabled |-> TRUE] \in AccountRows
    BY DEF AccountRows
  <2>2. [saved EXCEPT !.account["HR-HEAT"] = [hash |-> "temporary", initialized |-> TRUE, enabled |-> TRUE]] \in Databases
    BY <1>0, <2>1 DEF Databases, Accounts
  <2> QED
    BY <1>0, <1>12, <1>16, <2>2 DEF ResetHr
<1>17. ASSUME AddKind PROVE StartTypes'
  <2>1. [saved EXCEPT !.kinds = @ \cup {"CUSTOM"}, !.policies = @ \cup {"CUSTOM"}] \in Databases
    BY <1>0 DEF Databases
  <2> QED
    BY <1>0, <1>12, <1>17, <2>1 DEF AddKind
<1>18. ASSUME NEW release \in {known, Len(Runners)}, Halt(release) PROVE StartTypes'
  <2>1. phase' = "down" /\ work' = saved /\ inTx' = FALSE /\ known' = release /\ at' = 1 /\ step' = 0
        /\ saved' = saved /\ applied' = applied /\ entered' = entered
    BY <1>18 DEF Halt
  <2>2. known' \in 0..33 /\ at' \in Nat \ {0} /\ step' \in 0..34
    BY <1>0, <2>1, RunnersAre
  <2>3. inTx' \in BOOLEAN /\ saved' \in Databases /\ work' \in Databases /\ work' = saved' /\ ~inTx'
    BY <1>0, <2>1
  <2>4. phase' \in {"down", "starting", "failed", "serving"} /\ applied' \subseteq Patches /\ entered' \subseteq Patches
    BY <1>0, <2>1
  <2> QED
    BY <2>2, <2>3, <2>4 DEF StartTypes
<1>19. ASSUME OfficeTurns PROVE StartTypes'
  <2>1. [saved EXCEPT !.manages = ~saved.manages] \in Databases
    BY <1>0 DEF Databases
  <2> QED
    BY <1>0, <1>12, <1>19, <2>1 DEF OfficeTurns
<1>20. ASSUME NEW m \in BOOLEAN, Appoint(m) PROVE StartTypes'
  <2> DEFINE T == SyncedScopes(saved.scopes, m)
  <2>1. T \in SUBSET ScopeRows /\ IsFiniteSet(T)
    BY <1>0, SyncedFits DEF Databases
  <2>2. Edits([saved EXCEPT !.manages = m, !.scopes = T])
    BY <1>20 DEF Appoint
  <2> HIDE DEF T
  <2>3. [saved EXCEPT !.manages = m, !.scopes = T] \in Databases
    BY <1>0, <2>1 DEF Databases
  <2> QED
    BY <1>0, <1>12, <1>20, <2>2, <2>3 DEF Appoint
<1> QED
  BY <1>11, <1>13, <1>14, <1>15, <1>16, <1>17, <1>18, <1>19, <1>20 DEF StartNext

\* Statements that make and fill nothing leave it as it is.
LEMMA CountedSame ==
    ASSUME NEW s \in Patches, NEW k \in 1..Len(Script(s)), NEW n \in k..Len(Script(s)),
           \A i \in k..n - 1 : Script(s)[i] # "ensure"
    PROVE  EnsuresTo(s, n - 1) = EnsuresTo(s, k - 1)
<1>1. {i \in 1..n - 1 : Script(s)[i] = "ensure"} = {i \in 1..k - 1 : Script(s)[i] = "ensure"}
  OBVIOUS
<1> QED
  BY <1>1 DEF EnsuresTo

\* A stretch of places.
LEMMA Stretch ==
    ASSUME NEW m \in Nat, NEW n \in Nat, NEW l \in Nat
    PROVE  /\ \A i \in 1..n - 1 : i \in m..n - 1 \/ i \in 1..m - 1
           /\ n > m /\ n \in 1..l => n \in m + 1 .. l /\ \A i \in m..n - 1 : i \in m..l
<1>1. \A i \in 1..n - 1 : i \in m..n - 1 \/ i \in 1..m - 1
  OBVIOUS
<1>2. n > m /\ n \in 1..l => n \in m + 1 .. l
  OBVIOUS
<1>3. n > m /\ n \in 1..l => \A i \in m..n - 1 : i \in m..l
  OBVIOUS
<1> QED
  BY <1>1, <1>2, <1>3

LEMMA CountedNone ==
    ASSUME NEW s
    PROVE  EnsuresTo(s, 0) = 0
<1>1. {i \in 1..0 : Script(s)[i] = "ensure"} = {}
  OBVIOUS
<1> QED
  BY <1>1, FS_EmptySet DEF EnsuresTo

LEMMA MadeIsPrime ==
    MadeSoFar' <=> Full(saved') /\ Full(work') /\ (phase' = "starting" /\ step' \in Patches => Behind(step', at', work'))
BY DEF MadeSoFar, Full, Behind

LEMMA FullSame ==
    ASSUME NEW w, NEW v, w.made = v.made, w.keys = v.keys, w.filled = v.filled, Full(v)
    PROVE  Full(w)
BY DEF Full, Finished

\* Where a start goes on when a table has its new shape.
LEMMA RebuildEnds ==
    (step = 17 => PastRebuild = 13) /\ (step = 19 => PastRebuild = 7)
<1>1. ASSUME step = 17 PROVE PastRebuild = 13
  <2>1. Script(17)[13] = "index" /\ 13 \in DOMAIN Script(17)
    BY Scripts
  <2>2. \A i \in DOMAIN Script(17) : Script(17)[i] = "index" => i = 13
    <3>1. DOMAIN Script(17) = 1..Len(Script(17)) /\ 17 \in 1..Finally
      BY Scripts, RunnersAre
    <3> QED
      BY <3>1, PlaceOf
  <2> QED
    BY <1>1, <2>1, <2>2 DEF PastRebuild, Ahead, Leaves
<1>2. step = 19 => PastRebuild = 7
  BY Scripts DEF PastRebuild, Leaves, Evidence
<1> QED
  BY <1>1, <1>2

LEMMA NextMade ==
    ASSUME StartTypes, KeysSoFar, MadeSoFar, StartTypes', KeysSoFar', StartNext
    PROVE  MadeSoFar'
<1>0. /\ Full(saved) /\ Full(work) /\ (phase = "starting" /\ step \in Patches => Behind(step, at, work))
      /\ (~inTx => work = saved) /\ work \in Databases /\ saved \in Databases
  BY DEF MadeSoFar, StartTypes
<1>1. ASSUME phase' # "starting", Full(saved'), Full(work') PROVE MadeSoFar'
  BY <1>1, MadeIsPrime
<1>2. ASSUME at' = 1, Full(saved'), Full(work') PROVE MadeSoFar'
  <2>1. ASSUME step' \in Patches PROVE Behind(step', at', work')
    <3>1. work'.made[step'] \in Nat /\ at' - 1 = 0
      BY <1>2, <2>1 DEF StartTypes, Databases
    <3> QED
      BY <3>1, CountedNone DEF Behind
  <2> QED
    BY <1>2, <2>1, MadeIsPrime
<1>3. ASSUME phase = "starting", step \in Patches, step' = step, at' \in at + 1 .. Len(Script(step)),
             \A i \in at..at' - 1 : Script(step)[i] \notin {"ensure", "fill"},
             work'.made = work.made, work'.filled = work.filled
      PROVE  Behind(step', at', work')
  <2>1. at \in 1..Len(Script(step)) /\ Len(Script(step)) \in Nat
    <3>1. at \in 1..Len(Script(step)) /\ step \in 1..34
      BY <1>3 DEF KeysSoFar
    <3> QED
      BY <3>1, ScriptLengths
  <2>2. EnsuresTo(step, at' - 1) = EnsuresTo(step, at - 1)
    <3>1. at' \in at..Len(Script(step))
      BY <1>3, <2>1
    <3> QED
      BY <1>3, <2>1, <3>1, CountedSame
  <2>3. Behind(step, at, work)
    BY <1>0, <1>3
  <2>4. ASSUME NEW i \in 1..at' - 1, Script(step)[i] = "fill" PROVE i \in 1..at - 1
    <3>1. at \in Nat /\ at' \in Nat
      BY <1>3, <2>1
    <3>2. i \in at..at' - 1 \/ i \in 1..at - 1
      BY <2>4, <3>1, Stretch
    <3> QED
      BY <1>3, <2>4, <3>2
  <2> QED
    BY <1>3, <2>2, <2>3, <2>4 DEF Behind
<1>4. ASSUME phase = "starting", Onward, work'.made = work.made, work'.keys = work.keys, work'.filled = work.filled,
             saved' \in {saved, work, work'}, Script(step)[at] \notin {"ensure", "fill", "serve"}
      PROVE  MadeSoFar'
  <2>1. Full(work') /\ Full(saved')
    BY <1>0, <1>4, FullSame
  <2>2. /\ phase' = "starting"
        /\ (at < Len(Script(step)) /\ at' = at + 1 /\ step' = step) \/ at' = 1
    BY <1>4, Advances
  <2>3. CASE at' = 1
    BY <1>2, <2>1, <2>3
  <2>4. CASE at < Len(Script(step)) /\ at' = at + 1 /\ step' = step
    <3>1. ASSUME step \in Patches PROVE Behind(step', at', work')
      <4>1. at' \in at + 1 .. Len(Script(step)) /\ \A i \in at..at' - 1 : i = at
        <5>1. at \in 1..Len(Script(step)) /\ step \in 1..34
          BY <1>4 DEF KeysSoFar
        <5>2. Len(Script(step)) \in Nat
          BY <5>1, ScriptLengths
        <5> QED
          BY <2>4, <5>1, <5>2
      <4>2. \A i \in at..at' - 1 : Script(step)[i] \notin {"ensure", "fill"}
        BY <1>4, <4>1
      <4> QED
        BY <1>3, <1>4, <2>4, <3>1, <4>1, <4>2
    <3> QED
      BY <2>1, <2>4, <3>1, MadeIsPrime
  <2> QED
    BY <2>2, <2>3, <2>4
<1>5. ASSUME phase = "starting", Script(step)[at] \in {"ensure", "fill"}
      PROVE  /\ step \in Patches /\ step \notin work.keys /\ at \in 1..Len(Runners[step]) /\ Len(Runners[step]) \in Nat
             /\ at \in 0..Len(Script(step)) /\ at < Len(Script(step)) /\ at > 0
  <2>1. step \in Patches /\ at <= Len(Runners[step]) /\ at \in 1..Len(Script(step))
    BY <1>5, AtPlace, PlaceOf
  <2>2. Len(Runners[step]) \in Nat /\ Len(Script(step)) = Len(Runners[step]) + 2
    BY <2>1, PatchScript
  <2>3. at # Len(Script(step))
    BY <2>1, <2>2
  <2>4. step \notin work.keys
    BY <1>5, <2>1, <2>3 DEF KeysSoFar
  <2> QED
    BY <2>1, <2>2, <2>4
<1>6. ASSUME phase = "starting", Ensure, Writing PROVE MadeSoFar'
  <2>1. Script(step)[at] = "ensure"
    BY <1>6 DEF Ensure, Doing
  <2>2. /\ step \in Patches /\ step \notin work.keys /\ at \in 1..Len(Runners[step]) /\ Len(Runners[step]) \in Nat
        /\ at \in 0..Len(Script(step)) /\ at < Len(Script(step)) /\ at > 0
    BY <1>5, <1>6, <2>1
  <2>3. Rank = EnsuresTo(step, at)
    BY DEF Rank, EnsuresTo
  <2>4. Rank \in Nat /\ Rank <= Ensures(step)
    BY <2>2, <2>3, Counts
  <2>5. phase' = "starting" /\ step' = step /\ at' = at + 1
    BY <1>6, <2>2 DEF Writing, Onward
  <2>6. \/ work' = work /\ work.made[step] >= Rank
        \/ work' = [work EXCEPT !.made = [work.made EXCEPT ![step] = Rank]]
    <3>1. work.made[step] \in Nat
      BY <1>0, <2>2 DEF Databases
    <3>2. phase' # "failed"
      BY <2>5
    <3> QED
      BY <1>6, <2>4, <3>1, <3>2 DEF Ensure, Missing, Defines
  <2>7. /\ work'.keys = work.keys /\ work'.filled = work.filled
        /\ work'.made = work.made \/ work'.made = [work.made EXCEPT ![step] = Rank]
        /\ work'.made[step] >= Rank
    <3>1. work.made \in [Patches -> Nat]
      BY <1>0 DEF Databases
    <3>2. CASE work' = work /\ work.made[step] >= Rank
      BY <3>2
    <3>3. CASE work' = [work EXCEPT !.made = [work.made EXCEPT ![step] = Rank]]
      <4>1. work'.keys = work.keys /\ work'.filled = work.filled /\ work'.made = [work.made EXCEPT ![step] = Rank]
        BY <1>0, <3>3 DEF Databases
      <4>2. work'.made[step] = Rank
        BY <2>2, <3>1, <4>1
      <4> QED
        BY <2>4, <4>1, <4>2
    <3> QED
      BY <2>6, <3>2, <3>3
  <2>8. Full(work')
    <3>1. \A t \in Patches : work'.made[t] <= Ensures(t)
      BY <1>0, <2>2, <2>4, <2>7 DEF Full, Databases
    <3>2. \A t \in work.keys : t # step /\ t \in Patches
      BY <1>0, <2>2 DEF Databases
    <3>3. \A t \in work.keys : work'.made[t] = work.made[t]
      BY <1>0, <2>2, <2>7, <3>2 DEF Databases
    <3> QED
      BY <1>0, <2>7, <3>1, <3>3 DEF Full, Finished
  <2>9. Full(saved')
    BY <1>0, <1>6, <2>8 DEF Writing
  <2>10. Behind(step', at', work')
    <3>1. at' - 1 = at
      BY <2>2, <2>5
    <3>2. EnsuresTo(step, at) <= work'.made[step]
      BY <2>3, <2>4, <2>7, <1>0, <2>2 DEF Databases
    <3>3. \A i \in 1..at : Script(step)[i] = "fill" => i \in 1..at - 1
      BY <2>1, <2>2
    <3>4. Behind(step, at, work)
      BY <1>0, <1>6, <2>2
    <3> QED
      BY <2>5, <2>7, <3>1, <3>2, <3>3, <3>4 DEF Behind
  <2> QED
    BY <2>8, <2>9, <2>10, MadeIsPrime
<1>7. ASSUME phase = "starting", Fill, Writing PROVE MadeSoFar'
  <2>1. Script(step)[at] = "fill"
    BY <1>7 DEF Fill, Doing
  <2>2. /\ step \in Patches /\ step \notin work.keys /\ at \in 1..Len(Runners[step]) /\ Len(Runners[step]) \in Nat
        /\ at \in 0..Len(Script(step)) /\ at < Len(Script(step)) /\ at > 0
    BY <1>5, <1>7, <2>1
  <2>3. work'.keys = work.keys /\ work'.made = work.made /\ work'.filled = work.filled \cup {step} /\ saved' = saved
    BY <1>0, <1>7 DEF Fill, Alters, Databases
  <2>4. phase' = "starting" /\ step' = step /\ at' = at + 1
    BY <1>7, <2>2 DEF Writing, Onward
  <2>5. Full(work')
    BY <1>0, <2>3 DEF Full, Finished
  <2>6. Behind(step', at', work')
    <3>1. EnsuresTo(step, at - 1) = EnsuresTo(step, at)
      BY <2>1, <2>2, Counts
    <3>2. Behind(step, at, work) /\ at' - 1 = at
      BY <1>0, <1>7, <2>2, <2>4
    <3> QED
      BY <2>3, <2>4, <3>1, <3>2 DEF Behind
  <2> QED
    BY <1>0, <2>3, <2>5, <2>6, MadeIsPrime
<1>8. ASSUME phase = "starting", Record PROVE MadeSoFar'
  <2>1. Script(step)[at] = "record" /\ saved' = saved /\ Onward /\ work' = [work EXCEPT !.keys = @ \cup {step}]
    BY <1>8 DEF Record, Doing, Alters
  <2>2. step \in Patches /\ at = Len(Runners[step]) + 1 /\ at \in 1..Len(Script(step))
    BY <1>8, <2>1, AtPlace, PlaceOf
  <2>3. /\ Len(Runners[step]) \in Nat /\ Len(Script(step)) = Len(Runners[step]) + 2
        /\ DOMAIN Runners[step] = 1..Len(Runners[step])
        /\ \A i \in 1..Len(Runners[step]) : Script(step)[i] = Runners[step][i]
    BY <2>2, PatchScript
  <2>4. work'.keys = work.keys \cup {step} /\ work'.made = work.made /\ work'.filled = work.filled
    BY <1>0, <2>1 DEF Databases
  <2>5. Behind(step, at, work)
    BY <1>0, <1>8, <2>2
  <2>6. Finished(work, step)
    <3>1. EnsuresTo(step, Len(Runners[step])) = Ensures(step) /\ Ensures(step) \in Nat
      <4>1. Len(Runners[step]) \in 0..Len(Script(step))
        BY <2>3
      <4> QED
        BY <2>2, <4>1, Counts
    <3>2. at - 1 = Len(Runners[step])
      BY <2>2, <2>3
    <3>3. work.made[step] \in Nat /\ work.made[step] <= Ensures(step)
      BY <1>0, <2>2 DEF Full, Databases
    <3>4. work.made[step] = Ensures(step)
      BY <2>5, <3>1, <3>2, <3>3 DEF Behind
    <3>5. step \in Filling => step \in work.filled
      BY <2>3, <2>5, <3>2 DEF Behind, Filling
    <3> QED
      BY <3>4, <3>5 DEF Finished
  <2>7. Full(work')
    BY <1>0, <2>4, <2>6 DEF Full, Finished
  <2>8. phase' = "starting" /\ step' = step /\ at' = at + 1
    BY <1>8, <2>1, <2>2, <2>3 DEF Onward
  <2>9. Behind(step', at', work')
    <3>1. at' \in at + 1 .. Len(Script(step)) /\ \A i \in at..at' - 1 : i = at
      BY <2>2, <2>3, <2>8
    <3> QED
      BY <1>3, <1>8, <2>1, <2>2, <2>4, <2>8, <3>1
  <2> QED
    BY <1>0, <2>1, <2>7, <2>9, MadeIsPrime
<1>9. ASSUME phase = "starting", Unless PROVE MadeSoFar'
  <2>1. /\ Script(step)[at] = "unlessNew" /\ step' = step /\ phase' = phase /\ saved' = saved /\ work' = work
    BY <1>9 DEF Unless, Doing, Stays
  <2>2. step \in 1..34 /\ at \in 1..Len(Script(step)) /\ ((step = 17 /\ at = 5) \/ (step = 19 /\ at = 1))
    BY <1>9, <2>1, AtPlace, PlaceOf, RunnersAre
  <2>3. step \in Patches /\ at' \in 1..Len(Script(step)) /\ Len(Script(step)) \in Nat
    <3>1. at' \in 1..Len(Script(step'))
      BY <1>9, <2>1 DEF KeysSoFar
    <3>2. Len(Script(step)) \in Nat
      BY <2>2, ScriptLengths
    <3>3. step \in Patches
      BY <2>2, RunnersAre
    <3> QED
      BY <2>1, <3>1, <3>2, <3>3
  <2>4. \A i \in at..Len(Script(step)) : Script(step)[i] \notin {"ensure", "fill"}
    <3> TAKE i \in at..Len(Script(step))
    <3>1. i \in 1..Len(Script(step)) /\ (step = 17 => ~(i <= 3))
      <4>1. at \in Nat /\ at >= 1 /\ (step = 17 => at = 5) /\ Len(Script(step)) \in Nat
        BY <2>2, <2>3
      <4> QED
        BY <4>1
    <3>2. step \in 1..Finally
      BY <2>2, RunnersAre
    <3> QED
      BY <2>2, <3>1, <3>2, PlaceOf
  <2>5. CASE at' > at
    <3>1. at' \in at + 1 .. Len(Script(step)) /\ \A i \in at..at' - 1 : i \in at..Len(Script(step))
      <4>1. at \in Nat /\ at' \in Nat
        BY <2>2, <2>3
      <4> QED
        BY <2>3, <2>5, <4>1, Stretch
    <3> QED
      BY <1>0, <1>3, <1>9, <2>1, <2>3, <2>4, <3>1, MadeIsPrime
  <2>6. at' > at
    <3>3. at' \in {at + 1, PastRebuild}
      BY <1>9 DEF Unless
    <3> QED
      BY <2>2, <3>3, RebuildEnds
  <2> QED
    BY <2>5, <2>6
<1>10. ASSUME phase = "starting", Commit PROVE MadeSoFar'
  BY <1>4, <1>10 DEF Commit, Doing
<1>11. ASSUME phase = "starting", Begin PROVE MadeSoFar'
  BY <1>4, <1>11 DEF Begin, Doing
<1>12. ASSUME phase = "starting", Writing, Clear \/ CreateCopy \/ CopyRows \/ DropOld \/ RenameCopy \/ Index
       PROVE  MadeSoFar'
  <2>1. Script(step)[at] \notin {"ensure", "fill", "serve"}
    BY <1>12 DEF Clear, CreateCopy, CopyRows, DropOld, RenameCopy, Index, Doing
  <2>2. work'.made = work.made /\ work'.filled = work.filled
    BY <1>0, <1>12 DEF Clear, CreateCopy, CopyRows, DropOld, RenameCopy, Index, Defines, Alters, Stays, Databases
  <2>3. saved' \in {saved, work, work'}
    BY <1>12 DEF Writing
  <2> QED
    BY <1>4, <1>12, <2>1, <2>2, <2>3 DEF Writing
<1>13. ASSUME phase = "starting", Writing, Catalog \/ Reference \/ ScopeSync \/ Demo \/ Admin \/ Hr \/ Ranks \/ DropView \/ MakeView \/ Rotation
       PROVE  MadeSoFar'
  <2>1. Script(step)[at] \notin {"ensure", "fill", "serve"}
    BY <1>13 DEF Catalog, Reference, ScopeSync, Demo, Admin, Hr, Ranks, DropView, MakeView, Rotation, Doing
  <2>2. work'.made = work.made /\ work'.filled = work.filled
    BY <1>0, <1>13 DEF Catalog, Reference, ScopeSync, Demo, Admin, Hr, Ranks, DropView, MakeView, Rotation, Defines, Alters, Databases
  <2>3. saved' \in {saved, work, work'}
    BY <1>13 DEF Writing
  <2> QED
    BY <1>4, <1>13, <2>1, <2>2, <2>3 DEF Writing
<1>14. ASSUME Failing \/ Serve PROVE MadeSoFar'
  BY <1>0, <1>1, <1>14 DEF Failing, Serve, Stays
<1>15. ASSUME Run PROVE MadeSoFar'
  <2>1. CASE phase = "starting"
    BY <1>6, <1>7, <1>8, <1>9, <1>10, <1>11, <1>12, <1>13, <1>14, <1>15, <2>1, Statements
  <2>2. CASE phase # "starting"
    <3>1. BeginStart
      BY <1>15, <2>2 DEF Run, Ensure, Fill, Commit, Record, Unless, Begin, Clear, CreateCopy, CopyRows, DropOld,
            RenameCopy, Index, Catalog, Reference, ScopeSync, Demo, Admin, Hr, Ranks, DropView, MakeView, Rotation, Serve, Doing
    <3> QED
      BY <1>0, <1>2, <3>1 DEF BeginStart, Stays
  <2> QED
    BY <2>1, <2>2
<1>16. ASSUME NEW w, Edits(w), w.made = saved.made, w.keys = saved.keys, w.filled = saved.filled PROVE MadeSoFar'
  <2>1. work' = w /\ saved' = w /\ phase' # "starting"
    BY <1>16 DEF Edits
  <2>2. Full(w)
    BY <1>0, <1>16, FullSame
  <2> QED
    BY <1>1, <2>1, <2>2
<1>17. ASSUME NEW s \in LaterRows, Enter(s) PROVE MadeSoFar'
  BY <1>16, <1>17 DEF Enter
<1>18. ASSUME NEW a \in Accounts, ChangePassword(a) \/ Disable(a) PROVE MadeSoFar'
  BY <1>0, <1>16, <1>18 DEF ChangePassword, Disable, Databases
<1>19. ASSUME ResetHr \/ AddKind \/ OfficeTurns \/ \E m \in BOOLEAN : Appoint(m) PROVE MadeSoFar'
  BY <1>0, <1>16, <1>19 DEF ResetHr, AddKind, OfficeTurns, Appoint, Databases
<1>20. ASSUME NEW release, Halt(release) PROVE MadeSoFar'
  BY <1>0, <1>1, <1>20 DEF Halt
<1> QED
  BY <1>15, <1>17, <1>18, <1>19, <1>20 DEF StartNext

\* Two rows of a table's state are the same when their fields are.
LEMMA SameRow ==
    ASSUME NEW r \in TableRows, NEW t \in TableRows,
           r.shape = t.shape, r.main = t.main, r.copy = t.copy, r.indexed = t.indexed
    PROVE  r = t
<1>1. r = [shape |-> r.shape, main |-> r.main, copy |-> r.copy, indexed |-> r.indexed]
  BY DEF TableRows
<1>2. t = [shape |-> t.shape, main |-> t.main, copy |-> t.copy, indexed |-> t.indexed]
  BY DEF TableRows
<1> QED
  BY <1>1, <1>2

\* What the statements of a rebuild make of a table.
LEMMA TableSteps ==
    /\ [OldTable EXCEPT !.copy = "none"] = OldTable /\ OldTable.copy = "none"
    /\ [OldTable EXCEPT !.copy = "empty"] = LeftTable /\ LeftTable.copy = "empty"
    /\ [LeftTable EXCEPT !.copy = "full"] = FullTable
    /\ [FullTable EXCEPT !.main = FALSE, !.indexed = FALSE] = GoneTable
    /\ [GoneTable EXCEPT !.main = (GoneTable.copy = "full"), !.copy = "none", !.shape = "new"] = BareTable
    /\ [BareTable EXCEPT !.indexed = TRUE] = NewTable
    /\ [NewTable EXCEPT !.indexed = TRUE] = NewTable
    /\ OldTable.shape = "old" /\ LeftTable.shape = "old" /\ BareTable.shape = "new" /\ NewTable.shape = "new"
<1> USE DEF OldTable, LeftTable, FullTable, GoneTable, BareTable, NewTable
<1>1. /\ OldTable \in TableRows /\ LeftTable \in TableRows /\ FullTable \in TableRows /\ GoneTable \in TableRows
      /\ BareTable \in TableRows /\ NewTable \in TableRows
  BY DEF TableRows
<1>2. [OldTable EXCEPT !.copy = "none"] = OldTable
  <2> DEFINE r == [OldTable EXCEPT !.copy = "none"]
  <2>1. r \in TableRows
    BY DEF TableRows
  <2>2. r.shape = OldTable.shape /\ r.main = OldTable.main /\ r.copy = OldTable.copy /\ r.indexed = OldTable.indexed
    OBVIOUS
  <2> QED
    BY <1>1, <2>1, <2>2, SameRow
<1>3. [OldTable EXCEPT !.copy = "empty"] = LeftTable
  <2> DEFINE r == [OldTable EXCEPT !.copy = "empty"]
  <2>1. r \in TableRows
    BY DEF TableRows
  <2>2. r.shape = LeftTable.shape /\ r.main = LeftTable.main /\ r.copy = LeftTable.copy /\ r.indexed = LeftTable.indexed
    OBVIOUS
  <2> QED
    BY <1>1, <2>1, <2>2, SameRow
<1>4. [LeftTable EXCEPT !.copy = "full"] = FullTable
  <2> DEFINE r == [LeftTable EXCEPT !.copy = "full"]
  <2>1. r \in TableRows
    BY DEF TableRows
  <2>2. r.shape = FullTable.shape /\ r.main = FullTable.main /\ r.copy = FullTable.copy /\ r.indexed = FullTable.indexed
    OBVIOUS
  <2> QED
    BY <1>1, <2>1, <2>2, SameRow
<1>5. [FullTable EXCEPT !.main = FALSE, !.indexed = FALSE] = GoneTable
  <2> DEFINE r == [FullTable EXCEPT !.main = FALSE, !.indexed = FALSE]
  <2>1. r \in TableRows
    BY DEF TableRows
  <2>2. r.shape = GoneTable.shape /\ r.main = GoneTable.main /\ r.copy = GoneTable.copy /\ r.indexed = GoneTable.indexed
    OBVIOUS
  <2> QED
    BY <1>1, <2>1, <2>2, SameRow
<1>6. [GoneTable EXCEPT !.main = (GoneTable.copy = "full"), !.copy = "none", !.shape = "new"] = BareTable
  <2> DEFINE r == [GoneTable EXCEPT !.main = (GoneTable.copy = "full"), !.copy = "none", !.shape = "new"]
  <2>1. r \in TableRows
    BY DEF TableRows
  <2>2. r.shape = BareTable.shape /\ r.main = BareTable.main /\ r.copy = BareTable.copy /\ r.indexed = BareTable.indexed
    OBVIOUS
  <2> QED
    BY <1>1, <2>1, <2>2, SameRow
<1>7. [BareTable EXCEPT !.indexed = TRUE] = NewTable
  <2> DEFINE r == [BareTable EXCEPT !.indexed = TRUE]
  <2>1. r \in TableRows
    BY DEF TableRows
  <2>2. r.shape = NewTable.shape /\ r.main = NewTable.main /\ r.copy = NewTable.copy /\ r.indexed = NewTable.indexed
    OBVIOUS
  <2> QED
    BY <1>1, <2>1, <2>2, SameRow
<1>8. [NewTable EXCEPT !.indexed = TRUE] = NewTable
  <2> DEFINE r == [NewTable EXCEPT !.indexed = TRUE]
  <2>1. r \in TableRows
    BY DEF TableRows
  <2>2. r.shape = NewTable.shape /\ r.main = NewTable.main /\ r.copy = NewTable.copy /\ r.indexed = NewTable.indexed
    OBVIOUS
  <2> QED
    BY <1>1, <2>1, <2>2, SameRow
<1>9. /\ OldTable.shape = "old" /\ LeftTable.shape = "old" /\ BareTable.shape = "new" /\ NewTable.shape = "new"
      /\ OldTable.copy = "none" /\ LeftTable.copy = "empty"
  OBVIOUS
<1> HIDE DEF OldTable, LeftTable, FullTable, GoneTable, BareTable, NewTable
<1> QED
  BY <1>2, <1>3, <1>4, <1>5, <1>6, <1>7, <1>8, <1>9

LEMMA TableWritten ==
    ASSUME NEW w \in Databases, NEW s \in Rebuilt, NEW r
    PROVE  LET v == [w EXCEPT !.table = [w.table EXCEPT ![s] = r]]
           IN  v.keys = w.keys /\ v.table[s] = r /\ \A t \in Rebuilt : t # s => v.table[t] = w.table[t]
<1>1. w.table \in [Rebuilt -> TableRows]
  BY DEF Databases
<1>2. DOMAIN w.table = Rebuilt
  BY <1>1
<1> DEFINE f == [w.table EXCEPT ![s] = r]
<1>3. f[s] = r /\ \A t \in Rebuilt : t # s => f[t] = w.table[t]
  BY <1>2
<1> HIDE DEF f
<1>4. [w EXCEPT !.table = f].table = f /\ [w EXCEPT !.table = f].keys = w.keys
  BY DEF Databases
<1> QED
  BY <1>3, <1>4 DEF f

LEMMA TablesWritten ==
    ASSUME StartTypes, step \in Rebuilt, Clear \/ CreateCopy \/ CopyRows \/ DropOld \/ RenameCopy \/ Index, Writing
    PROVE  /\ work'.keys = work.keys /\ \A t \in Rebuilt : t # step => work'.table[t] = work.table[t]
           /\ Clear => work'.table[step] = [work.table[step] EXCEPT !.copy = "none"]
           /\ CreateCopy => work'.table[step] = [work.table[step] EXCEPT !.copy = "empty"]
           /\ CopyRows => work'.table[step] = [work.table[step] EXCEPT !.copy = "full"] /\ inTx' = TRUE /\ saved' = saved
           /\ DropOld => work'.table[step] = [work.table[step] EXCEPT !.main = FALSE, !.indexed = FALSE]
           /\ RenameCopy => work'.table[step] = [work.table[step] EXCEPT !.main = (work.table[step].copy = "full"),
                                                                        !.copy = "none", !.shape = "new"]
           /\ Index => work'.table[step] = [work.table[step] EXCEPT !.indexed = TRUE]
           /\ ~CopyRows => inTx' = inTx /\ saved' = IF inTx THEN saved ELSE work'
<1>1. work \in Databases
  BY DEF StartTypes
<1>2. Script(step)[at] \in {"clear", "create", "copy", "drop", "rename", "index"}
  BY DEF Clear, CreateCopy, CopyRows, DropOld, RenameCopy, Index, Doing
<1>3. ASSUME Clear PROVE work' = [work EXCEPT !.table = [work.table EXCEPT ![step] = [work.table[step] EXCEPT !.copy = "none"]]]
  BY <1>3 DEF Clear, Defines
<1>4. ASSUME CreateCopy PROVE work' = [work EXCEPT !.table = [work.table EXCEPT ![step] = [work.table[step] EXCEPT !.copy = "empty"]]]
  <2>1. phase' = phase /\ phase = "starting"
    BY <1>4 DEF CreateCopy, Doing, Writing, Onward
  <2> QED
    BY <1>4, <2>1 DEF CreateCopy, Defines
<1>5. ASSUME CopyRows PROVE /\ work' = [work EXCEPT !.table = [work.table EXCEPT ![step] = [work.table[step] EXCEPT !.copy = "full"]]]
                            /\ inTx' = TRUE /\ saved' = saved
  BY <1>5 DEF CopyRows, Alters
<1>6. ASSUME DropOld PROVE work' = [work EXCEPT !.table = [work.table EXCEPT ![step] = [work.table[step] EXCEPT !.main = FALSE, !.indexed = FALSE]]]
  BY <1>6 DEF DropOld, Defines
<1>7. ASSUME RenameCopy
      PROVE  work' = [work EXCEPT !.table = [work.table EXCEPT ![step] = [work.table[step] EXCEPT !.main = (work.table[step].copy = "full"),
                                                                                                 !.copy = "none", !.shape = "new"]]]
  BY <1>7 DEF RenameCopy, Defines
<1>8. ASSUME Index PROVE work' = [work EXCEPT !.table = [work.table EXCEPT ![step] = [work.table[step] EXCEPT !.indexed = TRUE]]]
  BY <1>8 DEF Index, Defines
<1>9. ASSUME ~CopyRows PROVE inTx' = inTx /\ saved' = IF inTx THEN saved ELSE work'
  <2>1. ASSUME CreateCopy PROVE Defines(work')
    <3>1. phase' = phase /\ phase = "starting"
      BY <2>1 DEF CreateCopy, Doing, Writing, Onward
    <3> QED
      BY <2>1, <3>1 DEF CreateCopy, Defines
  <2>2. Defines(work')
    BY <1>9, <2>1 DEF Clear, DropOld, RenameCopy, Index, Defines
  <2> QED
    BY <2>2 DEF Defines
<1>10. \E r : work' = [work EXCEPT !.table = [work.table EXCEPT ![step] = r]]
  BY <1>3, <1>4, <1>5, <1>6, <1>7, <1>8
<1>11. work'.keys = work.keys /\ \A t \in Rebuilt : t # step => work'.table[t] = work.table[t]
  BY <1>1, <1>10, TableWritten
<1>12. \A r : work' = [work EXCEPT !.table = [work.table EXCEPT ![step] = r]] => work'.table[step] = r
  BY <1>1, TableWritten
<1>13. Clear => work'.table[step] = [work.table[step] EXCEPT !.copy = "none"]
  BY <1>3, <1>12
<1>14. CreateCopy => work'.table[step] = [work.table[step] EXCEPT !.copy = "empty"]
  BY <1>4, <1>12
<1>15. CopyRows => work'.table[step] = [work.table[step] EXCEPT !.copy = "full"] /\ inTx' = TRUE /\ saved' = saved
  BY <1>5, <1>12
<1>16. DropOld => work'.table[step] = [work.table[step] EXCEPT !.main = FALSE, !.indexed = FALSE]
  BY <1>6, <1>12
<1>17. RenameCopy => work'.table[step] = [work.table[step] EXCEPT !.main = (work.table[step].copy = "full"),
                                                                  !.copy = "none", !.shape = "new"]
  BY <1>7, <1>12
<1>18. Index => work'.table[step] = [work.table[step] EXCEPT !.indexed = TRUE]
  BY <1>8, <1>12
<1> QED
  BY <1>9, <1>11, <1>13, <1>14, <1>15, <1>16, <1>17, <1>18

LEMMA NextTables ==
    ASSUME StartTypes, KeysSoFar, TablesSoFar, StartTypes', KeysSoFar', StartNext
    PROVE  TablesSoFar'
<1>0. /\ (~inTx => work = saved) /\ Settled(saved) /\ work \in Databases /\ saved \in Databases
      /\ 17 \in Patches /\ 19 \in Patches /\ 34 \notin Patches /\ Rebuilt = {17, 19} /\ Finally = 34 /\ Patches = 1..33
      /\ Leaves = 17 /\ Evidence = 19
  BY RunnersAre DEF StartTypes, TablesSoFar, Rebuilt, Leaves, Evidence
<1>1. ASSUME Settled(saved'), Settled(work'), phase' \in {"down", "serving"} \/ (phase' = "starting" /\ step' \notin Rebuilt)
      PROVE  TablesSoFar'
  BY <1>0, <1>1 DEF TablesSoFar
<1>2. ASSUME Settled(saved'), Settled(work'), phase' = "starting", at' = 1
      PROVE  TablesSoFar'
  <2>1. /\ work'.table[17] \in {OldTable, BareTable, NewTable} /\ work'.table[19] \in {OldTable, LeftTable, NewTable}
        /\ (17 \in work'.keys => work'.table[17] = NewTable) /\ (19 \in work'.keys => work'.table[19] = NewTable)
    BY <1>0, <1>2 DEF Settled
  <2>2. LeavesAt(at', work'.table[17]) /\ EvidenceAt(at', work'.table[19])
    BY <1>2, <2>1 DEF LeavesAt, EvidenceAt
  <2> QED
    BY <1>0, <1>2, <2>1, <2>2 DEF TablesSoFar
<1>3. ASSUME phase = "starting", step = 17, step' = 17, phase' = "starting",
             LeavesAt(at', work'.table[17]), at' \in 5..6 => ~inTx', at' \in 7..12 => inTx',
             work'.table[19] = work.table[19], 19 \in work'.keys => 19 \in work.keys, Settled(saved')
      PROVE  TablesSoFar'
  BY <1>0, <1>3 DEF TablesSoFar
<1>4. ASSUME phase = "starting", step = 19, step' = 19, phase' = "starting",
             EvidenceAt(at', work'.table[19]), at' \in 2..3 => ~inTx', at' \in 4..6 => inTx',
             work'.table[17] = work.table[17], 17 \in work'.keys => 17 \in work.keys, Settled(saved')
      PROVE  TablesSoFar'
  BY <1>0, <1>4 DEF TablesSoFar
<1>5. ASSUME NEW w, NEW v, Settled(v), w.table = v.table, w.keys \cap Rebuilt = v.keys \cap Rebuilt
      PROVE  Settled(w)
  BY <1>0, <1>5 DEF Settled
<1>6. ASSUME phase = "starting", step = 17
      PROVE  /\ LeavesAt(at, work.table[17]) /\ (at \in 5..6 => ~inTx) /\ (at \in 7..12 => inTx)
             /\ work.table[19] \in {OldTable, LeftTable, NewTable} /\ (19 \in work.keys => work.table[19] = NewTable)
             /\ Len(Script(17)) = 16 /\ at \in 1..16 /\ (17 \in work.keys <=> at = 16)
  BY <1>0, <1>6, Scripts DEF TablesSoFar, KeysSoFar
<1>7. ASSUME phase = "starting", step = 19
      PROVE  /\ EvidenceAt(at, work.table[19]) /\ (at \in 2..3 => ~inTx) /\ (at \in 4..6 => inTx)
             /\ work.table[17] \in {OldTable, BareTable, NewTable} /\ (17 \in work.keys => work.table[17] = NewTable)
             /\ Len(Script(19)) = 8 /\ at \in 1..8 /\ (19 \in work.keys <=> at = 8) /\ (at = 1 => ~inTx)
  BY <1>0, <1>7, Scripts DEF TablesSoFar, KeysSoFar
<1>8. ASSUME phase = "starting", step \notin Rebuilt PROVE Settled(work)
  BY <1>8 DEF TablesSoFar
<1>9. phase = "starting" => step \in 1..Finally /\ at \in 1..Len(Script(step))
  BY AtPlace
\* A statement that leaves the tables alone.
<1>10. ASSUME phase = "starting", Onward, Script(step)[at] \in {"ensure", "fill", "record", "catalog", "reference", "scopes", "demo", "admin",
                                                             "hr", "ranks", "dropView", "makeView", "rotation"},
              work'.table = work.table, work'.keys \in {work.keys, work.keys \cup {step}},
              Script(step)[at] # "record" => work'.keys = work.keys,
              saved' = saved \/ (~inTx /\ saved' = work' /\ work'.keys = work.keys)
       PROVE  TablesSoFar'
  <2>1. Settled(saved')
    <3>1. CASE ~inTx /\ saved' = work' /\ work'.keys = work.keys
      BY <1>0, <1>5, <1>10, <3>1
    <3> QED
      BY <1>0, <1>10, <3>1
  <2>2. Script(step)[at] # "serve"
    BY <1>10
  <2>3. CASE step = 17
    <3>1. at \in {1, 2, 3, 15} /\ (work'.keys # work.keys => at = 15) /\ Script(step)[at] # "commit"
      BY <1>6, <1>9, <1>10, <2>3, PlaceOf, Scripts
    <3>2. phase' = "starting" /\ step' = step /\ at' = at + 1
      BY <1>10, <2>2, <3>1, Advances
    <3>3. LeavesAt(at', work'.table[17])
      BY <1>6, <1>10, <2>3, <3>1, <3>2 DEF LeavesAt
    <3> QED
      BY <1>3, <1>10, <2>1, <2>3, <3>1, <3>2, <3>3
  <2>4. CASE step = 19
    <3>1. at = 7 /\ Script(step)[at] # "commit"
      BY <1>7, <1>9, <1>10, <2>4, PlaceOf, Scripts
    <3>2. phase' = "starting" /\ step' = step /\ at' = at + 1
      BY <1>10, <2>2, <3>1, Advances
    <3>3. EvidenceAt(at', work'.table[19])
      BY <1>7, <1>10, <2>4, <3>1, <3>2 DEF EvidenceAt
    <3> QED
      BY <1>4, <1>10, <2>1, <2>4, <3>1, <3>2, <3>3
  <2>5. CASE step \notin Rebuilt
    <3>1. work'.keys \cap Rebuilt = work.keys \cap Rebuilt
      BY <1>10, <2>5
    <3>2. Settled(work')
      BY <1>5, <1>8, <1>10, <2>5, <3>1
    <3>3. phase' = "starting" /\ (step' = step \/ at' = 1)
      BY <1>10, <2>2, Advances
    <3> QED
      BY <1>1, <1>2, <2>1, <2>5, <3>2, <3>3
  <2> QED
    BY <1>0, <2>3, <2>4, <2>5
<1>11. ASSUME phase = "starting", Commit PROVE TablesSoFar'
  <2>1. Script(step)[at] = "commit" /\ saved' = work /\ work' = work /\ inTx' = FALSE /\ Onward
    BY <1>11 DEF Commit, Doing
  <2>2. Settled(work)
    <3>1. CASE step = 17
      <4>1. at \in {4, 12, 14, 16}
        BY <1>9, <1>11, <2>1, <3>1, PlaceOf
      <4>2. work.table[17] \in {OldTable, BareTable, NewTable} /\ (at \in {14, 16} => work.table[17] = NewTable)
        BY <1>6, <1>11, <3>1, <4>1 DEF LeavesAt
      <4> QED
        BY <1>0, <1>6, <1>11, <3>1, <4>2 DEF Settled
    <3>2. CASE step = 19
      <4>1. at = 8
        BY <1>9, <1>11, <2>1, <3>2, PlaceOf
      <4>2. work.table[19] = NewTable
        BY <1>7, <1>11, <3>2, <4>1 DEF EvidenceAt
      <4> QED
        BY <1>0, <1>7, <1>11, <3>2, <4>2 DEF Settled
    <3> QED
      BY <1>0, <1>8, <1>11, <3>1, <3>2
  <2>3. /\ phase' = "starting"
        /\ (at < Len(Script(step)) /\ at' = at + 1 /\ step' = step) \/ at' = 1
    BY <1>11, <2>1, Advances
  <2>4. CASE at' = 1
    BY <1>2, <2>1, <2>2, <2>3, <2>4
  <2>5. CASE at < Len(Script(step)) /\ at' = at + 1 /\ step' = step
    <3>1. CASE step = 17
      <4>1. at \in {4, 12, 14}
        <5>1. at \in {4, 12, 14, 16}
          BY <1>9, <1>11, <2>1, <3>1, PlaceOf
        <5>2. Len(Script(step)) = 16
          BY <1>6, <1>11, <3>1
        <5> QED
          BY <2>5, <5>1, <5>2
      <4>2. LeavesAt(at', work'.table[17])
        BY <1>6, <1>11, <2>1, <2>5, <3>1, <4>1 DEF LeavesAt
      <4>3. at' \in {5, 13, 15}
        BY <2>5, <4>1
      <4> QED
        BY <1>3, <1>11, <2>1, <2>2, <2>3, <2>5, <3>1, <4>2, <4>3
    <3>2. step # 19
      <4>1. step = 19 => at = 8
        BY <1>9, <1>11, <2>1, PlaceOf
      <4> QED
        <5> SUFFICES ASSUME step = 19 PROVE FALSE
          OBVIOUS
        <5>1. Len(Script(step)) = 8 /\ at = 8
          BY <1>7, <1>11, <4>1
        <5>2. at < Len(Script(step))
          BY <2>5
        <5>3. 8 < 8
          BY <5>1, <5>2, Zenon
        <5> QED
          BY <5>3
    <3>3. CASE step \notin Rebuilt
      BY <1>1, <2>1, <2>2, <2>3, <2>5, <3>3
    <3> QED
      BY <1>0, <3>1, <3>2, <3>3
  <2> QED
    BY <2>3, <2>4, <2>5
<1>12. ASSUME phase = "starting", Unless PROVE TablesSoFar'
  <2>1. /\ Script(step)[at] = "unlessNew" /\ step' = step /\ phase' = phase /\ saved' = saved /\ work' = work /\ inTx' = inTx
        /\ at' = IF work.table[step].shape = "new" THEN PastRebuild ELSE at + 1
    BY <1>12 DEF Unless, Doing, Stays
  <2>2. (step = 17 /\ at = 5) \/ (step = 19 /\ at = 1)
    BY <1>9, <1>12, <2>1, PlaceOf
  <2>3. CASE step = 17 /\ at = 5
    <3>1. work.table[17] \in {OldTable, BareTable, NewTable} /\ ~inTx
      BY <1>6, <1>12, <2>3 DEF LeavesAt
    <3>2. CASE work.table[17] = OldTable
      <4>1. at' = 6
        BY <2>1, <2>3, <3>2, TableSteps
      <4> QED
        BY <1>0, <1>3, <1>12, <2>1, <2>3, <3>1, <3>2, <4>1 DEF LeavesAt
    <3>3. CASE work.table[17] \in {BareTable, NewTable}
      <4>1. at' = 13
        <5>1. work.table[step].shape = "new"
          BY <2>3, <3>3, TableSteps
        <5> QED
          BY <2>1, <2>3, <5>1, RebuildEnds
      <4> QED
        BY <1>0, <1>3, <1>12, <2>1, <2>3, <3>1, <3>3, <4>1 DEF LeavesAt
    <3> QED
      BY <3>1, <3>2, <3>3
  <2>4. CASE step = 19 /\ at = 1
    <3>1. work.table[19] \in {OldTable, LeftTable, NewTable} /\ ~inTx
      BY <1>7, <1>12, <2>4 DEF EvidenceAt
    <3>2. CASE work.table[19] \in {OldTable, LeftTable}
      <4>1. at' = 2
        BY <2>1, <2>4, <3>2, TableSteps
      <4> QED
        BY <1>0, <1>4, <1>12, <2>1, <2>4, <3>1, <3>2, <4>1 DEF EvidenceAt
    <3>3. CASE work.table[19] = NewTable
      <4>1. at' = 7
        BY <2>1, <2>4, <3>3, TableSteps, RebuildEnds
      <4> QED
        BY <1>0, <1>4, <1>12, <2>1, <2>4, <3>1, <3>3, <4>1 DEF EvidenceAt
    <3> QED
      BY <3>1, <3>2, <3>3
  <2> QED
    BY <2>2, <2>3, <2>4
<1>13. ASSUME phase = "starting", Begin PROVE TablesSoFar'
  <2>1. Script(step)[at] = "begin" /\ saved' = saved /\ work' = work /\ inTx' = TRUE /\ Onward
    BY <1>13 DEF Begin, Doing
  <2>2. step = 17 /\ at = 6
    BY <1>9, <1>13, <2>1, PlaceOf
  <2>3. phase' = "starting" /\ step' = 17 /\ at' = 7
    BY <1>13, <2>1, <2>2, Advances
  <2>4. work.table[17] = OldTable
    BY <1>6, <1>13, <2>2 DEF LeavesAt
  <2> QED
    BY <1>0, <1>3, <1>13, <2>1, <2>2, <2>3, <2>4 DEF LeavesAt
<1>14. ASSUME phase = "starting", Writing, Clear \/ CreateCopy \/ CopyRows \/ DropOld \/ RenameCopy \/ Index PROVE TablesSoFar'
  <2>1. /\ Clear => Script(step)[at] = "clear"
        /\ CreateCopy => Script(step)[at] = "create" /\ (work.table[step].copy = "none" \/ phase' = "failed")
        /\ CopyRows => Script(step)[at] = "copy"
        /\ DropOld => Script(step)[at] = "drop"
        /\ RenameCopy => Script(step)[at] = "rename"
        /\ Index => Script(step)[at] = "index"
    BY DEF Clear, CreateCopy, CopyRows, DropOld, RenameCopy, Index, Doing
  <2>2. Script(step)[at] \in {"clear", "create", "copy", "drop", "rename", "index"} /\ Onward
    BY <1>14, <2>1 DEF Writing
  <2>3. /\ phase' = "starting" /\ step' = step /\ at' = at + 1
    BY <1>14, <2>2, Advances
  <2>4. /\ Clear => step = 17 /\ at = 7
        /\ CreateCopy => (step = 17 /\ at = 8) \/ (step = 19 /\ at = 2)
        /\ CopyRows => (step = 17 /\ at = 9) \/ (step = 19 /\ at = 3)
        /\ DropOld => (step = 17 /\ at = 10) \/ (step = 19 /\ at = 4)
        /\ RenameCopy => (step = 17 /\ at = 11) \/ (step = 19 /\ at = 5)
        /\ Index => (step = 17 /\ at = 13) \/ (step = 19 /\ at = 6)
    BY <1>9, <1>14, <2>1, PlaceOf
  <2>5. step \in Rebuilt
    BY <1>0, <1>14, <2>4
  <2>6. /\ work'.keys = work.keys /\ \A t \in Rebuilt : t # step => work'.table[t] = work.table[t]
        /\ Clear => work'.table[step] = [work.table[step] EXCEPT !.copy = "none"]
        /\ CreateCopy => work'.table[step] = [work.table[step] EXCEPT !.copy = "empty"]
        /\ CopyRows => work'.table[step] = [work.table[step] EXCEPT !.copy = "full"] /\ inTx' = TRUE /\ saved' = saved
        /\ DropOld => work'.table[step] = [work.table[step] EXCEPT !.main = FALSE, !.indexed = FALSE]
        /\ RenameCopy => work'.table[step] = [work.table[step] EXCEPT !.main = (work.table[step].copy = "full"),
                                                                     !.copy = "none", !.shape = "new"]
        /\ Index => work'.table[step] = [work.table[step] EXCEPT !.indexed = TRUE]
        /\ ~CopyRows => inTx' = inTx /\ saved' = IF inTx THEN saved ELSE work'
    BY <1>14, <2>5, TablesWritten
  <2>7. CASE step = 17
    <3>1. /\ Clear => work.table[17] = OldTable
          /\ CreateCopy => work.table[17] = OldTable
          /\ CopyRows => work.table[17] = LeftTable
          /\ DropOld => work.table[17] = FullTable
          /\ RenameCopy => work.table[17] = GoneTable
          /\ Index => work.table[17] \in {BareTable, NewTable}
      BY <1>6, <1>14, <2>4, <2>7 DEF LeavesAt
    <3>2. /\ Clear => work'.table[17] = OldTable
          /\ CreateCopy => work'.table[17] = LeftTable
          /\ CopyRows => work'.table[17] = FullTable
          /\ DropOld => work'.table[17] = GoneTable
          /\ RenameCopy => work'.table[17] = BareTable
          /\ Index => work'.table[17] = NewTable
      <4>1. ASSUME Clear PROVE work'.table[17] = OldTable
        <5>1. work'.table[step] = OldTable
          BY <2>6, <2>7, <3>1, <4>1, TableSteps
        <5> QED
          BY <2>7, <5>1
      <4>2. ASSUME CreateCopy PROVE work'.table[17] = LeftTable
        <5>1. work'.table[step] = LeftTable
          BY <2>6, <2>7, <3>1, <4>2, TableSteps
        <5> QED
          BY <2>7, <5>1
      <4>3. ASSUME CopyRows PROVE work'.table[17] = FullTable
        <5>1. work'.table[step] = FullTable
          BY <2>6, <2>7, <3>1, <4>3, TableSteps
        <5> QED
          BY <2>7, <5>1
      <4>4. ASSUME DropOld PROVE work'.table[17] = GoneTable
        <5>1. work'.table[step] = GoneTable
          BY <2>6, <2>7, <3>1, <4>4, TableSteps
        <5> QED
          BY <2>7, <5>1
      <4>5. ASSUME RenameCopy PROVE work'.table[17] = BareTable
        <5>1. work'.table[step] = BareTable
          BY <2>6, <2>7, <3>1, <4>5, TableSteps
        <5> QED
          BY <2>7, <5>1
      <4>6. ASSUME Index PROVE work'.table[17] = NewTable
        <5>1. work'.table[17] = [work.table[17] EXCEPT !.indexed = TRUE]
          BY <2>6, <2>7, <4>6
        <5>2. work.table[17] = BareTable \/ work.table[17] = NewTable
          BY <3>1, <4>6
        <5>3. CASE work.table[17] = BareTable
          BY <5>1, <5>3, TableSteps, Zenon
        <5>4. CASE work.table[17] = NewTable
          BY <5>1, <5>4, TableSteps, Zenon
        <5> QED
          BY <5>2, <5>3, <5>4
      <4> QED
        BY <4>1, <4>2, <4>3, <4>4, <4>5, <4>6
    <3>3. LeavesAt(at', work'.table[17])
      BY <1>14, <2>3, <2>4, <2>7, <3>2 DEF LeavesAt
    <3>4. ~Index => inTx /\ inTx' /\ saved' = saved /\ at' \in 8..12
      BY <1>6, <1>14, <2>3, <2>4, <2>6, <2>7
    <3>5. Index => at' = 14
      BY <2>3, <2>4, <2>7
    <3>6. work'.table[19] = work.table[19]
      BY <1>0, <2>6, <2>7
    <3>7. Settled(saved')
      <4>1. CASE saved' = saved
        BY <1>0, <4>1
      <4>2. CASE saved' = work' /\ Index
        BY <1>0, <1>6, <1>14, <2>6, <2>7, <3>2, <3>6, <4>2 DEF Settled
      <4>3. Index => saved' = saved \/ saved' = work'
        <5>1. Index => ~CopyRows
          BY <2>1
        <5> QED
          BY <2>6, <5>1
      <4> QED
        BY <3>4, <4>1, <4>2, <4>3
    <3>8. (at' \in 5..6 => ~inTx') /\ (at' \in 7..12 => inTx')
      <4>1. CASE Index
        BY <3>5, <4>1
      <4>2. CASE ~Index
        BY <3>4, <4>2
      <4> QED
        BY <4>1, <4>2
    <3> QED
      BY <1>3, <1>14, <2>3, <2>6, <2>7, <3>3, <3>6, <3>7, <3>8
  <2>8. CASE step = 19
    <3>0. ~Clear
      BY <2>4, <2>8
    <3>1. /\ CreateCopy => work.table[19] = OldTable
          /\ CopyRows => work.table[19] = LeftTable
          /\ DropOld => work.table[19] = FullTable
          /\ RenameCopy => work.table[19] = GoneTable
          /\ Index => work.table[19] = BareTable
      <4>1. CreateCopy => work.table[19] \in {OldTable, LeftTable} /\ work.table[19].copy = "none"
        BY <1>7, <1>14, <2>1, <2>3, <2>4, <2>8 DEF EvidenceAt
      <4> QED
        BY <1>7, <1>14, <2>4, <2>8, <4>1, TableSteps DEF EvidenceAt
    <3>2. /\ CreateCopy => work'.table[19] = LeftTable
          /\ CopyRows => work'.table[19] = FullTable
          /\ DropOld => work'.table[19] = GoneTable
          /\ RenameCopy => work'.table[19] = BareTable
          /\ Index => work'.table[19] = NewTable
      <4>1. ASSUME CreateCopy PROVE work'.table[19] = LeftTable
        <5>1. work'.table[step] = LeftTable
          BY <2>6, <2>8, <3>1, <4>1, TableSteps
        <5> QED
          BY <2>8, <5>1
      <4>2. ASSUME CopyRows PROVE work'.table[19] = FullTable
        <5>1. work'.table[step] = FullTable
          BY <2>6, <2>8, <3>1, <4>2, TableSteps
        <5> QED
          BY <2>8, <5>1
      <4>3. ASSUME DropOld PROVE work'.table[19] = GoneTable
        <5>1. work'.table[step] = GoneTable
          BY <2>6, <2>8, <3>1, <4>3, TableSteps
        <5> QED
          BY <2>8, <5>1
      <4>4. ASSUME RenameCopy PROVE work'.table[19] = BareTable
        <5>1. work'.table[step] = BareTable
          BY <2>6, <2>8, <3>1, <4>4, TableSteps
        <5> QED
          BY <2>8, <5>1
      <4>5. ASSUME Index PROVE work'.table[19] = NewTable
        <5>1. work'.table[step] = NewTable
          BY <2>6, <2>8, <3>1, <4>5, TableSteps
        <5> QED
          BY <2>8, <5>1
      <4> QED
        BY <4>1, <4>2, <4>3, <4>4, <4>5
    <3>3. EvidenceAt(at', work'.table[19])
      BY <1>14, <2>3, <2>4, <2>8, <3>0, <3>2 DEF EvidenceAt
    <3>4. DropOld \/ RenameCopy \/ Index => inTx /\ inTx' /\ saved' = saved /\ at' \in 5..7
      <4>1. DropOld \/ RenameCopy \/ Index => ~CopyRows /\ at \in 4..6
        BY <2>1, <2>4, <2>8
      <4> QED
        BY <1>7, <1>14, <2>3, <2>6, <2>8, <4>1
    <3>5. CopyRows => at' = 4 /\ inTx' = TRUE /\ saved' = saved
      BY <2>3, <2>4, <2>6, <2>8
    <3>6. CreateCopy => at' = 3 /\ ~inTx /\ ~inTx' /\ saved' = work'
      <4>1. CreateCopy => ~CopyRows
        BY <2>1
      <4> QED
        BY <1>7, <1>14, <2>3, <2>4, <2>6, <2>8, <4>1
    <3>7. work'.table[17] = work.table[17]
      BY <1>0, <2>6, <2>8
    <3>8. Settled(saved')
      <4>1. CASE saved' = saved
        BY <1>0, <4>1
      <4>2. CASE saved' = work' /\ CreateCopy
        <5>1. 19 \notin work.keys
          BY <1>7, <1>14, <2>4, <2>8, <4>2
        <5> QED
          BY <1>0, <1>7, <1>14, <2>6, <2>8, <3>2, <3>7, <4>2, <5>1 DEF Settled
      <4> QED
        BY <1>14, <3>0, <3>4, <3>5, <3>6, <4>1, <4>2
    <3>9. (at' \in 2..3 => ~inTx') /\ (at' \in 4..6 => inTx')
      <4>1. CASE CreateCopy
        BY <3>6, <4>1
      <4>2. CASE CopyRows
        BY <3>5, <4>2
      <4>3. CASE DropOld \/ RenameCopy \/ Index
        BY <3>4, <4>3
      <4> QED
        BY <1>14, <3>0, <4>1, <4>2, <4>3
    <3> QED
      BY <1>4, <1>14, <2>3, <2>6, <2>8, <3>3, <3>7, <3>8, <3>9
  <2> QED
    BY <1>0, <2>5, <2>7, <2>8
\* A start fails at the leftover of the attachments' copy only.
<1>15. ASSUME phase = "starting", Failing, Run PROVE TablesSoFar'
  <2>1. phase' = "failed" /\ saved' = saved /\ work' = work /\ step' = step
    BY <1>15 DEF Failing, Stays
  <2>2. ~Onward
    BY <1>15, <2>1 DEF Onward
  <2>3. ~Ensure
    <3>1. ASSUME Ensure, Missing(Rank), work.made[step] >= Rank PROVE FALSE
      <4>1. Script(step)[at] = "ensure"
        BY <3>1 DEF Ensure, Doing
      <4>2. step \in Patches /\ at \in 0..Len(Script(step))
        BY <1>9, <1>15, <4>1, PlaceOf
      <4>3. Rank \in Nat
        BY <4>2, Counts DEF Rank, EnsuresTo
      <4>4. work.made[step] \in Nat
        BY <1>0, <4>2 DEF Databases
      <4> QED
        BY <3>1, <4>3, <4>4 DEF Missing
    <3> QED
      BY <2>2, <3>1 DEF Ensure
  <2>4. CreateCopy
    BY <1>15, <2>1, <2>2, <2>3 DEF Run, BeginStart, Fill, Commit, Record, Unless, Begin, Clear, CopyRows, DropOld, RenameCopy, Index,
          Catalog, Reference, ScopeSync, Demo, Admin, Hr, Ranks, DropView, MakeView, Rotation, Serve
  <2>5. Script(step)[at] = "create" /\ work.table[step].copy # "none"
    BY <2>2, <2>4 DEF CreateCopy, Doing
  <2>6. (step = 17 /\ at = 8) \/ (step = 19 /\ at = 2)
    BY <1>9, <1>15, <2>5, PlaceOf
  <2>7. step = 19 /\ at = 2
    BY <1>6, <1>15, <2>5, <2>6, TableSteps DEF LeavesAt
  <2>8. work.table[19] = LeftTable /\ ~inTx
    BY <1>7, <1>15, <2>5, <2>7, TableSteps DEF EvidenceAt
  <2> QED
    BY <1>0, <2>1, <2>8 DEF TablesSoFar
<1>16. ASSUME phase = "starting", (Ensure \/ Fill) /\ Writing PROVE TablesSoFar'
  <2>1. Script(step)[at] \in {"ensure", "fill"} /\ Onward
    BY <1>16 DEF Ensure, Fill, Doing, Writing
  <2>2. step \in Patches
    BY <1>9, <1>16, <2>1, PlaceOf
  <2>3. work'.table = work.table
    <3>1. phase' # "failed"
      BY <1>16 DEF Writing, Onward
    <3> QED
      BY <1>0, <1>16, <2>2, <3>1 DEF Ensure, Fill, Defines, Alters, Databases
  <2>4. saved' = saved \/ (~inTx /\ saved' = work')
    BY <1>16 DEF Writing
  <2> QED
    BY <1>10, <1>16, <2>1, <2>3, <2>4 DEF Writing
<1>17. ASSUME phase = "starting", Record PROVE TablesSoFar'
  <2>1. Script(step)[at] = "record" /\ saved' = saved /\ Onward /\ work' = [work EXCEPT !.keys = @ \cup {step}]
    BY <1>17 DEF Record, Doing, Alters
  <2>2. work'.table = work.table /\ work'.keys = work.keys \cup {step}
    BY <1>0, <2>1 DEF Databases
  <2> QED
    BY <1>10, <1>17, <2>1, <2>2
<1>18. ASSUME phase = "starting", Catalog \/ Reference \/ ScopeSync \/ Demo \/ Admin \/ Hr \/ Ranks \/ DropView \/ MakeView \/ Rotation, Writing PROVE TablesSoFar'
  <2>1. Script(step)[at] \in {"catalog", "reference", "scopes", "demo", "admin", "hr", "ranks", "dropView", "makeView", "rotation"} /\ Onward
    BY <1>18 DEF Catalog, Reference, ScopeSync, Demo, Admin, Hr, Ranks, DropView, MakeView, Rotation, Doing, Writing
  <2>2. work'.table = work.table
    <3>1. CASE Catalog \/ Reference
      BY <1>0, <3>1 DEF Catalog, Reference, Alters, Databases
    <3>2. CASE ScopeSync \/ Ranks
      BY <1>0, <3>2 DEF ScopeSync, Ranks, Alters, Databases
    <3>3. CASE Demo \/ Admin \/ Hr \/ Rotation
      BY <1>0, <3>3 DEF Demo, Admin, Hr, Rotation, Alters, Databases
    <3>4. CASE DropView \/ MakeView
      BY <1>0, <3>4 DEF DropView, MakeView, Defines, Databases
    <3> QED
      BY <1>18, <3>1, <3>2, <3>3, <3>4
  <2>3. saved' = saved \/ (~inTx /\ saved' = work')
    BY <1>18 DEF Writing
  <2> QED
    BY <1>10, <1>18, <2>1, <2>2, <2>3 DEF Writing
<1>19. ASSUME phase = "starting", Serve PROVE TablesSoFar'
  <2>1. Script(step)[at] = "serve" /\ phase' = "serving" /\ saved' = saved /\ work' = work
    BY <1>19 DEF Serve, Doing, Stays
  <2>2. step \notin Rebuilt
    BY <1>0, <1>9, <1>19, <2>1, PlaceOf
  <2> QED
    BY <1>0, <1>1, <1>8, <1>19, <2>1, <2>2
<1>20. ASSUME Run PROVE TablesSoFar'
  <2>1. CASE phase = "starting"
    BY <1>11, <1>12, <1>13, <1>14, <1>15, <1>16, <1>17, <1>18, <1>19, <1>20, <2>1, Statements
  <2>2. CASE phase # "starting"
    <3>1. BeginStart
      BY <1>20, <2>2 DEF Run, Ensure, Fill, Commit, Record, Unless, Begin, Clear, CreateCopy, CopyRows, DropOld,
            RenameCopy, Index, Catalog, Reference, ScopeSync, Demo, Admin, Hr, Ranks, DropView, MakeView, Rotation, Serve, Doing
    <3>2. Settled(work)
      BY <2>2 DEF TablesSoFar
    <3> QED
      BY <1>0, <1>2, <3>1, <3>2 DEF BeginStart, Stays
  <2> QED
    BY <2>1, <2>2
<1>21. ASSUME NEW w, Edits(w), w.table = saved.table, w.keys = saved.keys PROVE TablesSoFar'
  <2>1. work' = w /\ saved' = w /\ phase' = "serving"
    BY <1>21 DEF Edits
  <2>2. Settled(w)
    BY <1>0, <1>5, <1>21
  <2> QED
    BY <1>1, <2>1, <2>2
<1>22. ASSUME NEW s \in LaterRows, Enter(s) PROVE TablesSoFar'
  BY <1>21, <1>22 DEF Enter
<1>23. ASSUME NEW a \in Accounts, ChangePassword(a) \/ Disable(a) PROVE TablesSoFar'
  BY <1>0, <1>21, <1>23 DEF ChangePassword, Disable, Databases
<1>24. ASSUME ResetHr \/ AddKind \/ OfficeTurns \/ \E m \in BOOLEAN : Appoint(m) PROVE TablesSoFar'
  BY <1>0, <1>21, <1>24 DEF ResetHr, AddKind, OfficeTurns, Appoint, Databases
<1>25. ASSUME NEW release, Halt(release) PROVE TablesSoFar'
  BY <1>0, <1>1, <1>25 DEF Halt
<1> QED
  BY <1>20, <1>22, <1>23, <1>24, <1>25 DEF StartNext

LEMMA NextOpening ==
    ASSUME StartTypes, KeysSoFar, OpeningSoFar, StartTypes', KeysSoFar', StartNext
    PROVE  OpeningSoFar'
<1>0. /\ (~inTx => work = saved) /\ work \in Databases /\ saved \in Databases /\ known \in 0..33
      /\ 34 \notin Patches /\ Finally = 34 /\ Patches = 1..33
  BY RunnersAre DEF StartTypes
<1>1. ASSUME phase' \notin {"starting", "serving"} \/ (phase' = "starting" /\ (step' # 34 \/ at' = 1)) PROVE OpeningSoFar'
  BY <1>1 DEF OpeningSoFar
<1>2. phase = "starting" => step \in 1..Finally /\ at \in 1..Len(Script(step))
  BY AtPlace
<1>3. ASSUME phase = "starting", step = 34
      PROVE  /\ (at >= 2 => work.people = "circle") /\ (at >= 4 => work.granted = known) /\ (at = 19 => ~inTx)
             /\ (at >= 17 => work.view) /\ at \in 1..19
             /\ Script(34) = Guarantees /\ Len(Script(34)) = 19
             /\ Script(34)[1] = "catalog" /\ Script(34)[3] = "reference" /\ Script(34)[16] = "makeView"
             /\ Script(34)[18] = "commit" /\ Script(34)[19] = "serve"
  <2>1. /\ Script(34) = Guarantees /\ Len(Script(34)) = 19
        /\ Script(34)[1] = "catalog" /\ Script(34)[3] = "reference" /\ Script(34)[16] = "makeView"
        /\ Script(34)[18] = "commit" /\ Script(34)[19] = "serve"
    BY <1>0, Scripts DEF Guarantees
  <2>2. at \in 1..19
    BY <1>2, <1>3, <2>1
  <2> QED
    BY <1>3, <2>1, <2>2 DEF OpeningSoFar
<1>4. ASSUME phase = "starting", Onward, Script(step)[at] # "serve",
             Script(step)[at] # "catalog" => work'.people = work.people,
             Script(step)[at] = "catalog" => work'.people = "circle",
             Script(step)[at] # "reference" => work'.granted = work.granted,
             Script(step)[at] = "reference" => work'.granted = known,
             Script(step)[at] = "commit" => ~inTx',
             Script(step)[at] = "makeView" => work'.view,
             Script(step)[at] # "makeView" /\ work.view /\ ~work'.view => Script(step)[at] = "dropView"
      PROVE  OpeningSoFar'
  <2>1. /\ phase' = "starting" /\ known' = known
        /\ (at < Len(Script(step)) /\ at' = at + 1 /\ step' = step) \/ at' = 1
    BY <1>4, Advances
  <2>2. CASE at' = 1 \/ step' # 34
    BY <1>1, <2>1, <2>2
  <2>3. CASE at' = at + 1 /\ step' = step /\ step = 34
    <3>1. at \in 1..18
      <4>1. at \in 1..19 /\ at # 19
        BY <1>3, <1>4, <2>3
      <4> QED
        BY <4>1
    <3>2. at' >= 2 => work'.people = "circle"
      <4>1. CASE at = 1
        BY <1>3, <1>4, <2>3, <4>1
      <4>2. CASE at # 1
        <5>1. at >= 2
          BY <3>1, <4>2
        <5> QED
          BY <1>3, <1>4, <2>3, <5>1
      <4> QED
        BY <4>1, <4>2
    <3>3. at' >= 4 => work'.granted = known'
      <4>1. CASE at = 3
        BY <1>3, <1>4, <2>1, <2>3, <4>1
      <4>2. CASE at # 3
        <5>1. at' >= 4 => at >= 4
          BY <2>3, <3>1, <4>2
        <5> QED
          BY <1>3, <1>4, <2>1, <2>3, <5>1
      <4> QED
        BY <4>1, <4>2
    <3>4. at' = 19 => ~inTx'
      BY <1>3, <1>4, <2>3, <3>1
    <3>5. at' >= 17 => work'.view
      <4>1. CASE at = 16
        BY <1>3, <1>4, <2>3, <4>1
      <4>2. CASE at \in 17..18
        <5>1. Script(step)[at] \in {"rotation", "commit"} /\ work.view
          BY <1>3, <1>4, <2>3, <4>2 DEF Guarantees
        <5>2. Script(step)[at] # "dropView" /\ Script(step)[at] # "makeView"
          BY <5>1
        <5> QED
          BY <1>4, <5>1, <5>2
      <4>3. CASE at \in 1..15
        BY <2>3, <4>3
      <4> QED
        BY <3>1, <4>1, <4>2, <4>3
    <3> QED
      BY <2>1, <3>2, <3>3, <3>4, <3>5 DEF OpeningSoFar
  <2> QED
    BY <2>1, <2>2, <2>3
<1>5. ASSUME phase = "starting", Commit PROVE OpeningSoFar'
  BY <1>4, <1>5 DEF Commit, Doing
<1>6. ASSUME phase = "starting", Record PROVE OpeningSoFar'
  <2>1. Script(step)[at] = "record" /\ work' = [work EXCEPT !.keys = @ \cup {step}] /\ Onward
    BY <1>6 DEF Record, Doing, Alters
  <2>2. work'.people = work.people /\ work'.granted = work.granted /\ work'.view = work.view
    BY <1>0, <2>1 DEF Databases
  <2> QED
    BY <1>4, <1>6, <2>1, <2>2
<1>7. ASSUME phase = "starting", Begin PROVE OpeningSoFar'
  BY <1>4, <1>7 DEF Begin, Doing
<1>8. ASSUME phase = "starting", Unless PROVE OpeningSoFar'
  <2>1. Script(step)[at] = "unlessNew" /\ step' = step /\ phase' = phase
    BY <1>8 DEF Unless, Doing
  <2>2. step # 34
    BY <1>0, <1>2, <1>8, <2>1, PlaceOf
  <2> QED
    BY <1>1, <1>8, <2>1, <2>2
<1>9. ASSUME phase = "starting", Serve PROVE OpeningSoFar'
  <2>1. Script(step)[at] = "serve" /\ phase' = "serving" /\ saved' = saved /\ known' = known
    BY <1>9 DEF Serve, Doing, Stays
  <2>2. step = 34 /\ at = 19
    <3>1. step \in 1..Finally /\ at \in 1..Len(Script(step))
      BY <1>2, <1>9
    <3>2. step = Finally /\ at = 19
      BY <2>1, <3>1, PlaceOf
    <3> QED
      BY <1>0, <3>2
  <2>3. work = saved /\ work.people = "circle" /\ work.granted = known /\ work.view
    BY <1>0, <1>3, <1>9, <2>2
  <2>4. 1..known \subseteq work.keys
    <3>1. \A t \in 1..known : t < 34 => t \in work.keys
      BY <1>9, <2>2 DEF KeysSoFar
    <3> QED
      BY <1>0, <3>1
  <2> QED
    BY <2>1, <2>3, <2>4 DEF OpeningSoFar
<1>10. ASSUME phase = "starting", Writing, Ensure \/ Fill \/ Clear \/ CreateCopy \/ CopyRows \/ DropOld \/ RenameCopy \/ Index
       PROVE  OpeningSoFar'
  <2>1. Script(step)[at] \in {"ensure", "fill", "clear", "create", "copy", "drop", "rename", "index"} /\ Onward
    BY <1>10 DEF Ensure, Fill, Clear, CreateCopy, CopyRows, DropOld, RenameCopy, Index, Doing, Writing
  <2>2. step # 34
    BY <1>0, <1>2, <1>10, <2>1, PlaceOf
  <2>3. phase' = "starting" /\ (step' = step \/ at' = 1)
    BY <1>10, <2>1, Advances
  <2> QED
    BY <1>1, <2>2, <2>3
<1>11. ASSUME phase = "starting", Writing, Catalog \/ Reference \/ ScopeSync \/ Demo \/ Admin \/ Hr \/ Ranks \/ DropView \/ MakeView \/ Rotation PROVE OpeningSoFar'
  <2> DEFINE Same == work'.people = work.people /\ work'.granted = work.granted
  <2>1. /\ Catalog => Script(step)[at] = "catalog" /\ work'.people = "circle" /\ work'.granted = work.granted
                      /\ work'.view = work.view
        /\ Reference => Script(step)[at] = "reference" /\ work'.people = work.people /\ work'.granted = known
                        /\ work'.view = work.view
    BY <1>0 DEF Catalog, Reference, Doing, Alters, Databases
  <2>2. /\ Demo => Script(step)[at] = "demo" /\ Same /\ work'.view = work.view
        /\ Admin => Script(step)[at] = "admin" /\ Same /\ work'.view = work.view
        /\ Hr => Script(step)[at] = "hr" /\ Same /\ work'.view = work.view
    BY <1>0 DEF Demo, Admin, Hr, Doing, Alters, Databases
  <2>3. /\ DropView => Script(step)[at] = "dropView" /\ Same
        /\ MakeView => Script(step)[at] = "makeView" /\ Same /\ work'.view
    BY <1>0 DEF DropView, MakeView, Doing, Defines, Databases
  <2>4. Onward
    BY <1>11 DEF Writing
  <2>5. CASE Catalog
    BY <1>4, <1>11, <2>1, <2>4, <2>5
  <2>6. CASE Reference
    BY <1>4, <1>11, <2>1, <2>4, <2>6
  <2>7. CASE Demo \/ Admin \/ Hr
    BY <1>4, <1>11, <2>2, <2>4, <2>7
  <2>8. CASE DropView \/ MakeView
    BY <1>4, <1>11, <2>3, <2>4, <2>8
  <2>9. /\ ScopeSync => Script(step)[at] = "scopes" /\ Same /\ work'.view = work.view
        /\ Ranks => Script(step)[at] = "ranks" /\ Same /\ work'.view = work.view
        /\ Rotation => Script(step)[at] = "rotation" /\ Same /\ work'.view = work.view
    BY <1>0 DEF ScopeSync, Ranks, Rotation, Doing, Alters, Databases
  <2>10. CASE ScopeSync \/ Ranks \/ Rotation
    BY <1>4, <1>11, <2>4, <2>9, <2>10
  <2> QED
    BY <1>11, <2>5, <2>6, <2>7, <2>8, <2>10
<1>12. ASSUME Run PROVE OpeningSoFar'
  <2>1. CASE phase = "starting"
    <3>1. Failing => OpeningSoFar'
      BY <1>1 DEF Failing
    <3> QED
      BY <1>5, <1>6, <1>7, <1>8, <1>9, <1>10, <1>11, <1>12, <2>1, <3>1, Statements
  <2>2. CASE phase # "starting"
    <3>1. BeginStart
      BY <1>12, <2>2 DEF Run, Ensure, Fill, Commit, Record, Unless, Begin, Clear, CreateCopy, CopyRows, DropOld,
            RenameCopy, Index, Catalog, Reference, ScopeSync, Demo, Admin, Hr, Ranks, DropView, MakeView, Rotation, Serve, Doing
    <3> QED
      BY <1>1, <3>1 DEF BeginStart
  <2> QED
    BY <2>1, <2>2
<1>13. ASSUME NEW w, Edits(w), w.keys = saved.keys, w.granted = saved.granted, w.view = saved.view, w.people = saved.people
       PROVE  OpeningSoFar'
  BY <1>13 DEF Edits, OpeningSoFar
<1>14. ASSUME NEW s \in LaterRows, Enter(s) PROVE OpeningSoFar'
  BY <1>13, <1>14 DEF Enter
<1>15. ASSUME NEW a \in Accounts, ChangePassword(a) \/ Disable(a) PROVE OpeningSoFar'
  BY <1>0, <1>13, <1>15 DEF ChangePassword, Disable, Databases
<1>16. ASSUME ResetHr \/ AddKind \/ OfficeTurns \/ \E m \in BOOLEAN : Appoint(m) PROVE OpeningSoFar'
  BY <1>0, <1>13, <1>16 DEF ResetHr, AddKind, OfficeTurns, Appoint, Databases
<1>17. ASSUME NEW release, Halt(release) PROVE OpeningSoFar'
  BY <1>1, <1>17 DEF Halt
<1> QED
  BY <1>12, <1>14, <1>15, <1>16, <1>17 DEF StartNext

LEMMA AccountWritten ==
    ASSUME NEW w \in Databases, NEW a \in Accounts, NEW r, NEW v,
           v = [w EXCEPT !.account = [w.account EXCEPT ![a] = r]]
    PROVE  /\ v.scopes = w.scopes /\ v.manages = w.manages /\ v.ranked = w.ranked /\ v.kinds = w.kinds /\ v.policies = w.policies
           /\ v.account[a] = r /\ \A b \in Accounts : b # a => v.account[b] = w.account[b]
<1>1. DOMAIN w.account = Accounts
  BY DEF Databases
<1> DEFINE f == [w.account EXCEPT ![a] = r]
<1>2. f[a] = r /\ \A b \in Accounts : b # a => f[b] = w.account[b]
  BY <1>1
<1> HIDE DEF f
<1>3. /\ [w EXCEPT !.account = f].account = f /\ [w EXCEPT !.account = f].scopes = w.scopes
      /\ [w EXCEPT !.account = f].manages = w.manages /\ [w EXCEPT !.account = f].ranked = w.ranked
      /\ [w EXCEPT !.account = f].kinds = w.kinds /\ [w EXCEPT !.account = f].policies = w.policies
  BY DEF Databases
<1>4. v = [w EXCEPT !.account = f]
  BY DEF f
<1> QED
  BY <1>2, <1>3, <1>4

LEMMA NextGuaranteed ==
    ASSUME StartTypes, KeysSoFar, GuaranteedSoFar, StartTypes', KeysSoFar', StartNext
    PROVE  GuaranteedSoFar'
<1>0. /\ work \in Databases /\ Finally = 34 /\ "HR01" \in Accounts /\ "HR-HEAT" \in Accounts /\ "TEST" \in Accounts
      /\ "SCREEN" \in Accounts /\ \A a \in Accounts : work.account[a] \in AccountRows
  BY RunnersAre DEF StartTypes, Databases, Accounts
<1>1. GuaranteedSoFar' <=> (phase' = "starting" /\ step' = 34 => Guaranteed(at', work'))
  BY DEF GuaranteedSoFar, Guaranteed, FitsOffice, ScopesInForce
<1>2. Guaranteed(1, work')
  BY DEF Guaranteed
<1>3. phase = "starting" => step \in 1..34 /\ at \in 1..Len(Script(step))
  BY <1>0, AtPlace
<1> DEFINE Same == /\ work'.scopes = work.scopes /\ work'.manages = work.manages /\ work'.ranked = work.ranked
                   /\ \A a \in {"TEST", "HR01", "SCREEN"} : work'.account[a] = work.account[a]
<1>4. ASSUME Same PROVE \A n : Guaranteed(n, work) => Guaranteed(n, work')
  BY <1>4 DEF Guaranteed, FitsOffice
<1>5. ASSUME phase = "starting", Onward, Script(step)[at] # "serve",
             step = 34 => (Guaranteed(at, work) => Guaranteed(at + 1, work'))
      PROVE  GuaranteedSoFar'
  <2>1. (at < Len(Script(step)) /\ at' = at + 1 /\ step' = step) \/ at' = 1
    BY <1>5, Advances
  <2> QED
    BY <1>1, <1>2, <1>5, <2>1 DEF GuaranteedSoFar
\* A statement other than those that guarantee something takes nothing back.
<1>6. ASSUME phase = "starting", Onward, Script(step)[at] \notin {"serve", "scopes", "demo", "admin", "ranks", "rotation"},
             step = 34 => Same
      PROVE  GuaranteedSoFar'
  <2>1. ASSUME step = 34 PROVE at \in 1..19 /\ at \notin {5, 7, 9, 13, 17}
    <3>1. Script(34) = Guarantees
      BY <1>0, Scripts
    <3>2. at \in 1..19
      BY <1>3, <1>6, <2>1, <3>1 DEF Guarantees
    <3> QED
      BY <1>6, <2>1, <3>1, <3>2 DEF Guarantees
  <2>2. ASSUME step = 34, Guaranteed(at, work) PROVE Guaranteed(at + 1, work')
    <3>1. Guaranteed(at, work')
      BY <1>4, <1>6, <2>2
    <3>2. /\ at + 1 >= 6 => at >= 6
          /\ at + 1 >= 8 => at >= 8
          /\ at + 1 >= 10 => at >= 10
          /\ at + 1 >= 14 => at >= 14
          /\ at + 1 >= 18 => at >= 18
      BY <2>1, <2>2
    <3> QED
      BY <3>1, <3>2 DEF Guaranteed
  <2> QED
    BY <1>5, <1>6, <2>2
<1>7. ASSUME phase = "starting", Commit \/ Record \/ Begin \/ Ensure \/ Fill \/ Clear \/ CreateCopy \/ CopyRows
                                 \/ DropOld \/ RenameCopy \/ Index, Onward
      PROVE  GuaranteedSoFar'
  <2>1. Script(step)[at] \in {"commit", "record", "begin", "ensure", "fill", "clear", "create", "copy", "drop", "rename", "index"}
    BY <1>7 DEF Commit, Record, Begin, Ensure, Fill, Clear, CreateCopy, CopyRows, DropOld, RenameCopy, Index, Doing
  <2>2. phase' = "starting"
    BY <1>7 DEF Onward
  <2>3. Same
    BY <1>0, <1>7, <2>2 DEF Commit, Record, Begin, Ensure, Fill, Clear, CreateCopy, CopyRows, DropOld, RenameCopy, Index,
          Defines, Alters, Stays, Databases
  <2> QED
    BY <1>6, <1>7, <2>1, <2>3
<1>8. ASSUME phase = "starting", Catalog \/ Reference PROVE GuaranteedSoFar'
  <2>1. Onward /\ Script(step)[at] \in {"catalog", "reference"}
    BY <1>8 DEF Catalog, Reference, Doing
  <2>2. at \in {1, 3}
    <3>1. step \in 1..Finally /\ at \in 1..Len(Script(step))
      BY <1>0, <1>3, <1>8
    <3>2. (Script(step)[at] = "catalog" => at = 1) /\ (Script(step)[at] = "reference" => at = 3)
      BY <3>1, PlaceOf
    <3> QED
      BY <2>1, <3>2
  <2>3. Guaranteed(at + 1, work')
    BY <2>2 DEF Guaranteed
  <2> QED
    BY <1>5, <1>8, <2>1, <2>3
<1>9. ASSUME phase = "starting", ScopeSync PROVE GuaranteedSoFar'
  <2> DEFINE T == SyncedScopes(work.scopes, work.manages)
  <2>1. Onward /\ Script(step)[at] = "scopes" /\ work' = [work EXCEPT !.scopes = T]
    BY <1>9 DEF ScopeSync, Doing, Alters
  <2>2. at = 5
    BY <1>0, <1>3, <1>9, <2>1, PlaceOf
  <2>3. /\ \A s \in ScopesInForce(T) : work.manages /\ s.place = "circle" /\ s.to = Open
        /\ work.manages => \E s \in T : ScopesInForce(T) = {s}
    BY <1>0, SyncedFits DEF Databases
  <2> HIDE DEF T
  <2>4. work'.scopes = T /\ work'.manages = work.manages
    BY <1>0, <2>1 DEF Databases
  <2>5. Guaranteed(at + 1, work')
    BY <2>2, <2>3, <2>4 DEF Guaranteed, FitsOffice
  <2> QED
    BY <1>5, <1>9, <2>1, <2>5
<1>10. ASSUME phase = "starting", NEW a \in {"TEST", "HR01", "HR-HEAT", "SCREEN"}, NEW r, Onward, Script(step)[at] # "serve",
              work' = [work EXCEPT !.account = [work.account EXCEPT ![a] = r]],
              \/ a = "TEST" /\ at = 7 /\ ~r.enabled
              \/ a = "HR01" /\ at = 9 /\ r.enabled
              \/ a = "HR-HEAT" /\ at = 11
              \/ a = "SCREEN" /\ at = 17 /\ r.hash # "none"
       PROVE  GuaranteedSoFar'
  <2>1. /\ work'.scopes = work.scopes /\ work'.manages = work.manages /\ work'.ranked = work.ranked
        /\ work'.account[a] = r /\ \A b \in Accounts : b # a => work'.account[b] = work.account[b]
    BY <1>0, <1>10, AccountWritten
  <2>2. Guaranteed(at, work) => Guaranteed(at + 1, work')
    BY <1>0, <1>10, <2>1, SMTT(30) DEF Guaranteed, FitsOffice
  <2> QED
    BY <1>5, <1>10, <2>2
<1>11. ASSUME phase = "starting", Demo \/ Admin \/ Hr \/ Rotation PROVE GuaranteedSoFar'
  <2>1. CASE Demo
    <3> DEFINE r == [work.account["TEST"] EXCEPT !.enabled = FALSE]
    <3>1. Onward /\ Script(step)[at] = "demo" /\ work' = [work EXCEPT !.account = [work.account EXCEPT !["TEST"] = r]]
      BY <2>1 DEF Demo, Doing, Alters
    <3>2. at = 7
      BY <1>0, <1>3, <1>11, <3>1, PlaceOf
    <3>3. ~r.enabled
      BY <1>0 DEF AccountRows
    <3> HIDE DEF r
    <3> QED
      BY <1>10, <1>11, <3>1, <3>2, <3>3
  <2>2. CASE Admin
    <3> DEFINE r == SecuredAdmin(work.account["HR01"])
    <3>1. Onward /\ Script(step)[at] = "admin" /\ work' = [work EXCEPT !.account = [work.account EXCEPT !["HR01"] = r]]
      BY <2>2 DEF Admin, Doing, Alters
    <3>2. at = 9
      BY <1>0, <1>3, <1>11, <3>1, PlaceOf
    <3>3. r.enabled
      BY <1>0 DEF AccountRows, SecuredAdmin
    <3> HIDE DEF r
    <3> QED
      BY <1>10, <1>11, <3>1, <3>2, <3>3
  <2>3. CASE Hr
    <3> DEFINE r == SecuredHr(work.account["HR-HEAT"])
    <3>1. Onward /\ Script(step)[at] = "hr" /\ work' = [work EXCEPT !.account = [work.account EXCEPT !["HR-HEAT"] = r]]
      BY <2>3 DEF Hr, Doing, Alters
    <3>2. at = 11
      BY <1>0, <1>3, <1>11, <3>1, PlaceOf
    <3> HIDE DEF r
    <3> QED
      BY <1>10, <1>11, <3>1, <3>2
  <2>4. CASE Rotation
    <3> DEFINE r == GivenDevice(work.account["SCREEN"])
    <3>1. Onward /\ Script(step)[at] = "rotation" /\ work' = [work EXCEPT !.account = [work.account EXCEPT !["SCREEN"] = r]]
      BY <2>4 DEF Rotation, Doing, Alters
    <3>2. at = 17
      BY <1>0, <1>3, <1>11, <3>1, PlaceOf
    <3>3. r.hash # "none"
      BY <1>0 DEF AccountRows, GivenDevice
    <3> HIDE DEF r
    <3> QED
      BY <1>10, <1>11, <3>1, <3>2, <3>3
  <2> QED
    BY <1>11, <2>1, <2>2, <2>3, <2>4
<1>12. ASSUME phase = "starting", Ranks PROVE GuaranteedSoFar'
  <2>1. Onward /\ Script(step)[at] = "ranks" /\ work' = [work EXCEPT !.ranked = TRUE]
    BY <1>12 DEF Ranks, Doing, Alters
  <2>2. at = 13
    BY <1>0, <1>3, <1>12, <2>1, PlaceOf
  <2>3. work'.scopes = work.scopes /\ work'.manages = work.manages /\ work'.ranked = TRUE /\ work'.account = work.account
    BY <1>0, <2>1 DEF Databases
  <2>4. Guaranteed(at, work) => Guaranteed(at + 1, work')
    BY <2>2, <2>3 DEF Guaranteed, FitsOffice
  <2> QED
    BY <1>5, <1>12, <2>1, <2>4
<1>13. ASSUME phase = "starting", DropView \/ MakeView PROVE GuaranteedSoFar'
  <2>1. Onward /\ Script(step)[at] \in {"dropView", "makeView"}
    BY <1>13 DEF DropView, MakeView, Doing
  <2>2. Same
    BY <1>0, <1>13 DEF DropView, MakeView, Defines, Databases
  <2> QED
    BY <1>6, <1>13, <2>1, <2>2
<1>14. ASSUME phase = "starting", Unless PROVE GuaranteedSoFar'
  <2>1. Script(step)[at] = "unlessNew" /\ step' = step
    BY <1>14 DEF Unless, Doing
  <2>2. step # 34
    BY <1>0, <1>3, <1>14, <2>1, PlaceOf
  <2> QED
    BY <1>1, <2>1, <2>2
<1>15. ASSUME phase' # "starting" PROVE GuaranteedSoFar'
  BY <1>1, <1>15
<1>16. ASSUME Run PROVE GuaranteedSoFar'
  <2>1. CASE phase = "starting"
    <3>1. Failing => phase' # "starting"
      BY DEF Failing
    <3>2. Serve => phase' # "starting"
      BY DEF Serve
    <3>3. /\ (Commit \/ Record \/ Begin => Onward)
          /\ (Writing => Onward)
      BY DEF Commit, Record, Begin, Writing
    <3> QED
      BY <1>7, <1>8, <1>9, <1>11, <1>12, <1>13, <1>14, <1>15, <1>16, <2>1, <3>1, <3>2, <3>3, Statements
  <2>2. CASE phase # "starting"
    <3>1. BeginStart
      BY <1>16, <2>2 DEF Run, Ensure, Fill, Commit, Record, Unless, Begin, Clear, CreateCopy, CopyRows, DropOld,
            RenameCopy, Index, Catalog, Reference, ScopeSync, Demo, Admin, Hr, Ranks, DropView, MakeView, Rotation, Serve, Doing
    <3> QED
      BY <1>1, <1>2, <3>1 DEF BeginStart
  <2> QED
    BY <2>1, <2>2
<1>17. ASSUME NEW w, Edits(w) PROVE GuaranteedSoFar'
  BY <1>15, <1>17 DEF Edits
<1>18. ASSUME NEW release, Halt(release) PROVE GuaranteedSoFar'
  BY <1>15, <1>18 DEF Halt
<1> QED
  BY <1>16, <1>17, <1>18 DEF StartNext, Enter, ChangePassword, Disable, ResetHr, AddKind, OfficeTurns, Appoint

\* What a step leaves of the entries made while serving.
Keeping(v, w) ==
    /\ \A a \in Accounts : v.account[a].hash = "chosen" <=> w.account[a].hash = "chosen"
    /\ \A a \in Accounts \ {"HR01"} :
          ~v.account[a].enabled /\ (a = "SCREEN" => v.account[a].hash # "none") => ~w.account[a].enabled
    /\ w.policies = v.policies /\ v.kinds \cap v.policies \subseteq w.kinds
    /\ Past(w) = Past(v)

LEMMA NothingWritten ==
    ASSUME NEW v, NEW w, Held(v), w.account = v.account, w.kinds = v.kinds, w.policies = v.policies, w.scopes = v.scopes
    PROVE  Held(w) /\ Keeping(v, w)
BY DEF Held, Keeping, Past

LEMMA StatementsKeep ==
    ASSUME StartTypes, KeysSoFar, EntriesSoFar, phase = "starting", Run
    PROVE  /\ Held(work') /\ Keeping(work, work') /\ rewritten' = rewritten
           /\ saved' \in {saved, work, work'}
<1>0. work \in Databases /\ Held(work) /\ "HR01" \in Accounts /\ "HR-HEAT" \in Accounts /\ "TEST" \in Accounts
      /\ "SCREEN" \in Accounts
  BY DEF StartTypes, EntriesSoFar, Held, Accounts
<1>1. ASSUME work'.account = work.account, work'.kinds = work.kinds, work'.policies = work.policies, work'.scopes = work.scopes
      PROVE  Held(work') /\ Keeping(work, work')
  BY <1>0, <1>1, NothingWritten
<1>2. saved' \in {saved, work, work'}
  BY Statements DEF Failing, Stays, Commit, Record, Alters, Unless, Begin, Serve, Writing
<1>3. ASSUME Fill PROVE Held(work') /\ Keeping(work, work') /\ rewritten' = rewritten
  <2>1. work' = [work EXCEPT !.filled = @ \cup {step}] /\ rewritten' = rewritten \cup (entered \cap {step})
    BY <1>3 DEF Fill, Alters
  <2>2. /\ work'.account = work.account /\ work'.kinds = work.kinds /\ work'.policies = work.policies /\ work'.scopes = work.scopes
    BY <1>0, <2>1 DEF Databases
  <2>3. step \notin entered
    <3>1. Script(step)[at] = "fill" /\ step \in 1..Finally /\ at \in 1..Len(Script(step))
      BY <1>3, AtPlace DEF Fill, Doing
    <3>2. step \in Patches /\ at <= Len(Runners[step])
      BY <3>1, PlaceOf
    <3>3. Len(Runners[step]) \in Nat /\ Len(Script(step)) = Len(Runners[step]) + 2
      BY <3>2, PatchScript
    <3>4. at # Len(Script(step))
      BY <3>1, <3>2, <3>3
    <3> QED
      BY <3>2, <3>4 DEF KeysSoFar
  <2> QED
    BY <1>1, <2>1, <2>2, <2>3
<1>4. ASSUME Ensure \/ Commit \/ Record \/ Unless \/ Begin \/ Serve
      PROVE  Held(work') /\ Keeping(work, work') /\ rewritten' = rewritten
  <2>1. /\ work'.account = work.account /\ work'.kinds = work.kinds /\ work'.policies = work.policies /\ work'.scopes = work.scopes
        /\ rewritten' = rewritten
    BY <1>0, <1>4 DEF Ensure, Commit, Record, Unless, Begin, Serve, Defines, Alters, Stays, Databases
  <2> QED
    BY <1>1, <2>1
<1>5. ASSUME Clear \/ CreateCopy \/ CopyRows \/ DropOld \/ RenameCopy \/ Index
      PROVE  Held(work') /\ Keeping(work, work') /\ rewritten' = rewritten
  <2>1. /\ work'.account = work.account /\ work'.kinds = work.kinds /\ work'.policies = work.policies /\ work'.scopes = work.scopes
        /\ rewritten' = rewritten
    BY <1>0, <1>5 DEF Clear, CreateCopy, CopyRows, DropOld, RenameCopy, Index, Defines, Alters, Stays, Databases
  <2> QED
    BY <1>1, <2>1
<1>6. ASSUME DropView \/ MakeView PROVE Held(work') /\ Keeping(work, work') /\ rewritten' = rewritten
  <2>1. /\ work'.account = work.account /\ work'.kinds = work.kinds /\ work'.policies = work.policies /\ work'.scopes = work.scopes
        /\ rewritten' = rewritten
    BY <1>0, <1>6 DEF DropView, MakeView, Defines, Databases
  <2> QED
    BY <1>1, <2>1
<1>7. ASSUME Catalog PROVE Held(work') /\ Keeping(work, work') /\ rewritten' = rewritten
  <2>1. work' = [work EXCEPT !.people = "circle", !.scopes = Merged(work.scopes)] /\ rewritten' = rewritten
    BY <1>7 DEF Catalog, Alters
  <2>2. /\ work'.account = work.account /\ work'.kinds = work.kinds /\ work'.policies = work.policies
        /\ work'.scopes = Merged(work.scopes)
    BY <1>0, <2>1 DEF Databases
  <2>3. Past(work') = Past(work)
    <3>1. work.scopes \in SUBSET ScopeRows /\ IsFiniteSet(work.scopes)
      BY <1>0 DEF Databases
    <3>2. \A far, n : Covers(work'.scopes, far, n) <=> Covers(work.scopes, far, n)
      BY <2>2, <3>1, MergedCovers
    <3> QED
      BY <3>2, SamePast
  <2> QED
    BY <1>0, <2>1, <2>2, <2>3 DEF Held, Keeping
<1>8. ASSUME Reference PROVE Held(work') /\ Keeping(work, work') /\ rewritten' = rewritten
  <2>1. work' = [work EXCEPT !.granted = known, !.kinds = InUse(work)] /\ rewritten' = rewritten
    BY <1>8 DEF Reference, Alters
  <2>2. /\ work'.account = work.account /\ work'.kinds = {"SAFETY"} \cup (work.kinds \cap work.policies)
        /\ work'.policies = work.policies /\ work'.scopes = work.scopes
    BY <1>0, <2>1 DEF Databases, InUse
  <2> QED
    BY <1>0, <2>1, <2>2 DEF Held, Keeping, Past
<1>9. ASSUME NEW a \in Accounts, NEW r, work' = [work EXCEPT !.account = [work.account EXCEPT ![a] = r]],
             r.hash = "chosen" <=> work.account[a].hash = "chosen", r.hash = "chosen" => r.initialized,
             a # "HR01" /\ ~work.account[a].enabled /\ (a = "SCREEN" => work.account[a].hash # "none") => ~r.enabled
      PROVE  Held(work') /\ Keeping(work, work')
  <2>1. /\ work'.scopes = work.scopes /\ work'.kinds = work.kinds /\ work'.policies = work.policies
        /\ work'.account[a] = r /\ \A b \in Accounts : b # a => work'.account[b] = work.account[b]
    BY <1>0, <1>9, AccountWritten
  <2> QED
    BY <1>0, <1>9, <2>1 DEF Held, Keeping, Past
<1>10. \A a \in Accounts : work.account[a] \in AccountRows /\ (work.account[a].hash = "chosen" => work.account[a].initialized)
  BY <1>0 DEF Databases, Held
<1>11. ASSUME Demo PROVE Held(work') /\ Keeping(work, work') /\ rewritten' = rewritten
  <2> DEFINE r == [work.account["TEST"] EXCEPT !.enabled = FALSE]
  <2>1. work' = [work EXCEPT !.account = [work.account EXCEPT !["TEST"] = r]] /\ rewritten' = rewritten
    BY <1>11 DEF Demo, Alters
  <2>2. r.hash = work.account["TEST"].hash /\ r.initialized = work.account["TEST"].initialized /\ ~r.enabled
    BY <1>0, <1>10 DEF AccountRows
  <2> HIDE DEF r
  <2> QED
    BY <1>0, <1>9, <1>10, <2>1, <2>2
<1>12. ASSUME Admin PROVE Held(work') /\ Keeping(work, work') /\ rewritten' = rewritten
  <2> DEFINE r == SecuredAdmin(work.account["HR01"])
  <2>1. work' = [work EXCEPT !.account = [work.account EXCEPT !["HR01"] = r]] /\ rewritten' = rewritten
    BY <1>12 DEF Admin, Alters
  <2>2. (r.hash = "chosen" <=> work.account["HR01"].hash = "chosen") /\ (r.hash = "chosen" => r.initialized)
    BY <1>0, <1>10 DEF AccountRows, SecuredAdmin, Unsafe
  <2> HIDE DEF r
  <2> QED
    BY <1>0, <1>9, <2>1, <2>2
<1>13. ASSUME Hr PROVE Held(work') /\ Keeping(work, work') /\ rewritten' = rewritten
  <2> DEFINE r == SecuredHr(work.account["HR-HEAT"])
  <2>1. work' = [work EXCEPT !.account = [work.account EXCEPT !["HR-HEAT"] = r]] /\ rewritten' = rewritten
    BY <1>13 DEF Hr, Alters
  <2>2. /\ (r.hash = "chosen" <=> work.account["HR-HEAT"].hash = "chosen") /\ (r.hash = "chosen" => r.initialized)
        /\ (~work.account["HR-HEAT"].enabled => ~r.enabled)
    BY <1>0, <1>10 DEF AccountRows, SecuredHr
  <2> HIDE DEF r
  <2> QED
    BY <1>0, <1>9, <2>1, <2>2
<1>14. ~BeginStart
  BY DEF BeginStart
<1>15. ASSUME ScopeSync PROVE Held(work') /\ Keeping(work, work') /\ rewritten' = rewritten
  <2> DEFINE T == SyncedScopes(work.scopes, work.manages)
  <2>1. work' = [work EXCEPT !.scopes = T] /\ rewritten' = rewritten
    BY <1>15 DEF ScopeSync, Alters
  <2>2. /\ work'.account = work.account /\ work'.kinds = work.kinds /\ work'.policies = work.policies
        /\ work'.scopes = T
    <3> HIDE DEF T
    <3> QED
      BY <1>0, <2>1 DEF Databases
  <2>3. Past(work') = Past(work)
    <3>1. work.scopes \in SUBSET ScopeRows /\ IsFiniteSet(work.scopes) /\ work.manages \in BOOLEAN
      BY <1>0 DEF Databases
    <3>2. \A far, n : n \in 0..Today - 1 => (Covers(work'.scopes, far, n) <=> Covers(work.scopes, far, n))
      BY <2>2, <3>1, SyncedFits
    <3> QED
      BY <3>2, SamePast
  <2> QED
    BY <1>0, <2>1, <2>2, <2>3 DEF Held, Keeping
<1>16. ASSUME Ranks PROVE Held(work') /\ Keeping(work, work') /\ rewritten' = rewritten
  <2>1. /\ work'.account = work.account /\ work'.kinds = work.kinds /\ work'.policies = work.policies /\ work'.scopes = work.scopes
        /\ rewritten' = rewritten
    BY <1>0, <1>16 DEF Ranks, Alters, Databases
  <2> QED
    BY <1>1, <2>1
<1>17. ASSUME Rotation PROVE Held(work') /\ Keeping(work, work') /\ rewritten' = rewritten
  <2> DEFINE r == GivenDevice(work.account["SCREEN"])
  <2>1. work' = [work EXCEPT !.account = [work.account EXCEPT !["SCREEN"] = r]] /\ rewritten' = rewritten
    BY <1>17 DEF Rotation, Alters
  <2>2. /\ (r.hash = "chosen" <=> work.account["SCREEN"].hash = "chosen") /\ (r.hash = "chosen" => r.initialized)
        /\ (~work.account["SCREEN"].enabled /\ work.account["SCREEN"].hash # "none" => ~r.enabled)
    BY <1>0, <1>10 DEF AccountRows, GivenDevice
  <2> HIDE DEF r
  <2> QED
    BY <1>0, <1>9, <2>1, <2>2
<1> QED
  BY <1>2, <1>3, <1>4, <1>5, <1>6, <1>7, <1>8, <1>11, <1>12, <1>13, <1>14, <1>15, <1>16, <1>17 DEF Run

LEMMA EntriesArePrime ==
    EntriesSoFar' <=> /\ Held(saved') /\ Held(work') /\ work'.policies = saved'.policies
                      /\ \A a \in Accounts : work'.account[a].hash = "chosen" => saved'.account[a].hash = "chosen"
                      /\ Past(work') = Past(saved')
BY DEF EntriesSoFar, Held, Past

LEMMA NextEntries ==
    ASSUME StartTypes, KeysSoFar, EntriesSoFar, StartTypes', StartNext
    PROVE  EntriesSoFar'
<1>0. /\ Held(saved) /\ Held(work) /\ work.policies = saved.policies /\ Past(work) = Past(saved)
      /\ \A a \in Accounts : work.account[a].hash = "chosen" => saved.account[a].hash = "chosen"
      /\ work \in Databases /\ saved \in Databases
  BY DEF EntriesSoFar, StartTypes
<1>1. ASSUME saved' = work', Held(work') PROVE EntriesSoFar'
  BY <1>1, EntriesArePrime
<1>2. ASSUME Run, phase = "starting" PROVE EntriesSoFar'
  <2>1. /\ Held(work') /\ Keeping(work, work') /\ saved' \in {saved, work, work'}
    BY <1>2, StatementsKeep
  <2> QED
    BY <1>0, <2>1, EntriesArePrime DEF Keeping
<1>3. ASSUME Run, phase # "starting" PROVE EntriesSoFar'
  <2>1. BeginStart
    BY <1>3 DEF Run, Ensure, Fill, Commit, Record, Unless, Begin, Clear, CreateCopy, CopyRows, DropOld,
          RenameCopy, Index, Catalog, Reference, ScopeSync, Demo, Admin, Hr, Ranks, DropView, MakeView, Rotation, Serve, Doing
  <2> QED
    BY <1>0, <2>1, EntriesArePrime DEF BeginStart, Stays
<1>4. ASSUME NEW w, Edits(w), Held(w) PROVE EntriesSoFar'
  BY <1>1, <1>4 DEF Edits
<1>5. ASSUME NEW s \in LaterRows, Enter(s) PROVE EntriesSoFar'
  BY <1>0, <1>4, <1>5 DEF Enter
<1>6. ASSUME NEW a \in Accounts, NEW r, Edits([saved EXCEPT !.account = [saved.account EXCEPT ![a] = r]]),
             r.hash = "chosen" => r.initialized
      PROVE  EntriesSoFar'
  <2>1. work' = [saved EXCEPT !.account = [saved.account EXCEPT ![a] = r]] /\ saved' = work'
    BY <1>6 DEF Edits
  <2>2. /\ work'.kinds = saved.kinds /\ work'.policies = saved.policies
        /\ work'.account[a] = r /\ \A b \in Accounts : b # a => work'.account[b] = saved.account[b]
    <3>1. saved \in Databases /\ work' = [saved EXCEPT !.account = [saved.account EXCEPT ![a] = r]]
      BY <1>0, <2>1
    <3> QED
      BY <3>1, AccountWritten
  <2> QED
    BY <1>0, <1>1, <1>6, <2>1, <2>2 DEF Held
<1>7. ASSUME NEW a \in Accounts, ChangePassword(a) PROVE EntriesSoFar'
  <2> DEFINE r == [hash |-> "chosen", initialized |-> TRUE, enabled |-> TRUE]
  <2>1. Edits([saved EXCEPT !.account = [saved.account EXCEPT ![a] = r]])
    BY <1>7 DEF ChangePassword
  <2>2. r.initialized
    OBVIOUS
  <2> HIDE DEF r
  <2> QED
    BY <1>6, <2>1, <2>2
<1>8. ASSUME NEW a \in Accounts, Disable(a) PROVE EntriesSoFar'
  <2> DEFINE r == [saved.account[a] EXCEPT !.enabled = FALSE]
  <2>1. Edits([saved EXCEPT !.account = [saved.account EXCEPT ![a] = r]])
    BY <1>8 DEF Disable
  <2>2. r.hash = "chosen" => r.initialized
    <3>1. saved.account[a] \in AccountRows /\ (saved.account[a].hash = "chosen" => saved.account[a].initialized)
      BY <1>0 DEF Databases, Held
    <3> QED
      BY <3>1 DEF AccountRows
  <2> HIDE DEF r
  <2> QED
    BY <1>6, <2>1, <2>2
<1>9. ASSUME ResetHr PROVE EntriesSoFar'
  <2> DEFINE r == [hash |-> "temporary", initialized |-> TRUE, enabled |-> TRUE]
  <2>1. Edits([saved EXCEPT !.account = [saved.account EXCEPT !["HR-HEAT"] = r]]) /\ "HR-HEAT" \in Accounts
    BY <1>9 DEF ResetHr, Accounts
  <2>2. r.initialized
    OBVIOUS
  <2> HIDE DEF r
  <2> QED
    BY <1>6, <2>1, <2>2
<1>10. ASSUME AddKind PROVE EntriesSoFar'
  <2> DEFINE w == [saved EXCEPT !.kinds = @ \cup {"CUSTOM"}, !.policies = @ \cup {"CUSTOM"}]
  <2>1. w.account = saved.account /\ w.kinds = saved.kinds \cup {"CUSTOM"} /\ w.policies = saved.policies \cup {"CUSTOM"}
    BY <1>0 DEF Databases
  <2>2. Edits(w)
    BY <1>10 DEF AddKind
  <2> HIDE DEF w
  <2>3. Held(w)
    BY <1>0, <2>1 DEF Held
  <2> QED
    BY <1>4, <2>2, <2>3
<1>11. ASSUME NEW release, Halt(release) PROVE EntriesSoFar'
  BY <1>0, <1>1, <1>11 DEF Halt
<1>12. ASSUME NEW w, Edits(w), w.account = saved.account, w.kinds = saved.kinds, w.policies = saved.policies
       PROVE  EntriesSoFar'
  BY <1>0, <1>4, <1>12 DEF Held
<1>13. ASSUME OfficeTurns \/ \E m \in BOOLEAN : Appoint(m) PROVE EntriesSoFar'
  BY <1>0, <1>12, <1>13 DEF OfficeTurns, Appoint, Databases
<1> QED
  BY <1>2, <1>3, <1>5, <1>7, <1>8, <1>9, <1>10, <1>11, <1>13 DEF StartNext

-----------------------------------------------------------------------------
(* The steps and what the invariant says. *)

LEMMA StartStep ==
    ASSUME StartInv, [StartNext]_startVars
    PROVE  StartInv'
<1>1. CASE StartNext
  <2>1. StartTypes /\ KeysSoFar /\ MadeSoFar /\ TablesSoFar /\ OpeningSoFar /\ EntriesSoFar
        /\ GuaranteedSoFar
    BY DEF StartInv
  <2>2. StartTypes' /\ KeysSoFar'
    BY <1>1, <2>1, NextTypes, KeysKept
  <2>3. MadeSoFar' /\ TablesSoFar' /\ OpeningSoFar' /\ EntriesSoFar' /\ GuaranteedSoFar'
    BY <1>1, <2>1, <2>2, NextMade, NextTables, NextOpening, NextEntries, NextGuaranteed
  <2> QED
    BY <2>2, <2>3 DEF StartInv
<1>2. CASE UNCHANGED startVars
  BY <1>2 DEF startVars, StartInv, StartTypes, KeysSoFar, MadeSoFar, TablesSoFar, OpeningSoFar, EntriesSoFar, GuaranteedSoFar,
      Guaranteed, FitsOffice, ScopesInForce, EnsuresTo, Settled, Full, Behind, Held, Past, Finished, Script
<1> QED
  BY <1>1, <1>2

LEMMA StartBegins ==
    ASSUME StartInit
    PROVE  StartInv
<1>1. /\ Patches = 1..33 /\ Shipped \in 0..33 /\ Rebuilt = {17, 19}
  BY StartAssumption, RunnersAre DEF Rebuilt, Leaves, Evidence
<1>2. \A s \in Patches : Ensures(s) \in Nat
  <2> TAKE s \in Patches
  <2>1. Len(Runners[s]) \in 0..Len(Script(s))
    BY PatchScript
  <2> QED
    BY <2>1, Counts
<1> DEFINE Starting(w) ==
               /\ w \in Databases /\ w.keys = {} /\ w.policies = {}
               /\ \A s \in Patches : w.made[s] <= Ensures(s)
               /\ w.table[17] \in {OldTable, NewTable} /\ w.table[19] \in {OldTable, NewTable}
               /\ \A a \in Accounts : w.account[a].hash # "chosen"
<1>3. \A scopes \in Scopes \cup {{}} : scopes \in SUBSET ScopeRows /\ IsFiniteSet(scopes)
  BY StartAssumption, FS_EmptySet DEF ScopeRows
<1>4. ASSUME NEW scopes \in Scopes \cup {{}} PROVE Starting(OldDatabase(scopes))
  <2>1. [s \in Patches |-> 0] \in [Patches -> Nat] /\ [a \in Accounts |-> IF a \in {"HR-HEAT", "SCREEN"} THEN Nobody ELSE Legacy] \in [Accounts -> AccountRows]
    BY DEF AccountRows, Nobody, Legacy
  <2>2. [t \in Rebuilt |-> [shape |-> "old", main |-> TRUE, copy |-> "none", indexed |-> TRUE]] \in [Rebuilt -> TableRows]
    BY DEF TableRows
  <2>3. OldDatabase(scopes) \in Databases
    BY <1>1, <1>3, <2>1, <2>2 DEF OldDatabase, Databases
  <2>4. /\ OldDatabase(scopes).keys = {} /\ OldDatabase(scopes).policies = {}
        /\ OldDatabase(scopes).made = [s \in Patches |-> 0]
        /\ OldDatabase(scopes).table = [t \in Rebuilt |-> [shape |-> "old", main |-> TRUE, copy |-> "none", indexed |-> TRUE]]
        /\ OldDatabase(scopes).account = [a \in Accounts |-> IF a \in {"HR-HEAT", "SCREEN"} THEN Nobody ELSE Legacy]
    BY DEF OldDatabase
  <2>5. \A s \in Patches : OldDatabase(scopes).made[s] <= Ensures(s)
    BY <1>2, <2>4
  <2>6. OldDatabase(scopes).table[17] = OldTable /\ OldDatabase(scopes).table[19] = OldTable
    BY <1>1, <2>4 DEF OldTable
  <2>7. \A a \in Accounts : OldDatabase(scopes).account[a].hash # "chosen"
    BY <2>4 DEF Nobody, Legacy
  <2> QED
    BY <2>3, <2>4, <2>5, <2>6, <2>7
<1>5. Starting(NewDatabase)
  <2> DEFINE m == [s \in Patches |-> Ensures(s)]
             t0 == [t \in Rebuilt |-> [shape |-> "new", main |-> TRUE, copy |-> "none", indexed |-> TRUE]]
             a0 == [a \in Accounts |-> Nobody]
  <2>1. m \in [Patches -> Nat] /\ a0 \in [Accounts -> AccountRows]
    BY <1>2 DEF AccountRows, Nobody
  <2>2. t0 \in [Rebuilt -> TableRows]
    BY DEF TableRows
  <2>3. /\ \A s \in Patches : m[s] <= Ensures(s)
        /\ t0[17] = NewTable /\ t0[19] = NewTable
        /\ \A a \in Accounts : a0[a].hash # "chosen"
    BY <1>1, <1>2 DEF NewTable, Nobody
  <2>4. /\ NewDatabase = [OldDatabase({}) EXCEPT !.made = m, !.table = t0, !.account = a0, !.people = "circle", !.granted = 0,
                                                 !.kinds = {}, !.view = FALSE, !.ranked = TRUE]
    BY DEF NewDatabase
  <2> HIDE DEF m, t0, a0
  <2>5. OldDatabase({}) \in Databases /\ OldDatabase({}).keys = {} /\ OldDatabase({}).policies = {}
    BY <1>4
  <2>6. /\ NewDatabase \in Databases /\ NewDatabase.made = m /\ NewDatabase.table = t0 /\ NewDatabase.account = a0
        /\ NewDatabase.keys = {} /\ NewDatabase.policies = {}
    <3> DEFINE d == [OldDatabase({}) EXCEPT !.made = m, !.table = t0, !.account = a0]
    <3>1. /\ d \in Databases /\ d.made = m /\ d.table = t0 /\ d.account = a0 /\ d.keys = {} /\ d.policies = {}
      BY <2>1, <2>2, <2>5 DEF Databases
    <3> DEFINE e == [d EXCEPT !.people = "circle", !.granted = 0]
    <3>2. NewDatabase = [e EXCEPT !.kinds = {}, !.view = FALSE, !.ranked = TRUE]
      BY <2>4
    <3> HIDE DEF d
    <3>3. d \in Databases
      BY <3>1
    <3>4. e \in Databases
      <4> DEFINE c == [d EXCEPT !.people = "circle"]
      <4>1. c \in Databases
        BY <3>3 DEF Databases
      <4> HIDE DEF c
      <4>2. [c EXCEPT !.granted = 0] \in Databases
        BY <4>1 DEF Databases
      <4> QED
        BY <4>2 DEF c
    <3>5. /\ e.made = d.made /\ e.table = d.table /\ e.account = d.account /\ e.keys = d.keys /\ e.policies = d.policies
      BY <3>3 DEF Databases
    <3> HIDE DEF e
    <3>6. NewDatabase \in Databases
      BY <3>2, <3>4 DEF Databases
    <3>7. /\ NewDatabase.made = e.made /\ NewDatabase.table = e.table /\ NewDatabase.account = e.account
          /\ NewDatabase.keys = e.keys /\ NewDatabase.policies = e.policies
      BY <3>2, <3>4 DEF Databases
    <3> QED
      BY <3>1, <3>5, <3>6, <3>7
  <2> QED
    BY <2>3, <2>6
<1> HIDE DEF Starting
<1>6. Starting(saved) /\ work = saved /\ inTx = FALSE /\ phase = "down" /\ step = 0 /\ at = 1 /\ applied = {} /\ known = Shipped
      /\ entered = {}
  <2>1. saved = NewDatabase \/ \E scopes \in Scopes, m \in BOOLEAN : saved = [OldDatabase(scopes) EXCEPT !.manages = m]
    BY DEF StartInit
  <2>2. Starting(saved)
    <3>1. ASSUME NEW scopes \in Scopes, NEW m \in BOOLEAN, saved = [OldDatabase(scopes) EXCEPT !.manages = m]
          PROVE  Starting(saved)
      <4>1. Starting(OldDatabase(scopes))
        BY <1>4
      <4> QED
        BY <3>1, <4>1 DEF Starting, Databases
    <3> QED
      BY <1>5, <2>1, <3>1
  <2> QED
    BY <2>2 DEF StartInit
<1>7. /\ saved \in Databases /\ saved.keys = {} /\ saved.policies = {}
      /\ \A s \in Patches : saved.made[s] <= Ensures(s)
      /\ saved.table[17] \in {OldTable, NewTable} /\ saved.table[19] \in {OldTable, NewTable}
      /\ \A a \in Accounts : saved.account[a].hash # "chosen"
  <2>1. Starting(saved)
    BY <1>6
  <2> QED
    BY <2>1 DEF Starting
<1>8. StartTypes
  <2>1. saved \in Databases /\ work \in Databases /\ work = saved
    BY <1>6, <1>7
  <2>2. inTx \in BOOLEAN /\ ~inTx
    BY <1>6
  <2>3. /\ phase \in {"down", "starting", "failed", "serving"} /\ applied \subseteq Patches /\ entered \subseteq Patches
    BY <1>6
  <2>4. step \in 0..34 /\ at \in Nat \ {0} /\ known \in 0..33
    BY <1>1, <1>6
  <2> QED
    BY <2>1, <2>2, <2>3, <2>4 DEF StartTypes
<1>9. KeysSoFar
  BY <1>6, <1>7 DEF KeysSoFar
<1>10. MadeSoFar
  BY <1>6, <1>7 DEF MadeSoFar, Full
<1>11. TablesSoFar
  BY <1>1, <1>6, <1>7 DEF TablesSoFar, Settled
<1>12. OpeningSoFar /\ EntriesSoFar /\ GuaranteedSoFar
  BY <1>6, <1>7 DEF OpeningSoFar, EntriesSoFar, Held, GuaranteedSoFar
<1> QED
  BY <1>8, <1>9, <1>10, <1>11, <1>12 DEF StartInv

LEMMA StartLeaves ==
    ASSUME StartInv
    PROVE  StartWhole
<1>0. saved.keys \subseteq Patches /\ saved \in Databases /\ Rebuilt = {17, 19} /\ Evidence = 19 /\ Settled(saved)
  BY DEF StartInv, StartTypes, Databases, Rebuilt, Leaves, Evidence, TablesSoFar
<1>1. \A s \in saved.keys : saved.made[s] = Ensures(s) /\ (s \in Filling => s \in saved.filled)
  BY DEF StartInv, MadeSoFar, Full, Finished
<1>2. \A s \in Rebuilt : s \in saved.keys => saved.table[s] = NewTable
  BY <1>0 DEF Settled
<1>3. RecordedIsDone
  BY <1>1, <1>2 DEF RecordedIsDone, NewTable
<1>4. RowsSurvive
  <2>1. saved.table[17].main /\ saved.table[19].main
    <3>1. \A r \in {OldTable, LeftTable, BareTable, NewTable} : r.main
      BY DEF OldTable, LeftTable, BareTable, NewTable
    <3> QED
      BY <1>0, <3>1 DEF Settled
  <2> QED
    BY <1>0, <2>1 DEF RowsSurvive
<1>5. OpenedWhole
  BY DEF StartInv, OpeningSoFar, OpenedWhole
<1>6. OnlyTheCopyBlocks
  <2>1. phase = "failed" => saved.table[19] = LeftTable
    BY DEF StartInv, TablesSoFar
  <2>2. LeftTable.copy = "empty" /\ LeftTable # NewTable
    BY DEF LeftTable, NewTable
  <2> QED
    BY <1>0, <1>2, <2>1, <2>2 DEF OnlyTheCopyBlocks
<1>7. GuaranteesHold
  <2> SUFFICES ASSUME phase = "starting", Script(step)[at] = "serve" PROVE Guaranteed(19, work)
    BY DEF GuaranteesHold, Guaranteed, FitsOffice
  <2>1. step \in 1..Finally /\ at \in 1..Len(Script(step))
    BY AtPlace DEF StartInv
  <2>2. step = 34 /\ at = 19
    BY <2>1, PlaceOf, RunnersAre
  <2> QED
    BY <2>2 DEF StartInv, GuaranteedSoFar
<1> QED
  BY <1>3, <1>4, <1>5, <1>6, <1>7 DEF StartWhole, UpgradeWhole

LEMMA StartKeeps ==
    ASSUME StartInv, [StartNext]_startVars, phase = "starting"
    PROVE  /\ rewritten' = rewritten
           /\ \A a \in Accounts : work.account[a].hash = "chosen" => work'.account[a].hash = "chosen"
           /\ phase' = "starting" =>
                \A a \in Accounts \ {"HR01"} :
                   ~work.account[a].enabled /\ (a = "SCREEN" => work.account[a].hash # "none")
                   => ~work'.account[a].enabled
           /\ work.kinds \cap work.policies \subseteq work'.kinds
           /\ Past(work') = Past(work)
<1>1. CASE Run
  BY <1>1, StatementsKeep DEF StartInv, Keeping
<1>2. CASE UNCHANGED startVars
  BY <1>2 DEF startVars, Past
<1>4. CASE \E release \in {known, Len(Runners)} : Halt(release)
  <2>1. work' = saved /\ phase' = "down" /\ rewritten' = rewritten
    BY <1>4 DEF Halt
  <2>2. /\ saved.policies \subseteq saved.kinds /\ work.policies = saved.policies
        /\ \A a \in Accounts : work.account[a].hash = "chosen" => saved.account[a].hash = "chosen"
        /\ Past(work) = Past(saved)
    BY DEF StartInv, EntriesSoFar, Held
  <2>3. Past(work') = Past(work)
    BY <2>1, <2>2
  <2> QED
    BY <2>1, <2>2, <2>3
<1>5. ASSUME StartNext, ~Run, ~ \E release \in {known, Len(Runners)} : Halt(release) PROVE FALSE
  BY <1>5 DEF StartNext, Enter, ChangePassword, Disable, ResetHr, AddKind, OfficeTurns, Appoint, Edits
<1> QED
  BY <1>1, <1>2, <1>4, <1>5

-----------------------------------------------------------------------------
(* The server: each component behaves as it does alone. *)

LEMMA ServerStarts ==
  ServerInit => ReleaseInit /\ StartInit /\ Bun!Init /\ Bak!Init /\ Exp!Init /\ Cache!Init
  BY DEF ServerInit

LEMMA ServerSteps ==
  [ServerNext]_serverVars =>
    /\ [ReleaseNext]_releaseVars
    /\ [StartNext]_startVars
    /\ [Bun!Next]_(Bun!bundleVars)
    /\ [Bak!Next]_(Bak!manualVars)
    /\ [Exp!Next]_(Exp!exportVars)
    /\ [Cache!Next]_(Cache!cacheVars)
<1> USE DEF bundleVars, manualVars, exportVars, cacheVars, Bun!bundleVars, Bak!manualVars,
      Exp!exportVars, Cache!cacheVars
<1>1. CASE UNCHANGED serverVars
  BY <1>1 DEF serverVars
<1>2. CASE ServerNext
  BY <1>2 DEF ServerNext, Others
<1> QED BY <1>1, <1>2

\* What is written down for people to rely on is so, whatever the other components
\* do: a receipt, a manifest, a row (server_release.py:471, recovery_bundle.py:166,
\* backup_management.py:169).
THEOREM ReportsAreTrue == ServerSpec => []ReportsTrue
<1>1. ServerInit => ReleaseInit /\ Bun!Init /\ Bak!Init
  BY ServerStarts
<1>2. [ServerNext]_serverVars =>
        [ReleaseNext]_releaseVars /\ [Bun!Next]_(Bun!bundleVars) /\ [Bak!Next]_(Bak!manualVars)
  BY ServerSteps
<1>3. ServerSpec => ReleaseSpec /\ Bun!Spec /\ Bak!Spec
  BY <1>1, <1>2, PTL DEF ServerSpec, ReleaseSpec, Bun!Spec, Bak!Spec
<1>4. ReceiptTrue /\ Bun!BundleWhole /\ Bak!OneManualBackup => ReportsTrue
  BY DEF ReportsTrue
<1> QED BY <1>3, <1>4, ReceiptsAreTrue, BundlesAreWhole, OneAtATime, PTL

\* What is served from a store of answers is within its reader's rights and as new
\* as promised, and the stores stay within their limits (export_tasks.py:239, 290,
\* statistics.py:306, data_cache.py:25).
THEOREM ServedIsCurrent == ServerSpec => []ServedCurrent
<1>1. ServerInit => Exp!Init /\ Cache!Init
  BY ServerStarts
<1>2. [ServerNext]_serverVars => [Exp!Next]_(Exp!exportVars) /\ [Cache!Next]_(Cache!cacheVars)
  BY ServerSteps
<1>3. ServerSpec => Exp!Spec /\ Cache!Spec
  BY <1>1, <1>2, PTL DEF ServerSpec, Exp!Spec, Cache!Spec
<1>4. (Exp!ServedUnderRights /\ Exp!ExportsBounded) /\ Cache!CacheFresh => ServedCurrent
  BY DEF ServedCurrent
<1> QED BY <1>3, <1>4, ExportsAreBounded, AnswersAreFresh, PTL

\* Whatever interrupts a start on an old database, a recorded patch is whole, the
\* rebuilt tables keep their rows, only the leftover of the attachments' copy blocks
\* the next start, and the application opens on a database of its release with
\* what every start guarantees (bootstrap.py:40-55, registry.py:90, schema.py:62).
THEOREM StartsAreWhole == ServerSpec => []StartWhole
<1>1. ServerInit => StartInv
  BY ServerStarts, StartBegins
<1>2. StartInv /\ [ServerNext]_serverVars => StartInv'
  BY ServerSteps, StartStep
<1>3. StartInv => StartWhole
  BY StartLeaves
<1> QED
  BY <1>1, <1>2, <1>3, PTL DEF ServerSpec

\* A start leaves alone what was entered while serving: no row is filled by a patch
\* that ran before it came, chosen passwords and own kinds of deduction stay, no
\* account but HR01's is switched on, and the days of the management scopes before
\* today stay as they are, whatever it sets anew from today (bootstrap.py:40-55).
THEOREM EntriesAreKept == ServerSpec => KeepsEntries
<1>1. ServerInit => StartInv
  BY ServerStarts, StartBegins
<1>2. StartInv /\ [ServerNext]_serverVars => StartInv'
  BY ServerSteps, StartStep
<1> DEFINE Keeps == phase = "starting" =>
       /\ rewritten' = rewritten
       /\ \A a \in Accounts : work.account[a].hash = "chosen" => work'.account[a].hash = "chosen"
       /\ phase' = "starting" =>
            \A a \in Accounts \ {"HR01"} :
               ~work.account[a].enabled /\ (a = "SCREEN" => work.account[a].hash # "none")
               => ~work'.account[a].enabled
       /\ work.kinds \cap work.policies \subseteq work'.kinds
       /\ Past(work') = Past(work)
<1>3. StartInv /\ [ServerNext]_serverVars => [Keeps]_startVars
  BY ServerSteps, StartKeeps
<1>4. ServerSpec => [][Keeps]_startVars
  BY <1>1, <1>2, <1>3, PTL DEF ServerSpec
<1> QED
  BY <1>4 DEF KeepsEntries
=============================================================================
