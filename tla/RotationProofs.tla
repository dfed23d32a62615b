---------------------------- MODULE RotationProofs ----------------------------
(***************************************************************************)
(* The rotation: what phones and screens are shown and confirm, for any    *)
(* people, devices, steps, reads under way and faults (RotationSync), and  *)
(* the live day, for any staff, lines, posts, shifts and settings          *)
(* (RotationDay).                                                          *)
(*                                                                         *)
(* StepsKept: a token names a step its person has not left, or one that is *)
(* done; and a device that waits for an answer is told of the token it     *)
(* keeps as pending.                                                       *)
(*                                                                         *)
(* ShownGoesForward: of two data that a device holds, the one of the later *)
(* epoch, or of the later version in one epoch, is of later steps; and the *)
(* reads under way are ordered by epoch, after what is shown, because a    *)
(* read is only served by the server it was sent to.                       *)
(*                                                                         *)
(* BoardKept: every operation makes of one board another (Board), gives    *)
(* nobody an earlier step (Effect), and leaves nobody waiting for a shift  *)
(* that has begun (Future); a route through a line is a set of moves that  *)
(* sends out whom it says and brings in whom it says (Routed).             *)
(*                                                                         *)
(* TimeoutJustified: the part of a grace that is over, the time without an *)
(* open line not counted (Elapsed), is never more than the minutes in      *)
(* which the person could have confirmed (Due).                            *)
(***************************************************************************)
EXTENDS RotationSync, RotationDay, FiniteSetTheorems, SequenceTheorems, WellFoundedInduction, TLAPS

\* The cached day is the stored one, and epochs only count restarts.
Cached ==
    /\ cache = Empty \/ cache = db
    /\ db.version >= 1
    /\ epoch <= faults

\* A token that is done is of a step its person has left.
DoneIsPast ==
    /\ IsFiniteSet(db.day.done)
    /\ \A tok \in db.day.done : tok[2] < db.day.step[tok[1]]

ServerTypes ==
    /\ db \in Stored /\ cache \in Stored \cup {Empty}
    /\ epoch \in 0..MaxFaults /\ version \in Nat
    /\ moved \in Steps /\ faults \in 0..MaxFaults
ServerInv == ServerTypes /\ Cached /\ DoneIsPast /\ OncePerToken

PageTypes ==
    /\ shown \in [Devices -> Data \cup {Nothing}]
    /\ retired \in [Devices -> SUBSET (0..MaxFaults)]
    /\ loads \in [Devices -> Seq(Data \cup {Nothing, Failed})]
    /\ \A d \in Devices : Len(loads[d]) <= MaxLoads

Sent == [token : Tokens, answer : {"none", "yes", "no", "error"}]
ConfirmTypes ==
    /\ late \subseteq Tokens
    /\ sent \in [Devices -> Sent \cup {Nothing}]
    /\ pending \in [Devices -> Tokens \cup {Nothing}]
    /\ check \in [Devices -> {"none", "sent", "yes", "no"}]
    /\ told \in [Devices -> [token : Tokens, says : {"yes", "no"}] \cup {Nothing}]
\* What a device waits for is what it keeps as pending, and a "yes" is of a stored token.
Awaited(d) ==
    /\ sent[d] # Nothing => pending[d] = sent[d].token /\ check[d] = "none"
    /\ check[d] # "none" => pending[d] # Nothing
    /\ sent[d] # Nothing /\ sent[d].answer = "yes" => sent[d].token \in db.day.done
    /\ check[d] = "yes" => pending[d] \in db.day.done
    /\ told[d] # Nothing /\ told[d].says = "yes" => told[d].token \in db.day.done
ConfirmInv == ConfirmTypes /\ \A d \in Devices : Awaited(d)

LEMMA StoredKept == ServerInv /\ PageTypes /\ ConfirmInv => StepsKept
<1> SUFFICES ASSUME ServerInv, PageTypes, ConfirmInv PROVE StepsKept
  OBVIOUS
<1>1. \A d \in Devices : Len(loads[d]) <= MaxLoads /\ Range(loads[d]) \subseteq Data \cup {Nothing, Failed}
  <2> SUFFICES ASSUME NEW d \in Devices PROVE Range(loads[d]) \subseteq Data \cup {Nothing, Failed}
    BY DEF PageTypes
  <2>1. loads[d] \in Seq(Data \cup {Nothing, Failed})
    BY DEF PageTypes
  <2> QED BY <2>1 DEF Range
<1>2. \A d \in Devices : check[d] # "none" \/ sent[d] # Nothing => pending[d] # Nothing
  <2> SUFFICES ASSUME NEW d \in Devices, sent[d] # Nothing PROVE pending[d] # Nothing
    BY DEF ConfirmInv, Awaited
  <2>1. pending[d] = sent[d].token /\ sent[d] \in Sent
    BY DEF ConfirmInv, ConfirmTypes, Awaited
  <2> QED BY <2>1, NothingAssumption DEF Sent
<1>3. TypeOK
  BY <1>1, <1>2 DEF ServerInv, ServerTypes, PageTypes, ConfirmInv, ConfirmTypes, TypeOK, Sent
<1> QED BY <1>3 DEF StepsKept, ServerInv, ConfirmInv, Awaited, ToldIsStored
-----------------------------------------------------------------------------
(* The server. *)

LEMMA DayIsStored ==
  ASSUME ServerInv
  PROVE  Day = db.day /\ db.day \in [step : Steps, done : SUBSET Tokens] /\ db.version \in Nat
BY DEF ServerInv, ServerTypes, Cached, Day, Stored, Empty

\* How many tokens of a person are done.
DoneOf(done, p) == {tok \in done : tok[1] = p}

LEMMA CountsStay ==
  ASSUME ServerInv, NEW p \in People
  PROVE  moved[p] \in Nat /\ moved[p] <= db.day.step[p] /\ IsFiniteSet(DoneOf(db.day.done, p))
<1>1. IsFiniteSet(DoneOf(db.day.done, p))
  BY FS_Subset DEF ServerInv, DoneIsPast, DoneOf
<1>2. Cardinality(DoneOf(db.day.done, p)) \in Nat
  BY <1>1, FS_CardinalityType
<1>3. db.day.step[p] = moved[p] + Cardinality(DoneOf(db.day.done, p))
  BY DEF ServerInv, OncePerToken, DoneOf
<1>4. moved[p] \in Nat
  BY DEF ServerInv, ServerTypes, Steps
<1> QED BY <1>1, <1>2, <1>3, <1>4

\* The steps a server has stored, and how it counts what it stores.
NoLater(s, t) == \A p \in People : s[p] <= t[p]
Advances ==
    /\ UNCHANGED epoch
    /\ \/ version' = version /\ db'.day.step = db.day.step
       \/ version' = version + 1 /\ NoLater(db.day.step, db'.day.step)

\* A commit that stores a later day, or fails.
LEMMA CommitKeeps ==
  ASSUME ServerInv, NEW ok \in BOOLEAN, NEW stored \in [step : Steps, done : SUBSET Tokens],
         Commit(ok, stored), UNCHANGED epoch
  PROVE  /\ db' \in Stored /\ cache' \in Stored \cup {Empty} /\ version' \in Nat
         /\ epoch' \in 0..MaxFaults /\ faults' \in 0..MaxFaults
         /\ Cached'
         /\ db'.day = IF ok THEN stored ELSE db.day
         /\ NoLater(db.day.step, stored.step) => Advances
<1>1. faults' \in 0..MaxFaults /\ epoch' <= faults'
  BY BoundsAssumption DEF ServerInv, ServerTypes, Cached, Commit
<1>2. CASE ok
  <2>1. db' = [version |-> db.version + 1, day |-> stored] /\ cache' = db' /\ version' = version + 1
    BY <1>2 DEF Commit, Keeps
  <2>2. db' \in Stored /\ db'.version >= 1
    BY <2>1 DEF ServerInv, ServerTypes, Stored, Cached
  <2>3. NoLater(db.day.step, stored.step) => Advances
    BY <2>1 DEF Advances
  <2> QED BY <1>1, <1>2, <2>1, <2>2, <2>3 DEF ServerInv, ServerTypes, Cached
<1>3. CASE ~ok
  <2>1. Advances
    BY <1>3 DEF Commit, Advances
  <2> QED BY <1>1, <1>3, <2>1 DEF Commit, Keeps, ServerInv, ServerTypes, Cached
<1> QED BY <1>2, <1>3

LEMMA SteppedTypes ==
  ASSUME NEW stored \in [step : Steps, done : SUBSET Tokens], NEW p \in People, stored.step[p] < MaxStep
  PROVE  /\ Stepped(stored, p) \in [step : Steps, done : SUBSET Tokens]
         /\ Stepped(stored, p).done = stored.done
         /\ Stepped(stored, p).step = [stored.step EXCEPT ![p] = @ + 1]
         /\ \A q \in People : Stepped(stored, p).step[q] = IF q = p THEN stored.step[q] + 1 ELSE stored.step[q]
<1>1. Stepped(stored, p) = [step |-> [stored.step EXCEPT ![p] = @ + 1], done |-> stored.done]
  BY DEF Stepped
<1>2. [stored.step EXCEPT ![p] = @ + 1] \in Steps
  BY BoundsAssumption DEF Steps
<1> QED BY <1>1, <1>2 DEF Steps

LEMMA ManageKeeps ==
  ASSUME ServerInv, NEW p \in People, NEW ok \in BOOLEAN, Manage(p, ok)
  PROVE  ServerInv' /\ db'.day.done = db.day.done /\ Advances
<1> DEFINE stored == Stepped(db.day, p)
<1>1. Commit(ok, stored) /\ UNCHANGED epoch /\ db.day.step[p] < MaxStep
  BY DayIsStored DEF Manage
<1>2. /\ stored \in [step : Steps, done : SUBSET Tokens] /\ stored.done = db.day.done
      /\ \A q \in People : stored.step[q] = IF q = p THEN db.day.step[q] + 1 ELSE db.day.step[q]
  BY <1>1, SteppedTypes, DayIsStored
<1> HIDE DEF stored
<1>0. NoLater(db.day.step, stored.step)
  BY <1>2, DayIsStored, BoundsAssumption DEF NoLater, Steps
<1>3. /\ db' \in Stored /\ cache' \in Stored \cup {Empty} /\ version' \in Nat
      /\ epoch' \in 0..MaxFaults /\ faults' \in 0..MaxFaults
      /\ Cached' /\ Advances
      /\ db'.day = IF ok THEN stored ELSE db.day
  BY <1>0, <1>1, <1>2, CommitKeeps
<1>4. moved' = IF ok THEN [moved EXCEPT ![p] = @ + 1] ELSE moved
  BY DEF Manage
<1>5. db'.day.done = db.day.done
  BY <1>2, <1>3
<1>6. \A q \in People : db.day.step[q] \in Nat /\ moved[q] \in Nat /\ db.day.step[q] <= MaxStep
  BY DayIsStored, CountsStay, BoundsAssumption DEF Steps
<1>7. DoneIsPast'
  <2> SUFFICES ASSUME NEW tok \in db.day.done PROVE tok[2] < db'.day.step[tok[1]]
    BY <1>5 DEF DoneIsPast, ServerInv
  <2>1. tok \in Tokens /\ tok[2] < db.day.step[tok[1]]
    BY DayIsStored DEF ServerInv, DoneIsPast
  <2>2. tok[1] \in People /\ tok[2] \in Int
    BY <2>1, BoundsAssumption DEF Tokens
  <2>3. db'.day.step[tok[1]] >= db.day.step[tok[1]]
    BY <1>2, <1>3, <1>6, <2>2
  <2>4. db'.day.step[tok[1]] \in Int /\ db.day.step[tok[1]] \in Int
    BY <1>2, <1>3, <1>6, <2>2
  <2> QED BY <2>1, <2>2, <2>3, <2>4
<1>8. OncePerToken'
  <2> SUFFICES ASSUME NEW q \in People
               PROVE  db'.day.step[q] = moved'[q] + Cardinality(DoneOf(db.day.done, q))
    BY <1>5 DEF OncePerToken, DoneOf
  <2>1. db.day.step[q] = moved[q] + Cardinality(DoneOf(db.day.done, q))
    BY DEF ServerInv, OncePerToken, DoneOf
  <2>2. Cardinality(DoneOf(db.day.done, q)) \in Nat
    BY CountsStay, FS_CardinalityType
  <2>3. moved'[q] = IF ok /\ q = p THEN moved[q] + 1 ELSE moved[q]
    BY <1>4 DEF ServerInv, ServerTypes, Steps
  <2>4. db'.day.step[q] = IF ok /\ q = p THEN db.day.step[q] + 1 ELSE db.day.step[q]
    BY <1>2, <1>3
  <2> QED BY <1>6, <2>1, <2>2, <2>3, <2>4
<1>9. moved' \in Steps
  <2>1. CASE ok
    <3>1. moved[p] + 1 \in 0..MaxStep
      BY <1>1, <1>6, CountsStay, BoundsAssumption
    <3> QED BY <1>4, <2>1, <3>1 DEF ServerInv, ServerTypes, Steps
  <2>2. CASE ~ok
    BY <1>4, <2>2 DEF ServerInv, ServerTypes
  <2> QED BY <2>1, <2>2
<1> QED BY <1>3, <1>5, <1>7, <1>8, <1>9 DEF ServerInv, ServerTypes

\* A submission is served: what is answered "yes" is stored, and nothing is taken back.
LEMMA RunsKeeps ==
  ASSUME ServerInv, NEW tok \in Tokens, NEW ok \in BOOLEAN, Runs(tok, ok)
  PROVE  /\ ServerInv'
         /\ db.day.done \subseteq db'.day.done
         /\ Advances
         /\ Answer(Verdict(tok), ok) \in {"yes", "no", "error"}
         /\ Answer(Verdict(tok), ok) = "yes" => tok \in db'.day.done
<1>1. Day = db.day /\ db.day \in [step : Steps, done : SUBSET Tokens]
  BY DayIsStored
<1>2. CASE Verdict(tok) # "run"
  <2>1. UNCHANGED <<db, cache, version, faults, epoch, moved>>
    BY <1>2 DEF Runs
  <2>2. ServerInv' /\ Advances
    BY <2>1 DEF ServerInv, ServerTypes, Cached, DoneIsPast, OncePerToken, Advances
  <2>3. Answer(Verdict(tok), ok) = Verdict(tok) /\ Verdict(tok) \in {"yes", "no"}
    BY <1>2 DEF Answer, Verdict
  <2>4. Verdict(tok) = "yes" => tok \in db.day.done
    BY <1>1 DEF Verdict
  <2> QED BY <2>1, <2>2, <2>3, <2>4
<1>3. CASE Verdict(tok) = "run"
  <2> DEFINE p == tok[1]
             stored == Confirmed(db.day, tok)
  <2>1. Commit(ok, stored) /\ UNCHANGED <<epoch, moved>>
    BY <1>1, <1>3 DEF Runs
  <2>2. p \in People /\ tok[2] = db.day.step[p] /\ db.day.step[p] < MaxStep /\ tok \notin db.day.done
    <3>1. tok \notin db.day.done /\ tok = Token(db.day, p)
      BY <1>1, <1>3 DEF Verdict
    <3>2. p \in People /\ tok[2] \in 0..(MaxStep - 1)
      BY DEF Tokens
    <3> QED BY <3>1, <3>2, BoundsAssumption DEF Token
  <2>3. /\ Stepped(db.day, p) \in [step : Steps, done : SUBSET Tokens]
        /\ Stepped(db.day, p).done = db.day.done
        /\ \A q \in People : Stepped(db.day, p).step[q] = IF q = p THEN db.day.step[q] + 1 ELSE db.day.step[q]
    BY <1>1, <2>2, SteppedTypes
  <2>4. stored = [step |-> Stepped(db.day, p).step, done |-> db.day.done \cup {tok}]
    BY <2>3 DEF Confirmed
  <2>5. /\ stored \in [step : Steps, done : SUBSET Tokens]
        /\ stored.done = db.day.done \cup {tok}
        /\ \A q \in People : stored.step[q] = IF q = p THEN db.day.step[q] + 1 ELSE db.day.step[q]
    BY <1>1, <2>3, <2>4
  <2> HIDE DEF stored
  <2>14. NoLater(db.day.step, stored.step)
    BY <1>1, <2>5, BoundsAssumption DEF NoLater, Steps
  <2>6. /\ db' \in Stored /\ cache' \in Stored \cup {Empty} /\ version' \in Nat
        /\ epoch' \in 0..MaxFaults /\ faults' \in 0..MaxFaults
        /\ Cached' /\ Advances
        /\ db'.day = IF ok THEN stored ELSE db.day
    BY <2>1, <2>5, <2>14, CommitKeeps
  <2>7. \A q \in People : db.day.step[q] \in Nat /\ db'.day.step[q] \in Nat
    BY <2>6, <1>1, BoundsAssumption DEF Stored, Steps
  <2>8. db.day.done \subseteq db'.day.done /\ db'.day.done \subseteq db.day.done \cup {tok}
    BY <2>5, <2>6
  <2>9. DoneIsPast'
    <3>1. IsFiniteSet(db'.day.done)
      BY <2>5, <2>6, FS_AddElement DEF ServerInv, DoneIsPast
    <3> SUFFICES ASSUME NEW t \in db'.day.done PROVE t[2] < db'.day.step[t[1]]
      BY <3>1 DEF DoneIsPast
    <3>2. CASE t \in db.day.done
      <4>1. t \in Tokens /\ t[2] < db.day.step[t[1]]
        BY <1>1, <3>2 DEF ServerInv, DoneIsPast
      <4>2. t[1] \in People /\ t[2] \in Int
        BY <4>1, BoundsAssumption DEF Tokens
      <4>3. db'.day.step[t[1]] >= db.day.step[t[1]]
        BY <2>5, <2>6, <2>7, <4>2
      <4> QED BY <4>1, <4>2, <4>3, <2>7
    <3>3. CASE t \notin db.day.done
      <4>1. t = tok /\ ok
        BY <2>6, <2>8, <3>3
      <4>2. db'.day.step[p] = db.day.step[p] + 1
        BY <2>2, <2>5, <2>6, <4>1
      <4> QED BY <2>2, <2>7, <4>1, <4>2
    <3> QED BY <3>2, <3>3
  <2>10. OncePerToken'
    <3> SUFFICES ASSUME NEW q \in People
                 PROVE  db'.day.step[q] = moved[q] + Cardinality(DoneOf(db'.day.done, q))
      BY <2>1 DEF OncePerToken, DoneOf
    <3>1. db.day.step[q] = moved[q] + Cardinality(DoneOf(db.day.done, q))
      BY DEF ServerInv, OncePerToken, DoneOf
    <3>2. Cardinality(DoneOf(db.day.done, q)) \in Nat /\ IsFiniteSet(DoneOf(db.day.done, q)) /\ moved[q] \in Nat
      BY CountsStay, FS_CardinalityType
    <3>3. CASE ok /\ q = p
      <4>1. DoneOf(db'.day.done, q) = DoneOf(db.day.done, q) \cup {tok} /\ tok \notin DoneOf(db.day.done, q)
        BY <2>2, <2>5, <2>6, <3>3 DEF DoneOf
      <4>2. Cardinality(DoneOf(db'.day.done, q)) = Cardinality(DoneOf(db.day.done, q)) + 1
        BY <3>2, <4>1, FS_AddElement
      <4>3. db'.day.step[q] = db.day.step[q] + 1
        BY <2>5, <2>6, <3>3
      <4> QED BY <3>1, <3>2, <4>2, <4>3
    <3>4. CASE ~(ok /\ q = p)
      <4>1. DoneOf(db'.day.done, q) = DoneOf(db.day.done, q)
        BY <2>5, <2>6, <3>4 DEF DoneOf
      <4>2. db'.day.step[q] = db.day.step[q]
        BY <2>5, <2>6, <3>4
      <4> QED BY <3>1, <4>1, <4>2
    <3> QED BY <3>3, <3>4
  <2>11. ServerInv'
    BY <2>1, <2>6, <2>9, <2>10 DEF ServerInv, ServerTypes
  <2>12. Answer(Verdict(tok), ok) = IF ok THEN "yes" ELSE "error"
    BY <1>3 DEF Answer
  <2>13. ok => tok \in db'.day.done
    BY <2>5, <2>6
  <2> QED BY <2>6, <2>8, <2>11, <2>12, <2>13
<1> QED BY <1>2, <1>3

\* A step that leaves the stored day alone, whether it is a fault or not.
LEMMA ServerRests ==
  ASSUME ServerInv, UNCHANGED <<db, cache, epoch, version, moved>>, faults' = faults \/ Fault
  PROVE  ServerInv'
<1>1. faults' \in 0..MaxFaults /\ epoch <= faults'
  BY BoundsAssumption DEF ServerInv, ServerTypes, Cached, Fault
<1> QED BY <1>1 DEF ServerInv, ServerTypes, Cached, DoneIsPast, OncePerToken

LEMMA RestartServer ==
  ASSUME ServerInv, Restart
  PROVE  ServerInv' /\ UNCHANGED db
<1>1. faults' \in 0..MaxFaults /\ epoch' \in 0..MaxFaults /\ epoch' <= faults'
  BY BoundsAssumption DEF ServerInv, ServerTypes, Cached, Restart, Fault
<1>2. cache' = Empty /\ version' = 0 /\ UNCHANGED <<db, moved>>
  BY DEF Restart
<1> QED BY <1>1, <1>2 DEF ServerInv, ServerTypes, Cached, DoneIsPast, OncePerToken, Empty
-----------------------------------------------------------------------------
(* Confirmations. *)

LEMMA StillAwaited ==
  ASSUME ConfirmInv, db.day.done \subseteq db'.day.done, NEW e \in Devices,
         sent'[e] = sent[e], pending'[e] = pending[e], check'[e] = check[e], told'[e] = told[e]
  PROVE  Awaited(e)'
BY DEF ConfirmInv, Awaited

\* No device's confirmation is touched.
LEMMA ConfirmRests ==
  ASSUME ConfirmInv, db.day.done \subseteq db'.day.done, late' \subseteq Tokens,
         UNCHANGED <<sent, pending, check, told>>
  PROVE  ConfirmInv'
BY StillAwaited DEF ConfirmInv, ConfirmTypes

\* One device's is.
LEMMA ConfirmOne ==
  ASSUME ConfirmInv, db.day.done \subseteq db'.day.done, ConfirmTypes', NEW d \in Devices, Awaited(d)',
         \A e \in Devices : e # d => /\ sent'[e] = sent[e] /\ pending'[e] = pending[e]
                                     /\ check'[e] = check[e] /\ told'[e] = told[e]
  PROVE  ConfirmInv'
BY StillAwaited DEF ConfirmInv

LEMMA SubmittedKeeps ==
  ASSUME ServerInv, ConfirmInv, NEW d \in Devices, NEW ok \in BOOLEAN, Submitted(d, ok)
  PROVE  ServerInv' /\ ConfirmInv' /\ Advances
<1> DEFINE answer == Answer(Verdict(sent[d].token), ok)
<1>1. sent[d] \in Sent /\ sent[d] # Nothing /\ sent[d].token \in Tokens /\ Runs(sent[d].token, ok)
  BY DEF Submitted, ConfirmInv, ConfirmTypes, Sent
<1>2. /\ ServerInv' /\ db.day.done \subseteq db'.day.done /\ Advances
      /\ answer \in {"yes", "no", "error"}
      /\ answer = "yes" => sent[d].token \in db'.day.done
  BY <1>1, RunsKeeps
<1>3. sent' = [sent EXCEPT ![d].answer = answer] /\ UNCHANGED <<pending, check, told, late>>
  BY DEF Submitted
<1> HIDE DEF answer
<1>4. sent'[d] = [sent[d] EXCEPT !.answer = answer] /\ \A e \in Devices : e # d => sent'[e] = sent[e]
  BY <1>3 DEF ConfirmInv, ConfirmTypes
<1>5. sent'[d] \in Sent /\ sent'[d].token = sent[d].token /\ sent'[d].answer = answer
  BY <1>1, <1>2, <1>4 DEF Sent
<1>6. ConfirmTypes'
  BY <1>3, <1>4, <1>5 DEF ConfirmInv, ConfirmTypes
<1>7. Awaited(d)'
  BY <1>1, <1>2, <1>3, <1>5 DEF ConfirmInv, Awaited
<1> QED BY <1>2, <1>3, <1>4, <1>6, <1>7, ConfirmOne

LEMMA RunsLateKeeps ==
  ASSUME ServerInv, ConfirmInv, NEW tok, NEW ok \in BOOLEAN, RunsLate(tok, ok)
  PROVE  ServerInv' /\ ConfirmInv' /\ Advances
<1>1. tok \in Tokens /\ Runs(tok, ok)
  BY DEF RunsLate, ConfirmInv, ConfirmTypes
<1>2. ServerInv' /\ db.day.done \subseteq db'.day.done /\ Advances
  BY <1>1, RunsKeeps
<1>3. late' \subseteq Tokens /\ UNCHANGED <<sent, pending, check, told>>
  BY DEF RunsLate, ConfirmInv, ConfirmTypes
<1> QED BY <1>2, <1>3, ConfirmRests

LEMMA ManageConfirms ==
  ASSUME ServerInv, ConfirmInv, NEW p \in People, NEW ok \in BOOLEAN, Manage(p, ok)
  PROVE  ServerInv' /\ ConfirmInv' /\ Advances
<1>1. ServerInv' /\ db'.day.done = db.day.done /\ Advances
  BY ManageKeeps
<1>2. late' \subseteq Tokens /\ UNCHANGED <<sent, pending, check, told>>
  BY DEF Manage, ConfirmInv, ConfirmTypes
<1> QED BY <1>1, <1>2, ConfirmRests

LEMMA ElsewhereKeeps ==
  ASSUME ServerInv, ConfirmInv, NEW p \in People, NEW s \in 0..MaxStep, Elsewhere(p, s)
  PROVE  ServerInv' /\ ConfirmInv'
<1>1. UNCHANGED <<db, cache, epoch, version, moved, faults, sent, pending, check, told>>
  BY DEF Elsewhere
<1>2. <<p, s>> \in Tokens
  BY BoundsAssumption DEF Elsewhere, Tokens
<1>3. late' \subseteq Tokens
  BY <1>2 DEF Elsewhere, ConfirmInv, ConfirmTypes
<1> QED BY <1>1, <1>3, ServerRests, ConfirmRests

LEMMA ServeCheckKeeps ==
  ASSUME ServerInv, ConfirmInv, NEW d \in Devices, ServeCheck(d)
  PROVE  ServerInv' /\ ConfirmInv'
<1>1. UNCHANGED <<db, cache, epoch, version, moved, faults, sent, pending, late, told>>
  BY DEF ServeCheck, server
<1>2. /\ check'[d] = IF pending[d] \in db.day.done THEN "yes" ELSE "no"
      /\ check[d] = "sent"
      /\ \A e \in Devices : e # d => check'[e] = check[e]
  BY DayIsStored DEF ServeCheck, ConfirmInv, ConfirmTypes
<1>3. ConfirmTypes'
  <2>1. check' \in [Devices -> {"none", "sent", "yes", "no"}]
    BY DEF ServeCheck, ConfirmInv, ConfirmTypes
  <2> QED BY <1>1, <2>1 DEF ConfirmInv, ConfirmTypes
<1>4. Awaited(d)'
  BY <1>1, <1>2 DEF ConfirmInv, Awaited
<1> QED BY <1>1, <1>2, <1>3, <1>4, ServerRests, ConfirmOne

LEMMA PressKeeps ==
  ASSUME ServerInv, PageTypes, ConfirmInv, NEW d \in Devices, NEW p \in People, Press(d, p)
  PROVE  ServerInv' /\ ConfirmInv'
<1> DEFINE tok == Token(shown[d], p)
<1>1. UNCHANGED <<db, cache, epoch, version, moved, faults, late, check, told>>
  BY DEF Press, server
<1>2. tok \in Tokens
  <2>1. shown[d] \in Data /\ shown[d].step[p] < MaxStep
    BY DEF Press, PageTypes
  <2>2. shown[d].step[p] \in 0..MaxStep
    BY <2>1 DEF Data, Steps
  <2> QED BY <2>1, <2>2, BoundsAssumption DEF Token, Tokens
<1>3. /\ sent' = [sent EXCEPT ![d] = [token |-> tok, answer |-> "none"]]
      /\ pending' = [pending EXCEPT ![d] = tok]
      /\ pending[d] = Nothing
  BY DEF Press
<1> HIDE DEF tok
<1>4. /\ sent'[d] = [token |-> tok, answer |-> "none"] /\ pending'[d] = tok
      /\ \A e \in Devices : e # d => sent'[e] = sent[e] /\ pending'[e] = pending[e]
  BY <1>3 DEF ConfirmInv, ConfirmTypes
<1>5. sent'[d] \in Sent /\ sent'[d].token = tok /\ sent'[d].answer = "none"
  BY <1>2, <1>4 DEF Sent
<1>6. ConfirmTypes'
  BY <1>1, <1>2, <1>3, <1>4, <1>5 DEF ConfirmInv, ConfirmTypes
<1>7. Awaited(d)'
  BY <1>1, <1>3, <1>4, <1>5 DEF ConfirmInv, Awaited
<1> QED BY <1>1, <1>4, <1>6, <1>7, ServerRests, ConfirmOne

LEMMA AnsweredKeeps ==
  ASSUME ServerInv, ConfirmInv, NEW d \in Devices, Answered(d)
  PROVE  ServerInv' /\ ConfirmInv'
<1>1. UNCHANGED <<db, cache, epoch, version, moved, faults, late, check>>
  BY DEF Answered, server
<1>2. sent[d] \in Sent /\ sent[d] # Nothing /\ pending[d] = sent[d].token /\ check[d] = "none"
  BY DEF Answered, ConfirmInv, ConfirmTypes, Awaited
<1>3. sent' = [sent EXCEPT ![d] = Nothing] /\ sent[d].answer # "none"
  BY DEF Answered
<1>4. sent'[d] = Nothing /\ \A e \in Devices : e # d => sent'[e] = sent[e]
  BY <1>3 DEF ConfirmInv, ConfirmTypes
<1>5. CASE sent[d].answer = "error"
  <2>1. UNCHANGED <<pending, told>>
    BY <1>5 DEF Answered
  <2>2. ConfirmTypes'
    BY <1>1, <1>3, <2>1 DEF ConfirmInv, ConfirmTypes
  <2>3. Awaited(d)'
    BY <1>1, <1>2, <1>4, <2>1 DEF ConfirmInv, Awaited
  <2> QED BY <1>1, <1>4, <2>1, <2>2, <2>3, ServerRests, ConfirmOne
<1>6. CASE sent[d].answer # "error"
  <2>1. /\ pending' = [pending EXCEPT ![d] = Nothing]
        /\ told' = [told EXCEPT ![d] = [token |-> pending[d], says |-> sent[d].answer]]
    BY <1>6 DEF Answered, Told
  <2>2. /\ pending'[d] = Nothing /\ told'[d] = [token |-> pending[d], says |-> sent[d].answer]
        /\ \A e \in Devices : e # d => pending'[e] = pending[e] /\ told'[e] = told[e]
    BY <2>1 DEF ConfirmInv, ConfirmTypes
  <2>3. sent[d].answer \in {"yes", "no"} /\ sent[d].token \in Tokens
    BY <1>2, <1>3, <1>6 DEF Sent
  <2>4. ConfirmTypes'
    BY <1>1, <1>2, <1>3, <2>1, <2>3 DEF ConfirmInv, ConfirmTypes
  <2>5. Awaited(d)'
    BY <1>1, <1>2, <1>4, <2>2 DEF ConfirmInv, Awaited
  <2> QED BY <1>1, <1>4, <2>2, <2>4, <2>5, ServerRests, ConfirmOne
<1> QED BY <1>5, <1>6

LEMMA CheckKeeps ==
  ASSUME ServerInv, ConfirmInv, NEW d \in Devices, Check(d)
  PROVE  ServerInv' /\ ConfirmInv'
<1>1. UNCHANGED <<db, cache, epoch, version, moved, faults, late, sent, pending, told>>
  BY DEF Check, server
<1>2. /\ check' = [check EXCEPT ![d] = "sent"]
      /\ check'[d] = "sent" /\ pending[d] # Nothing /\ sent[d] = Nothing
      /\ \A e \in Devices : e # d => check'[e] = check[e]
  BY DEF Check, Asks, ConfirmInv, ConfirmTypes
<1>3. ConfirmTypes'
  BY <1>1, <1>2 DEF ConfirmInv, ConfirmTypes
<1>4. Awaited(d)'
  BY <1>1, <1>2 DEF ConfirmInv, Awaited
<1> QED BY <1>1, <1>2, <1>3, <1>4, ServerRests, ConfirmOne

LEMMA CheckDoneKeeps ==
  ASSUME ServerInv, ConfirmInv, NEW d \in Devices, CheckDone(d)
  PROVE  ServerInv' /\ ConfirmInv'
<1>1. UNCHANGED <<db, cache, epoch, version, moved, faults, late, sent>>
  BY DEF CheckDone, server
<1>2. /\ check[d] \in {"yes", "no"}
      /\ told' = [told EXCEPT ![d] = [token |-> pending[d], says |-> check[d]]]
      /\ check' = [check EXCEPT ![d] = "none"] /\ pending' = [pending EXCEPT ![d] = Nothing]
  BY DEF CheckDone, Told
<1>3. /\ told'[d] = [token |-> pending[d], says |-> check[d]]
      /\ check'[d] = "none" /\ pending'[d] = Nothing
      /\ \A e \in Devices : e # d => check'[e] = check[e] /\ pending'[e] = pending[e] /\ told'[e] = told[e]
  BY <1>2 DEF ConfirmInv, ConfirmTypes
<1>4. pending[d] \in Tokens /\ sent[d] = Nothing
  BY <1>2 DEF ConfirmInv, ConfirmTypes, Awaited
<1>5. ConfirmTypes'
  BY <1>1, <1>2, <1>4 DEF ConfirmInv, ConfirmTypes
<1>6. Awaited(d)'
  BY <1>1, <1>2, <1>3, <1>4 DEF ConfirmInv, Awaited
<1> QED BY <1>1, <1>3, <1>5, <1>6, ServerRests, ConfirmOne

LEMMA UnservedTokens ==
  ASSUME ConfirmInv, NEW d \in Devices
  PROVE  Unserved(d) \subseteq Tokens
BY DEF ConfirmInv, ConfirmTypes, Unserved, Sent

LEMMA GiveUpKeeps ==
  ASSUME ServerInv, ConfirmInv, NEW d \in Devices, GiveUp(d)
  PROVE  ServerInv' /\ ConfirmInv'
<1>1. UNCHANGED <<db, cache, epoch, version, moved, pending, check, told>> /\ Fault
  BY DEF GiveUp
<1>2. late' \subseteq Tokens
  BY UnservedTokens DEF GiveUp, ConfirmInv, ConfirmTypes
<1>3. sent' = [sent EXCEPT ![d] = Nothing]
  BY DEF GiveUp
<1>4. sent'[d] = Nothing /\ \A e \in Devices : e # d => sent'[e] = sent[e]
  BY <1>3 DEF ConfirmInv, ConfirmTypes
<1>5. ConfirmTypes'
  BY <1>1, <1>2, <1>3 DEF ConfirmInv, ConfirmTypes
<1>6. Awaited(d)'
  BY <1>1, <1>4 DEF ConfirmInv, Awaited
<1> QED BY <1>1, <1>4, <1>5, <1>6, ServerRests, ConfirmOne

LEMMA CheckLostKeeps ==
  ASSUME ServerInv, ConfirmInv, NEW d \in Devices, CheckLost(d)
  PROVE  ServerInv' /\ ConfirmInv'
<1>1. UNCHANGED <<db, cache, epoch, version, moved, late, sent, pending, told>> /\ Fault
  BY DEF CheckLost, server
<1>2. /\ check' = [check EXCEPT ![d] = "none"]
      /\ check'[d] = "none" /\ \A e \in Devices : e # d => check'[e] = check[e]
  BY DEF CheckLost, ConfirmInv, ConfirmTypes
<1>3. ConfirmTypes'
  BY <1>1, <1>2 DEF ConfirmInv, ConfirmTypes
<1>4. Awaited(d)'
  BY <1>1, <1>2 DEF ConfirmInv, Awaited
<1> QED BY <1>1, <1>2, <1>3, <1>4, ServerRests, ConfirmOne

LEMMA ReloadKeeps ==
  ASSUME ServerInv, ConfirmInv, NEW d \in Devices, Reload(d)
  PROVE  ServerInv' /\ ConfirmInv'
<1>1. UNCHANGED <<db, cache, epoch, version, moved, pending>> /\ Fault
  BY DEF Reload
<1>2. late' \subseteq Tokens
  BY UnservedTokens DEF Reload, ConfirmInv, ConfirmTypes
<1>3. /\ sent' = [sent EXCEPT ![d] = Nothing] /\ check' = [check EXCEPT ![d] = "none"]
      /\ told' = [told EXCEPT ![d] = Nothing]
  BY DEF Reload
<1>4. /\ sent'[d] = Nothing /\ check'[d] = "none" /\ told'[d] = Nothing
      /\ \A e \in Devices : e # d => sent'[e] = sent[e] /\ check'[e] = check[e] /\ told'[e] = told[e]
  BY <1>3 DEF ConfirmInv, ConfirmTypes
<1>5. ConfirmTypes'
  BY <1>1, <1>2, <1>3 DEF ConfirmInv, ConfirmTypes
<1>6. Awaited(d)'
  BY <1>4 DEF Awaited
<1> QED BY <1>1, <1>4, <1>5, <1>6, ServerRests, ConfirmOne

LEMMA RestartKeeps ==
  ASSUME ServerInv, ConfirmInv, Restart
  PROVE  ServerInv' /\ ConfirmInv'
<1>1. ServerInv' /\ UNCHANGED <<db, pending, told>>
  BY RestartServer DEF Restart
<1>2. late' = {}
  BY DEF Restart
<1>3. \A d \in Devices :
        /\ sent'[d] = IF Unserved(d) = {} THEN sent[d] ELSE [sent[d] EXCEPT !.answer = "error"]
        /\ check'[d] = IF check[d] = "sent" THEN "none" ELSE check[d]
  BY DEF Restart
<1>4. ASSUME NEW d \in Devices PROVE /\ sent'[d] \in Sent \cup {Nothing} /\ check'[d] \in {"none", "sent", "yes", "no"}
                                     /\ Awaited(d)'
  <2>1. Awaited(d) /\ sent[d] \in Sent \cup {Nothing} /\ check[d] \in {"none", "sent", "yes", "no"}
    BY DEF ConfirmInv, ConfirmTypes
  <2>2. CASE Unserved(d) = {}
    BY <1>1, <1>3, <2>1, <2>2 DEF Awaited
  <2>3. CASE Unserved(d) # {}
    <3>1. sent[d] # Nothing /\ sent[d] \in Sent
      BY <2>1, <2>3 DEF Unserved
    <3>2. sent'[d] = [sent[d] EXCEPT !.answer = "error"]
      BY <1>3, <2>3
    <3>3. sent'[d] \in Sent /\ sent'[d].token = sent[d].token /\ sent'[d].answer = "error"
      BY <3>1, <3>2 DEF Sent
    <3> QED BY <1>1, <1>3, <2>1, <3>1, <3>3 DEF Awaited
  <2> QED BY <2>2, <2>3
<1>5. sent' \in [Devices -> Sent \cup {Nothing}] /\ check' \in [Devices -> {"none", "sent", "yes", "no"}]
  BY <1>4 DEF Restart
<1>6. ConfirmTypes'
  BY <1>1, <1>2, <1>5 DEF ConfirmInv, ConfirmTypes
<1> QED BY <1>1, <1>4, <1>6 DEF ConfirmInv
-----------------------------------------------------------------------------
(* Pages: the reads under way. *)

Replies == Data \cup {Nothing, Failed}

LEMMA RemoveAtIs ==
  ASSUME NEW S, NEW s \in Seq(S), NEW i \in DOMAIN s
  PROVE  /\ RemoveAt(s, i) \in Seq(S) /\ Len(RemoveAt(s, i)) = Len(s) - 1
         /\ \A j \in DOMAIN RemoveAt(s, i) :
               RemoveAt(s, i)[j] = (IF j < i THEN s[j] ELSE s[j + 1]) /\ j \in DOMAIN s /\ (j >= i => j + 1 \in DOMAIN s)
<1> DEFINE a == SubSeq(s, 1, i - 1)
           b == SubSeq(s, i + 1, Len(s))
<1>1. i \in 1..Len(s) /\ Len(s) \in Nat
  OBVIOUS
<1>2. a \in Seq(S) /\ Len(a) = i - 1 /\ \A j \in 1..(i - 1) : a[j] = s[j]
  BY <1>1
<1>3. b \in Seq(S) /\ Len(b) = Len(s) - i /\ \A j \in 1..(Len(s) - i) : b[j] = s[i + j]
  BY <1>1
<1> DEFINE c == RemoveAt(s, i)
<1>4. c = a \o b
  BY DEF RemoveAt
<1> HIDE DEF a, b, c
<1>5. c \in Seq(S) /\ Len(c) = Len(s) - 1
  BY <1>1, <1>2, <1>3, <1>4, ConcatProperties
<1>6. \A j \in 1..(Len(s) - 1) : c[j] = IF j <= i - 1 THEN a[j] ELSE b[j - (i - 1)]
  <2>1. \A j \in 1..(Len(a) + Len(b)) : (a \o b)[j] = IF j <= Len(a) THEN a[j] ELSE b[j - Len(a)]
    BY <1>2, <1>3, ConcatProperties
  <2>2. Len(a) + Len(b) = Len(s) - 1
    BY <1>1, <1>2, <1>3
  <2> QED BY <1>2, <1>4, <2>1, <2>2
<1>7. DOMAIN c = 1..(Len(s) - 1) /\ DOMAIN s = 1..Len(s)
  BY <1>1, <1>5
<1>8. ASSUME NEW j \in 1..(Len(s) - 1)
      PROVE  c[j] = (IF j < i THEN s[j] ELSE s[j + 1]) /\ j \in 1..Len(s) /\ j + 1 \in 1..Len(s)
  <2>1. CASE j < i
    BY <1>1, <1>2, <1>6, <2>1
  <2>2. CASE ~(j < i)
    <3>1. j - (i - 1) \in 1..(Len(s) - i) /\ i + (j - (i - 1)) = j + 1
      BY <1>1, <2>2
    <3>2. c[j] = b[j - (i - 1)] /\ b[j - (i - 1)] = s[j + 1]
      BY <1>1, <1>3, <1>6, <2>2, <3>1
    <3> QED BY <1>1, <2>2, <3>2
  <2> QED BY <2>1, <2>2
<1> QED BY <1>5, <1>7, <1>8 DEF c

LEMMA RestOf ==
  ASSUME NEW S, NEW s \in Seq(S), NEW i \in DOMAIN s
  PROVE  /\ SubSeq(s, i + 1, Len(s)) \in Seq(S) /\ Len(SubSeq(s, i + 1, Len(s))) = Len(s) - i
         /\ \A j \in DOMAIN SubSeq(s, i + 1, Len(s)) :
               SubSeq(s, i + 1, Len(s))[j] = s[i + j] /\ i + j \in DOMAIN s
OBVIOUS

\* Reads that are not touched keep their types.
LEMMA PageOne ==
  ASSUME PageTypes, NEW d \in Devices,
         shown' \in [Devices -> Data \cup {Nothing}], retired' \in [Devices -> SUBSET (0..MaxFaults)],
         loads' = [loads EXCEPT ![d] = loads'[d]],
         loads'[d] \in Seq(Replies), Len(loads'[d]) <= MaxLoads
  PROVE  PageTypes'
<1>1. loads' \in [Devices -> Seq(Replies)]
  BY DEF PageTypes, Replies
<1>2. \A e \in Devices : e # d => loads'[e] = loads[e]
  BY DEF PageTypes
<1> QED BY <1>1, <1>2 DEF PageTypes, Replies
-----------------------------------------------------------------------------
(* What a device holds, from the server's data. *)

NotAfter(x, y) == x.epoch < y.epoch \/ (x.epoch = y.epoch /\ x.version <= y.version)

\* Nothing served is newer than the server.
Served(x) ==
    /\ x.epoch <= epoch
    /\ NoLater(x.step, db.day.step)
    /\ x.epoch = epoch => x.version <= version
    /\ x.epoch = epoch /\ x.version = version => x.step = db.day.step

Holds(d, x) == x = shown[d] \/ \E i \in DOMAIN loads[d] : loads[d][i] = x

HeldServed(d) == \A x \in Data : Holds(d, x) => Served(x)
HeldOrdered(d) == \A x, y \in Data : Holds(d, x) /\ Holds(d, y) /\ NotAfter(x, y) => NoLater(x.step, y.step)

\* Later reads are served in later epochs, and one that waits is for the present one.
ReadsOrdered(d) == \A i, j \in DOMAIN loads[d] :
    i < j /\ loads[d][j] \in Data =>
        /\ loads[d][i] = Nothing => loads[d][j].epoch = epoch
        /\ loads[d][i] \in Data => loads[d][i].epoch <= loads[d][j].epoch
ReadsAfterShown(d) == \A i \in DOMAIN loads[d] :
    shown[d] \in Data /\ loads[d][i] \in Data => shown[d].epoch <= loads[d][i].epoch

Held(d) == HeldServed(d) /\ HeldOrdered(d) /\ ReadsOrdered(d) /\ ReadsAfterShown(d)
HeldInv == \A d \in Devices : Held(d)

LEMMA DataFields ==
  ASSUME NEW x \in Data
  PROVE  x.epoch \in Nat /\ x.version \in Nat /\ x.step \in Steps
         /\ \A p \in People : x.step[p] \in Nat
BY BoundsAssumption DEF Data, Steps

LEMMA NoLaterTransitive ==
  ASSUME NEW s \in Steps, NEW t \in Steps, NEW u \in Steps, NoLater(s, t), NoLater(t, u)
  PROVE  NoLater(s, u)
BY BoundsAssumption DEF NoLater, Steps

LEMMA NoLaterReflexive ==
  ASSUME NEW s \in Steps
  PROVE  NoLater(s, s)
BY BoundsAssumption DEF NoLater, Steps

LEMMA StoredSteps ==
  ASSUME ServerInv
  PROVE  db.day.step \in Steps /\ epoch \in Nat /\ version \in Nat
BY BoundsAssumption DEF ServerInv, ServerTypes, Stored

\* The server stores a later day.
LEMMA HeldBehind ==
  ASSUME ServerInv, ServerInv', HeldInv, Advances, UNCHANGED <<shown, loads>>
  PROVE  HeldInv'
<1> SUFFICES ASSUME NEW d \in Devices PROVE Held(d)'
  BY DEF HeldInv
<1>1. \A x : Holds(d, x)' <=> Holds(d, x)
  BY DEF Holds
<1>2. HeldOrdered(d)' /\ ReadsOrdered(d)' /\ ReadsAfterShown(d)'
  BY <1>1 DEF HeldInv, Held, HeldOrdered, ReadsOrdered, ReadsAfterShown, Advances
<1>3. ASSUME NEW x \in Data, Holds(d, x) PROVE Served(x)'
  <2>1. Served(x) /\ epoch' = epoch
    BY <1>3 DEF HeldInv, Held, HeldServed, Advances
  <2>2. CASE version' = version /\ db'.day.step = db.day.step
    BY <2>1, <2>2 DEF Served
  <2>3. CASE version' = version + 1 /\ NoLater(db.day.step, db'.day.step)
    <3>1. db.day.step \in Steps /\ db'.day.step \in Steps /\ x.step \in Steps /\ x.version \in Nat /\ version \in Nat
      BY StoredSteps, DataFields DEF ServerInv, ServerTypes, Stored
    <3>2. NoLater(x.step, db'.day.step)
      BY <2>1, <2>3, <3>1, NoLaterTransitive DEF Served
    <3>3. x.epoch = epoch => x.version <= version' /\ x.version # version'
      BY <2>1, <2>3, <3>1 DEF Served
    <3> QED BY <2>1, <3>2, <3>3 DEF Served
  <2> QED BY <2>2, <2>3 DEF Advances
<1> QED BY <1>1, <1>2, <1>3 DEF Held, HeldServed

\* Nothing it holds is served or dropped, and the server rests.
LEMMA HeldRests ==
  ASSUME HeldInv, UNCHANGED <<db, epoch, version, shown, loads>>
  PROVE  HeldInv'
BY DEF HeldInv, Held, HeldServed, HeldOrdered, ReadsOrdered, ReadsAfterShown, Holds, Served, NoLater

\* Another device's holdings, while the server rests.
LEMMA HeldElsewhere ==
  ASSUME HeldInv, UNCHANGED <<db, epoch, version>>, NEW e \in Devices, shown'[e] = shown[e], loads'[e] = loads[e]
  PROVE  Held(e)'
BY DEF HeldInv, Held, HeldServed, HeldOrdered, ReadsOrdered, ReadsAfterShown, Holds, Served, NoLater

\* Some of its reads are left, in their order, and what it shows is gone, as before,
\* or the answer to a read before all that are left.
LEMMA FewerReads ==
  ASSUME HeldInv, UNCHANGED <<db, epoch, version>>, NEW d \in Devices,
         NEW left \in [DOMAIN loads'[d] -> DOMAIN loads[d]],
         \A j \in DOMAIN loads'[d] : loads'[d][j] = loads[d][left[j]],
         \A i, j \in DOMAIN loads'[d] : i < j => left[i] < left[j],
         \/ shown'[d] \in {shown[d], Nothing}
         \/ \E k \in DOMAIN loads[d] : /\ shown'[d] = loads[d][k]
                                       /\ \A j \in DOMAIN loads'[d] : k < left[j]
  PROVE  Held(d)'
<1>0. Held(d)
  BY DEF HeldInv
<1>1. ASSUME NEW x \in Data, Holds(d, x)' PROVE Holds(d, x)
  <2>1. CASE x = shown'[d]
    <3>1. x # Nothing
      BY NothingAssumption
    <3> QED BY <2>1, <3>1 DEF Holds
  <2>2. CASE \E j \in DOMAIN loads'[d] : loads'[d][j] = x
    BY <2>2 DEF Holds
  <2> QED BY <1>1, <2>1, <2>2 DEF Holds
<1>2. \A x \in Data : Served(x)' <=> Served(x)
  BY DEF Served, NoLater
<1>3. HeldServed(d)'
  BY <1>0, <1>1, <1>2 DEF Held, HeldServed
<1>4. HeldOrdered(d)'
  BY <1>0, <1>1 DEF Held, HeldOrdered
<1>5. ReadsOrdered(d)'
  <2> SUFFICES ASSUME NEW i \in DOMAIN loads'[d], NEW j \in DOMAIN loads'[d], i < j, loads'[d][j] \in Data
               PROVE  /\ loads'[d][i] = Nothing => loads'[d][j].epoch = epoch
                      /\ loads'[d][i] \in Data => loads'[d][i].epoch <= loads'[d][j].epoch
    BY DEF ReadsOrdered
  <2>1. /\ left[i] \in DOMAIN loads[d] /\ left[j] \in DOMAIN loads[d] /\ left[i] < left[j]
        /\ loads'[d][i] = loads[d][left[i]] /\ loads'[d][j] = loads[d][left[j]]
    OBVIOUS
  <2> QED BY <1>0, <2>1 DEF Held, ReadsOrdered
<1>6. ReadsAfterShown(d)'
  <2> SUFFICES ASSUME NEW j \in DOMAIN loads'[d], shown'[d] \in Data, loads'[d][j] \in Data
               PROVE  shown'[d].epoch <= loads'[d][j].epoch
    BY DEF ReadsAfterShown
  <2>1. left[j] \in DOMAIN loads[d] /\ loads'[d][j] = loads[d][left[j]]
    OBVIOUS
  <2>2. CASE shown'[d] \in {shown[d], Nothing}
    <3>1. shown'[d] = shown[d]
      BY <2>2, NothingAssumption
    <3> QED BY <1>0, <2>1, <3>1 DEF Held, ReadsAfterShown
  <2>3. ASSUME NEW k \in DOMAIN loads[d], shown'[d] = loads[d][k], \A i \in DOMAIN loads'[d] : k < left[i]
        PROVE  shown'[d].epoch <= loads'[d][j].epoch
    <3>1. k < left[j]
      BY <2>3
    <3> QED BY <1>0, <2>1, <2>3, <3>1 DEF Held, ReadsOrdered
  <2> QED BY <2>2, <2>3
<1> QED BY <1>3, <1>4, <1>5, <1>6 DEF Held

\* The page's part of a step, and what it leaves of the device's reads.
PageInv == PageTypes /\ HeldInv

LEMMA ReadsOf ==
  ASSUME PageTypes, NEW d \in Devices
  PROVE  /\ loads[d] \in Seq(Replies) /\ Len(loads[d]) <= MaxLoads /\ Len(loads[d]) \in Nat
         /\ DOMAIN loads[d] = 1..Len(loads[d])
         /\ \A i \in DOMAIN loads[d] : loads[d][i] \in Replies
<1>1. loads[d] \in Seq(Replies) /\ Len(loads[d]) <= MaxLoads
  BY DEF PageTypes, Replies
<1> QED BY <1>1

LEMMA ReadRemoved ==
  ASSUME PageInv, UNCHANGED <<db, epoch, version>>, NEW d \in Devices, NEW i \in DOMAIN loads[d],
         loads' = [loads EXCEPT ![d] = RemoveAt(@, i)], UNCHANGED <<shown, retired>>
  PROVE  PageInv'
<1> DEFINE s == loads[d]
           t == loads'[d]
           left == [j \in DOMAIN t |-> IF j < i THEN j ELSE j + 1]
<1>1. s \in Seq(Replies) /\ Len(s) <= MaxLoads /\ Len(s) \in Nat /\ i \in 1..Len(s)
  BY ReadsOf DEF PageInv
<1>2. /\ t = RemoveAt(s, i) /\ loads' = [loads EXCEPT ![d] = t]
      /\ \A e \in Devices : e # d => loads'[e] = loads[e]
  BY DEF PageInv, PageTypes
<1>3. /\ t \in Seq(Replies) /\ Len(t) = Len(s) - 1
      /\ \A j \in DOMAIN t : t[j] = (IF j < i THEN s[j] ELSE s[j + 1]) /\ j \in DOMAIN s /\ (j >= i => j + 1 \in DOMAIN s)
  <2>1. /\ RemoveAt(s, i) \in Seq(Replies) /\ Len(RemoveAt(s, i)) = Len(s) - 1
        /\ \A j \in DOMAIN RemoveAt(s, i) :
              RemoveAt(s, i)[j] = (IF j < i THEN s[j] ELSE s[j + 1]) /\ j \in DOMAIN s /\ (j >= i => j + 1 \in DOMAIN s)
    BY <1>1, RemoveAtIs
  <2> HIDE DEF s, t
  <2> QED BY <1>2, <2>1
<1>4. PageTypes'
  <2>1. /\ PageTypes /\ shown' \in [Devices -> Data \cup {Nothing}]
        /\ retired' \in [Devices -> SUBSET (0..MaxFaults)]
    BY DEF PageInv, PageTypes
  <2>2. t \in Seq(Replies) /\ Len(t) <= MaxLoads
    BY <1>1, <1>3, BoundsAssumption
  <2> QED BY <1>2, <2>1, <2>2, PageOne
<1> HIDE DEF s, t
<1>5. DOMAIN t \subseteq Nat
  BY <1>3
<1>6. left \in [DOMAIN t -> DOMAIN s] /\ \A j \in DOMAIN t : t[j] = s[left[j]]
  BY <1>1, <1>3, <1>5
<1>7. \A j, k \in DOMAIN t : j < k => left[j] < left[k]
  BY <1>1, <1>5
<1> HIDE DEF left
<1>8. Held(d)'
  BY <1>6, <1>7, FewerReads DEF PageInv, s, t
<1>9. \A e \in Devices : e # d => Held(e)'
  BY <1>2, HeldElsewhere DEF PageInv
<1> QED BY <1>4, <1>8, <1>9 DEF PageInv, HeldInv

\* An answer is shown, and those to earlier reads are dropped.
LEMMA ReadShown ==
  ASSUME PageInv, UNCHANGED <<db, epoch, version>>, NEW d \in Devices, NEW i \in DOMAIN loads[d],
         loads[d][i] \in Data, shown' = [shown EXCEPT ![d] = loads[d][i]],
         loads' = [loads EXCEPT ![d] = SubSeq(@, i + 1, Len(@))],
         retired' \in [Devices -> SUBSET (0..MaxFaults)]
  PROVE  PageInv'
<1> DEFINE s == loads[d]
           t == loads'[d]
           left == [j \in DOMAIN t |-> i + j]
<1>1. s \in Seq(Replies) /\ Len(s) <= MaxLoads /\ Len(s) \in Nat /\ i \in 1..Len(s)
  BY ReadsOf DEF PageInv
<1>2. /\ t = SubSeq(s, i + 1, Len(s)) /\ loads' = [loads EXCEPT ![d] = t] /\ shown'[d] = s[i]
      /\ \A e \in Devices : e # d => loads'[e] = loads[e] /\ shown'[e] = shown[e]
  BY DEF PageInv, PageTypes
<1>3. /\ t \in Seq(Replies) /\ Len(t) = Len(s) - i
      /\ \A j \in DOMAIN t : t[j] = s[i + j] /\ i + j \in DOMAIN s
  <2>1. /\ SubSeq(s, i + 1, Len(s)) \in Seq(Replies) /\ Len(SubSeq(s, i + 1, Len(s))) = Len(s) - i
        /\ \A j \in DOMAIN SubSeq(s, i + 1, Len(s)) :
              SubSeq(s, i + 1, Len(s))[j] = s[i + j] /\ i + j \in DOMAIN s
    BY <1>1, RestOf
  <2> HIDE DEF s, t
  <2> QED BY <1>2, <2>1
<1>4. PageTypes'
  <2>1. /\ PageTypes /\ shown' \in [Devices -> Data \cup {Nothing}]
        /\ retired' \in [Devices -> SUBSET (0..MaxFaults)]
    BY DEF PageInv, PageTypes
  <2>2. t \in Seq(Replies) /\ Len(t) <= MaxLoads
    BY <1>1, <1>3, BoundsAssumption
  <2> QED BY <1>2, <2>1, <2>2, PageOne
<1> HIDE DEF s, t
<1>5. DOMAIN t \subseteq Nat \ {0}
  BY <1>3
<1>6. left \in [DOMAIN t -> DOMAIN s] /\ \A j \in DOMAIN t : t[j] = s[left[j]] /\ i < left[j]
  BY <1>1, <1>3, <1>5
<1>7. \A j, k \in DOMAIN t : j < k => left[j] < left[k]
  BY <1>1, <1>5
<1> HIDE DEF left
<1>8. Held(d)'
  BY <1>2, <1>6, <1>7, FewerReads DEF PageInv, s, t
<1>9. \A e \in Devices : e # d => Held(e)'
  BY <1>2, HeldElsewhere DEF PageInv
<1> QED BY <1>4, <1>8, <1>9 DEF PageInv, HeldInv

\* A device forgets its reads.
LEMMA ReadsDropped ==
  ASSUME PageInv, UNCHANGED <<db, epoch, version>>, NEW d \in Devices, loads' = [loads EXCEPT ![d] = <<>>],
         shown' = shown \/ shown' = [shown EXCEPT ![d] = Nothing],
         retired' \in [Devices -> SUBSET (0..MaxFaults)]
  PROVE  PageInv'
<1>1. /\ loads'[d] = <<>> /\ shown'[d] \in {shown[d], Nothing}
      /\ shown' \in [Devices -> Data \cup {Nothing}]
      /\ \A e \in Devices : e # d => loads'[e] = loads[e] /\ shown'[e] = shown[e]
  BY DEF PageInv, PageTypes
<1>2. PageTypes'
  <2>1. loads'[d] \in Seq(Replies) /\ Len(loads'[d]) <= MaxLoads
    <3>1. <<>> \in Seq(Replies) /\ Len(<<>>) <= MaxLoads
      BY BoundsAssumption
    <3>2. loads'[d] = <<>>
      BY <1>1
    <3> QED BY <3>1, <3>2, Zenon
  <2>2. loads' = [loads EXCEPT ![d] = loads'[d]]
    BY <1>1
  <2> QED BY <1>1, <2>1, <2>2, PageOne DEF PageInv
<1>3. Held(d)'
  <2>1. DOMAIN loads'[d] = {}
    BY <1>1
  <2>2. \A x \in Data : Holds(d, x)' => Holds(d, x)
    BY <1>1, <2>1, NothingAssumption DEF Holds
  <2>3. \A x \in Data : Served(x)' <=> Served(x)
    BY DEF Served, NoLater
  <2>4. HeldServed(d)' /\ HeldOrdered(d)'
    BY <2>2, <2>3 DEF PageInv, HeldInv, Held, HeldServed, HeldOrdered
  <2>5. ReadsOrdered(d)' /\ ReadsAfterShown(d)'
    BY <2>1 DEF ReadsOrdered, ReadsAfterShown
  <2> QED BY <2>4, <2>5 DEF Held
<1>4. \A e \in Devices : e # d => Held(e)'
  BY <1>1, HeldElsewhere DEF PageInv
<1> QED BY <1>2, <1>3, <1>4 DEF PageInv, HeldInv

LEMMA LoadPage ==
  ASSUME PageInv, NEW d \in Devices, Load(d)
  PROVE  PageInv'
<1> DEFINE s == loads[d]
           t == loads'[d]
<1>1. s \in Seq(Replies) /\ Len(s) < MaxLoads /\ Len(s) \in Nat
  BY ReadsOf DEF PageInv, Load
<1>2. UNCHANGED <<db, epoch, version, shown, retired>> /\ loads' = [loads EXCEPT ![d] = Append(@, Nothing)]
  BY DEF Load, server
<1>3. /\ t = Append(s, Nothing) /\ loads' = [loads EXCEPT ![d] = t]
      /\ \A e \in Devices : e # d => loads'[e] = loads[e]
  BY <1>2 DEF PageInv, PageTypes
<1> HIDE DEF s, t
<1>4. /\ t \in Seq(Replies) /\ Len(t) = Len(s) + 1 /\ t[Len(s) + 1] = Nothing
      /\ DOMAIN t = 1..(Len(s) + 1) /\ DOMAIN s = 1..Len(s)
      /\ \A j \in 1..Len(s) : t[j] = s[j]
  BY <1>1, <1>3 DEF Replies
<1>5. PageTypes'
  <2>1. /\ PageTypes /\ shown' \in [Devices -> Data \cup {Nothing}]
        /\ retired' \in [Devices -> SUBSET (0..MaxFaults)]
    BY <1>2 DEF PageInv, PageTypes
  <2>2. t \in Seq(Replies) /\ Len(t) <= MaxLoads
    BY <1>1, <1>4, BoundsAssumption
  <2> QED BY <1>3, <2>1, <2>2, PageOne DEF t
<1>6. \A j \in DOMAIN t : t[j] \in Data => j \in DOMAIN s /\ s[j] = t[j]
  BY <1>1, <1>4, NothingAssumption
<1>7. \A i, j \in DOMAIN t : i < j /\ j \in DOMAIN s => i \in DOMAIN s /\ s[i] = t[i]
  BY <1>1, <1>4
<1>8. Held(d)'
  <2>0. HeldServed(d) /\ HeldOrdered(d) /\ ReadsOrdered(d) /\ ReadsAfterShown(d)
    BY DEF PageInv, HeldInv, Held
  <2>1. \A x \in Data : Holds(d, x)' => Holds(d, x)
    BY <1>2, <1>6 DEF Holds, s, t
  <2>2. \A x \in Data : Served(x)' <=> Served(x)
    BY <1>2 DEF Served, NoLater
  <2>3. HeldServed(d)'
    BY <2>0, <2>1, <2>2 DEF HeldServed
  <2>4. HeldOrdered(d)'
    BY <2>0, <2>1 DEF HeldOrdered
  <2>5. ReadsOrdered(d)'
    BY <1>2, <1>6, <1>7, <2>0 DEF ReadsOrdered, s, t
  <2>6. ReadsAfterShown(d)'
    BY <1>2, <1>6, <2>0 DEF ReadsAfterShown, s, t
  <2> QED BY <2>3, <2>4, <2>5, <2>6 DEF Held
<1>9. \A e \in Devices : e # d => Held(e)'
  BY <1>2, <1>3, HeldElsewhere DEF PageInv
<1> QED BY <1>5, <1>8, <1>9 DEF PageInv, HeldInv

\* A read is served, with the present day, epoch and version.
LEMMA ServeLoadPage ==
  ASSUME ServerInv, PageInv, NEW d \in Devices, NEW k, ServeLoad(d, k)
  PROVE  PageInv'
<1> DEFINE s == loads[d]
           t == loads'[d]
           new == [epoch |-> epoch, version |-> version, step |-> db.day.step]
<1>1. s \in Seq(Replies) /\ Len(s) <= MaxLoads /\ Len(s) \in Nat /\ k \in DOMAIN s /\ s[k] = Nothing
  BY ReadsOf DEF PageInv, ServeLoad
<1>2. new \in Data /\ new.epoch = epoch /\ new.version = version /\ new.step = db.day.step
  BY StoredSteps DEF ServerInv, ServerTypes, Data
<1>3. UNCHANGED <<db, epoch, version, shown, retired>> /\ loads' = [loads EXCEPT ![d][k] = new]
  BY DayIsStored DEF ServeLoad, server
<1>4. /\ t = [s EXCEPT ![k] = new] /\ loads' = [loads EXCEPT ![d] = t]
      /\ \A e \in Devices : e # d => loads'[e] = loads[e]
  BY <1>3 DEF PageInv, PageTypes
<1> HIDE DEF s, t, new
<1>5. /\ t \in Seq(Replies) /\ Len(t) = Len(s) /\ DOMAIN t = DOMAIN s /\ t[k] = new
      /\ DOMAIN s = 1..Len(s)
      /\ \A j \in DOMAIN s : j # k => t[j] = s[j]
  BY <1>1, <1>2, <1>4 DEF Replies
<1>6. PageTypes'
  <2>1. /\ PageTypes /\ shown' \in [Devices -> Data \cup {Nothing}]
        /\ retired' \in [Devices -> SUBSET (0..MaxFaults)]
    BY <1>3 DEF PageInv, PageTypes
  <2>2. t \in Seq(Replies) /\ Len(t) <= MaxLoads
    BY <1>1, <1>5
  <2> QED BY <1>4, <2>1, <2>2, PageOne DEF t
<1>7. Held(d)'
  <2>0. HeldServed(d) /\ HeldOrdered(d) /\ ReadsOrdered(d) /\ ReadsAfterShown(d)
    BY DEF PageInv, HeldInv, Held
  <2>1. \A x \in Data : Holds(d, x)' => x = new \/ Holds(d, x)
    BY <1>3, <1>5 DEF Holds, s, t
  <2>2. \A x \in Data : Served(x)' <=> Served(x)
    BY <1>3 DEF Served, NoLater
  <2>3. NoLater(db.day.step, db.day.step)
    BY StoredSteps, NoLaterReflexive
  <2>4. Served(new)
    BY <1>2, <2>3, StoredSteps DEF Served
  <2>5. HeldServed(d)'
    BY <2>0, <2>1, <2>2, <2>4 DEF HeldServed
  <2>6. HeldOrdered(d)'
    <3> SUFFICES ASSUME NEW x \in Data, NEW y \in Data, x = new \/ Holds(d, x), y = new \/ Holds(d, y),
                        NotAfter(x, y)
                 PROVE  NoLater(x.step, y.step)
      BY <2>1 DEF HeldOrdered
    <3>1. CASE y = new
      <4>1. Served(x) /\ y.step = db.day.step
        BY <1>2, <2>0, <2>4, <3>1 DEF HeldServed
      <4> QED BY <4>1 DEF Served
    <3>2. CASE y # new /\ x # new
      BY <2>0, <3>2 DEF HeldOrdered
    <3>3. CASE y # new /\ x = new
      <4>1. Served(y) /\ y.epoch \in Nat /\ y.version \in Nat /\ epoch \in Nat /\ version \in Nat
        BY <2>0, <3>3, DataFields, StoredSteps DEF HeldServed
      <4>2. y.epoch = epoch /\ y.version = version
        BY <1>2, <3>3, <4>1 DEF NotAfter, Served
      <4>3. y.step = db.day.step
        BY <4>1, <4>2 DEF Served
      <4> QED BY <1>2, <2>3, <3>3, <4>3
    <3> QED BY <3>1, <3>2, <3>3
  <2>7. ReadsOrdered(d)'
    <3> SUFFICES ASSUME NEW i \in DOMAIN s, NEW j \in DOMAIN s, i < j, t[j] \in Data
                 PROVE  /\ t[i] = Nothing => t[j].epoch = epoch
                        /\ t[i] \in Data => t[i].epoch <= t[j].epoch
      BY <1>3, <1>5 DEF ReadsOrdered, s, t
    <3>1. i # j
      BY <1>5
    <3>2. CASE j = k
      <4>1. t[j] = new /\ t[i] = s[i]
        BY <1>5, <3>1, <3>2
      <4>2. t[i] \in Data => Holds(d, t[i])
        BY <4>1 DEF Holds, s
      <4>3. t[i] \in Data => t[i].epoch <= epoch
        BY <2>0, <4>2 DEF HeldServed, Served
      <4> QED BY <1>2, <4>1, <4>3
    <3>3. CASE i = k
      <4>1. t[i] = new /\ t[j] = s[j] /\ s[i] = Nothing
        BY <1>1, <1>5, <3>1, <3>3
      <4>2. t[j].epoch = epoch
        BY <2>0, <4>1 DEF ReadsOrdered, s
      <4> QED BY <1>2, <4>1, <4>2, StoredSteps
    <3>4. CASE i # k /\ j # k
      BY <1>5, <2>0, <3>4 DEF ReadsOrdered, s
    <3> QED BY <3>2, <3>3, <3>4
  <2>8. ReadsAfterShown(d)'
    <3> SUFFICES ASSUME NEW j \in DOMAIN s, shown[d] \in Data, t[j] \in Data
                 PROVE  shown[d].epoch <= t[j].epoch
      BY <1>3, <1>5 DEF ReadsAfterShown, s, t
    <3>1. CASE j = k
      <4>1. Served(shown[d])
        BY <2>0 DEF HeldServed, Holds
      <4> QED BY <1>2, <1>5, <3>1, <4>1 DEF Served
    <3>2. CASE j # k
      BY <1>5, <2>0, <3>2 DEF ReadsAfterShown, s
    <3> QED BY <3>1, <3>2
  <2> QED BY <2>5, <2>6, <2>7, <2>8 DEF Held
<1>8. \A e \in Devices : e # d => Held(e)'
  BY <1>3, <1>4, HeldElsewhere DEF PageInv
<1> QED BY <1>6, <1>7, <1>8 DEF PageInv, HeldInv

\* No read outlives the server it was sent to.
LEMMA RestartPage ==
  ASSUME ServerInv, PageInv, Restart
  PROVE  PageInv'
<1>1. UNCHANGED <<db, shown, retired>> /\ epoch' = epoch + 1
  BY DEF Restart
<1>2. loads' = [d \in Devices |-> [i \in DOMAIN loads[d] |-> IF loads[d][i] = Nothing THEN Failed ELSE loads[d][i]]]
  BY DEF Restart
<1>3. ASSUME NEW d \in Devices
      PROVE  /\ loads'[d] \in Seq(Replies) /\ Len(loads'[d]) <= MaxLoads
             /\ Held(d)'
  <2> DEFINE s == loads[d]
             t == loads'[d]
  <2>1. s \in Seq(Replies) /\ Len(s) <= MaxLoads /\ Len(s) \in Nat /\ DOMAIN s = 1..Len(s)
        /\ \A i \in DOMAIN s : s[i] \in Replies
    BY ReadsOf DEF PageInv
  <2>2. t = [i \in DOMAIN s |-> IF s[i] = Nothing THEN Failed ELSE s[i]]
    BY <1>2
  <2> HIDE DEF s, t
  <2>3. t \in Seq(Replies) /\ Len(t) = Len(s) /\ DOMAIN t = DOMAIN s
    <3>1. t = [i \in 1..Len(s) |-> IF s[i] = Nothing THEN Failed ELSE s[i]]
      BY <2>1, <2>2
    <3>2. \A i \in 1..Len(s) : (IF s[i] = Nothing THEN Failed ELSE s[i]) \in Replies
      BY <2>1 DEF Replies
    <3> QED BY <2>1, <3>1, <3>2
  <2>4. \A i \in DOMAIN s : t[i] # Nothing /\ (t[i] \in Data => s[i] = t[i])
    BY <2>2, NothingAssumption
  <2>5. HeldServed(d) /\ HeldOrdered(d) /\ ReadsOrdered(d) /\ ReadsAfterShown(d)
    BY DEF PageInv, HeldInv, Held
  <2>6. \A x \in Data : Holds(d, x)' => Holds(d, x)
    BY <1>1, <2>3, <2>4 DEF Holds, s, t
  <2>7. ASSUME NEW x \in Data, Holds(d, x) PROVE Served(x)'
    <3>1. Served(x) /\ x.epoch \in Nat /\ epoch \in Nat
      BY <2>5, <2>7, DataFields, StoredSteps DEF HeldServed
    <3>2. x.epoch <= epoch' /\ x.epoch # epoch'
      BY <1>1, <3>1 DEF Served
    <3>3. NoLater(x.step, db'.day.step)
      BY <1>1, <3>1 DEF Served
    <3> QED BY <3>2, <3>3 DEF Served
  <2>8. HeldServed(d)' /\ HeldOrdered(d)'
    BY <2>5, <2>6, <2>7 DEF HeldServed, HeldOrdered
  <2>9. ReadsOrdered(d)'
    BY <2>3, <2>4, <2>5 DEF ReadsOrdered, s, t
  <2>10. ReadsAfterShown(d)'
    BY <1>1, <2>3, <2>4, <2>5 DEF ReadsAfterShown, s, t
  <2> QED BY <2>1, <2>3, <2>8, <2>9, <2>10 DEF Held, t
<1>4. loads' \in [Devices -> Seq(Replies)]
  BY <1>2, <1>3
<1> QED BY <1>1, <1>3, <1>4 DEF PageInv, PageTypes, HeldInv, Replies
-----------------------------------------------------------------------------
IInv == ServerInv /\ ConfirmInv /\ PageInv

LEMMA InitIInv == Init => IInv
<1> SUFFICES ASSUME Init PROVE IInv
  OBVIOUS
<1>1. db.day = [step |-> [p \in People |-> 0], done |-> {}] /\ db.version = 1
      /\ db = [version |-> 1, day |-> db.day] /\ moved = [p \in People |-> 0]
  BY DEF Init
<1>2. [p \in People |-> 0] \in Steps
  <2>1. 0 \in 0..MaxStep
    BY BoundsAssumption
  <2> QED BY <2>1 DEF Steps
<1>3. db \in Stored
  <2>1. db.day \in [step : Steps, done : SUBSET Tokens]
    BY <1>1, <1>2
  <2> QED BY <1>1, <2>1 DEF Stored
<1>4. ServerTypes /\ Cached
  <2>1. 0 \in 0..MaxFaults /\ cache = Empty /\ epoch = 0 /\ version = 0 /\ faults = 0
    BY BoundsAssumption DEF Init
  <2> QED BY <1>1, <1>2, <1>3, <2>1 DEF ServerTypes, Cached
<1>5. DoneIsPast
  BY <1>1, FS_EmptySet DEF DoneIsPast
<1>6. OncePerToken
  <2>1. \A p \in People : {tok \in db.day.done : tok[1] = p} = {} /\ db.day.step[p] = 0 /\ moved[p] = 0
    BY <1>1
  <2>2. Cardinality({}) = 0
    BY FS_EmptySet
  <2> QED BY <2>1, <2>2 DEF OncePerToken
<1>7. ConfirmInv
  <2>1. ConfirmTypes
    BY DEF Init, ConfirmTypes
  <2>2. \A d \in Devices : Awaited(d)
    BY DEF Init, Awaited
  <2> QED BY <2>1, <2>2 DEF ConfirmInv
<1>8. /\ shown = [d \in Devices |-> Nothing] /\ retired = [d \in Devices |-> {}]
      /\ loads = [d \in Devices |-> <<>>]
  BY DEF Init
<1>9. PageTypes
  <2>1. <<>> \in Seq(Data \cup {Nothing, Failed}) /\ Len(<<>>) <= MaxLoads
    BY BoundsAssumption
  <2>2. loads \in [Devices -> Seq(Data \cup {Nothing, Failed})]
    BY <1>8, <2>1
  <2>3. \A d \in Devices : Len(loads[d]) <= MaxLoads
    BY <1>8, <2>1
  <2> QED BY <1>8, <2>2, <2>3 DEF PageTypes
<1>10. HeldInv
  <2> SUFFICES ASSUME NEW d \in Devices PROVE Held(d)
    BY DEF HeldInv
  <2>1. DOMAIN loads[d] = {} /\ shown[d] = Nothing
    BY <1>8
  <2>2. \A x \in Data : ~Holds(d, x)
    BY <2>1, NothingAssumption DEF Holds
  <2> QED BY <2>1, <2>2 DEF Held, HeldServed, HeldOrdered, ReadsOrdered, ReadsAfterShown
<1> QED BY <1>4, <1>5, <1>6, <1>7, <1>9, <1>10 DEF IInv, ServerInv, PageInv

\* An answer that arrives is shown or dropped; either way what is shown goes forward.
LEMMA LoadDoneKeeps ==
  ASSUME IInv, NEW d \in Devices, LoadDone(d)
  PROVE  /\ PageInv' /\ UNCHANGED <<db, cache, epoch, version, late, moved, sent, pending, check, told, faults>>
         /\ \A e \in Devices : shown[e] # Nothing => NoLater(shown[e].step, shown'[e].step)
<1>1. PICK i \in DOMAIN loads[d] :
         /\ loads[d][i] # Nothing
         /\ IF loads[d][i] # Failed /\ Accepts(d, loads[d][i])
            THEN /\ shown' = [shown EXCEPT ![d] = loads[d][i]]
                 /\ retired' = IF shown[d] # Nothing /\ shown[d].epoch # loads[d][i].epoch
                               THEN [retired EXCEPT ![d] = @ \cup {shown[d].epoch}] ELSE retired
                 /\ loads' = [loads EXCEPT ![d] = SubSeq(@, i + 1, Len(@))]
            ELSE /\ loads' = [loads EXCEPT ![d] = RemoveAt(@, i)]
                 /\ UNCHANGED <<shown, retired>>
         /\ UNCHANGED <<server, sent, pending, check, told, faults>>
  BY DEF LoadDone
<1>2. UNCHANGED <<db, cache, epoch, version, late, moved, sent, pending, check, told, faults>>
  BY <1>1 DEF server
<1>3. PageInv /\ \A e \in Devices : shown[e] \in Data \cup {Nothing}
  BY DEF IInv, PageInv, PageTypes
<1>4. CASE loads[d][i] # Failed /\ Accepts(d, loads[d][i])
  <2>1. loads[d][i] \in Data
    BY <1>1, <1>3, <1>4, ReadsOf DEF PageInv, Replies
  <2>2. /\ shown' = [shown EXCEPT ![d] = loads[d][i]]
        /\ retired' = IF shown[d] # Nothing /\ shown[d].epoch # loads[d][i].epoch
                      THEN [retired EXCEPT ![d] = @ \cup {shown[d].epoch}] ELSE retired
        /\ loads' = [loads EXCEPT ![d] = SubSeq(@, i + 1, Len(@))]
    BY <1>1, <1>4
  <2>3. retired' \in [Devices -> SUBSET (0..MaxFaults)]
    <3>1. retired \in [Devices -> SUBSET (0..MaxFaults)]
      BY <1>3 DEF PageInv, PageTypes
    <3>2. shown[d] # Nothing => shown[d].epoch \in 0..MaxFaults
      BY <1>3 DEF Data
    <3> QED BY <2>2, <3>1, <3>2
  <2>4. PageInv'
    BY <1>2, <1>3, <2>1, <2>2, <2>3, ReadShown
  <2>5. shown[d] # Nothing => NoLater(shown[d].step, loads[d][i].step)
    <3> SUFFICES ASSUME shown[d] # Nothing PROVE NoLater(shown[d].step, loads[d][i].step)
      OBVIOUS
    <3>1. shown[d] \in Data /\ Holds(d, shown[d]) /\ Holds(d, loads[d][i])
      BY <1>3 DEF Holds
    <3>2. HeldOrdered(d) /\ shown[d].epoch <= loads[d][i].epoch
      BY <1>3, <2>1, <3>1 DEF PageInv, HeldInv, Held, ReadsAfterShown
    <3>3. shown[d].epoch = loads[d][i].epoch => shown[d].version <= loads[d][i].version
      BY <1>4, <2>1, <3>1, DataFields DEF Accepts
    <3>4. NotAfter(shown[d], loads[d][i])
      BY <2>1, <3>1, <3>2, <3>3, DataFields DEF NotAfter
    <3> QED BY <2>1, <3>1, <3>2, <3>4 DEF HeldOrdered
  <2>6. shown'[d] = loads[d][i] /\ \A e \in Devices : e # d => shown'[e] = shown[e]
    BY <1>3, <2>2 DEF PageInv, PageTypes
  <2>7. \A e \in Devices : shown[e] # Nothing => NoLater(shown[e].step, shown[e].step)
    BY <1>3, NoLaterReflexive DEF Data
  <2> QED BY <1>2, <2>4, <2>5, <2>6, <2>7
<1>5. CASE ~(loads[d][i] # Failed /\ Accepts(d, loads[d][i]))
  <2>1. loads' = [loads EXCEPT ![d] = RemoveAt(@, i)] /\ UNCHANGED <<shown, retired>>
    BY <1>1, <1>5
  <2>2. PageInv'
    BY <1>2, <1>3, <2>1, ReadRemoved
  <2>3. \A e \in Devices : shown[e] # Nothing => NoLater(shown[e].step, shown[e].step)
    BY <1>3, NoLaterReflexive DEF Data
  <2> QED BY <1>2, <2>1, <2>2, <2>3
<1> QED BY <1>4, <1>5

\* What is shown in a step is what was shown, or later, or nothing.
Forward == \A d \in Devices : shown[d] # Nothing /\ shown'[d] # Nothing => NoLater(shown[d].step, shown'[d].step)

LEMMA SameShown ==
  ASSUME IInv, UNCHANGED shown
  PROVE  Forward
<1>1. \A d \in Devices : shown[d] \in Data \cup {Nothing}
  BY DEF IInv, PageInv, PageTypes
<1> QED BY <1>1, NoLaterReflexive DEF Data, Forward

\* Steps of the server that no page takes part in.
LEMMA ServerStep ==
  ASSUME IInv,
         \/ \E p \in People, ok \in BOOLEAN : Manage(p, ok)
         \/ \E p \in People, s \in 0..MaxStep : Elsewhere(p, s)
         \/ \E tok \in late, ok \in BOOLEAN : RunsLate(tok, ok)
         \/ \E d \in Devices, ok \in BOOLEAN : Submitted(d, ok)
  PROVE  IInv' /\ UNCHANGED shown
<1>1. ServerInv /\ ConfirmInv /\ PageInv
  BY DEF IInv
<1>2. ASSUME ServerInv', ConfirmInv', Advances, UNCHANGED <<shown, retired, loads>> PROVE IInv'
  <2>1. HeldInv'
    BY <1>1, <1>2, HeldBehind DEF PageInv
  <2>2. PageTypes'
    BY <1>1, <1>2 DEF PageInv, PageTypes
  <2> QED BY <1>2, <2>1, <2>2 DEF IInv, PageInv
<1>3. ASSUME NEW p \in People, NEW ok \in BOOLEAN, Manage(p, ok) PROVE IInv' /\ UNCHANGED shown
  <2>1. ServerInv' /\ ConfirmInv' /\ Advances
    BY <1>1, <1>3, ManageConfirms
  <2>2. UNCHANGED <<shown, retired, loads>>
    BY <1>3 DEF Manage, page
  <2> QED BY <1>2, <2>1, <2>2
<1>4. ASSUME NEW p \in People, NEW s \in 0..MaxStep, Elsewhere(p, s) PROVE IInv' /\ UNCHANGED shown
  <2>1. ServerInv' /\ ConfirmInv'
    BY <1>1, <1>4, ElsewhereKeeps
  <2>2. UNCHANGED <<shown, retired, loads, db, epoch, version>>
    BY <1>4 DEF Elsewhere, page
  <2>3. Advances
    BY <2>2 DEF Advances
  <2> QED BY <1>2, <2>1, <2>2, <2>3
<1>5. ASSUME NEW tok \in late, NEW ok \in BOOLEAN, RunsLate(tok, ok) PROVE IInv' /\ UNCHANGED shown
  <2>1. ServerInv' /\ ConfirmInv' /\ Advances
    BY <1>1, <1>5, RunsLateKeeps
  <2>2. UNCHANGED <<shown, retired, loads>>
    BY <1>5 DEF RunsLate, page
  <2> QED BY <1>2, <2>1, <2>2
<1>6. ASSUME NEW d \in Devices, NEW ok \in BOOLEAN, Submitted(d, ok) PROVE IInv' /\ UNCHANGED shown
  <2>1. ServerInv' /\ ConfirmInv' /\ Advances
    BY <1>1, <1>6, SubmittedKeeps
  <2>2. UNCHANGED <<shown, retired, loads>>
    BY <1>6 DEF Submitted, page
  <2> QED BY <1>2, <2>1, <2>2
<1> QED BY <1>3, <1>4, <1>5, <1>6

\* Steps of a device, of its confirmation.
LEMMA ConfirmStep ==
  ASSUME IInv, NEW d \in Devices,
         \/ ServeCheck(d) \/ (\E p \in People : Press(d, p)) \/ Answered(d)
         \/ Check(d) \/ CheckDone(d) \/ GiveUp(d) \/ CheckLost(d)
  PROVE  IInv' /\ UNCHANGED shown
<1>1. ServerInv /\ ConfirmInv /\ PageInv /\ PageTypes
  BY DEF IInv, PageInv
<1>2. ServerInv' /\ ConfirmInv'
  BY <1>1, ServeCheckKeeps, PressKeeps, AnsweredKeeps, CheckKeeps, CheckDoneKeeps, GiveUpKeeps, CheckLostKeeps
<1>3. UNCHANGED <<shown, retired, loads, db, epoch, version>>
  BY DEF ServeCheck, Press, Answered, Check, CheckDone, GiveUp, CheckLost, page, server
<1>4. HeldInv'
  BY <1>1, <1>3, HeldRests DEF PageInv
<1>5. PageTypes'
  BY <1>1, <1>3 DEF PageTypes
<1> QED BY <1>2, <1>3, <1>4, <1>5 DEF IInv, PageInv

\* Steps of a device, of its reads.
LEMMA ReadStep ==
  ASSUME IInv, NEW d \in Devices,
         (\E i \in 1..MaxLoads : ServeLoad(d, i)) \/ Load(d) \/ LoadDone(d) \/ LoadLost(d) \/ Reopen(d)
  PROVE  IInv' /\ Forward
<1>1. ServerInv /\ ConfirmInv /\ PageInv
  BY DEF IInv
<1>2. ASSUME UNCHANGED <<db, cache, epoch, version, late, moved, sent, pending, check, told>>,
             faults' = faults \/ Fault
      PROVE  ServerInv' /\ ConfirmInv'
  <2>1. late' \subseteq Tokens
    BY <1>1, <1>2 DEF ConfirmInv, ConfirmTypes
  <2> QED BY <1>1, <1>2, <2>1, ServerRests, ConfirmRests
<1>3. ASSUME NEW i \in 1..MaxLoads, ServeLoad(d, i) PROVE IInv' /\ Forward
  <2>1. PageInv'
    BY <1>1, <1>3, ServeLoadPage
  <2>2. UNCHANGED <<db, cache, epoch, version, late, moved, sent, pending, check, told, faults, shown>>
    BY <1>3 DEF ServeLoad, server
  <2> QED BY <1>2, <2>1, <2>2, SameShown DEF IInv
<1>4. CASE Load(d)
  <2>1. PageInv'
    BY <1>1, <1>4, LoadPage
  <2>2. UNCHANGED <<db, cache, epoch, version, late, moved, sent, pending, check, told, faults, shown>>
    BY <1>4 DEF Load, server
  <2> QED BY <1>2, <2>1, <2>2, SameShown DEF IInv
<1>5. CASE LoadDone(d)
  <2>1. /\ PageInv' /\ UNCHANGED <<db, cache, epoch, version, late, moved, sent, pending, check, told, faults>>
        /\ \A e \in Devices : shown[e] # Nothing => NoLater(shown[e].step, shown'[e].step)
    BY <1>5, LoadDoneKeeps
  <2> QED BY <1>2, <2>1 DEF IInv, Forward
<1>6. CASE LoadLost(d)
  <2>1. PICK i \in DOMAIN loads[d] :
           /\ Fault /\ loads' = [loads EXCEPT ![d] = RemoveAt(@, i)]
           /\ UNCHANGED <<server, shown, retired, sent, pending, check, told>>
    BY <1>6 DEF LoadLost
  <2>2. UNCHANGED <<db, cache, epoch, version, late, moved, sent, pending, check, told, shown, retired>>
    BY <2>1 DEF server
  <2>3. PageInv'
    BY <1>1, <2>1, <2>2, ReadRemoved
  <2> QED BY <1>2, <2>1, <2>2, <2>3, SameShown DEF IInv
<1>7. CASE Reopen(d)
  <2>1. /\ UNCHANGED <<db, cache, epoch, version, late, moved, sent, pending, check, told, shown, retired>>
        /\ Fault /\ loads' = [loads EXCEPT ![d] = <<>>]
    BY <1>7 DEF Reopen, server
  <2>2. retired' \in [Devices -> SUBSET (0..MaxFaults)]
    BY <1>1, <2>1 DEF PageInv, PageTypes
  <2>3. PageInv'
    BY <1>1, <2>1, <2>2, ReadsDropped
  <2> QED BY <1>2, <2>1, <2>3, SameShown DEF IInv
<1> QED BY <1>3, <1>4, <1>5, <1>6, <1>7

LEMMA ReloadStep ==
  ASSUME IInv, NEW d \in Devices, Reload(d)
  PROVE  IInv' /\ Forward
<1>1. ServerInv /\ ConfirmInv /\ PageInv
  BY DEF IInv
<1>2. ServerInv' /\ ConfirmInv'
  BY <1>1, ReloadKeeps
<1>3. /\ UNCHANGED <<db, epoch, version>> /\ loads' = [loads EXCEPT ![d] = <<>>]
      /\ shown' = [shown EXCEPT ![d] = Nothing] /\ retired' = [retired EXCEPT ![d] = {}]
  BY DEF Reload
<1>4. retired' \in [Devices -> SUBSET (0..MaxFaults)]
  BY <1>1, <1>3 DEF PageInv, PageTypes
<1>5. PageInv'
  BY <1>1, <1>3, <1>4, ReadsDropped
<1>6. shown'[d] = Nothing /\ \A e \in Devices : e # d => shown'[e] = shown[e]
  BY <1>1, <1>3 DEF PageInv, PageTypes
<1>7. \A e \in Devices : shown[e] \in Data \cup {Nothing}
  BY <1>1 DEF PageInv, PageTypes
<1>8. Forward
  BY <1>6, <1>7, NoLaterReflexive DEF Forward, Data
<1> QED BY <1>2, <1>5, <1>8 DEF IInv

LEMMA RestartStep ==
  ASSUME IInv, Restart
  PROVE  IInv' /\ UNCHANGED shown
<1>1. ServerInv' /\ ConfirmInv' /\ PageInv'
  BY RestartKeeps, RestartPage DEF IInv
<1> QED BY <1>1 DEF IInv, Restart

LEMMA StepIInv == IInv /\ [Next]_vars => IInv' /\ Forward
<1> SUFFICES ASSUME IInv, [Next]_vars PROVE IInv' /\ Forward
  OBVIOUS
<1>1. CASE UNCHANGED vars
  <2>1. UNCHANGED <<db, cache, epoch, version, late, moved, shown, retired, loads, sent, pending, check, told, faults>>
    BY <1>1 DEF vars, server, page
  <2>2. ServerInv' /\ ConfirmInv'
    <3>1. late' \subseteq Tokens
      BY <2>1 DEF IInv, ConfirmInv, ConfirmTypes
    <3> QED BY <2>1, <3>1, ServerRests, ConfirmRests DEF IInv
  <2>3. PageTypes' /\ HeldInv'
    BY <2>1, HeldRests DEF IInv, PageInv, PageTypes
  <2> QED BY <2>1, <2>2, <2>3, SameShown DEF IInv, PageInv
<1>2. CASE Next
  <2>1. CASE \E p \in People, ok \in BOOLEAN : Manage(p, ok)
    BY <2>1, ServerStep, SameShown
  <2>2. CASE \E p \in People, s \in 0..MaxStep : Elsewhere(p, s)
    BY <2>2, ServerStep, SameShown
  <2>3. CASE \E tok \in late, ok \in BOOLEAN : RunsLate(tok, ok)
    BY <2>3, ServerStep, SameShown
  <2>4. CASE Restart
    BY <2>4, RestartStep, SameShown
  <2>5. ASSUME NEW d \in Devices,
               \/ \E ok \in BOOLEAN : Submitted(d, ok)
               \/ \E i \in 1..MaxLoads : ServeLoad(d, i)
               \/ \E p \in People : Press(d, p)
               \/ ServeCheck(d) \/ Load(d) \/ LoadDone(d) \/ Answered(d) \/ Check(d) \/ CheckDone(d)
               \/ GiveUp(d) \/ LoadLost(d) \/ CheckLost(d) \/ Reopen(d) \/ Reload(d)
        PROVE  IInv' /\ Forward
    <3>1. CASE \E ok \in BOOLEAN : Submitted(d, ok)
      BY <3>1, ServerStep, SameShown
    <3>2. CASE \/ ServeCheck(d) \/ (\E p \in People : Press(d, p)) \/ Answered(d)
               \/ Check(d) \/ CheckDone(d) \/ GiveUp(d) \/ CheckLost(d)
      BY <3>2, ConfirmStep, SameShown
    <3>3. CASE (\E i \in 1..MaxLoads : ServeLoad(d, i)) \/ Load(d) \/ LoadDone(d) \/ LoadLost(d) \/ Reopen(d)
      BY <3>3, ReadStep
    <3>4. CASE Reload(d)
      BY <3>4, ReloadStep
    <3> QED BY <2>5, <3>1, <3>2, <3>3, <3>4
  <2> QED BY <1>2, <2>1, <2>2, <2>3, <2>4, <2>5 DEF Next
<1> QED BY <1>1, <1>2

LEMMA Invariant == Spec => []IInv
  BY InitIInv, StepIInv, PTL DEF Spec

\* However often a step is confirmed and whatever is lost, late or restarted, a person
\* moves once for each token done and once for each move a manager made, and whoever
\* was told so was told of a step that is stored (service.py, forecast_service.py).
THEOREM MovedOncePerToken == Spec => []StepsKept
<1>1. IInv => StepsKept
  BY StoredKept DEF IInv, PageInv
<1> QED BY <1>1, Invariant, PTL

\* What a page shows never goes back, whatever answers overtake each other and however
\* often the server restarts and counts its versions from zero (loadLive, acceptLiveData).
THEOREM NeverShownBack == Spec => ShownGoesForward
<1>1. ASSUME IInv, [Next]_vars
      PROVE  [\A d \in Devices : shown[d] # Nothing /\ shown'[d] # Nothing
                => \A p \in People : shown'[d].step[p] >= shown[d].step[p]]_vars
  <2> SUFFICES ASSUME NEW d \in Devices, shown[d] # Nothing, shown'[d] # Nothing, NEW p \in People
               PROVE  shown'[d].step[p] >= shown[d].step[p]
    OBVIOUS
  <2>1. IInv' /\ Forward
    BY <1>1, StepIInv
  <2>2. NoLater(shown[d].step, shown'[d].step) /\ shown[d] \in Data /\ shown'[d] \in Data
    BY <1>1, <2>1 DEF Forward, IInv, PageInv, PageTypes
  <2>3. shown[d].step[p] \in Nat /\ shown'[d].step[p] \in Nat
    BY <2>2, DataFields
  <2> QED BY <2>2, <2>3 DEF NoLater
<1> QED BY <1>1, Invariant, PTL DEF Spec, ShownGoesForward

-----------------------------------------------------------------------------
States == {"notyet", "onpost", "pending", "rest", "ready", "away", "other", "sick", "exception", "done"}
PersonRec == [st : States, readyAt : Nat, timeoutAt : Nat, exit : {"none", "out", "sick"},
              restored : BOOLEAN, seq : Nat, seven : BOOLEAN]
PostRec == [occ : Staff \cup {None}, open : BOOLEAN, shut : BOOLEAN, hold : BOOLEAN, resume : BOOLEAN]
LineRec == [active : BOOLEAN, sortAt : Nat, adding : BOOLEAN]
DayRec == [people : [Staff -> PersonRec], posts : [Posts -> PostRec], lines : [Lines -> LineRec],
           paused : Nat \cup {None}, status : {"live", "ended"}]

-----------------------------------------------------------------------------
(* The posts of a line, in their order. *)

LEMMA LeastExists ==
    ASSUME NEW T, T \subseteq Nat, T # {}
    PROVE  \E x \in T : \A y \in T : x <= y
<1>1. PICK x \in T : \A y \in T : ~ (<<y, x>> \in OpToRel(<, Nat))
  BY NatLessThanWellFounded, WFMin, Zenon
<1>2. \A y \in T : ~(y < x)
  BY <1>1 DEF OpToRel
<1>3. x \in Nat /\ \A y \in T : y \in Nat
  OBVIOUS
<1> QED
  BY <1>2, <1>3

LEMMA PostsAre ==
    /\ \A q \in Posts : q[1] \in Lines /\ q[2] \in Nat /\ q[2] >= 1 /\ Width[q[1]] \in Nat /\ q[2] <= Width[q[1]]
    /\ \A q, r \in Posts : q[1] = r[1] /\ q[2] = r[2] => q = r
<1>1. \A l \in Lines : Width[l] \in Nat
  BY PlanAssumption DEF Lines
<1>2. \A q \in Posts : \E l \in Lines : \E i \in 1..Width[l] : q = <<l, i>>
  BY DEF Posts
<1> QED
  BY <1>1, <1>2

\* A set of posts of one line.
OnLine(ix, l) == ix \subseteq Posts /\ \A q \in ix : q[1] = l

LEMMA HeadIs ==
    ASSUME NEW l, NEW ix, OnLine(ix, l), ix # {}
    PROVE  HeadOf(ix) \in ix /\ \A r \in ix : HeadOf(ix)[2] <= r[2]
<1> DEFINE T == {q[2] : q \in ix}
<1>1. T \subseteq Nat /\ T # {}
  BY PostsAre DEF OnLine
<1>2. PICK x \in T : \A y \in T : x <= y
  BY <1>1, LeastExists
<1>3. PICK q \in ix : x = q[2]
  OBVIOUS
<1>4. \A r \in ix : q[2] <= r[2]
  BY <1>2, <1>3
<1> QED
  BY <1>4 DEF HeadOf

LEMMA TailIs ==
    ASSUME NEW l, NEW ix, OnLine(ix, l), ix # {}
    PROVE  TailOf(ix) \in ix /\ \A r \in ix : r[2] <= TailOf(ix)[2]
<1> DEFINE T == {Width[l] - q[2] : q \in ix}
<1>1. \A q \in ix : q[2] \in Nat /\ Width[l] \in Nat /\ Width[l] - q[2] \in Nat
  BY PostsAre DEF OnLine
<1>2. T \subseteq Nat /\ T # {}
  BY <1>1
<1>3. PICK x \in T : \A y \in T : x <= y
  BY <1>2, LeastExists
<1>4. PICK q \in ix : x = Width[l] - q[2]
  OBVIOUS
<1>5. \A r \in ix : r[2] <= q[2]
  <2> TAKE r \in ix
  <2>1. Width[l] - q[2] <= Width[l] - r[2]
    BY <1>3, <1>4
  <2> QED
    BY <2>1, <1>1
<1> QED
  BY <1>5 DEF TailOf

\* Posts of a line are told apart by their places.
LEMMA SamePlace ==
    ASSUME NEW l, NEW ix, OnLine(ix, l), NEW q \in ix, NEW r \in ix, q[2] = r[2]
    PROVE  q = r
  BY PostsAre DEF OnLine

LEMMA IndexesOn == \A d, l : OnLine(Indexes(d, l), l)
  BY DEF OnLine, Indexes

LEMMA LinesFinite ==
    ASSUME NEW l, NEW S, OnLine(S, l)
    PROVE  IsFiniteSet(S)
<1>1. CASE S = {}
  BY <1>1, FS_EmptySet
<1>2. CASE S # {}
  <2> DEFINE f == [q \in S |-> q[2]]
  <2>1. \A q \in S : q[2] \in 1..Width[l] /\ Width[l] \in Nat
    BY PostsAre DEF OnLine
  <2>2. f \in Injection(S, 1..Width[l])
    BY <2>1, SamePlace DEF Injection, IsInjective
  <2>3. IsFiniteSet(1..Width[l])
    BY <1>2, <2>1, FS_Interval
  <2> QED
    BY <2>2, <2>3, FS_Injection
<1> QED
  BY <1>1, <1>2

\* How many posts are ahead of one, and how many there are up to it.
LEMMA Counted ==
    ASSUME NEW l, NEW S, OnLine(S, l), NEW q \in S
    PROVE  /\ Cardinality(S) \in Nat
           /\ Cardinality(Ahead(S, q)) \in Nat
           /\ Cardinality(UpTo(S, q)) = Cardinality(Ahead(S, q)) + 1
           /\ Cardinality(UpTo(S, q)) <= Cardinality(S)
<1>1. IsFiniteSet(S) /\ q[2] \in Nat /\ \A r \in S : r[2] \in Nat
  BY LinesFinite, PostsAre DEF OnLine
<1>2. Ahead(S, q) \subseteq S /\ UpTo(S, q) \subseteq S
  BY DEF Ahead, UpTo
<1>3. IsFiniteSet(Ahead(S, q)) /\ Cardinality(UpTo(S, q)) <= Cardinality(S)
  BY <1>1, <1>2, FS_Subset
<1>4. UpTo(S, q) = Ahead(S, q) \cup {q} /\ q \notin Ahead(S, q)
  BY <1>1, SamePlace DEF Ahead, UpTo
<1>5. Cardinality(UpTo(S, q)) = Cardinality(Ahead(S, q)) + 1
  BY <1>3, <1>4, FS_AddElement
<1>6. Cardinality(Ahead(S, q)) \in Nat /\ Cardinality(S) \in Nat
  BY <1>1, <1>3, FS_CardinalityType
<1> QED
  BY <1>3, <1>5, <1>6

LEMMA MoreAhead ==
    ASSUME NEW l, NEW S, OnLine(S, l), NEW q \in S, NEW r \in S, q[2] < r[2]
    PROVE  Cardinality(UpTo(S, q)) <= Cardinality(Ahead(S, r))
<1>1. IsFiniteSet(S) /\ q[2] \in Nat /\ r[2] \in Nat /\ \A s \in S : s[2] \in Nat
  BY LinesFinite, PostsAre DEF OnLine
<1>2. Ahead(S, r) \subseteq S /\ UpTo(S, q) \subseteq Ahead(S, r)
  BY <1>1 DEF Ahead, UpTo
<1>3. IsFiniteSet(Ahead(S, r))
  BY <1>1, <1>2, FS_Subset
<1> QED
  BY <1>2, <1>3, FS_Subset

\* There is a post with any number of posts ahead of it, smaller than theirs.
LEMMA Ranked ==
    ASSUME NEW l, NEW S, OnLine(S, l), NEW k \in Nat, k < Cardinality(S)
    PROVE  \E q \in S : Cardinality(Ahead(S, q)) = k
<1>1. IsFiniteSet(S) /\ \A q \in S : q[2] \in Nat
  BY LinesFinite, PostsAre DEF OnLine
<1>2. S # {}
  BY FS_EmptySet
<1> DEFINE T == {q \in S : Cardinality(Ahead(S, q)) <= k}
<1>3. OnLine(T, l)
  BY DEF OnLine
<1>4. HeadOf(S) \in T
  <2>1. HeadOf(S) \in S /\ \A r \in S : HeadOf(S)[2] <= r[2]
    BY <1>2, HeadIs
  <2>2. Ahead(S, HeadOf(S)) = {}
    BY <1>1, <2>1 DEF Ahead
  <2> QED
    BY <2>1, <2>2, FS_EmptySet
<1>5. PICK q \in T : \A r \in T : r[2] <= q[2]
  BY <1>3, <1>4, TailIs
<1>6. Cardinality(Ahead(S, q)) \in Nat /\ Cardinality(UpTo(S, q)) = Cardinality(Ahead(S, q)) + 1 /\ Cardinality(S) \in Nat
  BY Counted
<1>7. ASSUME Cardinality(Ahead(S, q)) < k PROVE FALSE
  <2> DEFINE V == S \ UpTo(S, q)
  <2>1. V # {}
    <3>1. V = {} => UpTo(S, q) = S
      BY DEF UpTo
    <3> QED
      BY <3>1, <1>6, <1>7
  <2>2. OnLine(V, l)
    BY DEF OnLine
  <2>3. PICK n \in V : \A r \in V : n[2] <= r[2]
    BY <2>1, <2>2, HeadIs
  <2>4. n \in S /\ q \in S /\ q[2] < n[2]
    BY <1>1 DEF UpTo
  <2>5. Ahead(S, n) = UpTo(S, q)
    BY <1>1, <2>3, <2>4 DEF Ahead, UpTo
  <2>6. n \in T
    BY <1>6, <1>7, <2>4, <2>5
  <2> QED
    BY <1>1, <1>5, <2>4, <2>6
<1> QED
  BY <1>5, <1>6, <1>7

-----------------------------------------------------------------------------
(* Where a route puts people. *)

\* Nobody is on two posts.
Apart(d) == \A q, r \in Posts : d.posts[q].occ = d.posts[r].occ /\ d.posts[q].occ # None => q = r

Places == [Posts -> Staff \cup {None}]

\* A route for p: who leaves is out, whoever else is on duty keeps a post, and each change is entered.
Routed(d, r, p) ==
    /\ r.occ \in Places /\ r.out \in Staff \cup {None} /\ r.out # p
    /\ \A q \in Posts : r.occ[q] # d.posts[q].occ => d.posts[q].open /\ d.lines[q[1]].active
    /\ \A q, s \in Posts : r.occ[q] = r.occ[s] /\ r.occ[q] # None => q = s
    /\ \A q \in Posts : r.occ[q] \notin {None, p} => \E s \in Posts : d.posts[s].occ = r.occ[q]
    /\ \A q \in Posts : d.posts[q].occ \notin {None, r.out} /\ d.people[d.posts[q].occ].st = "onpost" =>
         \E s \in Posts : r.occ[s] = d.posts[q].occ
    /\ \A q \in Posts : r.out # None => r.occ[q] # r.out
    /\ \E q \in Posts : r.occ[q] = p
    /\ r.entered = {r.occ[q] : q \in {s \in Posts : r.occ[s] # d.posts[s].occ}} \ {None}

\* p may be put on a post: it has none.
Free(d, p) == p \in Staff /\ \A q \in Posts : d.posts[q].occ # p

LEMMA PushedIs ==
    ASSUME NEW d \in DayRec, Apart(d), NEW p, Free(d, p), NEW l, NEW ix, OnLine(ix, l), ix # {}, NEW at
    PROVE  LET new == Pushed(d, ix, p, at)
               end == Reach(d, ix, at)
           IN  /\ end \in ix /\ DOMAIN new = UpTo(ix, end) /\ HeadOf(ix) \in DOMAIN new /\ new[HeadOf(ix)] = p
               /\ \A q \in DOMAIN new : q # HeadOf(ix) =>
                    \E s \in UpTo(ix, end) : /\ s[2] < q[2] /\ new[q] = d.posts[s].occ /\ new[q] # None
                                             /\ \A r \in ix : r[2] <= s[2] \/ q[2] <= r[2]
               /\ \A q \in UpTo(ix, end) : q # end =>
                    \E s \in UpTo(ix, end) : s # HeadOf(ix) /\ new[s] = Occupant(d, q, at)
<1> DEFINE new == Pushed(d, ix, p, at)
           end == Reach(d, ix, at)
           vacant == {q \in ix : Occupant(d, q, at) = None}
<1>1. \A q \in ix : q \in Posts /\ q[2] \in Nat
  BY PostsAre DEF OnLine
<1>2. end \in ix /\ \A r \in ix : r[2] < end[2] => Occupant(d, r, at) # None
  <2>1. CASE vacant = {}
    <3>1. end = TailOf(ix)
      BY <2>1 DEF Reach
    <3> QED
      BY <2>1, <3>1, TailIs
  <2>2. CASE vacant # {}
    <3>1. end = HeadOf(vacant)
      BY <2>2 DEF Reach
    <3>2. OnLine(vacant, l)
      BY DEF OnLine
    <3>3. end \in vacant /\ \A r \in vacant : end[2] <= r[2]
      BY <2>2, <3>1, <3>2, HeadIs
    <3> QED
      BY <1>1, <3>3
  <2> QED
    BY <2>1, <2>2
<1>3. HeadOf(ix) \in ix /\ \A r \in ix : HeadOf(ix)[2] <= r[2]
  BY HeadIs
<1>4. DOMAIN new = UpTo(ix, end) /\ \A q \in UpTo(ix, end) : new[q] =
        IF q = HeadOf(ix) THEN p ELSE Occupant(d, TailOf(Ahead(ix, q)), at)
  BY DEF Pushed
<1>5. HeadOf(ix) \in DOMAIN new /\ new[HeadOf(ix)] = p
  BY <1>2, <1>3, <1>4 DEF UpTo
<1>6. ASSUME NEW q \in ix, q # HeadOf(ix)
      PROVE  LET s == TailOf(Ahead(ix, q))
             IN  s \in ix /\ s[2] < q[2] /\ \A r \in ix : r[2] <= s[2] \/ q[2] <= r[2]
  <2>1. HeadOf(ix)[2] # q[2]
    BY <1>3, <1>6, SamePlace
  <2>2. HeadOf(ix) \in Ahead(ix, q)
    BY <1>1, <1>3, <2>1 DEF Ahead
  <2>3. OnLine(Ahead(ix, q), l)
    BY DEF OnLine, Ahead
  <2>4. TailOf(Ahead(ix, q)) \in Ahead(ix, q) /\ \A r \in Ahead(ix, q) : r[2] <= TailOf(Ahead(ix, q))[2]
    BY <2>2, <2>3, TailIs
  <2> QED
    BY <1>1, <2>4 DEF Ahead
<1>7. ASSUME NEW q \in DOMAIN new, q # HeadOf(ix)
      PROVE  \E s \in UpTo(ix, end) : /\ s[2] < q[2] /\ new[q] = d.posts[s].occ /\ new[q] # None
                                      /\ \A r \in ix : r[2] <= s[2] \/ q[2] <= r[2]
  <2> DEFINE s == TailOf(Ahead(ix, q))
  <2>1. q \in ix /\ q[2] <= end[2]
    BY <1>4 DEF UpTo
  <2>2. s \in ix /\ s[2] < q[2] /\ \A r \in ix : r[2] <= s[2] \/ q[2] <= r[2]
    BY <1>6, <1>7, <2>1
  <2>3. s[2] < end[2] /\ s \in UpTo(ix, end)
    BY <1>1, <1>2, <2>1, <2>2 DEF UpTo
  <2>4. Occupant(d, s, at) # None
    BY <1>2, <2>2, <2>3
  <2>5. new[q] = Occupant(d, s, at)
    BY <1>4, <1>7
  <2>6. Occupant(d, s, at) = d.posts[s].occ
    BY <2>4 DEF Occupant
  <2> QED
    BY <2>2, <2>3, <2>4, <2>5, <2>6
<1>8. ASSUME NEW q \in UpTo(ix, end), q # end
      PROVE  \E s \in UpTo(ix, end) : s # HeadOf(ix) /\ new[s] = Occupant(d, q, at)
  <2> DEFINE V == {r \in ix : q[2] < r[2]}
  <2>1. q \in ix /\ q[2] <= end[2] /\ q[2] # end[2]
    BY <1>2, <1>8, SamePlace DEF UpTo
  <2>2. end \in V /\ OnLine(V, l)
    BY <1>1, <1>2, <2>1 DEF OnLine
  <2>3. PICK n \in V : \A r \in V : n[2] <= r[2]
    BY <2>2, HeadIs
  <2>4. n \in ix /\ q[2] < n[2] /\ n \in UpTo(ix, end) /\ n # HeadOf(ix)
    BY <1>1, <1>3, <2>1, <2>2, <2>3 DEF UpTo
  <2>5. TailOf(Ahead(ix, n)) \in ix /\ TailOf(Ahead(ix, n))[2] < n[2]
        /\ \A r \in ix : r[2] <= TailOf(Ahead(ix, n))[2] \/ n[2] <= r[2]
    BY <1>6, <2>4
  <2>6. TailOf(Ahead(ix, n))[2] = q[2]
    <3> DEFINE s == TailOf(Ahead(ix, n))
    <3>1. q[2] <= s[2]
      BY <1>1, <2>1, <2>4, <2>5
    <3>2. ~(q[2] < s[2])
      BY <1>1, <2>3, <2>4, <2>5
    <3> QED
      BY <1>1, <2>1, <2>5, <3>1, <3>2
  <2>7. TailOf(Ahead(ix, n)) = q
    BY <2>1, <2>5, <2>6, SamePlace
  <2> QED
    BY <1>4, <2>4, <2>7
<1> QED
  BY <1>2, <1>4, <1>5, <1>7, <1>8

LEMMA PostsTyped ==
    ASSUME NEW d \in DayRec
    PROVE  /\ \A q \in Posts : d.posts[q] \in PostRec /\ d.posts[q].occ \in Staff \cup {None}
           /\ \A p \in Staff : d.people[p] \in PersonRec
           /\ \A l \in Lines : d.lines[l] \in LineRec
           /\ \A q \in Posts : \A at : Occupant(d, q, at) \in {d.posts[q].occ, None}
           /\ \A q \in Posts : \A at : d.posts[q].occ \in Staff /\ d.people[d.posts[q].occ].st # "notyet" =>
                Occupant(d, q, at) = d.posts[q].occ
  BY DEF DayRec, PostRec, Occupant

LEMMA PushRouted ==
    ASSUME NEW d \in DayRec, Apart(d), NEW p, Free(d, p), NEW l, NEW kind, kind # "push7",
           NEW at, NEW entry, {q \in Indexes(d, l) : q[2] >= entry} # {}
    PROVE  Routed(d, Route(d, l, kind, None, p, at, entry), p)
<1> DEFINE ix == {q \in Indexes(d, l) : q[2] >= entry}
           new == Pushed(d, ix, p, at)
           end == Reach(d, ix, at)
           r == Route(d, l, kind, None, p, at, entry)
<1>1. OnLine(ix, l) /\ ix # {} /\ ix \subseteq Posts
      /\ \A q \in ix : d.posts[q].open /\ d.lines[q[1]].active /\ q[2] \in Nat
  BY PostsAre DEF OnLine, Indexes
<1>2. /\ end \in ix /\ DOMAIN new = UpTo(ix, end) /\ HeadOf(ix) \in DOMAIN new /\ new[HeadOf(ix)] = p
      /\ \A q \in DOMAIN new : q # HeadOf(ix) =>
           \E s \in UpTo(ix, end) : /\ s[2] < q[2] /\ new[q] = d.posts[s].occ /\ new[q] # None
                                    /\ \A x \in ix : x[2] <= s[2] \/ q[2] <= x[2]
      /\ \A q \in UpTo(ix, end) : q # end =>
           \E s \in UpTo(ix, end) : s # HeadOf(ix) /\ new[s] = Occupant(d, q, at)
  <2> HIDE DEF ix
  <2> QED
    BY <1>1, PushedIs
<1>3. /\ r.occ = [q \in Posts |-> IF q \in DOMAIN new THEN new[q] ELSE d.posts[q].occ]
      /\ r.out = Occupant(d, end, at)
      /\ r.entered = {new[q] : q \in {x \in DOMAIN new : new[x] # d.posts[x].occ}} \ {None}
  BY DEF Route
<1> HIDE DEF ix, new, end, r
<1>4. UpTo(ix, end) \subseteq ix /\ end \in UpTo(ix, end) /\ \A q \in UpTo(ix, end) : q[2] <= end[2]
  BY <1>1, <1>2 DEF UpTo
<1>5. /\ \A q \in Posts : d.posts[q].occ \in Staff \cup {None} /\ d.posts[q].occ # p
      /\ p \in Staff /\ None \notin Staff
  BY PostsTyped, PlanAssumption DEF Free
<1>6. \A q \in DOMAIN new : q \in Posts /\ q \in ix /\ new[q] \in Staff
  BY <1>1, <1>2, <1>4, <1>5
<1>7. r.occ \in Places
  BY <1>3, <1>5, <1>6 DEF Places
<1>8. r.out \in Staff \cup {None} /\ r.out # p /\ r.out \in {d.posts[end].occ, None}
  BY <1>1, <1>2, <1>3, <1>5, PostsTyped
<1>9. \A q \in Posts : r.occ[q] # d.posts[q].occ => d.posts[q].open /\ d.lines[q[1]].active
  BY <1>1, <1>3, <1>6
<1>10. ASSUME NEW q \in Posts, NEW s \in Posts, r.occ[q] = r.occ[s], r.occ[q] # None PROVE q = s
  <2>1. \A x \in Posts, y \in DOMAIN new : x \notin DOMAIN new => d.posts[x].occ # new[y] \/ d.posts[x].occ = None
    BY <1>1, <1>2, <1>4, <1>5, <1>6 DEF Apart
  <2>2. ASSUME NEW x \in DOMAIN new, NEW y \in DOMAIN new, new[x] = new[y], x # HeadOf(ix), y # HeadOf(ix), x[2] < y[2]
        PROVE  FALSE
    <3>1. PICK a \in UpTo(ix, end) : a[2] < x[2] /\ new[x] = d.posts[a].occ /\ new[x] # None
      BY <1>2, <2>2
    <3>2. PICK b \in UpTo(ix, end) : b[2] < y[2] /\ new[y] = d.posts[b].occ /\ \A z \in ix : z[2] <= b[2] \/ y[2] <= z[2]
      BY <1>2, <2>2
    <3>3. a = b
      BY <2>2, <3>1, <3>2, <1>1, <1>4 DEF Apart
    <3>4. x \in ix /\ x[2] \in Nat /\ y[2] \in Nat /\ a[2] \in Nat
      BY <1>1, <1>4, <1>6
    <3> QED
      BY <2>2, <3>1, <3>2, <3>3, <3>4
  <2>3. \A x \in DOMAIN new : x # HeadOf(ix) => new[x] # p
    BY <1>1, <1>2, <1>4, <1>5
  <2>4. ASSUME NEW x \in DOMAIN new, NEW y \in DOMAIN new, new[x] = new[y] PROVE x = y
    <3>1. CASE x = HeadOf(ix) \/ y = HeadOf(ix)
      BY <1>2, <2>3, <2>4, <3>1
    <3>2. CASE x # HeadOf(ix) /\ y # HeadOf(ix)
      <4>1. x \in ix /\ y \in ix /\ x[2] \in Nat /\ y[2] \in Nat
        BY <1>1, <1>6
      <4>2. x[2] = y[2]
        BY <2>2, <2>4, <3>2, <4>1
      <4> QED
        BY <1>1, <4>1, <4>2, SamePlace
    <3> QED
      BY <3>1, <3>2
  <2> QED
    BY <1>3, <1>10, <2>1, <2>4 DEF Apart
<1>11. \A q \in Posts : r.occ[q] \notin {None, p} => \E s \in Posts : d.posts[s].occ = r.occ[q]
  BY <1>1, <1>2, <1>3, <1>4, <1>5, <1>6
<1>12. ASSUME NEW q \in Posts, d.posts[q].occ \notin {None, r.out}, d.people[d.posts[q].occ].st = "onpost"
       PROVE  \E s \in Posts : r.occ[s] = d.posts[q].occ
  <2>1. CASE q \notin DOMAIN new
    BY <1>3, <2>1
  <2>2. CASE q \in DOMAIN new
    <3>1. Occupant(d, q, at) = d.posts[q].occ
      BY <1>5, <1>12, PostsTyped
    <3>2. q # end
      BY <1>3, <1>12, <3>1
    <3>3. PICK s \in UpTo(ix, end) : new[s] = Occupant(d, q, at)
      BY <1>2, <2>2, <3>2
    <3> QED
      BY <1>2, <1>3, <1>6, <3>1, <3>3
  <2> QED
    BY <2>1, <2>2
<1>13. ASSUME NEW q \in Posts, r.out # None, r.occ[q] = r.out PROVE FALSE
  <2>1. r.out = d.posts[end].occ /\ end \in Posts /\ end \in DOMAIN new
    BY <1>1, <1>2, <1>4, <1>8, <1>13
  <2>2. q \in DOMAIN new
    BY <1>3, <1>13, <2>1 DEF Apart
  <2>3. q # HeadOf(ix)
    BY <1>2, <1>3, <1>8, <1>13, <2>2
  <2>4. PICK s \in UpTo(ix, end) : s[2] < q[2] /\ new[q] = d.posts[s].occ
    BY <1>2, <2>2, <2>3
  <2>5. s = end
    BY <1>1, <1>3, <1>4, <1>13, <2>1, <2>2, <2>4 DEF Apart
  <2> QED
    BY <1>1, <1>2, <1>4, <2>2, <2>4, <2>5
<1>14. \E q \in Posts : r.occ[q] = p
  BY <1>2, <1>3, <1>6
<1>15. r.entered = {r.occ[q] : q \in {s \in Posts : r.occ[s] # d.posts[s].occ}} \ {None}
  BY <1>3, <1>6
<1> QED
  BY <1>7, <1>8, <1>9, <1>10, <1>11, <1>12, <1>13, <1>14, <1>15 DEF Routed, r

\* What a compaction makes of a prefix: p heads it, and those kept come to stand in their order.
Compaction(d, p, at, prefix, kept, new) ==
    /\ DOMAIN new = prefix /\ HeadOf(prefix) \in prefix /\ new[HeadOf(prefix)] = p
    /\ \A q \in prefix : q # HeadOf(prefix) =>
         \/ \E s \in kept : new[q] = d.posts[s].occ /\ Cardinality(UpTo(kept, s)) = Cardinality(Ahead(prefix, q))
         \/ new[q] = None
         \/ new[q] = d.posts[q].occ /\ Occupant(d, q, at) = None
    /\ \A s \in kept : \E q \in prefix : /\ q # HeadOf(prefix) /\ new[q] = d.posts[s].occ
                                         /\ Cardinality(UpTo(kept, s)) = Cardinality(Ahead(prefix, q))
Staying(d, at, ix, t) == {q \in UpTo(ix, t) : Occupant(d, q, at) \notin {None, d.posts[t].occ}}

LEMMA CompactIs ==
    ASSUME NEW d \in DayRec, Apart(d), NEW p, Free(d, p), NEW l, NEW ix, OnLine(ix, l), NEW t \in ix,
           d.posts[t].occ \in Staff, NEW at
    PROVE  Compaction(d, p, at, UpTo(ix, t), Staying(d, at, ix, t), Compact(d, ix, d.posts[t].occ, p, at))
<1> DEFINE target == d.posts[t].occ
           new == Compact(d, ix, target, p, at)
           prefix == UpTo(ix, t)
           kept == {q \in prefix : Occupant(d, q, at) \notin {None, target}}
           Comes(q) == {r \in kept : Cardinality(UpTo(kept, r)) = Cardinality(Ahead(prefix, q))}
<1>1. OnLine(prefix, l) /\ OnLine(kept, l) /\ ix \subseteq Posts /\ prefix \subseteq Posts /\ kept \subseteq prefix
      /\ \A q \in Posts : q[2] \in Nat
  BY PostsAre DEF OnLine, UpTo
<1>2. t \in prefix /\ None \notin Staff /\ t \in Posts
  BY <1>1, PlanAssumption DEF UpTo
<1>3. (CHOOSE q \in ix : d.posts[q].occ = target) = t
  BY <1>1, <1>2 DEF Apart
<1>4. new = [q \in prefix |-> IF q = HeadOf(prefix) THEN p
                              ELSE IF Comes(q) # {} THEN Occupant(d, CHOOSE r \in Comes(q) : TRUE, at)
                              ELSE IF Occupant(d, q, at) # None THEN None ELSE d.posts[q].occ]
  <2> DEFINE Stand(z) == LET pre == UpTo(ix, z)
                             stay == {q \in pre : Occupant(d, q, at) \notin {None, target}}
                             Come(q) == {r \in stay : Cardinality(UpTo(stay, r)) = Cardinality(Ahead(pre, q))}
                         IN  [q \in pre |-> IF q = HeadOf(pre) THEN p
                               ELSE IF Come(q) # {} THEN Occupant(d, CHOOSE r \in Come(q) : TRUE, at)
                               ELSE IF Occupant(d, q, at) # None THEN None ELSE d.posts[q].occ]
  <2>1. new = Stand(CHOOSE q \in ix : d.posts[q].occ = target)
    BY DEF Compact
  <2>2. Stand(CHOOSE q \in ix : d.posts[q].occ = target) = Stand(t)
    <3> HIDE DEF Stand
    <3> QED
      BY <1>3
  <2> QED
    BY <2>1, <2>2
<1> HIDE DEF new, prefix, kept, Comes
<1>5. HeadOf(prefix) \in prefix /\ \A r \in prefix : HeadOf(prefix)[2] <= r[2]
  BY <1>1, <1>2, HeadIs
<1>6. \A q \in prefix : Occupant(d, q, at) \in {d.posts[q].occ, None}
  BY <1>1, PostsTyped
<1>7. \A s \in kept : s \in prefix /\ Occupant(d, s, at) = d.posts[s].occ /\ d.posts[s].occ \notin {None, target}
  BY <1>6 DEF kept
<1>8. ASSUME NEW q \in prefix, q # HeadOf(prefix)
      PROVE  \/ \E s \in kept : new[q] = d.posts[s].occ /\ Cardinality(UpTo(kept, s)) = Cardinality(Ahead(prefix, q))
             \/ new[q] = None
             \/ new[q] = d.posts[q].occ /\ Occupant(d, q, at) = None
  <2>1. CASE Comes(q) # {}
    <3>1. PICK s : s = (CHOOSE r \in Comes(q) : TRUE)
      OBVIOUS
    <3>2. s \in Comes(q) /\ new[q] = Occupant(d, s, at)
      BY <1>4, <1>8, <2>1, <3>1
    <3>3. s \in kept /\ Cardinality(UpTo(kept, s)) = Cardinality(Ahead(prefix, q))
      BY <3>2 DEF Comes
    <3> QED
      BY <1>7, <3>2, <3>3
  <2>2. CASE Comes(q) = {}
    BY <1>4, <1>8, <2>2
  <2> QED
    BY <2>1, <2>2
<1>9. ASSUME NEW s \in kept
      PROVE  \E q \in prefix : /\ q # HeadOf(prefix) /\ new[q] = d.posts[s].occ
                               /\ Cardinality(UpTo(kept, s)) = Cardinality(Ahead(prefix, q))
  <2> DEFINE k == Cardinality(UpTo(kept, s))
  <2>1. k \in Nat /\ k >= 1 /\ k <= Cardinality(kept) /\ Cardinality(kept) \in Nat
    BY <1>1, Counted
  <2>2. Cardinality(kept) < Cardinality(prefix) /\ Cardinality(prefix) \in Nat
    <3>1. IsFiniteSet(prefix)
      BY <1>1, LinesFinite
    <3>2. t \notin kept
      BY <1>7
    <3>3. kept # prefix
      BY <1>2, <3>2
    <3>4. kept \in SUBSET prefix
      BY <1>1
    <3>5. Cardinality(kept) <= Cardinality(prefix) /\ Cardinality(kept) # Cardinality(prefix)
      BY <3>1, <3>3, <3>4, FS_Subset
    <3>6. Cardinality(prefix) \in Nat
      BY <3>1, FS_CardinalityType
    <3> QED
      BY <2>1, <3>5, <3>6
  <2>3. PICK q \in prefix : Cardinality(Ahead(prefix, q)) = k
    BY <1>1, <2>1, <2>2, Ranked
  <2>4. q # HeadOf(prefix)
    <3>1. Ahead(prefix, HeadOf(prefix)) = {}
      BY <1>1, <1>5 DEF Ahead
    <3> QED
      BY <2>1, <2>3, <3>1, FS_EmptySet
  <2>5. Comes(q) = {s}
    <3>1. s \in Comes(q)
      BY <2>3 DEF Comes
    <3>2. ASSUME NEW r \in Comes(q) PROVE r = s
      <4>1. r \in kept /\ Cardinality(UpTo(kept, r)) = k
        BY <2>3 DEF Comes
      <4>2. r[2] \in Nat /\ s[2] \in Nat
        BY <1>1, <4>1
      <4>3. ~(r[2] < s[2])
        <5>1. r[2] < s[2] => Cardinality(UpTo(kept, r)) <= Cardinality(Ahead(kept, s))
          BY <1>1, <4>1, MoreAhead
        <5>2. Cardinality(Ahead(kept, s)) \in Nat /\ k = Cardinality(Ahead(kept, s)) + 1
          BY <1>1, Counted
        <5> QED
          BY <4>1, <5>1, <5>2, <2>1
      <4>4. ~(s[2] < r[2])
        <5>1. s[2] < r[2] => Cardinality(UpTo(kept, s)) <= Cardinality(Ahead(kept, r))
          BY <1>1, <4>1, MoreAhead
        <5>2. Cardinality(Ahead(kept, r)) \in Nat /\ Cardinality(UpTo(kept, r)) = Cardinality(Ahead(kept, r)) + 1
          BY <1>1, <4>1, Counted
        <5> QED
          BY <4>1, <5>1, <5>2, <2>1
      <4> QED
        BY <1>1, <4>1, <4>2, <4>3, <4>4, SamePlace
    <3> QED
      BY <3>1, <3>2
  <2>6. new[q] = Occupant(d, s, at)
    <3>1. (CHOOSE r \in Comes(q) : TRUE) = s
      BY <2>5
    <3> QED
      BY <1>4, <2>4, <2>5, <3>1
  <2> QED
    BY <1>7, <2>3, <2>4, <2>6
<1>10. DOMAIN new = prefix /\ new[HeadOf(prefix)] = p
  BY <1>4, <1>5
<1> QED
  BY <1>5, <1>8, <1>9, <1>10 DEF Compaction, Staying, new, prefix, kept

LEMMA ReliefRouted ==
    ASSUME NEW d \in DayRec, Apart(d), NEW p, Free(d, p), NEW l, NEW kind, kind # "push7", NEW at,
           NEW t \in Indexes(d, l), d.posts[t].occ \in Staff, d.people[d.posts[t].occ].st = "onpost"
    PROVE  Routed(d, Route(d, l, kind, d.posts[t].occ, p, at, 1), p)
<1> DEFINE target == d.posts[t].occ
           ix == {q \in Indexes(d, l) : q[2] >= 1}
           new == Compact(d, ix, target, p, at)
           prefix == UpTo(ix, t)
           kept == {q \in prefix : Occupant(d, q, at) \notin {None, target}}
           r == Route(d, l, kind, target, p, at, 1)
<1>1. OnLine(ix, l) /\ ix = Indexes(d, l) /\ ix \subseteq Posts /\ t \in ix
      /\ \A q \in ix : d.posts[q].open /\ d.lines[q[1]].active /\ q[2] \in Nat
  BY PostsAre DEF OnLine, Indexes
<1>2. Compaction(d, p, at, prefix, kept, new)
  <2>1. OnLine(ix, l) /\ t \in ix
    BY <1>1
  <2> HIDE DEF ix
  <2>2. Compaction(d, p, at, UpTo(ix, t), Staying(d, at, ix, t), Compact(d, ix, d.posts[t].occ, p, at))
    BY <2>1, CompactIs
  <2> QED
    BY <2>2 DEF Staying
<1>3. None \notin Staff /\ target # None
  BY PlanAssumption
<1>4. /\ r.occ = [q \in Posts |-> IF q \in DOMAIN new THEN new[q] ELSE d.posts[q].occ]
      /\ r.out = target
      /\ r.entered = {new[q] : q \in {x \in DOMAIN new : new[x] # d.posts[x].occ}} \ {None}
  BY <1>3 DEF Route
<1>5. \A q \in prefix : q \in ix /\ q \in Posts
  BY <1>1 DEF UpTo
<1>6. /\ \A q \in Posts : d.posts[q].occ \in Staff \cup {None} /\ d.posts[q].occ # p
      /\ \A q \in Posts : Occupant(d, q, at) \in {d.posts[q].occ, None}
      /\ \A q \in Posts : d.posts[q].occ \in Staff /\ d.people[d.posts[q].occ].st # "notyet" =>
            Occupant(d, q, at) = d.posts[q].occ
      /\ p \in Staff
  BY PostsTyped DEF Free
<1>7. \A s \in kept : s \in prefix /\ s \in Posts /\ Occupant(d, s, at) = d.posts[s].occ /\ d.posts[s].occ \notin {None, target, p}
  BY <1>5, <1>6
<1>8. \A q \in prefix : q \notin kept => Occupant(d, q, at) \in {None, target}
  OBVIOUS
<1>9. t \in prefix /\ Occupant(d, t, at) = target
  <2>1. t \in prefix
    BY <1>1 DEF UpTo
  <2> QED
    BY <2>1, <1>1, <1>6
<1> HIDE DEF ix, new, prefix, kept, r
<1>2a. /\ DOMAIN new = prefix /\ HeadOf(prefix) \in prefix /\ new[HeadOf(prefix)] = p
       /\ \A q \in prefix : q # HeadOf(prefix) =>
            \/ \E s \in kept : new[q] = d.posts[s].occ /\ Cardinality(UpTo(kept, s)) = Cardinality(Ahead(prefix, q))
            \/ new[q] = None
            \/ new[q] = d.posts[q].occ /\ Occupant(d, q, at) = None
       /\ \A s \in kept : \E q \in prefix : /\ q # HeadOf(prefix) /\ new[q] = d.posts[s].occ
                                            /\ Cardinality(UpTo(kept, s)) = Cardinality(Ahead(prefix, q))
  BY <1>2 DEF Compaction
<1>10. \A q \in prefix : new[q] \in Staff \cup {None}
  BY <1>2a, <1>5, <1>6, <1>7
<1>11. r.occ \in Places
  BY <1>2a, <1>4, <1>6, <1>10 DEF Places
<1>12. r.out \in Staff \cup {None} /\ r.out # p
  BY <1>1, <1>4, <1>6
<1>13. \A q \in Posts : r.occ[q] # d.posts[q].occ => d.posts[q].open /\ d.lines[q[1]].active
  BY <1>1, <1>2a, <1>4, <1>5
<1>14. ASSUME NEW x \in prefix, NEW y \in prefix, NEW a \in kept, x # HeadOf(prefix), y # HeadOf(prefix), x[2] < y[2],
              new[x] = d.posts[a].occ, Cardinality(UpTo(kept, a)) = Cardinality(Ahead(prefix, x)),
              Cardinality(UpTo(kept, a)) = Cardinality(Ahead(prefix, y))
       PROVE  FALSE
  <2>1. OnLine(prefix, l)
    BY <1>1, <1>5 DEF OnLine
  <2>2. Cardinality(UpTo(prefix, x)) <= Cardinality(Ahead(prefix, y))
    BY <1>14, <2>1, MoreAhead
  <2>3. Cardinality(Ahead(prefix, x)) \in Nat /\ Cardinality(UpTo(prefix, x)) = Cardinality(Ahead(prefix, x)) + 1
    BY <2>1, Counted
  <2>4. Cardinality(Ahead(prefix, y)) = Cardinality(Ahead(prefix, x))
    BY <1>14
  <2> QED
    BY <2>2, <2>3, <2>4
\* What each post of the prefix gets: p, one who stayed and came, nobody, or whom it only keeps free.
<1>15. \A q \in prefix :
         \/ q = HeadOf(prefix) /\ new[q] = p
         \/ /\ q # HeadOf(prefix)
            /\ \E s \in kept : new[q] = d.posts[s].occ /\ Cardinality(UpTo(kept, s)) = Cardinality(Ahead(prefix, q))
         \/ new[q] = None
         \/ new[q] = d.posts[q].occ /\ Occupant(d, q, at) = None
  BY <1>2a
<1>16. ASSUME NEW x \in prefix, NEW y \in prefix, new[x] = new[y], new[x] # None PROVE x = y
  <2>1. CASE new[x] = p
    BY <1>5, <1>6, <1>7, <1>15, <1>16, <2>1
  <2>2. CASE new[x] # p /\ (\E s \in kept : new[x] = d.posts[s].occ)
    <3>1. PICK s \in kept : new[x] = d.posts[s].occ
      BY <2>2
    <3>2. \A z \in prefix : new[z] = new[x] =>
            z # HeadOf(prefix) /\ Cardinality(UpTo(kept, s)) = Cardinality(Ahead(prefix, z))
      <4> SUFFICES ASSUME NEW z \in prefix, new[z] = new[x]
                   PROVE  z # HeadOf(prefix) /\ Cardinality(UpTo(kept, s)) = Cardinality(Ahead(prefix, z))
        OBVIOUS
      <4>1. ~(new[z] = d.posts[z].occ /\ Occupant(d, z, at) = None)
        BY <1>5, <1>7, <1>16, <3>1 DEF Apart
      <4>2. z # HeadOf(prefix)
        BY <1>2a, <2>2
      <4>3. PICK b \in kept : new[z] = d.posts[b].occ /\ Cardinality(UpTo(kept, b)) = Cardinality(Ahead(prefix, z))
        BY <1>15, <1>16, <4>1, <4>2
      <4>4. b = s
        BY <1>7, <1>16, <3>1, <4>3 DEF Apart
      <4> QED
        BY <4>2, <4>3, <4>4
    <3>3. x[2] \in Nat /\ y[2] \in Nat
      BY <1>1, <1>5
    <3>4. ~(x[2] < y[2]) /\ ~(y[2] < x[2])
      BY <1>14, <1>16, <3>1, <3>2
    <3> QED
      BY <1>1, <1>5, <3>3, <3>4, SamePlace
  <2>3. CASE new[x] # p /\ ~(\E s \in kept : new[x] = d.posts[s].occ)
    <3>1. new[x] = d.posts[x].occ /\ new[y] = d.posts[y].occ
      BY <1>15, <1>16, <2>3
    <3> QED
      BY <1>5, <1>16, <3>1 DEF Apart
  <2> QED
    BY <2>1, <2>2, <2>3
<1>17. \A x \in prefix : new[x] # None /\ new[x] # p => \E s \in prefix : new[x] = d.posts[s].occ
  BY <1>2a, <1>7
<1>18. ASSUME NEW q \in Posts, NEW s \in Posts, r.occ[q] = r.occ[s], r.occ[q] # None PROVE q = s
  <2>1. \A x \in Posts : x \notin prefix => r.occ[x] = d.posts[x].occ
    BY <1>2a, <1>4
  <2>2. \A x \in prefix : r.occ[x] = new[x]
    BY <1>2a, <1>4, <1>5
  <2>3. \A x \in Posts, y \in prefix : x \notin prefix => d.posts[x].occ # new[y] \/ d.posts[x].occ = None
    BY <1>5, <1>6, <1>17 DEF Apart
  <2> QED
    BY <1>16, <1>18, <2>1, <2>2, <2>3 DEF Apart
<1>19. \A q \in Posts : r.occ[q] \notin {None, p} => \E s \in Posts : d.posts[s].occ = r.occ[q]
  BY <1>2a, <1>4, <1>5, <1>17
<1>20. ASSUME NEW q \in Posts, d.posts[q].occ \notin {None, r.out}, d.people[d.posts[q].occ].st = "onpost"
       PROVE  \E s \in Posts : r.occ[s] = d.posts[q].occ
  <2>1. CASE q \notin prefix
    BY <1>2a, <1>4, <2>1
  <2>2. CASE q \in prefix
    <3>1. q \in kept
      BY <1>4, <1>6, <1>8, <1>20, <2>2
    <3> QED
      BY <1>2a, <1>4, <1>5, <3>1
  <2> QED
    BY <2>1, <2>2
<1>21. ASSUME NEW q \in Posts, r.out # None, r.occ[q] = r.out PROVE FALSE
  <2>1. CASE q \notin prefix
    BY <1>1, <1>2a, <1>3, <1>4, <1>9, <1>21, <2>1 DEF Apart
  <2>2. CASE q \in prefix
    <3>1. new[q] = target
      BY <1>2a, <1>4, <1>21, <2>2
    <3>2. new[q] = d.posts[q].occ /\ Occupant(d, q, at) = None
      BY <1>1, <1>3, <1>6, <1>7, <1>15, <2>2, <3>1
    <3>3. q = t
      BY <1>1, <1>3, <2>2, <3>1, <3>2 DEF Apart
    <3> QED
      BY <1>3, <1>9, <3>2, <3>3
  <2> QED
    BY <2>1, <2>2
<1>22. \E q \in Posts : r.occ[q] = p
  BY <1>2a, <1>4, <1>5
<1>23. r.entered = {r.occ[q] : q \in {s \in Posts : r.occ[s] # d.posts[s].occ}} \ {None}
  BY <1>2a, <1>4, <1>5
<1> QED
  BY <1>11, <1>12, <1>13, <1>18, <1>19, <1>20, <1>21, <1>22, <1>23 DEF Routed, r

LEMMA SevenRouted ==
    ASSUME NEW d \in DayRec, Apart(d), NEW p, Free(d, p), NEW l, NEW at, NEW t \in Indexes(d, l),
           d.posts[t].occ \in Staff
    PROVE  Routed(d, Route(d, l, "push7", d.posts[t].occ, p, at, 1), p)
<1> DEFINE target == d.posts[t].occ
           ix == {q \in Indexes(d, l) : q[2] >= 1}
           new == [q \in {r \in ix : d.posts[r].occ = target} |-> p]
           r == Route(d, l, "push7", target, p, at, 1)
<1>1. t \in ix /\ t \in Posts /\ ix \subseteq Posts /\ \A q \in ix : d.posts[q].open /\ d.lines[q[1]].active
  BY PostsAre DEF Indexes
<1>2. None \notin Staff /\ target # None
  BY PlanAssumption
<1>3. /\ r.occ = [q \in Posts |-> IF q \in DOMAIN new THEN new[q] ELSE d.posts[q].occ]
      /\ r.out = target
      /\ r.entered = {new[q] : q \in {x \in DOMAIN new : new[x] # d.posts[x].occ}} \ {None}
  BY <1>2 DEF Route
<1>4. DOMAIN new = {t} /\ new[t] = p
  BY <1>1, <1>2 DEF Apart
<1>5. p \in Staff /\ \A q \in Posts : d.posts[q].occ \in Staff \cup {None} /\ d.posts[q].occ # p
  BY PostsTyped DEF Free
<1> HIDE DEF new, r, ix
<1>6. r.occ = [q \in Posts |-> IF q = t THEN p ELSE d.posts[q].occ]
  BY <1>3, <1>4
<1>7. r.entered = {p}
  BY <1>1, <1>2, <1>3, <1>4, <1>5
<1>8. {r.occ[q] : q \in {s \in Posts : r.occ[s] # d.posts[s].occ}} \ {None} = {p}
  BY <1>1, <1>2, <1>5, <1>6
<1> QED
  BY <1>1, <1>2, <1>3, <1>5, <1>6, <1>7, <1>8 DEF Routed, Places, Apart, r

-----------------------------------------------------------------------------
(* The board of a day. *)

Seated(d) == \A q \in Posts : d.posts[q].occ # None =>
    /\ d.people[d.posts[q].occ].st \in {"onpost", "notyet"}
    /\ d.posts[q].open /\ d.lines[q[1]].active
Posted(d, ps) == \A p \in ps : d.people[p].st = "onpost" => \E q \in Posts : d.posts[q].occ = p
Planned(d) == \A q \in Posts :
    d.posts[q].occ # None /\ d.people[d.posts[q].occ].st = "notyet" => Seat[d.posts[q].occ] = q
Board(d) == Apart(d) /\ Seated(d) /\ Posted(d, Staff) /\ Planned(d)

Gone == {"onpost", "pending", "away", "other", "sick", "done"}
Kinds == {"sick", "push7", "off", "out", "opening", "vacancy", "push"}

\* What an operation at n may do to a person: nothing that counts, away from the break, or a new break.
Alike(s, t) == t.st = s.st /\ t.readyAt = s.readyAt /\ t.timeoutAt = s.timeoutAt
Effect(p, s, t, n) ==
    /\ s.restored => t.restored
    /\ t.seq >= s.seq
    /\ \/ Alike(s, t)
       \/ t.st \in Gone
       \/ /\ t.st = "rest" /\ t.readyAt >= n /\ t.timeoutAt = t.readyAt + Grace
          /\ t.restored \/ Start[p] <= n
\* What an operation makes of a day, whatever board it found.
Kept(d, e) ==
    /\ e \in DayRec /\ e.status = d.status /\ e.paused = d.paused
    /\ \A x \in Staff : Effect(x, d.people[x], e.people[x], now)

LEMMA DayParts ==
    ASSUME NEW d \in DayRec
    PROVE  /\ d.people \in [Staff -> PersonRec] /\ d.posts \in [Posts -> PostRec] /\ d.lines \in [Lines -> LineRec]
           /\ d.paused \in Nat \cup {None} /\ d.status \in {"live", "ended"}
           /\ \A x \in Staff : d.people[x] \in PersonRec
           /\ \A q \in Posts : d.posts[q] \in PostRec
           /\ \A l \in Lines : d.lines[l] \in LineRec
           /\ None \notin Staff
           /\ d = [people |-> d.people, posts |-> d.posts, lines |-> d.lines, paused |-> d.paused, status |-> d.status]
  BY PlanAssumption DEF DayRec

\* The parts of a day of which they are changed.
LEMMA DayOfParts ==
    ASSUME NEW d \in DayRec, NEW pe \in [Staff -> PersonRec], NEW po \in [Posts -> PostRec], NEW li \in [Lines -> LineRec]
    PROVE  LET e == [d EXCEPT !.people = pe, !.posts = po, !.lines = li]
           IN  /\ e \in DayRec /\ e.people = pe /\ e.posts = po /\ e.lines = li
               /\ e.paused = d.paused /\ e.status = d.status
  BY DEF DayRec

MovedOne(d, p, kind, r, manual, x) ==
    LET off == [d.people[r.out] EXCEPT !.st = Outcome(kind), !.readyAt = 0, !.timeoutAt = 0, !.exit = "none"]
    IN  CASE x = r.out -> [off EXCEPT !.seven = @ /\ kind # "push7" /\ ~manual]
          [] x \in {p} \ {r.out} -> [d.people[x] EXCEPT !.st = "onpost", !.readyAt = 0, !.timeoutAt = 0, !.seq = @ + 1]
          [] x \in r.entered \ {p, r.out} -> [d.people[x] EXCEPT !.st = "onpost"]
          [] OTHER -> d.people[x]

OneMoved(p, r, x, s, t) ==
    /\ t \in PersonRec /\ t.restored = s.restored
    /\ x = r.out => t.st \in Gone \ {"onpost"} /\ t.seq = s.seq
    /\ x = p /\ x # r.out => t.st = "onpost" /\ t.seq = s.seq + 1
    /\ x \in r.entered /\ x \notin {p, r.out} => t.st = "onpost" /\ t.seq = s.seq
    /\ x \notin r.entered \cup {r.out, p} => t = s

LEMMA MovedOneIs ==
    ASSUME NEW d \in DayRec, NEW p \in Staff, NEW kind \in Kinds, NEW r, NEW manual \in BOOLEAN,
           NEW x \in Staff, NEW t, t = MovedOne(d, p, kind, r, manual, x)
    PROVE  OneMoved(p, r, x, d.people[x], t)
<1>1. PICK s : s = d.people[x]
  OBVIOUS
<1>2. s \in PersonRec /\ s.seq \in Nat
  BY <1>1, DayParts DEF PersonRec
<1>3. CASE x = r.out
  <2> DEFINE k == Outcome(kind)
             o == [s EXCEPT !.st = k, !.readyAt = 0, !.timeoutAt = 0, !.exit = "none"]
             b == o.seven /\ kind # "push7" /\ ~manual
  <2>1. t = [o EXCEPT !.seven = b]
    BY <1>1, <1>3 DEF MovedOne
  <2>2. k \in {"done", "away", "sick", "pending"} /\ b \in BOOLEAN
    BY DEF Outcome, Kinds
  <2> HIDE DEF b, k
  <2>3. o \in PersonRec /\ o.st = k /\ o.restored = s.restored /\ o.seq = s.seq
    BY <1>2, <2>2 DEF PersonRec, States
  <2> HIDE DEF o
  <2>4. t \in PersonRec /\ t.st = k /\ t.restored = s.restored /\ t.seq = s.seq
    BY <2>1, <2>2, <2>3 DEF PersonRec
  <2> QED
    BY <1>1, <1>3, <2>2, <2>4 DEF Gone, OneMoved
<1>4. CASE x = p /\ x # r.out
  <2> DEFINE n == s.seq + 1
             o == [s EXCEPT !.st = "onpost", !.readyAt = 0, !.timeoutAt = 0]
  <2>1. n \in Nat /\ t = [o EXCEPT !.seq = n]
    BY <1>1, <1>2, <1>4 DEF MovedOne
  <2>3. o \in PersonRec /\ o.st = "onpost" /\ o.restored = s.restored
    BY <1>2 DEF PersonRec, States
  <2> HIDE DEF n, o
  <2>2. t \in PersonRec /\ t.st = "onpost" /\ t.restored = s.restored /\ t.seq = n
    BY <2>1, <2>3 DEF PersonRec
  <2> QED
    BY <1>1, <1>4, <2>2 DEF n, OneMoved
<1>5. CASE x \in r.entered \ {p, r.out}
  <2>1. t = [s EXCEPT !.st = "onpost"]
    BY <1>1, <1>5 DEF MovedOne
  <2>2. t \in PersonRec /\ t.st = "onpost" /\ t.restored = s.restored /\ t.seq = s.seq
    BY <1>2, <2>1 DEF PersonRec, States
  <2> QED
    BY <1>1, <1>5, <2>2 DEF OneMoved
<1>6. CASE x \notin r.entered \cup {r.out, p}
  BY <1>1, <1>2, <1>6 DEF MovedOne, OneMoved
<1> QED
  BY <1>3, <1>4, <1>5, <1>6

LEMMA MovedParts ==
    ASSUME NEW d \in DayRec, NEW p \in Staff, NEW l \in Lines, NEW kind \in Kinds, NEW target, NEW r, NEW manual \in BOOLEAN, now \in Nat,
           r.occ \in Places, NEW e, e = Moved(d, p, l, kind, target, r, manual)
    PROVE  /\ e \in DayRec /\ e.paused = d.paused /\ e.status = d.status
           /\ \A x \in Staff : e.people[x] = MovedOne(d, p, kind, r, manual, x)
           /\ \A q \in Posts : e.posts[q].occ = r.occ[q] /\ e.posts[q].open = d.posts[q].open
           /\ \A m \in Lines : e.lines[m].active = d.lines[m].active
<1> DEFINE w == WithOccupants(d, r.occ)
           map == [x \in Staff |-> MovedOne(d, p, kind, r, manual, x)]
           cond == AdvancesClock(d, l, kind, target) /\ ~manual
<1>1. w = [people |-> d.people, posts |-> [q \in Posts |-> [d.posts[q] EXCEPT !.occ = r.occ[q]]],
           lines |-> d.lines, paused |-> d.paused, status |-> d.status]
  BY DEF WithOccupants, DayRec
<1>2. e = [w EXCEPT !.people = map,
                    !.lines[l].sortAt = IF cond THEN now ELSE @,
                    !.lines[l].adding = FALSE]
  BY DEF Moved, MovedOne
<1>3. d.lines \in [Lines -> LineRec] /\ d.lines[l] \in LineRec
  BY DayParts
<1> HIDE DEF w, map, cond
<1>4. e.people = map /\ e.posts = w.posts /\ e.paused = w.paused /\ e.status = w.status
      /\ e = [people |-> e.people, posts |-> e.posts, lines |-> e.lines, paused |-> w.paused, status |-> w.status]
  BY <1>1, <1>2
<1> DEFINE one == [w.lines[l] EXCEPT !.sortAt = IF cond THEN now ELSE w.lines[l].sortAt]
           two == [one EXCEPT !.adding = FALSE]
<1>5. e.lines = [[w.lines EXCEPT ![l] = one] EXCEPT ![l] = [@ EXCEPT !.adding = FALSE]]
  BY <1>1, <1>2
<1>6. one \in LineRec /\ one.active = d.lines[l].active
  BY <1>1, <1>3 DEF LineRec
<1>7. e.lines = [d.lines EXCEPT ![l] = two]
  <2> HIDE DEF one
  <2> QED
    BY <1>1, <1>3, <1>5
<1>8. two \in LineRec /\ two.active = d.lines[l].active
  <2> HIDE DEF one
  <2> QED
    BY <1>6 DEF LineRec
<1>9. e.lines \in [Lines -> LineRec] /\ \A m \in Lines : e.lines[m].active = d.lines[m].active
  <2> HIDE DEF two
  <2> QED
    BY <1>3, <1>7, <1>8
<1> QED
  <2>1. e.people = map /\ e.posts = [q \in Posts |-> [d.posts[q] EXCEPT !.occ = r.occ[q]]]
    BY <1>1, <1>4
  <2>2. \A q \in Posts : d.posts[q] \in PostRec /\ r.occ[q] \in Staff \cup {None}
    BY DayParts DEF Places
  <2>3. \A q \in Posts : LET f == [d.posts[q] EXCEPT !.occ = r.occ[q]]
                         IN  f \in PostRec /\ f.occ = r.occ[q] /\ f.open = d.posts[q].open
    BY <2>2 DEF PostRec
  <2>4. e.posts \in [Posts -> PostRec] /\ \A q \in Posts : e.posts[q].occ = r.occ[q] /\ e.posts[q].open = d.posts[q].open
    BY <2>1, <2>3
  <2>5. \A x \in Staff : e.people[x] = MovedOne(d, p, kind, r, manual, x)
    BY <2>1 DEF map
  <2>6. \A x \in Staff : MovedOne(d, p, kind, r, manual, x) \in PersonRec
    BY MovedOneIs DEF OneMoved
  <2>7. e.people \in [Staff -> PersonRec]
    BY <2>1, <2>6 DEF map
  <2>8. e.paused = d.paused /\ e.status = d.status /\ e.paused \in Nat \cup {None} /\ e.status \in {"live", "ended"}
    BY <1>1, <1>4, DayParts
  <2>9. e \in DayRec
    BY <1>1, <1>4, <1>9, <2>4, <2>7, <2>8 DEF DayRec
  <2> QED
    BY <1>9, <2>4, <2>5, <2>8, <2>9

LEMMA MovedKept ==
    ASSUME NEW d \in DayRec, NEW p \in Staff, NEW l \in Lines, NEW kind \in Kinds, NEW target,
           NEW r, NEW manual \in BOOLEAN, now \in Nat, r.occ \in Places, r.out \in Staff \cup {None},
           NEW e, e = Moved(d, p, l, kind, target, r, manual)
    PROVE  /\ Kept(d, e)
           /\ p # r.out => e.people[p].seq = d.people[p].seq + 1 /\ e.people[p].st = "onpost"
           /\ r.out # None => e.people[r.out].st \in Gone \ {"onpost"}
           /\ \A x \in r.entered \cap Staff : x # r.out => e.people[x].st = "onpost"
           /\ \A x \in Staff : x \notin r.entered \cup {r.out, p} => e.people[x] = d.people[x]
<1>1. \A x \in Staff : d.people[x] \in PersonRec
  BY DayParts
<1>2. e \in DayRec /\ e.paused = d.paused /\ e.status = d.status
      /\ \A x \in Staff : e.people[x] = MovedOne(d, p, kind, r, manual, x)
  BY MovedParts
<1>5. ASSUME NEW x \in Staff
      PROVE  /\ e.people[x] \in PersonRec /\ e.people[x].restored = d.people[x].restored
             /\ x = r.out => e.people[x].st \in Gone \ {"onpost"} /\ e.people[x].seq = d.people[x].seq
             /\ x = p /\ x # r.out => e.people[x].st = "onpost" /\ e.people[x].seq = d.people[x].seq + 1
             /\ x \in r.entered /\ x \notin {p, r.out} => e.people[x].st = "onpost" /\ e.people[x].seq = d.people[x].seq
             /\ x \notin r.entered \cup {r.out, p} => e.people[x] = d.people[x]
  <2>1. PICK t : t = MovedOne(d, p, kind, r, manual, x)
    OBVIOUS
  <2>2. OneMoved(p, r, x, d.people[x], t)
    BY <2>1, MovedOneIs
  <2> QED
    BY <1>2, <2>1, <2>2 DEF OneMoved
<1>14. \A x \in Staff : Effect(x, d.people[x], e.people[x], now)
  <2> SUFFICES ASSUME NEW x \in Staff PROVE Effect(x, d.people[x], e.people[x], now)
    OBVIOUS
  <2> DEFINE s == d.people[x] t == e.people[x]
  <2>1. s \in PersonRec /\ t \in PersonRec /\ t.restored = s.restored
    BY <1>1, <1>5
  <2>2. t = s \/ (t.st \in Gone /\ (t.seq = s.seq \/ t.seq = s.seq + 1))
    BY <1>5 DEF Gone
  <2>3. s.seq \in Nat
    BY <2>1 DEF PersonRec
  <2> HIDE DEF s, t
  <2>4. t.seq >= s.seq /\ (Alike(s, t) \/ t.st \in Gone)
    BY <2>2, <2>3 DEF Alike
  <2>5. Effect(x, s, t, now)
    BY <2>1, <2>4 DEF Effect
  <2> QED
    BY <2>5 DEF s, t
<1> QED
  BY <1>2, <1>5, <1>14 DEF Kept

LEMMA MovedBoard ==
    ASSUME NEW d \in DayRec, NEW p \in Staff, NEW l \in Lines, NEW kind \in Kinds, NEW target,
           NEW r, NEW manual \in BOOLEAN, now \in Nat,
           Free(d, p), Apart(d), Seated(d), Posted(d, Staff \ {p}), Planned(d), Routed(d, r, p),
           NEW e, e = Moved(d, p, l, kind, target, r, manual)
    PROVE  Board(e)
<1>1. /\ \A x \in Staff : d.people[x] \in PersonRec
      /\ \A q \in Posts : d.posts[q] \in PostRec /\ d.posts[q].occ \in Staff \cup {None}
      /\ None \notin Staff
  BY DayParts, PostsTyped
<1>4. r.out \in Staff \cup {None} /\ r.out # p /\ p \in r.entered /\ r.occ \in Places
      /\ \A q \in Posts : r.occ[q] \in Staff \cup {None}
  <2>1. PICK q \in Posts : r.occ[q] = p
    BY DEF Routed
  <2>2. p # None /\ d.posts[q].occ # p
    BY <1>1 DEF Free
  <2>3. p \in {r.occ[x] : x \in {s \in Posts : r.occ[s] # d.posts[s].occ}} \ {None}
    BY <2>1, <2>2
  <2> QED
    BY <2>3 DEF Routed, Places
<1>5. /\ e.people[p].st = "onpost"
      /\ r.out # None => e.people[r.out].st \in Gone \ {"onpost"}
      /\ \A x \in r.entered \cap Staff : x # r.out => e.people[x].st = "onpost"
      /\ \A x \in Staff : x \notin r.entered \cup {r.out, p} => e.people[x] = d.people[x]
  BY <1>4, MovedKept
<1>7. \A q \in Posts : e.posts[q].occ = r.occ[q] /\ e.posts[q].open = d.posts[q].open /\ e.lines[q[1]].active = d.lines[q[1]].active
  BY <1>4, MovedParts, PostsAre
<1>10. Apart(e)
  BY <1>7 DEF Apart, Routed
<1>11. ASSUME NEW q \in Posts, e.posts[q].occ # None
       PROVE  /\ e.people[e.posts[q].occ].st \in {"onpost", "notyet"}
              /\ e.posts[q].open /\ e.lines[q[1]].active
              /\ e.people[e.posts[q].occ].st = "notyet" => Seat[e.posts[q].occ] = q
  <2> DEFINE x == r.occ[q]
  <2>1. x \in Staff /\ x # r.out /\ e.posts[q].occ = x
    BY <1>4, <1>7, <1>11 DEF Routed
  <2>2. d.posts[q].open /\ d.lines[q[1]].active
    BY <1>1, <2>1 DEF Routed, Seated
  <2>3. CASE x \in r.entered
    BY <1>5, <1>7, <2>1, <2>2, <2>3
  <2>4. CASE x \notin r.entered
    <3>1. d.posts[q].occ = x
      BY <1>1, <2>1, <2>4 DEF Routed
    <3>2. e.people[x] = d.people[x]
      BY <1>4, <1>5, <2>1, <2>4
    <3> QED
      BY <1>1, <1>7, <2>1, <2>2, <3>1, <3>2 DEF Seated, Planned
  <2> QED
    BY <2>3, <2>4
<1>12. ASSUME NEW x \in Staff, e.people[x].st = "onpost" PROVE \E q \in Posts : e.posts[q].occ = x
  <2>1. x # r.out
    BY <1>1, <1>5, <1>12
  <2>2. CASE x \in r.entered
    BY <1>7, <2>2 DEF Routed
  <2>3. CASE x \notin r.entered
    <3>1. d.people[x].st = "onpost" /\ x # p /\ x # None
      BY <1>1, <1>4, <1>5, <1>12, <2>1, <2>3
    <3>2. PICK q \in Posts : d.posts[q].occ = x
      BY <3>1 DEF Posted
    <3> QED
      BY <1>7, <2>1, <3>1, <3>2 DEF Routed
  <2> QED
    BY <2>2, <2>3
<1> QED
  BY <1>10, <1>11, <1>12 DEF Board, Seated, Posted, Planned
LEMMA RouteTyped ==
    ASSUME NEW d \in DayRec, NEW p \in Staff, NEW l, NEW kind, NEW target \in Staff \cup {None}, NEW at, NEW entry,
           {q \in Indexes(d, l) : q[2] >= entry} # {},
           NEW r, r = Route(d, l, kind, target, p, at, entry)
    PROVE  r.occ \in Places /\ r.out \in Staff \cup {None}
<1> DEFINE ix == {q \in Indexes(d, l) : q[2] >= entry}
           new == IF kind = "push7" THEN [q \in {s \in ix : d.posts[s].occ = target} |-> p]
                  ELSE IF target # None THEN Compact(d, ix, target, p, at)
                  ELSE Pushed(d, ix, p, at)
<1>1. OnLine(ix, l) /\ ix # {} /\ ix \subseteq Posts /\ \A q \in ix : q[2] \in Nat
  BY PostsAre DEF OnLine, Indexes
<1>2. /\ r.occ = [q \in Posts |-> IF q \in DOMAIN new THEN new[q] ELSE d.posts[q].occ]
      /\ r.out = IF target # None THEN target ELSE Occupant(d, Reach(d, ix, at), at)
  BY DEF Route
<1>3. /\ \A q \in Posts : d.posts[q].occ \in Staff \cup {None}
      /\ \A q \in Posts : Occupant(d, q, at) \in Staff \cup {None}
  BY PostsTyped
<1> HIDE DEF ix
<1>4. Reach(d, ix, at) \in ix
  <2> DEFINE vacant == {q \in ix : Occupant(d, q, at) = None}
  <2>1. CASE vacant = {}
    <3>1. Reach(d, ix, at) = TailOf(ix)
      BY <2>1 DEF Reach
    <3> QED
      BY <1>1, <3>1, TailIs
  <2>2. CASE vacant # {}
    <3>1. Reach(d, ix, at) = HeadOf(vacant)
      BY <2>2 DEF Reach
    <3>2. OnLine(vacant, l)
      BY <1>1 DEF OnLine
    <3> QED
      BY <2>2, <3>1, <3>2, HeadIs
  <2> QED
    BY <2>1, <2>2
<1>5. CASE kind = "push7"
  <2>1. \A q \in DOMAIN new : new[q] = p
    BY <1>5
  <2> HIDE DEF new
  <2> QED
    BY <1>1, <1>2, <1>3, <1>4, <2>1 DEF Places
<1>6. CASE kind # "push7" /\ target # None
  <2> DEFINE prefix == UpTo(ix, CHOOSE q \in ix : d.posts[q].occ = target)
             kept == {q \in prefix : Occupant(d, q, at) \notin {None, target}}
             Comes(q) == {s \in kept : Cardinality(UpTo(kept, s)) = Cardinality(Ahead(prefix, q))}
  <2>1. new = [q \in prefix |-> IF q = HeadOf(prefix) THEN p
                              ELSE IF Comes(q) # {} THEN Occupant(d, CHOOSE s \in Comes(q) : TRUE, at)
                              ELSE IF Occupant(d, q, at) # None THEN None ELSE d.posts[q].occ]
    BY <1>6 DEF Compact
  <2>2. prefix \subseteq ix /\ \A q \in prefix : Comes(q) \subseteq ix
    BY DEF UpTo
  <2> HIDE DEF new, prefix, Comes
  <2>3. \A q \in prefix : new[q] \in Staff \cup {None}
    <3> SUFFICES ASSUME NEW q \in prefix PROVE new[q] \in Staff \cup {None}
      OBVIOUS
    <3>1. Comes(q) # {} => (CHOOSE s \in Comes(q) : TRUE) \in ix
      BY <2>2
    <3>2. Comes(q) # {} => Occupant(d, CHOOSE s \in Comes(q) : TRUE, at) \in Staff \cup {None}
      BY <1>1, <1>3, <3>1
    <3> QED
      BY <1>1, <1>3, <2>1, <2>2, <3>2
  <2>4. DOMAIN new = prefix
    BY <2>1
  <2> QED
    BY <1>2, <1>3, <1>6, <2>3, <2>4 DEF Places
<1>7. CASE kind # "push7" /\ target = None
  <2>1. new = Pushed(d, ix, p, at)
    BY <1>7
  <2>2. /\ DOMAIN new = UpTo(ix, Reach(d, ix, at))
        /\ \A q \in DOMAIN new : new[q] = IF q = HeadOf(ix) THEN p ELSE Occupant(d, TailOf(Ahead(ix, q)), at)
    BY <2>1 DEF Pushed
  <2> HIDE DEF new
  <2>3. \A q \in DOMAIN new : new[q] \in Staff \cup {None}
    <3> SUFFICES ASSUME NEW q \in DOMAIN new, q # HeadOf(ix) PROVE TailOf(Ahead(ix, q)) \in Posts
      BY <1>3, <2>2
    <3>1. q \in ix /\ OnLine(Ahead(ix, q), l)
      BY <1>1, <2>2 DEF OnLine, Ahead, UpTo
    <3>2. HeadOf(ix) \in ix /\ HeadOf(ix)[2] <= q[2]
      BY <1>1, <3>1, HeadIs
    <3>3. HeadOf(ix)[2] # q[2]
      BY <1>1, <3>1, <3>2, SamePlace
    <3>4. HeadOf(ix) \in Ahead(ix, q)
      BY <1>1, <3>1, <3>2, <3>3 DEF Ahead
    <3>5. TailOf(Ahead(ix, q)) \in Ahead(ix, q)
      BY <3>1, <3>4, TailIs
    <3> QED
      BY <1>1, <3>5 DEF Ahead
  <2> QED
    BY <1>1, <1>2, <1>3, <1>4, <1>7, <2>3 DEF Places
<1> QED
  BY <1>5, <1>6, <1>7

\* Leaving keeps a board: whoever stays on a post stays as they are, and whoever is on duty stays.
LEMMA LeavingBoard ==
    ASSUME NEW d \in DayRec, NEW e \in DayRec, Board(d),
           \A q \in Posts : e.posts[q].occ \in {d.posts[q].occ, None},
           \A q \in Posts : e.posts[q].occ # None =>
                /\ e.people[e.posts[q].occ].st = d.people[e.posts[q].occ].st
                /\ e.posts[q].open /\ e.lines[q[1]].active,
           \A x \in Staff : e.people[x].st = "onpost" =>
                /\ d.people[x].st = "onpost"
                /\ \A q \in Posts : d.posts[q].occ = x => e.posts[q].occ = x
    PROVE  Board(e)
<1>1. Apart(e)
  BY DEF Board, Apart
<1>2. Seated(e)
  BY DEF Board, Seated
<1>3. Posted(e, Staff)
  BY DEF Board, Posted
<1>4. Planned(e)
  BY DEF Board, Planned
<1> QED
  BY <1>1, <1>2, <1>3, <1>4 DEF Board

\* Nobody of ps is on a post any more.
LEMMA VacateIs ==
    ASSUME NEW d \in DayRec, NEW ps, NEW e, e = Vacate(d, ps)
    PROVE  /\ e \in DayRec /\ e.people = d.people /\ e.lines = d.lines /\ e.paused = d.paused /\ e.status = d.status
           /\ \A q \in Posts : /\ e.posts[q].occ = IF d.posts[q].occ \in ps THEN None ELSE d.posts[q].occ
                               /\ e.posts[q].open = d.posts[q].open /\ e.posts[q].hold = d.posts[q].hold
                               /\ d.posts[q].occ \notin ps => e.posts[q] = d.posts[q]
<1> DEFINE F(q) == IF d.posts[q].occ \in ps THEN [d.posts[q] EXCEPT !.occ = None] ELSE d.posts[q]
           po == [q \in Posts |-> F(q)]
<1>1. e = [d EXCEPT !.posts = po]
  BY DEF Vacate
<1>2. \A q \in Posts : /\ F(q) \in PostRec /\ F(q).occ = IF d.posts[q].occ \in ps THEN None ELSE d.posts[q].occ
                       /\ F(q).open = d.posts[q].open /\ F(q).hold = d.posts[q].hold
                       /\ d.posts[q].occ \notin ps => F(q) = d.posts[q]
  <2> SUFFICES ASSUME NEW q \in Posts
               PROVE  /\ F(q) \in PostRec /\ F(q).occ = IF d.posts[q].occ \in ps THEN None ELSE d.posts[q].occ
                      /\ F(q).open = d.posts[q].open /\ F(q).hold = d.posts[q].hold
                      /\ d.posts[q].occ \notin ps => F(q) = d.posts[q]
    OBVIOUS
  <2>1. d.posts[q] \in PostRec
    BY DayParts
  <2> QED
    BY <2>1 DEF PostRec
<1>3. po \in [Posts -> PostRec]
  BY <1>2
<1> HIDE DEF F, po
<1>4. e \in DayRec /\ e.posts = po /\ e.people = d.people /\ e.lines = d.lines /\ e.paused = d.paused /\ e.status = d.status
  BY <1>1, <1>3 DEF DayRec
<1> QED
  BY <1>2, <1>4 DEF po

\* One person of a day is changed.
WithPerson(d, p, s) == [d EXCEPT !.people[p] = s]

LEMMA PersonSet ==
    ASSUME NEW d \in DayRec, NEW p \in Staff, NEW s \in PersonRec, NEW e, e = WithPerson(d, p, s)
    PROVE  /\ e \in DayRec /\ e.posts = d.posts /\ e.lines = d.lines /\ e.paused = d.paused /\ e.status = d.status
           /\ e.people[p] = s /\ \A x \in Staff : x # p => e.people[x] = d.people[x]
<1>1. e.people = [d.people EXCEPT ![p] = s] /\ e.posts = d.posts /\ e.lines = d.lines /\ e.paused = d.paused
      /\ e.status = d.status /\ e = [d EXCEPT !.people = [d.people EXCEPT ![p] = s]]
  BY DEF DayRec, WithPerson
<1>2. d.people \in [Staff -> PersonRec]
  BY DayParts
<1>3. [d.people EXCEPT ![p] = s] \in [Staff -> PersonRec]
  BY <1>2
<1> QED
  BY <1>1, <1>2, <1>3 DEF DayRec

LEMMA Unchanged ==
    ASSUME NEW x, NEW s \in PersonRec
    PROVE  Effect(x, s, s, now)
  BY DEF Effect, Alike, PersonRec
LEMMA SettingsTyped ==
    /\ Break \in Nat /\ Grace \in Nat /\ Grace >= 1 /\ Prepare \in Nat /\ NoBoard \in Nat /\ StopPush \in Nat
    /\ Durations \subseteq Nat /\ MaxActs \in Nat
    /\ \A p \in Staff : Start[p] \in Nat /\ End[p] \in Nat /\ Start[p] < End[p]
    /\ DayEnd \in Nat /\ DayEnd > 0 /\ \A p \in Staff : End[p] <= DayEnd
<1>1. \A p \in Staff : Start[p] \in Nat /\ End[p] \in Nat /\ Start[p] < End[p]
  BY PlanAssumption
<1>2. PICK m \in Staff : \A p \in Staff : End[p] <= End[m]
  BY PlanAssumption
<1>3. \E e \in {End[p] : p \in Staff} : \A p \in Staff : End[p] <= e
  BY <1>2
<1>4. DayEnd \in {End[p] : p \in Staff} /\ \A p \in Staff : End[p] <= DayEnd
  BY <1>3 DEF DayEnd
<1> QED
  BY <1>1, <1>4, SettingsAssumption

\* What one person's change means for the others: nothing.
LEMMA OneChanged ==
    ASSUME NEW d \in DayRec, NEW e \in DayRec, NEW p \in Staff, e.status = d.status, e.paused = d.paused,
           Effect(p, d.people[p], e.people[p], now),
           \A x \in Staff : x # p => e.people[x] = d.people[x]
    PROVE  Kept(d, e)
<1>1. \A x \in Staff : d.people[x] \in PersonRec
  BY DayParts
<1>2. ASSUME NEW x \in Staff PROVE Effect(x, d.people[x], e.people[x], now)
  <2>1. CASE x = p
    BY <2>1
  <2>2. CASE x # p
    <3>1. Effect(x, d.people[x], d.people[x], now)
      BY <1>1, Unchanged
    <3> QED
      BY <2>2, <3>1
  <2> QED
    BY <2>1, <2>2
<1> QED
  BY <1>2 DEF Kept

Destinations == {"rest", "pending", "away", "other"}

LEMMA InPoolIs ==
    ASSUME NEW d \in DayRec, NEW p \in Staff, NEW dest \in Destinations, NEW dur \in Nat, now \in Nat,
           NEW e, e = InPool(d, p, dest, dur)
    PROVE  /\ Kept(d, e) /\ e.people[p].seq = d.people[p].seq + 1
           /\ Board(d) => Board(e)
<1> DEFINE v == Vacate(d, {p})
           s == d.people[p]
           re == Returned(s, p)
           ra == IF dest = "rest" THEN now + dur ELSE 0
           ta == IF dest = "rest" THEN ra + Grace ELSE 0
           n == s.seq + 1
           o == [s EXCEPT !.st = dest, !.exit = "none", !.seq = n]
           u == [o EXCEPT !.restored = re]
           t == [u EXCEPT !.readyAt = ra, !.timeoutAt = ta]
<1>1. /\ v \in DayRec /\ v.people = d.people /\ v.lines = d.lines /\ v.paused = d.paused /\ v.status = d.status
      /\ \A q \in Posts : /\ v.posts[q].occ = IF d.posts[q].occ \in {p} THEN None ELSE d.posts[q].occ
                          /\ v.posts[q].open = d.posts[q].open
  BY VacateIs
<1>2. s \in PersonRec /\ s.seq \in Nat /\ s.restored \in BOOLEAN
  BY DayParts DEF PersonRec
<1>3. e = WithPerson(v, p, t)
  BY DEF InPool, WithPerson
<1>4. ra \in Nat /\ ta \in Nat /\ n \in Nat /\ re \in BOOLEAN /\ Start[p] \in Nat
  <2>1. ra \in Nat
    OBVIOUS
  <2> HIDE DEF ra
  <2> QED
    BY <1>2, <2>1, SettingsTyped DEF Returned
<1>5. dest = "rest" => ra >= now /\ ta = ra + Grace /\ (re \/ Start[p] <= now)
  BY <1>4, SettingsTyped DEF Returned
<1>6. s.restored => re
  BY DEF Returned
<1>7. o \in PersonRec /\ o.st = dest /\ o.seq = n
  <2> HIDE DEF s, n
  <2> QED
    BY <1>2, <1>4 DEF PersonRec, States, Destinations
<1>8. u \in PersonRec /\ u.st = dest /\ u.seq = n /\ u.restored = re
  <2> HIDE DEF o, n, re
  <2> QED
    BY <1>4, <1>7 DEF PersonRec
<1>9. t \in PersonRec /\ t.st = dest /\ t.seq = n /\ t.readyAt = ra /\ t.timeoutAt = ta /\ t.restored = re
  <2> HIDE DEF u, n, ra, ta, re
  <2> QED
    BY <1>4, <1>8 DEF PersonRec
<1> HIDE DEF v, re, ra, ta, o, u, t
<1>10. /\ e \in DayRec /\ e.posts = v.posts /\ e.lines = v.lines /\ e.paused = v.paused /\ e.status = v.status
       /\ e.people[p] = t /\ \A x \in Staff : x # p => e.people[x] = v.people[x]
  BY <1>1, <1>3, <1>9, PersonSet
<1>11. Effect(p, s, t, now)
  <2>1. n >= s.seq
    BY <1>2
  <2> HIDE DEF n, s
  <2>2. CASE dest = "rest"
    BY <1>5, <1>6, <1>9, <2>1, <2>2 DEF Effect
  <2>3. CASE dest # "rest"
    BY <1>6, <1>9, <2>1, <2>3 DEF Effect, Gone, Destinations
  <2> QED
    BY <2>2, <2>3
<1>12. Kept(d, e)
  BY <1>1, <1>10, <1>11, OneChanged
<1>13. ASSUME Board(d) PROVE Board(e)
  <2>1. \A q \in Posts : d.posts[q].occ \in Staff \cup {None} /\ None \notin Staff
    BY PostsTyped, DayParts
  <2>2. \A q \in Posts : e.posts[q].occ = (IF d.posts[q].occ = p THEN None ELSE d.posts[q].occ)
                         /\ e.posts[q].open = d.posts[q].open /\ e.lines[q[1]].active = d.lines[q[1]].active
    BY <1>1, <1>10
  <2>3. \A x \in Staff : x # p => e.people[x] = d.people[x]
    BY <1>1, <1>10
  <2>4. e.people[p].st # "onpost"
    BY <1>9, <1>10 DEF Destinations
  <2>5. \A q \in Posts : e.posts[q].occ # None =>
                /\ e.people[e.posts[q].occ].st = d.people[e.posts[q].occ].st
                /\ e.posts[q].open /\ e.lines[q[1]].active
    BY <1>13, <2>1, <2>2, <2>3 DEF Board, Seated
  <2>6. \A x \in Staff : e.people[x].st = "onpost" =>
                /\ d.people[x].st = "onpost"
                /\ \A q \in Posts : d.posts[q].occ = x => e.posts[q].occ = x
    BY <2>2, <2>3, <2>4
  <2>7. \A q \in Posts : e.posts[q].occ \in {d.posts[q].occ, None}
    BY <2>2
  <2> QED
    BY <1>10, <1>13, <2>5, <2>6, <2>7, LeavingBoard
<1> QED
  BY <1>9, <1>10, <1>12, <1>13
\* Posts and lines change, nobody moves, and no occupied post closes.
Still(d, e) ==
    /\ e.people = d.people /\ e.posts \in [Posts -> PostRec] /\ e.lines \in [Lines -> LineRec]
    /\ e = [people |-> e.people, posts |-> e.posts, lines |-> e.lines, paused |-> d.paused, status |-> d.status]
    /\ \A q \in Posts : e.posts[q].occ = d.posts[q].occ /\ (d.posts[q].open => e.posts[q].open)
    /\ \A m \in Lines : d.lines[m].active => e.lines[m].active

LEMMA NobodyMoves ==
    ASSUME NEW d \in DayRec, NEW e, Still(d, e)
    PROVE  Kept(d, e) /\ (Board(d) => Board(e))
<1>1. e \in DayRec /\ e.status = d.status /\ e.paused = d.paused /\ e.people = d.people
  BY DayParts DEF DayRec, Still
<1>2. \A x \in Staff : Effect(x, d.people[x], e.people[x], now)
  BY <1>1, Unchanged, DayParts
<1>3. ASSUME Board(d) PROVE Board(e)
  <2>1. \A q \in Posts : e.posts[q].occ # None =>
                /\ e.people[e.posts[q].occ].st = d.people[e.posts[q].occ].st
                /\ e.posts[q].open /\ e.lines[q[1]].active
    BY <1>1, <1>3, PostsAre DEF Board, Seated, Still
  <2>2. \A q \in Posts : e.posts[q].occ = d.posts[q].occ
    BY DEF Still
  <2> QED
    BY <1>1, <1>3, <2>1, <2>2, LeavingBoard
<1> QED
  BY <1>1, <1>2, <1>3 DEF Kept

\* A day made of its parts, each of which is given.
LEMMA StillMade ==
    ASSUME NEW d \in DayRec, NEW po \in [Posts -> PostRec], NEW li \in [Lines -> LineRec], NEW e,
           e = [people |-> d.people, posts |-> po, lines |-> li, paused |-> d.paused, status |-> d.status],
           \A q \in Posts : po[q].occ = d.posts[q].occ /\ (d.posts[q].open => po[q].open),
           \A m \in Lines : d.lines[m].active => li[m].active
    PROVE  Kept(d, e) /\ (Board(d) => Board(e))
<1>1. e.people = d.people /\ e.posts = po /\ e.lines = li
  OBVIOUS
<1>2. Still(d, e)
  BY <1>1 DEF Still
<1> QED
  BY <1>2, NobodyMoves

WithSort(d, l, at) == [d EXCEPT !.lines[l].sortAt = at]

LEMMA SortTimeKept ==
    ASSUME NEW d \in DayRec, NEW l \in Lines, NEW at \in Nat, NEW e, e = WithSort(d, l, at)
    PROVE  Kept(d, e) /\ (Board(d) => Board(e))
<1> DEFINE f == [d.lines[l] EXCEPT !.sortAt = at]
           li == [d.lines EXCEPT ![l] = f]
<1>1. /\ d.lines \in [Lines -> LineRec] /\ d.posts \in [Posts -> PostRec] /\ d.lines[l] \in LineRec
      /\ d = [people |-> d.people, posts |-> d.posts, lines |-> d.lines, paused |-> d.paused, status |-> d.status]
  BY DayParts
<1>2. e = [d EXCEPT !.lines = li]
  BY DEF WithSort
<1>3. f \in LineRec /\ f.active = d.lines[l].active
  BY <1>1 DEF LineRec
<1> HIDE DEF f
<1>4. li \in [Lines -> LineRec] /\ \A m \in Lines : d.lines[m].active => li[m].active
  BY <1>1, <1>3
<1> HIDE DEF li
<1>5. e = [people |-> d.people, posts |-> d.posts, lines |-> li, paused |-> d.paused, status |-> d.status]
  BY <1>1, <1>2
<1> QED
  BY <1>1, <1>4, <1>5, StillMade

Opened(d, q) == [d EXCEPT !.posts[q].open = TRUE, !.posts[q].shut = FALSE,
                          !.lines[q[1]].active = TRUE, !.lines[q[1]].adding = TRUE]

LEMMA OpenPostKept ==
    ASSUME NEW d \in DayRec, NEW q \in Posts, NEW e, e = Opened(d, q)
    PROVE  Kept(d, e) /\ (Board(d) => Board(e))
<1> DEFINE f == [d.posts[q] EXCEPT !.open = TRUE]
           g == [f EXCEPT !.shut = FALSE]
           h == [d.lines[q[1]] EXCEPT !.active = TRUE]
           k == [h EXCEPT !.adding = TRUE]
           po == [d.posts EXCEPT ![q] = g]
           li == [d.lines EXCEPT ![q[1]] = k]
<1>1. /\ d.lines \in [Lines -> LineRec] /\ d.posts \in [Posts -> PostRec]
      /\ d.posts[q] \in PostRec /\ q[1] \in Lines /\ d.lines[q[1]] \in LineRec
      /\ d = [people |-> d.people, posts |-> d.posts, lines |-> d.lines, paused |-> d.paused, status |-> d.status]
  BY DayParts, PostsAre
<1>2. e = [d EXCEPT !.posts = po, !.lines = li]
  <2>1. [d.posts EXCEPT ![q].open = TRUE, ![q].shut = FALSE] = po
    <3> HIDE DEF f
    <3>1. [d.posts EXCEPT ![q] = f][q] = f
      BY <1>1
    <3>2. [[d.posts EXCEPT ![q] = f] EXCEPT ![q] = g] = po
      BY <1>1
    <3> QED
      BY <3>1, <3>2 DEF f
  <2>2. [d.lines EXCEPT ![q[1]].active = TRUE, ![q[1]].adding = TRUE] = li
    <3> HIDE DEF h
    <3>1. [d.lines EXCEPT ![q[1]] = h][q[1]] = h
      BY <1>1
    <3>2. [[d.lines EXCEPT ![q[1]] = h] EXCEPT ![q[1]] = k] = li
      BY <1>1
    <3> QED
      BY <3>1, <3>2 DEF h
  <2>3. e = [d EXCEPT !.posts = [d.posts EXCEPT ![q].open = TRUE, ![q].shut = FALSE],
                      !.lines = [d.lines EXCEPT ![q[1]].active = TRUE, ![q[1]].adding = TRUE]]
    BY <1>1 DEF Opened
  <2> QED
    BY <2>1, <2>2, <2>3
<1>3. g \in PostRec /\ g.occ = d.posts[q].occ /\ g.open /\ k \in LineRec /\ k.active
  BY <1>1 DEF LineRec, PostRec
<1> HIDE DEF g, k
<1>4. /\ po \in [Posts -> PostRec] /\ \A x \in Posts : po[x].occ = d.posts[x].occ /\ (d.posts[x].open => po[x].open)
      /\ li \in [Lines -> LineRec] /\ \A m \in Lines : d.lines[m].active => li[m].active
  BY <1>1, <1>3
<1> HIDE DEF po, li
<1>5. e = [people |-> d.people, posts |-> po, lines |-> li, paused |-> d.paused, status |-> d.status]
  BY <1>1, <1>2
<1> QED
  BY <1>4, <1>5, StillMade

WithHold(d, q, b) == [d EXCEPT !.posts[q].hold = b]

LEMMA HoldKept ==
    ASSUME NEW d \in DayRec, NEW q \in Posts, NEW b \in BOOLEAN, NEW e, e = WithHold(d, q, b)
    PROVE  Kept(d, e) /\ (Board(d) => Board(e))
<1> DEFINE f == [d.posts[q] EXCEPT !.hold = b]
           po == [d.posts EXCEPT ![q] = f]
<1>1. /\ d.lines \in [Lines -> LineRec] /\ d.posts \in [Posts -> PostRec] /\ d.posts[q] \in PostRec
      /\ d = [people |-> d.people, posts |-> d.posts, lines |-> d.lines, paused |-> d.paused, status |-> d.status]
  BY DayParts
<1>2. e = [d EXCEPT !.posts = po]
  BY DEF WithHold
<1>3. f \in PostRec /\ f.occ = d.posts[q].occ /\ f.open = d.posts[q].open
  BY <1>1 DEF PostRec
<1> HIDE DEF f
<1>4. po \in [Posts -> PostRec] /\ \A x \in Posts : po[x].occ = d.posts[x].occ /\ (d.posts[x].open => po[x].open)
  BY <1>1, <1>3
<1> HIDE DEF po
<1>5. e = [people |-> d.people, posts |-> po, lines |-> d.lines, paused |-> d.paused, status |-> d.status]
  BY <1>1, <1>2
<1> QED
  BY <1>1, <1>4, <1>5, StillMade

WithLineOn(d, l) ==
    LET opened(x) == [x EXCEPT !.open = @ \/ x.resume \/ ~x.shut, !.shut = @ /\ ~x.resume, !.resume = FALSE]
    IN  [d EXCEPT !.lines[l].active = TRUE,
                  !.posts = [q \in Posts |-> IF q[1] = l THEN opened(@[q]) ELSE @[q]]]

LEMMA LineOnKept ==
    ASSUME NEW d \in DayRec, NEW l \in Lines, NEW e, e = WithLineOn(d, l)
    PROVE  Kept(d, e) /\ (Board(d) => Board(e))
<1> DEFINE opened(x) == [x EXCEPT !.open = @ \/ x.resume \/ ~x.shut, !.shut = @ /\ ~x.resume, !.resume = FALSE]
           F(q) == IF q[1] = l THEN opened(d.posts[q]) ELSE d.posts[q]
           po == [q \in Posts |-> F(q)]
           g == [d.lines[l] EXCEPT !.active = TRUE]
           li == [d.lines EXCEPT ![l] = g]
<1>1. /\ d.lines \in [Lines -> LineRec] /\ d.posts \in [Posts -> PostRec] /\ d.lines[l] \in LineRec
      /\ \A q \in Posts : d.posts[q] \in PostRec
      /\ d = [people |-> d.people, posts |-> d.posts, lines |-> d.lines, paused |-> d.paused, status |-> d.status]
  BY DayParts
<1>2. \A x \in PostRec : opened(x) \in PostRec /\ opened(x).occ = x.occ /\ (x.open => opened(x).open)
  <2> SUFFICES ASSUME NEW x \in PostRec PROVE opened(x) \in PostRec /\ opened(x).occ = x.occ /\ (x.open => opened(x).open)
    OBVIOUS
  <2> DEFINE b == x.open \/ x.resume \/ ~x.shut
             c == x.shut /\ ~x.resume
  <2>1. opened(x) = [x EXCEPT !.open = b, !.shut = c, !.resume = FALSE]
    BY DEF PostRec
  <2>2. b \in BOOLEAN /\ c \in BOOLEAN /\ (x.open => b)
    OBVIOUS
  <2> HIDE DEF b, c, opened
  <2> QED
    BY <2>1, <2>2 DEF PostRec
<1> HIDE DEF opened
<1>3. e = [d EXCEPT !.lines = li, !.posts = po]
  <2>1. e = [d EXCEPT !.lines[l].active = TRUE,
                      !.posts = [q \in Posts |-> IF q[1] = l THEN opened(@[q]) ELSE @[q]]]
    BY DEF opened, WithLineOn
  <2> HIDE DEF g
  <2>2. [d EXCEPT !.lines[l].active = TRUE] = [d EXCEPT !.lines = li]
    BY DEF g
  <2> HIDE DEF li
  <2>3. [d EXCEPT !.lines = li].posts = d.posts
    BY <1>1
  <2> QED
    BY <2>1, <2>2, <2>3
<1>5. g \in LineRec /\ g.active
  BY <1>1 DEF LineRec
<1>6. \A q \in Posts : F(q) \in PostRec /\ F(q).occ = d.posts[q].occ /\ (d.posts[q].open => F(q).open)
  BY <1>1, <1>2
<1> HIDE DEF g, F
<1>7. /\ po \in [Posts -> PostRec] /\ \A x \in Posts : po[x].occ = d.posts[x].occ /\ (d.posts[x].open => po[x].open)
      /\ li \in [Lines -> LineRec] /\ \A m \in Lines : d.lines[m].active => li[m].active
  BY <1>1, <1>5, <1>6
<1> HIDE DEF po, li
<1>8. e = [people |-> d.people, posts |-> po, lines |-> li, paused |-> d.paused, status |-> d.status]
  BY <1>1, <1>3
<1> QED
  BY <1>7, <1>8, StillMade

LEMMA ResumableIs ==
    ASSUME NEW d \in DayRec, NEW ls, NEW e, e = Resumable(d, ls)
    PROVE  /\ Kept(d, e) /\ (Board(d) => Board(e)) /\ e.people = d.people
<1> DEFINE F(q) == IF q[1] \in ls THEN [d.posts[q] EXCEPT !.resume = d.posts[q].open] ELSE d.posts[q]
           po == [q \in Posts |-> F(q)]
<1>1. /\ d.lines \in [Lines -> LineRec] /\ \A q \in Posts : d.posts[q] \in PostRec
      /\ d = [people |-> d.people, posts |-> d.posts, lines |-> d.lines, paused |-> d.paused, status |-> d.status]
  BY DayParts
<1>2. e = [d EXCEPT !.posts = po]
  BY DEF Resumable
<1>3. \A q \in Posts : F(q) \in PostRec /\ F(q).occ = d.posts[q].occ /\ F(q).open = d.posts[q].open
  BY <1>1 DEF PostRec
<1> HIDE DEF F
<1>4. po \in [Posts -> PostRec] /\ \A x \in Posts : po[x].occ = d.posts[x].occ /\ (d.posts[x].open => po[x].open)
  BY <1>3
<1> HIDE DEF po
<1>5. e = [people |-> d.people, posts |-> po, lines |-> d.lines, paused |-> d.paused, status |-> d.status]
  BY <1>1, <1>2
<1> QED
  BY <1>1, <1>4, <1>5, StillMade
LEMMA ClosedIs ==
    ASSUME NEW d \in DayRec, NEW ps \in SUBSET Posts, now \in Nat, NEW e, e = Closed(d, ps)
    PROVE  /\ Kept(d, e) /\ (Board(d) => Board(e))
           /\ \A q \in ps : e.posts[q].occ = None
<1> DEFINE off == {d.posts[q].occ : q \in ps}
           P(x) == IF x \in off /\ d.people[x].st = "onpost"
                   THEN [d.people[x] EXCEPT !.st = "pending", !.readyAt = 0, !.timeoutAt = 0] ELSE d.people[x]
           F(q) == IF q \in ps THEN [d.posts[q] EXCEPT !.open = FALSE, !.occ = None, !.shut = TRUE] ELSE d.posts[q]
           L(l) == IF \E q \in ps : q[1] = l THEN [d.lines[l] EXCEPT !.sortAt = now] ELSE d.lines[l]
           pe == [x \in Staff |-> P(x)]
           po == [q \in Posts |-> F(q)]
           li == [l \in Lines |-> L(l)]
<1>1. /\ \A l \in Lines : d.lines[l] \in LineRec
      /\ \A q \in Posts : d.posts[q] \in PostRec /\ d.posts[q].occ \in Staff \cup {None}
      /\ \A x \in Staff : d.people[x] \in PersonRec
      /\ None \notin Staff
      /\ d = [people |-> d.people, posts |-> d.posts, lines |-> d.lines, paused |-> d.paused, status |-> d.status]
  BY DayParts, PostsTyped
<1>2. e = [d EXCEPT !.people = pe, !.posts = po, !.lines = li]
  BY DEF Closed
<1>3. \A x \in Staff : /\ P(x) \in PersonRec /\ Effect(x, d.people[x], P(x), now)
                       /\ P(x).st = "onpost" => d.people[x].st = "onpost" /\ x \notin off
                       /\ x \notin off => P(x) = d.people[x]
  <2> SUFFICES ASSUME NEW x \in Staff
               PROVE  /\ P(x) \in PersonRec /\ Effect(x, d.people[x], P(x), now)
                      /\ P(x).st = "onpost" => d.people[x].st = "onpost" /\ x \notin off
                      /\ x \notin off => P(x) = d.people[x]
    OBVIOUS
  <2> DEFINE s == d.people[x]
             t == [s EXCEPT !.st = "pending", !.readyAt = 0, !.timeoutAt = 0]
  <2>1. s \in PersonRec /\ s.seq \in Nat
    BY <1>1 DEF PersonRec
  <2>2. t \in PersonRec /\ t.st = "pending" /\ t.restored = s.restored /\ t.seq = s.seq
    <3> HIDE DEF s
    <3> QED
      BY <2>1 DEF PersonRec, States
  <2>3. Effect(x, s, s, now)
    BY <2>1, Unchanged
  <2>4. P(x) = IF x \in off /\ s.st = "onpost" THEN t ELSE s
    OBVIOUS
  <2> HIDE DEF s, t, off, P
  <2>5. Effect(x, s, t, now)
    BY <2>1, <2>2 DEF Effect, Gone
  <2>6. P(x) \in PersonRec /\ Effect(x, s, P(x), now)
        /\ (P(x).st = "onpost" => s.st = "onpost" /\ x \notin off) /\ (x \notin off => P(x) = s)
    BY <2>1, <2>2, <2>3, <2>4, <2>5
  <2> QED
    BY <2>6 DEF s
<1>4. \A q \in Posts : /\ F(q) \in PostRec /\ F(q).occ = IF q \in ps THEN None ELSE d.posts[q].occ
                       /\ q \notin ps => F(q).open = d.posts[q].open
  BY <1>1 DEF PostRec
<1>5. \A l \in Lines : L(l) \in LineRec /\ L(l).active = d.lines[l].active
  BY <1>1 DEF LineRec
<1> HIDE DEF P, F, L
<1>6. /\ pe \in [Staff -> PersonRec] /\ po \in [Posts -> PostRec] /\ li \in [Lines -> LineRec]
      /\ \A x \in Staff : pe[x] = P(x)
      /\ \A q \in Posts : po[q] = F(q)
      /\ \A l \in Lines : li[l] = L(l)
  BY <1>3, <1>4, <1>5
<1> HIDE DEF pe, po, li
<1>7. e \in DayRec /\ e.people = pe /\ e.posts = po /\ e.lines = li /\ e.paused = d.paused /\ e.status = d.status
  BY <1>2, <1>6 DEF DayRec
<1>8. Kept(d, e)
  BY <1>3, <1>6, <1>7 DEF Kept
<1>9. ASSUME Board(d) PROVE Board(e)
  <2>1. \A q \in Posts : e.posts[q].occ = (IF q \in ps THEN None ELSE d.posts[q].occ)
                         /\ (q \notin ps => e.posts[q].open = d.posts[q].open)
                         /\ e.lines[q[1]].active = d.lines[q[1]].active
    BY <1>4, <1>5, <1>6, <1>7, PostsAre
  <2>2. \A q \in Posts : q \notin ps /\ d.posts[q].occ # None => d.posts[q].occ \notin off
    BY <1>9 DEF Board, Apart
  <2>3. \A x \in Staff : /\ e.people[x].st = "onpost" => d.people[x].st = "onpost" /\ x \notin off
                         /\ x \notin off => e.people[x] = d.people[x]
    BY <1>3, <1>6, <1>7
  <2>4. \A q \in Posts : e.posts[q].occ # None =>
                /\ e.people[e.posts[q].occ].st = d.people[e.posts[q].occ].st
                /\ e.posts[q].open /\ e.lines[q[1]].active
    <3> HIDE DEF off
    <3> QED
      BY <1>1, <1>9, <2>1, <2>2, <2>3 DEF Board, Seated
  <2>5. \A x \in Staff : e.people[x].st = "onpost" =>
                /\ d.people[x].st = "onpost"
                /\ \A q \in Posts : d.posts[q].occ = x => e.posts[q].occ = x
    BY <2>1, <2>3
  <2>6. \A q \in Posts : e.posts[q].occ \in {d.posts[q].occ, None}
    BY <2>1
  <2> QED
    BY <1>7, <1>9, <2>4, <2>5, <2>6, LeavingBoard
<1>10. \A q \in ps : e.posts[q].occ = None
  BY <1>4, <1>6, <1>7
<1> QED
  BY <1>8, <1>9, <1>10

\* A line that is off, without anyone on its posts.
LEMMA LinesOffBoard ==
    ASSUME NEW d \in DayRec, NEW li \in [Lines -> LineRec], NEW e, e = [d EXCEPT !.lines = li],
           \A q \in Posts : d.posts[q].occ # None /\ d.lines[q[1]].active => li[q[1]].active
    PROVE  Kept(d, e) /\ (Board(d) => Board(e)) /\ e.people = d.people
<1>1. e \in DayRec /\ e.people = d.people /\ e.posts = d.posts /\ e.lines = li /\ e.paused = d.paused /\ e.status = d.status
  BY DEF DayRec
<1>2. \A x \in Staff : Effect(x, d.people[x], e.people[x], now)
  BY <1>1, Unchanged, DayParts
<1>3. Board(d) => Board(e)
  BY <1>1, PostsAre DEF Board, Apart, Seated, Posted, Planned
<1> QED
  BY <1>1, <1>2, <1>3 DEF Kept

\* What was kept to a day whose people were the same was kept.
LEMMA KeptFrom ==
    ASSUME NEW d, NEW c, NEW e, Kept(d, c), Kept(c, e), c.people = d.people \/ e.people = c.people
    PROVE  Kept(d, e)
  BY DEF Kept

WithLineOff(d, l) == [Closed(Resumable(d, {l}), {q \in Posts : q[1] = l}) EXCEPT !.lines[l].active = FALSE]

LEMMA LineOffKept ==
    ASSUME NEW d \in DayRec, NEW l \in Lines, now \in Nat, NEW e, e = WithLineOff(d, l)
    PROVE  Kept(d, e) /\ (Board(d) => Board(e))
<1> DEFINE ps == {q \in Posts : q[1] = l}
           r == Resumable(d, {l})
           c == Closed(r, ps)
           f == [c.lines[l] EXCEPT !.active = FALSE]
           li == [c.lines EXCEPT ![l] = f]
<1>1. Kept(d, r) /\ (Board(d) => Board(r)) /\ r.people = d.people
  BY ResumableIs
<1>2. r \in DayRec
  BY <1>1 DEF Kept
<1> HIDE DEF r
<1>3. Kept(r, c) /\ (Board(r) => Board(c)) /\ \A q \in ps : c.posts[q].occ = None
  BY <1>2, ClosedIs
<1>4. e = [c EXCEPT !.lines = li]
  BY DEF r, WithLineOff
<1> HIDE DEF c
<1>5. c \in DayRec /\ c.lines \in [Lines -> LineRec] /\ c.lines[l] \in LineRec
  BY <1>3, DayParts DEF Kept
<1>6. f \in LineRec
  BY <1>5 DEF LineRec
<1> HIDE DEF f
<1>7. li \in [Lines -> LineRec] /\ \A m \in Lines : m # l => li[m] = c.lines[m]
  BY <1>5, <1>6
<1> HIDE DEF li
<1>8. \A q \in Posts : c.posts[q].occ # None /\ c.lines[q[1]].active => li[q[1]].active
  BY <1>3, <1>7, PostsAre
<1>9. Kept(c, e) /\ (Board(c) => Board(e)) /\ e.people = c.people
  BY <1>4, <1>5, <1>7, <1>8, LinesOffBoard
<1>10. Kept(d, c)
  BY <1>1, <1>3, KeptFrom
<1>11. Kept(d, e)
  BY <1>9, <1>10, KeptFrom
<1> QED
  BY <1>1, <1>3, <1>9, <1>11

AllClosed(d) ==
    [Closed([Resumable(d, Lines) EXCEPT !.posts = [q \in Posts |-> [@[q] EXCEPT !.hold = FALSE]]], Posts)
     EXCEPT !.lines = [l \in Lines |-> [@[l] EXCEPT !.active = FALSE, !.adding = FALSE]]]

LEMMA AllCloseKept ==
    ASSUME NEW d \in DayRec, now \in Nat, NEW e, e = AllClosed(d)
    PROVE  Kept(d, e) /\ (Board(d) => Board(e))
<1> DEFINE r == Resumable(d, Lines)
           po == [q \in Posts |-> [r.posts[q] EXCEPT !.hold = FALSE]]
           h == [r EXCEPT !.posts = po]
           c == Closed(h, Posts)
           li == [l \in Lines |-> [c.lines[l] EXCEPT !.active = FALSE, !.adding = FALSE]]
<1>1. Kept(d, r) /\ (Board(d) => Board(r)) /\ r.people = d.people
  BY ResumableIs
<1>2. r \in DayRec
  BY <1>1 DEF Kept
<1> HIDE DEF r
<1>3. Kept(r, h) /\ (Board(r) => Board(h)) /\ h.people = r.people
  <2>1. /\ \A q \in Posts : r.posts[q] \in PostRec
        /\ r = [people |-> r.people, posts |-> r.posts, lines |-> r.lines, paused |-> r.paused, status |-> r.status]
        /\ r.lines \in [Lines -> LineRec]
    BY <1>2, DayParts
  <2>2. \A q \in Posts : LET f == [r.posts[q] EXCEPT !.hold = FALSE]
                         IN  f \in PostRec /\ f.occ = r.posts[q].occ /\ f.open = r.posts[q].open
    BY <2>1 DEF PostRec
  <2>3. po \in [Posts -> PostRec] /\ \A x \in Posts : po[x].occ = r.posts[x].occ /\ (r.posts[x].open => po[x].open)
    BY <2>2
  <2> HIDE DEF po
  <2>a. r = [people |-> r.people, posts |-> r.posts, lines |-> r.lines, paused |-> r.paused, status |-> r.status]
    BY <2>1
  <2>4. h = [people |-> r.people, posts |-> po, lines |-> r.lines, paused |-> r.paused, status |-> r.status]
    BY <2>a
  <2> QED
    BY <1>2, <2>1, <2>3, <2>4, StillMade
<1>4. h \in DayRec
  BY <1>3 DEF Kept
<1> HIDE DEF h
<1>5. Kept(h, c) /\ (Board(h) => Board(c)) /\ \A q \in Posts : c.posts[q].occ = None
  BY <1>4, ClosedIs
<1>6. e = [c EXCEPT !.lines = li]
  BY DEF r, h, AllClosed
<1> HIDE DEF c
<1>7. c \in DayRec /\ \A l \in Lines : c.lines[l] \in LineRec
  BY <1>5, DayParts DEF Kept
<1>8. \A l \in Lines : [c.lines[l] EXCEPT !.active = FALSE, !.adding = FALSE] \in LineRec
  BY <1>7 DEF LineRec
<1>9. li \in [Lines -> LineRec]
  BY <1>8
<1> HIDE DEF li
<1>10. Kept(c, e) /\ (Board(c) => Board(e)) /\ e.people = c.people
  BY <1>5, <1>6, <1>7, <1>9, LinesOffBoard
<1>11. Kept(d, h)
  BY <1>1, <1>3, KeptFrom
<1>12. Kept(d, c)
  BY <1>1, <1>3, <1>5, <1>11, KeptFrom
<1> QED
  BY <1>1, <1>3, <1>5, <1>10, <1>12, KeptFrom

\* A request of someone on duty, and of someone who is not.
WithExit(d, p, x) == [d EXCEPT !.people[p].exit = x]
Sickened(d, p) == [Vacate(d, {p}) EXCEPT !.people[p] = [@ EXCEPT !.st = "sick", !.readyAt = 0, !.timeoutAt = 0]]

LEMMA ExitKept ==
    ASSUME NEW d \in DayRec, NEW p \in Staff, NEW x \in {"out", "sick"}, NEW e, e = WithExit(d, p, x)
    PROVE  Kept(d, e) /\ (Board(d) => Board(e))
<1> DEFINE s == d.people[p]
           t == [s EXCEPT !.exit = x]
<1>1. s \in PersonRec /\ s.seq \in Nat
  BY DayParts DEF PersonRec
<1>2. e = WithPerson(d, p, t)
  BY DEF WithPerson, WithExit
<1>3. t \in PersonRec /\ t.st = s.st /\ t.readyAt = s.readyAt /\ t.timeoutAt = s.timeoutAt /\ t.restored = s.restored /\ t.seq = s.seq
  <2> HIDE DEF s
  <2> QED
    BY <1>1 DEF PersonRec
<1>4. Effect(p, s, t, now)
  BY <1>1, <1>3 DEF Effect, Alike
<1> HIDE DEF t
<1>5. /\ e \in DayRec /\ e.posts = d.posts /\ e.lines = d.lines /\ e.paused = d.paused /\ e.status = d.status
      /\ e.people[p] = t /\ \A y \in Staff : y # p => e.people[y] = d.people[y]
  BY <1>2, <1>3, PersonSet
<1>6. Kept(d, e)
  BY <1>4, <1>5, OneChanged
<1>7. \A y \in Staff : e.people[y].st = d.people[y].st
  BY <1>3, <1>5
<1>8. \A q \in Posts : d.posts[q].occ \in Staff \cup {None} /\ None \notin Staff
  BY PostsTyped, DayParts
<1>9. Board(d) => Board(e)
  BY <1>5, <1>7, <1>8 DEF Board, Apart, Seated, Posted, Planned
<1> QED
  BY <1>6, <1>9

LEMMA SickKept ==
    ASSUME NEW d \in DayRec, NEW p \in Staff, NEW e, e = Sickened(d, p)
    PROVE  Kept(d, e) /\ (Board(d) => Board(e))
<1> DEFINE v == Vacate(d, {p})
           s == d.people[p]
           t == [s EXCEPT !.st = "sick", !.readyAt = 0, !.timeoutAt = 0]
<1>1. /\ v \in DayRec /\ v.people = d.people /\ v.lines = d.lines /\ v.paused = d.paused /\ v.status = d.status
      /\ \A q \in Posts : /\ v.posts[q].occ = IF d.posts[q].occ \in {p} THEN None ELSE d.posts[q].occ
                          /\ v.posts[q].open = d.posts[q].open
  BY VacateIs
<1>2. s \in PersonRec /\ s.seq \in Nat
  BY DayParts DEF PersonRec
<1>3. e = WithPerson(v, p, t)
  BY <1>1 DEF WithPerson, Sickened
<1>4. t \in PersonRec /\ t.st = "sick" /\ t.restored = s.restored /\ t.seq = s.seq
  <2> HIDE DEF s
  <2> QED
    BY <1>2 DEF PersonRec, States
<1>5. Effect(p, s, t, now)
  BY <1>2, <1>4 DEF Effect, Gone
<1> HIDE DEF v, t
<1>6. /\ e \in DayRec /\ e.posts = v.posts /\ e.lines = v.lines /\ e.paused = v.paused /\ e.status = v.status
      /\ e.people[p] = t /\ \A x \in Staff : x # p => e.people[x] = v.people[x]
  BY <1>1, <1>3, <1>4, PersonSet
<1>7. Kept(d, e)
  BY <1>1, <1>5, <1>6, OneChanged
<1>8. ASSUME Board(d) PROVE Board(e)
  <2>1. \A q \in Posts : d.posts[q].occ \in Staff \cup {None} /\ None \notin Staff
    BY PostsTyped, DayParts
  <2>2. \A q \in Posts : e.posts[q].occ = (IF d.posts[q].occ = p THEN None ELSE d.posts[q].occ)
                         /\ e.posts[q].open = d.posts[q].open /\ e.lines[q[1]].active = d.lines[q[1]].active
    BY <1>1, <1>6
  <2>3. \A x \in Staff : x # p => e.people[x] = d.people[x]
    BY <1>1, <1>6
  <2>4. e.people[p].st # "onpost"
    BY <1>4, <1>6
  <2>5. \A q \in Posts : e.posts[q].occ # None =>
                /\ e.people[e.posts[q].occ].st = d.people[e.posts[q].occ].st
                /\ e.posts[q].open /\ e.lines[q[1]].active
    BY <1>8, <2>1, <2>2, <2>3 DEF Board, Seated
  <2>6. \A x \in Staff : e.people[x].st = "onpost" =>
                /\ d.people[x].st = "onpost"
                /\ \A q \in Posts : d.posts[q].occ = x => e.posts[q].occ = x
    BY <2>2, <2>3, <2>4
  <2>7. \A q \in Posts : e.posts[q].occ \in {d.posts[q].occ, None}
    BY <2>2
  <2> QED
    BY <1>6, <1>8, <2>5, <2>6, <2>7, LeavingBoard
<1> QED
  BY <1>7, <1>8
-----------------------------------------------------------------------------
(* The tick. *)

\* Shifts that are to begin are after minute at.
Future(d, at) == \A p \in Staff : d.people[p].st = "notyet" => at < Start[p]

LEMMA PeopleSet ==
    ASSUME NEW d \in DayRec, NEW pe \in [Staff -> PersonRec], NEW e, e = [d EXCEPT !.people = pe]
    PROVE  /\ e \in DayRec /\ e.people = pe /\ e.posts = d.posts /\ e.lines = d.lines
           /\ e.paused = d.paused /\ e.status = d.status
  BY DEF DayRec

\* People change who are on no post, and nobody comes on duty.
LEMMA PeopleBoard ==
    ASSUME NEW d \in DayRec, NEW e \in DayRec, e.posts = d.posts, e.lines = d.lines,
           \A x \in Staff : d.people[x].st \in {"onpost", "notyet"} => e.people[x].st = d.people[x].st,
           \A x \in Staff : e.people[x].st = "onpost" => d.people[x].st = "onpost",
           Board(d)
    PROVE  Board(e)
<1>1. \A q \in Posts : d.posts[q].occ \in Staff \cup {None} /\ None \notin Staff
  BY PostsTyped, DayParts
<1>2. \A q \in Posts : e.posts[q].occ # None =>
           /\ e.people[e.posts[q].occ].st = d.people[e.posts[q].occ].st
           /\ e.posts[q].open /\ e.lines[q[1]].active
  BY <1>1 DEF Board, Seated
<1> QED
  BY <1>2, LeavingBoard

LEMMA ShiftStartIs ==
    ASSUME NEW d \in DayRec, NEW p \in Staff, NEW at \in Nat, NEW t, t = ShiftStart(d, p, at)
    PROVE  /\ t \in PersonRec /\ t.seq = d.people[p].seq /\ t.restored = d.people[p].restored
           /\ t.st \in {"onpost", "pending", "rest", "ready"}
           /\ t.st = "onpost" <=> SeatFree(d, p)
           /\ t.st \in {"rest", "ready"} => /\ t.timeoutAt = t.readyAt + Grace
                                            /\ t.readyAt \in {Start[p] + Break, at}
<1> DEFINE s == d.people[p]
           b == p \in Seven
           k == IF at >= Start[p] + Break THEN "ready" ELSE "rest"
           u == Start[p] + Break
           v == u + Grace
           w == at + Grace
           o == [s EXCEPT !.st = "onpost", !.seven = b]
           f == [s EXCEPT !.st = k, !.readyAt = u, !.timeoutAt = v]
           g == [s EXCEPT !.st = "ready", !.readyAt = at, !.timeoutAt = w]
           h == [s EXCEPT !.st = "pending"]
<1>1. s \in PersonRec
  BY DayParts
<1>2. t = IF SeatFree(d, p) THEN o
          ELSE IF p \in EarlyCrew /\ Seat[p] = None /\ ReliefOf[p] = None THEN f
          ELSE IF ReliefOf[p] # None THEN g ELSE h
  BY DEF ShiftStart
<1>3. b \in BOOLEAN /\ k \in {"ready", "rest"} /\ u \in Nat /\ v \in Nat /\ w \in Nat
  BY SettingsTyped
<1> HIDE DEF s, b, k, u, v, w
<1>4. /\ o \in PersonRec /\ o.seq = s.seq /\ o.restored = s.restored /\ o.st = "onpost"
      /\ h \in PersonRec /\ h.seq = s.seq /\ h.restored = s.restored /\ h.st = "pending"
  BY <1>1, <1>3 DEF PersonRec, States
<1>5. f \in PersonRec /\ f.seq = s.seq /\ f.restored = s.restored /\ f.st = k /\ f.readyAt = u /\ f.timeoutAt = v
  BY <1>1, <1>3 DEF PersonRec, States
<1>6. g \in PersonRec /\ g.seq = s.seq /\ g.restored = s.restored /\ g.st = "ready" /\ g.readyAt = at /\ g.timeoutAt = w
  BY <1>1, <1>3 DEF PersonRec, States
<1> HIDE DEF o, f, g, h
<1>7. /\ t \in PersonRec /\ t.seq = s.seq /\ t.restored = s.restored
      /\ t.st \in {"onpost", "pending", "rest", "ready"}
      /\ t.st = "onpost" <=> SeatFree(d, p)
  BY <1>2, <1>3, <1>4, <1>5, <1>6
<1>8. t.st \in {"rest", "ready"} => /\ t.timeoutAt = t.readyAt + Grace
                                     /\ t.readyAt \in {u, at}
  BY <1>2, <1>3, <1>4, <1>5, <1>6 DEF v, w
<1> QED
  BY <1>7, <1>8 DEF s, u

LEMMA StartedIs ==
    ASSUME NEW d \in DayRec, NEW at \in Nat, NEW e, e = Started(d, at)
    PROVE  /\ e \in DayRec /\ e.paused = d.paused /\ e.status = d.status
           /\ \A x \in Staff : IF d.people[x].st = "notyet" /\ at >= Start[x]
                               THEN e.people[x] = ShiftStart(d, x, at) ELSE e.people[x] = d.people[x]
           /\ Future(e, at)
           /\ Board(d) => Board(e)
<1> DEFINE due == {p \in Staff : d.people[p].st = "notyet" /\ at >= Start[p]}
           seated == {p \in due : SeatFree(d, p)}
           heads == {p \in seated : OpenLine(d, Seat[p][1]) /\ HeadOf(Indexes(d, Seat[p][1])) = Seat[p]}
           P(x) == IF x \in due THEN ShiftStart(d, x, at) ELSE d.people[x]
           F(q) == IF \E p \in seated : Seat[p] = q
                   THEN [d.posts[q] EXCEPT !.occ = CHOOSE p \in seated : Seat[p] = q] ELSE d.posts[q]
           L(l) == IF \E p \in heads : Seat[p][1] = l
                   THEN [d.lines[l] EXCEPT !.sortAt = Start[CHOOSE p \in heads : Seat[p][1] = l]] ELSE d.lines[l]
           pe == [x \in Staff |-> P(x)]
           po == [q \in Posts |-> F(q)]
           li == [l \in Lines |-> L(l)]
<1>1. /\ \A l \in Lines : d.lines[l] \in LineRec
      /\ \A q \in Posts : d.posts[q] \in PostRec /\ d.posts[q].occ \in Staff \cup {None}
      /\ \A x \in Staff : d.people[x] \in PersonRec
      /\ None \notin Staff
  BY DayParts, PostsTyped
<1>2. e = [d EXCEPT !.people = pe, !.posts = po, !.lines = li]
  BY DEF Started
<1>3. \A x \in Staff : P(x) \in PersonRec
  BY <1>1, ShiftStartIs
<1>4. \A q \in Posts : /\ F(q) \in PostRec /\ F(q).open = d.posts[q].open
                       /\ F(q).occ = IF \E p \in seated : Seat[p] = q THEN CHOOSE p \in seated : Seat[p] = q
                                     ELSE d.posts[q].occ
  <2> SUFFICES ASSUME NEW q \in Posts
               PROVE  /\ F(q) \in PostRec /\ F(q).open = d.posts[q].open
                      /\ F(q).occ = IF \E p \in seated : Seat[p] = q THEN CHOOSE p \in seated : Seat[p] = q
                                    ELSE d.posts[q].occ
    OBVIOUS
  <2> DEFINE c == CHOOSE p \in seated : Seat[p] = q
             y == \E p \in seated : Seat[p] = q
  <2>1. y => c \in Staff
    OBVIOUS
  <2>2. F(q) = IF y THEN [d.posts[q] EXCEPT !.occ = c] ELSE d.posts[q]
    OBVIOUS
  <2>3. d.posts[q] \in PostRec
    BY <1>1
  <2> HIDE DEF c, y, F
  <2>4. F(q) \in PostRec /\ F(q).open = d.posts[q].open /\ F(q).occ = IF y THEN c ELSE d.posts[q].occ
    BY <2>1, <2>2, <2>3 DEF PostRec
  <2> QED
    BY <2>4 DEF c, y
<1>5. \A l \in Lines : L(l) \in LineRec /\ L(l).active = d.lines[l].active
  <2> SUFFICES ASSUME NEW l \in Lines PROVE L(l) \in LineRec /\ L(l).active = d.lines[l].active
    OBVIOUS
  <2> DEFINE c == Start[CHOOSE p \in heads : Seat[p][1] = l]
             y == \E p \in heads : Seat[p][1] = l
  <2>1. y => c \in Nat
    <3>1. y => (CHOOSE p \in heads : Seat[p][1] = l) \in Staff
      OBVIOUS
    <3> QED
      BY <3>1, SettingsTyped
  <2>2. L(l) = IF y THEN [d.lines[l] EXCEPT !.sortAt = c] ELSE d.lines[l]
    OBVIOUS
  <2>3. d.lines[l] \in LineRec
    BY <1>1
  <2> HIDE DEF c, y, L
  <2> QED
    BY <2>1, <2>2, <2>3 DEF LineRec
<1> HIDE DEF P, F, L
<1>6. /\ pe \in [Staff -> PersonRec] /\ po \in [Posts -> PostRec] /\ li \in [Lines -> LineRec]
      /\ \A x \in Staff : pe[x] = P(x)
      /\ \A q \in Posts : po[q] = F(q)
      /\ \A l \in Lines : li[l] = L(l)
  BY <1>3, <1>4, <1>5
<1> HIDE DEF pe, po, li
<1>7. e \in DayRec /\ e.people = pe /\ e.posts = po /\ e.lines = li /\ e.paused = d.paused /\ e.status = d.status
  BY <1>2, <1>6 DEF DayRec
<1>8. \A x \in Staff : IF d.people[x].st = "notyet" /\ at >= Start[x]
                       THEN e.people[x] = ShiftStart(d, x, at) ELSE e.people[x] = d.people[x]
  BY <1>6, <1>7 DEF P
<1>9. Future(e, at)
  <2> SUFFICES ASSUME NEW x \in Staff, e.people[x].st = "notyet" PROVE at < Start[x]
    BY DEF Future
  <2>1. ~(d.people[x].st = "notyet" /\ at >= Start[x])
    <3> SUFFICES ASSUME d.people[x].st = "notyet" /\ at >= Start[x] PROVE FALSE
      OBVIOUS
    <3>1. e.people[x] = ShiftStart(d, x, at)
      BY <1>8
    <3> QED
      BY <3>1, ShiftStartIs
  <2> QED
    BY <1>8, <2>1, SettingsTyped
<1>10. ASSUME Board(d) PROVE Board(e)
  <2>1. \A x \in Staff : x \in due => /\ d.people[x].st = "notyet" /\ e.people[x].st # "notyet"
                                      /\ e.people[x].st = "onpost" <=> x \in seated
    <3> SUFFICES ASSUME NEW x \in due
                 PROVE  e.people[x].st # "notyet" /\ (e.people[x].st = "onpost" <=> x \in seated)
      OBVIOUS
    <3>1. e.people[x] = ShiftStart(d, x, at)
      BY <1>8
    <3>2. e.people[x].st \in {"onpost", "pending", "rest", "ready"} /\ (e.people[x].st = "onpost" <=> SeatFree(d, x))
      BY <3>1, ShiftStartIs
    <3> QED
      BY <3>2
  <2>2. \A x \in Staff : x \notin due => e.people[x] = d.people[x]
    BY <1>8
  <2>3. \A x \in seated : /\ x \in due /\ x \in Staff /\ Seat[x] \in Posts /\ Seat[x] # None
                          /\ d.lines[Seat[x][1]].active /\ d.posts[Seat[x]].open
                          /\ d.posts[Seat[x]].occ \in {None, x}
    BY PlanAssumption DEF SeatFree
  <2>4. \A x, y \in seated : Seat[x] = Seat[y] => x = y
    BY <2>3, PlanAssumption, <1>1
  <2>5. \A q \in Posts : e.posts[q].open = d.posts[q].open /\ e.lines[q[1]].active = d.lines[q[1]].active
    BY <1>4, <1>5, <1>6, <1>7, PostsAre
  <2>6. \A x \in seated : e.posts[Seat[x]].occ = x
    <3> SUFFICES ASSUME NEW x \in seated PROVE e.posts[Seat[x]].occ = x
      OBVIOUS
    <3>1. Seat[x] \in Posts /\ \E p \in seated : Seat[p] = Seat[x]
      BY <2>3
    <3>2. (CHOOSE p \in seated : Seat[p] = Seat[x]) = x
      BY <2>4
    <3>3. e.posts[Seat[x]].occ = (CHOOSE p \in seated : Seat[p] = Seat[x])
      <4> HIDE DEF seated
      <4> QED
        BY <1>4, <1>6, <1>7, <3>1
    <3> QED
      BY <3>2, <3>3
  <2>7. \A q \in Posts : (\A x \in seated : Seat[x] # q) => e.posts[q].occ = d.posts[q].occ
    <3> HIDE DEF seated
    <3> QED
      BY <1>4, <1>6, <1>7
  <2>8. \A q \in Posts, x \in due : d.posts[q].occ = x => x \in seated /\ q = Seat[x]
    <3> SUFFICES ASSUME NEW q \in Posts, NEW x \in due, d.posts[q].occ = x PROVE x \in seated /\ q = Seat[x]
      OBVIOUS
    <3>1. Seat[x] = q /\ d.posts[q].open /\ d.lines[q[1]].active
      BY <1>1, <1>10 DEF Board, Planned, Seated
    <3>2. SeatFree(d, x)
      BY <1>1, <3>1, PlanAssumption DEF SeatFree
    <3> QED
      BY <3>1, <3>2
  <2> HIDE DEF due, seated
  <2>9. \A q \in Posts : \/ \E x \in seated : Seat[x] = q /\ e.posts[q].occ = x
                         \/ e.posts[q].occ = d.posts[q].occ /\ d.posts[q].occ \notin due
    <3> SUFFICES ASSUME NEW q \in Posts, \A x \in seated : Seat[x] # q
                 PROVE  e.posts[q].occ = d.posts[q].occ /\ d.posts[q].occ \notin due
      BY <2>6
    <3> QED
      BY <2>7, <2>8
  <2>10. Apart(e)
    <3> SUFFICES ASSUME NEW q \in Posts, NEW r \in Posts, e.posts[q].occ = e.posts[r].occ, e.posts[q].occ # None
                 PROVE  q = r
      BY DEF Apart
    <3> QED
      BY <1>10, <2>3, <2>9 DEF Board, Apart
  <2>11. Seated(e)
    <3> SUFFICES ASSUME NEW q \in Posts, e.posts[q].occ # None
                 PROVE  /\ e.people[e.posts[q].occ].st \in {"onpost", "notyet"}
                        /\ e.posts[q].open /\ e.lines[q[1]].active
      BY DEF Seated
    <3>1. CASE \E x \in seated : Seat[x] = q /\ e.posts[q].occ = x
      BY <2>1, <2>3, <2>5, <3>1
    <3>2. CASE e.posts[q].occ = d.posts[q].occ /\ d.posts[q].occ \notin due
      BY <1>1, <1>10, <2>2, <2>5, <3>2 DEF Board, Seated
    <3> QED
      BY <2>9, <3>1, <3>2
  <2>12. Posted(e, Staff)
    <3> SUFFICES ASSUME NEW x \in Staff, e.people[x].st = "onpost" PROVE \E q \in Posts : e.posts[q].occ = x
      BY DEF Posted
    <3>1. CASE x \in due
      BY <2>1, <2>3, <2>6, <3>1
    <3>2. CASE x \notin due
      <4>1. PICK q \in Posts : d.posts[q].occ = x
        BY <1>10, <2>2, <3>2 DEF Board, Posted
      <4>2. \A y \in seated : Seat[y] # q
        BY <1>1, <2>3, <3>2, <4>1
      <4> QED
        BY <2>7, <4>1, <4>2
    <3> QED
      BY <3>1, <3>2
  <2>13. Planned(e)
    <3> SUFFICES ASSUME NEW q \in Posts, e.posts[q].occ # None, e.people[e.posts[q].occ].st = "notyet"
                 PROVE  Seat[e.posts[q].occ] = q
      BY DEF Planned
    <3> QED
      BY <1>1, <1>10, <2>1, <2>2, <2>3, <2>9 DEF Board, Planned
  <2> QED
    BY <2>10, <2>11, <2>12, <2>13 DEF Board
<1> QED
  BY <1>7, <1>8, <1>9, <1>10
Sleeping == {"rest", "ready"}

LEMMA EndedIs ==
    ASSUME NEW d \in DayRec, NEW at \in Nat, NEW e, e = Ended(d, at)
    PROVE  /\ e \in DayRec /\ e.posts = d.posts /\ e.lines = d.lines /\ e.paused = d.paused /\ e.status = d.status
           /\ \A x \in Staff : \/ e.people[x] = d.people[x]
                               \/ /\ d.people[x].st \in Sleeping \cup {"pending", "away"}
                                  /\ e.people[x].st = "done"
                                  /\ e.people[x].seq = d.people[x].seq /\ e.people[x].restored = d.people[x].restored
           /\ Board(d) => Board(e)
<1> DEFINE over == {p \in Staff : /\ d.people[p].st \in {"rest", "ready", "pending", "away"}
                                  /\ at >= End[p] /\ ~d.people[p].restored}
           G(x) == [d.people[x] EXCEPT !.st = "done", !.readyAt = 0, !.timeoutAt = 0]
           P(x) == IF x \in over THEN G(x) ELSE d.people[x]
           pe == [x \in Staff |-> P(x)]
<1>1. \A x \in Staff : d.people[x] \in PersonRec
  BY DayParts
<1>2. e = [d EXCEPT !.people = pe]
  BY DEF Ended
<1>3. \A x \in Staff : /\ G(x) \in PersonRec /\ G(x).st = "done" /\ G(x).seq = d.people[x].seq
                       /\ G(x).restored = d.people[x].restored
  <2> SUFFICES ASSUME NEW x \in Staff
               PROVE  /\ G(x) \in PersonRec /\ G(x).st = "done" /\ G(x).seq = d.people[x].seq
                      /\ G(x).restored = d.people[x].restored
    OBVIOUS
  <2>1. d.people[x] \in PersonRec /\ "done" \in States
    BY <1>1 DEF States
  <2> QED
    BY <2>1 DEF PersonRec
<1>4. \A x \in over : d.people[x].st \in Sleeping \cup {"pending", "away"}
  BY DEF Sleeping
<1> HIDE DEF G, over
<1>5. \A x \in Staff : P(x) \in PersonRec
  BY <1>1, <1>3
<1>6. pe \in [Staff -> PersonRec] /\ \A x \in Staff : pe[x] = P(x)
  BY <1>5
<1> HIDE DEF pe
<1>7. e \in DayRec /\ e.people = pe /\ e.posts = d.posts /\ e.lines = d.lines /\ e.paused = d.paused /\ e.status = d.status
  BY <1>2, <1>6, PeopleSet
<1>8. \A x \in Staff : \/ e.people[x] = d.people[x]
                       \/ /\ d.people[x].st \in Sleeping \cup {"pending", "away"}
                          /\ e.people[x].st = "done"
                          /\ e.people[x].seq = d.people[x].seq /\ e.people[x].restored = d.people[x].restored
  BY <1>3, <1>4, <1>6, <1>7
<1>9. Board(d) => Board(e)
  <2>1. \A x \in Staff : d.people[x].st \in {"onpost", "notyet"} => e.people[x].st = d.people[x].st
    BY <1>8 DEF Sleeping
  <2>2. \A x \in Staff : e.people[x].st = "onpost" => d.people[x].st = "onpost"
    BY <1>8
  <2> QED
    BY <1>7, <2>1, <2>2, PeopleBoard
<1> QED
  BY <1>7, <1>8, <1>9

\* The minutes by which the clock puts a timeout off.
Put(d, x, at) ==
    IF Available(d) /\ d.paused # None /\ d.people[x].st \in Sleeping
    THEN Later(0, at - Later(d.paused, d.people[x].readyAt)) ELSE 0

LEMMA ClockedIs ==
    ASSUME NEW d \in DayRec, NEW at \in Nat, NEW e, e = Clocked(d, at)
    PROVE  /\ e \in DayRec /\ e.posts = d.posts /\ e.lines = d.lines /\ e.status = d.status
           /\ e.paused = IF Available(d) THEN None ELSE IF d.paused = None THEN at ELSE d.paused
           /\ \A x \in Staff : /\ e.people[x].st = d.people[x].st
                               /\ e.people[x].seq = d.people[x].seq /\ e.people[x].restored = d.people[x].restored
                               /\ e.people[x].readyAt = d.people[x].readyAt
                               /\ e.people[x].timeoutAt = d.people[x].timeoutAt + Put(d, x, at)
           /\ Board(d) => Board(e)
<1>1. /\ \A x \in Staff : d.people[x] \in PersonRec /\ d.people[x].timeoutAt \in Nat /\ d.people[x].readyAt \in Nat
      /\ d.people \in [Staff -> PersonRec] /\ d.paused \in Nat \cup {None}
      /\ d = [people |-> d.people, posts |-> d.posts, lines |-> d.lines, paused |-> d.paused, status |-> d.status]
  BY DayParts DEF PersonRec
<1>2. /\ e \in DayRec /\ e.posts = d.posts /\ e.lines = d.lines /\ e.status = d.status
      /\ e.paused = IF Available(d) THEN None ELSE IF d.paused = None THEN at ELSE d.paused
      /\ \A x \in Staff : /\ e.people[x].st = d.people[x].st
                          /\ e.people[x].seq = d.people[x].seq /\ e.people[x].restored = d.people[x].restored
                          /\ e.people[x].readyAt = d.people[x].readyAt
                          /\ e.people[x].timeoutAt = d.people[x].timeoutAt + Put(d, x, at)
  <2>1. CASE ~Available(d)
    <3> DEFINE u == IF d.paused = None THEN at ELSE d.paused
    <3>1. e = [d EXCEPT !.paused = u]
      BY <2>1 DEF Clocked
    <3>2. u \in Nat \cup {None}
      BY <1>1
    <3> HIDE DEF u
    <3>3. e \in DayRec /\ e.people = d.people /\ e.posts = d.posts /\ e.lines = d.lines /\ e.status = d.status /\ e.paused = u
      BY <3>1, <3>2 DEF DayRec
    <3>4. \A x \in Staff : Put(d, x, at) = 0
      BY <2>1 DEF Put
    <3> QED
      BY <1>1, <2>1, <3>3, <3>4 DEF u
  <2>2. CASE Available(d) /\ d.paused = None
    <3>1. e = d
      BY <2>2 DEF Clocked
    <3>2. \A x \in Staff : Put(d, x, at) = 0
      BY <2>2 DEF Put
    <3> QED
      BY <1>1, <2>2, <3>1, <3>2
  <2>3. CASE Available(d) /\ d.paused # None
    <3> DEFINE T(x) == d.people[x].timeoutAt + Later(0, at - Later(d.paused, d.people[x].readyAt))
               P(x) == IF d.people[x].st \in {"rest", "ready"} THEN [d.people[x] EXCEPT !.timeoutAt = T(x)]
                       ELSE d.people[x]
               pe == [x \in Staff |-> P(x)]
    <3>1. e = [d EXCEPT !.paused = None, !.people = pe]
      BY <2>3, <1>1 DEF Clocked
    <3>2. \A x \in Staff : T(x) \in Nat /\ (d.people[x].st \in Sleeping => T(x) = d.people[x].timeoutAt + Put(d, x, at))
                           /\ (d.people[x].st \notin Sleeping => Put(d, x, at) = 0)
      BY <1>1, <2>3 DEF Later, Put
    <3> HIDE DEF T
    <3>3. \A x \in Staff : LET f == [d.people[x] EXCEPT !.timeoutAt = T(x)]
                           IN  /\ f \in PersonRec /\ f.st = d.people[x].st /\ f.seq = d.people[x].seq
                               /\ f.restored = d.people[x].restored /\ f.readyAt = d.people[x].readyAt /\ f.timeoutAt = T(x)
      BY <1>1, <3>2 DEF PersonRec
    <3>4. \A x \in Staff : /\ P(x) \in PersonRec /\ P(x).st = d.people[x].st /\ P(x).seq = d.people[x].seq
                           /\ P(x).restored = d.people[x].restored /\ P(x).readyAt = d.people[x].readyAt
                           /\ P(x).timeoutAt = d.people[x].timeoutAt + Put(d, x, at)
      BY <1>1, <3>2, <3>3 DEF Sleeping
    <3> HIDE DEF P
    <3>5. pe \in [Staff -> PersonRec] /\ \A x \in Staff : pe[x] = P(x)
      BY <3>4
    <3> HIDE DEF pe
    <3>6. e \in DayRec /\ e.people = pe /\ e.posts = d.posts /\ e.lines = d.lines /\ e.status = d.status /\ e.paused = None
      BY <3>1, <3>5 DEF DayRec
    <3> QED
      BY <2>3, <3>4, <3>5, <3>6
  <2> QED
    BY <2>1, <2>2, <2>3
<1>3. Board(d) => Board(e)
  BY <1>2, PeopleBoard
<1> QED
  BY <1>2, <1>3

LEMMA OverdueIs ==
    ASSUME NEW d \in DayRec, NEW at \in Nat, NEW e, e = Overdue(d, at)
    PROVE  /\ e \in DayRec /\ e.posts = d.posts /\ e.lines = d.lines /\ e.paused = d.paused /\ e.status = d.status
           /\ \A x \in Staff : \/ e.people[x] = d.people[x]
                               \/ /\ Available(d) /\ x \in Candidates(d, at) /\ at >= d.people[x].timeoutAt
                                  /\ d.people[x].st \in Sleeping
                                  /\ e.people[x].st = "exception"
                                  /\ e.people[x].seq = d.people[x].seq /\ e.people[x].restored = d.people[x].restored
           /\ Board(d) => Board(e)
<1>1. CASE ~Available(d)
  BY <1>1 DEF Overdue
<1>2. CASE Available(d)
  <2> DEFINE tardy == {p \in Candidates(d, at) : Plan(d, at)[p] # Unassigned /\ at >= d.people[p].timeoutAt}
             G(x) == [d.people[x] EXCEPT !.st = "exception", !.readyAt = 0, !.timeoutAt = 0]
             P(x) == IF x \in tardy THEN G(x) ELSE d.people[x]
             pe == [x \in Staff |-> P(x)]
  <2>1. \A x \in Staff : d.people[x] \in PersonRec
    BY DayParts
  <2>2. e = [d EXCEPT !.people = pe]
    BY <1>2 DEF Overdue
  <2>3. \A x \in Staff : /\ G(x) \in PersonRec /\ G(x).st = "exception" /\ G(x).seq = d.people[x].seq
                         /\ G(x).restored = d.people[x].restored
    <3> SUFFICES ASSUME NEW x \in Staff
                 PROVE  /\ G(x) \in PersonRec /\ G(x).st = "exception" /\ G(x).seq = d.people[x].seq
                        /\ G(x).restored = d.people[x].restored
      OBVIOUS
    <3>1. d.people[x] \in PersonRec /\ "exception" \in States
      BY <2>1 DEF States
    <3> QED
      BY <3>1 DEF PersonRec
  <2>4. \A x \in tardy : x \in Candidates(d, at) /\ at >= d.people[x].timeoutAt /\ d.people[x].st \in Sleeping
    BY DEF Sleeping, Candidates, Eligible
  <2> HIDE DEF G, tardy
  <2>5. \A x \in Staff : P(x) \in PersonRec
    BY <2>1, <2>3
  <2>6. pe \in [Staff -> PersonRec] /\ \A x \in Staff : pe[x] = P(x)
    BY <2>5
  <2> HIDE DEF pe
  <2>7. e \in DayRec /\ e.people = pe /\ e.posts = d.posts /\ e.lines = d.lines /\ e.paused = d.paused /\ e.status = d.status
    BY <2>2, <2>6, PeopleSet
  <2>8. \A x \in Staff : \/ e.people[x] = d.people[x]
                         \/ /\ Available(d) /\ x \in Candidates(d, at) /\ at >= d.people[x].timeoutAt
                            /\ d.people[x].st \in Sleeping
                            /\ e.people[x].st = "exception"
                            /\ e.people[x].seq = d.people[x].seq /\ e.people[x].restored = d.people[x].restored
    BY <1>2, <2>3, <2>4, <2>6, <2>7
  <2>9. Board(d) => Board(e)
    <3>1. \A x \in Staff : d.people[x].st \in {"onpost", "notyet"} => e.people[x].st = d.people[x].st
      BY <2>8 DEF Sleeping
    <3>2. \A x \in Staff : e.people[x].st = "onpost" => d.people[x].st = "onpost"
      BY <2>8
    <3> QED
      BY <2>7, <3>1, <3>2, PeopleBoard
  <2> QED
    BY <2>7, <2>8, <2>9
<1> QED
  BY <1>1, <1>2

LEMMA DayOverIs ==
    ASSUME NEW d \in DayRec, NEW e, e = DayOver(d)
    PROVE  /\ e \in DayRec /\ e.status = "ended" /\ e.paused = d.paused
           /\ \A x \in Staff : /\ e.people[x].st = "done" /\ e.people[x].seq = d.people[x].seq
                               /\ e.people[x].restored = d.people[x].restored
           /\ Board(d) /\ (\A x \in Staff : d.people[x].st # "notyet") => Board(e)
<1> DEFINE onpost == {p \in Staff : d.people[p].st = "onpost"}
           v == Vacate(d, onpost)
           P(x) == [d.people[x] EXCEPT !.st = "done", !.readyAt = 0, !.timeoutAt = 0]
           F(q) == [v.posts[q] EXCEPT !.open = FALSE, !.hold = FALSE]
           pe == [x \in Staff |-> P(x)]
           po == [q \in Posts |-> F(q)]
<1>1. /\ v \in DayRec /\ v.people = d.people /\ v.lines = d.lines /\ v.paused = d.paused /\ v.status = d.status
      /\ \A q \in Posts : v.posts[q].occ = IF d.posts[q].occ \in onpost THEN None ELSE d.posts[q].occ
  BY VacateIs
<1>2. e = [v EXCEPT !.people = pe, !.posts = po, !.status = "ended"]
  BY <1>1 DEF DayOver
<1> HIDE DEF v
<1>3. /\ \A x \in Staff : d.people[x] \in PersonRec
      /\ \A q \in Posts : v.posts[q] \in PostRec
      /\ v = [people |-> v.people, posts |-> v.posts, lines |-> v.lines, paused |-> v.paused, status |-> v.status]
  BY <1>1, DayParts
<1>4. \A x \in Staff : P(x) \in PersonRec /\ P(x).st = "done" /\ P(x).seq = d.people[x].seq /\ P(x).restored = d.people[x].restored
  <2> SUFFICES ASSUME NEW x \in Staff
               PROVE  /\ P(x) \in PersonRec /\ P(x).st = "done" /\ P(x).seq = d.people[x].seq
                      /\ P(x).restored = d.people[x].restored
    OBVIOUS
  <2>1. d.people[x] \in PersonRec /\ "done" \in States
    BY <1>3 DEF States
  <2> QED
    BY <2>1 DEF PersonRec
<1>5. \A q \in Posts : F(q) \in PostRec /\ F(q).occ = v.posts[q].occ
  BY <1>3 DEF PostRec
<1> HIDE DEF P, F
<1>6. /\ pe \in [Staff -> PersonRec] /\ po \in [Posts -> PostRec]
      /\ \A x \in Staff : pe[x] = P(x)
      /\ \A q \in Posts : po[q] = F(q)
  BY <1>4, <1>5
<1> HIDE DEF pe, po
<1>7. e \in DayRec /\ e.people = pe /\ e.posts = po /\ e.status = "ended" /\ e.paused = d.paused
  BY <1>1, <1>2, <1>6 DEF DayRec
<1>8. ASSUME Board(d), \A x \in Staff : d.people[x].st # "notyet" PROVE Board(e)
  <2>1. \A q \in Posts : d.posts[q].occ \in Staff \cup {None}
    BY PostsTyped
  <2>2. \A q \in Posts : e.posts[q].occ = None
    BY <1>1, <1>5, <1>6, <1>7, <1>8, <2>1 DEF Board, Seated
  <2>3. \A x \in Staff : e.people[x].st # "onpost"
    BY <1>4, <1>6, <1>7
  <2> QED
    BY <2>2, <2>3 DEF Board, Apart, Seated, Posted, Planned
<1> QED
  BY <1>4, <1>6, <1>7, <1>8

\* Nobody is made to wait for a shift to begin.
LEMMA FutureFrom ==
    ASSUME NEW d, NEW e, NEW at, Future(d, at), \A x \in Staff : e.people[x].st = "notyet" => d.people[x].st = "notyet"
    PROVE  Future(e, at)
  BY DEF Future

LEMMA TickIs ==
    ASSUME NEW d \in DayRec, NEW at \in Nat, d.status = "live", NEW e, e = Tick(d, at)
    PROVE  /\ e \in DayRec
           /\ \A x \in Staff : e.people[x].seq = d.people[x].seq /\ e.people[x].restored = d.people[x].restored
           /\ at < DayEnd => e.status = "live" /\ Future(e, at) /\ (Board(d) => Board(e))
           /\ at >= DayEnd => /\ e.status = "ended"
                              /\ Board(d) /\ (\A x \in Staff : d.people[x].st # "notyet") => Board(e)
<1>1. CASE at >= DayEnd
  <2>1. e = DayOver(d)
    BY <1>1 DEF Tick
  <2> QED
    BY <1>1, <2>1, SettingsTyped, DayOverIs
<1>2. CASE at < DayEnd
  <2> DEFINE u == Started(d, at)
             v == Ended(u, at)
             w == Clocked(v, at)
  <2>1. e = Overdue(w, at)
    BY <1>2, SettingsTyped DEF Tick
  <2>2. /\ u \in DayRec /\ u.status = d.status /\ Future(u, at) /\ (Board(d) => Board(u))
        /\ \A x \in Staff : IF d.people[x].st = "notyet" /\ at >= Start[x]
                            THEN u.people[x] = ShiftStart(d, x, at) ELSE u.people[x] = d.people[x]
    BY StartedIs
  <2>3. \A x \in Staff : u.people[x].seq = d.people[x].seq /\ u.people[x].restored = d.people[x].restored
    <3> SUFFICES ASSUME NEW x \in Staff
                 PROVE  u.people[x].seq = d.people[x].seq /\ u.people[x].restored = d.people[x].restored
      OBVIOUS
    <3> DEFINE t == ShiftStart(d, x, at)
    <3>1. t.seq = d.people[x].seq /\ t.restored = d.people[x].restored
      BY ShiftStartIs
    <3> QED
      BY <2>2, <3>1
  <2> HIDE DEF u
  <2>4. /\ v \in DayRec /\ v.status = u.status /\ (Board(u) => Board(v))
        /\ \A x \in Staff : \/ v.people[x] = u.people[x]
                            \/ /\ v.people[x].st = "done"
                               /\ v.people[x].seq = u.people[x].seq /\ v.people[x].restored = u.people[x].restored
    BY <2>2, EndedIs
  <2> HIDE DEF v
  <2>5. /\ w \in DayRec /\ w.status = v.status /\ (Board(v) => Board(w))
        /\ \A x \in Staff : /\ w.people[x].st = v.people[x].st
                            /\ w.people[x].seq = v.people[x].seq /\ w.people[x].restored = v.people[x].restored
    BY <2>4, ClockedIs
  <2> HIDE DEF w
  <2>6. /\ e \in DayRec /\ e.status = w.status /\ (Board(w) => Board(e))
        /\ \A x \in Staff : \/ e.people[x] = w.people[x]
                            \/ /\ e.people[x].st = "exception"
                               /\ e.people[x].seq = w.people[x].seq /\ e.people[x].restored = w.people[x].restored
    BY <2>1, <2>5, OverdueIs
  <2>7. \A x \in Staff : e.people[x].st = "notyet" => u.people[x].st = "notyet"
    BY <2>4, <2>5, <2>6
  <2>8. Future(e, at)
    BY <2>2, <2>7, FutureFrom
  <2>9. \A x \in Staff : e.people[x].seq = d.people[x].seq /\ e.people[x].restored = d.people[x].restored
    BY <2>3, <2>4, <2>5, <2>6
  <2> QED
    BY <1>2, <2>2, <2>4, <2>5, <2>6, <2>8, <2>9, SettingsTyped
<1> QED
  BY <1>1, <1>2, SettingsTyped

-----------------------------------------------------------------------------
(* The most urgent of several. *)

LEMMA GreatestExists ==
    ASSUME NEW S, S \subseteq Nat, S # {}, IsFiniteSet(S)
    PROVE  \E m \in Nat : \A x \in S : x <= m
<1> DEFINE Up(x) == {y \in S : x <= y}
           T == {Cardinality(Up(x)) : x \in S}
<1>1. \A x \in S : IsFiniteSet(Up(x)) /\ Cardinality(Up(x)) \in Nat
  BY FS_Subset, FS_CardinalityType
<1>2. T \subseteq Nat /\ T # {}
  BY <1>1
<1>3. PICK k \in T : \A j \in T : k <= j
  BY <1>2, LeastExists
<1>4. PICK m \in S : k = Cardinality(Up(m))
  BY <1>3
<1>5. ASSUME NEW y \in S, ~(y <= m) PROVE FALSE
  <2>0. m < y /\ \A x \in S : y <= x => m <= x
    BY <1>5
  <2>1. Up(y) \subseteq Up(m) /\ m \in Up(m) /\ m \notin Up(y)
    <3>1. m \in Nat /\ m \in S /\ ~(y <= m)
      BY <1>5
    <3>2. Up(y) \subseteq Up(m)
      BY <2>0, Zenon
    <3> QED
      BY <3>1, <3>2
  <2>2. Cardinality(Up(y)) < Cardinality(Up(m))
    BY <1>1, <2>1, FS_Subset
  <2>3. Cardinality(Up(m)) <= Cardinality(Up(y))
    BY <1>3, <1>4
  <2> QED
    BY <1>1, <2>2, <2>3
<1> QED
  BY <1>5

\* Among tuples of one length, of numbers not below some bound, there is one that none precedes.
LEMMA FirstExists ==
    ASSUME NEW n \in Nat, NEW T, T # {}, NEW b \in Nat,
           \A t \in T : DOMAIN t = 1..n /\ \A k \in 1..n : t[k] \in Int /\ t[k] + b >= 0
    PROVE  \E t \in T : \A u \in T : ~Precedes(u, t)
<1> DEFINE First(t, k) == \A u \in T, i \in 1..k : u[i] < t[i] => \E j \in 1..(i - 1) : u[j] # t[j]
           G == {g \in Nat : g <= n /\ \E t \in T : First(t, n - g)}
<1>1. n \in G
  BY DEF First
<1>2. PICK g \in G : \A h \in G : g <= h
  BY <1>1, LeastExists
<1>3. PICK t \in T : First(t, n - g)
  BY <1>2
<1>4. g = 0
  <2> SUFFICES ASSUME g # 0 PROVE FALSE
    OBVIOUS
  <2> DEFINE k == n - g
             M == {u \in T : \A i \in 1..k : u[i] = t[i]}
             V == {u[k + 1] + b : u \in M}
  <2>1. k \in Nat /\ k + 1 \in 1..n /\ k < n /\ g - 1 \in Nat /\ n - (g - 1) = k + 1 /\ g - 1 <= n
    BY <1>2
  <2>2. t \in M /\ M \subseteq T
    OBVIOUS
  <2>3. V \subseteq Nat /\ V # {}
    BY <2>1, <2>2
  <2>4. PICK v \in V : \A x \in V : v <= x
    BY <2>3, LeastExists
  <2>5. PICK m \in M : v = m[k + 1] + b
    BY <2>4
  <2>6. First(m, k + 1)
    <3> SUFFICES ASSUME NEW u \in T, NEW i \in 1..(k + 1), u[i] < m[i], \A j \in 1..(i - 1) : u[j] = m[j]
                 PROVE  FALSE
      OBVIOUS
    <3>1. i \in Nat /\ i >= 1 /\ i <= k + 1 /\ \A j \in 1..(i - 1) : j \in 1..k
      BY <2>1
    <3>2. CASE i <= k
      <4>1. i \in 1..k /\ m[i] = t[i] /\ \A j \in 1..(i - 1) : u[j] = t[j]
        BY <3>1, <3>2, <2>1
      <4> QED
        BY <1>3, <4>1
    <3>3. CASE i = k + 1
      <4>1. \A j \in 1..k : u[j] = t[j]
        <5>1. \A j \in 1..k : j \in 1..(i - 1) /\ m[j] = t[j]
          BY <2>1, <3>3
        <5> QED
          BY <5>1
      <4>2. u[k + 1] + b \in V
        BY <4>1
      <4>3. m[k + 1] + b <= u[k + 1] + b
        BY <2>4, <2>5, <4>2
      <4> QED
        BY <2>1, <2>2, <3>3, <4>3
    <3> QED
      BY <3>1, <3>2, <3>3, <2>1
  <2> HIDE DEF First
  <2>7. First(m, n - (g - 1))
    BY <2>1, <2>6
  <2>8. g - 1 \in G
    BY <2>1, <2>2, <2>7
  <2>9. g <= g - 1 /\ g \in Nat
    BY <1>2, <2>8
  <2> QED
    BY <2>9
<1>5. \A u \in T : ~Precedes(u, t)
  BY <1>3, <1>4 DEF Precedes
<1> QED
  BY <1>5

-----------------------------------------------------------------------------
(* What a person is told to do. *)

LEMMA RanksAre == \A k \in Kinds : Rank[k] \in Nat
  BY DEF Rank, Kinds

\* A purpose of a line: for somebody on duty on it, or for nobody.
Purpose(d, l, n) ==
    /\ n.kind \in Kinds
    /\ \/ n.target = None /\ n.kind # "push7"
       \/ \E q \in Indexes(d, l) : /\ d.posts[q].occ = n.target /\ n.target \in Staff
                                   /\ d.people[n.target].st = "onpost"

KeyTyped(n, b) == DOMAIN n.key = 1..3 /\ \A k \in 1..3 : n.key[k] \in Int /\ n.key[k] + b >= 0

LEMMA NeedsAre ==
    ASSUME NEW d \in DayRec, NEW l \in Lines, NEW at \in Nat, NEW reserved, NEW p, NEW owners,
           NEW n \in Needs(d, l, at, reserved, p, owners)
    PROVE  Purpose(d, l, n) /\ KeyTyped(n, Width[l])
<1>1. Width[l] \in Nat
  BY PlanAssumption DEF Lines
<1>2. CASE \E kind \in {"push", "opening", "vacancy"} : n = Plain(kind)
  <2>1. PICK kind \in {"push", "opening", "vacancy"} : n = Plain(kind)
    BY <1>2
  <2>2. kind \in Kinds /\ kind # "push7" /\ Rank[kind] \in Nat
    BY <2>1, RanksAre DEF Kinds
  <2>3. n.kind = kind /\ n.target = None /\ n.key = <<Rank[kind], 0, 0>>
    BY <2>1 DEF Plain
  <2>4. KeyTyped(n, Width[l])
    BY <1>1, <2>2, <2>3 DEF KeyTyped
  <2> QED
    BY <2>2, <2>3, <2>4 DEF Purpose
<1>3. CASE \E q \in Indexes(d, l) : Wanted(d, q, at, reserved, p, owners) /\ n = Relief(d, q, at)
  <2>1. PICK q \in Indexes(d, l) : Wanted(d, q, at, reserved, p, owners) /\ n = Relief(d, q, at)
    BY <1>3
  <2> DEFINE x == d.posts[q].occ
             kind == ReliefKind(d, x, at)
  <2>2. q \in Posts /\ q[1] = l /\ q[2] \in Nat /\ q[2] <= Width[l]
    BY PostsAre DEF Indexes
  <2>3. x \in Staff /\ d.people[x].st = "onpost" /\ kind # "none"
    BY <2>1, <2>2, PostsTyped DEF Wanted
  <2>4. kind \in Kinds
    <3>1. d.people[x].exit \in {"none", "out", "sick"}
      BY <2>3, PostsTyped DEF PersonRec
    <3> QED
      BY <2>3, <3>1 DEF ReliefKind, Kinds
  <2>5. End[x] \in Nat
    BY <2>3, SettingsTyped
  <2>6. n.kind = kind /\ n.target = x /\ n.key = <<Rank[kind], IF kind = "off" THEN End[x] ELSE at, -q[2]>>
    BY <2>1 DEF Relief
  <2>7. Rank[kind] \in Nat
    BY <2>4, RanksAre
  <2> HIDE DEF kind, x
  <2>8. KeyTyped(n, Width[l])
    BY <1>1, <2>2, <2>5, <2>6, <2>7 DEF KeyTyped
  <2> QED
    BY <2>2, <2>3, <2>4, <2>6, <2>8 DEF Purpose, x
<1> QED
  BY <1>2, <1>3 DEF Needs

LEMMA DemandIs ==
    ASSUME NEW d \in DayRec, NEW l \in Lines, NEW at \in Nat, NEW reserved, NEW p, NEW owners,
           NEW n, n = Demand(d, l, at, reserved, p, owners)
    PROVE  Purpose(d, l, n) /\ KeyTyped(n, Width[l])
<1> DEFINE needs == Needs(d, l, at, reserved, p, owners)
           T == {m.key : m \in needs}
<1>1. Width[l] \in Nat
  BY PlanAssumption DEF Lines
<1>2. Plain("push") \in needs
  BY DEF Needs
<1>3. \A m \in needs : Purpose(d, l, m) /\ KeyTyped(m, Width[l])
  BY NeedsAre
<1>4. n = CHOOSE m \in needs : \A o \in needs : ~Precedes(o.key, m.key)
  BY DEF Demand
<1> HIDE DEF needs
<1>5. \A t \in T : DOMAIN t = 1..3 /\ \A k \in 1..3 : t[k] \in Int /\ t[k] + Width[l] >= 0
  BY <1>3 DEF KeyTyped
<1>6. T # {}
  BY <1>2
<1>7. PICK t \in T : \A u \in T : ~Precedes(u, t)
  BY <1>1, <1>5, <1>6, FirstExists
<1>8. PICK m \in needs : m.key = t
  BY <1>7
<1>9. \A o \in needs : ~Precedes(o.key, m.key)
  BY <1>7, <1>8
<1>10. n \in needs
  BY <1>4, <1>8, <1>9
<1> QED
  BY <1>3, <1>10

LEMMA LinesAre == IsFiniteSet(Lines) /\ Lines \subseteq Nat \ {0} /\ \A l \in Lines : Width[l] \in Nat
<1>1. Width \in Seq(Nat)
  BY PlanAssumption
<1>2. Lines = 1..Len(Width) /\ Len(Width) \in Nat
  BY <1>1 DEF Lines
<1>3. IsFiniteSet(1..Len(Width))
  BY <1>2, FS_Interval
<1> QED
  BY <1>1, <1>2, <1>3

LEMMA GreatestOf ==
    ASSUME NEW S, IsFiniteSet(S), NEW f \in [S -> Nat]
    PROVE  \E m \in Nat : \A x \in S : f[x] <= m
<1> DEFINE T == {f[x] : x \in S}
<1>1. f \in Surjection(S, T) /\ T \subseteq Nat
  BY DEF Surjection
<1>2. IsFiniteSet(T)
  BY <1>1, FS_Surjection
<1>3. CASE T = {}
  BY <1>3
<1>4. CASE T # {}
  <2>1. PICK m \in Nat : \A y \in T : y <= m
    BY <1>1, <1>2, <1>4, GreatestExists
  <2> QED
    BY <2>1
<1> QED
  BY <1>3, <1>4

LEMMA Bounded ==
    ASSUME NEW d \in DayRec
    PROVE  \E b \in Nat : \A l \in Lines : Width[l] <= b /\ Cardinality(Indexes(d, l)) \in Nat /\ Cardinality(Indexes(d, l)) <= b
<1> DEFINE V == [l \in Lines |-> Width[l]]
           K == [l \in Lines |-> Cardinality(Indexes(d, l))]
<1>1. \A l \in Lines : Cardinality(Indexes(d, l)) \in Nat /\ Width[l] \in Nat
  BY IndexesOn, LinesFinite, FS_CardinalityType, LinesAre
<1>2. IsFiniteSet(Lines) /\ V \in [Lines -> Nat] /\ K \in [Lines -> Nat]
  BY <1>1, LinesAre
<1>3. PICK v \in Nat : \A l \in Lines : V[l] <= v
  BY <1>2, GreatestOf
<1>4. PICK k \in Nat : \A l \in Lines : K[l] <= k
  BY <1>2, GreatestOf
<1>5. v + k \in Nat
  OBVIOUS
<1>6. \A l \in Lines : Width[l] <= v /\ Cardinality(Indexes(d, l)) <= k
  BY <1>3, <1>4
<1>7. \A l \in Lines : Width[l] <= v + k /\ Cardinality(Indexes(d, l)) <= v + k
  BY <1>1, <1>6
<1> QED
  BY <1>1, <1>5, <1>7

Urgency(d, o) == <<o.need.key[1], o.need.key[2], o.need.key[3], d.lines[o.line].sortAt, -Cardinality(Indexes(d, o.line)), o.line>>

LEMMA MostUrgentIs ==
    ASSUME NEW d \in DayRec, NEW options, options # {},
           \A o \in options : o.line \in Lines /\ KeyTyped(o.need, Width[o.line])
    PROVE  MostUrgent(d, options) \in options
<1> DEFINE T == {Urgency(d, o) : o \in options}
<1>1. PICK b \in Nat : \A l \in Lines : Width[l] <= b /\ Cardinality(Indexes(d, l)) \in Nat /\ Cardinality(Indexes(d, l)) <= b
  BY Bounded
<1>2. \A t \in T : DOMAIN t = 1..6 /\ \A k \in 1..6 : t[k] \in Int /\ t[k] + b >= 0
  <2> SUFFICES ASSUME NEW o \in options
               PROVE  DOMAIN Urgency(d, o) = 1..6 /\ \A k \in 1..6 : Urgency(d, o)[k] \in Int /\ Urgency(d, o)[k] + b >= 0
    OBVIOUS
  <2>1. o.line \in Lines /\ o.line \in Nat /\ Width[o.line] \in Nat /\ Width[o.line] <= b
    BY <1>1, LinesAre
  <2>2. \A k \in 1..3 : o.need.key[k] \in Int /\ o.need.key[k] + Width[o.line] >= 0
    BY DEF KeyTyped
  <2>3. /\ o.need.key[1] \in Int /\ o.need.key[1] + b >= 0
        /\ o.need.key[2] \in Int /\ o.need.key[2] + b >= 0
        /\ o.need.key[3] \in Int /\ o.need.key[3] + b >= 0
    BY <2>1, <2>2
  <2>4. d.lines[o.line].sortAt \in Nat
    BY <2>1, PostsTyped DEF LineRec
  <2> DEFINE c == Cardinality(Indexes(d, o.line))
             s == d.lines[o.line].sortAt
             x == o.need.key[1]
             y == o.need.key[2]
             z == o.need.key[3]
             n == o.line
  <2>5. c \in Nat /\ c <= b
    BY <1>1, <2>1
  <2>6. Urgency(d, o) = <<x, y, z, s, -c, n>>
    BY DEF Urgency
  <2>7. x \in Int /\ x + b >= 0 /\ y \in Int /\ y + b >= 0 /\ z \in Int /\ z + b >= 0 /\ s \in Nat /\ n \in Nat
    BY <2>1, <2>3, <2>4
  <2> HIDE DEF c, s, x, y, z, n
  <2> QED
    BY <2>5, <2>6, <2>7
<1>3. T # {}
  OBVIOUS
<1>4. PICK t \in T : \A u \in T : ~Precedes(u, t)
  BY <1>1, <1>2, <1>3, FirstExists
<1>5. PICK m \in options : Urgency(d, m) = t
  BY <1>4
<1>6. \A o \in options : ~Precedes(Urgency(d, o), Urgency(d, m))
  BY <1>4, <1>5
<1>7. MostUrgent(d, options) = CHOOSE o \in options : \A x \in options : ~Precedes(Urgency(d, x), Urgency(d, o))
  BY DEF MostUrgent, Urgency
<1> QED
  BY <1>5, <1>6, <1>7

LEMMA OfferIs ==
    ASSUME NEW d \in DayRec, NEW p \in Staff, now \in Nat, NEW a, a = Offer(d, p)
    PROVE  /\ a = Unassigned \/ (a.line \in Lines /\ OpenLine(d, a.line) /\ Purpose(d, a.line, a))
           /\ Available(d) /\ Later(now, d.people[p].readyAt) < DayEnd - StopPush => a # Unassigned
<1> DEFINE b == Blank(d)
           owners == Owners(d, now)
           then == Later(now, d.people[p].readyAt)
           options == Options(b, p, then, owners)
           o == MostUrgent(d, options)
           c == Dispatched(b, p, o.line, o.need, then)
<1>1. b.day = d /\ b.reserved = {} /\ b.assign = [x \in Staff |-> Unassigned]
  BY DEF Blank
<1>2. then \in Nat
  BY DayParts DEF Later, PersonRec
<1>3. a = IF options = {} THEN b.assign[p] ELSE c.assign[p]
  <2>1. PlanOne(b, p, now, owners) = IF options = {} THEN b ELSE c
    BY <1>1 DEF PlanOne
  <2> QED
    BY <2>1 DEF Offer
<1> HIDE DEF b, owners, then
<1>4. \A x \in options : /\ x.line \in Lines /\ OpenLine(d, x.line)
                         /\ Purpose(d, x.line, x.need) /\ KeyTyped(x.need, Width[x.line])
  <2> SUFFICES ASSUME NEW l \in Lines, OpenLine(d, l), NEW x,
                      x = [line |-> l, need |-> Demand(d, l, then, {}, p, owners)]
               PROVE  /\ x.line \in Lines /\ OpenLine(d, x.line)
                      /\ Purpose(d, x.line, x.need) /\ KeyTyped(x.need, Width[x.line])
    BY <1>1 DEF Options
  <2> DEFINE n == Demand(d, l, then, {}, p, owners)
  <2>1. Purpose(d, l, n) /\ KeyTyped(n, Width[l])
    BY <1>2, DemandIs
  <2> HIDE DEF n
  <2>2. x.line = l /\ x.need = n
    BY DEF n
  <2> QED
    BY <2>1, <2>2
<1>5. ASSUME Available(d), then < DayEnd - StopPush PROVE options # {}
  <2>1. PICK l \in Lines : OpenLine(d, l)
    BY <1>5 DEF Available
  <2>2. [line |-> l, need |-> Demand(d, l, then, {}, p, owners)] \in options
    BY <1>1, <1>5, <2>1 DEF Options
  <2> QED
    BY <2>2
<1> HIDE DEF options
<1>6. CASE options = {}
  <2>1. a = Unassigned
    BY <1>1, <1>3, <1>6
  <2> QED
    BY <1>5, <1>6, <2>1 DEF then
<1>7. CASE options # {}
  <2>1. o \in options
    BY <1>4, <1>7, MostUrgentIs
  <2> HIDE DEF o
  <2>2. c.assign = [b.assign EXCEPT ![p] = [line |-> o.line, kind |-> o.need.kind, target |-> o.need.target]]
    BY DEF Dispatched
  <2>3. c.assign[p] = [line |-> o.line, kind |-> o.need.kind, target |-> o.need.target]
    BY <1>1, <2>2
  <2>4. a.line = o.line /\ a.kind = o.need.kind /\ a.target = o.need.target
    BY <1>3, <1>7, <2>3
  <2>5. a.line \in Lines /\ OpenLine(d, a.line) /\ Purpose(d, a.line, o.need)
    BY <1>4, <2>1, <2>4
  <2>6. Purpose(d, a.line, a)
    BY <2>4, <2>5 DEF Purpose
  <2>7. a # Unassigned
    BY <2>5, LinesAre DEF Unassigned
  <2> QED
    BY <2>5, <2>6, <2>7
<1> QED
  BY <1>6, <1>7

LEMMA SentIs ==
    ASSUME NEW d \in DayRec, NEW p \in Staff, now \in Nat, NEW l \in Lines, OpenLine(d, l), NEW n, Purpose(d, l, n),
           NEW kind, kind = n.kind, NEW target, target = n.target,
           NEW r, r = Route(d, l, kind, target, p, now, 1), NEW manual \in BOOLEAN,
           NEW e, e = Moved(d, p, l, kind, target, r, manual)
    PROVE  /\ Kept(d, e)
           /\ Board(d) /\ Resting(d, p) => Board(e) /\ e.people[p].seq = d.people[p].seq + 1
<1>1. Indexes(d, l) # {}
  BY DEF OpenLine
<1>2. {q \in Indexes(d, l) : q[2] >= 1} # {}
  BY <1>1, PostsAre DEF Indexes
<1>3. kind \in Kinds /\ target \in Staff \cup {None}
  BY DEF Purpose
<1>4. r.occ \in Places /\ r.out \in Staff \cup {None}
  BY <1>2, <1>3, RouteTyped
<1>6. /\ Kept(d, e)
      /\ p # r.out => e.people[p].seq = d.people[p].seq + 1 /\ e.people[p].st = "onpost"
  <2> QED
    BY <1>3, <1>4, MovedKept
<1>7. ASSUME Board(d), Resting(d, p) PROVE Board(e) /\ e.people[p].seq = d.people[p].seq + 1
  <2>1. Apart(d) /\ Seated(d) /\ Posted(d, Staff) /\ Planned(d)
    BY <1>7 DEF Board
  <2>2. Free(d, p) /\ Posted(d, Staff \ {p})
    <3>1. d.people[p].st \notin {"onpost", "notyet"} /\ p # None
      BY <1>7, PlanAssumption DEF Resting
    <3> QED
      BY <2>1, <3>1 DEF Free, Seated, Posted
  <2>3. Routed(d, r, p)
    <3>1. CASE target = None
      <4>1. kind # "push7"
        BY <3>1, PlanAssumption DEF Purpose
      <4> QED
        BY <1>2, <2>1, <2>2, <3>1, <4>1, PushRouted
    <3>2. CASE target # None
      <4>1. PICK q \in Indexes(d, l) : d.posts[q].occ = target /\ target \in Staff /\ d.people[target].st = "onpost"
        BY <3>2 DEF Purpose
      <4>2. CASE kind = "push7"
        BY <2>1, <2>2, <4>1, <4>2, SevenRouted
      <4>3. CASE kind # "push7"
        BY <2>1, <2>2, <4>1, <4>3, ReliefRouted
      <4> QED
        BY <4>2, <4>3
    <3> QED
      BY <3>1, <3>2
  <2>4. r.out # p
    BY <2>3 DEF Routed
  <2>5. Board(e)
    BY <1>3, <2>1, <2>2, <2>3, MovedBoard
  <2> QED
    BY <1>6, <2>4, <2>5
<1> QED
  BY <1>6, <1>7

Departed(d, p, a) == Moved(d, p, a.line, a.kind, a.target, Route(d, a.line, a.kind, a.target, p, now, 1), FALSE)

LEMMA DepartIs ==
    ASSUME NEW d \in DayRec, NEW p \in Staff, now \in Nat, NEW a, a = Offer(d, p), a # Unassigned,
           NEW e, e = Departed(d, p, a)
    PROVE  /\ Kept(d, e)
           /\ Board(d) /\ Resting(d, p) => Board(e) /\ e.people[p].seq = d.people[p].seq + 1
<1> DEFINE l == a.line
           k == a.kind
           t == a.target
           r == Route(d, l, k, t, p, now, 1)
           m == FALSE
<1>1. l \in Lines /\ OpenLine(d, l) /\ Purpose(d, l, a)
  BY OfferIs
<1>2. e = Moved(d, p, l, k, t, r, m) /\ r = Route(d, l, k, t, p, now, 1) /\ k = a.kind /\ t = a.target
  BY DEF Departed
<1>3. m \in BOOLEAN
  OBVIOUS
<1> HIDE DEF r, k, t, l, m
<1> QED
  BY <1>1, <1>2, <1>3, SentIs

\* p taken off the board, to be placed.
Lifted(d, p) ==
    [Vacate(d, {p}) EXCEPT !.people[p] = [d.people[p] EXCEPT !.exit = "none", !.restored = Returned(d.people[p], p)]]

OffBoard(d, p, e) ==
    /\ e.lines = d.lines
    /\ \A x \in Staff : Alike(d.people[x], e.people[x]) /\ (d.people[x].restored => e.people[x].restored)
                        /\ e.people[x].seq = d.people[x].seq
    /\ \A q \in Posts : /\ e.posts[q].occ = IF d.posts[q].occ = p THEN None ELSE d.posts[q].occ
                        /\ e.posts[q].open = d.posts[q].open /\ e.posts[q].hold = d.posts[q].hold

LEMMA LiftedIs ==
    ASSUME NEW d \in DayRec, NEW p \in Staff, NEW e, e = Lifted(d, p)
    PROVE  /\ Kept(d, e) /\ Free(e, p) /\ OffBoard(d, p, e)
           /\ Board(d) => Apart(e) /\ Seated(e) /\ Posted(e, Staff \ {p}) /\ Planned(e)
<1> DEFINE v == Vacate(d, {p})
           s == d.people[p]
           b == Returned(s, p)
           t == [s EXCEPT !.exit = "none", !.restored = b]
<1>1. /\ v \in DayRec /\ v.people = d.people /\ v.lines = d.lines /\ v.paused = d.paused /\ v.status = d.status
      /\ \A q \in Posts : /\ v.posts[q].occ = IF d.posts[q].occ \in {p} THEN None ELSE d.posts[q].occ
                          /\ v.posts[q].open = d.posts[q].open /\ v.posts[q].hold = d.posts[q].hold
  BY VacateIs
<1>2. s \in PersonRec /\ p # None
  BY DayParts
<1>3. b \in BOOLEAN /\ (s.restored => b)
  BY <1>2 DEF Returned, PersonRec
<1>4. e = WithPerson(v, p, t)
  BY DEF Lifted, WithPerson
<1> HIDE DEF v, b, s
<1>5. t \in PersonRec /\ Alike(s, t) /\ t.seq = s.seq /\ (s.restored => t.restored)
  BY <1>2, <1>3 DEF PersonRec, Alike
<1> HIDE DEF t
<1>6. /\ e \in DayRec /\ e.posts = v.posts /\ e.lines = v.lines /\ e.paused = v.paused /\ e.status = v.status
      /\ e.people[p] = t /\ \A x \in Staff : x # p => e.people[x] = v.people[x]
  BY <1>1, <1>4, <1>5, PersonSet
<1>7. \A x \in Staff : Alike(d.people[x], e.people[x]) /\ (d.people[x].restored => e.people[x].restored)
                       /\ e.people[x].seq = d.people[x].seq
  BY <1>1, <1>5, <1>6 DEF Alike, s
<1>8. Kept(d, e)
  <2>1. \A x \in Staff : e.people[x].seq >= d.people[x].seq
    BY <1>7, DayParts DEF PersonRec
  <2> QED
    BY <1>1, <1>6, <1>7, <2>1 DEF Kept, Effect
<1>9. \A q \in Posts : /\ e.posts[q].occ = IF d.posts[q].occ = p THEN None ELSE d.posts[q].occ
                       /\ e.posts[q].open = d.posts[q].open /\ e.posts[q].hold = d.posts[q].hold
  BY <1>1, <1>6
<1>10. Free(e, p)
  BY <1>2, <1>9 DEF Free
<1>11. e.lines = d.lines
  BY <1>1, <1>6
<1>12. ASSUME Board(d) PROVE Apart(e) /\ Seated(e) /\ Posted(e, Staff \ {p}) /\ Planned(e)
  <2>1. Apart(d) /\ Seated(d) /\ Posted(d, Staff) /\ Planned(d)
    BY <1>12 DEF Board
  <2>2. \A x \in Staff : e.people[x].st = d.people[x].st
    BY <1>7 DEF Alike
  <2>3. \A q \in Posts : d.posts[q].occ \in Staff \cup {None}
    BY PostsTyped
  <2>4. Apart(e)
    BY <1>9, <2>1 DEF Apart
  <2>5. Seated(e)
    BY <1>9, <1>11, <2>1, <2>2, <2>3 DEF Seated
  <2>6. Posted(e, Staff \ {p})
    BY <1>9, <2>1, <2>2 DEF Posted
  <2>7. Planned(e)
    BY <1>9, <2>1, <2>2, <2>3 DEF Planned
  <2> QED
    BY <2>4, <2>5, <2>6, <2>7
<1> QED
  BY <1>7, <1>8, <1>9, <1>10, <1>11, <1>12 DEF OffBoard

LEMMA KeptOver ==
    ASSUME NEW d \in DayRec, NEW c \in DayRec, NEW e, Kept(d, c), Kept(c, e),
           \A x \in Staff : Alike(d.people[x], c.people[x]) /\ c.people[x].seq = d.people[x].seq
    PROVE  Kept(d, e)
<1>1. \A x \in Staff : Effect(x, d.people[x], e.people[x], now)
  <2> SUFFICES ASSUME NEW x \in Staff PROVE Effect(x, d.people[x], e.people[x], now)
    OBVIOUS
  <2> DEFINE s == d.people[x]
             t == c.people[x]
             u == e.people[x]
  <2>1. Effect(x, s, t, now) /\ Effect(x, t, u, now) /\ Alike(s, t) /\ t.seq = s.seq
    BY DEF Kept
  <2> HIDE DEF s, t, u
  <2>2. Effect(x, s, u, now)
    BY <2>1 DEF Effect, Alike
  <2> QED
    BY <2>2 DEF s, u
<1> QED
  BY <1>1 DEF Kept

\* p changes places with whoever is on q.
Swapping(d, c, p, q) ==
    LET source == PostsOf(d, p)
        original == d.posts[q].occ
    IN  [occ |-> [x \in Posts |-> IF x = q THEN p ELSE IF x \in source THEN original ELSE c.posts[x].occ],
         out |-> IF source = {} THEN original ELSE None,
         entered |-> {p} \cup (IF source = {} THEN {} ELSE {original} \ {None})]

LEMMA SwapTyped ==
    ASSUME NEW d \in DayRec, NEW p \in Staff, NEW q \in Posts, NEW c \in DayRec, NEW r, r = Swapping(d, c, p, q)
    PROVE  r.occ \in Places /\ r.out \in Staff \cup {None}
<1>1. /\ \A x \in Posts : d.posts[x].occ \in Staff \cup {None}
      /\ \A x \in Posts : c.posts[x].occ \in Staff \cup {None}
  BY PostsTyped
<1> QED
  BY <1>1 DEF Swapping, Places

LEMMA SwapRouted ==
    ASSUME NEW d \in DayRec, NEW p \in Staff, NEW q \in Posts, Board(d), d.posts[q].open, d.lines[q[1]].active,
           d.posts[q].occ # p, NEW c, c = Lifted(d, p), NEW r, r = Swapping(d, c, p, q)
    PROVE  Routed(c, r, p)
<1> DEFINE source == PostsOf(d, p)
           original == d.posts[q].occ
<1>1. /\ c \in DayRec /\ c.lines = d.lines
      /\ \A x \in Staff : c.people[x].st = d.people[x].st
      /\ \A x \in Posts : c.posts[x].occ = (IF d.posts[x].occ = p THEN None ELSE d.posts[x].occ) /\ c.posts[x].open = d.posts[x].open
  <2>1. Kept(d, c) /\ OffBoard(d, p, c)
    BY LiftedIs
  <2> QED
    BY <2>1 DEF Kept, Alike, OffBoard
<1>2. /\ \A x \in Posts : d.posts[x].occ \in Staff \cup {None}
      /\ None \notin Staff /\ p # None
  BY PostsTyped, PlanAssumption
<1>3. Apart(d) /\ Seated(d)
  BY DEF Board
<1>4. /\ source \subseteq Posts /\ q \notin source
      /\ \A x \in Posts : x \in source <=> d.posts[x].occ = p
      /\ \A x, y \in source : x = y
  BY <1>2, <1>3 DEF PostsOf, Apart
<1>5. /\ r.occ = [x \in Posts |-> IF x = q THEN p ELSE IF x \in source THEN original ELSE c.posts[x].occ]
      /\ r.out = IF source = {} THEN original ELSE None
      /\ r.entered = {p} \cup (IF source = {} THEN {} ELSE {original} \ {None})
  BY DEF Swapping
<1> HIDE DEF source
<1>6. r.occ \in Places /\ r.out \in Staff \cup {None} /\ r.out # p
  <2>1. r.occ \in Places /\ r.out \in Staff \cup {None}
    BY <1>1, SwapTyped
  <2> QED
    BY <1>2, <1>5, <2>1
<1>7. \A x \in Posts : r.occ[x] = IF x = q THEN p ELSE IF x \in source THEN original ELSE d.posts[x].occ
  BY <1>1, <1>4, <1>5
<1>8. \A x \in Posts : r.occ[x] # c.posts[x].occ => c.posts[x].open /\ c.lines[x[1]].active
  BY <1>1, <1>2, <1>3, <1>4, <1>7 DEF Seated
<1>9. \A x, y \in Posts : r.occ[x] = r.occ[y] /\ r.occ[x] # None => x = y
  BY <1>3, <1>4, <1>7 DEF Apart
<1>10. \A x \in Posts : r.occ[x] \notin {None, p} => \E y \in Posts : c.posts[y].occ = r.occ[x]
  BY <1>1, <1>4, <1>7
<1>11. \A x \in Posts : c.posts[x].occ \notin {None, r.out} => \E y \in Posts : r.occ[y] = c.posts[x].occ
  <2> SUFFICES ASSUME NEW x \in Posts, c.posts[x].occ \notin {None, r.out} PROVE \E y \in Posts : r.occ[y] = c.posts[x].occ
    OBVIOUS
  <2>1. d.posts[x].occ # p /\ c.posts[x].occ = d.posts[x].occ
    BY <1>1
  <2>2. CASE x = q
    <3>1. source # {}
      BY <1>5, <2>1, <2>2
    <3>2. PICK y \in source : TRUE
      BY <3>1
    <3> QED
      BY <1>4, <1>7, <2>1, <2>2, <3>2
  <2>3. CASE x # q
    BY <1>4, <1>7, <2>1, <2>3
  <2> QED
    BY <2>2, <2>3
<1>12. \A x \in Posts : r.out # None => r.occ[x] # r.out
  BY <1>2, <1>3, <1>4, <1>5, <1>7 DEF Apart
<1>13. \E x \in Posts : r.occ[x] = p
  BY <1>7
<1>14. r.entered = {r.occ[x] : x \in {s \in Posts : r.occ[s] # c.posts[s].occ}} \ {None}
  <2>1. r.occ[q] = p /\ c.posts[q].occ # p
    BY <1>1, <1>7
  <2>2. ASSUME NEW x \in Posts, r.occ[x] # c.posts[x].occ, r.occ[x] # None PROVE r.occ[x] \in r.entered
    BY <1>1, <1>4, <1>5, <1>7, <2>2
  <2>3. ASSUME NEW o \in r.entered PROVE o # None /\ \E x \in Posts : r.occ[x] # c.posts[x].occ /\ r.occ[x] = o
    <3>1. CASE o = p
      BY <1>2, <2>1, <3>1
    <3>2. CASE o # p
      <4>1. source # {} /\ o = original /\ o # None
        BY <1>5, <2>3, <3>2
      <4>2. PICK x \in source : TRUE
        BY <4>1
      <4> QED
        BY <1>1, <1>4, <1>7, <4>1, <4>2
    <3> QED
      BY <3>1, <3>2
  <2> QED
    BY <2>2, <2>3
<1> QED
  BY <1>6, <1>8, <1>9, <1>10, <1>11, <1>12, <1>13, <1>14 DEF Routed

Placing(d, c, p, q, mode) ==
    IF mode = "swap" THEN Swapping(d, c, p, q) ELSE Route(c, q[1], "push", None, p, now, q[2])
Placed(c, p, q, r) == Moved(c, p, q[1], "push", None, r, TRUE)

LEMMA PlacedIs ==
    ASSUME NEW d \in DayRec, NEW p \in Staff, NEW q \in Posts, now \in Nat,
           d.lines[q[1]].active, d.posts[q].open, ~d.posts[q].hold, q \notin PostsOf(d, p),
           NEW c, c = Lifted(d, p), NEW mode, NEW r, r = Placing(d, c, p, q, mode), NEW e, e = Placed(c, p, q, r)
    PROVE  Kept(d, e) /\ (Board(d) => Board(e))
<1> DEFINE l == q[1]
           k == "push"
           target == None
           manual == TRUE
<1>1. /\ Kept(d, c) /\ c.lines = d.lines /\ Free(c, p)
      /\ \A x \in Staff : Alike(d.people[x], c.people[x]) /\ c.people[x].seq = d.people[x].seq
      /\ \A x \in Posts : c.posts[x].open = d.posts[x].open /\ c.posts[x].hold = d.posts[x].hold
  <2>1. Kept(d, c) /\ Free(c, p) /\ OffBoard(d, p, c)
    BY LiftedIs
  <2> QED
    BY <2>1 DEF OffBoard
<1>2. c \in DayRec
  BY <1>1 DEF Kept
<1>3. l \in Lines /\ q[2] \in Nat /\ k \in Kinds /\ k # "push7" /\ target \in Staff \cup {None}
  BY PostsAre DEF Kinds
<1>4. {x \in Indexes(c, l) : x[2] >= q[2]} # {}
  <2>1. q \in Indexes(c, l)
    BY <1>1 DEF Indexes
  <2> QED
    BY <1>3, <2>1
<1>5. e = Moved(c, p, l, k, target, r, manual) /\ manual \in BOOLEAN
  BY DEF Placed
<1>6. r = IF mode = "swap" THEN Swapping(d, c, p, q) ELSE Route(c, l, k, target, p, now, q[2])
  BY DEF Placing
<1> HIDE DEF l, k, manual
<1>7. r.occ \in Places /\ r.out \in Staff \cup {None}
  <2>1. CASE mode = "swap"
    BY <1>2, <1>6, <2>1, SwapTyped
  <2>2. CASE mode # "swap"
    BY <1>2, <1>3, <1>4, <1>6, <2>2, RouteTyped
  <2> QED
    BY <2>1, <2>2
<1>8. Kept(c, e)
  BY <1>2, <1>3, <1>5, <1>7, MovedKept
<1>9. Kept(d, e)
  BY <1>1, <1>2, <1>8, KeptOver
<1>10. ASSUME Board(d) PROVE Board(e)
  <2>1. Apart(c) /\ Seated(c) /\ Posted(c, Staff \ {p}) /\ Planned(c)
    BY <1>10, LiftedIs
  <2>2. d.posts[q].occ # p
    BY DEF PostsOf
  <2>3. Routed(c, r, p)
    <3>1. CASE mode = "swap"
      BY <1>6, <1>10, <2>2, <3>1, SwapRouted
    <3>2. CASE mode # "swap"
      BY <1>1, <1>2, <1>3, <1>4, <1>6, <2>1, <3>2, PushRouted
    <3> QED
      BY <3>1, <3>2
  <2> QED
    BY <1>1, <1>2, <1>3, <1>5, <2>1, <2>3, MovedBoard
<1> QED
  BY <1>9, <1>10

LEMMA ResortedIs ==
    ASSUME NEW d \in DayRec, NEW b, now \in Nat, NEW e, e = Resorted(b, d)
    PROVE  Kept(d, e) /\ e.people = d.people /\ (Board(d) => Board(e))
<1> DEFINE B(l) == LET p == HeadOccupant(d, l)
                   IN  p # None /\ p # HeadOccupant(b, l) /\ d.people[p].st = "onpost"
           L(l) == IF B(l) THEN [d.lines[l] EXCEPT !.sortAt = now] ELSE d.lines[l]
           li == [l \in Lines |-> L(l)]
<1>1. /\ d.posts \in [Posts -> PostRec] /\ \A l \in Lines : d.lines[l] \in LineRec
      /\ d = [people |-> d.people, posts |-> d.posts, lines |-> d.lines, paused |-> d.paused, status |-> d.status]
  BY DayParts
<1>2. e = [d EXCEPT !.lines = li]
  BY DEF Resorted
<1> HIDE DEF B
<1>3. \A l \in Lines : L(l) \in LineRec /\ L(l).active = d.lines[l].active
  BY <1>1 DEF LineRec
<1> HIDE DEF L
<1>4. li \in [Lines -> LineRec] /\ \A l \in Lines : li[l] = L(l)
  BY <1>3
<1> HIDE DEF li
<1>5. e = [people |-> d.people, posts |-> d.posts, lines |-> li, paused |-> d.paused, status |-> d.status]
  BY <1>1, <1>2
<1>6. \A l \in Lines : d.lines[l].active => li[l].active
  BY <1>3, <1>4
<1>7. Kept(d, e) /\ (Board(d) => Board(e))
  BY <1>1, <1>4, <1>5, <1>6, StillMade
<1> QED
  BY <1>5, <1>7

-----------------------------------------------------------------------------
(* The checkpoints of a day, and what is taken back from them. *)

PartsOf(S, T) == UNION {[A -> T] : A \in SUBSET S}
Entries == [posts : PartsOf(Posts, PostRec), people : PartsOf(Staff, PersonRec), lines : PartsOf(Lines, LineRec)]

LEMMA PartIs ==
    ASSUME NEW S, NEW T, NEW f
    PROVE  f \in PartsOf(S, T) <=> \E A \in SUBSET S : f \in [A -> T]
  BY DEF PartsOf

LEMMA CheckpointTyped ==
    ASSUME NEW d \in DayRec, NEW e \in DayRec, NEW c, c = Checkpoint(d, e)
    PROVE  c \in Entries
<1> DEFINE posts == {q \in Posts : d.posts[q] # e.posts[q]}
           people == ({d.posts[q].occ : q \in posts} \cup {e.posts[q].occ : q \in posts}) \ {None}
           lines == {q[1] : q \in posts}
           po == [q \in posts |-> d.posts[q]]
           pe == [p \in people |-> d.people[p]]
           li == [l \in lines |-> d.lines[l]]
<1>1. /\ \A q \in Posts : d.posts[q] \in PostRec /\ d.posts[q].occ \in Staff \cup {None} /\ e.posts[q].occ \in Staff \cup {None}
      /\ \A x \in Staff : d.people[x] \in PersonRec
      /\ \A l \in Lines : d.lines[l] \in LineRec
  BY PostsTyped
<1>2. posts \in SUBSET Posts /\ people \in SUBSET Staff /\ lines \in SUBSET Lines
  BY <1>1, PostsAre
<1>3. c = [posts |-> po, people |-> pe, lines |-> li]
  BY DEF Checkpoint
<1> HIDE DEF posts, people, lines
<1>4. po \in [posts -> PostRec] /\ pe \in [people -> PersonRec] /\ li \in [lines -> LineRec]
  BY <1>1, <1>2
<1> HIDE DEF po, pe, li
<1>5. po \in PartsOf(Posts, PostRec) /\ pe \in PartsOf(Staff, PersonRec) /\ li \in PartsOf(Lines, LineRec)
  BY <1>2, <1>4, PartIs
<1> QED
  BY <1>3, <1>5 DEF Entries

LEMMA ReversedTyped == Reversed \in Entries
<1> DEFINE po == [q \in {} |-> None]
           pe == [p \in {} |-> None]
           li == [l \in {} |-> None]
<1>1. po \in [{} -> PostRec] /\ pe \in [{} -> PersonRec] /\ li \in [{} -> LineRec]
  OBVIOUS
<1>2. Reversed = [posts |-> po, people |-> pe, lines |-> li]
  BY DEF Reversed
<1> HIDE DEF po, pe, li
<1>3. po \in PartsOf(Posts, PostRec) /\ pe \in PartsOf(Staff, PersonRec) /\ li \in PartsOf(Lines, LineRec)
  BY <1>1, PartIs
<1> QED
  BY <1>2, <1>3 DEF Entries

LEMMA RecordedTyped ==
    ASSUME NEW d \in DayRec, NEW e \in DayRec, log \in Seq(Entries)
    PROVE  Recorded(d, e) \in Seq(Entries)
<1> DEFINE c == Checkpoint(d, e)
<1>1. c \in Entries
  BY CheckpointTyped
<1> HIDE DEF c
<1>2. Append(log, c) \in Seq(Entries)
  BY <1>1
<1> QED
  BY <1>2 DEF Recorded, c

\* What is kept is of its kind, so what is taken back is.
LEMMA BeforeTyped ==
    ASSUME NEW S, NEW T, NEW old \in [S -> T], NEW I \in SUBSET Nat, NEW steps \in SUBSET I,
           NEW kept, \A i \in I : kept[i] \in PartsOf(S, T), NEW new, new = Before(old, kept, steps)
    PROVE  new \in [S -> T]
<1> DEFINE of(x) == {i \in steps : x \in DOMAIN kept[i]}
           first(x) == CHOOSE i \in of(x) : \A j \in of(x) : i <= j
           F(x) == IF of(x) = {} THEN old[x] ELSE kept[first(x)][x]
<1>1. new = [x \in S |-> F(x)]
  BY DEF Before
<1>2. ASSUME NEW x \in S PROVE F(x) \in T
  <2>1. CASE of(x) = {}
    BY <2>1
  <2>2. CASE of(x) # {}
    <3>1. of(x) \subseteq Nat
      OBVIOUS
    <3>2. PICK i \in of(x) : \A j \in of(x) : i <= j
      BY <2>2, <3>1, LeastExists
    <3>3. first(x) \in of(x)
      BY <3>2
    <3> DEFINE k == first(x)
    <3>4. k \in I /\ x \in DOMAIN kept[k]
      BY <3>3
    <3> HIDE DEF k
    <3>5. PICK A \in SUBSET S : kept[k] \in [A -> T]
      BY <3>4, PartIs
    <3>6. kept[k][x] \in T
      BY <3>4, <3>5
    <3> QED
      BY <2>2, <3>6 DEF k
  <2> QED
    BY <2>1, <2>2
<1> HIDE DEF F
<1> QED
  BY <1>1, <1>2

LEMMA TakenBackTyped ==
    ASSUME NEW d \in DayRec, log \in Seq(Entries), NEW steps \in SUBSET DOMAIN log, NEW e, e = TakenBack(d, steps)
    PROVE  e \in DayRec /\ e.status = d.status
<1> DEFINE kpe == [i \in DOMAIN log |-> log[i].people]
           kpo == [i \in DOMAIN log |-> log[i].posts]
           kli == [i \in DOMAIN log |-> log[i].lines]
           bpe == Before(d.people, kpe, steps)
           bpo == Before(d.posts, kpo, steps)
           bli == Before(d.lines, kli, steps)
           b(x) == \E i \in steps : x \in DOMAIN log[i].people
           P(x) == IF b(x) THEN [bpe[x] EXCEPT !.seq = bpe[x].seq + 1] ELSE bpe[x]
           pe == [x \in Staff |-> P(x)]
<1>1. /\ d.people \in [Staff -> PersonRec] /\ d.posts \in [Posts -> PostRec] /\ d.lines \in [Lines -> LineRec]
      /\ d = [people |-> d.people, posts |-> d.posts, lines |-> d.lines, paused |-> d.paused, status |-> d.status]
  BY DayParts
<1>2. DOMAIN log \in SUBSET Nat
  OBVIOUS
<1>3. \A i \in DOMAIN log : log[i] \in Entries
  OBVIOUS
<1>4. /\ \A i \in DOMAIN log : kpe[i] \in PartsOf(Staff, PersonRec)
      /\ \A i \in DOMAIN log : kpo[i] \in PartsOf(Posts, PostRec)
      /\ \A i \in DOMAIN log : kli[i] \in PartsOf(Lines, LineRec)
  BY <1>3 DEF Entries
<1> HIDE DEF kpe, kpo, kli
<1>5. bpe \in [Staff -> PersonRec] /\ bpo \in [Posts -> PostRec] /\ bli \in [Lines -> LineRec]
  BY <1>1, <1>2, <1>4, BeforeTyped
<1>6. e = [d EXCEPT !.posts = bpo, !.lines = bli, !.people = pe]
  BY DEF TakenBack, kpe, kpo, kli
<1> HIDE DEF bpe, bpo, bli, b
<1>7. \A x \in Staff : P(x) \in PersonRec
  <2> SUFFICES ASSUME NEW x \in Staff PROVE P(x) \in PersonRec
    OBVIOUS
  <2> DEFINE s == bpe[x]
             n == s.seq + 1
             t == [s EXCEPT !.seq = n]
  <2>1. s \in PersonRec /\ P(x) = IF b(x) THEN t ELSE s
    BY <1>5
  <2> HIDE DEF s
  <2>2. n \in Nat
    BY <2>1 DEF PersonRec
  <2> HIDE DEF n
  <2>3. t \in PersonRec
    BY <2>1, <2>2 DEF PersonRec
  <2> HIDE DEF t, P
  <2> QED
    BY <2>1, <2>3
<1> HIDE DEF P
<1>8. pe \in [Staff -> PersonRec]
  BY <1>7
<1> HIDE DEF pe
<1> QED
  BY <1>1, <1>5, <1>6, <1>8 DEF DayRec

\* The steps an undo takes back are steps of the log.
LEMMA ChosenIs ==
    ASSUME log \in Seq(Entries), NEW l, \E i \in DOMAIN log : l \in DOMAIN log[i].lines
    PROVE  Chosen(l) \in SUBSET DOMAIN log
<1> DEFINE T == {i \in DOMAIN log : l \in DOMAIN log[i].lines}
           G == {Len(log) - i : i \in T}
           Hindmost(i) == l \in DOMAIN log[i].lines /\ \A j \in (i + 1)..Len(log) : l \notin DOMAIN log[j].lines
           anchor == CHOOSE i \in DOMAIN log : Hindmost(i)
<1>1. Len(log) \in Nat /\ DOMAIN log = 1..Len(log)
  OBVIOUS
<1>2. T \subseteq 1..Len(log) /\ T # {}
  BY <1>1
<1>3. G \subseteq Nat /\ G # {}
  BY <1>1, <1>2
<1>4. PICK g \in G : \A h \in G : g <= h
  BY <1>3, LeastExists
<1>5. PICK i \in T : g = Len(log) - i
  BY <1>4
<1>6. ASSUME NEW j \in (i + 1)..Len(log), l \in DOMAIN log[j].lines PROVE FALSE
  <2>1. j \in T /\ i \in Nat /\ j \in Nat /\ j > i
    BY <1>1, <1>2, <1>6
  <2>2. Len(log) - i <= Len(log) - j
    BY <1>4, <1>5, <2>1
  <2> QED
    BY <1>1, <2>1, <2>2
<1>7. Hindmost(i) /\ i \in DOMAIN log
  BY <1>5, <1>6
<1> HIDE DEF Hindmost
<1>8. anchor \in DOMAIN log
  BY <1>7
<1>9. Chosen(l) \subseteq anchor..Len(log)
  BY DEF Chosen, Hindmost
<1> HIDE DEF anchor
<1> QED
  BY <1>1, <1>8, <1>9

-----------------------------------------------------------------------------
(* The day, step by step. *)

\* Every answer was to a question that has been put behind.
Behind == \A t \in receipts : t[1] \in Staff /\ t[3] \in Nat /\ t[3] < day.people[t[1]].seq

DayState ==
    /\ now \in 0..DayEnd /\ acts \in 0..MaxActs /\ undone \in BOOLEAN /\ waited \in [Staff -> 0..Grace]
    /\ day \in DayRec /\ log \in Seq(Entries)
    /\ day.status = "live" => now < DayEnd

DayInv ==
    /\ DayState
    /\ ~undone => Board(day) /\ Behind /\ (day.status = "live" => Future(day, now))

LEMMA WaitedTyped ==
    ASSUME waited \in [Staff -> 0..Grace], NEW p \in Staff, NEW more \in {0, 1}
    PROVE  Waiting(p, more) \in 0..Grace
<1> DEFINE s == day.people[p]
           t == day'.people[p]
           w == waited[p] + more
           b == /\ s.st \in {"rest", "ready", "exception"}
                /\ t.st = "exception" \/ (t.st \in {"rest", "ready"} /\ t.readyAt = s.readyAt)
<1>1. waited[p] \in 0..Grace /\ Grace \in Nat
  BY SettingsTyped
<1>2. Waiting(p, more) = IF b THEN IF w > Grace THEN Grace ELSE w ELSE 0
  BY DEF Waiting
<1> HIDE DEF b
<1>3. w \in Nat
  BY <1>1
<1> HIDE DEF w
<1> QED
  BY <1>1, <1>2, <1>3

LEMMA PublishedIs ==
    Published \in DayRec /\ Board(Published) /\ Published.status = "live"
    /\ \A x \in Staff : Published.people[x].restored = FALSE
<1> DEFINE s == [st |-> "notyet", readyAt |-> 0, timeoutAt |-> 0, exit |-> "none",
                 restored |-> FALSE, seq |-> 0, seven |-> FALSE]
           O(q) == IF q \notin Spare /\ \E p \in Staff : Seat[p] = q /\ Start[p] > 0
                   THEN CHOOSE p \in Staff : Seat[p] = q ELSE None
           F(q) == [occ |-> O(q), open |-> q \notin Spare, shut |-> q \in Spare, hold |-> FALSE, resume |-> FALSE]
           pe == [p \in Staff |-> s]
           po == [q \in Posts |-> F(q)]
           li == [l \in Lines |-> [active |-> TRUE, sortAt |-> 0, adding |-> FALSE]]
<1>1. Published = [people |-> pe, posts |-> po, lines |-> li, paused |-> None, status |-> "live"]
  BY DEF Published
<1>2. \A q \in Posts : /\ O(q) \in Staff \cup {None}
                       /\ O(q) # None => Seat[O(q)] = q /\ q \notin Spare
  BY PlanAssumption
<1>3. \A q \in Posts : F(q).occ = O(q) /\ (q \notin Spare => F(q).open)
  OBVIOUS
<1>4. \A q \in Posts : F(q) \in PostRec
  <2> SUFFICES ASSUME NEW q \in Posts PROVE F(q) \in PostRec
    OBVIOUS
  <2> DEFINE o == O(q)
             b == q \notin Spare
             c == q \in Spare
  <2>1. o \in Staff \cup {None} /\ b \in BOOLEAN /\ c \in BOOLEAN
    BY <1>2
  <2>2. F(q) = [occ |-> o, open |-> b, shut |-> c, hold |-> FALSE, resume |-> FALSE]
    OBVIOUS
  <2> HIDE DEF o, b, c, F
  <2> QED
    BY <2>1, <2>2 DEF PostRec
<1> HIDE DEF O
<1> HIDE DEF F
<1>5. s \in PersonRec /\ s.st = "notyet" /\ s.restored = FALSE
  BY DEF PersonRec, States
<1> HIDE DEF s
<1>6. pe \in [Staff -> PersonRec] /\ \A x \in Staff : pe[x] = s
  BY <1>5
<1>7. po \in [Posts -> PostRec] /\ \A q \in Posts : po[q] = F(q)
  BY <1>4
<1>8. li \in [Lines -> LineRec] /\ \A l \in Lines : li[l].active
  BY DEF LineRec
<1> HIDE DEF pe, po, li
<1>9. /\ Published.people = pe /\ Published.posts = po /\ Published.lines = li /\ Published.status = "live"
      /\ Published \in DayRec
  BY <1>1, <1>6, <1>7, <1>8 DEF DayRec
<1>10. \A x \in Staff : Published.people[x].st = "notyet" /\ Published.people[x].restored = FALSE
  BY <1>5, <1>6, <1>9
<1>11. \A q \in Posts : Published.posts[q].occ = O(q) /\ (q \notin Spare => Published.posts[q].open)
  BY <1>3, <1>7, <1>9
<1>12. Apart(Published)
  BY <1>2, <1>11 DEF Apart
<1>13. Seated(Published)
  BY <1>2, <1>8, <1>9, <1>10, <1>11, PostsAre DEF Seated
<1>14. Posted(Published, Staff)
  BY <1>10 DEF Posted
<1>15. Planned(Published)
  BY <1>2, <1>11 DEF Planned
<1> QED
  BY <1>9, <1>10, <1>12, <1>13, <1>14, <1>15 DEF Board

LEMMA DayStarts == DayInit => DayInv
<1> SUFFICES ASSUME DayInit PROVE DayInv
  OBVIOUS
<1>1. /\ now = 0 /\ day = Tick(Published, 0) /\ log = <<>> /\ receipts = {} /\ undone = FALSE /\ acts = 0
      /\ waited = [p \in Staff |-> 0]
  BY DEF DayInit
<1>2. 0 < DayEnd /\ DayEnd \in Nat /\ Grace \in Nat /\ MaxActs \in Nat
  BY SettingsTyped
<1>3. day \in DayRec /\ day.status = "live" /\ Future(day, 0) /\ Board(day)
  BY <1>1, <1>2, PublishedIs, TickIs
<1>4. log \in Seq(Entries)
  BY <1>1
<1>5. waited \in [Staff -> 0..Grace]
  BY <1>1, <1>2
<1>6. now \in 0..DayEnd /\ acts \in 0..MaxActs /\ undone \in BOOLEAN
  <2>1. 0 \in 0..DayEnd /\ 0 \in 0..MaxActs
    BY <1>2
  <2>2. undone \in BOOLEAN
    BY <1>1, Zenon
  <2> QED
    BY <1>1, <2>1, <2>2, Zenon
<1>7. DayState
  BY <1>1, <1>2, <1>3, <1>4, <1>5, <1>6 DEF DayState
<1>8. Behind
  BY <1>1 DEF Behind
<1> QED
  BY <1>1, <1>3, <1>7, <1>8 DEF DayInv

\* A step that the clock follows, and what it may do to the day.
Effected == \E d : Kept(day, d) /\ Finish(d)

\* What an operation leads to, once the clock has ticked and the step is kept.
LEMMA FinishKeeps ==
    ASSUME DayInv, NEW d, Kept(day, d), Finish(d), acts' \in 0..MaxActs,
           ~undone /\ Board(day) => Board(d),
           ~undone /\ Behind => \A t \in receipts' : t[1] \in Staff /\ t[3] \in Nat /\ t[3] < d.people[t[1]].seq
    PROVE  DayInv' /\ Effected
<1>1. /\ day.status = "live" /\ day' = Tick(d, now) /\ log' = Recorded(day, day')
      /\ waited' = [p \in Staff |-> Waiting(p, 0)] /\ now' = now /\ undone' = undone
  BY DEF Finish
<1>2. /\ now \in Nat /\ now < DayEnd /\ now \in 0..DayEnd /\ undone \in BOOLEAN /\ waited \in [Staff -> 0..Grace]
      /\ day \in DayRec /\ log \in Seq(Entries)
  BY <1>1, SettingsTyped DEF DayInv, DayState
<1>3. d \in DayRec /\ d.status = "live"
  BY <1>1 DEF Kept
<1>4. /\ day' \in DayRec /\ day'.status = "live" /\ Future(day', now) /\ (Board(d) => Board(day'))
      /\ \A x \in Staff : day'.people[x].seq = d.people[x].seq
  BY <1>1, <1>2, <1>3, TickIs
<1>5. log' \in Seq(Entries)
  BY <1>1, <1>2, <1>4, RecordedTyped
<1>6. waited' \in [Staff -> 0..Grace]
  BY <1>1, <1>2, WaitedTyped
<1>7. DayState'
  BY <1>1, <1>2, <1>4, <1>5, <1>6 DEF DayState
<1>8. ASSUME ~undone PROVE Board(day') /\ Behind' /\ Future(day', now')
  BY <1>1, <1>4, <1>8 DEF DayInv, Behind
<1>9. DayInv'
  BY <1>1, <1>7, <1>8 DEF DayInv, Board, Future, Apart, Seated, Posted, Planned
<1>10. Effected
  BY DEF Effected
<1> QED
  BY <1>9, <1>10

\* The manager's operations: nobody's question is answered.
LEMMA ManagerKeeps ==
    ASSUME DayInv, NEW d, Manager(d), Kept(day, d), Board(day) => Board(d)
    PROVE  DayInv' /\ Effected
<1>1. /\ Finish(d) /\ receipts' = receipts /\ acts < MaxActs /\ acts' = acts + 1
  BY DEF Manager
<1>2. acts \in 0..MaxActs /\ MaxActs \in Nat /\ day \in DayRec
  BY SettingsTyped DEF DayInv, DayState
<1>3. acts' \in 0..MaxActs
  BY <1>1, <1>2
<1>4. \A x \in Staff : d.people[x].seq >= day.people[x].seq /\ d.people[x].seq \in Nat /\ day.people[x].seq \in Nat
  <2>1. d \in DayRec /\ \A x \in Staff : d.people[x].seq >= day.people[x].seq
    BY DEF Kept, Effect
  <2> QED
    BY <1>2, <2>1, PostsTyped DEF PersonRec
<1>5. ASSUME Behind PROVE \A t \in receipts' : t[1] \in Staff /\ t[3] \in Nat /\ t[3] < d.people[t[1]].seq
  <2> SUFFICES ASSUME NEW t \in receipts PROVE t[1] \in Staff /\ t[3] \in Nat /\ t[3] < d.people[t[1]].seq
    BY <1>1
  <2>1. t[1] \in Staff /\ t[3] \in Nat /\ t[3] < day.people[t[1]].seq
    BY <1>5 DEF Behind
  <2> QED
    BY <1>4, <2>1
<1> QED
  BY <1>1, <1>3, <1>5, FinishKeeps

\* The confirmations: the question of the person is put behind.
LEMMA AnswerKeeps ==
    ASSUME DayInv, NEW p \in Staff, NEW act, NEW d, Answers(p, act), Finish(d), Kept(day, d),
           ~undone /\ Board(day) => Board(d) /\ d.people[p].seq > day.people[p].seq
    PROVE  DayInv' /\ Effected
<1> DEFINE k == StepToken(day, p, act)
<1>1. receipts' = receipts \cup {k} /\ acts' = acts
  BY DEF Answers
<1>2. acts \in 0..MaxActs /\ day \in DayRec
  BY DEF DayInv, DayState
<1>3. k[1] = p /\ k[3] = day.people[p].seq
  BY DEF StepToken
<1> HIDE DEF k
<1>4. \A x \in Staff : d.people[x].seq >= day.people[x].seq /\ d.people[x].seq \in Nat /\ day.people[x].seq \in Nat
  <2>1. d \in DayRec /\ \A x \in Staff : d.people[x].seq >= day.people[x].seq
    BY DEF Kept, Effect
  <2> QED
    BY <1>2, <2>1, PostsTyped DEF PersonRec
<1>5. ASSUME ~undone PROVE \A t \in receipts' : t[1] \in Staff /\ t[3] \in Nat /\ t[3] < d.people[t[1]].seq
  <2>1. Board(day) /\ Behind
    BY <1>5 DEF DayInv
  <2>2. ASSUME NEW t \in receipts PROVE t[1] \in Staff /\ t[3] \in Nat /\ t[3] < d.people[t[1]].seq
    <3>1. t[1] \in Staff /\ t[3] \in Nat /\ t[3] < day.people[t[1]].seq
      BY <2>1 DEF Behind
    <3> QED
      BY <1>4, <3>1
  <2>3. k[1] \in Staff /\ k[3] \in Nat /\ k[3] < d.people[k[1]].seq
    BY <1>3, <1>4, <1>5, <2>1
  <2> QED
    BY <1>1, <2>2, <2>3
<1>6. acts' \in 0..MaxActs
  BY <1>1, <1>2
<1>7. ~undone /\ Board(day) => Board(d)
  OBVIOUS
<1> QED
  BY <1>5, <1>6, <1>7, FinishKeeps

LEMMA DepartKeeps ==
    ASSUME DayInv, NEW p \in Staff, Depart(p)
    PROVE  DayInv' /\ Effected
<1> DEFINE a == Offer(day, p)
           d == Departed(day, p, a)
<1>1. MayDepart(day, p) /\ Answers(p, "depart") /\ Finish(d)
  BY DEF Depart, Departed
<1>2. day \in DayRec /\ now \in Nat
  BY SettingsTyped DEF DayInv, DayState
<1>3. a # Unassigned /\ Resting(day, p)
  BY <1>1 DEF MayDepart, Eligible, Resting
<1> HIDE DEF a
<1>4. a = Offer(day, p)
  BY DEF a
<1> HIDE DEF d
<1>5. d = Departed(day, p, a)
  BY DEF d
<1>6. Kept(day, d) /\ (Board(day) /\ Resting(day, p) => Board(d) /\ d.people[p].seq = day.people[p].seq + 1)
  BY <1>2, <1>3, <1>4, <1>5, DepartIs
<1>7. day.people[p].seq \in Nat
  BY <1>2, PostsTyped DEF PersonRec
<1>8. Board(day) => Board(d) /\ d.people[p].seq > day.people[p].seq
  BY <1>3, <1>6, <1>7
<1> QED
  BY <1>1, <1>6, <1>8, AnswerKeeps

Arrived(d, p, dur) == [InPool(d, p, "rest", dur) EXCEPT !.people[p].seq = @ + 1]

LEMMA ArrivedIs ==
    ASSUME NEW d \in DayRec, NEW p \in Staff, NEW dur \in Nat, now \in Nat, NEW e, e = Arrived(d, p, dur)
    PROVE  /\ Kept(d, e) /\ e.people[p].seq > d.people[p].seq
           /\ Board(d) => Board(e)
<1> DEFINE c == InPool(d, p, "rest", dur)
           s == c.people[p]
           n == s.seq + 1
           t == [s EXCEPT !.seq = n]
<1>1. Kept(d, c) /\ s.seq = d.people[p].seq + 1 /\ (Board(d) => Board(c))
  BY InPoolIs DEF Destinations
<1>2. c \in DayRec
  BY <1>1 DEF Kept
<1>3. e = [c EXCEPT !.people[p].seq = n]
  BY DEF Arrived
<1> HIDE DEF c
<1>4. e = WithPerson(c, p, t)
  BY <1>2, <1>3, DayParts DEF WithPerson
<1>5. s \in PersonRec /\ d.people[p].seq \in Nat
  BY <1>2, PostsTyped DEF PersonRec
<1> HIDE DEF s
<1>6. t \in PersonRec /\ Alike(s, t) /\ t.seq = s.seq + 1 /\ t.restored = s.restored
  BY <1>5 DEF PersonRec, Alike
<1> HIDE DEF t
<1>7. /\ e \in DayRec /\ e.posts = c.posts /\ e.lines = c.lines /\ e.paused = c.paused /\ e.status = c.status
      /\ e.people[p] = t /\ \A x \in Staff : x # p => e.people[x] = c.people[x]
  BY <1>2, <1>4, <1>6, PersonSet
<1>8. Effect(p, d.people[p], t, now)
  <2> DEFINE o == d.people[p]
  <2>1. Effect(p, o, s, now)
    BY <1>1 DEF Kept, s
  <2>2. o.seq \in Nat /\ s.seq = o.seq + 1
    BY <1>1, <1>5
  <2> HIDE DEF o
  <2>3. Effect(p, o, t, now)
    BY <1>6, <2>1, <2>2 DEF Effect, Alike
  <2> QED
    BY <2>3 DEF o
<1>9. Kept(d, e)
  BY <1>1, <1>7, <1>8 DEF Kept
<1>10. ASSUME Board(d) PROVE Board(e)
  <2>1. Board(c)
    BY <1>1, <1>10
  <2>2. \A x \in Staff : e.people[x].st = c.people[x].st
    BY <1>6, <1>7 DEF Alike, s
  <2> QED
    BY <1>2, <1>7, <2>1, <2>2, PeopleBoard
<1>11. e.people[p].seq > d.people[p].seq
  BY <1>1, <1>5, <1>6, <1>7
<1> QED
  BY <1>9, <1>10, <1>11

LEMMA ArriveKeeps ==
    ASSUME DayInv, NEW p \in Staff, NEW dur \in Durations, Arrive(p, dur)
    PROVE  DayInv' /\ Effected
<1> DEFINE d == Arrived(day, p, dur)
<1>1. Answers(p, "arrive") /\ Finish(d)
  BY DEF Arrive, Arrived
<1>2. day \in DayRec /\ now \in Nat /\ dur \in Nat
  BY SettingsTyped DEF DayInv, DayState
<1>3. d = Arrived(day, p, dur)
  OBVIOUS
<1> HIDE DEF d
<1>4. Kept(day, d) /\ d.people[p].seq > day.people[p].seq /\ (Board(day) => Board(d))
  BY <1>2, <1>3, ArrivedIs
<1> QED
  BY <1>1, <1>4, AnswerKeeps

\* What every operation of the manager makes of the day.
Managed(d) == Kept(day, d) /\ (Board(day) => Board(d))

LEMMA PoolManaged ==
    ASSUME DayInv, NEW p \in Staff, NEW dest \in Destinations, NEW dur \in Nat
    PROVE  Managed(InPool(day, p, dest, dur))
<1>1. day \in DayRec /\ now \in Nat
  BY SettingsTyped DEF DayInv, DayState
<1> QED
  BY <1>1, InPoolIs DEF Managed

LEMMA OutManaged ==
    ASSUME DayInv, NEW p \in Staff, NEW x \in {"out", "sick"}
    PROVE  Managed(WithExit(day, p, x)) /\ Managed(Sickened(day, p))
<1>1. day \in DayRec
  BY DEF DayInv, DayState
<1> QED
  BY <1>1, ExitKept, SickKept DEF Managed

LEMMA ManagerPoolKeeps ==
    ASSUME DayInv, NEW p \in Staff, NEW dest \in Destinations, NEW dur \in Nat,
           Pool(p, dest, dur) \/ (dest = "rest" /\ Back(p, dur))
    PROVE  DayInv' /\ Effected
<1>1. Manager(InPool(day, p, dest, dur))
  BY DEF Pool, Back
<1>2. Managed(InPool(day, p, dest, dur))
  BY PoolManaged
<1> DEFINE d == InPool(day, p, dest, dur)
<1> HIDE DEF d
<1>3. Manager(d) /\ Managed(d)
  BY <1>1, <1>2 DEF d
<1> QED
  BY <1>3, ManagerKeeps DEF Managed

LEMMA RequestKeeps ==
    ASSUME DayInv, NEW p \in Staff, RequestOut(p) \/ RequestSick(p)
    PROVE  DayInv' /\ Effected
<1>1. \A dest \in Destinations, n \in Nat : Managed(InPool(day, p, dest, n))
  BY PoolManaged
<1>2. Managed(WithExit(day, p, "out")) /\ Managed(WithExit(day, p, "sick")) /\ Managed(Sickened(day, p))
  BY OutManaged
<1>3. CASE RequestOut(p)
  <2> DEFINE d == IF day.people[p].st = "onpost" THEN WithExit(day, p, "out") ELSE InPool(day, p, "away", 0)
  <2>1. Manager(d)
    BY <1>3 DEF RequestOut, WithExit
  <2>2. "away" \in Destinations /\ 0 \in Nat
    BY DEF Destinations
  <2>3. Managed(d)
    BY <1>1, <1>2, <2>2
  <2> HIDE DEF d
  <2> QED
    BY <2>1, <2>3, ManagerKeeps DEF Managed
<1>4. CASE RequestSick(p)
  <2> DEFINE d == IF day.people[p].st = "onpost" THEN WithExit(day, p, "sick") ELSE Sickened(day, p)
  <2>1. Manager(d)
    BY <1>4 DEF RequestSick, WithExit, Sickened
  <2>3. Managed(d)
    BY <1>2
  <2> HIDE DEF d
  <2> QED
    BY <2>1, <2>3, ManagerKeeps DEF Managed
<1> QED
  BY <1>3, <1>4

LEMMA PlaceKeeps ==
    ASSUME DayInv, NEW p \in Staff, NEW q \in Posts, NEW mode \in {"push", "swap"}, NEW sort \in BOOLEAN,
           Place(p, q, mode, sort)
    PROVE  DayInv' /\ Effected
<1> DEFINE c == Lifted(day, p)
           r == Placing(day, c, p, q, mode)
           e == Placed(c, p, q, r)
           d == IF sort THEN Resorted(day, e) ELSE e
<1>1. /\ day.lines[q[1]].active /\ day.posts[q].open /\ ~day.posts[q].hold /\ q \notin PostsOf(day, p)
      /\ Manager(d)
  BY DEF Place, Lifted, Placing, Placed, Swapping
<1>2. day \in DayRec /\ now \in Nat
  BY SettingsTyped DEF DayInv, DayState
<1>3. c = Lifted(day, p) /\ r = Placing(day, c, p, q, mode) /\ e = Placed(c, p, q, r) /\ d = IF sort THEN Resorted(day, e) ELSE e
  OBVIOUS
<1> HIDE DEF c, r, e, d
<1>4. Kept(day, e) /\ (Board(day) => Board(e))
  BY <1>1, <1>2, <1>3, PlacedIs
<1>5. Managed(d)
  <2>1. CASE sort
    <3> DEFINE f == Resorted(day, e)
    <3>1. e \in DayRec
      BY <1>4 DEF Kept
    <3>2. Kept(e, f) /\ f.people = e.people /\ (Board(e) => Board(f))
      BY <1>2, <3>1, ResortedIs
    <3> HIDE DEF f
    <3>3. Kept(day, f)
      BY <1>4, <3>2, KeptFrom
    <3>4. d = f
      BY <1>3, <2>1 DEF f
    <3> QED
      BY <1>4, <3>2, <3>3, <3>4 DEF Managed
  <2>2. CASE ~sort
    BY <1>3, <1>4, <2>2 DEF Managed
  <2> QED
    BY <2>1, <2>2
<1> QED
  BY <1>1, <1>5, ManagerKeeps DEF Managed

LEMMA PostKeeps ==
    ASSUME DayInv, NEW q \in Posts, OpenPost(q) \/ ClosePost(q) \/ Hold(q) \/ Unhold(q)
    PROVE  DayInv' /\ Effected
<1>1. day \in DayRec /\ now \in Nat
  BY SettingsTyped DEF DayInv, DayState
<1>2. PICK d : Manager(d) /\ \/ d = Opened(day, q) \/ d = Closed(day, {q})
                             \/ d = WithHold(day, q, TRUE) \/ d = WithHold(day, q, FALSE)
  BY DEF OpenPost, ClosePost, Hold, Unhold, Opened, WithHold
<1>3. Managed(d)
  <2>1. CASE d = Opened(day, q)
    BY <1>1, <2>1, OpenPostKept DEF Managed
  <2>2. CASE d = Closed(day, {q})
    BY <1>1, <2>2, ClosedIs DEF Managed
  <2>3. CASE d = WithHold(day, q, TRUE) \/ d = WithHold(day, q, FALSE)
    BY <1>1, <2>3, HoldKept DEF Managed
  <2> QED
    BY <1>2, <2>1, <2>2, <2>3
<1> QED
  BY <1>2, <1>3, ManagerKeeps DEF Managed

LEMMA LineKeeps ==
    ASSUME DayInv, NEW l \in Lines, SortTime(l, now) \/ LineOff(l) \/ LineOn(l)
    PROVE  DayInv' /\ Effected
<1>1. day \in DayRec /\ now \in Nat
  BY SettingsTyped DEF DayInv, DayState
<1>2. PICK d : Manager(d) /\ \/ d = WithSort(day, l, now) \/ d = WithLineOff(day, l) \/ d = WithLineOn(day, l)
  BY DEF SortTime, LineOff, LineOn, WithSort, WithLineOff, WithLineOn
<1>3. Managed(d)
  <2>1. CASE d = WithSort(day, l, now)
    BY <1>1, <2>1, SortTimeKept DEF Managed
  <2>2. CASE d = WithLineOff(day, l)
    BY <1>1, <2>2, LineOffKept DEF Managed
  <2>3. CASE d = WithLineOn(day, l)
    BY <1>1, <2>3, LineOnKept DEF Managed
  <2> QED
    BY <1>2, <2>1, <2>2, <2>3
<1> QED
  BY <1>2, <1>3, ManagerKeeps DEF Managed

LEMMA AllCloseKeeps ==
    ASSUME DayInv, AllClose
    PROVE  DayInv' /\ Effected
<1>1. day \in DayRec /\ now \in Nat
  BY SettingsTyped DEF DayInv, DayState
<1>2. PICK d : Manager(d) /\ d = AllClosed(day)
  BY DEF AllClose, AllClosed
<1>3. Managed(d)
  BY <1>1, <1>2, AllCloseKept DEF Managed
<1> QED
  BY <1>2, <1>3, ManagerKeeps DEF Managed

LEMMA AdvanceKeeps ==
    ASSUME DayInv, Advance
    PROVE  DayInv'
<1>1. /\ day.status = "live" /\ now' = now + 1 /\ day' = Tick(day, now + 1)
      /\ waited' = [p \in Staff |-> Waiting(p, IF MayDepart(day, p) THEN 1 ELSE 0)]
      /\ log' = log /\ receipts' = receipts /\ undone' = undone /\ acts' = acts
  BY DEF Advance
<1>2. /\ now \in Nat /\ now < DayEnd /\ DayEnd \in Nat /\ acts \in 0..MaxActs /\ undone \in BOOLEAN /\ waited \in [Staff -> 0..Grace]
      /\ day \in DayRec /\ log \in Seq(Entries)
  BY <1>1, SettingsTyped DEF DayInv, DayState
<1>3. now + 1 \in Nat /\ now + 1 \in 0..DayEnd
  BY <1>2
<1>4. /\ day' \in DayRec
      /\ \A x \in Staff : day'.people[x].seq = day.people[x].seq
      /\ now + 1 < DayEnd => day'.status = "live" /\ Future(day', now + 1) /\ (Board(day) => Board(day'))
      /\ now + 1 >= DayEnd => /\ day'.status = "ended"
                              /\ Board(day) /\ (\A x \in Staff : day.people[x].st # "notyet") => Board(day')
  BY <1>1, <1>2, <1>3, TickIs
<1>5. waited' \in [Staff -> 0..Grace]
  <2>1. \A p \in Staff : (IF MayDepart(day, p) THEN 1 ELSE 0) \in {0, 1}
    OBVIOUS
  <2>2. \A p \in Staff : Waiting(p, IF MayDepart(day, p) THEN 1 ELSE 0) \in 0..Grace
    BY <1>2, <2>1, WaitedTyped
  <2> QED
    BY <1>1, <2>2
<1>6. now + 1 < DayEnd \/ now + 1 >= DayEnd
  BY <1>2
<1>7. DayState'
  BY <1>1, <1>2, <1>3, <1>4, <1>5, <1>6 DEF DayState
<1>8. ASSUME ~undone PROVE Board(day') /\ Behind' /\ (day'.status = "live" => Future(day', now'))
  <2>1. Board(day) /\ Behind /\ Future(day, now)
    BY <1>1, <1>8 DEF DayInv
  <2>2. now + 1 >= DayEnd => \A x \in Staff : day.people[x].st # "notyet"
    <3> SUFFICES ASSUME now + 1 >= DayEnd, NEW x \in Staff, day.people[x].st = "notyet" PROVE FALSE
      OBVIOUS
    <3>1. now < Start[x] /\ Start[x] \in Nat /\ End[x] \in Nat /\ Start[x] < End[x] /\ End[x] <= DayEnd
      BY <2>1, SettingsTyped DEF Future
    <3> QED
      BY <1>2, <3>1
  <2>3. Board(day') /\ (day'.status = "live" => Future(day', now'))
    BY <1>1, <1>4, <1>6, <2>1, <2>2
  <2>4. Behind'
    BY <1>1, <1>4, <2>1 DEF Behind
  <2> QED
    BY <2>3, <2>4
<1> QED
  BY <1>1, <1>7, <1>8 DEF DayInv, Board, Future, Apart, Seated, Posted, Planned

LEMMA RestoreKeeps ==
    ASSUME DayInv, NEW l \in Lines, RestoreLine(l)
    PROVE  DayInv'
<1> DEFINE steps == Chosen(l)
           d == TakenBack(day, steps)
<1>1. /\ day.status = "live" /\ acts < MaxActs /\ acts' = acts + 1
      /\ \E i \in DOMAIN log : l \in DOMAIN log[i].lines
      /\ day' = Tick(d, now)
      /\ log' = [i \in DOMAIN log |-> IF i \in steps THEN Reversed ELSE log[i]]
      /\ waited' = [p \in Staff |-> Waiting(p, 0)]
      /\ undone' = TRUE /\ now' = now
  BY DEF RestoreLine
<1>2. /\ now \in Nat /\ now < DayEnd /\ now \in 0..DayEnd /\ acts \in 0..MaxActs /\ MaxActs \in Nat
      /\ waited \in [Staff -> 0..Grace] /\ day \in DayRec /\ log \in Seq(Entries)
  BY <1>1, SettingsTyped DEF DayInv, DayState
<1>3. steps \in SUBSET DOMAIN log
  BY <1>1, <1>2, ChosenIs
<1> HIDE DEF steps
<1>4. d \in DayRec /\ d.status = "live"
  BY <1>1, <1>2, <1>3, TakenBackTyped
<1> HIDE DEF d
<1>5. day' \in DayRec /\ day'.status = "live"
  BY <1>1, <1>2, <1>4, TickIs
<1>6. log' \in Seq(Entries)
  <2>1. Len(log) \in Nat /\ DOMAIN log = 1..Len(log) /\ \A i \in DOMAIN log : log[i] \in Entries
    BY <1>2
  <2>2. \A i \in DOMAIN log : (IF i \in steps THEN Reversed ELSE log[i]) \in Entries
    BY <2>1, ReversedTyped
  <2>3. log' \in [1..Len(log) -> Entries]
    BY <1>1, <2>1, <2>2
  <2> QED
    BY <2>1, <2>3
<1>7. waited' \in [Staff -> 0..Grace]
  BY <1>1, <1>2, WaitedTyped
<1>8. acts' \in 0..MaxActs
  BY <1>1, <1>2
<1>9. undone' \in BOOLEAN
  BY <1>1, Zenon
<1>10. DayState'
  BY <1>1, <1>2, <1>5, <1>6, <1>7, <1>8, <1>9 DEF DayState
<1> QED
  BY <1>1, <1>10 DEF DayInv

\* Every step is the clock's, an undo, or an operation of which the effect is known.
LEMMA StepIs ==
    ASSUME DayInv, DayNext
    PROVE  Advance \/ (\E l \in Lines : RestoreLine(l)) \/ (DayInv' /\ Effected)
<1>1. CASE Advance
  BY <1>1
<1>2. CASE \E p \in Staff : Depart(p)
  BY <1>2, DepartKeeps
<1>3. CASE \E p \in Staff, dur \in Durations : Arrive(p, dur) \/ Pool(p, "rest", dur) \/ Back(p, dur)
  <2>1. PICK p \in Staff, dur \in Durations : Arrive(p, dur) \/ Pool(p, "rest", dur) \/ Back(p, dur)
    BY <1>3
  <2>2. dur \in Nat /\ "rest" \in Destinations
    BY SettingsTyped DEF Destinations
  <2> QED
    BY <2>1, <2>2, ArriveKeeps, ManagerPoolKeeps
<1>4. CASE \E p \in Staff, dest \in {"pending", "away", "other"} : Pool(p, dest, 0)
  <2>1. PICK p \in Staff, dest \in {"pending", "away", "other"} : Pool(p, dest, 0)
    BY <1>4
  <2>2. dest \in Destinations /\ 0 \in Nat
    BY DEF Destinations
  <2> QED
    BY <2>1, <2>2, ManagerPoolKeeps
<1>5. CASE \E p \in Staff : RequestOut(p) \/ RequestSick(p)
  BY <1>5, RequestKeeps
<1>6. CASE \E p \in Staff, q \in Posts, mode \in {"push", "swap"}, sort \in BOOLEAN : Place(p, q, mode, sort)
  BY <1>6, PlaceKeeps
<1>7. CASE \E l \in Lines : SortTime(l, now) \/ LineOff(l) \/ LineOn(l) \/ RestoreLine(l)
  BY <1>7, LineKeeps
<1>8. CASE \E q \in Posts : OpenPost(q) \/ ClosePost(q) \/ Hold(q) \/ Unhold(q)
  BY <1>8, PostKeeps
<1>9. CASE AllClose
  BY <1>9, AllCloseKeeps
<1> QED
  BY <1>1, <1>2, <1>3, <1>4, <1>5, <1>6, <1>7, <1>8, <1>9 DEF DayNext

LEMMA DayKeeps == DayInv /\ [DayNext]_dayVars => DayInv'
<1> SUFFICES ASSUME DayInv, [DayNext]_dayVars PROVE DayInv'
  OBVIOUS
<1>1. CASE DayNext
  BY <1>1, StepIs, AdvanceKeeps, RestoreKeeps
<1>2. CASE UNCHANGED dayVars
  BY <1>2 DEF dayVars, DayInv, DayState, Behind, Board, Future, Apart, Seated, Posted, Planned
<1> QED
  BY <1>1, <1>2

LEMMA BoardFollows == DayInv => BoardKept
<1> SUFFICES ASSUME DayInv PROVE BoardKept
  OBVIOUS
<1>1. DayState
  BY DEF DayInv
<1>2. DayTyped
  <2>1. \A x \in Staff : day.people[x] \in PersonRec
    BY <1>1, PostsTyped DEF DayState
  <2>2. \A q \in Posts : day.posts[q].occ \in Staff \cup {None}
    BY <1>1, PostsTyped DEF DayState
  <2> QED
    BY <1>1, <2>1, <2>2 DEF DayState, DayTyped, PersonRec, States
<1>3. ASSUME ~undone PROVE OnePlace /\ DutyHasPost /\ ConfirmationOpen
  <2>1. Apart(day) /\ Seated(day) /\ Posted(day, Staff) /\ Behind
    BY <1>3 DEF DayInv, Board
  <2>2. None \notin Staff
    BY PlanAssumption
  <2>3. OnePlace
    BY <2>1, <2>2 DEF OnePlace, StandsOnce, PostsOf, Apart, Seated
  <2>4. DutyHasPost
    BY <2>1 DEF DutyHasPost, PostsOf, Posted
  <2>5. \A p \in Staff : \A act : StepToken(day, p, act) \notin receipts
    <3> SUFFICES ASSUME NEW p \in Staff, NEW act, StepToken(day, p, act) \in receipts PROVE FALSE
      OBVIOUS
    <3> DEFINE t == StepToken(day, p, act)
    <3>1. t[1] = p /\ t[3] = day.people[p].seq
      BY DEF StepToken
    <3>2. t[3] \in Nat /\ t[3] < day.people[t[1]].seq
      BY <2>1 DEF Behind
    <3> QED
      BY <3>1, <3>2
  <2>6. ConfirmationOpen
    BY <2>5 DEF ConfirmationOpen
  <2> QED
    BY <2>3, <2>4, <2>6
<1> QED
  BY <1>2, <1>3 DEF BoardKept

(* Until a step is taken back, whatever the manager does to the lines and the
   people confirm, nobody stands in two places or on a closed post, nobody is
   on duty without a post, and no answer of an earlier confirmation answers
   the one a person is asked for now. *)
THEOREM BoardIsKept == DaySpec => []BoardKept
<1>1. DayInit => DayInv
  BY DayStarts
<1>2. DayInv /\ [DayNext]_dayVars => DayInv'
  BY DayKeeps
<1>3. DayInv => BoardKept
  BY BoardFollows
<1> QED
  BY <1>1, <1>2, <1>3, PTL DEF DaySpec

-----------------------------------------------------------------------------
(* Whoever is late could have confirmed during the whole of the grace. *)

\* How much of the grace is over, the time without an open line not counted.
Elapsed(d, p, at) ==
    LET s == d.people[p]
    IN  (IF d.paused = None THEN at ELSE Later(d.paused, s.readyAt)) - (s.timeoutAt - Grace)

\* w minutes in which p could confirm account for the grace that is over.
Due(d, p, w, at) ==
    LET s == d.people[p]
    IN  ~s.restored =>
          /\ s.st \in Sleeping => /\ Start[p] <= at /\ s.timeoutAt >= s.readyAt + Grace
                                  /\ End[p] - at > NoBoard => w >= Grace \/ w >= Elapsed(d, p, at)
          /\ s.st = "exception" => w >= Grace

\* The timeouts are stopped exactly while no line is open.
Stopped(d, at) == (d.paused = None <=> Available(d)) /\ (d.paused = None \/ d.paused <= at)

LEMMA DueNew ==
    ASSUME NEW d \in DayRec, NEW p \in Staff, NEW at \in Nat, NEW w \in Nat,
           d.paused = None \/ d.paused <= at,
           d.people[p].readyAt >= at, d.people[p].timeoutAt = d.people[p].readyAt + Grace,
           d.people[p].restored \/ Start[p] <= at, d.people[p].st # "exception"
    PROVE  Due(d, p, w, at)
<1> DEFINE s == d.people[p]
           u == d.paused
<1>1. s.readyAt \in Nat /\ s.timeoutAt \in Nat /\ u \in Nat \cup {None} /\ Grace \in Nat /\ None \notin Nat
  BY DayParts, SettingsTyped, PlanAssumption DEF PersonRec
<1>2. Elapsed(d, p, at) <= 0
  <2> DEFINE r == s.readyAt
             t == s.timeoutAt
  <2>1. Elapsed(d, p, at) = (IF u = None THEN at ELSE Later(u, r)) - (t - Grace)
    BY DEF Elapsed
  <2>2. r \in Nat /\ t \in Nat /\ r >= at /\ t = r + Grace /\ (u = None \/ u <= at)
    BY <1>1
  <2> HIDE DEF r, t, u
  <2>3. CASE u = None
    BY <1>1, <2>1, <2>2, <2>3
  <2>4. CASE u # None
    <3>1. u \in Nat /\ u <= r
      BY <1>1, <2>2, <2>4
    <3>2. Later(u, r) = r
      BY <2>2, <3>1 DEF Later
    <3> QED
      BY <1>1, <2>1, <2>2, <2>4, <3>2
  <2> QED
    BY <2>3, <2>4
<1>3. Elapsed(d, p, at) \in Int
  BY <1>1 DEF Elapsed, Later
<1>4. w >= Elapsed(d, p, at)
  BY <1>2, <1>3
<1> QED
  BY <1>1, <1>4 DEF Due

\* Nobody else, and no line, makes any difference.
LEMMA DueSame ==
    ASSUME NEW d \in DayRec, NEW e, NEW p \in Staff, NEW at, NEW w, Due(d, p, w, at), e.paused = d.paused,
           Alike(d.people[p], e.people[p]), d.people[p].restored => e.people[p].restored
    PROVE  Due(e, p, w, at)
<1> DEFINE s == d.people[p]
           t == e.people[p]
<1>1. t.st = s.st /\ t.readyAt = s.readyAt /\ t.timeoutAt = s.timeoutAt /\ (s.restored => t.restored)
  BY DEF Alike
<1>2. Elapsed(e, p, at) = Elapsed(d, p, at)
  BY <1>1 DEF Elapsed
<1> QED
  BY <1>1, <1>2 DEF Due

LEMMA DueClocked ==
    ASSUME NEW d \in DayRec, NEW at \in Nat, d.paused = None \/ d.paused <= at, NEW e, e = Clocked(d, at),
           NEW p \in Staff, NEW w \in Nat, Due(d, p, w, at)
    PROVE  Due(e, p, w, at)
<1> DEFINE s == d.people[p]
           t == e.people[p]
           r == s.readyAt
           c == s.timeoutAt
           u == d.paused
           v == e.paused
<1>1. /\ e \in DayRec
      /\ v = IF Available(d) THEN None ELSE IF u = None THEN at ELSE u
      /\ t.st = s.st /\ t.restored = s.restored /\ t.readyAt = r
      /\ t.timeoutAt = c + Put(d, p, at)
  BY ClockedIs
<1>2. r \in Nat /\ c \in Nat /\ u \in Nat \cup {None} /\ Grace \in Nat /\ Grace >= 1 /\ None \notin Nat
      /\ NoBoard \in Nat /\ Start[p] \in Nat /\ End[p] \in Nat
  BY DayParts, SettingsTyped, PlanAssumption DEF PersonRec
<1>3. CASE s.restored \/ s.st \notin Sleeping
  BY <1>1, <1>3 DEF Due, Sleeping
<1>4. CASE ~s.restored /\ s.st \in Sleeping
  <2> DEFINE n == Put(d, p, at)
             k == Elapsed(d, p, at)
             j == Elapsed(e, p, at)
  <2>1. /\ Start[p] <= at /\ c >= r + Grace
        /\ End[p] - at > NoBoard => w >= Grace \/ w >= k
    BY <1>4 DEF Due
  <2>2. n = IF Available(d) /\ u # None THEN Later(0, at - Later(u, r)) ELSE 0
    BY <1>4 DEF Put
  <2>3. k = (IF u = None THEN at ELSE Later(u, r)) - (c - Grace)
    BY DEF Elapsed
  <2>4. j = (IF v = None THEN at ELSE Later(v, r)) - ((c + n) - Grace)
    BY <1>1 DEF Elapsed
  <2>5. u = None \/ (u \in Nat /\ u <= at)
    BY <1>2
  <2>6. t.timeoutAt = c + n /\ v = IF Available(d) THEN None ELSE IF u = None THEN at ELSE u
    BY <1>1
  <2> HIDE DEF n, k, j, r, c, u, v
  <2>7. n \in Nat /\ k \in Int /\ j \in Int /\ (j <= k \/ j <= 0)
    <3>1. CASE Available(d) /\ u = None
      BY <1>2, <2>2, <2>3, <2>4, <2>6, <3>1
    <3>2. CASE Available(d) /\ u # None
      <4>1. n = Later(0, at - Later(u, r)) /\ k = Later(u, r) - (c - Grace) /\ j = at - ((c + n) - Grace) /\ u \in Nat /\ u <= at
        BY <1>2, <2>2, <2>3, <2>4, <2>5, <2>6, <3>2
      <4>2. CASE r <= at
        <5>1. Later(u, r) \in Nat /\ Later(u, r) <= at
          BY <1>2, <4>1, <4>2 DEF Later
        <5>2. n = at - Later(u, r)
          BY <4>1, <5>1 DEF Later
        <5> QED
          BY <1>2, <4>1, <5>1, <5>2
      <4>3. CASE ~(r <= at)
        <5>1. Later(u, r) = r
          BY <1>2, <4>1, <4>3 DEF Later
        <5>2. n = 0
          BY <1>2, <4>1, <4>3, <5>1 DEF Later
        <5> QED
          BY <1>2, <2>1, <4>1, <4>3, <5>1, <5>2
      <4> QED
        BY <4>2, <4>3
    <3>3. CASE ~Available(d) /\ u = None
      <4>1. n = 0 /\ k = at - (c - Grace) /\ j = Later(at, r) - (c - Grace)
        BY <1>2, <2>2, <2>3, <2>4, <2>6, <3>3
      <4> QED
        BY <1>2, <2>1, <4>1 DEF Later
    <3>4. CASE ~Available(d) /\ u # None
      <4>1. n = 0 /\ u \in Nat /\ k = Later(u, r) - (c - Grace) /\ j = Later(u, r) - (c - Grace)
        BY <1>2, <2>2, <2>3, <2>4, <2>6, <3>4
      <4> QED
        BY <1>2, <4>1 DEF Later
    <3> QED
      BY <3>1, <3>2, <3>3, <3>4
  <2>8. c + n >= r + Grace
    BY <1>2, <2>1, <2>7
  <2>9. End[p] - at > NoBoard => w >= Grace \/ w >= j
    BY <1>2, <2>1, <2>7
  <2>10. /\ t.timeoutAt >= t.readyAt + Grace /\ Start[p] <= at
         /\ End[p] - at > NoBoard => w >= Grace \/ w >= Elapsed(e, p, at)
    BY <1>1, <2>1, <2>6, <2>8, <2>9 DEF j
  <2> QED
    BY <1>1, <1>4, <2>10 DEF Due, Sleeping
<1> QED
  BY <1>3, <1>4

\* What a tick makes of a person's break.
Woken(s, t, p, at) ==
    /\ t.st \in Sleeping => \/ s.st \in Sleeping /\ t.readyAt = s.readyAt
                            \/ s.st = "notyet" /\ at >= Start[p]
    /\ t.st = "exception" => s.st \in Sleeping \cup {"exception"} \/ (s.st = "notyet" /\ at >= Start[p])
    /\ s.st = "exception" => t.st = "exception"

LEMMA DueStarted ==
    ASSUME NEW d \in DayRec, NEW at \in Nat, d.paused = None \/ d.paused <= at, NEW e, e = Started(d, at),
           NEW p \in Staff, NEW w \in Nat, Due(d, p, w, at), d.people[p].st = "notyet" => at <= Start[p]
    PROVE  /\ e \in DayRec /\ e.paused = d.paused
           /\ Due(e, p, w, at)
           /\ Woken(d.people[p], e.people[p], p, at)
<1>1. /\ e \in DayRec /\ e.paused = d.paused
      /\ IF d.people[p].st = "notyet" /\ at >= Start[p]
         THEN e.people[p] = ShiftStart(d, p, at) ELSE e.people[p] = d.people[p]
  BY StartedIs
<1>2. CASE d.people[p].st = "notyet" /\ at >= Start[p]
  <2> DEFINE t == e.people[p]
  <2>1. t = ShiftStart(d, p, at)
    BY <1>1, <1>2
  <2>2. /\ t.st \in {"onpost", "pending", "rest", "ready"}
        /\ t.st \in {"rest", "ready"} => t.timeoutAt = t.readyAt + Grace /\ t.readyAt \in {Start[p] + Break, at}
    BY <2>1, ShiftStartIs
  <2>3. Start[p] \in Nat /\ Break \in Nat /\ Start[p] <= at /\ at <= Start[p]
    BY <1>2, SettingsTyped
  <2> HIDE DEF t
  <2>4. t.st \in Sleeping => t.readyAt >= at /\ t.timeoutAt = t.readyAt + Grace
    BY <2>2, <2>3 DEF Sleeping
  <2>5. t.st # "exception"
    BY <2>2
  <2>6. Due(e, p, w, at)
    <3>1. CASE t.st \in Sleeping
      BY <1>1, <2>3, <2>4, <2>5, <3>1, DueNew DEF t
    <3>2. CASE t.st \notin Sleeping
      BY <2>5, <3>2 DEF Due, t
    <3> QED
      BY <3>1, <3>2
  <2>7. Woken(d.people[p], t, p, at)
    BY <1>2, <2>5 DEF Woken
  <2> QED
    BY <1>1, <2>6, <2>7 DEF t
<1>3. CASE ~(d.people[p].st = "notyet" /\ at >= Start[p])
  <2>1. e.people[p] = d.people[p]
    BY <1>1, <1>3
  <2>2. Due(e, p, w, at)
    BY <1>1, <2>1, DueSame DEF Alike
  <2>3. Woken(d.people[p], e.people[p], p, at)
    BY <2>1 DEF Woken
  <2> QED
    BY <1>1, <2>2, <2>3
<1> QED
  BY <1>2, <1>3

LEMMA DueOverdue ==
    ASSUME NEW d \in DayRec, NEW at \in Nat, Stopped(d, at), NEW e, e = Overdue(d, at),
           NEW p \in Staff, NEW w \in Nat, Due(d, p, w, at)
    PROVE  Due(e, p, w, at)
<1> DEFINE s == d.people[p]
<1>1. /\ e \in DayRec /\ e.paused = d.paused
      /\ \/ e.people[p] = s
         \/ /\ Available(d) /\ p \in Candidates(d, at) /\ at >= s.timeoutAt
            /\ s.st \in Sleeping /\ e.people[p].st = "exception" /\ e.people[p].restored = s.restored
  BY OverdueIs
<1>2. CASE e.people[p] = s
  BY <1>1, <1>2, DueSame DEF Alike
<1>3. CASE e.people[p] # s
  <2>1. /\ Available(d) /\ p \in Candidates(d, at) /\ at >= s.timeoutAt
        /\ s.st \in Sleeping /\ e.people[p].st = "exception" /\ e.people[p].restored = s.restored
    BY <1>1, <1>3
  <2>2. CASE s.restored
    BY <2>1, <2>2 DEF Due
  <2>3. CASE ~s.restored
    <3>1. s.readyAt \in Nat /\ s.timeoutAt \in Nat /\ Grace \in Nat /\ End[p] \in Nat /\ NoBoard \in Nat
      BY DayParts, SettingsTyped DEF PersonRec
    <3>2. d.paused = None
      BY <2>1 DEF Stopped
    <3>3. Elapsed(d, p, at) = at - (s.timeoutAt - Grace)
      BY <3>2 DEF Elapsed
    <3>4. s.timeoutAt >= s.readyAt + Grace /\ (End[p] - at > NoBoard => w >= Grace \/ w >= Elapsed(d, p, at))
      BY <2>1, <2>3 DEF Due
    <3>5. End[p] - Later(at, s.readyAt) > NoBoard
      BY <2>1, <2>3 DEF Candidates, Eligible
    <3> DEFINE r == s.readyAt
               c == s.timeoutAt
               k == Elapsed(d, p, at)
    <3>6. r \in Nat /\ c \in Nat /\ k = at - (c - Grace) /\ c >= r + Grace /\ at >= c
          /\ End[p] - Later(at, r) > NoBoard /\ (End[p] - at > NoBoard => w >= Grace \/ w >= k)
      BY <2>1, <3>1, <3>3, <3>4, <3>5
    <3> HIDE DEF r, c, k
    <3>7. r <= at /\ Later(at, r) = at
      BY <3>1, <3>6 DEF Later
    <3>8. w >= Grace
      BY <3>1, <3>6, <3>7
    <3> QED
      BY <2>1, <3>8 DEF Due, Sleeping
  <2> QED
    BY <2>2, <2>3
<1> QED
  BY <1>2, <1>3

\* A tick takes nobody's grace away, and makes late only whose grace is over.
LEMMA DueTick ==
    ASSUME NEW d \in DayRec, d.status = "live", NEW at \in Nat, at < DayEnd, d.paused = None \/ d.paused <= at,
           NEW e, e = Tick(d, at)
    PROVE  /\ Stopped(e, at)
           /\ \A p \in Staff, w \in Nat :
                 Due(d, p, w, at) /\ (d.people[p].st = "notyet" => at <= Start[p]) =>
                     Due(e, p, w, at) /\ Woken(d.people[p], e.people[p], p, at)
<1> DEFINE u == Started(d, at)
           v == Ended(u, at)
           c == Clocked(v, at)
<1>1. e = Overdue(c, at)
  BY SettingsTyped DEF Tick
<1>2. u = Started(d, at) /\ v = Ended(u, at) /\ c = Clocked(v, at)
  OBVIOUS
<1> HIDE DEF u, v, c
<1>3. u \in DayRec /\ u.paused = d.paused
  BY <1>2, StartedIs
<1>4. /\ v \in DayRec /\ v.paused = u.paused
      /\ \A x \in Staff : \/ v.people[x] = u.people[x]
                          \/ u.people[x].st \in Sleeping \cup {"pending", "away"} /\ v.people[x].st = "done"
  BY <1>2, <1>3, EndedIs
<1>5. /\ c \in DayRec /\ c.posts = v.posts /\ c.lines = v.lines
      /\ c.paused = IF Available(v) THEN None ELSE IF v.paused = None THEN at ELSE v.paused
      /\ \A x \in Staff : c.people[x].st = v.people[x].st /\ c.people[x].readyAt = v.people[x].readyAt
  BY <1>2, <1>4, ClockedIs
<1>6. /\ e.posts = c.posts /\ e.lines = c.lines /\ e.paused = c.paused
      /\ \A x \in Staff : e.people[x] = c.people[x] \/ (c.people[x].st \in Sleeping /\ e.people[x].st = "exception")
  BY <1>1, <1>5, OverdueIs
<1>7. (Available(c) <=> Available(v)) /\ (Available(e) <=> Available(c))
  BY <1>5, <1>6 DEF Available, OpenLine, Indexes
<1>8. Stopped(c, at) /\ Stopped(e, at)
  <2>1. None \notin Nat /\ d.paused \in Nat \cup {None}
    BY PlanAssumption, DayParts
  <2>2. v.paused \in Nat \cup {None} /\ (v.paused = None \/ v.paused <= at)
    BY <1>3, <1>4, <2>1
  <2>3. (c.paused = None <=> Available(v)) /\ (c.paused = None \/ c.paused <= at)
    <3>1. CASE Available(v)
      BY <1>5, <3>1
    <3>2. CASE ~Available(v)
      BY <1>5, <2>1, <2>2, <3>2
    <3> QED
      BY <3>1, <3>2
  <2> QED
    BY <1>6, <1>7, <2>3 DEF Stopped
<1>9. ASSUME NEW p \in Staff, NEW w \in Nat, Due(d, p, w, at), d.people[p].st = "notyet" => at <= Start[p]
      PROVE  Due(e, p, w, at) /\ Woken(d.people[p], e.people[p], p, at)
  <2>1. Due(u, p, w, at) /\ Woken(d.people[p], u.people[p], p, at)
    BY <1>2, <1>9, DueStarted
  <2>2. Due(v, p, w, at)
    <3>1. CASE v.people[p] = u.people[p]
      BY <1>3, <1>4, <2>1, <3>1, DueSame DEF Alike
    <3>2. CASE v.people[p].st = "done"
      BY <3>2 DEF Due, Sleeping
    <3> QED
      BY <1>4, <3>1, <3>2
  <2>3. Due(c, p, w, at)
    BY <1>2, <1>3, <1>4, <2>2, DueClocked
  <2>4. Due(e, p, w, at)
    BY <1>1, <1>5, <1>8, <2>3, DueOverdue
  <2>5. Woken(d.people[p], e.people[p], p, at)
    <3> DEFINE s == d.people[p]
               su == u.people[p]
               sv == v.people[p]
               sc == c.people[p]
               se == e.people[p]
    <3>1. Woken(s, su, p, at)
      BY <2>1
    <3>2. sv = su \/ (su.st \in Sleeping \cup {"pending", "away"} /\ sv.st = "done")
      BY <1>4
    <3>3. sc.st = sv.st /\ sc.readyAt = sv.readyAt
      BY <1>5
    <3>4. se = sc \/ (sc.st \in Sleeping /\ se.st = "exception")
      BY <1>6
    <3> HIDE DEF s, su, sv, sc, se
    <3>5. Woken(s, se, p, at)
      BY <3>1, <3>2, <3>3, <3>4 DEF Woken, Sleeping
    <3> QED
      BY <3>5 DEF s, se
  <2> QED
    BY <2>4, <2>5
<1> QED
  BY <1>8, <1>9

\* No line closes its doors to a rested person before the last break of their day.
LateInv ==
    /\ DayInv
    /\ ~undone => /\ \A p \in Staff : Due(day, p, waited[p], now)
                  /\ day.status = "live" => Stopped(day, now)

LEMMA WaitedIs ==
    ASSUME waited \in [Staff -> 0..Grace], NEW p \in Staff, NEW more \in {0, 1},
           day.people[p].st \in Sleeping \cup {"exception"},
           Woken(day.people[p], day'.people[p], p, now'),
           day'.people[p].st \in Sleeping \cup {"exception"}
    PROVE  Waiting(p, more) = IF waited[p] + more > Grace THEN Grace ELSE waited[p] + more
<1>1. day'.people[p].st = "exception" \/ (day'.people[p].st \in {"rest", "ready"} /\ day'.people[p].readyAt = day.people[p].readyAt)
  BY DEF Woken, Sleeping
<1>2. day.people[p].st \in {"rest", "ready", "exception"}
  BY DEF Sleeping
<1> QED
  BY <1>1, <1>2 DEF Waiting

\* After an operation: the grace of whoever it left alone goes on, a new break starts anew.
LEMMA LateEffected ==
    ASSUME LateInv, DayInv', Effected, ~undone, NEW p \in Staff
    PROVE  Due(day', p, waited'[p], now') /\ Stopped(day', now')
<1>1. PICK d : Kept(day, d) /\ Finish(d)
  BY DEF Effected
<1>2. /\ day.status = "live" /\ day' = Tick(d, now) /\ now' = now /\ waited'[p] = Waiting(p, 0)
  BY <1>1 DEF Finish
<1>3. /\ now \in Nat /\ now < DayEnd /\ waited \in [Staff -> 0..Grace] /\ day \in DayRec /\ Grace \in Nat
  BY <1>2, SettingsTyped DEF LateInv, DayInv, DayState
<1>4. /\ Due(day, p, waited[p], now) /\ Future(day, now) /\ (day.paused = None \/ day.paused <= now)
  BY <1>2 DEF LateInv, DayInv, Stopped
<1>5. /\ d \in DayRec /\ d.status = "live" /\ d.paused = day.paused /\ Effect(p, day.people[p], d.people[p], now)
  BY <1>1, <1>2 DEF Kept
<1> DEFINE s == day.people[p]
           c == d.people[p]
           t == day'.people[p]
<1>6. /\ Stopped(day', now)
      /\ \A w \in Nat : Due(d, p, w, now) /\ (c.st = "notyet" => now <= Start[p]) => Due(day', p, w, now) /\ Woken(c, t, p, now)
  <2> DEFINE e == day'
  <2>1. e = Tick(d, now)
    BY <1>2
  <2> HIDE DEF e
  <2>2. /\ Stopped(e, now)
        /\ \A x \in Staff, w \in Nat :
              Due(d, x, w, now) /\ (d.people[x].st = "notyet" => now <= Start[x]) =>
                  Due(e, x, w, now) /\ Woken(d.people[x], e.people[x], x, now)
    BY <1>3, <1>4, <1>5, <2>1, DueTick
  <2> QED
    BY <2>2 DEF e
<1>7. waited[p] \in Nat /\ waited'[p] \in Nat /\ waited[p] <= Grace
  <2>1. waited'[p] \in 0..Grace
    BY <1>2, <1>3, WaitedTyped
  <2> QED
    BY <1>3, <2>1
<1>8. CASE Alike(s, c)
  <2>1. c.st = s.st /\ c.readyAt = s.readyAt /\ c.timeoutAt = s.timeoutAt /\ (s.restored => c.restored)
    BY <1>5, <1>8 DEF Alike, Effect
  <2>2. Due(d, p, waited[p], now)
    BY <1>3, <1>4, <1>5, <1>8, <2>1, DueSame
  <2>3. c.st = "notyet" => now < Start[p] /\ Start[p] \in Nat
    BY <1>4, <2>1, SettingsTyped DEF Future
  <2>4. Due(day', p, waited[p], now) /\ Woken(c, t, p, now)
    BY <1>3, <1>6, <1>7, <2>2, <2>3
  <2>5. CASE t.st \in Sleeping \cup {"exception"}
    <3>1. s.st \in Sleeping \cup {"exception"} /\ Woken(s, t, p, now)
      BY <1>3, <2>1, <2>3, <2>4, <2>5 DEF Woken
    <3>2. Waiting(p, 0) = waited[p]
      <4> DEFINE z == 0
      <4>1. z \in {0, 1} /\ z = 0
        OBVIOUS
      <4> HIDE DEF z
      <4>2. Waiting(p, z) = IF waited[p] + z > Grace THEN Grace ELSE waited[p] + z
        BY <1>2, <1>3, <2>5, <3>1, <4>1, WaitedIs
      <4> QED
        BY <1>3, <1>7, <4>1, <4>2
    <3> QED
      BY <1>2, <1>6, <2>4, <3>2
  <2>6. CASE t.st \notin Sleeping \cup {"exception"}
    BY <1>2, <1>6, <2>6 DEF Due
  <2> QED
    BY <2>5, <2>6
<1>9. CASE c.st \in Gone
  <2>1. c.st \notin Sleeping \cup {"exception", "notyet"}
    BY <1>9 DEF Gone, Sleeping
  <2>2. Due(d, p, waited'[p], now)
    BY <2>1 DEF Due
  <2> QED
    BY <1>2, <1>6, <1>7, <2>1, <2>2
<1>10. CASE c.st = "rest" /\ c.readyAt >= now /\ c.timeoutAt = c.readyAt + Grace /\ (c.restored \/ Start[p] <= now)
  <2>1. Due(d, p, waited'[p], now)
    BY <1>3, <1>4, <1>5, <1>7, <1>10, DueNew
  <2> QED
    BY <1>2, <1>6, <1>7, <1>10, <2>1
<1> QED
  BY <1>5, <1>8, <1>9, <1>10 DEF Effect

\* A minute in which a line is open is one in which whoever is rested could go.
LEMMA Offered ==
    ASSUME LateInv, StopPush <= NoBoard, ~undone, day.status = "live", NEW p \in Staff,
           day.people[p].st \in Sleeping, ~day.people[p].restored, End[p] - now > NoBoard,
           day.paused = None, now >= day.people[p].readyAt
    PROVE  MayDepart(day, p)
<1>1. /\ now \in Nat /\ day \in DayRec /\ day.people[p].readyAt \in Nat
  BY SettingsTyped, DayParts DEF LateInv, DayInv, DayState, PersonRec
<1>2. /\ Start[p] <= now /\ Available(day)
  BY DEF LateInv, Due, Stopped
<1>3. /\ End[p] \in Nat /\ NoBoard \in Nat /\ StopPush \in Nat /\ DayEnd \in Nat /\ End[p] <= DayEnd
  BY SettingsTyped, SettingsAssumption
<1>4. Eligible(day, p, now)
  BY <1>1, <1>2, <1>3 DEF Eligible, Sleeping
<1>5. Later(now, day.people[p].readyAt) = now
  BY <1>1 DEF Later
<1>6. now < DayEnd - StopPush
  BY <1>1, <1>3
<1> DEFINE a == Offer(day, p)
<1>7. a = Offer(day, p)
  OBVIOUS
<1> HIDE DEF a
<1>8. a # Unassigned
  BY <1>1, <1>2, <1>5, <1>6, <1>7, OfferIs
<1> QED
  BY <1>4, <1>7, <1>8 DEF MayDepart

\* The clock: what is added to the time that is over is added to the time they could go.
LEMMA LateAdvanced ==
    ASSUME LateInv, DayInv', Advance, StopPush <= NoBoard, ~undone, NEW p \in Staff
    PROVE  Due(day', p, waited'[p], now') /\ (day'.status = "live" => Stopped(day', now'))
<1> DEFINE s == day.people[p]
           t == day'.people[p]
           more == IF MayDepart(day, p) THEN 1 ELSE 0
           w == waited[p]
<1>1. /\ day.status = "live" /\ now' = now + 1 /\ day' = Tick(day, now + 1) /\ waited'[p] = Waiting(p, more)
  BY DEF Advance
<1>2. /\ now \in Nat /\ now < DayEnd /\ DayEnd \in Nat /\ waited \in [Staff -> 0..Grace] /\ day \in DayRec /\ Grace \in Nat
  BY <1>1, SettingsTyped DEF LateInv, DayInv, DayState
<1>3. /\ Due(day, p, w, now) /\ Future(day, now) /\ (day.paused = None \/ day.paused <= now)
      /\ None \notin Nat /\ day.paused \in Nat \cup {None}
  BY <1>1, <1>2, PlanAssumption, DayParts DEF LateInv, DayInv, Stopped
<1>4. CASE now + 1 >= DayEnd
  <2>1. day' = DayOver(day)
    BY <1>1, <1>4 DEF Tick
  <2>2. t.st = "done" /\ day'.status = "ended"
    <3> DEFINE e == day'
    <3>1. e = DayOver(day)
      BY <2>1
    <3> HIDE DEF e
    <3>2. e.people[p].st = "done" /\ e.status = "ended"
      BY <1>2, <3>1, DayOverIs
    <3> QED
      BY <3>2 DEF e
  <2> QED
    BY <2>2 DEF Due, Sleeping
<1>5. CASE now + 1 < DayEnd
  <2>1. /\ Stopped(day', now + 1)
        /\ \A k \in Nat : Due(day, p, k, now + 1) /\ (s.st = "notyet" => now + 1 <= Start[p]) =>
                             Due(day', p, k, now + 1) /\ Woken(s, t, p, now + 1)
    <3> DEFINE e == day'
               at == now + 1
    <3>1. e = Tick(day, at)
      BY <1>1
    <3>2. at \in Nat /\ at < DayEnd /\ (day.paused = None \/ day.paused <= at)
      BY <1>2, <1>3, <1>5
    <3> HIDE DEF e, at
    <3>3. /\ Stopped(e, at)
          /\ \A x \in Staff, k \in Nat :
                Due(day, x, k, at) /\ (day.people[x].st = "notyet" => at <= Start[x]) =>
                    Due(e, x, k, at) /\ Woken(day.people[x], e.people[x], x, at)
      BY <1>1, <1>2, <3>1, <3>2, DueTick
    <3> QED
      BY <3>3 DEF e, at
  <2>2. s.st = "notyet" => now + 1 <= Start[p]
    <3>1. Start[p] \in Nat
      BY SettingsTyped
    <3> QED
      BY <1>2, <1>3, <3>1 DEF Future
  <2>3. w \in Nat /\ w <= Grace /\ more \in {0, 1} /\ waited'[p] \in Nat
    <3>1. more \in {0, 1} /\ w \in 0..Grace
      BY <1>2
    <3>2. waited'[p] \in 0..Grace
      BY <1>1, <1>2, <3>1, WaitedTyped
    <3> QED
      BY <1>2, <3>1, <3>2
  <2>4. CASE s.st \notin Sleeping \cup {"exception"}
    <3>1. Due(day, p, waited'[p], now + 1)
      BY <2>4 DEF Due
    <3> QED
      BY <1>1, <2>1, <2>2, <2>3, <3>1
  <2>5. CASE s.st \in Sleeping \cup {"exception"}
    <3> DEFINE k == IF w + more > Grace THEN Grace ELSE w + more
    <3>1. k \in Nat /\ k >= w /\ (w >= Grace => k >= Grace) /\ (k >= w + more \/ k >= Grace)
      <4> HIDE DEF w, more
      <4> QED
        BY <1>2, <2>3
    <3>2. Due(day, p, k, now + 1)
      <4>1. CASE s.restored
        BY <4>1 DEF Due
      <4>2. CASE s.st = "exception" /\ ~s.restored
        <5>1. w >= Grace
          BY <1>3, <4>2 DEF Due
        <5> QED
          BY <3>1, <4>2, <5>1 DEF Due, Sleeping
      <4>3. CASE s.st \in Sleeping /\ ~s.restored
        <5> DEFINE r == s.readyAt
                   c == s.timeoutAt
                   u == day.paused
                   m == Elapsed(day, p, now)
                   n == Elapsed(day, p, now + 1)
        <5>1. r \in Nat /\ c \in Nat /\ u \in Nat \cup {None} /\ End[p] \in Nat /\ Start[p] \in Nat /\ NoBoard \in Nat
          BY <1>2, DayParts, SettingsTyped DEF PersonRec
        <5>2. Start[p] <= now /\ c >= r + Grace /\ (End[p] - now > NoBoard => w >= Grace \/ w >= m)
          BY <1>3, <4>3 DEF Due
        <5>3. /\ m = (IF u = None THEN now ELSE Later(u, r)) - (c - Grace)
              /\ n = (IF u = None THEN now + 1 ELSE Later(u, r)) - (c - Grace)
          BY DEF Elapsed
        <5>4. End[p] - now > NoBoard /\ u = None /\ now >= r => more = 1
          BY <1>1, <4>3, Offered DEF LateInv
        <5> HIDE DEF w, more, k, r, c, u, m, n
        <5>5. End[p] - (now + 1) > NoBoard => k >= Grace \/ k >= n
          <6> SUFFICES ASSUME End[p] - (now + 1) > NoBoard PROVE k >= Grace \/ k >= n
            OBVIOUS
          <6>1. End[p] - now > NoBoard /\ (w >= Grace \/ w >= m)
            BY <1>2, <5>1, <5>2
          <6>2. CASE u # None
            <7>1. u \in Nat /\ m = Later(u, r) - (c - Grace) /\ n = Later(u, r) - (c - Grace)
              BY <5>1, <5>3, <6>2
            <7>2. Later(u, r) \in Nat
              BY <5>1, <7>1 DEF Later
            <7> QED
              BY <1>2, <2>3, <3>1, <5>1, <6>1, <7>1, <7>2
          <6>3. CASE u = None /\ now >= r
            <7>1. more = 1 /\ m = now - (c - Grace) /\ n = now + 1 - (c - Grace)
              BY <1>2, <2>3, <5>1, <5>3, <5>4, <6>1, <6>3
            <7> QED
              BY <1>2, <2>3, <3>1, <5>1, <6>1, <7>1
          <6>4. CASE u = None /\ ~(now >= r)
            <7>1. n = now + 1 - (c - Grace)
              BY <1>2, <2>3, <5>1, <5>3, <6>4
            <7> QED
              BY <1>2, <2>3, <3>1, <5>1, <5>2, <6>4, <7>1
          <6> QED
            BY <6>2, <6>3, <6>4
        <5>6. Start[p] <= now + 1
          BY <1>2, <5>1, <5>2
        <5> QED
          BY <4>3, <5>2, <5>5, <5>6 DEF Due, Sleeping, c, r, n
      <4> QED
        BY <2>5, <4>1, <4>2, <4>3
    <3>3. Due(day', p, k, now + 1) /\ Woken(s, t, p, now + 1)
      BY <2>1, <2>2, <3>1, <3>2
    <3>4. CASE t.st \in Sleeping \cup {"exception"}
      <4>1. waited'[p] = k
        BY <1>1, <1>2, <2>3, <2>5, <3>3, <3>4, WaitedIs
      <4> QED
        BY <1>1, <2>1, <3>3, <4>1
    <3>5. CASE t.st \notin Sleeping \cup {"exception"}
      BY <1>1, <2>1, <3>5 DEF Due
    <3> QED
      BY <3>4, <3>5
  <2> QED
    BY <2>4, <2>5
<1> QED
  BY <1>2, <1>4, <1>5

LEMMA LateStarts == DayInit => LateInv
<1> SUFFICES ASSUME DayInit PROVE LateInv
  OBVIOUS
<1>1. /\ now = 0 /\ day = Tick(Published, 0) /\ waited = [p \in Staff |-> 0]
  BY DEF DayInit
<1>2. 0 < DayEnd /\ DayEnd \in Nat /\ 0 \in Nat
  BY SettingsTyped
<1> DEFINE d == Published
           at == 0
<1>3. d \in DayRec /\ d.status = "live"
  BY PublishedIs
<1>4. \A p \in Staff : d.people[p].st = "notyet"
  BY DEF Published
<1>5. d.paused = None
  BY DEF Published
<1>6. at \in Nat /\ at < DayEnd /\ now = at /\ day = Tick(d, at)
  BY <1>1, <1>2
<1> HIDE DEF d, at
<1>7. /\ Stopped(day, at)
      /\ \A p \in Staff, w \in Nat :
            Due(d, p, w, at) /\ (d.people[p].st = "notyet" => at <= Start[p]) => Due(day, p, w, at)
  BY <1>3, <1>5, <1>6, DueTick
<1>8. ASSUME NEW p \in Staff PROVE Due(day, p, waited[p], now)
  <2>1. waited[p] = 0 /\ at <= Start[p]
    BY <1>1, <1>2, SettingsTyped DEF at
  <2>2. Due(d, p, 0, at)
    BY <1>4 DEF Due, Sleeping
  <2> QED
    BY <1>2, <1>6, <1>7, <2>1, <2>2
<1> QED
  BY <1>6, <1>7, <1>8, DayStarts DEF LateInv

LEMMA LateKeeps ==
    ASSUME StopPush <= NoBoard
    PROVE  LateInv /\ [DayNext]_dayVars => LateInv'
<1> SUFFICES ASSUME LateInv, [DayNext]_dayVars PROVE LateInv'
  OBVIOUS
<1>1. DayInv'
  BY DayKeeps DEF LateInv
<1>2. ASSUME DayNext, ~undone'
      PROVE  /\ \A p \in Staff : Due(day', p, waited'[p], now')
             /\ day'.status = "live" => Stopped(day', now')
  <2>1. Advance \/ Effected
    BY <1>2, StepIs DEF LateInv, RestoreLine
  <2>2. ~undone
    BY <1>2, <2>1 DEF Advance, Effected, Finish
  <2>3. \A p \in Staff : Due(day', p, waited'[p], now') /\ (day'.status = "live" => Stopped(day', now'))
    BY <1>1, <2>1, <2>2, LateAdvanced, LateEffected
  <2>4. Staff # {}
    BY PlanAssumption
  <2> QED
    BY <2>3, <2>4
<1>3. CASE DayNext
  BY <1>1, <1>2, <1>3 DEF LateInv, Due, Elapsed, Stopped, Available, OpenLine, Indexes
<1>4. CASE UNCHANGED dayVars
  BY <1>1, <1>4 DEF LateInv, dayVars, Due, Elapsed, Stopped, Available, OpenLine, Indexes
<1> QED
  BY <1>3, <1>4

(* Nobody is declared late before they could have confirmed during the whole
   of the grace, whatever the manager closes and opens meanwhile, when the last
   minutes in which no line takes anybody (closeStopPush) are among the last of
   a shift in which nobody starts again (noBoard).  The invariant compares the
   minutes counted as waited with those the timeout is behind. *)
THEOREM TimeoutsAreJustified ==
    ASSUME StopPush <= NoBoard
    PROVE  DaySpec => []TimeoutJustified
<1>1. DayInit => LateInv
  BY LateStarts
<1>2. LateInv /\ [DayNext]_dayVars => LateInv'
  BY LateKeeps
<1>3. LateInv => TimeoutJustified
  <2> SUFFICES ASSUME LateInv, ~undone, NEW p \in Staff, day.people[p].st = "exception", ~day.people[p].restored
               PROVE  waited[p] = Grace
    BY DEF TimeoutJustified
  <2>1. waited[p] \in 0..Grace /\ Grace \in Nat
    BY SettingsTyped DEF LateInv, DayInv, DayState
  <2>2. waited[p] >= Grace
    BY DEF LateInv, Due
  <2> QED
    BY <2>1, <2>2
<1> QED
  BY <1>1, <1>2, <1>3, PTL DEF DaySpec
=============================================================================
