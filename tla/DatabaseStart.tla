--------------------------- MODULE DatabaseStart ---------------------------
(* A start of the application on an existing SQLite database: the one-shot  *)
(* patches of database/migrations, run in the order of the registry and     *)
(* recorded under their keys, then the guarantees of every start            *)
(* (bootstrap.py), then service.                                            *)
(*                                                                          *)
(* The driver opens a transaction only before an INSERT, UPDATE or DELETE:  *)
(* a CREATE or an ALTER outside of one is on disk at once, one inside goes  *)
(* with it. `work' is what the start's session sees, `saved' what a crash   *)
(* leaves. A patch is a script of statements:                               *)
(*   ensure   a column, a table or an index, made when it is missing        *)
(*   fill     an UPDATE of the rows the patch is for                        *)
(*   commit   the patch's own commit; record is the registry's key          *)
(* and the statements of the two table rebuilds and of the guarantees.      *)
(* The management scopes are those of one employee; all starts are on one   *)
(* day. The offices of HR01 and of the circles' HR accounts, which a start  *)
(* writes anew, are left out.                                               *)
EXTENDS Integers, Sequences, FiniteSets, FiniteSetsExt

CONSTANTS Shipped,    \* how many patches the release in service knows at first
          Scopes,     \* the sets of management scopes an old database may hold
    Today, Open,  \* the day of the starts, and the end of a scope without one
          MaxStops,   \* crashes and shutdowns
          MaxEdits    \* things entered while serving

VARIABLES saved, work, inTx, phase, step, at, applied, known, entered, rewritten, stops, edits

startVars == <<saved, work, inTx, phase, step, at, applied, known, entered, rewritten, stops, edits>>

----------------------------------------------------------------------------
(* The patches. Two ensures stand for a patch that makes several things.    *)

VoidAudit == <<"ensure", "ensure", "fill", "commit">>
Credentials == <<"ensure", "commit">>
AttractionDimensions == <<"ensure", "ensure", "commit">>
PerformanceIndexes == <<"ensure", "ensure", "commit">>
GovernanceIndexes == <<"ensure", "ensure", "commit">>
SameDayDuplicates == <<"ensure", "ensure", "commit">>
StatementUpgrade == <<"ensure", "ensure", "commit">>
CreditCap == <<"ensure", "fill", "ensure", "commit">>
NumberHistory == <<"ensure", "ensure", "commit">>
PhotoMaterials == <<"ensure", "fill", "ensure", "commit">>
CollaborativeMaterials == <<"ensure", "ensure", "fill", "commit">>
PasswordTimestamp == <<"ensure", "fill", "commit">>
LoginArchive == <<"ensure", "ensure", "fill", "commit">>
PayloadDigest == <<"ensure", "commit">>
QueryIndexes == <<"ensure", "ensure", "commit">>
ClaimGeneration == <<"ensure", "fill", "ensure", "commit">>
(* The sick leaves' table is rebuilt inside one explicit transaction, after *)
(* the leftover of an earlier try is dropped.                               *)
SickLeaveImport ==
  <<"ensure", "ensure", "fill", "commit", "unlessNew",
    "begin", "clear", "create", "copy", "drop", "rename", "commit", "index", "commit">>
ActingDuties == <<"ensure", "ensure", "commit", "fill", "commit">>
(* The recognition attachments' is not: its CREATE is on disk by itself.    *)
SharedEvidence == <<"unlessNew", "create", "copy", "drop", "rename", "index">>
AuditScope == <<"fill", "commit">>
LeaderTypes == <<"ensure", "ensure", "commit", "fill", "commit">>
GroupCodes == <<"ensure", "ensure", "commit", "fill", "commit">>
Resequence == <<"fill", "commit">>
RankComments == <<"ensure", "ensure">>
RankRules == <<"ensure", "ensure">>
IndexRepair == <<"ensure", "ensure", "commit">>
EmploymentHistory == <<"ensure", "commit">>
EmployeeTypes == <<"ensure", "ensure">>
LearningCategories == <<"ensure", "ensure">>
AboutCredits == <<"ensure", "ensure">>
FivePosts == <<"fill">>
PolicySnapshots == <<"ensure", "ensure">>
SixPosts == <<"fill">>

Runners ==
  <<VoidAudit, Credentials, AttractionDimensions, PerformanceIndexes, GovernanceIndexes, SameDayDuplicates,
    StatementUpgrade, CreditCap, NumberHistory, PhotoMaterials, CollaborativeMaterials, PasswordTimestamp,
    LoginArchive, PayloadDigest, QueryIndexes, ClaimGeneration, SickLeaveImport, ActingDuties, SharedEvidence,
    AuditScope, LeaderTypes, GroupCodes, Resequence, RankComments, RankRules, IndexRepair, EmploymentHistory,
    EmployeeTypes, LearningCategories, AboutCredits, FivePosts, PolicySnapshots, SixPosts>>

(* What every start does after them; "serve" opens the application.         *)
Guarantees ==
  <<"catalog", "commit", "reference", "commit", "scopes", "commit", "demo", "commit", "admin", "commit", "hr", "commit",
    "ranks", "commit", "dropView", "makeView", "rotation", "commit", "serve">>

Patches == DOMAIN Runners
ScopePlaces == {"venue", "circle", "other"}   \* a former venue of the employee's circle, the circle, another one
ASSUME StartAssumption ==
  /\ Shipped \in 0..Len(Runners) /\ Today \in Nat \ {0} /\ Open \in Nat /\ Today <= Open
  /\ \A scopes \in Scopes : /\ IsFiniteSet(scopes)
                            /\ \A s \in scopes : s \in [place : ScopePlaces, from : Nat, to : Nat]
Leaves == 17
Evidence == 19
Finally == Len(Runners) + 1

\* Seeded fault: the key is recorded before its patch has run.
RecordedFirst(s) == <<"record", "commit">> \o Runners[s]
Patched(s) == Runners[s] \o <<"record", "commit">>
Script(s) == IF s = Finally THEN Guarantees ELSE Patched(s)

Ensures(s) == Cardinality({i \in DOMAIN Runners[s] : Runners[s][i] = "ensure"})
Filling == {s \in Patches : \E i \in DOMAIN Runners[s] : Runners[s][i] = "fill"}
(* The patches whose condition a row written later may meet as well: a      *)
(* recognition or a declaration entered late for an old date, a password    *)
(* reset after a change, an audit row without a circle, a group's letter    *)
(* freed or its leader's identity changed, a shortened rotation line.       *)
LaterRows == {8, 11, 12, 13, 18, 20, 21, 23, 31, 33}

Rebuilt == {Leaves, Evidence}
Accounts == {"HR01", "HR-HEAT", "TEST", "SCREEN"}   \* SCREEN: a device of the post rotation
Nobody == [hash |-> "none", initialized |-> FALSE, enabled |-> FALSE]
Legacy == [hash |-> "legacy", initialized |-> FALSE, enabled |-> TRUE]

OldDatabase(scopes) ==
  [made |-> [s \in Patches |-> 0], keys |-> {}, filled |-> {}, manages |-> FALSE, ranked |-> FALSE,
   table |-> [t \in Rebuilt |-> [shape |-> "old", main |-> TRUE, copy |-> "none", indexed |-> TRUE]],
   account |-> [a \in Accounts |-> IF a \in {"HR-HEAT", "SCREEN"} THEN Nobody ELSE Legacy],
   people |-> "venue", scopes |-> scopes, granted |-> Shipped, kinds |-> {"SAFETY", "RETIRED"}, policies |-> {},
   view |-> TRUE]

(* Made by create_all: everything is there, no key is recorded.             *)
NewDatabase ==
  [OldDatabase({}) EXCEPT !.made = [s \in Patches |-> Ensures(s)],
                          !.table = [t \in Rebuilt |-> [shape |-> "new", main |-> TRUE, copy |-> "none", indexed |-> TRUE]],
                          !.account = [a \in Accounts |-> Nobody],
                          !.people = "circle", !.granted = 0, !.kinds = {}, !.view = FALSE, !.ranked = TRUE]

StartInit ==
  /\ \/ saved \in {[OldDatabase(scopes) EXCEPT !.manages = m] : scopes \in Scopes, m \in BOOLEAN}
     \/ saved = NewDatabase
  /\ work = saved /\ inTx = FALSE /\ phase = "down"
  /\ step = 0 /\ at = 1 /\ applied = {} /\ known = Shipped
  /\ entered = {} /\ rewritten = {} /\ stops = 0 /\ edits = 0

----------------------------------------------------------------------------
(* Where the start is.                                                      *)

\* Seeded fault: a start does not skip what an earlier one has recorded.
NoneSkipped(s, keys) == FALSE
Skipped(s, keys) == s \in keys
Pending(s, keys) == {t \in s + 1 .. known : ~Skipped(t, keys)}
Following(s, keys) == IF Pending(s, keys) = {} THEN Finally ELSE Min(Pending(s, keys))

Doing(statement) == phase = "starting" /\ Script(step)[at] = statement

Onward ==
  /\ IF at < Len(Script(step)) THEN at' = at + 1 /\ UNCHANGED step
     ELSE step' = Following(step, applied) /\ at' = 1
  /\ UNCHANGED <<phase, applied, known, stops, edits>>

(* A CREATE, an ALTER, a DROP: at once on disk unless a transaction is open. *)
Defines(w) == work' = w /\ saved' = (IF inTx THEN saved ELSE w) /\ UNCHANGED inTx
(* An INSERT, an UPDATE, a DELETE: it opens the transaction it needs.       *)
Alters(w) == work' = w /\ inTx' = TRUE /\ UNCHANGED saved
Stays == UNCHANGED <<saved, work, inTx, entered, rewritten>>

BeginStart ==
  /\ phase = "down"
  /\ phase' = "starting" /\ applied' = work.keys /\ at' = 1
  /\ step' = Following(0, work.keys)
  /\ Stays /\ UNCHANGED <<known, stops, edits>>

(* Which of its things the patch is at: the statement's rank.               *)
Rank == Cardinality({i \in 1..at : Script(step)[i] = "ensure"})

\* Seeded fault: a column is added without looking whether it is there.
MissingOrNot(n) == TRUE
Missing(n) == work.made[step] < n

Ensure ==
  /\ Doing("ensure")
  /\ IF Missing(Rank) /\ work.made[step] >= Rank
     THEN /\ phase' = "failed" /\ Stays /\ UNCHANGED <<step, at, applied, known, stops, edits>>
     ELSE /\ IF Missing(Rank) THEN Defines([work EXCEPT !.made[step] = Rank]) ELSE UNCHANGED <<saved, work, inTx>>
          /\ Onward /\ UNCHANGED <<entered, rewritten>>

Fill ==
  /\ Doing("fill")
  /\ Alters([work EXCEPT !.filled = @ \cup {step}])
  /\ rewritten' = rewritten \cup (entered \cap {step})
  /\ Onward /\ UNCHANGED entered

Commit ==
  /\ Doing("commit")
  /\ saved' = work /\ inTx' = FALSE
  /\ Onward /\ UNCHANGED <<work, entered, rewritten>>

Record ==
  /\ Doing("record")
  /\ Alters([work EXCEPT !.keys = @ \cup {step}])
  /\ Onward /\ UNCHANGED <<entered, rewritten>>

----------------------------------------------------------------------------
(* The rebuild of a table.                                                  *)

(* Already in the new shape: on to the indexes.                             *)
Ahead(s) == CHOOSE i \in DOMAIN Script(s) : Script(s)[i] = "index"
PastRebuild == IF step = Leaves THEN Ahead(step) ELSE Len(Runners[Evidence]) + 1

Unless ==
  /\ Doing("unlessNew")
  /\ at' = IF work.table[step].shape = "new" THEN PastRebuild ELSE at + 1
  /\ Stays /\ UNCHANGED <<phase, step, applied, known, stops, edits>>

Begin == Doing("begin") /\ inTx' = TRUE /\ Onward /\ UNCHANGED <<saved, work, entered, rewritten>>

(* DROP TABLE IF EXISTS, then CREATE, which fails on a table left behind.   *)
Clear == Doing("clear") /\ Defines([work EXCEPT !.table[step].copy = "none"]) /\ Onward /\ UNCHANGED <<entered, rewritten>>

CreateCopy ==
  /\ Doing("create")
  /\ IF work.table[step].copy = "none"
     THEN Defines([work EXCEPT !.table[step].copy = "empty"]) /\ Onward /\ UNCHANGED <<entered, rewritten>>
     ELSE phase' = "failed" /\ Stays /\ UNCHANGED <<step, at, applied, known, stops, edits>>

CopyRows == Doing("copy") /\ Alters([work EXCEPT !.table[step].copy = "full"]) /\ Onward /\ UNCHANGED <<entered, rewritten>>

(* The old table goes with its indexes.                                     *)
DropOld ==
  /\ Doing("drop")
  /\ Defines([work EXCEPT !.table[step] = [@ EXCEPT !.main = FALSE, !.indexed = FALSE]])
  /\ Onward /\ UNCHANGED <<entered, rewritten>>

RenameCopy ==
  /\ Doing("rename")
  /\ LET copied == work.table[step].copy = "full"
     IN Defines([work EXCEPT !.table[step] = [@ EXCEPT !.main = copied, !.copy = "none", !.shape = "new"]])
  /\ Onward /\ UNCHANGED <<entered, rewritten>>

Index == Doing("index") /\ Defines([work EXCEPT !.table[step].indexed = TRUE]) /\ Onward /\ UNCHANGED <<entered, rewritten>>

----------------------------------------------------------------------------
(* The guarantees of every start.                                           *)

(* Scopes of a former venue become scopes of its circle: one row for each   *)
(* first day, lasting as long as the longer of the two.                     *)
Merged(scopes) ==
  LET near == {s \in scopes : s.place # "other"}
  IN (scopes \ near) \cup
     {[place |-> "circle", from |-> d, to |-> Max({s.to : s \in {r \in near : r.from = d}})] : d \in {s.from : s \in near}}

Catalog ==
  /\ Doing("catalog")
  /\ Alters([work EXCEPT !.people = "circle", !.scopes = Merged(work.scopes)])
  /\ Onward /\ UNCHANGED <<entered, rewritten>>

\* Seeded fault: only the built-in kinds of deduction stay in use.
BuiltIn(w) == {"SAFETY"}
InUse(w) == {"SAFETY"} \cup (w.kinds \cap w.policies)

(* Roles and permissions become the release's own; of the kinds of          *)
(* deduction the built-in ones and those the administrator configured stay  *)
(* in use.                                                                  *)
Reference ==
  /\ Doing("reference")
  /\ Alters([work EXCEPT !.granted = known, !.kinds = InUse(work)])
  /\ Onward /\ UNCHANGED <<entered, rewritten>>

(* Who manages the circle today has one scope in force, of the circle and   *)
(* without an end: the newest he has, or one from today. Every other scope  *)
(* in force ended yesterday, or never was when it began today.              *)
ScopesInForce(scopes) == {s \in scopes : s.from <= Today /\ Today <= s.to}
StillManaged(scopes, manages) ==
  LET own == {s \in ScopesInForce(scopes) : manages /\ s.place = "circle"}
  IN IF own = {} THEN {} ELSE {CHOOSE s \in own : \A r \in own : r.from <= s.from}
SyncedScopes(scopes, manages) ==
  LET kept == StillManaged(scopes, manages)
      ended == {s \in ScopesInForce(scopes) \ kept : s.from < Today}
      now == IF manages /\ kept = {} THEN {[place |-> "circle", from |-> Today, to |-> Open]}
             ELSE {[s EXCEPT !.to = Open] : s \in kept}
  IN (scopes \ ScopesInForce(scopes)) \cup {[s EXCEPT !.to = Today - 1] : s \in ended} \cup now

ScopeSync ==
  /\ Doing("scopes")
  /\ Alters([work EXCEPT !.scopes = SyncedScopes(work.scopes, work.manages)])
  /\ Onward /\ UNCHANGED <<entered, rewritten>>

(* In production the demonstration accounts are switched off.               *)
Demo == Doing("demo") /\ Alters([work EXCEPT !.account["TEST"].enabled = FALSE]) /\ Onward /\ UNCHANGED <<entered, rewritten>>

Unsafe(a) == ~a.initialized

(* The highest administrator: in force, enabled, a password of the old      *)
(* bootstrap replaced once. A database without the account gets it from the *)
(* environment's bootstrap password.                                        *)
SecuredAdmin(a) ==
  IF Unsafe(a) THEN [hash |-> "temporary", initialized |-> TRUE, enabled |-> TRUE]
  ELSE [a EXCEPT !.enabled = TRUE]

(* A circle's HR account is made once, switched off, with a password nobody *)
(* knows until the administrator resets it.                                 *)
SecuredHr(a) == IF a.initialized THEN a ELSE [hash |-> "temporary", initialized |-> TRUE, enabled |-> FALSE]

Admin == Doing("admin") /\ Alters([work EXCEPT !.account["HR01"] = SecuredAdmin(@)]) /\ Onward /\ UNCHANGED <<entered, rewritten>>
Hr == Doing("hr") /\ Alters([work EXCEPT !.account["HR-HEAT"] = SecuredHr(@)]) /\ Onward /\ UNCHANGED <<entered, rewritten>>

(* Closed months without their rankings get them; a device of the rotation  *)
(* that has no account gets one.                                            *)
Ranks == Doing("ranks") /\ Alters([work EXCEPT !.ranked = TRUE]) /\ Onward /\ UNCHANGED <<entered, rewritten>>
GivenDevice(a) == IF a.hash # "none" THEN a ELSE [hash |-> "temporary", initialized |-> TRUE, enabled |-> TRUE]
Rotation == Doing("rotation") /\ Alters([work EXCEPT !.account["SCREEN"] = GivenDevice(@)]) /\ Onward /\ UNCHANGED <<entered, rewritten>>

DropView == Doing("dropView") /\ Defines([work EXCEPT !.view = FALSE]) /\ Onward /\ UNCHANGED <<entered, rewritten>>
MakeView == Doing("makeView") /\ Defines([work EXCEPT !.view = TRUE]) /\ Onward /\ UNCHANGED <<entered, rewritten>>

Serve == Doing("serve") /\ phase' = "serving" /\ Stays /\ UNCHANGED <<step, at, applied, known, stops, edits>>

----------------------------------------------------------------------------
(* While serving.                                                           *)

Edits(w) ==
  /\ phase = "serving" /\ edits < MaxEdits
  /\ work' = w /\ saved' = w /\ edits' = edits + 1
  /\ UNCHANGED <<inTx, phase, step, at, applied, known, rewritten, stops>>

(* Rows that meet the condition of a patch that has run.                    *)
Enter(s) == s \in saved.keys \ entered /\ Edits(saved) /\ entered' = entered \cup {s}

ChangePassword(a) ==
  /\ saved.account[a].enabled /\ saved.account[a].hash # "chosen"
  /\ Edits([saved EXCEPT !.account[a] = [hash |-> "chosen", initialized |-> TRUE, enabled |-> TRUE]])
  /\ UNCHANGED entered

(* A kind of deduction of the administrator's own, with its scoring policy. *)
AddKind ==
  /\ "CUSTOM" \notin saved.kinds
  /\ Edits([saved EXCEPT !.kinds = @ \cup {"CUSTOM"}, !.policies = @ \cup {"CUSTOM"}])
  /\ UNCHANGED entered

ResetHr ==
  /\ saved.account["HR-HEAT"].initialized
  /\ Edits([saved EXCEPT !.account["HR-HEAT"] = [hash |-> "temporary", initialized |-> TRUE, enabled |-> TRUE]])
  /\ UNCHANGED entered

(* An edit by HR sets the office and its scope together; the first or last  *)
(* day of a dated office comes without a word to the scopes.                *)
Appoint(m) ==
  /\ saved.manages # m
  /\ Edits([saved EXCEPT !.manages = m, !.scopes = SyncedScopes(saved.scopes, m)])
  /\ UNCHANGED entered
OfficeTurns == Edits([saved EXCEPT !.manages = ~@]) /\ UNCHANGED entered

Disable(a) == saved.account[a].enabled /\ Edits([saved EXCEPT !.account[a].enabled = FALSE]) /\ UNCHANGED entered

(* A crash at any statement, a statement that raises, a shutdown: the       *)
(* session's open transaction is undone. A new release may follow.          *)
Halt(release) ==
  /\ phase # "down" /\ stops < MaxStops
  /\ phase' = "down" /\ work' = saved /\ inTx' = FALSE
  /\ known' = release /\ stops' = stops + 1 /\ at' = 1 /\ step' = 0
  /\ UNCHANGED <<saved, applied, entered, rewritten, edits>>

Run ==
  \/ BeginStart \/ Ensure \/ Fill \/ Commit \/ Record
  \/ Unless \/ Begin \/ Clear \/ CreateCopy \/ CopyRows \/ DropOld \/ RenameCopy \/ Index
  \/ Catalog \/ Reference \/ ScopeSync \/ Demo \/ Admin \/ Hr \/ Ranks \/ DropView \/ MakeView \/ Rotation \/ Serve

StartNext ==
  \/ Run
  \/ \E s \in LaterRows : Enter(s)
  \/ \E a \in Accounts : ChangePassword(a) \/ Disable(a)
  \/ ResetHr \/ AddKind \/ OfficeTurns \/ \E m \in BOOLEAN : Appoint(m)
  \/ \E release \in {known, Len(Runners)} : Halt(release)

StartSpec == StartInit /\ [][StartNext]_startVars

----------------------------------------------------------------------------
(* Properties.                                                              *)

(* On disk a recorded key means the whole patch: nothing of it is missing,  *)
(* its rows are filled, its table is rebuilt and indexed; and whatever the  *)
(* moment of a crash, each rebuilt table is there with its rows.            *)
RecordedIsDone ==
  \A s \in saved.keys :
    /\ saved.made[s] = Ensures(s)
    /\ s \in Filling => s \in saved.filled
    /\ s \in Rebuilt => saved.table[s].shape = "new" /\ saved.table[s].copy = "none" /\ saved.table[s].indexed
RowsSurvive == \A t \in Rebuilt : saved.table[t].main
(* The application is only opened on a database that has every patch of its *)
(* release, its permissions, the score view, and nobody at a former venue.  *)
OpenedWhole ==
  phase = "serving" => 1..known \subseteq saved.keys /\ saved.granted = known /\ saved.view /\ saved.people = "circle"

UpgradeWhole == RecordedIsDone /\ RowsSurvive /\ OpenedWhole

(* A start interrupted anywhere can be tried again, with one exception: the *)
(* copy of the recognition attachments, left behind by a crash between its  *)
(* CREATE and the first commit after it, makes every later start fail       *)
(* (schema.py:62, next to which the sick leaves' rebuild drops a leftover). *)
OnlyTheCopyBlocks == phase = "failed" => saved.table[Evidence].copy = "empty" /\ Evidence \notin saved.keys

(* When a start opens the application, the highest administrator can log    *)
(* in and no demonstration account can, every device has its account, every *)
(* closed month its rankings, and whoever manages the circle today, nobody  *)
(* else, has a scope in force: one, and the circle's (bootstrap.py:42-55).  *)
GuaranteesHold ==
  phase = "starting" /\ Script(step)[at] = "serve" =>
    /\ work.account["HR01"].enabled /\ ~work.account["TEST"].enabled /\ work.account["SCREEN"].hash # "none"
    /\ work.ranked
    /\ \A s \in ScopesInForce(work.scopes) : work.manages /\ s.place = "circle" /\ s.to = Open
    /\ work.manages => \E s \in work.scopes : ScopesInForce(work.scopes) = {s}

(* The database a start leaves, however often it was interrupted.           *)
StartWhole == UpgradeWhole /\ OnlyTheCopyBlocks /\ GuaranteesHold

(* A start leaves alone what was entered while serving: no row is rewritten *)
(* by a patch that ran before it, no password its holder chose is replaced, *)
(* no account switched off but the highest administrator's is switched on,  *)
(* no kind of deduction of the administrator's own goes out of use, and no  *)
(* day before today is taken from or given to a management scope. Of today  *)
(* and after it a start decides itself: the scopes in force are set anew,   *)
(* HR01 is switched on, demonstration accounts off.                         *)
Past(w) ==
  {p \in BOOLEAN \X (0 .. Today - 1) : \E s \in w.scopes : p[1] = (s.place = "other") /\ p[2] \in s.from..s.to}
KeepsEntries ==
  [][phase = "starting" =>
       /\ rewritten' = rewritten
       /\ \A a \in Accounts : work.account[a].hash = "chosen" => work'.account[a].hash = "chosen"
       /\ phase' = "starting" =>
            \A a \in Accounts \ {"HR01"} :
               ~work.account[a].enabled /\ (a = "SCREEN" => work.account[a].hash # "none")
               => ~work'.account[a].enabled
       /\ work.kinds \cap work.policies \subseteq work'.kinds
       /\ Past(work') = Past(work)]_startVars
=============================================================================
