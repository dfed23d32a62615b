----------------------------- MODULE RotationSync -----------------------------
(***************************************************************************)
(* How the rotation's phones and lounge screens follow the server and      *)
(* confirm steps (rotation/service.py, rotation/forecast_service.py,       *)
(* static/js/rotation-common.js).                                          *)
(*                                                                         *)
(* Server: every operation holds the runtime's lock from its first read to *)
(* its commit and the publication of the committed day, so it is one       *)
(* action; its commit may fail.  A restart loses the cached day, begins a  *)
(* new sync epoch and counts versions from zero again.                     *)
(*                                                                         *)
(* Device: it shows the last data it accepted.  A press keeps the step's   *)
(* token as the pending confirmation (in sessionStorage, so that it        *)
(* survives a reload) until the server answers; when the outcome is        *)
(* unknown it asks /confirmation after a load.  Reads run in parallel and  *)
(* arrive in any order; a request given up after twelve seconds may still  *)
(* run; whatever has not been served dies with the server.                 *)
(*                                                                         *)
(* What a step does to posts and clocks is RotationDay's; a quiet tick,    *)
(* which moves the clock's cursor only, the change of day and the state of *)
(* the connection that blocks presses are left out.                        *)
(***************************************************************************)
EXTENDS Integers, FiniteSets, SequencesExt

CONSTANTS
    People, Devices,
    Shows,      \* the people whose steps a device may confirm
    Nothing,
    Failed,     \* what a read gets when the server stops before serving it
    MaxStep,    \* bound: steps of a person
    MaxLoads,   \* bound: reads of a device under way
    MaxFaults   \* bound: restarts, failed commits, lost answers, reloads, reconnections

ASSUME BoundsAssumption == MaxStep \in Nat \ {0} /\ MaxLoads \in Nat \ {0} /\ MaxFaults \in Nat
ASSUME ShowsAssumption == Shows \in [Devices -> SUBSET People] /\ Nothing \notin People

VARIABLES
    db,       \* the stored day and its row version
    cache,    \* Runtime.cache: a day and the row version it belongs to
    epoch, version,   \* Runtime.sync_epoch, Runtime.version
    late,     \* tokens of requests whose answer no modelled device awaits, still to run
    shown, retired,   \* RT.data, retiredSyncEpochs
    loads,    \* reads under way, in the order they were sent
    sent,     \* the confirmation being submitted
    pending,  \* RT.pendingConfirmation
    check,    \* the question whether it was confirmed
    told,     \* what the user was last told of a confirmation
    moved,    \* history: steps a manager made each person take
    faults

server == <<db, cache, epoch, version, late, moved>>
page == <<shown, retired, loads>>
vars == <<server, page, sent, pending, check, told, faults>>
-----------------------------------------------------------------------------
(* The server. *)

Empty == [version |-> 0, day |-> Nothing]
\* confirmation_token: bound to the person's step, not to the clock or the version.
Token(day, p) == <<p, day.step[p]>>
\* day_state: the cached day if it is the stored row's, else the row.
Day == IF cache.version = db.version THEN cache.day ELSE db.day

Keeps(ok, day) == IF ok THEN [version |-> db.version + 1, day |-> day] ELSE cache

\* transaction: commit, then publish; a failed commit leaves everything alone.
Commit(ok, day) ==
    /\ db' = IF ok THEN [version |-> db.version + 1, day |-> day] ELSE db
    /\ cache' = Keeps(ok, day)
    /\ version' = IF ok THEN version + 1 ELSE version
    /\ ok \/ faults < MaxFaults
    /\ faults' = IF ok THEN faults ELSE faults + 1

Stepped(day, p) == [day EXCEPT !.step[p] = @ + 1]
Confirmed(day, tok) == [Stepped(day, tok[1]) EXCEPT !.done = @ \cup {tok}]

\* Seeded fault: a token is good for whatever step its person is at.
VerdictOfPerson(tok) == "run"
Verdict(tok) == IF tok \in Day.done THEN "yes" ELSE IF tok = Token(Day, tok[1]) THEN "run" ELSE "no"

\* Seeded fault: the answer is given before the commit.
AnswerEarly(verdict, ok) == IF verdict = "run" THEN "yes" ELSE verdict
Answer(verdict, ok) == IF verdict # "run" THEN verdict ELSE IF ok THEN "yes" ELSE "error"

\* do_live_action with a confirmation token.
Runs(tok, ok) ==
    /\ IF Verdict(tok) = "run" THEN Commit(ok, Confirmed(Day, tok))
       ELSE ok /\ UNCHANGED <<db, cache, version, faults>>
    /\ UNCHANGED <<epoch, moved>>

Submitted(d, ok) ==
    /\ sent[d] # Nothing /\ sent[d].answer = "none"
    /\ Runs(sent[d].token, ok)
    /\ sent' = [sent EXCEPT ![d].answer = Answer(Verdict(sent[d].token), ok)]
    /\ UNCHANGED <<page, pending, check, told, late>>

RunsLate(tok, ok) ==
    /\ tok \in late /\ Runs(tok, ok)
    /\ late' = late \ {tok}
    /\ UNCHANGED <<page, sent, pending, check, told>>

\* do_live_action of a manager, a tick that moves the person.
Manage(p, ok) ==
    /\ Day.step[p] < MaxStep
    /\ Commit(ok, Stepped(Day, p))
    /\ moved' = IF ok THEN [moved EXCEPT ![p] = @ + 1] ELSE moved
    /\ UNCHANGED <<epoch, late, page, sent, pending, check, told>>

\* A device that is not modelled confirms a step it shows, of now or of before.
Elsewhere(p, s) ==
    /\ s \in 0..Day.step[p] /\ s < MaxStep
    /\ late' = late \cup {<<p, s>>}
    /\ UNCHANGED <<db, cache, epoch, version, moved, page, sent, pending, check, told, faults>>

\* board_payload, screen_payload, member_payload.
ServeLoad(d, i) ==
    /\ i \in DOMAIN loads[d] /\ loads[d][i] = Nothing
    /\ loads' = [loads EXCEPT ![d][i] = [epoch |-> epoch, version |-> version, step |-> Day.step]]
    /\ UNCHANGED <<server, shown, retired, sent, pending, check, told, faults>>

\* confirmation_status
ServeCheck(d) ==
    /\ check[d] = "sent"
    /\ check' = [check EXCEPT ![d] = IF pending[d] \in Day.done THEN "yes" ELSE "no"]
    /\ UNCHANGED <<server, page, sent, pending, told, faults>>
-----------------------------------------------------------------------------
(* A device. *)

Load(d) ==
    /\ Len(loads[d]) < MaxLoads
    /\ loads' = [loads EXCEPT ![d] = Append(@, Nothing)]
    /\ UNCHANGED <<server, shown, retired, sent, pending, check, told, faults>>

\* Seeded fault: whatever arrives is shown.
AcceptsAny(d, data) == TRUE
\* Seeded fault: versions are compared across restarts.
AcceptsNewer(d, data) == shown[d] = Nothing \/ data.version >= shown[d].version
\* acceptLiveData
Accepts(d, data) ==
    /\ data.epoch \notin retired[d]
    /\ shown[d] = Nothing \/ data.epoch # shown[d].epoch \/ data.version >= shown[d].version

\* Once an answer is accepted, those to earlier requests are dropped (loadLive).
LoadDone(d) == \E i \in DOMAIN loads[d] :
    LET data == loads[d][i]
        old == shown[d]
    IN /\ data # Nothing
       /\ IF data # Failed /\ Accepts(d, data)
          THEN /\ shown' = [shown EXCEPT ![d] = data]
               /\ retired' = IF old # Nothing /\ old.epoch # data.epoch
                             THEN [retired EXCEPT ![d] = @ \cup {old.epoch}] ELSE retired
               /\ loads' = [loads EXCEPT ![d] = SubSeq(@, i + 1, Len(@))]
          ELSE /\ loads' = [loads EXCEPT ![d] = RemoveAt(@, i)]
               /\ UNCHANGED <<shown, retired>>
       /\ UNCHANGED <<server, sent, pending, check, told, faults>>

Press(d, p) ==
    /\ p \in Shows[d] /\ shown[d] # Nothing /\ shown[d].step[p] < MaxStep
    /\ pending[d] = Nothing /\ sent[d] = Nothing
    /\ sent' = [sent EXCEPT ![d] = [token |-> Token(shown[d], p), answer |-> "none"]]
    /\ pending' = [pending EXCEPT ![d] = Token(shown[d], p)]
    /\ UNCHANGED <<server, page, check, told, faults>>

Told(d, says) == told' = [told EXCEPT ![d] = [token |-> pending[d], says |-> says]]
\* An error of the server leaves the outcome unknown; any other answer settles it.
Answered(d) ==
    /\ sent[d] # Nothing /\ sent[d].answer # "none"
    /\ sent' = [sent EXCEPT ![d] = Nothing]
    /\ IF sent[d].answer = "error" THEN UNCHANGED <<pending, told>>
       ELSE pending' = [pending EXCEPT ![d] = Nothing] /\ Told(d, sent[d].answer)
    /\ UNCHANGED <<server, page, check, faults>>

\* Seeded fault: an unsettled confirmation is only asked for by the page that made it.
AsksOnPage(d) == pending[d] # Nothing /\ sent[d] = Nothing /\ check[d] = "none" /\ told[d] # Nothing
\* Seeded fault: a question is asked although nothing is pending.
AsksAnyway(d) == sent[d] = Nothing /\ check[d] = "none"
\* checkPendingConfirmation
Asks(d) == pending[d] # Nothing /\ sent[d] = Nothing /\ check[d] = "none"
Check(d) ==
    /\ Asks(d)
    /\ check' = [check EXCEPT ![d] = "sent"]
    /\ UNCHANGED <<server, page, sent, pending, told, faults>>
CheckDone(d) ==
    /\ check[d] \in {"yes", "no"}
    /\ Told(d, check[d])
    /\ check' = [check EXCEPT ![d] = "none"]
    /\ pending' = [pending EXCEPT ![d] = Nothing]
    /\ UNCHANGED <<server, page, sent, faults>>
-----------------------------------------------------------------------------
(* Faults. *)

Fault == faults < MaxFaults /\ faults' = faults + 1
Unserved(d) == IF sent[d] # Nothing /\ sent[d].answer = "none" THEN {sent[d].token} ELSE {}

\* The device gives its submission up; the request may still reach the server.
GiveUp(d) ==
    /\ Fault /\ sent[d] # Nothing
    /\ late' = late \cup Unserved(d)
    /\ sent' = [sent EXCEPT ![d] = Nothing]
    /\ UNCHANGED <<db, cache, epoch, version, moved, page, pending, check, told>>

LoadLost(d) == \E i \in DOMAIN loads[d] :
    /\ Fault /\ loads' = [loads EXCEPT ![d] = RemoveAt(@, i)]
    /\ UNCHANGED <<server, shown, retired, sent, pending, check, told>>

CheckLost(d) ==
    /\ Fault /\ check[d] # "none" /\ check' = [check EXCEPT ![d] = "none"]
    /\ UNCHANGED <<server, page, sent, pending, told>>

\* The event stream opens again: reads started before are not shown.
Reopen(d) ==
    /\ Fault /\ loads[d] # <<>> /\ loads' = [loads EXCEPT ![d] = <<>>]
    /\ UNCHANGED <<server, shown, retired, sent, pending, check, told>>

Reload(d) ==
    /\ Fault /\ late' = late \cup Unserved(d)
    /\ shown' = [shown EXCEPT ![d] = Nothing]
    /\ retired' = [retired EXCEPT ![d] = {}]
    /\ loads' = [loads EXCEPT ![d] = <<>>]
    /\ sent' = [sent EXCEPT ![d] = Nothing]
    /\ check' = [check EXCEPT ![d] = "none"]
    /\ told' = [told EXCEPT ![d] = Nothing]
    /\ UNCHANGED <<db, cache, epoch, version, moved, pending>>

Restart ==
    /\ Fault
    /\ cache' = Empty /\ epoch' = epoch + 1 /\ version' = 0 /\ late' = {}
    /\ sent' = [d \in Devices |-> IF Unserved(d) = {} THEN sent[d] ELSE [sent[d] EXCEPT !.answer = "error"]]
    /\ loads' = [d \in Devices |-> [i \in DOMAIN loads[d] |-> IF loads[d][i] = Nothing THEN Failed ELSE loads[d][i]]]
    /\ check' = [d \in Devices |-> IF check[d] = "sent" THEN "none" ELSE check[d]]
    /\ UNCHANGED <<db, moved, shown, retired, pending, told>>
-----------------------------------------------------------------------------
Init ==
    /\ db = [version |-> 1, day |-> [step |-> [p \in People |-> 0], done |-> {}]]
    /\ cache = Empty /\ epoch = 0 /\ version = 0 /\ late = {}
    /\ shown = [d \in Devices |-> Nothing] /\ retired = [d \in Devices |-> {}]
    /\ loads = [d \in Devices |-> <<>>] /\ sent = [d \in Devices |-> Nothing]
    /\ pending = [d \in Devices |-> Nothing] /\ check = [d \in Devices |-> "none"]
    /\ told = [d \in Devices |-> Nothing]
    /\ moved = [p \in People |-> 0] /\ faults = 0

Next ==
    \/ \E p \in People, ok \in BOOLEAN : Manage(p, ok)
    \/ \E p \in People, s \in 0..MaxStep : Elsewhere(p, s)
    \/ \E tok \in late, ok \in BOOLEAN : RunsLate(tok, ok)
    \/ Restart
    \/ \E d \in Devices :
          \/ \E ok \in BOOLEAN : Submitted(d, ok)
          \/ \E i \in 1..MaxLoads : ServeLoad(d, i)
          \/ \E p \in People : Press(d, p)
          \/ ServeCheck(d) \/ Load(d) \/ LoadDone(d) \/ Answered(d) \/ Check(d) \/ CheckDone(d)
          \/ GiveUp(d) \/ LoadLost(d) \/ CheckLost(d) \/ Reopen(d) \/ Reload(d)

Spec == Init /\ [][Next]_vars

\* The server serves what it is sent; a device reads every fifteen seconds, asks for
\* what is pending after a read, and takes in the answers it gets.
FairSpec ==
    /\ Spec
    /\ \A d \in Devices :
          /\ WF_vars(Submitted(d, TRUE)) /\ WF_vars(Answered(d))
          /\ WF_vars(Load(d)) /\ WF_vars(\E i \in 1..MaxLoads : ServeLoad(d, i)) /\ WF_vars(LoadDone(d))
          /\ WF_vars(Check(d)) /\ WF_vars(ServeCheck(d)) /\ WF_vars(CheckDone(d))
-----------------------------------------------------------------------------
Tokens == People \X (0..(MaxStep - 1))
Steps == [People -> 0..MaxStep]
Stored == [version : Nat, day : [step : Steps, done : SUBSET Tokens]]
Data == [epoch : 0..MaxFaults, version : Nat, step : Steps]
\* Neither value is a token or served data.
ASSUME NothingAssumption == Nothing \notin Tokens \cup Data /\ Failed \notin Data \cup {Nothing}
TypeOK ==
    /\ db \in Stored /\ cache \in Stored \cup {Empty}
    /\ epoch \in 0..MaxFaults /\ version \in Nat /\ late \subseteq Tokens
    /\ shown \in [Devices -> Data \cup {Nothing}]
    /\ retired \in [Devices -> SUBSET (0..MaxFaults)]
    /\ \A d \in Devices : Len(loads[d]) <= MaxLoads /\ Range(loads[d]) \subseteq Data \cup {Nothing, Failed}
    /\ sent \in [Devices -> [token : Tokens, answer : {"none", "yes", "no", "error"}] \cup {Nothing}]
    /\ pending \in [Devices -> Tokens \cup {Nothing}]
    /\ check \in [Devices -> {"none", "sent", "yes", "no"}]
    /\ \A d \in Devices : check[d] # "none" \/ sent[d] # Nothing => pending[d] # Nothing
    /\ told \in [Devices -> [token : Tokens, says : {"yes", "no"}] \cup {Nothing}]
    /\ moved \in Steps /\ faults \in 0..MaxFaults

\* However often and from however many devices a step is confirmed, and whatever is
\* given up, repeated or late, a person moves once for each token that was confirmed
\* and once for each move a manager made.
OncePerToken ==
    \A p \in People : db.day.step[p] = moved[p] + Cardinality({tok \in db.day.done : tok[1] = p})

\* Who was told that a step is confirmed was told so of a step that is stored: it
\* survives failed commits and restarts (transaction commits, then answers).
ToldIsStored == \A d \in Devices : told[d] # Nothing /\ told[d].says = "yes" => told[d].token \in db.day.done

\* What is stored at every moment: types, one move for each confirmation, and
\* all that anybody was told.
StepsKept == TypeOK /\ OncePerToken /\ ToldIsStored

\* What a page shows never goes back, through answers that overtake each other and
\* through restarts that count versions from zero (loadLive, acceptLiveData).
ShownGoesForward ==
    [][\A d \in Devices : shown[d] # Nothing /\ shown'[d] # Nothing
          => \A p \in People : shown'[d].step[p] >= shown[d].step[p]]_vars

\* A confirmation whose outcome is unknown is settled, so that the device may confirm
\* the next step (checkPendingConfirmation).
PendingSettled == \A d \in Devices : pending[d] # Nothing ~> pending[d] = Nothing

\* Every device comes to show the stored day (scheduleLoad, acceptLiveData).
ShownCatchesUp == \A d \in Devices : []<>(shown[d] # Nothing /\ shown[d].step = db.day.step)

\* Devices and server come to agree: on what was sent and on what is shown.
SyncCatchesUp == PendingSettled /\ ShownCatchesUp
=============================================================================
