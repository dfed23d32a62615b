# FZ 团队工作台: specifications, checks and proofs

This directory holds TLA+ modules translated from the code of the team workbench
(`src/backend/app`, FastAPI on SQLAlchemy and SQLite in WAL mode, one server process,
and the release and recovery scripts of `src/scripts`), the TLC configurations that check
them on small instances, and TLAPS proofs of what matters most for every instance.
`PROJECT.json` names, for each definition, the lines it stands for; for each property, the
seeded fault of the code that breaks it; and the hazards the properties are aimed at.

The same few mechanisms make every part of this program hard:

* **One process, threads and one event loop.** `async def` handlers keep the loop until
  they await (an upload, an image decoded by a thread); `def` handlers run on a thread
  pool; background workers (material, video, announcements, exports) are threads.
* **SQLite.** Readers see the last commit, one session at a time holds the writer, a
  session that wants it waits up to 30 s (`busy_timeout`). Sessions have `autoflush`
  off, so a transaction starts at the first flush or at an explicit `BEGIN IMMEDIATE`,
  and everything read before that may be stale. The driver opens a transaction only
  before an INSERT, UPDATE or DELETE: a CREATE outside of one is on disk at once.
* **Pages that are old when they are used.** Previews, reviews, approvals and
  confirmations decide on what a page showed some time ago; a revision, a token or a
  snapshot says whether it is still so.
* **Files beside rows.** A file is written before, and unlinked after, the commit that
  names it; a crash may come between.
* **A month that closes.** Every write to a month's business records has to respect a
  closure that somebody else may commit at any moment.

## 1. Inventory

"Hard" is what the modules aim at; "correct" is what they should promise.

| component (under `src/backend/app` unless said) | state | operations | interacts with | hard | correct |
|---|---|---|---|---|---|
| month close: `month_closure.py`, `routers/governance.py` | `month_closures`, checks registered in a session | check, flush and commit listeners, close, reopen | every writer of month rows | a close between a check and a write | a closed month's counted rows never change |
| monthly ranks: `services/monthly_ranks.py` | rank snapshots, frozen circles | capture at a close, bands, supervisors' comparison, refresh | month close, transfers | cohorts over scopes closed one by one | a band is of the close it was sealed by |
| deductions: `routers/deductions.py`, `deduction_policy.py`, `material_policy.py`, `services/scoring_policies.py` | `deduction_records`, upgrade requests, follow-ups | create, upgrade, approve, reject, retry, void, restore, correct, resolve repeat | material worker, month close, sick leave | awaited uploads, stale repeat answers, several rows that tell one story | repeats escalate; a statement is spent on one upgrade; a draft can be completed |
| material worker: `deduction_materials.py` | `deduction_material_jobs`, source and generated files | claim, heartbeat, convert, apply, fail, clean up | deductions | crashes, take-over of a live claim, file and row apart | one result per job, ready material has its file, sources outlive the work |
| recognitions: `routers/recognitions.py`, `idempotency.py` | `recognition_records`, monthly quotas, submission receipts | submit (own, proxy, batch, special contribution), review, withdraw | scoring configuration, month close | the writer held across an await, caps and counts read early, retries of a submission | credits within the rule, one record per key, an answer for everyone |
| scoring configuration: `scoring_config.py`, `routers/scoring_config.py` | rules with dates in force | save, list, restore | recognitions, deductions | records frozen under different rules | a record is judged by the rule of its day |
| sick leave: `routers/sick_leaves.py` and its import: `routers/sick_leave_import.py` | leave rows, a deduction each, previews | register, correct, void, preview, confirm | attendance, deductions, month gate | a preview stale when confirmed, an upload awaited | what is confirmed is what was previewed |
| leave of absence and attendance: `services/loa_commands.py`, `services/attendance.py` | LOA periods, attendance rows | set, end, withdraw, recalculate, fill on reading | sick leave, month gate, statistics | a reader stores a month while a writer changes it | attendance follows the leaves in force |
| employees, identity, roles: `services/employment.py`, `services/employee_types.py`, `services/employee_identity_commands.py`, `services/employee_status.py`, `services/role_lifecycle.py` | employees, cycles, role periods, duties, accounts | register, edit, archive, register anew, import, expiry, deletion after three days | accounts, groups | several rows and two sweepers that tell one story | the past of an employment does not change |
| organization, groups, transfers: `routers/organization.py`, `services/employee_groups.py` | circles, groups, leaders, transfer requests | set group, set leaders, close group, transfer | reviews of recognitions, ranks | who reviews is computed in two places; edits read before the writer | a pending record is with whoever may review it |
| accounts and sessions: `routers/auth.py`, `routers/accounts.py`, `v2_auth.py` | accounts, session versions, limits | login, reset, temporary accounts | all routers | the built-in accounts over restarts | a chosen password stays, and a disabled account but HR01's |
| rotation: `rotation/engine.py`, `forecast.py`, `forecast_service.py`, `history.py`, `service.py` | one in-memory day, its stored copy, receipts, undo stack | confirm arrival and departure, recommend, hold, close, open, undo, clock | boards, screens | reliefs that move a whole line, undos of them, deadlines | one person per post, no lateness nobody could avoid |
| rotation screens: `static/js/rotation-common.js`, `rotation/service.py` | a device's outstanding confirmation and shown day, receipts, versions | load, submit, answer, check, give up | rotation | lost answers, overtaking reads, restarts | a step is taken once, the screen catches up |
| day plan: `rotation/daily.py`, `rotation/service.py` | a draft day, seats, reliefs, held and closed posts | draft, seat, swap, remove, order, publish, auto-start | rotation | every edit re-derives who relieves whom | an edit leaves the others paired as they were |
| announcements and training: `routers/announcements.py`, `announcement_training.py`, `announcement_worker.py` | versions, receipts, codes, grants | publish, revise, withdraw, deliver, generate and verify a code, sign | identity, leave, worker | codes, roles and versions that end between two calls | what was signed was in force; everyone is asked |
| owners of announcements: `announcement_responsibilities.py` | shared groups, batches of hand-overs | propose, accept, force, hand over | announcements | two proposals about one announcement | owners are members; a batch is executed as accepted |
| video learning: `routers/video_learning.py`, `video_worker.py`, `video_media.py` | `learning_videos`, jobs, files | upload, retry, cover, publish, replace, withdraw, delete | codec | a job that ends after its video changed | one published version, deletion wins |
| learning shares: `routers/learning.py`, `learning.py` | texts, drafts, reviews, access requests | draft, publish, review, withdraw, transfer, ask, approve | identity | a decision on an older page | what is decided is what was shown |
| export tasks: `routers/export_tasks.py` | in-memory tasks, one thread, cached files | create, list, download, expire, evict | all export endpoints | four limits checked at different moments, rights that change | a file is served under the rights it was made with |
| data cache: `data_cache.py`, `routers/statistics.py` | process-wide dictionaries | get, put, clear at commit | statistics | filled from a read that precedes the commit that cleared it | staleness is bounded |
| statistics, rankings, details: `score_queries.py`, `services/performance_details.py`, `services/monthly_statistics.py` | none | read | everything | one score, three computations | every page tells the same score |
| database start: `database/` | schema, keys of patches, reference rows | patch, record, guarantee, serve | — | a crash between two statements | a start can be tried again and leaves entries alone |
| backups: `backup_management.py` | a row for the manual backup, copies | claim, take over, copy, report | — | a take-over of a live one | one at a time, a true report |
| deployment and recovery: `src/scripts/server_release.py`, `deployment_runtime.py`, `recovery_bundle.py` | release files, environment, watchdog, receipt, bundles | deploy, roll back, retry, bundle | the running server | a failure or death at any step | nothing replaced under a live process; true receipts |
| files and attachments: `services/attachments.py` | image files | validate, save, unlink | deductions, recognitions | decoding off the loop | — |
| frontend: `static/js` | browser state | — | HTTP | only the screens keep state that matters | — |

## 2. Plan and order

Written in the order of importance; everything listed is written and checked.

1. **Month gate** – `MonthLedger` (abstract), `MonthGate`, `MonthGateProofs`. Everything else
   relies on it: it lets the other modules treat a transaction under the gate as one step.
2. **Deductions and the material worker** – `DeductionFlow`, `DeductionFlowProofs`;
   `MaterialQueue` (abstract), `MaterialJobs`, `MaterialJobsProofs`.
3. **Recognitions** – `Recognition`, `RecognitionProofs`.
4. **Videos** – `VideoJobs`; the proofs are in `MembersProofs`.
5. **Rotation** – `RotationDay` (the live day), `RotationSync` (devices, restarts, receipts),
   `DayPlan` (the day before it is live); `RotationProofs`.
6. **People** – `WorkGroups` (who reviews whom) with `WorkGroupsProofs`, `Employment`, `Absence`.
7. **Announcements** – `Announcements`, `AnnouncementOwners`; the proofs are in
   `ProtocolProofs`.
8. **What is read** – `ScoreViews`, `MonthRanks`, `DataCache`, `ExportQueue`, `LearningShares`,
   `LearningAccess`.
9. **The server itself** – `DatabaseStart`, `Release`, `RecoveryBundle`, `ManualBackup`.
10. **Side by side** – `Server` and `Members`, the components that share no state in one
    behaviour each, with `ProtocolProofs` (`Announcements`, `Release`, `ManualBackup`,
    `RecoveryBundle`, `DataCache`, `ExportQueue`, `DatabaseStart`, and `Server`) and
    `MembersProofs` (`VideoJobs`, `LearningAccess`, `LearningShares`, `AnnouncementOwners`,
    `Absence`, `DayPlan`, `Employment`, `MonthRanks`, `ScoreViews`, and `Members`).

What a continuation would take first: a proof of `ReliefKept` of `RotationDay`; the records a
circle transfer moves along; the legacy migrations that `DatabaseStart` abstracts.
A dozen runs is what the project keeps fast, which is why components that share no state
share a run.

## 3. The modules and the code

A request that holds SQLite's writer from before its first read to its commit is one action.
One that reads first and writes later is two, with anything between. A refusal changes
nothing and is no action, unless it writes (a failed code is counted, a failed start stays
down).

### MonthLedger, MonthGate

`MonthLedger` says what closing promises: rows change only where the month is open, a close
needs settled work and seals the counted points. `MonthGate` has the transactions. A session
is a request; `checks` is `db.info['_month_write_checks']`, `writer` the session that holds
SQLite's writer, `draft` what its transaction sees. `EarlyCheck` is `ensure_month_open`
outside a transaction, `FlushFirst` the `before_flush` listener, `UpdateFirst` a handler whose
SQL `UPDATE` takes the writer without the listener, `BeginImmediate` the handlers that lock
first, `Commit` the `before_commit` listener, `EndTransaction` the clearing of the checks at
each outermost transaction end. `CloseReserve`/`CloseCommit` and their `Reopen` twins are
`close_month` and `reopen_month`. `Abort` stands for every refusal, disconnect and exception.
A record is any business row of the month; "pending" is every status that
`month_close_work_queries` counts.

### DeductionFlow

The rows of one employee, one repeat-controlled type and one month: `rec` is
`deduction_records`, `request` is `deduction_upgrade_requests` keyed by its second record,
`jobs` the live `deduction_material_jobs`. What an `async` handler decided before it awaited
its upload is `up`: `StartCreate`/`FinishCreate` (create_deduction), `StartSick`/`FinishSick`
(create_sick_leave with a statement), `StartRetry`/`FinishRetry`
(retry_deduction_material, also for an upgrade whose request waits for material).
`CreateUpgrade` and `RetryUpgrade` claim the first statement with an UPDATE before they await
and therefore stay one step. `JobSucceeds`, `JobRefused` and `ConversionFails` are one job's
result in its one transaction (`_apply_success_result`, `_persist_material_failure`,
`_restore_upgrade_source`); that it is one, whoever crashes, is what `MaterialJobs` shows.
Photos, certificates and texts are left out; what material a request brings is one of four
kinds because the code branches on them.

### MaterialQueue, MaterialJobs

`MaterialQueue`: each job gets one result, never taken back. `MaterialJobs` has the claim
token (`claim`, a generation, fresh at each claim), the heartbeat, the 15 minutes after which
a claim is `stale`, source and generated files, and the clean-up with its bounded attempts. A
worker may crash between any two of its steps.

### Recognition

Submissions of one employee, month and type, of four kinds. `loop` is the submission that
keeps the event loop from its first statement to its first await, `writer` the one that holds
SQLite's writer while it awaits its image (`FlushSelf`, `SaveSelf`). `BusyTimeout` is
SQLite's. `policy` is the rule each day resolves to and a record keeps the one it was judged
by. Reviews and withdrawals run on threads; a withdrawal reads first and writes later
(`ReadWithdrawn`, `Withdraw`). A special contribution is a type of its own: it takes no part
in the others' counts and caps (`Unruled`).

### VideoJobs

`jobs` are the rows of `learning_video_jobs` in the order of their ids, `worker` the one
thread, `files` and `drawn` what a video's directory holds and which title its cover shows.
`Take` is the claim and the read of the video, `Work` the minutes of codec work without a
transaction, `Finish` the `BEGIN IMMEDIATE` that refreshes and applies; `Sweep` and `Cleanup`
are the two-hour limit and the maintenance. `Stop` aborts the codec (`Interrupted`) and lets
the thread end, `Kill` does not, `Start` requeues. `retry` and the request for the shared
version read and write in two steps; the other handlers that matter lock first and are one.
The upload is modelled from its completion on. A stop waits four seconds for the thread; that
a kill may come instead is `Kill`.

### RotationDay

`day` is the `DayState` of rule version 2: people with their state and times, posts with
occupant and holds, lines. A step is a request as the code makes it: the operation runs, the
engine ticks (`Tick`: shifts that begin and end, the timeouts' clock, whoever is late), a
checkpoint of the touched line is recorded, the forecast is replanned, all in one transaction
(`Finish`). The forecast is a function of the day (`Plan`), because the code recomputes it at the
end of every request; `Offer` is the forecast for one person alone, against which a confirmation
is checked. `Depart` and `Arrive` are the confirmations, each answered once by its token
(`receipts`); `Pool`, `Back`, `Place`, `Hold`, `OpenPost`, `LineOff`, … the manager's operations;
`RestoreLine` takes the last checkpoint of a line back with every rule of `history.py`.

The positions of a line are the sets `Indexes`, `Ahead`, `UpTo` of its posts rather than
sequences: a push is "everyone takes the next post up to the first empty one" (`Pushed`), a relief
"the k-th of those who stay takes the k-th post after the head" (`Compact`). `waited` is a history
variable, the minutes in which a person could have confirmed since their break last began; no
guard reads it. `undone` says that a step was taken back: what is stated of undisturbed days and
of others is different. Rule version 1 is not modelled: `service.py:1544` gives every new day
version 2.

### RotationSync

Between a device and the server: `db` and `cache` with the epoch and version that tell a
device whether an answer is newer (`Accepts`), reads in parallel (`loads`), one submission
(`sent`), the outstanding confirmation kept in the browser's storage (`pending`), and what the
server answers to a token already used, refused, or unknown (`Verdict`). A read sent to a server
that stops before serving it is `Failed`: it takes its turn among the reads and shows nothing.
Faults are a lost answer, a failed commit, a restart, a page reopened.

### DayPlan

The plan of one day before its first shift: `Drafted` is `build_draft`; each edit is a function
from plan to plan, as in `rotation/daily.py`, with the repair of the seven o'clock lists
(`Normalized`) and the refusal of unsound results (`Sound`); then publication, automatic start,
and the board that has to follow. Relievers are a set: until somebody pairs them by name they
go to the seven o'clock posts by their turns, in the order of the roster or of the list that
named them. A list is given with the posts (`Listed`, which pairs by name) or without (`Named`,
which pairs nobody and does not look who is seated; `bare` remembers whom it so named).

### WorkGroups

Base identity, acting duty, group membership and leadership of each person as rows with dates,
`pending`, who reviews a member's pending record, the derived scope of an acting GSM. Handlers that take the
writer first are one action (`Edit`, `Sweep`); leaders, closing a group, transfers and
submissions read before the writer (`Plan…`/`Commit…` with the record in `thread`). Two
definitions of the reviewer exist in the code (`Reviewer` from the groups, and the one computed
from a leader's direct members), and both are here.

### Employment, Absence

`Employment`: one employee's cycles, account with its three-day deletion, intern end date and
dated role rows over days, with both sweepers as actions of their own. `Absence`: sick leaves,
LOA, and `score`, the stored attendance rows; a registration awaits an upload, an import is
confirmed from a preview kept in memory, a reader computes missing rows from its own reads
(`ReadSick`, `ReadLoa`, `InsertMissing`).

### Announcements, AnnouncementOwners

`Announcements`: one announcement's versions, receipts, trainers' grants and codes;
`Settle` is `sync_current`, which every operation runs and the worker each minute (`Sync`); who
the announcement is for changes meanwhile. `AnnouncementOwners`: owners, shared groups, and
batches accepted on exactly the revisions they named.

### LearningShares, LearningAccess

A document's revisions, drafts and owner, with each handler's read and commit apart; and the
request to read another circle's library, whose decision is one conditional UPDATE on the
generation of the page.

### ScoreViews, MonthRanks, DataCache, ExportQueue

`ScoreViews` writes the same score down as each page computes it (`employee_month_scores`, the
statistics tree, the details, the ranking, the dashboard) over the same rows. `MonthRanks` is
the sealing of bands over generations of closes. `DataCache` is the lookup, computation and
storing under a lock, against commits that clear later, or never. `ExportQueue` is the task's
life with the moments at which each of its four limits is looked at.

### DatabaseStart, Release, RecoveryBundle, ManualBackup

`DatabaseStart` runs every patch of the registry as its statements in their order over
`work`, what the session sees, and `saved`, what a crash leaves, and then the guarantees of every
start (`Guarantees`), the synchronisation of management scopes with it (`ScopeSync`: days before
`Today` stay, what is in force is ended, deleted, opened or lengthened); offices change while the
server runs, with their scopes (`Appoint`) or without (`OfficeTurns`). `Release` is the deployment:
every boundary effect may fail, with or without its effect, the process may die between two,
and a retry starts from what is on disk. `RecoveryBundle` copies while the application goes on.
`ManualBackup` is the claim, take-over and report of one job row.

### The MC modules

An MC module fixes the constants of one component. `Server` and `Members` compose the small
components that share no state: constants are renamed where two components use one name, the
assumptions of the components are stated, and each behaviour is one of the component that
`topic` names, while the others rest in an initial state. `MCServer` and `MCMembers` only
instantiate them. The properties of these two runs are conjunctions by topic of properties
stated in the components' modules.

## 4. What the runs show

| run | instance | question |
|---|---|---|
| `month_gate` | two circles and the global scope, a record each, two sessions, two point values | is a closed month frozen, does its seal stay exact, do the sessions implement the ledger |
| `deduction_flow` | three records, two levels, one awaiting request, no material, photos, a PDF or a large PDF | do the rows of an upgrade tell one story, are conversions given back, does a stale repeat answer activate nothing |
| `deduction_pdf` | three records, two levels, large PDFs, fair worker | is a statement spent once, does conversion end |
| `material_jobs` | two jobs, two workers, two faults, two clean-up attempts, fair workers | is there one result, are files where rows say, does every job settle |
| `recognition` | two submissions of any kind with one key, a capped type and a once-a-month letter, one withdrawal, a fair loop | are credits within the rules, do quota and records agree, is everyone answered |
| `video_jobs` | an older video without branded files and an upload, one asker, one fault of any kind, fair thread | does nothing come back, is a deleted video erased, does processing end |
| `rotation_day` | three people, a line of two posts and one of one, a seven o'clock post with its relief, two manager's operations | one person per post, after an undo too, no unavoidable lateness, does a relief send off the one it was for |
| `rotation_sync` | one screen with two reads under way, one person's steps, two faults | is a step taken once, does the screen catch up, is an unknown outcome settled |
| `work_groups` | a supervisor and two members, two circles of one group, two requests under way, days | are records with who may review them, does who may no longer lead stop |
| `announcements` | one employee, one trainer, two versions, two codes, three days | is what is signed in force, is everyone asked |
| `server` | the start from old and new databases with two crashes; two deployments, two failures, one death; a bundle, three backups, three exports, both caches | is a start repeatable and harmless, are reports true, are served files and answers within rights and age |
| `members` | three competing video versions; a clerk and a preview beside an LOA; two owners; three posts and three relievers; one employment over five days; two editors; two askings; two months of two members; three closes of two circles | does attendance follow leaves, do pages agree, is what is decided what was shown, does an edit leave the rest alone |

The properties are stated, with the code they are about, in the modules. Where several small
ones are about one mechanism they are one conjunction, and each conjunct keeps its name and
comment: `RecordsKept` (`TypeOK`, `UpgradeLinked`, `SourceNotStranded`, `SealKept`), `FilesKept`
(`ReadyHasFile`, `SourcesOutliveWork`), `WorkEnds` (`EveryJobSettles`, `SourcesRemoved`),
`CreditKept` (`TypeOK`, `CreditWithinRules`, `LimitedWithinRules`, `SealKept`), `TakenOnce`
(`QuotaMatches`, `OneRecordPerKey`), `CoversKept` (`TypeOK`, `CoverShowsTitle`), `JobsEnd`
(`DeletedErased`, `ProcessingEnds`), `BoardKept` (`DayTyped`, `OnePlace`,
`DutyHasPost`, `ConfirmationOpen`),
`ReliefKept` (`HeldStays`, `ReliefExact`), `GroupsKept` (`TypeOK`, `GroupInCircle`,
`ReviewersAgree`, `ScopeEnds`), `StepsKept` (`TypeOK`, `OncePerToken`, `ToldIsStored`),
`SyncCatchesUp` (`PendingSettled`, `ShownCatchesUp`), `AskedInForce` (`TypeOK`,
`PendingInForce`, `LiveCodes`, `TimeToSign`), `SignaturesKept` (`SignedInForce`, `ReceiptKept`),
`StartWhole` (`UpgradeWhole`, `OnlyTheCopyBlocks`, `GuaranteesHold`), and by topic `ReportsTrue` (`ReceiptTrue`,
`BundleWhole`, `OneManualBackup`), `ServedCurrent` (`ServedUnderRights`, `ExportsBounded`,
`CacheFresh`), `AttendanceTrue` (`AttendanceCurrent`, `DatesApart`), `HandsTrue` (`PlanKept`,
`OwnersAreMembers`, `LibraryWhole`), `ScoresTold` (`ViewsAgree`, `LeaveFollowed`, `BandTold`),
`DecidedAsShown` (`ImportAsReviewed`, `PassesAsNamed`, `ApprovedAsRead`, `OwnerPublishes`),
`EditsKeepTheRest` (`PairsKept`, `PastKept`, `DeletedAfterThreeDays`, `OverdueOnlyByMidnight`).

**Bounds, and why they are enough.** The protocols relate at most two rows of a kind and one
in the role of a third party: two circles and the global scope, two sessions, three records
(two statements and their result, or two competitors for one statement), two workers (the one
that lost its claim and the one that took over), two submissions (one that holds the writer and
one that waits), two requests that edit groups (one checks what the other changes), three
videos (the version replaced and two competitors), two versions and two codes (the one
superseded and its successor), three people on a line of two posts (the one relieved, the one
pushed on, the one who comes). `MaxJobs`, `MaxFaults`, `MaxEdits`, `MaxActs`, `MaxCalls`,
`MaxStops`, `MaxTime`, … cap counters; each module names its own. Two faults are a crash and a
second failure while recovering from it. One asker in the video run keeps its liveness in reach;
its two safety properties hold with two askers as well (8.2 million states), and are proved for
any number. One upload in `deduction_flow` leaves every kind of material in reach; with two, three
records and photos the run passes too (3.8 million states), and for any number there is the theorem.
In `members` a list without the posts names two people at most: a seated one and another.

**Deadlock** is not checked where bounds make the system stop: submissions are not renewed,
records and edits run out. `month_gate`, `rotation_sync` and `announcements` have no end, and
are checked for it.

## 5. Fairness

* Material worker: each worker's next step, and that a claim without heartbeat ages. `run()`
  loops while the process lives and a restart starts it again; time passes. Nothing makes a
  conversion succeed or fail; faults are bounded by `MaxFaults`.
* Deductions: `WorkerStep(r)`, that the job of a record that can be applied or refused is.
  The queue takes the oldest first and jobs that end leave it. It is the previous module's
  `EveryJobSettles`, assumed here.
* Recognitions: a submission's enabled step. The loop runs what is ready; a decoding ends;
  SQLite gives up after 30 s. No fairness for the client (`Form`), reviewers or `SaveSelfFails`.
* Videos: taking, working, finishing, sweeping, cleaning up, the end of a stop and a
  restart. The thread loops, the codec has a timeout of its own, hours pass. No user action is
  assumed, nor is any fault.
* Announcements: the worker's `Sync`. The thread runs every 60 s and survives exceptions.
* Groups: the sweep of lapsed roles, run at most every 300 s by whatever request comes. A
  server nobody asks does not sweep; then nobody sees the difference either.
* Rotation screens: the page's timers (`Load`, `Check`), what the server has been sent being
  served, and an answer being received. Losing an answer is a bounded fault.

## 6. What is proved

With TLAPS, for every value of the constants that satisfies the modules' assumptions
(`GateAssumption`: `All` is no circle, each record has a home circle, `NoSession` is no session;
`JobsAssumption`: ids and bounds are numbers; `VideosAssumption`: a replacement replaces a
version that was published when the server started; `FlowAssumption`: there is a level and
`None` is no record; `EntriesAssumption` and `NamesAssumption`: a batch has at least one entry
and `NoOne` submits nothing; `NothingAssumption`: the answer of a failed read is no day; of
`RotationDay`, `PlanAssumption`: a shift ends after it begins and one ends last, two people are not
planned on one post, whoever is relieved early has a post and their reliever none,
`SettingsAssumption`: settings are numbers, the grace at least one minute; of
`WorkGroups`, `NamesAssumption`: `None` and `NoRecord` are nobody, `StartAssumption`: whoever is
in a group at first is a member in its circle, whoever leads one a supervisor there,
`BoundsAssumption`: bounds are numbers; of `Announcements`, `BoundsAssumption`: bounds are
numbers, those of days, versions and attempts positive, `DraftsAssumption`: drafts are as the
request's schema lets them in, nobody is placed in a circle that is none; of `Recognition`,
`NumbersAssumption`: days and scores are numbers, `PolicyAssumption`: the rules at first are
rules, `FiniteAssumption`: submissions are finitely many; of `DatabaseStart`,
`StartAssumption`: releases are prefixes of the list of migrations, old scopes finite sets of
dated rows, the day of the starts is a number and no later than the day that stands for no end; of `Server`, `TokensAssumption`, `ExportsAssumption`, `ReadersAssumption`: `None` is
no token and nobody no reader, lapses of time, sizes and limits are numbers, jobs finitely many;
of `Members`, `LeaveAssumption`: days are finitely many numbers and a month's come before the
next one's, `PlanAssumption`: the roster is two lists without a name in both, and none twice in
the opening one, `CalendarAssumption`: there is a day, `ViewAssumption`: members, months and
records are finitely many, there is a month, points are integers, `RankAssumption`: staff are
finitely many, each has a circle, and `All` is none):

* `MonthGateProofs` – `TypeCorrect`, `SealExact`, `FrozenWhenClosed`, `GateImplementsLedger`.
  `SealMatchesLedger` alone is not inductive: a commit could install a draft with rows of a
  circle closed in the meantime. `IInv` adds who may hold the writer (`WriterInv`) and that a
  draft differs from the committed rows only in circles its session has checked
  (`DraftInv`); with `ChecksPass` at the commit no such circle is closed. The refinement maps
  a commit to `Write`, `CloseCommit` and `ReopenCommit` to `Close` and `Reopen`, and all else
  to a stutter; for it `ClosingInv` says that who closes has seen the month end.
* `MaterialJobsProofs` – `TypeCorrect`, `ReadyFileKept`, `SourcesKept`, `FilesStay` (both of
  them, the property of the run), `WorkersImplementQueue`. The invariant says what the claim is
  for: two workers on one job hold different claims (`ClaimsDistinct`), none newer than the
  row's (`ClaimsIssued`), and no worker still holds the claim whose file the output row names
  (`OutputKept`), so a worker that lost its claim cannot remove that file.
* `DeductionFlowProofs` – `RecordsTyped`, `ActivationEscalates`: no declaration comes into force
  beside a punishment it does not escalate, for any records, levels and any number of requests
  that await uploads. Beyond the types no strengthening is needed, and that is what the proof
  says: entry, worker and restore each ask again at their own commit (`FinishCreateStep`,
  `JobSucceedsStep`, `RestoreStep`), and no other step brings a declaration into force
  (`Escalating`). The sick-leave form, which does not ask again, and the review are excepted in
  the property.
  `OneClaimAtATime` and `RecordsStayKept` are about the rows of an upgrade. Nothing of what they
  state is inductive: a claim on a first statement is a column of that statement while a request
  is live, and one job before there is a request, so the invariant (`Linked`) says what request,
  both statements, job and waiting retry know of each other (`StoryOf`, `ColumnsOf`, `JobOf`,
  `RetryOf`). Each of the twenty operations has a lemma. One state of the
  code is out of reach of both: two requests that have read one record for a retry and await their
  uploads (`RetriesOverlap`); the code does not prevent it, and section 7 says what it loses then.
  It is no hypothesis of the theorems: `overlapped`, a history variable that no operation reads,
  tells whether it has ever happened, and the properties are about the time before. A failed
  compression of a large PDF leaves the first statement "pending", which
  `_restore_upgrade_source` does not give back: `SourceNotStranded` excepts that statement by name
  (`LostToPdf`), and the proof follows everything else through it (`LostStays`, `SourceKeptStep`).
* `RecognitionProofs` – `OnceIsOnce`: the month's quota row belongs to the one active record
  whose rule takes it, and submissions with one key get one answer, for any submissions,
  reviews, withdrawals, rules and batch sizes. The invariant says what lets the late writes be
  right: who awaits its image holds the writer and what it was let through for is still free
  (`SavingSafe`), only an answered submission has rows (`StoredOnce`), a special contribution
  takes no quota row (`PocFree`), one receipt for a key (`Receipted`).
  `CreditIsKept`: of any records credited under rules, one has a rule whose cap covers them all;
  of any that block, one has a rule that allows so many; and the seal of a closed month is the
  credit of its confirmed records. The bounds are stated of every set of records because the
  rule that let the others in may be that of a record that has gone since: stated of all records
  together they would not be inductive, stated of the newest they would be false. `SavingOpen`
  adds that what was checked before an image was awaited is still so. The prover knows no sums;
  a sum of points is the size of a heap that has so many members for each record
  (`Heap`), and what is needed of it follows from the library's facts about finite sets.
* `MembersProofs`, nine protocols that share no state and their composition `Members` –
  `CurrentVersionUnique`. The guard of `publish` is not enough: the
  invariant also says that a version published at the start is never transcoded as new, so
  neither an old source job, a restart nor a retry that has read and not written brings it
  back (`VideoOK`, `JobsOK`, `AskOK`).
  `CoversShowTitles` and `OnlyStaleRetriesBringBack` need what the job rows of a video tell of
  its state (`Told`): one row of a kind (`OneRow`), what a source row's status says of the video's
  (`SourceTold`), what the worker holds in its hands (`WorkerTold`), and that a cover which does
  not show the title has a row that will draw it (`CoversTold`).
  `ApprovedIsRead`: an approval opens the request that was on the page. The invariant
  (`PageHolds`): a page is as old as the row or older, and one that is as old shows the asking
  the row holds.
  `AttendanceIsTrue`: attendance is that of the leaves in force and leaves do not overlap, unless
  one awaited its upload. Each handler computes one month anew while others, and a reader that
  stores what it finds missing, do the same from rows read at other times. The invariant
  (`LeaveInv`) says of a reader under way that what it has read is of use as long as nobody
  filled in the row it is to write (`ReaderCurrent`): every writer that would make it stale fills
  the row in, and then the reader's insert is refused by its key.
  `DecisionsAreAsShown`: an import replaces the rows its preview counted, a successor takes over
  what the request named, an approval is of the asking on the page, a text is made public by its
  owner. For the last, `ShareInv` says that a published text was written upon a version before
  the present one (`BasesPast`) and that what has gone out of a draft was saved before what is in
  it (`DraftsPast`); for the second, `OwnersInv` says that a member's share can be passed on to
  somebody new by one request at most (`Held`).
  `HandsAreTrue`: nobody is to relieve a seven o'clock post who is seated, unless a list given
  without the posts named them so (section 7), the board is the plan
  in force, the members of a shared group own its announcements, a document has one line of
  versions. `PlanInv` adds that every edit leaves the plan its fields and every slot
  (`PlanForm`).
  `EmploymentIsKept`: three of the four parts of `EditsKeepTheRest`. `PersonInv` says that an
  account tells since when it is off (`AccountTells`), and what the rows of an employment are by
  whether it goes on (`HistoryTells`); that rows are opened and closed today at the earliest
  makes a change of the rows one that keeps the days gone by.
  `ScoresAreTold`: every page tells the same score, and a band that is shown is the present one.
  That the pages agree holds in every state whose stored rows hold numbers (`ViewTyped`): it is
  about sums, of which the prover has none. A sum of integers is the size of a heap that has so
  many members for each less that of another (`AddUp`); from the sizes of finite sets it follows
  that a sum may be taken by parts (`SumOfParts`), without what is zero (`SumOfRest`), of a balance
  column by column (`SumOfBalances`) and over a range month by month (`MonthByMonth`), and each
  page is one of these. What is an invariant is that the stored attendance of a past month
  follows its leaves (`ViewInv`). For the bands, a row that was compared once stays while scopes
  are closed, reopened and closed anew and people move; the invariant (`RankInv`) says that it is
  as it was compared in its own generation (`OfCircle`), or, a supervisor's, in those its
  signature names as long as none of them was closed anew (`OfAll`). A page shows a supervisor's band only under
  the present signature, and that is what makes the comparison the present one.
* `RotationProofs`, what the devices see and the live day – `MovedOncePerToken`, `NeverShownBack`. For the first: a token that is
  done names a step its person has left (`DoneIsPast`), memory is empty or what is stored
  (`Cached`), and an answer a device waits for is about the token it keeps (`Awaited`). For the
  second: of two days that a device holds, shown or in an answer under way, the later epoch or
  version is of later steps (`HeldOrdered`), because both were served (`Served`), and reads are
  ordered by epoch in the order they were sent (`ReadsOrdered`, `ReadsAfterShown`), because a read
  is answered only by the server it was sent to. The proof never uses the page's list of retired
  epochs: the order of the requests suffices.
  `BoardIsKept`: until a step is taken back, nobody is on two posts or on a closed one, nobody on
  duty is without a post, no receipt answers what somebody is asked next. The board is kept twice,
  in the people and in the posts, and an operation changes the one and then the other. The
  invariant (`DayInv`) says of the posts and people together what makes the next operation safe
  (`Board`: besides what is stated, a post may wait for the one planned on it only while that
  person has not begun, `Planned`), of the tokens that each is behind the counter of its person
  (`Behind`), and that nobody still waits for a shift that has begun (`Future`). A route through a
  line is put in terms that do not name its length (`Routed`: the owner comes in, whom it says
  goes out, everybody else is where exactly one post has them), and a push, a relief at any depth
  and the exchange of a seven o'clock post are shown to be such routes; for a relief that is a
  fact about ranks in a finite set (`Ranked`, `CompactIs`). What an operation may do to a person is
  said once (`Effect`) and shown for each of them, for whatever the forecast offers; the forecast
  itself is a `CHOOSE` among tuples, of which a most urgent one has to exist (`GreatestExists`,
  `FirstExists`).
  `TimeoutsAreJustified`: nobody inside their shift is declared late who could not have confirmed
  during all of the grace. The clock of a timeout stands still while no line is open, and is set
  forward when one opens. The invariant (`Due`) measures what part of the grace is over at any
  minute, also while the clock stands (`Elapsed`), and says that it is at most `waited`. That a
  minute in which the clock runs is one in which the person could go needs that an open line has
  something for whoever is rested (`Offered`), and this the assumption `StopPush <= NoBoard`:
  whoever is still to be sent somewhere has more than `noBoardBefore` minutes left, so the end of
  pushes `closeStopPush` minutes before the day ends does not concern them. The defaults are 30
  and 20 (`rotation/engine.py:38`, `:49`); a manager may set others (section 7).
* `WorkGroupsProofs` – `GroupsStayKept`, `LeadersHandOver`. That a member's group is in their
  circle is kept by every edit, but an acceptance of a transfer ends only the membership it
  finds; so the invariant (`InCircles`) is about the newest membership of a person, while it
  lasts, and needs no exception for one that was overtaken. That `direct_member_ids` and
  `current_leader_for_employee` agree is no invariant but a lemma about every state in which a
  person has one row of a kind (`Agreement`); two requests may leave two, as section 7 says.
  `LeadersHandOver` is about a step: each way of ending a leadership has a lemma that the members'
  records are sent on after the last change of the lists (`EditHands`, `LeadersHand`,
  `SweepHands`), on what a change of one person's group may leave behind (`Moved`).
* `ProtocolProofs`, seven protocols that share no state and their composition `Server` –
  `AskedOnlyInForce`: a pending receipt is of the version in force and leaves time to sign; a
  live code is of that version and the only one of a granted trainer.
  `SignedInForceAndKept`: whoever signs does so in force, in scope and with such a code, and no
  step loses the signature. A receipt is synchronized by whichever call or thread comes first,
  again and again, so the invariant says what its status tells whenever it was written (`Fits`:
  an expired one is of an earlier version or past its end, a suspended one is signed or marked
  as paused, one of a version not published yet was never asked for). The lemmas are about the
  operators: a new due day is never before today (`Days`), a row synchronized again fits
  (`RowIs`) and so does the whole announcement (`ReachIs`).
  `NothingRunsOnReplacedFiles`: no step replaces files or packages while a
  process runs on them or could be started. It needs no assumption. The invariant says in which
  order a transaction got where it is (`InOrder`: whoever touched files had stopped the
  application, whoever stopped it had the watchdog in hand) and what that gave (`Silent`: while
  files are replaced nothing runs and the watchdog is quiet).
  `ReceiptsAreTrue`: a receipt for the whole of a deployment says what it left, the release in
  place or everything as it was, and the watchdog's schedule as it was found, whichever effects
  failed, with or without being made. It needs the whole course of the files (`Forward`: what is
  in place by each step; `Backward`: what was not touched is as it was, what the rollback passed
  without an error is so again), the marks the transaction makes as it goes (`Marks`) and the
  watchdog's state (`Schedule`). The interrupt between the rename of the application and the note
  that it was made is the case that does not fit: nothing is moved back then, and only the start of
  the previous version, which finds no application, makes the receipt tell of a failure.
  `OneAtATime`: two backups go on at once only when one was taken over as stale. The invariant:
  the row names the last run claimed (`Holder`), and any other run still going on is older than
  it by more than `Stale` (`Apart`).
  `BundlesAreWhole`: a published bundle is of one version, with every file its database keeps but
  those deleted meanwhile. The invariant (`CaptureTells`): a key of the snapshot passed without its
  file was deleted by then, because what the database keeps is on disk (`KeptThere`).
  `AnswersAreFresh`: a kept answer has every commit whose request has cleared the caches, and of
  the others all but those of the last `Seconds`. The invariant (`Fresh`) says of each query what
  it cannot have missed, and needs to know that a request which has gone on to rankings has
  cleared statistics: that is what makes the clearing of the second cache cover the first.
  `ExportsAreBounded`: kept exports, bodies, temporary files and the queue stay within their
  limits, and a file is given out under the rights it was made with. A limit is read from counts
  taken at other moments than the one it limits; the invariant says that a job is queued once
  (`QueuedOnce`), a file stored once and owned (`CompletedThere`, `DirsOwned`), and that the
  cache is within its size whenever the worker is idle (`Trimmed`), which needs sums over the
  jobs, again as sizes of heaps.
  `StartsAreWhole`: a server that serves has every patch, permission and view of its release and
  nobody at a former venue, the keys recorded are of patches whose work is there, a rebuilt table
  never loses its rows, and a start that opens has given what it guarantees: HR01 and the devices
  can log in, closed months are ranked, whoever manages the circle has one scope in force and
  nobody else has any. `EntriesAreKept`: no start rewrites a row entered since its patch ran,
  replaces a chosen password, switches on an account but HR01, takes a configured kind of deduction
  out of use, or changes the days before today of a management scope; the scopes in force it sets
  anew. The invariant tells, of a start that may die anywhere, which keys are recorded by the
  statement it is at (`KeysSoFar`), how far each patch's work is (`MadeSoFar`), what stage the
  rebuilt tables are at (`TablesSoFar`), what the guarantees have given (`OpeningSoFar`) and that
  what people entered is on disk and in the start's session alike (`EntriesSoFar`). That the
  synchronisation leaves one scope and no past day otherwise is a lemma about finite sets of dated
  rows, whatever the days.
  `ReportsAreTrue` and `ServedIsCurrent` put these together for the runs' property by topic.

Only model-checked:

* every leads-to property and every fairness (`WorkEnds`, `MaterialSettlesOnce`,
  `EverySubmissionAnswered`, `JobsEnd`, `SyncCatchesUp`, `EveryoneAsked`,
  `LapsedLeaderLeaves`), which are beyond the prover;
* `ReliefKept` and `UndoneInPlace` of `RotationDay`. The first orders those who stay on a line
  before and after a relief; the lemmas on routes say where somebody is, not in which order. The
  second is about an undo, which takes back every later step of the same posts and people: that
  this leaves everybody on one open post is an induction over the chain of steps that meet. That
  their line is active it does not say: section 7 has the run that refutes it;
* `PairsKept`, the fourth part of `EditsKeepTheRest`: it compares pairings by turns, which are
  cardinalities, and holds for every roster only if no two posts have the same seven o'clock
  rank, which nothing in `rotation/service.py:1778` enforces.

## 7. Disagreements between the code and what it says of itself

Each has its definition in the module named, and TLC refutes it on the constants given (with
the INVARIANT or PROPERTY line exchanged); none is listed in a run.

| property (module, constants) | what happens | what a document or the code says |
|---|---|---|
| `SealKept` (`DeductionFlow`; `Records = {d1, d2}`, `Uploads = {u1, u2}`, `Kinds = {"photos", "pdf"}`, `MaxLevel = 2`, `MaxJobs = 2`, `Spec`) | two retries read the status before their uploads, both queue a job (`routers/deductions.py:757`); after the first one succeeds the month is closed and the second changes a sealed record | `month_closure.py:99` |
| `MaterialSettles` (`DeductionFlow`; three records, one upload, `{"photos", "pdf"}`, `MaxJobs = 1`, `FairSpec`) | a rejected upgrade keeps the unique key of its first statement (`routers/deductions.py:659`, `v2_models.py:1145`); the next photo upgrade of it is converted again and again | `deduction_materials.py:350`, `:606` |
| `LoopNotStalled` (`Recognition`; `Requests = {q1, q2}`, `Kinds = {"self"}`, `Keys = {}`, `BatchMax = 1`, one day, a capped rule, no withdrawals) | a submission holds the writer while it awaits its image (`routers/recognitions.py:352`); the next one blocks the event loop the image needs, for 30 s | `month_closure.py:48` |
| `InterruptedResumes` (`VideoJobs`; `Videos = {third}`, `Replaces <- Alone`, nothing published, ready or branded, no askers, `MaxEdits = 0`, `Faults = {"stop"}`, `MaxFaults = 1`, `FairSpec`) | a stop aborts the codec and the thread records a failure before it ends, so the next start has nothing to resume (`video_media.py:68`, `video_worker.py:137`) | `docs/video-learning.md:28` |
| `FailedUpgradeRetryable` (`DeductionFlow`, as `MCDeductionPdf.cfg` with `MaxJobs = 2`) | an upgrade with a large PDF claims the first statement as "pending"; its failure gives back "material_processing" only, and the retry is refused for ever (`routers/deductions.py:503`, `:780`) | the retry form |
| `VoidRestoresPrevious` (`DeductionFlow`, two records, `Kinds = {"none", "photos"}`) | a retry that awaited its upload overwrites a void committed meanwhile (`routers/deductions.py:803`) | a void is final until restored |
| `FailedUpgradeHasFirst` (`DeductionFlow`, four records, photos and PDF) | the first statement of a failed upgrade is spent by another one; the failed record can then neither be supplied nor voided, and blocks the close (`deduction_materials.py:365`) | the retry form |
| `OneUnfinishedDraft` (`DeductionFlow`, two records, photos, `MaxJobs = 2`) | two declarations in conversion both fail: two drafts of one level | `material_policy.py:26` |
| `WithdrawnFromStatus` (`Recognition`, one submission and `Withdrawals = {w1}`) | a withdrawal that read before a review records the wrong status as the one withdrawn from (`routers/recognitions.py:587`) | the column `voided_from_status` |
| `CountWithinRules` (`Recognition`, three proxy submissions, two days, a letter and a twice-a-month rule) | a once-a-month letter dated before a newer twice-a-month rule is accepted beside two letters of that rule (`routers/recognitions.py:241`) | the rule itself |
| `NothingComesBack` without `StaleRetry` (`VideoJobs`, `Askers = {a1, a2}`) | two retries read one failed job; the second write sets a video that was published or withdrawn meanwhile back to processing (`routers/video_learning.py:363`) | – |
| `ConfirmationOpen` (`RotationDay`, as `MCRotationDay.cfg`) | after a line is restored its step counter is restored and moved on by one (`rotation/history.py:90`); a later relief gives a token whose receipt says it was taken back (`history.py:93`), and the arrival is refused from then on | `docs/rotation-workflow-20261028.md:38` |
| `DutyHasPost` (`RotationDay`, as `MCRotationDay.cfg` with `MaxActs = 3`) | a checkpoint taken before somebody planned on the post is seated by the clock; restoring it puts the earlier occupant back and leaves the other on duty without a post (`history.py:36`) | `history.py`, the restore puts everybody back |
| `OnePlace` in place of `StandsOnce` in `UndoneInPlace` (`RotationDay`; two people, lines of two posts and of one, `Spare` the second post, `MaxActs = 4`) | the day is closed, a post opened on the first line, then the closing taken back through the second line, which does not meet that post; taking back the opening then writes the first line's record as it was after the closing (`history.py:37`, `:60`, `:76`): the line is inactive again with somebody on it | `history.py:1`: undo is scoped by dependency |
| `RelieversFree` without `bare` (`DayPlan`, as `MCMembers.cfg`) | a list of relievers sent without their posts is stored as it is; a person seated on a post stays in it (`rotation/service.py:1600`, `daily.py:211`; `validate_plan` does not look at the list) | `docs/rotation-early-post-shifts.md:7` takes seated people off the list; `:21` keeps the call in use |
| `GroupInCircle` without `Overtaken` (`WorkGroups`; as `MCWorkGroups.cfg` with b in no group, one thread, `MaxEdits = 2`, `MaxCalls = 2`, `Spec`) | an edit puts a member into a group while the acceptance of their transfer, which read them in none, is under way: two memberships, and when a later edit ends the newer one they are in a group of the circle they left (`routers/organization.py:371`, `services/employee_groups.py:128`; no constraint at `v2_models.py:553`) | `_current_membership` (`services/employee_groups.py:47`) asks for the one group of a person |
| `OneLeader` (`WorkGroups`, as `MCWorkGroups.cfg` with `MaxCalls = 2`, `Spec`) | two saves of leaders read before the writer and both commit; the revision is compared in Python, not in the UPDATE (`routers/organization.py:721`) | `docs/identity-and-supervisor.md:19` |
| `AttendanceFollows` (`ScoreViews`, with the members and records of `MCMembers`) | archiving an employee sets the month's stored attendance to none; registering them again in the same month (`services/employment.py:27`, `routers/employees.py:438`) does not compute it anew, so statistics, rankings and the close read 0 until the member opens the dashboard | `services/attendance.py:218` |

Also met while modelling, and kept out of the properties by the exception their comments name:

* **Database start.** `schema.py:60` copies the recognition attachments into a table created
  outside of a transaction. A crash between that CREATE and the next commit leaves the copy,
  and every later start fails at it; `docs/release.md:53` and
  `tests/test_self_recognition_batch.py:229` call the migration repeatable, and the sick leaves'
  rebuild (`sick_leave.py:87`) drops such a leftover. `OnlyTheCopyBlocks` says it is the only one.
* **Ranks.** `governance.py:64` freezes organization once so that later transfers cannot rewrite
  a closed report. A closed month's recognition (`routers/recognitions.py:192`), sick leave
  (`sick_leaves.py:184`, `sick_leave_import.py:531`) and deduction (`deductions.py:278`) of a
  transferred person are gated by the present circle only; the leave of absence commands
  (`loa_commands.py:110`) do it by both. A person transferred after the month's end to a circle
  that is already closed gets no snapshot.
* **Rotation day.** Two properties were stated too strongly until their proofs failed. Somebody
  brought back from the end of their shift may be declared late without a minute in which they
  could have gone: in the last `closeStopPush` minutes no line has anything for them
  (`forecast.py:212`) while their time runs, and the moment a post becomes empty the deadline is
  over (`forecast.py:512`); `TimeoutJustified` excepts them. The same happens to people inside
  their shift if `closeStopPush` is set longer than `noBoardBefore`, which the settings page allows
  (`static/js/rotation.js:703`); `docs/rotation-forecast-v2.md:78` counts three minutes from when
  somebody may go. And a relief does move people towards the head of a line of four posts or more:
  with two empty posts before them, who stays is moved up (`forecast.py:142`), so `ReliefExact`
  asks that they keep their order and, in a push, never go back.
* **Rotation plan.** With the lists alone, sending a reliever away moves the remaining ones on
  (`daily.py:360`, `:423`; `docs/rotation-early-post-shifts.md:19` says they stay); `draft_person`
  in a published day never writes the duties of the week (`daily.py:369`); `POST /rotation/draft`
  has no revision check and no `validate_plan`.
* **Rotation screens.** "Not confirmed" may be told of a submission given up that is still to
  run (`rotation-common.js:386`), and is then confirmed after all.
* **Groups.** The sweep clears the reviewer of all of an ended leader's pending records even if
  the other leader keeps the group; a leader who is at once formal and acting leader and a
  member of one group, which takes three overlapping requests, is listed by `direct_member_ids`
  among the members they review (an application refuses to review one's own); two requests may leave a closed group with a member, or a
  completed transfer cancelled; archiving a member leaves the membership, and with it a group
  that cannot be closed; the end of a temporary base GSM leaves its scope until a restart, which ends it
  (`DatabaseStart.ScopeSync`).
* **Announcements.** A request for a code that is merely late ends the newer code
  (`announcement_training.py:93`); an announcement dated ahead marks its first delivery as late.
  An ordinary hand-over implicitly creates the shared group that only the administrator should.
* **Absence.** The overlap refusal of `create_sick_leave` (`sick_leaves.py:75`) is asked before
  the upload is awaited: two registrations may overlap. An LOA is not asked for at all there.
* **Employment.** The sweep turns a cancelled temporary assignment into an expired one
  (`role_lifecycle.py:60`); `_replace_base_role` ends an unswept expired row a second time
  (`employee_identity_commands.py:156`).
* **Learning.** A repeated asking that read before the approval puts an approved request back to
  pending (`routers/learning.py:177`).
* **Rankings.** "Recognition" and "deduction" rankings do not leave out the months of a leave of
  absence; "overall" does.
* **Release.** A process that dies inside pip has already replaced `requirements.txt`, so a
  retry may skip pip and end on a half-made environment (`server_release.py:236`, `:481`); a
  death with the watchdog off is remembered as "was off"; the receipt says "deployed" before the
  watchdog is on again.
* **Bundle.** A video deleted between the check of what is expected and the walk of the files is
  missing from a bundle whose database keeps it; the manifest of the release is copied last.
* **Exports.** Receiving a body has no time limit; between "completed" and the finish time an
  expiry measures from the creation; a file evicted before it is opened answers with an error.
* **Caches.** Commits that never clear them are seen after their seconds only.

## 8. Not modelled, and why

* Rotation rule version 1 (`engine._arrive_line`, `_assign_all`, `workflow.py`,
  `timeout_cases.py`, `cooperation.py`): no new day uses it. Meals, planned absences, planned
  openings, shift edits, spare posts' reordering and the weekly minutes: they add data to the
  same transitions.
* Logins, sessions, limits, temporary accounts, employee-number changes, circles and venues, the
  records a transfer moves along: their writes are single transactions of one actor.
* The text of the rank comments, what the backfill of old closes computes, and rule versions.
* Feedback, reactions, attachments, posters, notifications, exports of announcements: they are
  added to what is modelled and nothing modelled reads them.
* In the database's start: the legacy split of duties (`organization.py:154`); the offices of HR01
  and the HR accounts, which every start writes anew with one value; the test and demo modes. One
  employee's scopes and one device stand for all, and all starts are on one day.
* Interleavings inside three steps that the model takes whole: `WorkGroups.Sweep` reads
  assignments before its first write takes the writer (`role_lifecycle.py:39`); an edit committed
  between is not among its runs. `VideoJobs.Transcoded` leaves out the cover second, duration and
  error that the worker writes back (`video_worker.py:71`), and with them an edit of the second
  that this undoes. `Absence` has one employee and one LOA.
* Building a release package, restoring a bundle, the scheduled tasks' installation, the health
  page: sequential tools that people run on a stopped system, or that only read.
* The workbook, slide and HR report layouts, the pages' presentation, byte checks of files,
  the content of photos, PDFs and videos: a conversion succeeds or fails.
* Who may call an endpoint: a refusal changes nothing. Where a role decides what is written
  it is in the model.
* Dates and money: a month, a day and a score are small numbers; `Unlimited` stands for a
  rule without limit.
