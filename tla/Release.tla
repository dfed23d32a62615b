-------------------------------- MODULE Release --------------------------------
(***************************************************************************)
(* The deployment transaction of scripts/server_release.py with the        *)
(* environment snapshots of scripts/deployment_runtime.py: a package is    *)
(* verified, the application and its watchdog are stopped, the release is  *)
(* put in place and started, and any failure puts the previous one back.   *)
(*                                                                         *)
(* Each boundary effect (a rename, a copy, pip, a scheduled task, a health *)
(* request, the receipt) is one action that may fail, with or without its  *)
(* effect; the deployment may also die between two of them, and be tried   *)
(* again.  The watchdog, which starts the application when nothing listens *)
(* on its port, and pip are external.                                      *)
(*                                                                         *)
(* Abstracted: what a package must satisfy (one that does not has no       *)
(* effect), paths, the database copy, and hashes of single files.          *)
(***************************************************************************)
EXTENDS Integers

CONSTANTS
    Releases, First,     \* the releases, the one in place at first
    Needs,               \* the requirements file of each release
    None, Torn,          \* no application; a half-written environment
    MaxDeploys, MaxFaults, MaxDeaths   \* bounds

VARIABLES
    disk,      \* app, requirements.txt, release-manifest.json, .venv, and
               \* the snapshot an unfinished transaction may leave as .venv
    proc,      \* the release that listens on the port, or None
    dog,       \* the watchdog's task: enabled, and is an instance running
    tx,        \* the deployment in progress, or its end
    receipt,   \* transaction.json of the last deployment
    deploys, faults, deaths

releaseVars == <<disk, proc, dog, tx, receipt, deploys, faults, deaths>>

Idle == [pc |-> "idle"]
NoReceipt == [status |-> "none", watchdog |-> "unknown"]

ReleaseInit ==
    /\ disk = [app |-> First, reqs |-> Needs[First], manifest |-> First, env |-> Needs[First]]
    /\ proc = First
    /\ dog \in [enabled : BOOLEAN, runs : {FALSE}]
    /\ tx = Idle /\ receipt = NoReceipt
    /\ deploys = 0 /\ faults = 0 /\ deaths = 0

Fault == faults < MaxFaults /\ faults' = faults + 1
Undo == "undo_watchdog"

\* A step of the transaction: it is done, or it fails and the rollback begins.
At(pc) == tx.pc = pc /\ UNCHANGED <<deploys, deaths>>
Done(next) == tx' = [tx EXCEPT !.pc = next] /\ UNCHANGED faults
Fails == tx' = [tx EXCEPT !.pc = Undo] /\ Fault
-----------------------------------------------------------------------------
\* validate_package, deployment_lock, and the preparation while the old
\* application is still running: staging, the backups and the first receipt.
Prepare(r) ==
    /\ tx.pc \in {"idle", "over"} /\ deploys < MaxDeploys
    /\ disk.app # None
    /\ LET changed == Needs[r] # disk.reqs
       IN tx' = [pc |-> IF changed THEN "snapshot" ELSE "service_task", release |-> r, old |-> disk,
                 changed |-> changed, moved |-> FALSE, kept |-> FALSE, pip |-> FALSE,
                 stop |-> FALSE, managed |-> FALSE, enabled |-> FALSE,
                 safe |-> TRUE, errors |-> FALSE, dog |-> dog.enabled]
    /\ receipt' = [status |-> "prepared", watchdog |-> "unknown"]
    /\ deploys' = deploys + 1
    /\ UNCHANGED <<disk, proc, dog, faults, deaths>>

\* snapshot_environment: a copy that does not equal what it copies is no snapshot.
Snapshot ==
    /\ At("snapshot")
    /\ \/ Done("service_task") /\ UNCHANGED receipt
       \/ /\ Fault /\ tx' = [tx EXCEPT !.pc = "over"]
          /\ receipt' = [receipt EXCEPT !.status = "preparation_failed"]
    /\ UNCHANGED <<disk, proc, dog>>

\* task_enabled for the service, then watchdog_enabled.
ServiceTask ==
    /\ At("service_task")
    /\ Done("watchdog") \/ Fails
    /\ UNCHANGED <<disk, proc, dog, receipt>>

AskWatchdog ==
    /\ At("watchdog")
    /\ \/ /\ tx' = [tx EXCEPT !.pc = "quiesce", !.managed = TRUE, !.enabled = dog.enabled]
          /\ UNCHANGED faults
       \/ Fails
    /\ UNCHANGED <<disk, proc, dog, receipt>>

Quiet == [enabled |-> FALSE, runs |-> FALSE]
\* What an attempt to disable the task may leave: its schedule, its instance.
Disabling == {dog, Quiet, [dog EXCEPT !.enabled = FALSE]}
\* disable_watchdog
Quiesce ==
    /\ At("quiesce")
    /\ \/ dog' = Quiet /\ Done("stop")
       \/ dog' \in Disabling /\ Fails
    /\ UNCHANGED <<disk, proc, receipt>>

\* stop_app: done only when the port is seen free.
Stop ==
    /\ At("stop")
    /\ \/ /\ proc' = None /\ UNCHANGED faults
          /\ tx' = [tx EXCEPT !.stop = TRUE, !.pc = IF tx.changed THEN "verify" ELSE "move_old"]
       \/ /\ proc' \in {proc, None} /\ Fault
          /\ tx' = [tx EXCEPT !.stop = TRUE, !.pc = Undo]
    /\ UNCHANGED <<disk, dog, receipt>>

\* verify_environment
Verify ==
    /\ At("verify")
    /\ (disk.env = tx.old.env /\ Done("move_old")) \/ Fails
    /\ UNCHANGED <<disk, proc, dog, receipt>>

\* The old application moves into the rollback directory.  An interrupt may
\* fall between the rename and the note that it was made.
MoveOld ==
    /\ At("move_old")
    /\ \/ /\ disk' = [disk EXCEPT !.app = None] /\ UNCHANGED faults
          /\ tx' = [tx EXCEPT !.pc = "move_new", !.moved = TRUE, !.kept = TRUE]
       \/ Fails /\ UNCHANGED disk
       \/ /\ disk' = [disk EXCEPT !.app = None] /\ Fault
          /\ tx' = [tx EXCEPT !.pc = Undo, !.kept = TRUE]
    /\ UNCHANGED <<proc, dog, receipt>>

\* A step that writes files: it succeeds, or fails having written or not.
Writes(pc, next, after) ==
    /\ At(pc)
    /\ (disk' = after /\ Done(next)) \/ (disk' \in {disk, after} /\ Fails)
    /\ UNCHANGED <<proc, dog, receipt>>

MoveNew == Writes("move_new", "requirements", [disk EXCEPT !.app = tx.release])
Requirements ==
    Writes("requirements", IF tx.changed THEN "pip" ELSE "start", [disk EXCEPT !.reqs = Needs[tx.release]])
Metadata == Writes("metadata", "deployed", [disk EXCEPT !.manifest = tx.release])

\* install_requirements
Pip ==
    /\ At("pip")
    /\ \/ /\ disk' = [disk EXCEPT !.env = disk.reqs] /\ UNCHANGED faults
          /\ tx' = [tx EXCEPT !.pc = "start", !.pip = TRUE]
       \/ /\ disk' \in {disk, [disk EXCEPT !.env = Torn]} /\ Fault
          /\ tx' = [tx EXCEPT !.pc = Undo, !.pip = TRUE]
    /\ UNCHANGED <<proc, dog, receipt>>

\* start_app: it answers, with its own version.  In an environment that is not
\* its own it may start or not.
Starts(version) == disk.app = version /\ version # None
Start ==
    /\ At("start")
    /\ \/ Starts(tx.release) /\ proc' = disk.app /\ Done("external_health")
       \/ proc' \in {proc, disk.app} /\ Fails
    /\ UNCHANGED <<disk, dog, receipt>>

ExternalHealth ==
    /\ At("external_health")
    /\ (proc = tx.release /\ Done("metadata")) \/ Fails
    /\ UNCHANGED <<disk, proc, dog, receipt>>

\* The receipt says deployed before the watchdog is enabled, and again after.
Deployed ==
    /\ At("deployed")
    /\ \/ receipt' = [receipt EXCEPT !.status = "deployed"] /\ Done(IF tx.enabled THEN "enable" ELSE "confirm")
       \/ UNCHANGED receipt /\ Fails
    /\ UNCHANGED <<disk, proc, dog>>

Enable ==
    /\ At("enable")
    /\ \/ dog' = [dog EXCEPT !.enabled = TRUE] /\ Done("confirm")
       \/ dog' \in {dog, [dog EXCEPT !.enabled = TRUE]} /\ Fails
    /\ UNCHANGED <<disk, proc, receipt>>

Confirm ==
    /\ At("confirm")
    /\ \/ receipt' = [receipt EXCEPT !.watchdog = "known"] /\ Done("over")
       \/ UNCHANGED receipt /\ Fails
    /\ UNCHANGED <<disk, proc, dog>>
-----------------------------------------------------------------------------
(* The rollback: a step that fails is noted, and decides what follows. *)

Noted == [tx EXCEPT !.errors = TRUE]

UndoWatchdog ==
    /\ At(Undo)
    /\ \/ ~tx.managed /\ UNCHANGED dog /\ Done("undo_stop")
       \/ tx.managed /\ dog' = Quiet /\ Done("undo_stop")
       \/ /\ tx.managed /\ dog' \in Disabling /\ Fault
          /\ tx' = [Noted EXCEPT !.pc = "undo_stop", !.safe = FALSE]
    /\ UNCHANGED <<disk, proc, receipt>>

\* Seeded fault: what could not be stopped is replaced all the same.
StoppedOrNot(safe, stopped) == TRUE
StoppedSafely(safe, stopped) == safe /\ stopped

UndoStop ==
    LET next(stopped) == IF StoppedSafely(tx.safe, stopped) THEN "undo_environment" ELSE "undo_receipt"
    IN /\ At("undo_stop")
       /\ \/ ~tx.stop /\ UNCHANGED proc /\ Done(next(TRUE))
          \/ tx.stop /\ proc' = None /\ Done(next(TRUE))
          \/ /\ tx.stop /\ proc' \in {proc, None} /\ Fault
             /\ tx' = [Noted EXCEPT !.pc = next(FALSE)]
       /\ UNCHANGED <<disk, dog, receipt>>

\* restore_environment, when pip has begun: verified as a whole before it is done.
UndoEnvironment ==
    /\ At("undo_environment")
    /\ \/ ~tx.pip /\ UNCHANGED disk /\ Done("undo_application")
       \/ tx.pip /\ disk' = [disk EXCEPT !.env = tx.old.env] /\ Done("undo_application")
       \/ /\ tx.pip /\ disk' \in {disk, [disk EXCEPT !.env = Torn]} /\ Fault
          /\ tx' = [Noted EXCEPT !.pc = "undo_application"]
    /\ UNCHANGED <<proc, dog, receipt>>

\* The new application moves away, the old one back.
UndoApplication ==
    /\ At("undo_application")
    /\ \/ ~tx.moved /\ UNCHANGED disk /\ Done("undo_start")
       \/ /\ tx.moved /\ disk' = [disk EXCEPT !.app = tx.old.app] /\ UNCHANGED faults
          /\ tx' = [tx EXCEPT !.pc = "undo_metadata", !.kept = FALSE]
       \/ /\ tx.moved /\ disk' \in {disk, [disk EXCEPT !.app = None]} /\ Fault
          /\ tx' = [Noted EXCEPT !.pc = "undo_metadata"]
    /\ UNCHANGED <<proc, dog, receipt>>

\* Seeded fault: the manifest of the failed release stays.
RestoredFiles(d, old) == [d EXCEPT !.reqs = old.reqs]
Restored(d, old) == [d EXCEPT !.reqs = old.reqs, !.manifest = old.manifest]
UndoMetadata ==
    /\ At("undo_metadata")
    /\ \/ disk' = Restored(disk, tx.old) /\ Done("undo_start")
       \/ /\ disk' \in {disk, [disk EXCEPT !.reqs = tx.old.reqs], [disk EXCEPT !.manifest = tx.old.manifest]}
          /\ Fault /\ tx' = [Noted EXCEPT !.pc = "undo_start"]
    /\ UNCHANGED <<proc, dog, receipt>>

\* The previous version is started, and has to answer, if all else was undone.
UndoStart ==
    /\ At("undo_start")
    /\ \/ (~tx.stop \/ tx.errors) /\ UNCHANGED proc /\ Done("undo_enable")
       \/ tx.stop /\ ~tx.errors /\ Starts(tx.old.manifest) /\ proc' = disk.app /\ Done("undo_enable")
       \/ /\ tx.stop /\ ~tx.errors /\ proc' \in {proc, disk.app} /\ Fault
          /\ tx' = [Noted EXCEPT !.pc = "undo_enable"]
       \/ /\ tx.stop /\ ~tx.errors /\ ~Starts(tx.old.manifest) /\ proc' \in {proc, disk.app}
          /\ tx' = [Noted EXCEPT !.pc = "undo_enable"] /\ UNCHANGED faults
    /\ UNCHANGED <<disk, dog, receipt>>

UndoEnable ==
    /\ At("undo_enable")
    /\ \/ (~tx.enabled \/ tx.errors) /\ UNCHANGED dog /\ Done("undo_receipt")
       \/ tx.enabled /\ ~tx.errors /\ dog' = [dog EXCEPT !.enabled = TRUE] /\ Done("undo_receipt")
       \/ /\ tx.enabled /\ ~tx.errors /\ dog' \in {dog, [dog EXCEPT !.enabled = TRUE]} /\ Fault
          /\ tx' = [Noted EXCEPT !.pc = "undo_receipt"]
    /\ UNCHANGED <<disk, proc, receipt>>

UndoReceipt ==
    /\ At("undo_receipt")
    /\ \/ /\ receipt' = [status |-> IF tx.errors THEN "rollback_failed" ELSE "rolled_back", watchdog |-> "known"]
          /\ Done("over")
       \/ UNCHANGED receipt /\ Fault /\ tx' = [Noted EXCEPT !.pc = "over"]
    /\ UNCHANGED <<disk, proc, dog>>
-----------------------------------------------------------------------------
\* The deployment's process ends wherever it is; the system frees its lock.
Dies ==
    /\ tx.pc \notin {"idle", "over"} /\ deaths < MaxDeaths
    /\ deaths' = deaths + 1 /\ tx' = Idle
    /\ disk' \in {disk} \cup (IF tx.pc = "pip" \/ (tx.pc = "undo_environment" /\ tx.pip)
                              THEN {[disk EXCEPT !.env = Torn]} ELSE {})
    /\ UNCHANGED <<proc, dog, receipt, deploys, faults>>

\* The task's schedule starts an instance, which starts the application if
\* nothing listens, and ends.
WatchdogFires ==
    /\ dog.enabled /\ ~dog.runs
    /\ dog' = [dog EXCEPT !.runs = TRUE]
    /\ UNCHANGED <<disk, proc, tx, receipt, deploys, faults, deaths>>
WatchdogLooks ==
    /\ dog.runs
    /\ dog' = [dog EXCEPT !.runs = FALSE]
    /\ proc' \in IF proc = None THEN {None, disk.app} ELSE {proc}
    /\ UNCHANGED <<disk, tx, receipt, deploys, faults, deaths>>

\* The application ends by itself.
AppEnds ==
    /\ proc # None /\ faults < MaxFaults /\ faults' = faults + 1 /\ proc' = None
    /\ UNCHANGED <<disk, dog, tx, receipt, deploys, deaths>>

ReleaseNext ==
    \/ \E r \in Releases : Prepare(r)
    \/ Snapshot \/ ServiceTask \/ AskWatchdog \/ Quiesce \/ Stop \/ Verify
    \/ MoveOld \/ MoveNew \/ Requirements \/ Pip \/ Start \/ ExternalHealth
    \/ Metadata \/ Deployed \/ Enable \/ Confirm
    \/ UndoWatchdog \/ UndoStop \/ UndoEnvironment \/ UndoApplication
    \/ UndoMetadata \/ UndoStart \/ UndoEnable \/ UndoReceipt
    \/ Dies \/ WatchdogFires \/ WatchdogLooks \/ AppEnds

ReleaseSpec == ReleaseInit /\ [][ReleaseNext]_releaseVars
-----------------------------------------------------------------------------
(* Properties. *)

\* The application's directory and its environment change only while nothing
\* listens on the port and no watchdog can start anything, in the release as
\* in its rollback (server_release.py:513 "Never replace app directories or
\* environment files under a live process").
SwapOnlyStopped == [][
    disk'.app # disk.app \/ disk'.env # disk.env =>
        proc = None /\ ~dog.enabled /\ ~dog.runs]_releaseVars

\* A transaction that ends with a receipt for its whole course has left what
\* the receipt says: the release in place with what its manifest names, or
\* everything as it was, and in both the watchdog's schedule as it was found
\* (server_release.py:471-555).
ReceiptTrue == tx.pc = "over" /\ receipt.watchdog = "known" =>
    /\ receipt.status = "rolled_back" => disk = tx.old /\ (tx.managed => dog.enabled = tx.dog)
    /\ receipt.status = "deployed" =>
          /\ disk.app = tx.release /\ disk.manifest = tx.release /\ disk.reqs = Needs[tx.release]
          /\ tx.changed => disk.env = Needs[tx.release]
          /\ dog.enabled = tx.dog
=============================================================================
