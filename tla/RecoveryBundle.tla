----------------------------- MODULE RecoveryBundle -----------------------------
(***************************************************************************)
(* The recovery bundle of the daily backup task (scripts/                  *)
(* recovery_bundle.py, called by Invoke-SqliteOnlineBackup.ps1 with an     *)
(* online snapshot of the database): the code, the files and the snapshot  *)
(* of a system that goes on running.                                       *)
(*                                                                         *)
(* The capture reads the live tree file by file while the application adds *)
(* and erases files and a release replaces the code, so each reading is an *)
(* action.  Objects are stored under the hash of their content and are     *)
(* never removed; only a manifest makes them a bundle.                     *)
(*                                                                         *)
(* Abstracted: paths, the files' bytes (a key stands for the bytes its row *)
(* names), the age of a manifest, the tasks' exported configuration.  The  *)
(* release is external here (see Release).                                 *)
(***************************************************************************)
EXTENDS Integers

CONSTANTS
    Keys,            \* attachments and video files
    Versions, First, \* releases
    MaxMoves         \* bound: what the application and releases do

VARIABLES
    rows,      \* the database's row of each key, as of now
    files,     \* the keys on disk
    code,      \* [app, manifest]: what is in place, what release-manifest.json says
    capture,   \* the capture in progress
    bundles,   \* the published manifests
    moves

bundleVars == <<rows, files, code, capture, bundles, moves>>
treeVars == <<rows, files, code, moves>>

Idle == [pc |-> "idle"]
Kept == {k \in Keys : rows[k] = "kept"}

Init ==
    /\ rows = [k \in Keys |-> "none"] /\ files = {} /\ moves = 0
    /\ code = [app |-> First, manifest |-> First]
    /\ capture = Idle /\ bundles = {}
-----------------------------------------------------------------------------
(* The live system. *)

Moves == moves < MaxMoves /\ moves' = moves + 1 /\ UNCHANGED <<capture, bundles>>

\* An upload's file is written before its row is committed.
Written(k) == Moves /\ rows[k] = "none" /\ files' = files \cup {k} /\ UNCHANGED <<rows, code>>
Stored(k) ==
    /\ Moves /\ rows[k] = "none" /\ k \in files
    /\ rows' = [rows EXCEPT ![k] = "kept"] /\ UNCHANGED <<files, code>>
\* A deleted video: its row first, its files later by the worker.
Deleted(k) == Moves /\ rows[k] = "kept" /\ rows' = [rows EXCEPT ![k] = "deleted"] /\ UNCHANGED <<files, code>>
Erased(k) == Moves /\ rows[k] = "deleted" /\ files' = files \ {k} /\ UNCHANGED <<rows, code>>
\* A release: the code, then what its manifest says.
Swapped(v) == Moves /\ code.app = code.manifest /\ code' = [code EXCEPT !.app = v] /\ UNCHANGED <<rows, files>>
Released == Moves /\ code.app # code.manifest /\ code' = [code EXCEPT !.manifest = code.app] /\ UNCHANGED <<rows, files>>
-----------------------------------------------------------------------------
(* capture: any check that fails ends it without a manifest. *)

Reads(pc, next) == capture.pc = pc /\ capture' = next /\ UNCHANGED bundles /\ UNCHANGED treeVars

\* The database as of one commit; the previous day's bundle is done with.
Snapshot == Reads("idle", [pc |-> "expected", kept |-> Kept])

\* Everything the snapshot keeps has to be there.
ExpectsAll(kept) == kept \subseteq files
Expected == Reads("expected", IF ExpectsAll(capture.kept) THEN [capture EXCEPT !.pc = "release"] ELSE Idle)

\* The code has to be what the manifest read now names.
Provenance ==
    Reads("release", IF code.app = code.manifest
                     THEN [pc |-> "code", kept |-> capture.kept, release |-> code.manifest]
                     ELSE Idle)

CopyCode ==
    Reads("code", [pc |-> "files", kept |-> capture.kept, release |-> capture.release,
                   app |-> code.app, seen |-> {}, entries |-> {}])

\* walk_files and put_object, in the tree's order: a key that is listed and gone
\* when opened ends the capture, a key that is not listed any more does not.
CopyFile(k) ==
    /\ capture.pc = "files" /\ k \notin capture.seen
    /\ Reads("files", [capture EXCEPT !.seen = @ \cup {k},
                                      !.entries = IF k \in files THEN @ \cup {k} ELSE @])
Vanishes(k) == capture.pc = "files" /\ k \notin capture.seen /\ k \notin files /\ rows[k] = "deleted" /\ Reads("files", Idle)

\* Seeded fault: the captured code is not compared again.
UnchangedOrNot(app, release) == TRUE
Unchanged(app, release) == app = release
Publish ==
    /\ capture.pc = "files" /\ capture.seen = Keys
    /\ capture' = Idle
    /\ bundles' = IF Unchanged(capture.app, capture.release)
                  THEN {[app |-> capture.app, version |-> capture.release, kept |-> capture.kept,
                         entries |-> capture.entries, gone |-> {k \in Keys : rows[k] = "deleted"}]}
                  ELSE bundles
    /\ UNCHANGED treeVars

\* The task ends; what it stored without a manifest stays, unused.
Interrupted == capture # Idle /\ capture' = Idle /\ UNCHANGED bundles /\ UNCHANGED treeVars

Next ==
    \/ \E k \in Keys : Written(k) \/ Stored(k) \/ Deleted(k) \/ Erased(k) \/ CopyFile(k) \/ Vanishes(k)
    \/ \E v \in Versions : Swapped(v)
    \/ Released \/ Snapshot \/ Expected \/ Provenance \/ CopyCode \/ Publish \/ Interrupted

Spec == Init /\ [][Next]_bundleVars
-----------------------------------------------------------------------------
(* Properties. *)

\* A published bundle holds the code of the version it names and every file its
\* database keeps, whatever the application and a release did meanwhile, except
\* files the application itself deleted before the manifest was written
\* (recovery_bundle.py:111-195).
BundleWhole == \A b \in bundles :
    /\ b.app = b.version
    /\ b.kept \ b.entries \subseteq b.gone
=============================================================================
