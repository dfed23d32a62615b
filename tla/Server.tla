-------------------------------- MODULE Server ---------------------------------
(***************************************************************************)
(* What the server does besides answering its users' forms.                *)
(* Each keeps state of its own and shares none with another, so they are   *)
(* checked side by side: a behaviour is one of the component named by      *)
(* topic, while the others rest in one of their initial states.            *)
(***************************************************************************)
EXTENDS Release, DatabaseStart

\* Recovery bundles (Versions are the releases).
CONSTANTS Keys, MaxMoves
VARIABLES rows, files, code, capture, bundles, moves
Bun == INSTANCE RecoveryBundle WITH Versions <- Releases

\* Manual backups.
CONSTANTS Tokens, Stale, Cooldown, BackupTime
VARIABLES row, runs, copies, bakNow
Bak == INSTANCE ManualBackup WITH MaxTime <- BackupTime, now <- bakNow

\* Background exports.
CONSTANTS Jobs, Owners, Rights, NoOne, FullRights, MaxActive, PerOwner, MaxKept, MaxCache, TTL,
          Attempts, Sizes, ExportTime, MaxRightsChanges
VARIABLES job, dir, queue, worker, rights, expNow, orphans, expChanges
Exp == INSTANCE ExportQueue WITH
    Nobody <- NoOne, MaxTime <- ExportTime, MaxChanges <- MaxRightsChanges, now <- expNow,
    changes <- expChanges

\* Answers kept for a while.
CONSTANTS Readers, Writers, Questions, Seconds, MaxKeys, MaxCommits, CacheTime
VARIABLES commits, entry, lock, reader, writer, cleared, cacheNow
Cache == INSTANCE DataCache WITH Keys <- Questions, MaxTime <- CacheTime, now <- cacheNow

VARIABLE topic    \* the component that moves

\* No token is the mark of none and no reader that of nobody; a lapse of time, a size
\* and a limit are numbers (backup_management.py:80, export_tasks.py:24-33,
\* data_cache.py:25).
ASSUME TokensAssumption == None \notin Tokens /\ Stale \in Nat
ASSUME ExportsAssumption ==
    /\ IsFiniteSet(Jobs) /\ FullRights \in Rights /\ Sizes \subseteq Nat
    /\ MaxActive \in Nat /\ PerOwner \in Nat /\ MaxKept \in Nat /\ MaxCache \in Nat
ASSUME ReadersAssumption == Cache!Nobody \notin Readers /\ Seconds \in Nat
-----------------------------------------------------------------------------
bundleVars == <<rows, files, code, capture, bundles, moves>>
manualVars == <<row, runs, copies, bakNow>>
exportVars == <<job, dir, queue, worker, rights, expNow, orphans, expChanges>>
cacheVars == <<commits, entry, lock, reader, writer, cleared, cacheNow>>
serverVars == <<topic, releaseVars, startVars, bundleVars, manualVars, exportVars, cacheVars>>

ServerInit ==
    /\ ReleaseInit
    /\ StartInit
    /\ Bun!Init
    /\ Bak!Init
    /\ Exp!Init
    /\ Cache!Init
    /\ topic \in {"start", "release", "bundle", "backup", "export", "cache"}
    \* while others move, the release and the database rest in one of their states
    /\ topic = "release" \/ dog.enabled
    /\ topic = "start" \/ saved = NewDatabase

Others ==
    /\ UNCHANGED topic
    /\ IF topic = "start" THEN TRUE ELSE UNCHANGED startVars
    /\ IF topic = "release" THEN TRUE ELSE UNCHANGED releaseVars
    /\ IF topic = "bundle" THEN TRUE ELSE UNCHANGED bundleVars
    /\ IF topic = "backup" THEN TRUE ELSE UNCHANGED manualVars
    /\ IF topic = "export" THEN TRUE ELSE UNCHANGED exportVars
    /\ IF topic = "cache" THEN TRUE ELSE UNCHANGED cacheVars

ServerNext ==
    \/ topic = "start" /\ StartNext /\ Others
    \/ topic = "release" /\ ReleaseNext /\ Others
    \/ topic = "bundle" /\ Bun!Next /\ Others
    \/ topic = "backup" /\ Bak!Next /\ Others
    \/ topic = "export" /\ Exp!Next /\ Others
    \/ topic = "cache" /\ Cache!Next /\ Others

ServerSpec == ServerInit /\ [][ServerNext]_serverVars
-----------------------------------------------------------------------------
(* The properties, each stated in its component's module. *)

\* What is written down for people to rely on is so: the receipt of a release, the
\* manifest of a recovery bundle, the row of a manual backup (server_release.py:471,
\* recovery_bundle.py:166, backup_management.py:169).
ReportsTrue ==
    CASE topic = "release" -> ReceiptTrue
      [] topic = "bundle" -> Bun!BundleWhole
      [] topic = "backup" -> Bak!OneManualBackup
      [] OTHER -> TRUE

\* What is served from a store of answers is within its reader's rights and as new
\* as promised, and the stores stay within their limits (export_tasks.py:239, 290,
\* statistics.py:306, data_cache.py:25).
ServedCurrent ==
    CASE topic = "export" -> Exp!ServedUnderRights /\ Exp!ExportsBounded
      [] topic = "cache" -> Cache!CacheFresh
      [] OTHER -> TRUE
===============================================================================
