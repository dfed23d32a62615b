------------------------------ MODULE ManualBackup ------------------------------
(***************************************************************************)
(* The administrator's manual backup (backup_management.py): one job row   *)
(* that a request claims with a token and a background run reports to.  A  *)
(* run may be lost with the server; its row can be taken over when stale,  *)
(* while the run that was believed lost may still be going on.             *)
(***************************************************************************)
EXTENDS Integers

CONSTANTS
    Tokens, None,
    Stale, Cooldown,  \* after which a running row may be taken over, a completed one repeated
    MaxTime           \* bound

VARIABLES
    row,       \* SystemJobRun: [status, token, started, completed, file]
    runs,      \* the background runs, by token: [st, at]
    copies,    \* the backups with their manifests, named by token
    now

manualVars == <<row, runs, copies, now>>

Init ==
    /\ row = [status |-> "idle", token |-> None, started |-> 0, completed |-> 0, file |-> None]
    /\ runs = [t \in Tokens |-> [st |-> "none", at |-> 0]]
    /\ copies = {} /\ now = 0

Going(t) == runs[t].st \in {"copying", "copied", "failed"}

Claimable ==
    /\ row.status # "running" \/ row.started < now - Stale
    /\ row.status # "completed" \/ row.completed < now - Cooldown
\* claim_manual_backup
Claim(t) ==
    /\ runs[t].st = "none" /\ Claimable
    /\ row' = [status |-> "running", token |-> t, started |-> now, completed |-> 0, file |-> None]
    /\ runs' = [runs EXCEPT ![t] = [st |-> "copying", at |-> now]]
    /\ UNCHANGED <<copies, now>>

\* _create_backup: complete with its manifest, or nothing of it is left.
Copied(t) ==
    /\ runs[t].st = "copying"
    /\ \E ok \in BOOLEAN :
          /\ copies' = IF ok THEN copies \cup {t} ELSE copies
          /\ runs' = [runs EXCEPT ![t].st = IF ok THEN "copied" ELSE "failed"]
    /\ UNCHANGED <<row, now>>

\* Seeded fault: whoever ends writes the row.
OwnsAny(t) == TRUE
Owns(t) == row.token = t
\* run_manual_backup
Reported(t) ==
    /\ runs[t].st \in {"copied", "failed"}
    /\ row' = IF ~Owns(t) THEN row
              ELSE [row EXCEPT !.completed = now, !.token = None,
                               !.status = IF runs[t].st = "copied" THEN "completed" ELSE "failed",
                               !.file = IF runs[t].st = "copied" THEN t ELSE @]
    /\ runs' = [runs EXCEPT ![t].st = "ended"]
    /\ UNCHANGED <<copies, now>>

\* The server restarts: the row stays running until it is stale.
Lost(t) == Going(t) /\ runs' = [runs EXCEPT ![t].st = "ended"] /\ UNCHANGED <<row, copies, now>>

Pass == now < MaxTime /\ now' = now + 1 /\ UNCHANGED <<row, runs, copies>>

Next == Pass \/ \E t \in Tokens : Claim(t) \/ Copied(t) \/ Reported(t) \/ Lost(t)
Spec == Init /\ [][Next]_manualVars

\* Two backups run at once only if the older had become stale when the younger
\* was claimed, whatever order they end in: a run that was taken over does not
\* free the row for a third.  One reported completed is there with its manifest
\* (backup_management.py:79-101, 167-184).
OneManualBackup ==
    /\ \A t, u \in Tokens : t # u /\ Going(t) /\ Going(u) =>
          runs[t].at < runs[u].at - Stale \/ runs[u].at < runs[t].at - Stale
    /\ row.status = "completed" => row.file \in copies
=============================================================================
