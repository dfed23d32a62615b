----------------------------- MODULE MCVideoJobs -----------------------------
(* An older video and a new upload, neither replacing the other.             *)
EXTENDS VideoJobs, TLC

CONSTANTS old, third

Alone == [v \in Videos |-> None]
==============================================================================
