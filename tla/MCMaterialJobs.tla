--------------------------- MODULE MCMaterialJobs ---------------------------
(* Two workers: enough for a claim that is taken over while the worker that *)
(* lost it still converts.                                                  *)
EXTENDS MaterialJobs, TLC

WorkerSymmetry == Permutations(Workers)
=============================================================================
