-------------------------- MODULE MCDeductionFlow --------------------------
(* Records and uploads are interchangeable: no action orders them. *)
EXTENDS DeductionFlow, TLC

Symmetry == Permutations(Records) \cup Permutations(Uploads)
=============================================================================
