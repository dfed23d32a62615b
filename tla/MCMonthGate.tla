---------------------------- MODULE MCMonthGate ----------------------------
(* Two circles, one record each, two sessions: enough for a handler that is *)
(* overtaken by a circle close, a global close or a close and a reopen.     *)
EXTENDS MonthGate, TLC

CONSTANTS c1, c2, r1, r2

MCHome == r1 :> c1 @@ r2 :> c2

SessionSymmetry == Permutations(Sessions)
=============================================================================
