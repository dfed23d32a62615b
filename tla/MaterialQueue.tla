---------------------------- MODULE MaterialQueue ----------------------------
(***************************************************************************)
(* What the material worker promises: each job gets one result, which is   *)
(* never taken back, and every job gets one in the end.                    *)
(***************************************************************************)
CONSTANT Jobs

VARIABLE outcome

Init == outcome = [j \in Jobs |-> "open"]

Settle(j) ==
    /\ outcome[j] = "open"
    /\ \E result \in {"ready", "failed"} : outcome' = [outcome EXCEPT ![j] = result]

Next == \E j \in Jobs : Settle(j)

Spec == Init /\ [][Next]_outcome

FairSpec == Spec /\ \A j \in Jobs : WF_outcome(Settle(j))
==============================================================================
