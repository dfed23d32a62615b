---- MODULE MCWorkGroups ----
\* Two circles of one group each; two members of the first group, one of whom may
\* act for its supervisor.
EXTENDS WorkGroups, TLC
CONSTANTS a, b, s, g1, g2, X, Y
Circle == g1 :> X @@ g2 :> Y
Identity == a :> "CM" @@ b :> "CM" @@ s :> "SUPERVISOR"
Home == a :> X @@ b :> X @@ s :> X
Membership == a :> g1 @@ b :> g1 @@ s :> None
Supervisor == g1 :> s @@ g2 :> None
====
