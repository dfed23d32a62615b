------------------------------- MODULE MCServer --------------------------------
EXTENDS Server, TLC

CONSTANTS a, b

Sc(place, from, to) == [place |-> place, from |-> from, to |-> to]
OwnNeeds == [r \in Releases |-> r]
OldScopes ==
    {{}, {Sc("venue", 1, 2), Sc("circle", 1, 3)}, {Sc("venue", 0, 3), Sc("circle", 2, 2), Sc("other", 1, 9)}}
===============================================================================
