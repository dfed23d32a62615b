------------------------------- MODULE MCMembers -------------------------------
EXTENDS Members, TLC

CONSTANTS old, second, third

Competing == [v \in Videos |-> IF v = old THEN None ELSE old]

MonthOfDay == <<1, 1, 2>>

ThreeSlots == <<"A", "B", "C">>
PostLine == [s \in {"A", "B", "C"} |-> IF s = "A" THEN "L" ELSE "M"]
PostRank == [s \in {"A", "B", "C"} |-> CASE s = "A" -> 1 [] s = "B" -> 2 [] OTHER -> 0]
SevenShift == <<"x", "y">>
OpeningShift == <<"u", "v", "z">>

OwnGroup == [e \in Ranked |-> e]
OneCircle == [g \in Ranked |-> "c"]
Given == <<[of |-> "e", month |-> 1, full |-> 5, credit |-> 0, old |-> TRUE, configured |-> FALSE],
           [of |-> "f", month |-> 2, full |-> 4, credit |-> 3, old |-> TRUE, configured |-> TRUE]>>
Taken == <<[of |-> "e", month |-> 1, points |-> 2]>>

HomeOf == [p \in Staff |-> IF p = "x" THEN "A" ELSE "B"]
===============================================================================
