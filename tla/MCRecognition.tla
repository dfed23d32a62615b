---- MODULE MCRecognition ----
\* An instance of Recognition: a type twice of value and capped, a letter given once
\* a month, a special contribution, and a rule an administrator may save.
EXTENDS Recognition
Letter == [configured |-> FALSE, fixed |-> TRUE, block |-> TRUE, count |-> 1, cap |-> Unlimited]
TwiceThenZero == [configured |-> TRUE, fixed |-> FALSE, block |-> FALSE, count |-> 2, cap |-> 3]
Once == [configured |-> TRUE, fixed |-> TRUE, block |-> TRUE, count |-> 1, cap |-> Unlimited]
Rules == {Once}
Defaults == {TwiceThenZero, Letter}
====
