---- MODULE MCAnnouncements ----
\* A lasting notice, one that asks for training, and one for tomorrow only.
EXTENDS Announcements, TLC
CONSTANTS e, t, here
Texts == {
    [scope |-> {here}, effective |-> 1, expires |-> Never, due |-> 1, training |-> FALSE],
    [scope |-> {here}, effective |-> 1, expires |-> Never, due |-> 2, training |-> TRUE],
    [scope |-> {here}, effective |-> 2, expires |-> 2, due |-> 2, training |-> TRUE]}
====
