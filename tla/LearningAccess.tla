---------------------------- MODULE LearningAccess ----------------------------
(***************************************************************************)
(* One employee's request to read the library of another circle            *)
(* (routers/learning.py): asked for again and again, decided by the leader *)
(* of the employee's group on a page opened earlier, and over after seven  *)
(* days.  The asking reads the row first and later overwrites it whole;    *)
(* the decision is one conditional UPDATE on the generation of the page.   *)
(***************************************************************************)
EXTENDS Integers

CONSTANTS
    Requests,  \* askings that may be under way at once
    MaxAsks    \* bound: generations of the row

VARIABLES
    access,  \* learning_access: status, generation, and which asking it holds
    asking,  \* the askings that have read the row
    page     \* what the leader's page shows
accessVars == <<access, asking, page>>

Init == /\ access = [st |-> "none", gen |-> 0, ask |-> 0]
        /\ asking = {} /\ page = [gen |-> 0, ask |-> 0]

\* POST /learning/requests, up to its upsert: a pending or a readable row ends it.
ReadAsk(r) ==
    /\ access.st \notin {"pending", "approved"} /\ asking' = asking \cup {r}
    /\ UNCHANGED <<access, page>>
CommitAsk(r) ==
    /\ r \in asking /\ access.gen < MaxAsks
    /\ access' = [st |-> "pending", gen |-> access.gen + 1, ask |-> access.gen + 1]
    /\ asking' = asking \ {r} /\ UNCHANGED page
\* GET /learning/requests and /learning/grants
OpenRequests ==
    /\ access.st \in {"pending", "approved"}
    /\ page' = [gen |-> access.gen, ask |-> access.ask] /\ UNCHANGED <<access, asking>>
\* Seeded fault: whichever request is pending is decided.
OnPageAny == TRUE
OnPage == access.gen = page.gen
\* POST /learning/requests/{id}/decision
Decide(action) ==
    /\ OnPage /\ access.st = IF action = "revoked" THEN "approved" ELSE "pending"
    /\ access.gen < MaxAsks
    /\ access' = [access EXCEPT !.st = action, !.gen = @ + 1] /\ UNCHANGED <<asking, page>>
\* expires_at has passed; no job runs, every read compares.
Lapse == access.st = "approved" /\ access' = [access EXCEPT !.st = "lapsed"]
         /\ UNCHANGED <<asking, page>>

Next ==
    \/ \E r \in Requests : ReadAsk(r) \/ CommitAsk(r)
    \/ \E action \in {"approved", "rejected", "revoked"} : Decide(action)
    \/ OpenRequests \/ Lapse

Spec == Init /\ [][Next]_accessVars
-----------------------------------------------------------------------------
(* A leader's approval opens the request they have read, not a later one   *)
(* put in its place; an old page renews nothing.                           *)
ApprovedAsRead ==
    [][access.st # "approved" /\ access'.st = "approved" => page.ask = access.ask]_accessVars
=============================================================================
