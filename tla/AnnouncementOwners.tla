--------------------------- MODULE AnnouncementOwners ---------------------------
(***************************************************************************)
(* Who is responsible for announcements: the owner of each, the one or two *)
(* members sharing a scope (a board of one circle set or project), and the *)
(* handover of a whole scope (announcement_responsibilities.py and         *)
(* routers/announcements.py).                                              *)
(*                                                                         *)
(* Every operation holds SQLite's writer, so it is one action.  A request  *)
(* names the revision of the members and the versions of the scope's       *)
(* announcements its user saw and is refused, without effect, if they are  *)
(* no longer those: only requests that name the present ones are steps.    *)
(*                                                                         *)
(* A batch stands for its handover histories too, which change with it.    *)
(* Abstracted: content, withdrawal (a withdrawn announcement still belongs *)
(* to its scope), and what a right to publish depends on.                  *)
(***************************************************************************)
EXTENDS Integers, FiniteSets, SequencesExt

CONSTANTS
    People, Admin,  \* publishers; the administrator
    Scopes,
    Nothing,
    MaxNotices, MaxVersion, MaxBatches, MaxRevision, MaxGrants   \* bounds

VARIABLES
    notices,   \* Announcement with its current version: [scope, owner, version]
    groups,    \* AnnouncementResponsibility, by scope
    batches,   \* AnnouncementResponsibilityHandover
    may,       \* the scopes a person may publish in
    granted    \* changes of rights so far

ownerVars == <<notices, groups, batches, may, granted>>

Init ==
    /\ notices = <<>>
    /\ groups = [s \in Scopes |-> Nothing]
    /\ batches = <<>>
    /\ may = [p \in People |-> Scopes]
    /\ granted = 0
-----------------------------------------------------------------------------
\* current_rows, snapshot
Rows(s) == {i \in DOMAIN notices : notices[i].scope = s}
Snapshot(s) == {<<i, notices[i].version>> : i \in Rows(s)}
Owners(s) == {notices[i].owner : i \in Rows(s)}
Revision(s) == IF groups[s] = Nothing THEN 0 ELSE groups[s].revision
\* Members are a list: its first takes what nobody else keeps.
Members(s) == IF groups[s] = Nothing THEN {} ELSE Range(groups[s].members)
\* manages: a member, in a scope that is not shared the owner.
Manages(u, i) == LET s == notices[i].scope
                 IN u \in IF groups[s] = Nothing THEN {notices[i].owner} ELSE Members(s)
MaySay(p, s) == s \in may[p]
Open(p, s) == groups[s] = Nothing \/ p \in Members(s)

Pending(s) == {b \in DOMAIN batches : batches[b].scope = s /\ batches[b].status = "pending"}
Cancelled(s) == [b \in DOMAIN batches |-> IF b \in Pending(s) THEN [batches[b] EXCEPT !.status = "cancelled"]
                                          ELSE batches[b]]

\* create
Create(p, s) ==
    /\ Len(notices) < MaxNotices /\ MaySay(p, s)
    /\ Open(p, s)
    /\ notices' = Append(notices, [scope |-> s, owner |-> p, version |-> 1])
    /\ UNCHANGED <<groups, batches, may, granted>>

MayMove(p, i, s) == groups[notices[i].scope] = Nothing /\ Open(p, s)
\* revise
Revise(p, i, s) ==
    /\ i \in DOMAIN notices /\ Manages(p, i) /\ MaySay(p, s) /\ notices[i].version < MaxVersion
    /\ notices[i].scope = s \/ MayMove(p, i, s)
    /\ notices' = [notices EXCEPT ![i] = [scope |-> s, version |-> @.version + 1,
                                          owner |-> IF @.scope = s THEN @.owner ELSE p]]
    /\ UNCHANGED <<groups, batches, may, granted>>

Keeper(i, ms) == IF notices[i].owner \in Range(ms) THEN notices[i].owner ELSE Head(ms)
\* save_responsibility
Share(s, ms) ==
    /\ Rows(s) # {} /\ Revision(s) < MaxRevision
    /\ \A p \in Range(ms) : MaySay(p, s)
    /\ groups' = [groups EXCEPT ![s] = [members |-> ms, revision |-> Revision(s) + 1]]
    /\ batches' = Cancelled(s)
    /\ notices' = [i \in DOMAIN notices |-> IF i \in Rows(s) THEN [notices[i] EXCEPT !.owner = Keeper(i, ms)]
                                            ELSE notices[i]]
    /\ UNCHANGED <<may, granted>>
-----------------------------------------------------------------------------
(* Handover. *)

\* ensure_group: the owners become the members.
Ensured(s) == IF groups[s] # Nothing THEN groups[s] ELSE [members |-> SetToSeq(Owners(s)), revision |-> 1]
MayEnsure(u, s) ==
    groups[s] # Nothing \/ (Cardinality(Owners(s)) <= 2 /\ (u = Admin \/ Owners(s) = {u}))

\* Seeded fault: the announcements stay with whoever leaves.
KeptOwner(owner, from, to) == owner
NewOwner(owner, from, to) == IF owner = from THEN to ELSE owner
\* complete
Passed(s, from, to, ms) ==
    /\ groups' = [groups EXCEPT ![s] = [members |-> [k \in DOMAIN ms |-> IF ms[k] = from THEN to ELSE ms[k]],
                                        revision |-> Ensured(s).revision + 1]]
    /\ notices' = [i \in DOMAIN notices |-> IF i \in Rows(s)
                     THEN [notices[i] EXCEPT !.owner = NewOwner(@, from, to)] ELSE notices[i]]

\* start: of a member, or forced by the administrator, who needs no consent.
Start(u, s, from, to) ==
    LET ms == Ensured(s).members
        force == u = Admin
        batch == [scope |-> s, from |-> from, to |-> to, revision |-> Ensured(s).revision,
                  snapshot |-> Snapshot(s), status |-> IF force THEN "forced" ELSE "pending"]
    IN /\ MayEnsure(u, s) /\ Len(batches) < MaxBatches /\ Revision(s) < MaxRevision
       /\ (force \/ from = u) /\ from \in Range(ms) /\ to \notin Range(ms) /\ MaySay(to, s)
       /\ force \/ \A b \in Pending(s) : batches[b].from = from
       /\ batches' = Append(Cancelled(s), batch)
       /\ IF force THEN Passed(s, from, to, ms)
          ELSE groups' = [groups EXCEPT ![s] = Ensured(s)] /\ UNCHANGED notices
       /\ UNCHANGED <<may, granted>>

\* responsibility_handover
HandOver(u, s, from, to) == Rows(s) # {} /\ Start(u, s, from, to)
\* handover, for the only announcement of its scope.
HandOne(u, i, to) ==
    LET s == notices[i].scope
    IN /\ i \in DOMAIN notices /\ Rows(s) = {i} /\ to # notices[i].owner
       /\ u = Admin \/ Manages(u, i)
       /\ Start(u, s, IF u = Admin THEN notices[i].owner ELSE u, to)

\* Seeded fault: what was added or revised since passes too.
StillMembers(b) == batches[b].revision = Revision(batches[b].scope)
StillTrue(b) ==
    LET s == batches[b].scope
    IN batches[b].revision = Revision(s) /\ batches[b].snapshot = Snapshot(s)
\* accept_handover
Accept(b) ==
    LET s == batches[b].scope
        from == batches[b].from
        to == batches[b].to
    IN /\ b \in DOMAIN batches /\ batches[b].status = "pending"
       /\ StillTrue(b) /\ from \in Members(s) /\ to \notin Members(s) /\ MaySay(to, s)
       /\ Passed(s, from, to, groups[s].members)
       /\ batches' = [batches EXCEPT ![b].status = "accepted"]
       /\ UNCHANGED <<may, granted>>

\* grant, a change of role or circle, an end of the grant's days
Grants(p, s) ==
    /\ granted < MaxGrants /\ granted' = granted + 1
    /\ may' = [may EXCEPT ![p] = IF s \in @ THEN @ \ {s} ELSE @ \cup {s}]
    /\ UNCHANGED <<notices, groups, batches>>

Rosters == {ms \in UNION {[1..n -> People] : n \in 1..2} : IsInjective(ms)}
Next ==
    \/ \E p \in People, s \in Scopes :
          Create(p, s) \/ Grants(p, s) \/ \E i \in 1..MaxNotices : Revise(p, i, s)
    \/ \E s \in Scopes, ms \in Rosters : Share(s, ms)
    \/ \E u \in People \cup {Admin}, to \in People :
          \/ \E s \in Scopes, from \in People : HandOver(u, s, from, to)
          \/ \E i \in 1..MaxNotices : HandOne(u, i, to)
    \/ \E b \in 1..MaxBatches : Accept(b)

Spec == Init /\ [][Next]_ownerVars
-----------------------------------------------------------------------------
(* Properties. *)

\* Every announcement of a shared scope is owned by one of the members, one or
\* two different people, and a request to hand over that can still be accepted
\* is the scope's only one, from a member to somebody who is none
\* (announcement_responsibilities.py:106-176, routers/announcements.py:332-353).
OwnersAreMembers == \A s \in Scopes : groups[s] # Nothing =>
    /\ Owners(s) \subseteq Members(s)
    /\ IsInjective(groups[s].members) /\ Len(groups[s].members) \in 1..2
    /\ Cardinality(Pending(s)) <= 1
    /\ \A b \in Pending(s) : batches[b].from \in Members(s) /\ batches[b].to \notin Members(s)

\* Responsibility passes only to people who may publish in the scope at that
\* moment; a successor who accepts takes over the announcements and versions
\* the request named and no other, and the other member stays
\* (announcement_responsibilities.py:158-176; docs/announcements.md: the whole
\* is refused if anything changed).
PassesAsNamed == [][
    /\ \A s \in Scopes : groups'[s] # Nothing /\ groups[s] # Nothing =>
          LET now == Range(groups'[s].members)
          IN \A p \in now \ Members(s) : MaySay(p, s)
    /\ \A b \in DOMAIN batches : batches'[b].status = "accepted" /\ batches[b].status = "pending" =>
          LET s == batches[b].scope
          IN /\ batches[b].snapshot = {<<i, notices'[i].version>> : i \in {j \in DOMAIN notices' : notices'[j].scope = s}}
             /\ Members(s) \ {batches[b].from} \subseteq Range(groups'[s].members)]_ownerVars
=============================================================================
