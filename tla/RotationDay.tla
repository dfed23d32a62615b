---------------------------- MODULE RotationDay ----------------------------
(***************************************************************************)
(* One live day of the post rotation (rule version 2): the lines and their *)
(* posts, the people on shift, the forecast that tells a rested person     *)
(* which line to relieve, the confirmations of a break and of a relief,    *)
(* the manager's moves, the clock, and the undo of a line's last step      *)
(* (rotation/forecast.py, forecast_service.py, history.py, engine.py).     *)
(*                                                                         *)
(* A request advances the clock, runs one operation, ticks, records a      *)
(* checkpoint of what its posts and their occupants were, and saves, all   *)
(* in one transaction: a step of DayNext.  The forecast (p['assign']) is   *)
(* replanned at the end of every one of them, so it is Plan(day), no state.*)
(*                                                                         *)
(* Left out: meals (a break of another length), planned opening and        *)
(* closing times of a post, planned absences, the re-ordering of posts,    *)
(* shift edits, and operators ('op'); the line of an arrangement confirmed *)
(* from a stale view is answered with the new line and changes nothing.    *)
(***************************************************************************)
EXTENDS Integers, FiniteSets, SequencesExt

CONSTANTS
    Staff, None,
    Width,          \* the posts of each line, in line order: a sequence of lengths
    Start, End,     \* each person's shift, in minutes
    Seat,           \* the post the day's plan starts a person on, or None
    Seven,          \* the people the plan starts on a seven o'clock post
    ReliefOf,       \* whom a seven o'clock relief is to relieve, or None
    EarlyCrew,      \* those whose shift opens with a rest
    Order,          \* the persisted tie breaker between candidates
    Durations,      \* the lengths of a break
    Break, Grace, Prepare, NoBoard, StopPush,
    Spare,          \* the posts the plan leaves closed
    MaxActs         \* bound: the manager's operations of a day

Lines == DOMAIN Width
Posts == UNION {{<<l, i>> : i \in 1..Width[l]} : l \in Lines}
DayEnd == CHOOSE e \in {End[p] : p \in Staff} : \A p \in Staff : End[p] <= e

ASSUME PlanAssumption ==
    /\ None \notin Staff \cup Posts \cup Nat
    /\ Width \in Seq(Nat)
    /\ Start \in [Staff -> Nat] /\ End \in [Staff -> Nat]
    /\ \A p \in Staff : Start[p] < End[p]
    /\ \E p \in Staff : \A q \in Staff : End[q] <= End[p]
    /\ Seat \in [Staff -> Posts \cup {None}]
    /\ \A p, q \in Staff : p # q /\ Seat[p] # None => Seat[p] # Seat[q]
    /\ \A p \in Seven : Seat[p] # None
    /\ \A p \in Staff : ReliefOf[p] # None => ReliefOf[p] \in Seven /\ Seat[p] = None

ASSUME SettingsAssumption ==
    /\ Break \in Nat /\ Grace \in Nat \ {0} /\ Prepare \in Nat /\ NoBoard \in Nat /\ StopPush \in Nat
    /\ Durations \subseteq Nat /\ MaxActs \in Nat

VARIABLES
    day,       \* people, posts, lines, when the timeouts were paused, and the status
    now,       \* the clock, in minutes
    log,       \* the checkpoints a line can still be taken back to
    receipts,  \* the confirmation tokens already answered
    waited,    \* history: minutes a rested person could have been told to go
    undone,    \* history: has a step been taken back
    acts

dayVars == <<day, now, log, receipts, waited, undone, acts>>

Later(a, b) == IF a > b THEN a ELSE b

\* Tuples of numbers in the order the code sorts them.
Precedes(a, b) ==
    \E k \in DOMAIN a : a[k] < b[k] /\ \A j \in 1..(k - 1) : a[j] = b[j]

\* The posts of a line that take part in its rotation, in the order of the line.
Indexes(d, l) == {q \in Posts : q[1] = l /\ d.lines[l].active /\ d.posts[q].open /\ ~d.posts[q].hold}
HeadOf(ix) == CHOOSE q \in ix : \A r \in ix : q[2] <= r[2]
TailOf(ix) == CHOOSE q \in ix : \A r \in ix : r[2] <= q[2]
Ahead(ix, q) == {r \in ix : r[2] < q[2]}
UpTo(ix, q) == {r \in ix : r[2] <= q[2]}

OpenLine(d, l) == Indexes(d, l) # {}
Available(d) == \E l \in Lines : OpenLine(d, l)

PostsOf(d, p) == {q \in Posts : d.posts[q].occ = p}
OnHold(d, p) == \E q \in PostsOf(d, p) : d.posts[q].hold

Eligible(d, p, at) ==
    /\ d.people[p].st \in {"rest", "ready"}
    /\ d.people[p].restored \/ (Start[p] <= at /\ at < End[p] /\ End[p] - at > NoBoard)

\* Someone planned on a post whose shift has not begun leaves it empty.
Occupant(d, q, at) ==
    LET p == d.posts[q].occ
    IN  IF p # None /\ d.people[p].st = "notyet" /\ Start[p] > at THEN None ELSE p

Rank == [sick |-> 0, push7 |-> 1, off |-> 2, opening |-> 3, vacancy |-> 3, out |-> 4, push |-> 5]

\* Why the person on a post has to be relieved, if they have to be.
ReliefKind(d, p, at) ==
    IF d.people[p].exit = "sick" THEN "sick"
    ELSE IF d.people[p].seven THEN "push7"
    ELSE IF at >= End[p] - Prepare THEN "off"
    ELSE d.people[p].exit

Wanted(d, q, at, reserved, requester, owners) ==
    LET p == d.posts[q].occ
    IN  /\ p # None /\ p \notin reserved
        /\ d.people[p].st = "onpost"
        /\ ReliefKind(d, p, at) # "none"
        /\ ReliefKind(d, p, at) = "push7" => owners[p] \in {None, requester}

Relief(d, q, at) ==
    LET p == d.posts[q].occ
        kind == ReliefKind(d, p, at)
    IN  [kind |-> kind, target |-> p,
         key |-> <<Rank[kind], IF kind = "off" THEN End[p] ELSE at, -q[2]>>]

Plain(kind) == [kind |-> kind, target |-> None, key |-> <<Rank[kind], 0, 0>>]

\* The purposes a line has for one requester, and the most urgent of them.
Needs(d, l, at, reserved, requester, owners) ==
    {Relief(d, q, at) : q \in {r \in Indexes(d, l) : Wanted(d, r, at, reserved, requester, owners)}}
    \cup {Plain("push")}
    \cup (IF d.lines[l].adding THEN {Plain("opening")}
          ELSE IF \E q \in Indexes(d, l) : Occupant(d, q, at) = None THEN {Plain("vacancy")}
          ELSE {})

Demand(d, l, at, reserved, requester, owners) ==
    LET needs == Needs(d, l, at, reserved, requester, owners)
    IN  CHOOSE n \in needs : \A m \in needs : ~Precedes(m.key, n.key)

-----------------------------------------------------------------------------
\* Seeded fault: a push goes on past an empty post.
ReachEnd(d, ix, at) == TailOf(ix)

\* The first empty post of a line, or its last one.
Reach(d, ix, at) ==
    LET vacant == {q \in ix : Occupant(d, q, at) = None}
    IN  IF vacant = {} THEN TailOf(ix) ELSE HeadOf(vacant)

\* A push moves everyone one post on, up to the first empty one.
Pushed(d, ix, owner, at) ==
    [q \in UpTo(ix, Reach(d, ix, at)) |->
        IF q = HeadOf(ix) THEN owner ELSE Occupant(d, TailOf(Ahead(ix, q)), at)]

(***************************************************************************)
(* A relief compacts the posts up to its target's, so that the target      *)
(* leaves: the k-th of those who stay goes to the k-th post after the head.*)
(***************************************************************************)
Compact(d, ix, target, owner, at) ==
    LET prefix == UpTo(ix, CHOOSE q \in ix : d.posts[q].occ = target)
        kept == {q \in prefix : Occupant(d, q, at) \notin {None, target}}
        Comes(q) == {r \in kept : Cardinality(UpTo(kept, r)) = Cardinality(Ahead(prefix, q))}
    IN  [q \in prefix |->
            IF q = HeadOf(prefix) THEN owner
            ELSE IF Comes(q) # {} THEN Occupant(d, CHOOSE r \in Comes(q) : TRUE, at)
            ELSE IF Occupant(d, q, at) # None THEN None ELSE d.posts[q].occ]

(***************************************************************************)
(* Where everyone goes when owner enters a line: the new occupants, who    *)
(* leaves it, and who is (again) entered on a post.                        *)
(***************************************************************************)
Route(d, l, kind, target, owner, at, entry) ==
    LET ix == {q \in Indexes(d, l) : q[2] >= entry}
        new == IF kind = "push7" THEN [q \in {r \in ix : d.posts[r].occ = target} |-> owner]
               ELSE IF target # None THEN Compact(d, ix, target, owner, at)
               ELSE Pushed(d, ix, owner, at)
    IN  [occ |-> [q \in Posts |-> IF q \in DOMAIN new THEN new[q] ELSE d.posts[q].occ],
         out |-> IF target # None THEN target ELSE Occupant(d, Reach(d, ix, at), at),
         entered |-> {new[q] : q \in {r \in DOMAIN new : new[r] # d.posts[r].occ}} \ {None}]

Outcome(kind) ==
    CASE kind = "off" -> "done" [] kind = "out" -> "away" [] kind = "sick" -> "sick"
      [] OTHER -> "pending"

\* Only a relief that reaches the end of the line counts as its rotation.
AdvancesClock(d, l, kind, target) ==
    /\ kind \notin {"push7", "opening"}
    /\ target = None \/ d.posts[TailOf(Indexes(d, l))].occ = target

WithOccupants(d, occ) == [d EXCEPT !.posts = [q \in Posts |-> [@[q] EXCEPT !.occ = occ[q]]]]

(***************************************************************************)
(* The forecast: every candidate in turn takes the most urgent purpose of  *)
(* the line that has waited longest, on positions and clocks that advance  *)
(* as the earlier candidates would.                                        *)
(***************************************************************************)
Candidates(d, at) == {p \in Staff : Eligible(d, p, Later(at, d.people[p].readyAt))}

InTurn(d, at) ==
    SetToSortSeq(Candidates(d, at),
                 LAMBDA p, q : Precedes(<<d.people[p].readyAt, Order[p]>>,
                                        <<d.people[q].readyAt, Order[q]>>))

\* What each open line would have p enter it for.
Options(acc, p, at, owners) ==
    {o \in {[line |-> l, need |-> Demand(acc.day, l, at, acc.reserved, p, owners)] :
                l \in {m \in Lines : OpenLine(acc.day, m)}} :
        o.need.kind = "push" => at < DayEnd - StopPush}

MostUrgent(d, options) ==
    LET Key(o) == <<o.need.key[1], o.need.key[2], o.need.key[3],
                    d.lines[o.line].sortAt, -Cardinality(Indexes(d, o.line)), o.line>>
    IN  CHOOSE o \in options : \A m \in options : ~Precedes(Key(m), Key(o))

\* The plan with p sent to line l for need n.
Dispatched(acc, p, l, n, at) ==
    [day |-> [WithOccupants(acc.day, Route(acc.day, l, n.kind, n.target, p, at, 1).occ) EXCEPT
                !.lines[l].sortAt = IF AdvancesClock(acc.day, l, n.kind, n.target) THEN at ELSE @,
                !.lines[l].adding = FALSE],
     reserved |-> acc.reserved \cup ({n.target} \ {None}),
     assign |-> [acc.assign EXCEPT ![p] = [line |-> l, kind |-> n.kind, target |-> n.target]]]

PlanOne(acc, p, at, owners) ==
    LET then == Later(at, acc.day.people[p].readyAt)
        options == Options(acc, p, then, owners)
        Take(o) == Dispatched(acc, p, o.line, o.need, then)
    IN  IF options = {} THEN acc ELSE Take(MostUrgent(acc.day, options))

Unassigned == [line |-> 0, kind |-> "none", target |-> None]

\* Who is to relieve each of the seven o'clock people, if somebody can go.
Owners(d, at) ==
    [t \in Staff \cup {None} |->
        LET own == {p \in Candidates(d, at) : ReliefOf[p] # None /\ ReliefOf[p] = t}
        IN  IF own = {} THEN None ELSE CHOOSE p \in own : TRUE]

Blank(d) == [day |-> d, reserved |-> {}, assign |-> [p \in Staff |-> Unassigned]]

Plan(d, at) ==
    FoldLeft(LAMBDA acc, p : PlanOne(acc, p, at, Owners(d, at)), Blank(d), InTurn(d, at)).assign

-----------------------------------------------------------------------------
(***************************************************************************)
(* What an operation does to the day, before the tick that follows it.     *)
(***************************************************************************)
Vacate(d, ps) == [d EXCEPT !.posts = [q \in Posts |->
                    IF @[q].occ \in ps THEN [@[q] EXCEPT !.occ = None] ELSE @[q]]]

\* Whoever is moved outside their shift, or after it, is back against the plan.
Returned(s, p) == s.restored \/ now < Start[p] \/ now >= End[p] \/ s.st \in {"sick", "done"}

\* pool: out of the line, the request dropped, and a new break if it is one.
InPool(d, p, dest, dur) ==
    LET s == d.people[p]
        ends == IF dest = "rest" THEN now + dur ELSE 0
    IN  [Vacate(d, {p}) EXCEPT !.people[p] =
           [s EXCEPT !.st = dest, !.exit = "none", !.seq = s.seq + 1, !.restored = Returned(s, p),
                     !.readyAt = ends, !.timeoutAt = IF dest = "rest" THEN ends + Grace ELSE 0]]

\* execute_moves: everyone on the route changes post, the last leaves the line.
Moved(d, p, l, kind, target, r, manual) ==
    LET off == [d.people[r.out] EXCEPT !.st = Outcome(kind), !.readyAt = 0, !.timeoutAt = 0, !.exit = "none"]
        person(x) ==
            CASE x = r.out -> [off EXCEPT !.seven = @ /\ kind # "push7" /\ ~manual]
              [] x \in {p} \ {r.out} -> [d.people[x] EXCEPT !.st = "onpost", !.readyAt = 0, !.timeoutAt = 0, !.seq = @ + 1]
              [] x \in r.entered \ {p, r.out} -> [d.people[x] EXCEPT !.st = "onpost"]
              [] OTHER -> d.people[x]
    IN  [WithOccupants(d, r.occ) EXCEPT
           !.people = [x \in Staff |-> person(x)],
           !.lines[l].sortAt = IF AdvancesClock(d, l, kind, target) /\ ~manual THEN now ELSE @,
           !.lines[l].adding = FALSE]

\* close_post on each of ps; someone on it waits for a break.
Closed(d, ps) ==
    LET off == {d.posts[q].occ : q \in ps}
    IN  [d EXCEPT
           !.people = [x \in Staff |-> IF x \in off /\ @[x].st = "onpost"
                         THEN [@[x] EXCEPT !.st = "pending", !.readyAt = 0, !.timeoutAt = 0] ELSE @[x]],
           !.posts = [q \in Posts |-> IF q \in ps
                         THEN [@[q] EXCEPT !.open = FALSE, !.occ = None, !.shut = TRUE] ELSE @[q]],
           !.lines = [l \in Lines |-> IF \E q \in ps : q[1] = l
                         THEN [@[l] EXCEPT !.sortAt = now] ELSE @[l]]]

\* Remembers which posts a reopened line opens again.
Resumable(d, ls) == [d EXCEPT !.posts = [q \in Posts |->
                       IF q[1] \in ls THEN [@[q] EXCEPT !.resume = d.posts[q].open] ELSE @[q]]]

-----------------------------------------------------------------------------
(***************************************************************************)
(* The clock's tick, at minute at: shifts begin and end, the timeouts stop *)
(* while no line is open, and the late become exceptions.                  *)
(***************************************************************************)
\* Seeded fault: whoever is on the planned post is not looked at.
SeatOpen(d, p) ==
    Seat[p] # None /\ d.lines[Seat[p][1]].active /\ d.posts[Seat[p]].open

SeatFree(d, p) ==
    /\ Seat[p] # None
    /\ d.lines[Seat[p][1]].active /\ d.posts[Seat[p]].open
    /\ d.posts[Seat[p]].occ \in {None, p}

ShiftStart(d, p, at) ==
    LET s == d.people[p]
    IN  IF SeatFree(d, p) THEN [s EXCEPT !.st = "onpost", !.seven = p \in Seven]
        ELSE IF p \in EarlyCrew /\ Seat[p] = None /\ ReliefOf[p] = None
        THEN [s EXCEPT !.st = IF at >= Start[p] + Break THEN "ready" ELSE "rest",
                       !.readyAt = Start[p] + Break, !.timeoutAt = Start[p] + Break + Grace]
        ELSE IF ReliefOf[p] # None
        THEN [s EXCEPT !.st = "ready", !.readyAt = at, !.timeoutAt = at + Grace]
        ELSE [s EXCEPT !.st = "pending"]

Started(d, at) ==
    LET due == {p \in Staff : d.people[p].st = "notyet" /\ at >= Start[p]}
        seated == {p \in due : SeatFree(d, p)}
        heads == {p \in seated : OpenLine(d, Seat[p][1]) /\ HeadOf(Indexes(d, Seat[p][1])) = Seat[p]}
    IN  [d EXCEPT
           !.people = [p \in Staff |-> IF p \in due THEN ShiftStart(d, p, at) ELSE @[p]],
           !.posts = [q \in Posts |-> IF \E p \in seated : Seat[p] = q
                         THEN [@[q] EXCEPT !.occ = CHOOSE p \in seated : Seat[p] = q] ELSE @[q]],
           !.lines = [l \in Lines |-> IF \E p \in heads : Seat[p][1] = l
                         THEN [@[l] EXCEPT !.sortAt = Start[CHOOSE p \in heads : Seat[p][1] = l]] ELSE @[l]]]

Ended(d, at) ==
    LET over == {p \in Staff : /\ d.people[p].st \in {"rest", "ready", "pending", "away"}
                                /\ at >= End[p] /\ ~d.people[p].restored}
    IN  [d EXCEPT !.people = [p \in Staff |-> IF p \in over
                                THEN [@[p] EXCEPT !.st = "done", !.readyAt = 0, !.timeoutAt = 0] ELSE @[p]]]

\* Seeded fault: the time without an open line counts.
ClockedThrough(d, at) ==
    IF Available(d) THEN [d EXCEPT !.paused = None] ELSE [d EXCEPT !.paused = IF @ = None THEN at ELSE @]

Clocked(d, at) ==
    IF ~Available(d) THEN [d EXCEPT !.paused = IF @ = None THEN at ELSE @]
    ELSE IF d.paused = None THEN d
    ELSE [d EXCEPT !.paused = None,
                   !.people = [p \in Staff |-> IF @[p].st \in {"rest", "ready"}
                      THEN [@[p] EXCEPT !.timeoutAt = d.people[p].timeoutAt
                                                     + Later(0, at - Later(d.paused, d.people[p].readyAt))]
                      ELSE @[p]]]

Overdue(d, at) ==
    LET assign == Plan(d, at)
        late == {p \in Candidates(d, at) : assign[p] # Unassigned /\ at >= d.people[p].timeoutAt}
    IN  IF ~Available(d) THEN d
        ELSE [d EXCEPT !.people = [p \in Staff |-> IF p \in late
                                     THEN [@[p] EXCEPT !.st = "exception", !.readyAt = 0, !.timeoutAt = 0]
                                     ELSE @[p]]]

DayOver(d) ==
    LET onpost == {p \in Staff : d.people[p].st = "onpost"}
    IN  [Vacate(d, onpost) EXCEPT
           !.people = [p \in Staff |-> [@[p] EXCEPT !.st = "done", !.readyAt = 0, !.timeoutAt = 0]],
           !.posts = [q \in Posts |-> [@[q] EXCEPT !.open = FALSE, !.hold = FALSE]],
           !.status = "ended"]

Tick(d, at) ==
    IF d.status # "live" THEN d
    ELSE IF at >= DayEnd THEN DayOver(d)
    ELSE Overdue(Clocked(Ended(Started(d, at), at), at), at)

-----------------------------------------------------------------------------
\* The record of a step: the posts it changed, with the people on them before and after.
Checkpoint(before, after) ==
    LET posts == {q \in Posts : before.posts[q] # after.posts[q]}
        people == {before.posts[q].occ : q \in posts} \cup {after.posts[q].occ : q \in posts}
        lines == {q[1] : q \in posts}
    IN  [posts |-> [q \in posts |-> before.posts[q]],
         people |-> [p \in people \ {None} |-> before.people[p]],
         lines |-> [l \in lines |-> before.lines[l]]]

Recorded(before, after) ==
    IF \A q \in Posts : before.posts[q] = after.posts[q] THEN log
    ELSE Append(log, Checkpoint(before, after))

\* Seeded fault: the later steps of the same posts and people stay.
LastAlone(l) ==
    {i \in DOMAIN log : l \in DOMAIN log[i].lines /\ \A j \in (i + 1)..Len(log) : l \notin DOMAIN log[j].lines}

\* The last checkpoint of a line, and the later ones that touch what it touches.
Chosen(l) ==
    LET anchor == CHOOSE i \in DOMAIN log : /\ l \in DOMAIN log[i].lines
                                            /\ \A j \in (i + 1)..Len(log) : l \notin DOMAIN log[j].lines
        Meet(i, j) == \/ DOMAIN log[i].posts \cap DOMAIN log[j].posts # {}
                      \/ DOMAIN log[i].people \cap DOMAIN log[j].people # {}
        Whole(S) == anchor \in S /\ \A i \in S : \A j \in i..Len(log) : Meet(i, j) => j \in S
    IN  {j \in anchor..Len(log) : \A S \in SUBSET (anchor..Len(log)) : Whole(S) => j \in S}

\* What the earliest of these steps has kept of each thing.
Before(old, kept, steps) ==
    [x \in DOMAIN old |->
        LET of == {i \in steps : x \in DOMAIN kept[i]}
        IN  IF of = {} THEN old[x] ELSE kept[CHOOSE i \in of : \A j \in of : i <= j][x]]

TakenBack(d, steps) ==
    LET people == Before(d.people, [i \in DOMAIN log |-> log[i].people], steps)
    IN  [d EXCEPT
           !.posts = Before(d.posts, [i \in DOMAIN log |-> log[i].posts], steps),
           !.lines = Before(d.lines, [i \in DOMAIN log |-> log[i].lines], steps),
           !.people = [p \in Staff |-> IF \E i \in steps : p \in DOMAIN log[i].people
                         THEN [people[p] EXCEPT !.seq = @ + 1] ELSE people[p]]]

\* A step that was taken back keeps nothing any more.
Reversed == [posts |-> [q \in {} |-> None], people |-> [p \in {} |-> None], lines |-> [l \in {} |-> None]]

-----------------------------------------------------------------------------
Published ==
    [people |-> [p \in Staff |->
        [st |-> "notyet", readyAt |-> 0, timeoutAt |-> 0, exit |-> "none",
         restored |-> FALSE, seq |-> 0, seven |-> FALSE]],
     posts |-> [q \in Posts |->
        [occ |-> IF q \notin Spare /\ \E p \in Staff : Seat[p] = q /\ Start[p] > 0
                   THEN CHOOSE p \in Staff : Seat[p] = q ELSE None,
         open |-> q \notin Spare, shut |-> q \in Spare, hold |-> FALSE, resume |-> FALSE]],
     lines |-> [l \in Lines |-> [active |-> TRUE, sortAt |-> 0, adding |-> FALSE]],
     paused |-> None, status |-> "live"]

DayInit ==
    /\ now = 0
    /\ day = Tick(Published, 0)
    /\ log = <<>> /\ receipts = {} /\ undone = FALSE /\ acts = 0
    /\ waited = [p \in Staff |-> 0]

Resting(d, p) == d.people[p].st \in {"rest", "ready"}

\* What p may confirm at this minute, against the line as it stands.
Offer(d, p) == PlanOne(Blank(d), p, now, Owners(d, now)).assign[p]
MayDepart(d, p) ==
    /\ Eligible(d, p, now) /\ now >= d.people[p].readyAt
    /\ Offer(d, p) # Unassigned

Waiting(p, more) ==
    LET s == day.people[p] t == day'.people[p]
    IN  IF /\ s.st \in {"rest", "ready", "exception"}
           /\ t.st = "exception" \/ (t.st \in {"rest", "ready"} /\ t.readyAt = s.readyAt)
        THEN IF waited[p] + more > Grace THEN Grace ELSE waited[p] + more
        ELSE 0

\* Seeded fault: the ticker does not see that the day is over.
AdvanceAlways ==
    /\ now' = now + 1
    /\ day' = Tick(day, now + 1)
    /\ waited' = [p \in Staff |-> Waiting(p, 0)]
    /\ UNCHANGED <<log, receipts, undone, acts>>

Advance ==
    /\ day.status = "live"
    /\ now' = now + 1
    /\ day' = Tick(day, now + 1)
    /\ waited' = [p \in Staff |-> Waiting(p, IF MayDepart(day, p) THEN 1 ELSE 0)]
    /\ UNCHANGED <<log, receipts, undone, acts>>

\* The rest of every operation: tick, record, save.
Finish(d) ==
    /\ day.status = "live"
    /\ day' = Tick(d, now)
    /\ log' = Recorded(day, day')
    /\ waited' = [p \in Staff |-> Waiting(p, 0)]
    /\ UNCHANGED <<now, undone>>

\* Seeded fault: the confirmation does not name its sequence.
TokenOfState(d, p, act) == <<p, act, d.people[p].st, d.people[p].readyAt>>

StepToken(d, p, act) == <<p, act, d.people[p].seq, d.people[p].st, d.people[p].readyAt>>

Answers(p, act) ==
    /\ StepToken(day, p, act) \notin receipts
    /\ receipts' = receipts \cup {StepToken(day, p, act)}
    /\ UNCHANGED acts

Depart(p) ==
    /\ MayDepart(day, p)
    /\ Answers(p, "depart")
    /\ \E a \in {Offer(day, p)} :
          Finish(Moved(day, p, a.line, a.kind, a.target,
                       Route(day, a.line, a.kind, a.target, p, now, 1), FALSE))

Arrive(p, dur) ==
    /\ day.people[p].st = "pending"
    /\ ~OnHold(day, p)
    /\ Answers(p, "arrive")
    /\ Finish([InPool(day, p, "rest", dur) EXCEPT !.people[p].seq = @ + 1])

Manager(d) ==
    /\ acts < MaxActs /\ acts' = acts + 1
    /\ UNCHANGED receipts
    /\ Finish(d)

\* A drag into a pool, and the edit of a break's remaining minutes.
Pool(p, dest, dur) == ~OnHold(day, p) /\ Manager(InPool(day, p, dest, dur))

RequestOut(p) ==
    /\ ~OnHold(day, p)
    /\ Manager(IF day.people[p].st = "onpost" THEN [day EXCEPT !.people[p].exit = "out"]
               ELSE InPool(day, p, "away", 0))

RequestSick(p) ==
    /\ ~OnHold(day, p)
    /\ Manager(IF day.people[p].st = "onpost" THEN [day EXCEPT !.people[p].exit = "sick"]
               ELSE [Vacate(day, {p}) EXCEPT !.people[p] =
                       [@ EXCEPT !.st = "sick", !.readyAt = 0, !.timeoutAt = 0]])

Back(p, dur) == day.people[p].st = "away" /\ ~OnHold(day, p) /\ Manager(InPool(day, p, "rest", dur))

SortTime(l, at) == Manager([day EXCEPT !.lines[l].sortAt = at])

HeadOccupant(d, l) ==
    IF OpenLine(d, l) THEN Occupant(d, HeadOf(Indexes(d, l)), now) ELSE None

\* A manual placement moves a line's clock only when asked to.
Resorted(before, d) ==
    [d EXCEPT !.lines = [l \in Lines |->
        LET p == HeadOccupant(d, l)
        IN  IF p # None /\ p # HeadOccupant(before, l) /\ d.people[p].st = "onpost"
            THEN [@[l] EXCEPT !.sortAt = now] ELSE @[l]]]

Place(p, q, mode, sort) ==
    LET s == day.people[p]
        source == PostsOf(day, p)
        lifted == [Vacate(day, {p}) EXCEPT !.people[p] = [s EXCEPT !.exit = "none", !.restored = Returned(s, p)]]
        original == day.posts[q].occ
        swapped == [r \in Posts |-> IF r = q THEN p
                                    ELSE IF r \in source THEN original ELSE lifted.posts[r].occ]
        swap == [occ |-> swapped, out |-> IF source = {} THEN original ELSE None,
                 entered |-> {p} \cup (IF source = {} THEN {} ELSE {original} \ {None})]
        r == IF mode = "swap" THEN swap ELSE Route(lifted, q[1], "push", None, p, now, q[2])
        placed == Moved(lifted, p, q[1], "push", None, r, TRUE)
    IN  /\ day.lines[q[1]].active /\ day.posts[q].open /\ ~day.posts[q].hold
        /\ ~OnHold(day, p) /\ q \notin source
        /\ Manager(IF sort THEN Resorted(day, placed) ELSE placed)

OpenPost(q) ==
    /\ ~day.posts[q].hold
    /\ Manager([day EXCEPT !.posts[q].open = TRUE, !.posts[q].shut = FALSE,
                           !.lines[q[1]].active = TRUE, !.lines[q[1]].adding = TRUE])

ClosePost(q) == ~day.posts[q].hold /\ Manager(Closed(day, {q}))

LineOff(l) ==
    LET ps == {q \in Posts : q[1] = l}
    IN  /\ \A q \in ps : ~day.posts[q].hold
        /\ Manager([Closed(Resumable(day, {l}), ps) EXCEPT !.lines[l].active = FALSE])

LineOn(l) ==
    LET opened(x) == [x EXCEPT !.open = @ \/ x.resume \/ ~x.shut, !.shut = @ /\ ~x.resume, !.resume = FALSE]
    IN  Manager([day EXCEPT !.lines[l].active = TRUE,
                            !.posts = [q \in Posts |-> IF q[1] = l THEN opened(@[q]) ELSE @[q]]])

AllClose ==
    Manager([Closed([Resumable(day, Lines) EXCEPT !.posts = [q \in Posts |-> [@[q] EXCEPT !.hold = FALSE]]], Posts)
             EXCEPT !.lines = [l \in Lines |-> [@[l] EXCEPT !.active = FALSE, !.adding = FALSE]]])

Hold(q) ==
    LET p == day.posts[q].occ
    IN  /\ day.lines[q[1]].active /\ day.posts[q].open /\ ~day.posts[q].hold
        /\ p # None /\ day.people[p].st = "onpost"
        /\ Manager([day EXCEPT !.posts[q].hold = TRUE])

Unhold(q) ==
    LET p == day.posts[q].occ
    IN  /\ day.lines[q[1]].active /\ day.posts[q].open /\ day.posts[q].hold
        /\ p # None /\ day.people[p].st = "onpost"
        /\ Manager([day EXCEPT !.posts[q].hold = FALSE])

\* The undo of a line: not recorded itself, and what it took back is gone.
RestoreLine(l) ==
    LET steps == Chosen(l)
    IN  /\ day.status = "live"
        /\ acts < MaxActs /\ acts' = acts + 1
        /\ \E i \in DOMAIN log : l \in DOMAIN log[i].lines
        /\ day' = Tick(TakenBack(day, steps), now)
        /\ log' = [i \in DOMAIN log |-> IF i \in steps THEN Reversed ELSE log[i]]
        /\ waited' = [p \in Staff |-> Waiting(p, 0)]
        /\ undone' = TRUE
        /\ UNCHANGED <<now, receipts>>

DayNext ==
    \/ Advance
    \/ \E p \in Staff : Depart(p)
    \/ \E p \in Staff, dur \in Durations : Arrive(p, dur) \/ Pool(p, "rest", dur) \/ Back(p, dur)
    \/ \E p \in Staff, dest \in {"pending", "away", "other"} : Pool(p, dest, 0)
    \/ \E p \in Staff : RequestOut(p) \/ RequestSick(p)
    \/ \E p \in Staff, q \in Posts, mode \in {"push", "swap"}, sort \in BOOLEAN : Place(p, q, mode, sort)
    \/ \E l \in Lines : SortTime(l, now) \/ LineOff(l) \/ LineOn(l) \/ RestoreLine(l)
    \/ \E q \in Posts : OpenPost(q) \/ ClosePost(q) \/ Hold(q) \/ Unhold(q)
    \/ AllClose

DaySpec == DayInit /\ [][DayNext]_dayVars

-----------------------------------------------------------------------------
DayTyped ==
    /\ now \in 0..DayEnd /\ acts \in 0..MaxActs /\ undone \in BOOLEAN
    /\ \A p \in Staff :
        LET s == day.people[p]
        IN  /\ s.st \in {"notyet", "onpost", "pending", "rest", "ready", "away", "other",
                         "sick", "exception", "done"}
            /\ s.exit \in {"none", "out", "sick"} /\ s.restored \in BOOLEAN /\ s.seven \in BOOLEAN
            /\ s.seq \in Nat /\ s.readyAt \in Nat /\ s.timeoutAt \in Nat
    /\ \A q \in Posts : day.posts[q].occ \in Staff \cup {None}
    /\ waited \in [Staff -> 0..Grace]

(* Nobody stands on two posts, whoever is on a post is on duty or is planned
   to start there, and a post with someone on it is open: positions are kept
   twice, in the person's state and in the post. *)
StandsOnce ==
    /\ \A p \in Staff : \A q, r \in PostsOf(day, p) : q = r
    /\ \A q \in Posts : day.posts[q].occ # None =>
         day.people[day.posts[q].occ].st \in {"onpost", "notyet"} /\ day.posts[q].open

(* The same, on lines that are active. *)
OnePlace == StandsOnce /\ \A q \in Posts : day.posts[q].occ # None => day.lines[q[1]].active

(* Nobody is on duty without a post. *)
DutyHasPost == \A p \in Staff : day.people[p].st = "onpost" => PostsOf(day, p) # {}

(* What a person is asked to confirm now was not answered before: no receipt of
   an earlier confirmation, executed or taken back, answers a new one. *)
ConfirmationOpen ==
    \A p \in Staff :
        /\ day.people[p].st = "pending" => StepToken(day, p, "arrive") \notin receipts
        /\ Resting(day, p) => StepToken(day, p, "depart") \notin receipts

(* The board until a step is taken back: types, one place for each person on
   duty, and no answer of an earlier confirmation for the next. *)
BoardKept == DayTyped /\ (~undone => OnePlace /\ DutyHasPost /\ ConfirmationOpen)

(* The board after a step is taken back: whatever was done meanwhile to the
   same posts and people is taken back with it, so that nobody comes to stand
   in two places, or on a closed post.  Of the line's own record this is not so:
   a step on one line gives back the record it found, whatever a step on all
   lines that was taken back through another line has done to it. *)
UndoneInPlace == undone => StandsOnce

(* Nobody is declared late who could not have confirmed during the whole of
   the grace, however often the lines closed and opened meanwhile.  Of those
   brought back from the end of their shift it does not hold: in the last
   minutes of the day no line has anything for them, and their time runs. *)
TimeoutJustified ==
    ~undone => \A p \in Staff :
        day.people[p].st = "exception" /\ ~day.people[p].restored => waited[p] = Grace

(* While a post is held the person on it stays. *)
HeldStays ==
    [][\A q \in Posts : day.posts[q].hold /\ day'.posts[q].hold
            => day'.posts[q].occ = day.posts[q].occ]_dayVars

(* A confirmed relief sends at most one person off: the one it was for, or,
   when it was for nobody, the last of a line without an empty post; those
   who stay keep their line and the order they stand in, and only to make
   room for the one it was for does anyone go back towards the head. *)
Stays(q, r) == day.posts[q].occ # None /\ day.posts[q].occ = day'.posts[r].occ
ReliefStep ==
    LET owner == CHOOSE p \in Staff : Resting(day, p) /\ day'.people[p].st = "onpost"
        offer == Offer(day, owner)
        off == {p \in Staff : day.people[p].st = "onpost" /\ day'.people[p].st # "onpost"}
    IN  /\ IF offer.target # None THEN off = {offer.target}
           ELSE off # {} =>
                /\ \E p \in off : off = {p}
                /\ \A q \in Posts : q[1] = offer.line /\ day.posts[q].open => day.posts[q].occ # None
        /\ \A q, r \in Posts : Stays(q, r) =>
             /\ q[1] = r[1]
             /\ offer.target = None => q[2] <= r[2]
             /\ \A s, t \in Posts : Stays(s, t) /\ q[1] = s[1] /\ q[2] < s[2] => r[2] < t[2]
ReliefExact ==
    [][(\E p \in Staff : StepToken(day, p, "depart") \in receipts' \ receipts) => ReliefStep]_dayVars

(* Who leaves a post: whoever a confirmation relieves, never one who is held. *)
ReliefKept == HeldStays /\ ReliefExact
=============================================================================
