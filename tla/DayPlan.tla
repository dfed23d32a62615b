------------------------------ MODULE DayPlan ------------------------------
(***************************************************************************)
(* The plan of one day of the post rotation, from the uploaded roster to   *)
(* the first shift: who is seated on which post, who starts on a seven     *)
(* o'clock post, who relieves them there, and the board that shows the     *)
(* plan once it is published (rotation/daily.py, rotation/service.py,      *)
(* rotation/engine.py build_draft and publish).                            *)
(*                                                                         *)
(* An edit names the revision it was made from and is refused when the     *)
(* plan has moved on, so a step of Next is an edit of what its author saw. *)
(* It either saves the whole new plan or, when the plan is not sound,      *)
(* nothing.  The day is a record; an edit is a function of it.             *)
(*                                                                         *)
(* The relievers are a set and the turn of each: they are paired by their  *)
(* turns until an edit pairs them by name, and turns mean nothing then.    *)
(*                                                                         *)
(* Left out: planned opening and closing times of a post, names of posts,  *)
(* the lost property list, shift lengths and absences, spare posts, the    *)
(* weekly minutes that choose between people for a post.                   *)
(***************************************************************************)
EXTENDS Integers, FiniteSets, Functions

CONSTANTS
    Slots,          \* where a post may stand, in the order of the lines
    LineOf,         \* the line of a slot
    SevenRank,      \* the rank of the seven o'clock post first standing there, or 0
    Sevens, Opens,  \* the people of the 07:00 shift and of the opening shift, in order
    None,
    MaxEdits, MaxUploads,   \* bounds
    MaxNamed                \* bound: a list given without the posts

VARIABLES
    day,            \* the plan: see Drafted
    status,         \* "none", "draft", "live" (before the first shift) or "started"
    today,          \* the day has come
    auto,           \* dailyAutoStart
    board,          \* who the live board shows on each slot
    duties,         \* the relief duties counted for the week
    upload,         \* the newest roster of this day
    drafted,        \* rosterUploadId: the roster the plan was made from
    edits,
    chosen,         \* the last edit chose the relievers by name
    bare            \* whom a list given without the posts named although seated
dayVars == <<day, status, today, auto, board, duties, upload, drafted, edits, chosen, bare>>

People == Range(Sevens) \cup Range(Opens)
Lines == {LineOf[s] : s \in Range(Slots)}
SlotSet == Range(Slots)
Nobody == [s \in SlotSet |-> None]
Filled(seats) == {s \in SlotSet : seats[s] # None}
SeatOf(d, s) == IF d.seven[s] # None THEN d.seven[s] ELSE d.crew[s]
Seated(d) == {d.seven[s] : s \in Filled(d.seven)} \cup {d.crew[s] : s \in Filled(d.crew)}
Kind(d, s) == IF d.post[s].seven > 0 \/ d.seven[s] # None THEN "seven" ELSE "crew"

\* The turn of an occupied seven o'clock slot, by the rank of its post, and of a
\* reliever, by his line of the roster or of the list that named him.
Order(d, s) == IF d.post[s].seven = 0 THEN 9 ELSE d.post[s].seven
SevenTurn(d, s) == Cardinality({t \in Filled(d.seven) : Order(d, t) <= Order(d, s)})
Turns(list) == [p \in People |-> IF p \in Range(list) THEN CHOOSE i \in DOMAIN list : list[i] = p ELSE 0]
ReliefTurn(d, p) == Cardinality({q \in d.push7 : d.turn[q] <= d.turn[p]})

\* The reliever of each seven o'clock slot: by name once a pairing is kept,
\* before that by their turns.
Relieves(d, p, s) ==
    IF d.paired THEN p \in DOMAIN d.targets /\ d.targets[p] = d.seven[s]
                ELSE ReliefTurn(d, p) = SevenTurn(d, s)
Relief(d) ==
    [s \in {t \in Filled(d.seven) : \E p \in d.push7 : Relieves(d, p, t)} |->
        CHOOSE p \in d.push7 : Relieves(d, p, s)]

\* Seeded fault: the list of relievers is cut to length, the pairing forgotten.
NormalizedByLength(d, before) ==
    LET late == {s \in Filled(d.seven) : ~d.early[d.seven[s]]}
        e == [d EXCEPT !.crew = [s \in SlotSet |-> IF s \in late THEN d.seven[s] ELSE @[s]],
                       !.seven = [s \in SlotSet |-> IF s \in late THEN None ELSE @[s]]]
        free == [e EXCEPT !.push7 = @ \ Seated(e)]
    IN [free EXCEPT !.push7 = {p \in @ : ReliefTurn(free, p) <= Cardinality(Filled(e.seven))}]

\* Somebody of another shift on a seven o'clock post is ordinary crew there;
\* the others keep the relievers they had.
Normalized(d, before) ==
    LET late == {s \in Filled(d.seven) : ~d.early[d.seven[s]]}
        lost == \E s \in DOMAIN before : d.seven[s] = None
        e == [d EXCEPT !.crew = [s \in SlotSet |-> IF s \in late THEN d.seven[s] ELSE @[s]],
                       !.seven = [s \in SlotSet |-> IF s \in late THEN None ELSE @[s]]]
        kept == {s \in DOMAIN before : e.seven[s] # None}
        still == {before[s] : s \in kept} \ Seated(e)
        push7 == d.push7 \cap still
    IN IF late = {} /\ ~lost /\ ~d.paired THEN d
       ELSE [e EXCEPT !.paired = TRUE, !.push7 = push7,
                      !.targets = [p \in push7 |->
                                     e.seven[CHOOSE s \in kept : before[s] = p]]]

\* validate_plan
Sound(d) ==
    /\ \A s \in SlotSet : SeatOf(d, s) # None => ~d.standby[LineOf[s]] /\ ~d.post[s].closed
    /\ \A p \in Seated(d) : d.role[p] = "rotation"
    /\ \A s \in Filled(d.seven) : d.early[d.seven[s]]
    /\ \A s \in Filled(d.crew) : Kind(d, s) = "crew" \/ ~d.early[d.crew[s]]
    /\ Filled(d.seven) \cap Filled(d.crew) = {}
    /\ \A s, t \in SlotSet : s # t /\ SeatOf(d, s) # None => SeatOf(d, s) # SeatOf(d, t)
    /\ \A s \in SlotSet : d.post[s].hold # None => d.post[s].hold = SeatOf(d, s)

\* build_draft: the seven o'clock posts go to the 07:00 shift, their relief
\* to the first of the opening shift, the other posts to the rest of it.
Drafted ==
    LET Place(s) == Cardinality({t \in SlotSet : 0 < SevenRank[t] /\ SevenRank[t] <= SevenRank[s]})
        early == {s \in SlotSet : SevenRank[s] > 0 /\ Place(s) \in DOMAIN Sevens}
        n == Cardinality(early)
        Open(s) == {i \in DOMAIN Slots : Slots[i] \notin early /\ \E j \in DOMAIN Slots : Slots[j] = s /\ i <= j}
        Turn(s) == n + Cardinality(Open(s))
    IN [seven |-> [s \in SlotSet |-> IF s \in early THEN Sevens[Place(s)] ELSE None],
        crew |-> [s \in SlotSet |-> IF s \notin early /\ Turn(s) \in DOMAIN Opens
                                    THEN Opens[Turn(s)] ELSE None],
        push7 |-> {Opens[i] : i \in DOMAIN Opens \cap 1..n}, turn |-> Turns(Opens),
        paired |-> FALSE, targets |-> << >>,
        post |-> [s \in SlotSet |-> [seven |-> SevenRank[s], closed |-> FALSE, hold |-> None]],
        standby |-> [l \in Lines |-> FALSE],
        role |-> [p \in People |-> "rotation"],
        early |-> [p \in People |-> p \in Range(Sevens)]]

Init == /\ day = Drafted /\ status = "none" /\ today = FALSE /\ auto = FALSE
        /\ board = Nobody /\ duties = {} /\ upload = 1 /\ drafted = 0 /\ edits = 0 /\ chosen = FALSE
        /\ bare = {}

(* Edits: each gives the day it leads to *)

Vacated(d, people) ==
    [d EXCEPT !.seven = [s \in SlotSet |-> IF @[s] \in people THEN None ELSE @[s]],
              !.crew = [s \in SlotSet |-> IF @[s] \in people THEN None ELSE @[s]]]
Cleared(d, slots) ==
    [d EXCEPT !.seven = [s \in SlotSet |-> IF s \in slots THEN None ELSE @[s]],
              !.crew = [s \in SlotSet |-> IF s \in slots THEN None ELSE @[s]]]
Put(d, kind, s, p) ==
    IF p = None THEN d
    ELSE IF kind = "seven" THEN [d EXCEPT !.seven[s] = p] ELSE [d EXCEPT !.crew[s] = p]
Free(d) == [d EXCEPT !.push7 = @ \ Seated(d)]
Usable(s) == ~day.standby[LineOf[s]]

SwappedPeople(s, t) ==
    LET out == Cleared(day, {s, t})
        in == Put(Put(out, Kind(day, t), t, SeatOf(day, s)), Kind(day, s), s, SeatOf(day, t))
    IN Free(Normalized(in, Relief(day)))

Swap(f, s, t) == [x \in SlotSet |-> CASE x = s -> f[t] [] x = t -> f[s] [] OTHER -> f[x]]
SwappedPosts(s, t) ==
    LET d == [day EXCEPT !.post = Swap(@, s, t), !.seven = Swap(@, s, t), !.crew = Swap(@, s, t)]
        Place(x) == CASE x = s -> t [] x = t -> s [] OTHER -> x
        before == [x \in {Place(y) : y \in DOMAIN Relief(day)} |-> Relief(day)[Place(x)]]
    IN Free(Normalized(d, before))

\* Seeded fault: a reliever who is seated stays in the list of relievers.
StaysDue(p, t) ==
    Normalized(Put(Cleared(day, {t}), Kind(day, t), t, p), Relief(day))
SeatedFromPool(p, t) ==
    LET d == Normalized(Put(Cleared(day, {t}), Kind(day, t), t, p), Relief(day))
    IN [d EXCEPT !.push7 = @ \ {p}]

Shifted(p) == Normalized([day EXCEPT !.early[p] = ~@], Relief(day))
SentAway(p) ==
    Normalized([Vacated(day, {p}) EXCEPT !.push7 = @ \ {p}], Relief(day))

Held(s) == [day EXCEPT !.post[s].hold = SeatOf(day, s)]
Unheld(s) == [day EXCEPT !.post[s].hold = None]
OpenedPost(s) == Normalized([day EXCEPT !.post[s].closed = FALSE], Relief(day))
Binding(d, seven) == IF seven THEN [d EXCEPT !.paired = TRUE] ELSE d
ClosedPost(s) ==
    LET d == Binding(Cleared(day, {s}), day.seven[s] # None)
    IN Normalized([d EXCEPT !.post[s].closed = TRUE], Relief(day))

Parked(l) ==
    LET slots == {s \in SlotSet : LineOf[s] = l}
        d == Binding(Cleared(day, slots), slots \cap Filled(day.seven) # {})
    IN Normalized([d EXCEPT !.standby[l] = TRUE], Relief(day))
Unparked(l) == [day EXCEPT !.standby[l] = FALSE]

\* The kept pairing is settled twice: by do_draft_action, then by edit.
Settled(d) ==
    Normalized(IF day.paired THEN Normalized(d, Relief(day)) ELSE d, Relief(day))
Assigned(s, p) ==
    LET out == Vacated(Cleared(day, {s}), {p} \ {None})
    IN Settled([Put(out, Kind(day, s), s, p) EXCEPT !.push7 = @ \ {p}])
Unrolled(p) ==
    LET d == [Vacated(day, {p}) EXCEPT !.push7 = @ \ {p}, !.role[p] = "op",
                                       !.targets = [q \in DOMAIN @ \ {p} |-> @[q]]]
    IN Settled(d)
Rolled(p) == Settled([day EXCEPT !.role[p] = "rotation"])

\* One choice for each occupied seven o'clock slot; an empty one stays empty.
Listed(choice) ==
    LET due == {choice[s] : s \in Filled(day.seven)} \ {None}
        Where(p) == CHOOSE s \in Filled(day.seven) : choice[s] = p
                      /\ \A t \in Filled(day.seven) : choice[t] = p => Order(day, s) <= Order(day, t)
        d == [day EXCEPT !.paired = TRUE, !.push7 = due,
                         !.targets = [p \in due |-> day.seven[Where(p)]]]
    IN Normalized(d, Relief(d))

\* The call of before the pairing, still answered: anybody of the day in any
\* order, seated or not, and no pairing by name any more.
Named(list) ==
    LET d == [day EXCEPT !.paired = FALSE, !.targets = << >>, !.push7 = Range(list), !.turn = Turns(list)]
    IN Normalized(d, Relief(d))

(* Steps *)

\* What the live board shows of a plan (sync_prestart, publish).
Shown(d) == [s \in SlotSet |-> IF d.standby[LineOf[s]] \/ d.post[s].closed THEN None
                               ELSE SeatOf(d, s)]

Editable == status \in {"draft", "live"}
Saves(d, counted) ==
    /\ Editable /\ edits < MaxEdits /\ Sound(d)
    /\ day' = d /\ edits' = edits + 1
    /\ board' = IF status = "live" THEN Shown(d) ELSE board
    /\ duties' = IF status = "live" /\ counted THEN d.push7 ELSE duties
    /\ UNCHANGED <<status, today, auto, upload, drafted>>
Save(d, counted) == Saves(d, counted) /\ chosen' = FALSE /\ UNCHANGED bare

SwapPeople(s, t) == s # t /\ Usable(s) /\ Usable(t) /\ Save(SwappedPeople(s, t), TRUE)
SwapPosts(s, t) == s # t /\ Usable(s) /\ Usable(t) /\ Save(SwappedPosts(s, t), TRUE)
FromPool(p, t) ==
    /\ day.role[p] = "rotation" /\ p \notin Seated(day) /\ Usable(t)
    /\ Save(SeatedFromPool(p, t), TRUE)
\* draft_person: neither edit writes the duties anew.
Shift(p) == Save(Shifted(p), FALSE)
SickOrAway(p) == Save(SentAway(p), FALSE)
Hold(s) == /\ Usable(s) /\ SeatOf(day, s) # None /\ ~day.post[s].closed
           /\ Save(Held(s), TRUE)
Resume(s) == Usable(s) /\ day.post[s].hold # None /\ Save(Unheld(s), TRUE)
OpenPost(s) == /\ Usable(s) /\ day.post[s].hold = None /\ day.post[s].closed
               /\ Save(OpenedPost(s), TRUE)
ClosePost(s) == Usable(s) /\ day.post[s].hold = None /\ Save(ClosedPost(s), TRUE)
LineOff(l) == /\ ~day.standby[l]
              /\ \A s \in SlotSet : LineOf[s] = l => day.post[s].hold = None
              /\ Save(Parked(l), TRUE)
LineOn(l) == day.standby[l] /\ Save(Unparked(l), TRUE)
Assign(s, p) == Save(Assigned(s, p), TRUE)
Role(p) == Save(IF day.role[p] = "rotation" THEN Unrolled(p) ELSE Rolled(p), TRUE)
List(choice) == Saves(Listed(choice), TRUE) /\ chosen' = TRUE /\ bare' = {}
Name(list) == Saves(Named(list), TRUE) /\ chosen' = TRUE /\ bare' = Range(list) \cap Seated(day)

Generate ==
    /\ status \in {"none", "draft"}
    /\ day' = Drafted /\ status' = "draft" /\ drafted' = upload /\ auto' = ~today
    /\ duties' = {} /\ chosen' = TRUE /\ bare' = {}
    /\ UNCHANGED <<today, board, upload, edits>>
Discard == /\ status = "draft"
           /\ status' = "none" /\ day' = Drafted /\ auto' = FALSE /\ drafted' = 0 /\ bare' = {}
           /\ UNCHANGED <<today, board, duties, upload, edits, chosen>>
Upload == /\ upload < MaxUploads /\ upload' = upload + 1
          /\ UNCHANGED <<day, status, today, auto, board, duties, drafted, edits, chosen, bare>>

TakesEffect(d) == status' = "live" /\ board' = Shown(d) /\ duties' = d.push7
Current == drafted = upload
Publish ==
    /\ status = "draft" /\ today /\ Current /\ TakesEffect(day)
    /\ UNCHANGED <<day, today, auto, upload, drafted, edits, chosen, bare>>
\* ensure_prearranged_day, from 03:00
AutoStart ==
    /\ today
    /\ \/ /\ status = "none" /\ day' = Drafted /\ drafted' = upload /\ bare' = {} /\ TakesEffect(Drafted)
       \/ /\ status = "draft" /\ auto /\ Current /\ TakesEffect(day) /\ UNCHANGED <<day, drafted, bare>>
    /\ UNCHANGED <<today, auto, upload, edits, chosen>>

DayComes == /\ ~today /\ today' = TRUE
            /\ UNCHANGED <<day, status, auto, board, duties, upload, drafted, edits, chosen, bare>>
FirstShift == /\ status = "live" /\ status' = "started"
              /\ UNCHANGED <<day, today, auto, board, duties, upload, drafted, edits, chosen, bare>>

\* Lists of at most MaxNamed people, nobody twice.
Lists == {list \in UNION {[1..n -> People] : n \in 0..MaxNamed} : \A i, j \in DOMAIN list : list[i] = list[j] => i = j}

Edit ==
    \/ \E s, t \in SlotSet : SwapPeople(s, t) \/ SwapPosts(s, t)
    \/ \E p \in People : Shift(p) \/ SickOrAway(p) \/ Role(p) \/ \E t \in SlotSet : FromPool(p, t)
    \/ \E s \in SlotSet : Hold(s) \/ Resume(s) \/ OpenPost(s) \/ ClosePost(s)
    \/ \E l \in Lines : LineOff(l) \/ LineOn(l)
    \/ \E s \in SlotSet, p \in People \cup {None} : Assign(s, p)
Next == \/ Edit \/ \E choice \in [Filled(day.seven) -> People \cup {None}] : List(choice)
        \/ \E list \in Lists : Name(list)
        \/ Generate \/ Discard \/ Upload \/ Publish \/ AutoStart \/ DayComes \/ FirstShift
Spec == Init /\ [][Next]_dayVars

(* Properties *)

\* Nobody comes to sit on a post himself who is to relieve a seven o'clock post,
\* though the plan's lists and its seats are edited apart.  Whom a list given
\* without the posts names while he is seated stays in both (service.py:1600; the
\* page's own lists name the posts): of him alone it does not hold.
RelieversFree == day.push7 \cap Seated(day) \subseteq bare

\* Until the first shift the published board shows what the plan says
\* (docs/rotation.md: the daily page and today's board are one arrangement).
BoardIsPlan == status = "live" => board = Shown(day)

PlanKept == RelieversFree /\ BoardIsPlan

\* Rearranging posts and people never hands a reliever on to another seven
\* o'clock slot: who is due at a slot that keeps its post and its occupant
\* stays due there.  Plans whose lists alone pair them, before and after a
\* reliever leaves the list, are the exception (README, disagreements).
PairsKept ==
    [][ edits' > edits /\ ~chosen' /\ (day.paired \/ day'.paired \/ day'.push7 = day.push7) =>
          \A s \in DOMAIN Relief(day) :
             /\ day'.post[s] = day.post[s] /\ day'.seven[s] = day.seven[s]
             /\ Relief(day)[s] \in day'.push7
             => s \in DOMAIN Relief(day') /\ Relief(day')[s] = Relief(day)[s] ]_dayVars
=============================================================================
