--------------------------- MODULE WorkGroupsProofs ---------------------------
(***************************************************************************)
(* Groups, leaders and reviewers, for any people, groups, circles and      *)
(* requests under way.                                                     *)
(***************************************************************************)
EXTENDS WorkGroups, FiniteSetTheorems, SequenceTheorems, WellFoundedInduction, TLAPS

Row == [group : Groups, active : BOOLEAN]
Lead == [type : Types, who : People, active : BOOLEAN]
Someone == People \cup {None}

-----------------------------------------------------------------------------
(* The latest of some rows. *)

LEMMA LeastExists ==
    ASSUME NEW T, T \subseteq Nat, T # {}
    PROVE  \E x \in T : \A y \in T : x <= y
<1>1. PICK x \in T : \A y \in T : ~ (<<y, x>> \in OpToRel(<, Nat))
  BY NatLessThanWellFounded, WFMin, Zenon
<1>2. \A y \in T : ~(y < x)
  BY <1>1 DEF OpToRel
<1>3. x \in Nat /\ \A y \in T : y \in Nat
  OBVIOUS
<1> QED
  BY <1>2, <1>3

LEMMA LatestIs ==
    ASSUME NEW n \in Nat, NEW ids, ids \subseteq 1 .. n
    PROVE  /\ ids = {} => Latest(ids) = 0
           /\ ids # {} => Latest(ids) \in ids /\ \A i \in ids : i <= Latest(ids)
           /\ Latest(ids) \in 0 .. n
<1>1. CASE ids = {}
  BY <1>1 DEF Latest
<1>2. CASE ids # {}
  <2> DEFINE T == {k \in Nat : \E i \in ids : k = n - i}
  <2>0. \A i \in ids : i \in Nat /\ i <= n /\ n - i \in T
    OBVIOUS
  <2>1. T \subseteq Nat /\ T # {}
    BY <1>2, <2>0
  <2>2. PICK x \in T : \A y \in T : x <= y
    BY <2>1, LeastExists
  <2>3. PICK m \in ids : x = n - m
    BY <2>2
  <2>4. \A i \in ids : n - m <= n - i
    BY <2>0, <2>2, <2>3
  <2>5. \A i \in ids : m >= i
    BY <2>0, <2>4
  <2>6. Max(ids) \in ids /\ \A i \in ids : Max(ids) >= i
    BY <2>5 DEF Max
  <2>7. Latest(ids) = Max(ids)
    BY <1>2 DEF Latest
  <2>8. \A i \in ids : i <= Max(ids)
    BY <2>0, <2>6
  <2>9. Max(ids) \in 0 .. n
    <3>1. \A i \in ids : i \in 0 .. n
      OBVIOUS
    <3> QED
      BY <2>6, <3>1, Zenon
  <2> QED
    BY <1>2, <2>6, <2>7, <2>8, <2>9, Zenon
<1> QED
  BY <1>1, <1>2

\* At most one of some rows.
LEMMA OneAtMost ==
    ASSUME NEW S, IsFiniteSet(S), Cardinality(S) <= 1, NEW i \in S, NEW j \in S
    PROVE  i = j
<1> SUFFICES ASSUME i # j PROVE FALSE
  OBVIOUS
<1>1. IsFiniteSet({i, j}) /\ Cardinality({i, j}) <= Cardinality(S)
  BY FS_Subset
<1>2. Cardinality({i, j}) = 2
  <2>1. IsFiniteSet({i}) /\ Cardinality({i}) = 1
    BY FS_Singleton
  <2>2. Cardinality({i} \cup {j}) = 2
    BY <2>1, FS_AddElement
  <2>3. {i} \cup {j} = {i, j}
    OBVIOUS
  <2> QED
    BY <2>2, <2>3
<1>3. Cardinality(S) \in Nat
  BY FS_CardinalityType
<1> QED
  BY <1>1, <1>2, <1>3
-----------------------------------------------------------------------------
(* Rows of people and of groups. *)

LEMMA RowsOff ==
    ASSUME NEW s \in Seq(Row), NEW ids
    PROVE  /\ Off(s, ids) \in Seq(Row) /\ Len(Off(s, ids)) = Len(s)
           /\ DOMAIN Off(s, ids) = DOMAIN s
           /\ \A i \in DOMAIN s : /\ Off(s, ids)[i].group = s[i].group
                                  /\ Off(s, ids)[i].active <=> s[i].active /\ i \notin ids
<1>1. DOMAIN s = 1 .. Len(s) /\ Len(s) \in Nat /\ \A i \in DOMAIN s : s[i] \in Row
  OBVIOUS
<1>2. \A i \in DOMAIN s : Off(s, ids)[i] = [s[i] EXCEPT !.active = @ /\ i \notin ids]
  BY DEF Off
<1>3. ASSUME NEW i \in DOMAIN s
      PROVE  /\ Off(s, ids)[i] \in Row
             /\ Off(s, ids)[i].group = s[i].group
             /\ Off(s, ids)[i].active <=> s[i].active /\ i \notin ids
  BY <1>1, <1>2, Zenon DEF Row
<1>4. DOMAIN Off(s, ids) = 1 .. Len(s)
  BY <1>1 DEF Off
<1>5. Off(s, ids) = [i \in 1 .. Len(s) |-> Off(s, ids)[i]]
  BY <1>1 DEF Off
<1>6. Off(s, ids) \in [1 .. Len(s) -> Row]
  BY <1>1, <1>3, <1>5, Zenon
<1>7. Off(s, ids) \in Seq(Row) /\ Len(Off(s, ids)) = Len(s)
  BY <1>1, <1>6, SeqDef, LenProperties
<1> QED
  BY <1>1, <1>3, <1>4, <1>7

LEMMA LeadsOff ==
    ASSUME NEW s \in Seq(Lead), NEW ids
    PROVE  /\ Off(s, ids) \in Seq(Lead) /\ Len(Off(s, ids)) = Len(s)
           /\ DOMAIN Off(s, ids) = DOMAIN s
           /\ \A i \in DOMAIN s : /\ Off(s, ids)[i].type = s[i].type
                                  /\ Off(s, ids)[i].who = s[i].who
                                  /\ Off(s, ids)[i].active <=> s[i].active /\ i \notin ids
<1>1. DOMAIN s = 1 .. Len(s) /\ Len(s) \in Nat /\ \A i \in DOMAIN s : s[i] \in Lead
  OBVIOUS
<1>2. \A i \in DOMAIN s : Off(s, ids)[i] = [s[i] EXCEPT !.active = @ /\ i \notin ids]
  BY DEF Off
<1>3. ASSUME NEW i \in DOMAIN s
      PROVE  /\ Off(s, ids)[i] \in Lead
             /\ Off(s, ids)[i].type = s[i].type
             /\ Off(s, ids)[i].who = s[i].who
             /\ Off(s, ids)[i].active <=> s[i].active /\ i \notin ids
  BY <1>1, <1>2, Zenon DEF Lead
<1>4. DOMAIN Off(s, ids) = 1 .. Len(s)
  BY <1>1 DEF Off
<1>5. Off(s, ids) = [i \in 1 .. Len(s) |-> Off(s, ids)[i]]
  BY <1>1 DEF Off
<1>6. Off(s, ids) \in [1 .. Len(s) -> Lead]
  BY <1>1, <1>3, <1>5, Zenon
<1>7. Off(s, ids) \in Seq(Lead) /\ Len(Off(s, ids)) = Len(s)
  BY <1>1, <1>6, SeqDef, LenProperties
<1> QED
  BY <1>1, <1>3, <1>4, <1>7
-----------------------------------------------------------------------------
(* Who is in which group, and who leads it. *)

LEMMA ActiveRows ==
    ASSUME NEW s \in Seq(Row)
    PROVE  /\ DOMAIN s = 1 .. Len(s) /\ Len(s) \in Nat
           /\ \A i \in DOMAIN s : s[i] \in Row
           /\ ActiveIds(s) \subseteq 1 .. Len(s)
           /\ \A i \in DOMAIN s : i \in ActiveIds(s) <=> s[i].active
<1>1. DOMAIN s = 1 .. Len(s) /\ Len(s) \in Nat /\ \A i \in DOMAIN s : s[i] \in Row
  OBVIOUS
<1> QED
  BY <1>1, Zenon DEF ActiveIds

LEMMA ActiveLeads ==
    ASSUME NEW s \in Seq(Lead)
    PROVE  /\ DOMAIN s = 1 .. Len(s) /\ Len(s) \in Nat
           /\ \A i \in DOMAIN s : s[i] \in Lead
           /\ ActiveIds(s) \subseteq 1 .. Len(s)
           /\ \A i \in DOMAIN s : i \in ActiveIds(s) <=> s[i].active
<1>1. DOMAIN s = 1 .. Len(s) /\ Len(s) \in Nat /\ \A i \in DOMAIN s : s[i] \in Lead
  OBVIOUS
<1> QED
  BY <1>1, Zenon DEF ActiveIds

LEMMA GroupInIs ==
    ASSUME NEW ms \in [People -> Seq(Row)], NEW p \in People
    PROVE  /\ GroupIn(ms, p) \in Groups \cup {None}
           /\ GroupIn(ms, p) = None <=> ActiveIds(ms[p]) = {}
           /\ GroupIn(ms, p) # None =>
                  /\ Latest(ActiveIds(ms[p])) \in ActiveIds(ms[p])
                  /\ \A i \in ActiveIds(ms[p]) : i <= Latest(ActiveIds(ms[p]))
                  /\ GroupIn(ms, p) = ms[p][Latest(ActiveIds(ms[p]))].group
<1> DEFINE s == ms[p]
           m == Latest(ActiveIds(ms[p]))
<1>1. s \in Seq(Row)
  OBVIOUS
<1>2. /\ DOMAIN s = 1 .. Len(s) /\ Len(s) \in Nat
      /\ \A i \in DOMAIN s : s[i] \in Row
      /\ ActiveIds(s) \subseteq 1 .. Len(s)
  BY <1>1, ActiveRows
<1>3. /\ ActiveIds(s) = {} => m = 0
      /\ ActiveIds(s) # {} => m \in ActiveIds(s) /\ \A i \in ActiveIds(s) : i <= m
  BY <1>2, LatestIs
<1>4. GroupIn(ms, p) = IF m = 0 THEN None ELSE s[m].group
  BY DEF GroupIn
<1>5. None \notin Groups
  BY NamesAssumption
<1>6. m \in ActiveIds(s) => m # 0 /\ s[m].group \in Groups
  BY <1>2 DEF Row
<1> HIDE DEF m, s
<1>7. /\ GroupIn(ms, p) \in Groups \cup {None}
      /\ GroupIn(ms, p) = None <=> ActiveIds(s) = {}
      /\ GroupIn(ms, p) # None => /\ m \in ActiveIds(s) /\ \A i \in ActiveIds(s) : i <= m
                                 /\ GroupIn(ms, p) = s[m].group
  <2>1. CASE ActiveIds(s) = {}
    BY <1>3, <1>4, <2>1
  <2>2. CASE ActiveIds(s) # {}
    BY <1>3, <1>4, <1>5, <1>6, <2>2
  <2> QED
    BY <2>1, <2>2
<1> QED
  BY <1>7 DEF m, s

LEMMA MemberIs ==
    ASSUME NEW ms \in [People -> Seq(Row)], NEW p \in People, NEW g \in Groups
    PROVE  p \in Members(ms, g) <=> \E i \in ActiveIds(ms[p]) : ms[p][i].group = g
<1> DEFINE s == ms[p]
<1>1. s \in Seq(Row)
  OBVIOUS
<1>2. /\ \A i \in DOMAIN s : s[i] \in Row
      /\ ActiveIds(s) \subseteq DOMAIN s
      /\ \A i \in DOMAIN s : i \in ActiveIds(s) <=> s[i].active
  BY <1>1, ActiveRows
<1>3. p \in Members(ms, g) <=> \E i \in DOMAIN s : s[i] = [group |-> g, active |-> TRUE]
  BY DEF Members
<1>4. ASSUME NEW r \in Row PROVE r = [group |-> g, active |-> TRUE] <=> r.active /\ r.group = g
  <2>1. r = [group |-> r.group, active |-> r.active] /\ r.active \in BOOLEAN
    BY DEF Row
  <2>2. r.active <=> r.active = TRUE
    BY <2>1, Zenon
  <2>3. r.active = TRUE /\ r.group = g => r = [group |-> g, active |-> TRUE]
    BY <2>1
  <2>4. r = [group |-> g, active |-> TRUE] => r.active = TRUE /\ r.group = g
    OBVIOUS
  <2> QED
    BY <2>2, <2>3, <2>4, Zenon
<1> QED
  BY <1>2, <1>3, <1>4, Zenon

LEMMA AssignedIs ==
    ASSUME NEW ls \in [Groups -> Seq(Lead)], NEW g \in Groups, NEW type \in Types, NEW p \in People
    PROVE  Assigned(ls, g, type, p) <=>
               \E i \in ActiveIds(ls[g]) : ls[g][i].type = type /\ ls[g][i].who = p
<1> DEFINE s == ls[g]
<1>1. s \in Seq(Lead)
  OBVIOUS
<1>2. /\ \A i \in DOMAIN s : s[i] \in Lead
      /\ ActiveIds(s) \subseteq DOMAIN s
      /\ \A i \in DOMAIN s : i \in ActiveIds(s) <=> s[i].active
  BY <1>1, ActiveLeads
<1>3. Assigned(ls, g, type, p) <=> \E i \in DOMAIN s : s[i] = [type |-> type, who |-> p, active |-> TRUE]
  BY DEF Assigned, Range
<1>4. ASSUME NEW r \in Lead
      PROVE r = [type |-> type, who |-> p, active |-> TRUE] <=> r.active /\ r.type = type /\ r.who = p
  <2>1. r = [type |-> r.type, who |-> r.who, active |-> r.active] /\ r.active \in BOOLEAN
    BY DEF Lead
  <2>2. r.active <=> r.active = TRUE
    BY <2>1, Zenon
  <2>3. r.active = TRUE /\ r.type = type /\ r.who = p => r = [type |-> type, who |-> p, active |-> TRUE]
    BY <2>1
  <2>4. r = [type |-> type, who |-> p, active |-> TRUE] => r.active = TRUE /\ r.type = type /\ r.who = p
    OBVIOUS
  <2> QED
    BY <2>2, <2>3, <2>4, Zenon
<1> QED
  BY <1>2, <1>3, <1>4, Zenon

LEMMA LeaderIs ==
    ASSUME NEW ls \in [Groups -> Seq(Lead)], NEW g \in Groups, NEW type \in Types
    PROVE  /\ LeaderOf(ls, g, type) \in Someone
           /\ RowOf(ls, g, type) \in 0 .. Len(ls[g])
           /\ LeaderOf(ls, g, type) # None => Assigned(ls, g, type, LeaderOf(ls, g, type))
           /\ LeaderOf(ls, g, type) = None => \A p \in People : ~Assigned(ls, g, type, p)
           /\ RowOf(ls, g, type) # 0 =>
                  /\ RowOf(ls, g, type) \in ActiveIds(ls[g])
                  /\ ls[g][RowOf(ls, g, type)].type = type
                  /\ ls[g][RowOf(ls, g, type)].who = LeaderOf(ls, g, type)
<1> DEFINE s == ls[g]
           m == RowOf(ls, g, type)
           ids == {i \in ActiveIds(s) : s[i].type = type}
<1>1. s \in Seq(Lead)
  OBVIOUS
<1>2. /\ DOMAIN s = 1 .. Len(s) /\ Len(s) \in Nat
      /\ \A i \in DOMAIN s : s[i] \in Lead
      /\ ActiveIds(s) \subseteq 1 .. Len(s)
  BY <1>1, ActiveLeads
<1>3. /\ ids = {} => m = 0
      /\ ids # {} => m \in ids
      /\ m \in 0 .. Len(s)
  <2>1. ids \subseteq 1 .. Len(s)
    BY <1>2
  <2>2. m = Latest(ids)
    BY DEF RowOf
  <2> HIDE DEF ids
  <2> QED
    BY <1>2, <2>1, <2>2, LatestIs
<1>4. LeaderOf(ls, g, type) = IF m = 0 THEN None ELSE s[m].who
  BY DEF LeaderOf
<1>5. None \notin People
  BY NamesAssumption
<1>6. m \in ids => m # 0 /\ s[m].who \in People /\ s[m].type = type /\ m \in ActiveIds(s)
  BY <1>2 DEF Lead
<1>7. \A p \in People : Assigned(ls, g, type, p) <=> \E i \in ids : s[i].who = p
  BY AssignedIs
<1> HIDE DEF m, ids, s
<1>8. CASE ids = {}
  BY <1>3, <1>4, <1>5, <1>7, <1>8 DEF Someone, m, s
<1>9. CASE ids # {}
  BY <1>3, <1>4, <1>5, <1>6, <1>7, <1>9 DEF Someone, m, s
<1> QED
  BY <1>8, <1>9

\* The reviewer is somebody else or nobody.
LEMMA ReviewerIs ==
    ASSUME NEW ms \in [People -> Seq(Row)], NEW ls \in [Groups -> Seq(Lead)], NEW p \in People
    PROVE  /\ Reviewer(ms, ls, p) \in Someone
           /\ Reviewer(ms, ls, p) # p
<1> DEFINE g == GroupIn(ms, p)
<1>1. p # None
  BY NamesAssumption
<1>2. CASE g = None
  BY <1>1, <1>2 DEF Reviewer, Someone
<1>3. CASE g # None
  <2>1. g \in Groups
    BY <1>3, GroupInIs
  <2>2. LeaderOf(ls, g, "formal") \in Someone /\ LeaderOf(ls, g, "acting") \in Someone
    BY <2>1, LeaderIs DEF Types
  <2>3. Runs(ls, g) \in Someone
    BY <2>2 DEF Runs
  <2> HIDE DEF g
  <2>4. Reviewer(ms, ls, p) = IF Runs(ls, g) # p THEN Runs(ls, g)
                              ELSE IF LeaderOf(ls, g, "formal") = p THEN None ELSE LeaderOf(ls, g, "formal")
    BY <1>3 DEF Reviewer, g
  <2> QED
    BY <1>1, <2>2, <2>3, <2>4 DEF Someone
<1> QED
  BY <1>2, <1>3

\* It is asked of the person's own rows.
LEMMA SameReviewer ==
    ASSUME NEW ms, NEW ms2, NEW ls, NEW p, ms[p] = ms2[p]
    PROVE  Reviewer(ms, ls, p) = Reviewer(ms2, ls, p)
<1>1. GroupIn(ms, p) = GroupIn(ms2, p)
  BY Zenon DEF GroupIn
<1> QED
  BY <1>1, Zenon DEF Reviewer
-----------------------------------------------------------------------------
(* The two definitions of who reviews a member. *)

LEMMA OneGroup ==
    ASSUME NEW ms \in [People -> Seq(Row)], NEW p \in People, Cardinality(ActiveIds(ms[p])) <= 1,
           NEW g \in Groups
    PROVE  p \in Members(ms, g) <=> GroupIn(ms, p) = g
<1> DEFINE ids == ActiveIds(ms[p])
           m == Latest(ids)
<1>1. IsFiniteSet(ids)
  <2>1. ms[p] \in Seq(Row)
    OBVIOUS
  <2>2. ids \subseteq 1 .. Len(ms[p]) /\ Len(ms[p]) \in Nat
    BY <2>1, ActiveRows
  <2>3. IsFiniteSet(1 .. Len(ms[p]))
    BY <2>2, FS_Interval
  <2> QED
    BY <2>2, <2>3, FS_Subset
<1>2. \A i, j \in ids : i = j
  BY <1>1, OneAtMost
<1>3. p \in Members(ms, g) <=> \E i \in ids : ms[p][i].group = g
  BY MemberIs
<1>4. /\ GroupIn(ms, p) = None <=> ids = {}
      /\ GroupIn(ms, p) # None => m \in ids /\ GroupIn(ms, p) = ms[p][m].group
  BY GroupInIs
<1>5. g # None
  BY NamesAssumption
<1> HIDE DEF ids, m
<1> QED
  BY <1>2, <1>3, <1>4, <1>5

LEMMA OneLed ==
    ASSUME NEW ls \in [Groups -> Seq(Lead)], NEW g \in Groups, NEW type \in Types, NEW p \in People,
           Cardinality({i \in ActiveIds(ls[g]) : ls[g][i].type = type}) <= 1
    PROVE  Assigned(ls, g, type, p) <=> LeaderOf(ls, g, type) = p
<1> DEFINE ids == {i \in ActiveIds(ls[g]) : ls[g][i].type = type}
           m == RowOf(ls, g, type)
<1>1. IsFiniteSet(ids)
  <2>1. ls[g] \in Seq(Lead)
    OBVIOUS
  <2>2. ids \subseteq 1 .. Len(ls[g]) /\ Len(ls[g]) \in Nat
    BY <2>1, ActiveLeads
  <2>3. IsFiniteSet(1 .. Len(ls[g]))
    BY <2>2, FS_Interval
  <2> QED
    BY <2>2, <2>3, FS_Subset
<1>2. \A i, j \in ids : i = j
  BY <1>1, OneAtMost
<1>3. Assigned(ls, g, type, p) <=> \E i \in ids : ls[g][i].who = p
  BY AssignedIs
<1>4. /\ LeaderOf(ls, g, type) # None => Assigned(ls, g, type, LeaderOf(ls, g, type))
      /\ LeaderOf(ls, g, type) = None => ~Assigned(ls, g, type, p)
      /\ LeaderOf(ls, g, type) \in Someone
  BY LeaderIs
<1>5. p # None
  BY NamesAssumption
<1>6. ASSUME LeaderOf(ls, g, type) # None
      PROVE  \E i \in ids : ls[g][i].who = LeaderOf(ls, g, type)
  BY <1>4, <1>6, AssignedIs DEF Someone
<1> HIDE DEF ids, m
<1> QED
  BY <1>2, <1>3, <1>4, <1>5, <1>6

\* direct_member_ids and current_leader_for_employee agree.
LEMMA Agreement ==
    ASSUME rows \in [People -> Seq(Row)], leads \in [Groups -> Seq(Lead)]
    PROVE  ReviewersAgree
<1> SUFFICES ASSUME Single, NEW p \in People
             PROVE  {l \in People \ {p} : p \in DirectMembers(l)} = {Reviewer(rows, leads, p)} \ {None}
  BY DEF ReviewersAgree
<1> DEFINE g == GroupIn(rows, p)
           formal == LeaderOf(leads, g, "formal")
           acting == LeaderOf(leads, g, "acting")
<1>1. p # None /\ None \notin People /\ None \notin Groups
  BY NamesAssumption
<1>2. \A x \in Groups : p \in Members(rows, x) <=> g = x
  BY OneGroup DEF Single
<1>3. \A x \in Groups, type \in Types, w \in People :
          Assigned(leads, x, type, w) <=> LeaderOf(leads, x, type) = w
  <2> SUFFICES ASSUME NEW x \in Groups, NEW type \in Types, NEW w \in People
               PROVE  Assigned(leads, x, type, w) <=> LeaderOf(leads, x, type) = w
    OBVIOUS
  <2>1. Cardinality({i \in ActiveIds(leads[x]) : leads[x][i].type = type}) <= 1
    BY DEF Single
  <2> QED
    BY <2>1, OneLed
<1>4. \A w \in People, x, h \in Groups :
          Assigned(leads, x, "formal", w) /\ Assigned(leads, h, "formal", w) => x = h
  BY DEF Single
<1>5. g \in Groups \cup {None}
  BY GroupInIs
<1>6. ASSUME NEW l \in People \ {p}
      PROVE  p \in DirectMembers(l) <=>
                 g \in Groups /\ (Runs(leads, g) = l \/ (formal = l /\ acting = p))
  <2> DEFINE led == {x \in Groups : Runs(leads, x) = l}
             formally == {x \in Groups : Assigned(leads, x, "formal", l)}
             theirs == UNION {Members(rows, x) : x \in formally}
  <2>1. DirectMembers(l) = ((UNION {Members(rows, x) : x \in led}) \ {l})
                             \cup ({LeaderOf(leads, x, "acting") : x \in formally} \cap theirs)
    BY DEF DirectMembers
  <2>2. p \in UNION {Members(rows, x) : x \in led} <=> g \in led
    BY <1>2
  <2>3. p \in theirs <=> g \in formally
    BY <1>2
  <2>4. g \in formally => \A x \in formally : x = g
    BY <1>4
  <2>5. g \in formally <=> g \in Groups /\ formal = l
    BY <1>3 DEF Types
  <2>6. p \in {LeaderOf(leads, x, "acting") : x \in formally} <=>
            \E x \in formally : p = LeaderOf(leads, x, "acting")
    OBVIOUS
  <2>7. g \in led <=> g \in Groups /\ Runs(leads, g) = l
    OBVIOUS
  <2> HIDE DEF led, formally, theirs, g
  <2> QED
    BY <2>1, <2>2, <2>3, <2>4, <2>5, <2>6, <2>7 DEF g
<1>7. CASE g = None
  <2>1. Reviewer(rows, leads, p) = None
    BY <1>1, <1>7 DEF Reviewer
  <2> QED
    BY <1>1, <1>6, <1>7, <2>1
<1>8. CASE g # None
  <2>1. g \in Groups
    BY <1>5, <1>8
  <2>2. formal \in Someone /\ acting \in Someone
    BY <2>1, LeaderIs DEF Types
  <2>3. Runs(leads, g) = IF acting # None THEN acting ELSE formal
    BY DEF Runs
  <2>4. Reviewer(rows, leads, p) = IF Runs(leads, g) # p THEN Runs(leads, g)
                                   ELSE IF formal = p THEN None ELSE formal
    BY <1>8 DEF Reviewer
  <2> HIDE DEF g, formal, acting
  <2> QED
    BY <1>1, <1>6, <2>1, <2>2, <2>3, <2>4 DEF Someone
<1> QED
  BY <1>7, <1>8
-----------------------------------------------------------------------------
(* The invariant. *)

Reviewers == Someone \cup {NoRecord}
PeopleOK ==
    /\ base \in [People -> Base] /\ circle \in [People -> Circles]
    /\ duty \in [People -> [code : Duties \cup {"none"}, until : 0..Forever]]
    /\ scope \in [People -> SUBSET Circles]
RowsOK == rows \in [People -> Seq(Row)] /\ \A p \in People : Len(rows[p]) <= MaxRows
LeadsOK == leads \in [Groups -> Seq(Lead)] /\ \A g \in Groups : Len(leads[g]) <= MaxRows
\* A record is of somebody to be reviewed by somebody else.
RecordsOK(rc) == rc \in [People -> Reviewers] /\ \A p \in People : rc[p] # p
RequestsOK ==
    /\ status \in [Groups -> {"active", "pending_takeover", "closed"}]
    /\ request \in [People -> [st : {"over", "pending"},
                               from : Circles \cup {None}, to : Circles \cup {None}]]
\* What a request has read; it submits its record for somebody else to review.
ThreadsOK ==
    /\ thread \in [Threads -> Plans]
    /\ \A t \in Threads : thread[t].op = "submit" => thread[t].reviewer # thread[t].who
CountsOK == today \in 1..LastDay /\ edits \in 0..MaxEdits /\ calls \in 0..MaxCalls
Typed == PeopleOK /\ RowsOK /\ LeadsOK /\ RecordsOK(pending) /\ RequestsOK /\ ThreadsOK /\ CountsOK

\* The newest membership of a person, while it lasts, is in their circle.
NewestIn(s, c) == s # <<>> /\ s[Len(s)].active => CircleOf[s[Len(s)].group] = c
InCircles == \A p \in People : NewestIn(rows[p], circle[p])

IInv == Typed /\ InCircles /\ ScopeEnds

LEMMA TypedTold == ASSUME Typed PROVE TypeOK
<1>1. ASSUME NEW p \in People PROVE Len(rows[p]) <= MaxRows /\ Range(rows[p]) \subseteq Row
  BY DEF Typed, RowsOK, Range
<1>2. ASSUME NEW g \in Groups PROVE Len(leads[g]) <= MaxRows /\ Range(leads[g]) \subseteq Lead
  BY DEF Typed, LeadsOK, Range
<1> QED
  BY <1>1, <1>2 DEF Typed, PeopleOK, RecordsOK, RequestsOK, ThreadsOK, CountsOK, TypeOK, Row, Lead,
     Reviewers, Someone

LEMMA CirclesTold == ASSUME Typed, InCircles PROVE GroupInCircle
<1> SUFFICES ASSUME NEW p \in People, GroupIn(rows, p) # None, ~Overtaken(rows, p)
             PROVE  CircleOf[GroupIn(rows, p)] = circle[p]
  BY DEF GroupInCircle
<1> DEFINE s == rows[p]
           m == Latest(ActiveIds(s))
<1>1. s \in Seq(Row) /\ rows \in [People -> Seq(Row)]
  BY DEF Typed, RowsOK
<1>2. m \in ActiveIds(s) /\ GroupIn(rows, p) = s[m].group
  BY <1>1, GroupInIs
<1>3. m = Len(s)
  BY <1>2, Zenon DEF Overtaken
<1>4. m \in DOMAIN s /\ s[m].active
  BY <1>1, <1>2, ActiveRows
<1>5. s # <<>>
  BY <1>4
<1>6. NewestIn(s, circle[p])
  BY DEF InCircles
<1> HIDE DEF s, m
<1> QED
  BY <1>2, <1>3, <1>4, <1>5, <1>6 DEF NewestIn

LEMMA Start == Init => IInv
<1> SUFFICES ASSUME Init PROVE IInv
  OBVIOUS
<1>1. PeopleOK /\ RequestsOK /\ CountsOK /\ RecordsOK(pending) /\ ScopeEnds
  <2>1. NoDuty \in [code : Duties \cup {"none"}, until : 0..Forever]
    BY BoundsAssumption DEF NoDuty, Forever
  <2>2. \A p \in People : NoRecord # p
    BY NamesAssumption
  <2> QED
    BY <2>1, <2>2, StartAssumption, BoundsAssumption
       DEF Init, PeopleOK, RequestsOK, CountsOK, RecordsOK, ScopeEnds, Over, Reviewers
<1>2. ASSUME NEW p \in People
      PROVE  rows[p] \in Seq(Row) /\ Len(rows[p]) <= MaxRows /\ NewestIn(rows[p], circle[p])
  <2>1. rows[p] = IF FirstGroup[p] = None THEN <<>> ELSE Joined(<<>>, FirstGroup[p])
    BY DEF Init
  <2>2. CASE FirstGroup[p] = None
    BY <2>1, <2>2, BoundsAssumption DEF NewestIn
  <2>3. CASE FirstGroup[p] # None
    <3> DEFINE r == [group |-> FirstGroup[p], active |-> TRUE]
    <3>1. r \in Row /\ CircleOf[r.group] = circle[p]
      BY <2>3, StartAssumption DEF Row, Init
    <3> HIDE DEF r
    <3>2. rows[p] = <<r>>
      <4>1. rows[p] = Append(<<>>, r)
        BY <2>1, <2>3, Zenon DEF Joined, r
      <4> QED
        BY <4>1
    <3>3. <<r>> \in Seq(Row) /\ Len(<<r>>) = 1 /\ <<r>>[1] = r
      BY <3>1
    <3> QED
      BY <3>1, <3>2, <3>3, BoundsAssumption DEF NewestIn
  <2> QED
    BY <2>2, <2>3
<1>3. ASSUME NEW g \in Groups PROVE leads[g] \in Seq(Lead) /\ Len(leads[g]) <= MaxRows
  <2> DEFINE r == [type |-> "formal", who |-> FirstFormal[g], active |-> TRUE]
  <2>1. leads[g] = IF FirstFormal[g] = None THEN <<>> ELSE <<r>>
    BY DEF Init
  <2>2. FirstFormal[g] # None => r \in Lead
    BY StartAssumption DEF Lead, Types
  <2> HIDE DEF r
  <2> QED
    BY <2>1, <2>2, BoundsAssumption
<1>4. RowsOK /\ LeadsOK /\ InCircles
  <2>1. rows = [p \in People |-> rows[p]] /\ leads = [g \in Groups |-> leads[g]]
    BY DEF Init
  <2> QED
    BY <1>2, <1>3, <2>1 DEF RowsOK, LeadsOK, InCircles
<1>5. ThreadsOK
  BY DEF Init, ThreadsOK, Plans
<1> QED
  BY <1>1, <1>4, <1>5 DEF IInv, Typed
-----------------------------------------------------------------------------
(* What the operations do to the rows. *)

LEMMA JoinedIs ==
    ASSUME NEW s \in Seq(Row), NEW g \in Groups
    PROVE  /\ Joined(s, g) \in Seq(Row) /\ Len(Joined(s, g)) = Len(s) + 1
           /\ \A c : CircleOf[g] = c => NewestIn(Joined(s, g), c)
<1> DEFINE r == [group |-> g, active |-> TRUE]
<1>1. r \in Row /\ r.group = g
  BY DEF Row
<1>2. Joined(s, g) = Append(s, r)
  BY DEF Joined
<1> HIDE DEF r
<1>3. Append(s, r) \in Seq(Row) /\ Len(Append(s, r)) = Len(s) + 1 /\ Append(s, r)[Len(s) + 1] = r
  BY <1>1
<1> QED
  BY <1>1, <1>2, <1>3 DEF NewestIn

\* The latest membership ends; if others are left, none of them is the newest row.
LEMMA EndCurrentIs ==
    ASSUME rows \in [People -> Seq(Row)], NEW p \in People
    PROVE  /\ EndCurrent(p) \in Seq(Row) /\ Len(EndCurrent(p)) = Len(rows[p])
           /\ \A c : NewestIn(EndCurrent(p), c)
           /\ \A i \in ActiveIds(EndCurrent(p)) : i \in ActiveIds(rows[p]) /\ i # Len(EndCurrent(p))
           /\ \A i \in ActiveIds(EndCurrent(p)) : EndCurrent(p)[i].group = rows[p][i].group
<1> DEFINE s == rows[p]
           m == Latest(ActiveIds(s))
           e == EndCurrent(p)
<1>1. s \in Seq(Row)
  OBVIOUS
<1>2. e = Off(s, {m})
  BY DEF EndCurrent
<1>3. /\ e \in Seq(Row) /\ Len(e) = Len(s) /\ DOMAIN e = DOMAIN s
      /\ \A i \in DOMAIN s : e[i].group = s[i].group /\ (e[i].active <=> s[i].active /\ i # m)
  <2> HIDE DEF s, m, e
  <2> QED
    BY <1>1, <1>2, RowsOff
<1>4. /\ DOMAIN s = 1 .. Len(s) /\ Len(s) \in Nat
      /\ ActiveIds(s) \subseteq 1 .. Len(s)
      /\ \A i \in DOMAIN s : i \in ActiveIds(s) <=> s[i].active
  BY <1>1, ActiveRows
<1>5. ActiveIds(e) \subseteq DOMAIN s /\ \A i \in DOMAIN s : i \in ActiveIds(e) <=> e[i].active
  BY <1>3, ActiveRows
<1>6. ActiveIds(s) # {} => m \in ActiveIds(s) /\ \A i \in ActiveIds(s) : i <= m
  BY <1>4, LatestIs
<1> HIDE DEF s, m, e
<1>7. ASSUME NEW i \in ActiveIds(e)
      PROVE  i \in DOMAIN s /\ i \in ActiveIds(s) /\ i # m
  BY <1>3, <1>4, <1>5
<1>8. ASSUME NEW i \in ActiveIds(e)
      PROVE  i # Len(s)
  BY <1>4, <1>6, <1>7
<1>9. ASSUME NEW c PROVE NewestIn(e, c)
  <2> SUFFICES ASSUME e # <<>>, e[Len(e)].active PROVE FALSE
    BY DEF NewestIn
  <2>1. Len(e) \in DOMAIN s
    BY <1>3, <1>4
  <2> QED
    BY <1>3, <1>5, <1>8, <2>1
<1>10. e \in Seq(Row) /\ Len(e) = Len(s)
  BY <1>3
<1>11. \A i \in ActiveIds(e) : e[i].group = s[i].group
  BY <1>3, <1>7
<1> QED
  BY <1>7, <1>8, <1>9, <1>10, <1>11 DEF s, e

LEMMA SyncedIs ==
    ASSUME NEW rc, RecordsOK(rc), NEW ms \in [People -> Seq(Row)], NEW ls \in [Groups -> Seq(Lead)],
           NEW gs
    PROVE  RecordsOK(Synced(rc, ms, ls, gs))
<1>1. ASSUME NEW p \in People
      PROVE  Synced(rc, ms, ls, gs)[p] \in Reviewers /\ Synced(rc, ms, ls, gs)[p] # p
  <2>1. Synced(rc, ms, ls, gs)[p] \in {rc[p], Reviewer(ms, ls, p)}
    BY DEF Synced
  <2> QED
    BY <2>1, ReviewerIs DEF RecordsOK, Reviewers
<1>2. Synced(rc, ms, ls, gs) = [p \in People |-> Synced(rc, ms, ls, gs)[p]]
  BY DEF Synced
<1> QED
  BY <1>1, <1>2 DEF RecordsOK

\* The record of one person is sent to whoever reviews it now.
LEMMA SentIs ==
    ASSUME NEW rc, RecordsOK(rc), NEW ms \in [People -> Seq(Row)], NEW ls \in [Groups -> Seq(Lead)],
           NEW p \in People
    PROVE  RecordsOK([rc EXCEPT ![p] = Reviewer(ms, ls, p)])
<1>1. Reviewer(ms, ls, p) \in Reviewers /\ Reviewer(ms, ls, p) # p
  BY ReviewerIs DEF Reviewers
<1> QED
  BY <1>1 DEF RecordsOK

LEMMA TargetIs ==
    ASSUME rows \in [People -> Seq(Row)], NEW p \in People, NEW g \in Groups \cup {None}, NEW c,
           g # None => CircleOf[g] = c,
           Target(p, g, c) # None
    PROVE  Target(p, g, c) \in Groups /\ CircleOf[Target(p, g, c)] = c
<1>1. Historic(p, c) \subseteq {x \in Groups : CircleOf[x] = c}
  <2>1. \A i \in DOMAIN rows[p] : rows[p][i] \in Row
    OBVIOUS
  <2>2. \A r \in Range(rows[p]) : r \in Row
    BY <2>1, Zenon DEF Range
  <2>3. \A r \in Row : r.group \in Groups
    BY DEF Row
  <2> QED
    BY <2>2, <2>3 DEF Historic
<1>2. CASE g # None \/ Historic(p, c) = {}
  BY <1>2 DEF Target
<1>3. CASE g = None /\ Historic(p, c) # {}
  <2>1. Target(p, g, c) \in Historic(p, c)
    BY <1>3 DEF Target
  <2> QED
    BY <1>1, <2>1
<1> QED
  BY <1>2, <1>3

\* A group change: the person's own rows and record, nobody else's.  Their record
\* stays where it was put only with rows that are theirs still or are ended.
Moved(p, ls, rc) ==
    /\ \A q \in People : q # p => rows'[q] = rows[q] /\ pending'[q] = rc[q]
    /\ \/ rows'[p] = rows[p] /\ pending'[p] = rc[p]
       \/ rows'[p] = EndCurrent(p) /\ pending'[p] = rc[p]
       \/ pending'[p] = NoRecord
       \/ pending'[p] = Reviewer(rows', ls, p)

LEMMA RegroupIs ==
    ASSUME rows \in [People -> Seq(Row)], NEW p \in People, NEW role, NEW nextBase,
           NEW g \in Groups \cup {None}, NEW c,
           NEW ls \in [Groups -> Seq(Lead)], NEW rc, RecordsOK(rc),
           Regroup(p, role, nextBase, g, c, ls, rc)
    PROVE  /\ rows' \in [People -> Seq(Row)] /\ RecordsOK(pending')
           /\ Moved(p, ls, rc)
           /\ NewestIn(rows'[p], c)
<1> DEFINE cur == GroupIn(rows, p)
           target == Target(p, g, c)
           e == EndCurrent(p)
           next == IF target = None THEN e ELSE Joined(e, target)
           ms == [rows EXCEPT ![p] = next]
<1>1. e \in Seq(Row) /\ NewestIn(e, c)
  BY EndCurrentIs
<1>2. rows[p] \in Seq(Row)
  OBVIOUS
<1>3. /\ cur \in Groups \cup {None}
      /\ rows[p] # <<>> /\ rows[p][Len(rows[p])].active => cur # None /\ rows[p][Len(rows[p])].group = cur
  <2>1. /\ DOMAIN rows[p] = 1 .. Len(rows[p]) /\ Len(rows[p]) \in Nat
        /\ ActiveIds(rows[p]) \subseteq 1 .. Len(rows[p])
        /\ \A i \in DOMAIN rows[p] : i \in ActiveIds(rows[p]) <=> rows[p][i].active
    BY <1>2, ActiveRows
  <2>2. /\ cur \in Groups \cup {None}
        /\ cur = None <=> ActiveIds(rows[p]) = {}
        /\ cur # None => /\ Latest(ActiveIds(rows[p])) \in ActiveIds(rows[p])
                         /\ \A i \in ActiveIds(rows[p]) : i <= Latest(ActiveIds(rows[p]))
                         /\ cur = rows[p][Latest(ActiveIds(rows[p]))].group
    BY GroupInIs
  <2> HIDE DEF cur
  <2> SUFFICES ASSUME rows[p] # <<>>, rows[p][Len(rows[p])].active
               PROVE  cur # None /\ rows[p][Len(rows[p])].group = cur
    BY <2>2
  <2>3. Len(rows[p]) \in DOMAIN rows[p]
    BY <1>2, <2>1
  <2>4. Len(rows[p]) \in ActiveIds(rows[p])
    BY <2>1, <2>3
  <2>5. Latest(ActiveIds(rows[p])) = Len(rows[p])
    BY <2>1, <2>2, <2>4
  <2> QED
    BY <2>2, <2>4, <2>5
<1>4. \/ KeepsGroup(p, role, g, c) /\ rows' = rows /\ pending' = rc
      \/ /\ ~KeepsGroup(p, role, g, c) /\ nextBase # "CM" /\ g = None
         /\ rows' = [rows EXCEPT ![p] = e] /\ pending' = rc
      \/ /\ ~KeepsGroup(p, role, g, c) /\ nextBase = "CM"
         /\ g # None => CircleOf[g] = c
         /\ IF target = cur THEN rows' = rows /\ pending' = rc
            ELSE /\ target = None => rc[p] = NoRecord
                 /\ rows' = ms
                 /\ pending' = IF target = None \/ rc[p] = NoRecord THEN rc
                               ELSE [rc EXCEPT ![p] = Reviewer(ms, ls, p)]
  BY DEF Regroup
<1>5. ASSUME cur # None => CircleOf[cur] = c
      PROVE  NewestIn(rows[p], c)
  BY <1>3, <1>5 DEF NewestIn
<1>6. rc \in [People -> Reviewers]
  BY DEF RecordsOK
<1>7. CASE KeepsGroup(p, role, g, c) /\ rows' = rows /\ pending' = rc
  <2>1. cur # None => CircleOf[cur] = c
    BY <1>7 DEF KeepsGroup
  <2> QED
    BY <1>5, <1>7, <2>1 DEF Moved
<1>8. CASE rows' = [rows EXCEPT ![p] = e] /\ pending' = rc
  <2>1. rows'[p] = e /\ \A q \in People : q # p => rows'[q] = rows[q]
    BY <1>8
  <2>2. rows' \in [People -> Seq(Row)]
    BY <1>1, <1>8
  <2> QED
    BY <1>1, <1>8, <2>1, <2>2 DEF Moved
<1>9. CASE /\ nextBase = "CM"
           /\ g # None => CircleOf[g] = c
           /\ IF target = cur THEN rows' = rows /\ pending' = rc
              ELSE /\ target = None => rc[p] = NoRecord
                   /\ rows' = ms
                   /\ pending' = IF target = None \/ rc[p] = NoRecord THEN rc
                                 ELSE [rc EXCEPT ![p] = Reviewer(ms, ls, p)]
  <2>1. target # None => target \in Groups /\ CircleOf[target] = c
    BY <1>9, TargetIs
  <2>2. CASE target = cur
    <3>1. rows' = rows /\ pending' = rc
      BY <1>9, <2>2
    <3>2. NewestIn(rows[p], c)
      BY <1>5, <2>1, <2>2
    <3> QED
      BY <3>1, <3>2 DEF Moved
  <2>3. CASE target # cur
    <3>1. next \in Seq(Row) /\ NewestIn(next, c)
      BY <1>1, <2>1, JoinedIs
    <3>2. /\ target = None => rc[p] = NoRecord
          /\ rows' = ms
          /\ pending' = IF target = None \/ rc[p] = NoRecord THEN rc
                        ELSE [rc EXCEPT ![p] = Reviewer(ms, ls, p)]
      BY <1>9, <2>3
    <3> HIDE DEF next, target, cur
    <3>3. rows' \in [People -> Seq(Row)] /\ rows'[p] = next /\ \A q \in People : q # p => rows'[q] = rows[q]
      BY <3>1, <3>2
    <3>4. CASE rc[p] = NoRecord
      BY <3>1, <3>2, <3>3, <3>4 DEF Moved
    <3>5. CASE rc[p] # NoRecord
      <4>1. pending' = [rc EXCEPT ![p] = Reviewer(rows', ls, p)]
        BY <3>2, <3>5
      <4>2. pending'[p] = Reviewer(rows', ls, p) /\ \A q \in People : q # p => pending'[q] = rc[q]
        BY <1>6, <4>1
      <4>3. RecordsOK(pending')
        BY <3>3, <4>1, SentIs
      <4> QED
        BY <3>1, <3>3, <4>2, <4>3 DEF Moved
    <3> QED
      BY <3>4, <3>5
  <2> QED
    BY <2>2, <2>3
<1> QED
  BY <1>4, <1>7, <1>8, <1>9

\* Leaderships end in place.
LEMMA RelinquishedIs ==
    ASSUME leads \in [Groups -> Seq(Lead)], NEW p, NEW role, NEW nextBase
    PROVE  /\ Relinquished(p, role, nextBase) \in [Groups -> Seq(Lead)]
           /\ \A g \in Groups : Len(Relinquished(p, role, nextBase)[g]) = Len(leads[g])
<1>1. PICK gone : Relinquished(p, role, nextBase) = [g \in Groups |-> Off(leads[g], gone[g])]
  <2> DEFINE Keeps(type) == IF type = "formal" THEN nextBase = "SUPERVISOR" ELSE role = "TA_SUPERVISOR"
             Gone(g) == {i \in {RowOf(leads, g, type) : type \in {t \in Types : ~Keeps(t)}} :
                             i # 0 /\ leads[g][i].who = p}
             gone == [g \in Groups |-> Gone(g)]
  <2>1. Relinquished(p, role, nextBase) = [g \in Groups |-> Off(leads[g], Gone(g))]
    BY DEF Relinquished
  <2>2. \A g \in Groups : gone[g] = Gone(g)
    OBVIOUS
  <2> HIDE DEF Gone
  <2>3. Relinquished(p, role, nextBase) = [g \in Groups |-> Off(leads[g], gone[g])]
    BY <2>1, <2>2
  <2> QED
    BY <2>3
<1>2. ASSUME NEW g \in Groups
      PROVE  Off(leads[g], gone[g]) \in Seq(Lead) /\ Len(Off(leads[g], gone[g])) = Len(leads[g])
  <2>1. leads[g] \in Seq(Lead)
    OBVIOUS
  <2> QED
    BY <2>1, LeadsOff
<1> QED
  BY <1>1, <1>2

\* What an edit does, its leaderships first.
LEMMA EditIs ==
    ASSUME Typed, InCircles, NEW p \in People, NEW role \in Base \cup Duties,
           NEW until \in 1 .. Forever, NEW c \in Circles, NEW g \in Groups \cup {None},
           Edit(p, role, until, c, g)
    PROVE  /\ LeadsOK'
           /\ rows' \in [People -> Seq(Row)] /\ RecordsOK(pending')
           /\ Moved(p, leads', Synced(pending, rows, leads', {x \in Groups : leads'[x] # leads[x]}))
           /\ NewestIn(rows'[p], c)
<1> DEFINE changed == role # RoleAt(p)
           nextBase == BaseAfter(p, role)
           ls == IF changed THEN Relinquished(p, role, nextBase) ELSE leads
           rc == Synced(pending, rows, ls, {x \in Groups : ls[x] # leads[x]})
<1>1. rows \in [People -> Seq(Row)] /\ leads \in [Groups -> Seq(Lead)] /\ RecordsOK(pending)
      /\ \A x \in Groups : Len(leads[x]) <= MaxRows
  BY DEF Typed, RowsOK, LeadsOK
<1>2. leads' = ls /\ Regroup(p, role, nextBase, g, c, ls, rc)
  BY DEF Edit
<1>3. ls \in [Groups -> Seq(Lead)] /\ \A x \in Groups : Len(ls[x]) <= MaxRows
  BY <1>1, RelinquishedIs
<1>4. RecordsOK(rc)
  <2> HIDE DEF ls
  <2> QED
    BY <1>1, <1>3, SyncedIs
<1> HIDE DEF ls, rc, nextBase
<1>5. /\ rows' \in [People -> Seq(Row)] /\ RecordsOK(pending')
      /\ Moved(p, ls, rc)
      /\ NewestIn(rows'[p], c)
  BY <1>1, <1>2, <1>3, <1>4, RegroupIs
<1>6. rc = Synced(pending, rows, leads', {x \in Groups : leads'[x] # leads[x]})
  BY <1>2, Zenon DEF rc
<1> QED
  BY <1>2, <1>3, <1>5, <1>6 DEF LeadsOK

LEMMA EditKept ==
    ASSUME IInv, NEW p \in People, NEW role \in Base \cup Duties,
           NEW until \in 1 .. Forever, NEW c \in Circles, NEW g \in Groups \cup {None},
           Edit(p, role, until, c, g)
    PROVE  IInv'
<1>1. Typed /\ InCircles /\ ScopeEnds
  BY DEF IInv
<1>2. /\ LeadsOK'
      /\ rows' \in [People -> Seq(Row)] /\ RecordsOK(pending')
      /\ Moved(p, leads', Synced(pending, rows, leads', {x \in Groups : leads'[x] # leads[x]}))
      /\ NewestIn(rows'[p], c)
  BY <1>1, EditIs
<1>3. /\ edits < MaxEdits /\ edits' = edits + 1
      /\ role \in Duties /\ role # RoleAt(p) => base[p] = DutyBase(role)
      /\ until >= today
      /\ circle' = [circle EXCEPT ![p] = c]
      /\ base' = [base EXCEPT ![p] = BaseAfter(p, role)]
      /\ duty' = [duty EXCEPT ![p] = DutyAfter(p, role, until)]
      /\ scope' = [scope EXCEPT ![p] = ScopeFor(role, c)]
      /\ \A q \in People : Len(rows'[q]) <= MaxRows
      /\ UNCHANGED <<today, status, request, thread, calls>>
  BY DEF Edit
<1>4. PeopleOK'
  <2>1. BaseAfter(p, role) \in Base
    BY <1>1 DEF BaseAfter, Typed, PeopleOK
  <2>2. DutyAfter(p, role, until) \in [code : Duties \cup {"none"}, until : 0..Forever]
    BY <1>1, BoundsAssumption DEF DutyAfter, NoDuty, Typed, PeopleOK, Forever
  <2>3. ScopeFor(role, c) \in SUBSET Circles
    BY DEF ScopeFor
  <2> QED
    BY <1>1, <1>3, <2>1, <2>2, <2>3 DEF Typed, PeopleOK
<1>5. RowsOK'
  BY <1>2, <1>3 DEF RowsOK
<1>6. RequestsOK' /\ ThreadsOK'
  BY <1>1, <1>3 DEF Typed, RequestsOK, ThreadsOK
<1>7. CountsOK'
  BY <1>1, <1>3, BoundsAssumption DEF Typed, CountsOK
<1>8. InCircles'
  <2> SUFFICES ASSUME NEW q \in People PROVE NewestIn(rows'[q], circle'[q])
    BY DEF InCircles, NewestIn
  <2>1. CASE q = p
    BY <1>1, <1>2, <1>3, <2>1 DEF Typed, PeopleOK
  <2>2. CASE q # p
    <3>1. rows'[q] = rows[q] /\ circle'[q] = circle[q]
      BY <1>1, <1>2, <1>3, <2>2 DEF Moved, Typed, PeopleOK
    <3> QED
      BY <1>1, <3>1, Zenon DEF InCircles
  <2> QED
    BY <2>1, <2>2
<1>9. ScopeEnds'
  <2> SUFFICES ASSUME NEW q \in People, scope'[q] # {} PROVE duty'[q].code = "TA_GSM"
    BY DEF ScopeEnds
  <2>1. CASE q = p
    BY <1>1, <1>3, <2>1 DEF ScopeFor, DutyAfter, Duties, Typed, PeopleOK
  <2>2. CASE q # p
    BY <1>1, <1>3, <2>2 DEF ScopeEnds, Typed, PeopleOK
  <2> QED
    BY <2>1, <2>2
<1> QED
  BY <1>2, <1>4, <1>5, <1>6, <1>7, <1>8, <1>9 DEF IInv, Typed, RecordsOK
-----------------------------------------------------------------------------
(* The other steps keep the invariant. *)

LEMMA SweepKept == ASSUME IInv, Sweep PROVE IInv'
<1> DEFINE ls == [g \in Groups |-> Off(leads[g], Lapsed(g))]
<1>1. Typed /\ InCircles /\ ScopeEnds
  BY DEF IInv
<1>2. PICK gone : pending' = [p \in People |-> IF pending[p] \in gone THEN None ELSE pending[p]]
  BY DEF Sweep
<1>3. /\ duty' = [p \in People |-> IF p \in Expired THEN NoDuty ELSE duty[p]]
      /\ scope' = [p \in People |-> IF p \in Expired THEN ScopeAfter(p) ELSE scope[p]]
      /\ leads' = ls
      /\ status' = [g \in Groups |-> IF Lapsed(g) # {} /\ Runs(ls, g) = None
                                     THEN "pending_takeover" ELSE status[g]]
      /\ UNCHANGED <<today, base, circle, rows, request, thread, edits, calls>>
  BY DEF Sweep
<1>4. NoDuty \in [code : Duties \cup {"none"}, until : 0..Forever]
  BY BoundsAssumption DEF NoDuty, Forever
<1>5. \A p \in People : ScopeAfter(p) = {}
  BY <1>1 DEF ScopeAfter, ScopeFor, Base, Typed, PeopleOK
<1>6. PeopleOK'
  BY <1>1, <1>3, <1>4, <1>5 DEF Typed, PeopleOK
<1>7. LeadsOK'
  <2>1. ASSUME NEW g \in Groups
        PROVE  Off(leads[g], Lapsed(g)) \in Seq(Lead) /\ Len(Off(leads[g], Lapsed(g))) <= MaxRows
    <3>1. leads[g] \in Seq(Lead) /\ Len(leads[g]) <= MaxRows
      BY <1>1 DEF Typed, LeadsOK
    <3>2. Off(leads[g], Lapsed(g)) \in Seq(Lead) /\ Len(Off(leads[g], Lapsed(g))) = Len(leads[g])
      BY <3>1, LeadsOff
    <3> QED
      BY <3>1, <3>2
  <2> QED
    BY <1>3, <2>1 DEF LeadsOK
<1>8. RecordsOK(pending')
  <2>1. \A p \in People : None # p
    BY NamesAssumption
  <2> QED
    BY <1>1, <1>2, <2>1 DEF Typed, RecordsOK, Reviewers, Someone
<1>9. RequestsOK'
  <2> HIDE DEF ls
  <2> QED
    BY <1>1, <1>3 DEF Typed, RequestsOK
<1>10. RowsOK' /\ ThreadsOK' /\ CountsOK'
  BY <1>1, <1>3 DEF Typed, RowsOK, ThreadsOK, CountsOK
<1>11. InCircles'
  BY <1>1, <1>3 DEF InCircles, NewestIn
<1>12. ScopeEnds'
  BY <1>1, <1>3, <1>5 DEF ScopeEnds
<1> QED
  BY <1>6, <1>7, <1>8, <1>9, <1>10, <1>11, <1>12 DEF IInv, Typed, RecordsOK

\* Steps that leave people, memberships and leaders alone.
LEMMA RestKept ==
    ASSUME IInv, UNCHANGED <<person, rows, leads, scope>>,
           RecordsOK(pending'), RequestsOK', ThreadsOK', CountsOK'
    PROVE  IInv'
<1>1. PeopleOK' /\ RowsOK' /\ LeadsOK' /\ InCircles' /\ ScopeEnds'
  BY DEF person, IInv, Typed, PeopleOK, RowsOK, LeadsOK, InCircles, NewestIn, ScopeEnds
<1> QED
  BY <1>1 DEF IInv, Typed, RecordsOK

LEMMA PlanKept ==
    ASSUME IInv, NEW t \in Threads, NEW r \in Plans, r.op = "submit" => r.reviewer # r.who, Plan(t, r)
    PROVE  IInv'
<1>1. /\ UNCHANGED <<today, person, rows, leads, status, pending, request, scope, edits>>
      /\ thread' = [thread EXCEPT ![t] = r]
      /\ calls < MaxCalls /\ calls' = calls + 1
  BY DEF Plan
<1>2. RecordsOK(pending') /\ RequestsOK'
  BY <1>1 DEF IInv, Typed, RecordsOK, RequestsOK
<1>3. CountsOK'
  BY <1>1, BoundsAssumption DEF IInv, Typed, CountsOK
<1>4. ThreadsOK'
  <2>1. thread \in [Threads -> Plans]
    BY DEF IInv, Typed, ThreadsOK
  <2>2. thread' \in [Threads -> Plans] /\ thread'[t] = r /\ \A x \in Threads \ {t} : thread'[x] = thread[x]
    BY <1>1, <2>1
  <2> QED
    BY <2>2 DEF IInv, Typed, ThreadsOK
<1> QED
  BY <1>1, <1>2, <1>3, <1>4, RestKept

LEMMA PlansKept ==
    ASSUME IInv, NEW t \in Threads,
           \/ \E g \in Groups, plan \in [Types -> Someone] : PlanLeaders(t, g, plan)
           \/ \E g \in Groups : PlanClose(t, g)
           \/ \E p \in People : PlanDecline(t, p)
           \/ \E p \in People, g \in Groups : PlanAccept(t, p, g)
           \/ \E p \in People : PlanSubmit(t, p)
    PROVE  IInv'
<1>1. /\ rows \in [People -> Seq(Row)] /\ leads \in [Groups -> Seq(Lead)]
      /\ \A p \in People : Len(rows[p]) <= MaxRows
      /\ \A g \in Groups : Len(leads[g]) <= MaxRows
      /\ status \in [Groups -> {"active", "pending_takeover", "closed"}]
      /\ MaxRows \in Nat
  BY BoundsAssumption DEF IInv, Typed, RowsOK, LeadsOK, RequestsOK
<1>2. \A p \in People : ActiveIds(rows[p]) \subseteq 1 .. MaxRows
  <2> SUFFICES ASSUME NEW p \in People PROVE ActiveIds(rows[p]) \subseteq 1 .. MaxRows
    OBVIOUS
  <2>1. rows[p] \in Seq(Row) /\ Len(rows[p]) <= MaxRows
    BY <1>1
  <2>2. ActiveIds(rows[p]) \subseteq 1 .. Len(rows[p]) /\ Len(rows[p]) \in Nat
    BY <2>1, ActiveRows
  <2> QED
    BY <1>1, <2>1, <2>2
<1>3. \A g \in Groups : ActiveIds(leads[g]) \subseteq 1 .. MaxRows
  <2> SUFFICES ASSUME NEW g \in Groups PROVE ActiveIds(leads[g]) \subseteq 1 .. MaxRows
    OBVIOUS
  <2>1. leads[g] \in Seq(Lead) /\ Len(leads[g]) <= MaxRows
    BY <1>1
  <2>2. ActiveIds(leads[g]) \subseteq 1 .. Len(leads[g]) /\ Len(leads[g]) \in Nat
    BY <2>1, ActiveLeads
  <2> QED
    BY <1>1, <2>1, <2>2
<1>4. ASSUME NEW g \in Groups, NEW plan \in [Types -> Someone], PlanLeaders(t, g, plan) PROVE IInv'
  <2> DEFINE changes == {type \in Types : plan[type] # LeaderOf(leads, g, type)}
             old == {RowOf(leads, g, type) : type \in changes}
             new == [type \in Types |-> IF type \in changes THEN plan[type] ELSE None]
             r == [op |-> "leaders", group |-> g, was |-> status[g], old |-> old, new |-> new]
  <2>1. status[g] # "closed" /\ Plan(t, r)
    BY <1>4 DEF PlanLeaders
  <2>2. old \subseteq 0 .. MaxRows
    <3>1. \A type \in Types : RowOf(leads, g, type) \in 0 .. Len(leads[g])
      BY <1>1, LeaderIs
    <3>2. leads[g] \in Seq(Lead) /\ Len(leads[g]) <= MaxRows
      BY <1>1
    <3>3. Len(leads[g]) \in Nat
      BY <3>2
    <3>4. \A type \in Types : RowOf(leads, g, type) \in 0 .. MaxRows
      BY <1>1, <3>1, <3>2, <3>3
    <3> QED
      BY <3>4
  <2>3. new \in [Types -> Someone]
    BY DEF Someone
  <2>4. status[g] \in {"active", "pending_takeover"}
    BY <1>1, <2>1
  <2> HIDE DEF old, new
  <2>5. r \in Plans /\ r.op # "submit"
    BY <2>2, <2>3, <2>4 DEF Plans, Someone
  <2> HIDE DEF r
  <2> QED
    BY <2>1, <2>5, PlanKept
<1>5. ASSUME NEW g \in Groups, PlanClose(t, g) PROVE IInv'
  <2> DEFINE r == [op |-> "close", group |-> g, old |-> ActiveIds(leads[g])]
  <2>1. Plan(t, r)
    BY <1>5 DEF PlanClose
  <2>2. r \in Plans /\ r.op # "submit"
    BY <1>3 DEF Plans
  <2> HIDE DEF r
  <2> QED
    BY <2>1, <2>2, PlanKept
<1>6. ASSUME NEW p \in People, PlanDecline(t, p) PROVE IInv'
  <2> DEFINE r == [op |-> "decline", who |-> p]
  <2>1. Plan(t, r)
    BY <1>6 DEF PlanDecline
  <2>2. r \in Plans /\ r.op # "submit"
    BY DEF Plans
  <2> HIDE DEF r
  <2> QED
    BY <2>1, <2>2, PlanKept
<1>7. ASSUME NEW p \in People, NEW g \in Groups, PlanAccept(t, p, g) PROVE IInv'
  <2> DEFINE r == [op |-> "accept", who |-> p, group |-> g, old |-> ActiveIds(rows[p])]
  <2>1. Plan(t, r)
    BY <1>7 DEF PlanAccept
  <2>2. r \in Plans /\ r.op # "submit"
    BY <1>2 DEF Plans
  <2> HIDE DEF r
  <2> QED
    BY <2>1, <2>2, PlanKept
<1>8. ASSUME NEW p \in People, PlanSubmit(t, p) PROVE IInv'
  <2> DEFINE l == Reviewer(rows, leads, p)
             r == [op |-> "submit", who |-> p, reviewer |-> l]
  <2>1. Plan(t, r)
    BY <1>8 DEF PlanSubmit
  <2>2. l \in Someone /\ l # p
    BY <1>1, ReviewerIs
  <2> HIDE DEF l
  <2>3. r \in Plans /\ r.reviewer # r.who
    BY <2>2 DEF Plans, Someone
  <2> HIDE DEF r
  <2> QED
    BY <2>1, <2>3, PlanKept
<1> QED
  BY <1>4, <1>5, <1>6, <1>7, <1>8

\* A request that ends has read nothing any more.
LEMMA Ended ==
    ASSUME Typed, NEW t \in Threads, NEW op, Commits(t, op)
    PROVE  ThreadsOK' /\ thread[t] \in Plans /\ thread[t].op = op
<1>1. thread \in [Threads -> Plans] /\ [op |-> "idle"] \in Plans
  BY DEF Typed, ThreadsOK, Plans
<1>2. thread[t].op = op /\ thread' = [thread EXCEPT ![t] = [op |-> "idle"]]
  BY DEF Commits
<1>3. thread' \in [Threads -> Plans] /\ thread'[t].op = "idle" /\ \A x \in Threads \ {t} : thread'[x] = thread[x]
  BY <1>1, <1>2
<1> QED
  BY <1>1, <1>2, <1>3 DEF Typed, ThreadsOK

\* What is saved of a group's leaders: those read are ended, those named are added.
LEMMA CommitLeadersIs ==
    ASSUME Typed, NEW t \in Threads, CommitLeaders(t)
    PROVE  /\ LeadsOK' /\ RecordsOK(pending')
           /\ thread[t].group \in Groups
           /\ \A g \in Groups : g # thread[t].group => leads'[g] = leads[g]
           /\ pending' = Synced(pending, rows, leads', {thread[t].group})
<1> DEFINE r == thread[t]
           g == r.group
           Named(type) == IF r.new[type] = None THEN <<>>
                          ELSE <<[type |-> type, who |-> r.new[type], active |-> TRUE]>>
           s == Off(leads[g], r.old) \o Named("formal") \o Named("acting")
           ls == [leads EXCEPT ![g] = Off(@, r.old) \o Named("formal") \o Named("acting")]
<1>1. /\ Commits(t, "leaders") /\ Len(ls[g]) <= MaxRows
      /\ leads' = ls /\ pending' = Synced(pending, rows, ls, {g})
  BY DEF CommitLeaders
<1>2. r \in Plans /\ r.op = "leaders"
  BY <1>1, Ended
<1>3. g \in Groups /\ r.new \in [Types -> Someone]
  BY <1>2 DEF Plans, Someone
<1>4. /\ rows \in [People -> Seq(Row)] /\ leads \in [Groups -> Seq(Lead)] /\ RecordsOK(pending)
      /\ \A x \in Groups : Len(leads[x]) <= MaxRows
  BY DEF Typed, RowsOK, LeadsOK
<1>5. \A type \in Types : Named(type) \in Seq(Lead)
  <2> SUFFICES ASSUME NEW type \in Types PROVE Named(type) \in Seq(Lead)
    OBVIOUS
  <2> DEFINE l == [type |-> type, who |-> r.new[type], active |-> TRUE]
  <2>1. r.new[type] # None => l \in Lead
    BY <1>3 DEF Lead, Someone
  <2> HIDE DEF l, r
  <2>2. r.new[type] # None => <<l>> \in Seq(Lead)
    BY <2>1
  <2> QED
    BY <2>2 DEF l
<1>6. Off(leads[g], r.old) \in Seq(Lead)
  <2>1. leads[g] \in Seq(Lead)
    BY <1>3, <1>4
  <2> QED
    BY <2>1, LeadsOff
<1>7. s \in Seq(Lead)
  <2>1. Named("formal") \in Seq(Lead) /\ Named("acting") \in Seq(Lead)
    BY <1>5 DEF Types
  <2> HIDE DEF Named, r, g
  <2> QED
    BY <1>6, <2>1
<1>8. ls = [leads EXCEPT ![g] = s]
  OBVIOUS
<1> HIDE DEF s, ls, g, Named, r
<1>9. /\ ls \in [Groups -> Seq(Lead)] /\ ls[g] = s
      /\ \A x \in Groups : x # g => ls[x] = leads[x]
  BY <1>3, <1>4, <1>7, <1>8
<1>10. \A x \in Groups : Len(ls[x]) <= MaxRows
  BY <1>1, <1>4, <1>9
<1>11. RecordsOK(pending')
  BY <1>1, <1>4, <1>9, SyncedIs
<1> QED
  BY <1>1, <1>3, <1>9, <1>10, <1>11 DEF LeadsOK, g, r

LEMMA CommitLeadersKept == ASSUME IInv, NEW t \in Threads, CommitLeaders(t) PROVE IInv'
<1>1. Typed /\ InCircles /\ ScopeEnds
  BY DEF IInv
<1>2. LeadsOK' /\ RecordsOK(pending') /\ thread[t].group \in Groups
  BY <1>1, CommitLeadersIs
<1>3. /\ Commits(t, "leaders")
      /\ \/ status' = [status EXCEPT ![thread[t].group] = "active"]
         \/ status' = status
      /\ UNCHANGED <<today, person, rows, request, scope, edits, calls>>
  BY DEF CommitLeaders
<1>4. ThreadsOK'
  BY <1>1, <1>3, Ended
<1>5. RequestsOK'
  BY <1>1, <1>2, <1>3 DEF Typed, RequestsOK
<1>6. PeopleOK' /\ RowsOK' /\ CountsOK' /\ InCircles' /\ ScopeEnds'
  BY <1>1, <1>3 DEF person, Typed, PeopleOK, RowsOK, CountsOK, InCircles, NewestIn, ScopeEnds
<1> QED
  BY <1>2, <1>4, <1>5, <1>6 DEF IInv, Typed, RecordsOK

LEMMA CommitCloseKept == ASSUME IInv, NEW t \in Threads, CommitClose(t) PROVE IInv'
<1> DEFINE g == thread[t].group
           old == thread[t].old
<1>1. Typed /\ InCircles /\ ScopeEnds
  BY DEF IInv
<1>2. /\ Commits(t, "close")
      /\ leads' = [leads EXCEPT ![g] = Off(@, old)]
      /\ status' = [status EXCEPT ![g] = "closed"]
      /\ UNCHANGED <<today, person, rows, pending, request, scope, edits, calls>>
  BY DEF CommitClose
<1>3. ThreadsOK' /\ thread[t] \in Plans /\ thread[t].op = "close"
  BY <1>1, <1>2, Ended
<1>4. g \in Groups
  BY <1>3 DEF Plans
<1>5. LeadsOK'
  <2>1. leads \in [Groups -> Seq(Lead)] /\ \A x \in Groups : Len(leads[x]) <= MaxRows
    BY <1>1 DEF Typed, LeadsOK
  <2>2. leads[g] \in Seq(Lead)
    BY <1>4, <2>1
  <2>3. Off(leads[g], old) \in Seq(Lead) /\ Len(Off(leads[g], old)) = Len(leads[g])
    BY <2>2, LeadsOff
  <2> HIDE DEF g, old
  <2> QED
    BY <1>2, <1>4, <2>1, <2>3 DEF LeadsOK
<1>6. RequestsOK'
  BY <1>1, <1>2, <1>4 DEF Typed, RequestsOK
<1>7. PeopleOK' /\ RowsOK' /\ CountsOK' /\ InCircles' /\ ScopeEnds' /\ RecordsOK(pending')
  BY <1>1, <1>2 DEF person, Typed, PeopleOK, RowsOK, CountsOK, InCircles, NewestIn, ScopeEnds, RecordsOK
<1> QED
  BY <1>3, <1>5, <1>6, <1>7 DEF IInv, Typed, RecordsOK

LEMMA CommitAcceptKept == ASSUME IInv, NEW t \in Threads, CommitAccept(t) PROVE IInv'
<1> DEFINE p == thread[t].who
           g == thread[t].group
           next == MovesTo(rows[p], thread[t].old, g)
           ms == [rows EXCEPT ![p] = MovesTo(@, thread[t].old, g)]
<1>1. Typed /\ InCircles /\ ScopeEnds
  BY DEF IInv
<1>2. /\ Commits(t, "accept")
      /\ Len(ms[p]) <= MaxRows
      /\ rows' = ms
      /\ circle' = [circle EXCEPT ![p] = CircleOf[g]]
      /\ pending' = IF pending[p] = NoRecord THEN pending
                    ELSE [pending EXCEPT ![p] = Reviewer(ms, leads, p)]
      /\ request' = [request EXCEPT ![p] = Over]
      /\ UNCHANGED <<today, base, duty, leads, status, scope, edits, calls>>
  BY DEF CommitAccept
<1>3. ThreadsOK' /\ thread[t] \in Plans /\ thread[t].op = "accept"
  BY <1>1, <1>2, Ended
<1>4. p \in People /\ g \in Groups
  BY <1>3 DEF Plans
<1>5. /\ rows \in [People -> Seq(Row)] /\ leads \in [Groups -> Seq(Lead)] /\ RecordsOK(pending)
      /\ \A q \in People : Len(rows[q]) <= MaxRows
  BY <1>1 DEF Typed, RowsOK, LeadsOK
<1>6. next \in Seq(Row) /\ NewestIn(next, CircleOf[g])
  <2>1. rows[p] \in Seq(Row)
    BY <1>4, <1>5
  <2>2. Off(rows[p], thread[t].old) \in Seq(Row)
    BY <2>1, RowsOff
  <2> QED
    BY <1>4, <2>2, JoinedIs DEF MovesTo
<1>7. ms = [rows EXCEPT ![p] = next]
  OBVIOUS
<1> HIDE DEF p, g, next, ms
<1>8. ms \in [People -> Seq(Row)] /\ ms[p] = next /\ \A q \in People : q # p => ms[q] = rows[q]
  BY <1>4, <1>5, <1>6, <1>7
<1>9. RowsOK'
  BY <1>2, <1>5, <1>8 DEF RowsOK
<1>10. RecordsOK(pending')
  <2>1. CASE pending[p] = NoRecord
    BY <1>2, <1>5, <2>1
  <2>2. CASE pending[p] # NoRecord
    BY <1>2, <1>4, <1>5, <1>8, <2>2, SentIs
  <2> QED
    BY <2>1, <2>2
<1>11. PeopleOK'
  <2>1. CircleOf[g] \in Circles
    BY <1>4, StartAssumption
  <2> QED
    BY <1>1, <1>2, <2>1 DEF Typed, PeopleOK
<1>12. InCircles'
  <2> SUFFICES ASSUME NEW q \in People PROVE NewestIn(rows'[q], circle'[q])
    BY DEF InCircles, NewestIn
  <2>1. CASE q = p
    BY <1>1, <1>2, <1>6, <1>8, <2>1 DEF Typed, PeopleOK
  <2>2. CASE q # p
    <3>1. rows'[q] = rows[q] /\ circle'[q] = circle[q]
      BY <1>1, <1>2, <1>8, <2>2 DEF Typed, PeopleOK
    <3> QED
      BY <1>1, <3>1, Zenon DEF InCircles
  <2> QED
    BY <2>1, <2>2
<1>13. RequestsOK'
  BY <1>1, <1>2 DEF Typed, RequestsOK, Over
<1>14. LeadsOK' /\ CountsOK' /\ ScopeEnds'
  BY <1>1, <1>2 DEF Typed, LeadsOK, CountsOK, ScopeEnds
<1> QED
  BY <1>3, <1>9, <1>10, <1>11, <1>12, <1>13, <1>14 DEF IInv, Typed, RecordsOK

LEMMA SmallStepsKept ==
    ASSUME IInv,
           \/ NextDay
           \/ \E p \in People, c \in Circles : Ask(p, c)
           \/ \E t \in Threads : CommitDecline(t) \/ CommitSubmit(t)
           \/ \E l, p \in People : Review(l, p)
    PROVE  IInv'
<1>1. /\ Typed /\ RecordsOK(pending) /\ RequestsOK /\ ThreadsOK /\ CountsOK
      /\ NoRecord \notin People
  BY NamesAssumption DEF IInv, Typed
<1>2. CASE NextDay
  <2>1. RecordsOK(pending') /\ RequestsOK' /\ ThreadsOK' /\ CountsOK'
    BY <1>1, <1>2, BoundsAssumption DEF NextDay, RecordsOK, RequestsOK, ThreadsOK, CountsOK
  <2> QED
    BY <1>2, <2>1, RestKept DEF NextDay
<1>3. ASSUME NEW p \in People, NEW c \in Circles, Ask(p, c) PROVE IInv'
  <2>1. circle[p] \in Circles
    BY <1>1 DEF Typed, PeopleOK
  <2>2. RecordsOK(pending') /\ RequestsOK' /\ ThreadsOK' /\ CountsOK'
    BY <1>1, <1>3, <2>1, BoundsAssumption DEF Ask, RecordsOK, RequestsOK, ThreadsOK, CountsOK
  <2> QED
    BY <1>3, <2>2, RestKept DEF Ask
<1>4. ASSUME NEW t \in Threads, CommitDecline(t) PROVE IInv'
  <2>1. ThreadsOK'
    BY <1>1, <1>4, Ended DEF CommitDecline
  <2>2. RecordsOK(pending') /\ RequestsOK' /\ CountsOK'
    BY <1>1, <1>4 DEF CommitDecline, RecordsOK, RequestsOK, CountsOK, Over
  <2> QED
    BY <1>4, <2>1, <2>2, RestKept DEF CommitDecline
<1>5. ASSUME NEW t \in Threads, CommitSubmit(t) PROVE IInv'
  <2>1. ThreadsOK' /\ thread[t] \in Plans /\ thread[t].op = "submit"
    BY <1>1, <1>5, Ended DEF CommitSubmit
  <2>2. thread[t].who \in People /\ thread[t].reviewer \in Reviewers
    BY <2>1 DEF Plans, Reviewers, Someone
  <2>3. thread[t].reviewer # thread[t].who
    BY <1>1, <2>1 DEF ThreadsOK
  <2>4. RecordsOK(pending')
    BY <1>1, <1>5, <2>2, <2>3 DEF CommitSubmit, RecordsOK
  <2>5. RequestsOK' /\ CountsOK'
    BY <1>1, <1>5 DEF CommitSubmit, RequestsOK, CountsOK
  <2> QED
    BY <1>5, <2>1, <2>4, <2>5, RestKept DEF CommitSubmit
<1>6. ASSUME NEW l \in People, NEW p \in People, Review(l, p) PROVE IInv'
  <2>1. RecordsOK(pending') /\ RequestsOK' /\ ThreadsOK' /\ CountsOK'
    BY <1>1, <1>6 DEF Review, RecordsOK, Reviewers, RequestsOK, ThreadsOK, CountsOK
  <2> QED
    BY <1>6, <2>1, RestKept DEF Review
<1> QED
  BY <1>2, <1>3, <1>4, <1>5, <1>6

LEMMA Kept == IInv /\ [Next]_vars => IInv'
<1> SUFFICES ASSUME IInv, [Next]_vars PROVE IInv'
  OBVIOUS
<1>1. CASE Next
  <2>1. CASE Sweep
    BY <2>1, SweepKept
  <2>2. ASSUME NEW p \in People, NEW role \in Base \cup Duties, NEW until \in 1..Forever,
               NEW c \in Circles, NEW g \in Groups \cup {None}, Edit(p, role, until, c, g)
        PROVE  IInv'
    BY <2>2, EditKept
  <2>3. ASSUME NEW t \in Threads, CommitLeaders(t) \/ CommitClose(t) \/ CommitAccept(t) PROVE IInv'
    BY <2>3, CommitLeadersKept, CommitCloseKept, CommitAcceptKept
  <2> QED
    BY <1>1, <2>1, <2>2, <2>3, PlansKept, SmallStepsKept DEF Next, Someone
<1>2. CASE UNCHANGED vars
  <2>1. RecordsOK(pending') /\ RequestsOK' /\ ThreadsOK' /\ CountsOK'
    BY <1>2 DEF vars, IInv, Typed, RecordsOK, RequestsOK, ThreadsOK, CountsOK
  <2> QED
    BY <1>2, <2>1, RestKept DEF vars
<1> QED
  BY <1>1, <1>2

\* Types, groups within circles, reviewers the lists and the records agree on, and
\* scopes that end with their duty, at every moment of the organization
\* (services/organization.py, services/employee_groups.py).
THEOREM GroupsStayKept == Spec => []GroupsKept
<1>1. IInv => GroupsKept
  <2> SUFFICES ASSUME IInv PROVE GroupsKept
    OBVIOUS
  <2>1. rows \in [People -> Seq(Row)] /\ leads \in [Groups -> Seq(Lead)]
    BY DEF IInv, Typed, RowsOK, LeadsOK
  <2> QED
    BY <2>1, TypedTold, CirclesTold, Agreement DEF IInv, GroupsKept
<1> QED
  BY <1>1, Start, Kept, PTL DEF Spec
-----------------------------------------------------------------------------
(* Handing over. *)

\* The step ends l's leadership of g, which stays open.
Leaves(g, l) ==
    /\ \E type \in Types : Assigned(leads, g, type, l)
    /\ \A type \in Types : ~Assigned(leads', g, type, l)
    /\ status'[g] # "closed"
HandsOver(g, l) ==
    \A p \in Members(rows', g) :
        pending'[p] = l => Reviewer(rows', leads', p) = l \/ Overtaken(rows', p)

\* A record that was sent to its reviewer, of somebody whose rows are the same.
LEMMA SentOn ==
    ASSUME NEW p \in People, NEW g \in Groups, NEW gs, g \in gs, NEW l \in People,
           p \in Members(rows, g), rows'[p] = rows[p],
           pending'[p] = Synced(pending, rows, leads', gs)[p], pending'[p] = l
    PROVE  Reviewer(rows', leads', p) = l
<1>1. Synced(pending, rows, leads', gs)[p] = IF pending[p] # NoRecord /\ \E x \in gs : p \in Members(rows, x)
                                          THEN Reviewer(rows, leads', p) ELSE pending[p]
  BY DEF Synced
<1>2. l # NoRecord
  BY NamesAssumption
<1>3. Reviewer(rows, leads', p) = l
  BY <1>1, <1>2
<1>4. Reviewer(rows', leads', p) = Reviewer(rows, leads', p)
  BY SameReviewer
<1> QED
  BY <1>3, <1>4

LEMMA EditHands ==
    ASSUME Typed, InCircles, NEW p \in People, NEW role \in Base \cup Duties,
           NEW until \in 1 .. Forever, NEW c \in Circles, NEW h \in Groups \cup {None},
           Edit(p, role, until, c, h),
           NEW g \in Groups, NEW l \in People, Leaves(g, l)
    PROVE  HandsOver(g, l)
<1> DEFINE gs == {x \in Groups : leads'[x] # leads[x]}
           rc == Synced(pending, rows, leads', gs)
<1>1. /\ rows' \in [People -> Seq(Row)]
      /\ Moved(p, leads', rc)
  BY EditIs
<1>2. rows \in [People -> Seq(Row)]
  BY DEF Typed, RowsOK
<1>3. g \in gs
  BY Zenon DEF Leaves, Assigned
<1> SUFFICES ASSUME NEW q \in People, q \in Members(rows', g), pending'[q] = l
             PROVE  Reviewer(rows', leads', q) = l \/ Overtaken(rows', q)
  BY DEF HandsOver, Members
<1> HIDE DEF gs
<1>4. ASSUME rows'[q] = rows[q], pending'[q] = rc[q] PROVE Reviewer(rows', leads', q) = l
  <2>1. q \in Members(rows, g)
    <3>1. q \in Members(rows', g) <=> \E i \in ActiveIds(rows'[q]) : rows'[q][i].group = g
      BY <1>1, MemberIs
    <3>2. q \in Members(rows, g) <=> \E i \in ActiveIds(rows[q]) : rows[q][i].group = g
      BY <1>2, MemberIs
    <3> QED
      BY <1>4, <3>1, <3>2, Zenon
  <2> QED
    BY <1>3, <1>4, <2>1, SentOn
<1>5. CASE q # p
  BY <1>1, <1>4, <1>5 DEF Moved
<1>6. CASE q = p
  <2>1. CASE rows'[p] = rows[p] /\ pending'[p] = rc[p]
    BY <1>4, <1>6, <2>1
  <2>2. CASE rows'[p] = EndCurrent(p)
    <3>1. PICK i \in ActiveIds(rows'[p]) : rows'[p][i].group = g
      BY <1>1, <1>6, MemberIs
    <3>2. i # Len(rows'[p])
      BY <1>2, <2>2, <3>1, EndCurrentIs
    <3> QED
      BY <1>6, <3>1, <3>2 DEF Overtaken
  <2>3. CASE pending'[p] = NoRecord
    BY <1>6, <2>3, NamesAssumption
  <2>4. CASE pending'[p] = Reviewer(rows', leads', p)
    BY <1>6, <2>4
  <2> QED
    BY <1>1, <2>1, <2>2, <2>3, <2>4 DEF Moved
<1> QED
  BY <1>5, <1>6

LEMMA LeadersHand ==
    ASSUME Typed, NEW t \in Threads, CommitLeaders(t),
           NEW g \in Groups, NEW l \in People, Leaves(g, l)
    PROVE  HandsOver(g, l)
<1>1. /\ \A x \in Groups : x # thread[t].group => leads'[x] = leads[x]
      /\ pending' = Synced(pending, rows, leads', {thread[t].group})
  BY CommitLeadersIs
<1>2. rows' = rows
  BY DEF CommitLeaders
<1>3. leads'[g] # leads[g]
  BY Zenon DEF Leaves, Assigned
<1>4. g \in {thread[t].group}
  BY <1>1, <1>3
<1> SUFFICES ASSUME NEW q \in People, q \in Members(rows', g), pending'[q] = l
             PROVE  Reviewer(rows', leads', q) = l
  BY DEF HandsOver, Members
<1>5. q \in Members(rows, g)
  BY <1>2
<1> QED
  BY <1>1, <1>2, <1>4, <1>5, SentOn

LEMMA SweepHands ==
    ASSUME Typed, Sweep, NEW g \in Groups, NEW l \in People, Leaves(g, l)
    PROVE  HandsOver(g, l)
<1> DEFINE gone == UNION {{leads[x][i].who : i \in Lapsed(x)} : x \in Groups}
<1>1. /\ pending' = [p \in People |-> IF pending[p] \in gone THEN None ELSE pending[p]]
      /\ leads' = [x \in Groups |-> Off(leads[x], Lapsed(x))]
  BY DEF Sweep
<1>2. leads \in [Groups -> Seq(Lead)] /\ leads[g] \in Seq(Lead)
  BY DEF Typed, LeadsOK
<1>3. PICK type \in Types, i \in ActiveIds(leads[g]) : leads[g][i].type = type /\ leads[g][i].who = l
  BY <1>2, AssignedIs DEF Leaves
<1>4. leads'[g] = Off(leads[g], Lapsed(g))
  BY <1>1
<1>5. /\ leads'[g] \in Seq(Lead) /\ DOMAIN leads'[g] = DOMAIN leads[g]
      /\ \A k \in DOMAIN leads[g] : /\ leads'[g][k].type = leads[g][k].type
                                    /\ leads'[g][k].who = leads[g][k].who
                                    /\ leads'[g][k].active <=> leads[g][k].active /\ k \notin Lapsed(g)
  BY <1>2, <1>4, LeadsOff
<1>6. i \in DOMAIN leads[g] /\ leads[g][i].active
  BY <1>2, <1>3, ActiveLeads
<1>7. i \in Lapsed(g)
  <2> SUFFICES ASSUME i \notin Lapsed(g) PROVE FALSE
    OBVIOUS
  <2>1. i \in ActiveIds(leads'[g])
    BY <1>5, <1>6, ActiveLeads
  <2>2. leads' \in [Groups -> Seq(Lead)]
    <3>1. \A x \in Groups : Off(leads[x], Lapsed(x)) \in Seq(Lead)
      <4> SUFFICES ASSUME NEW x \in Groups PROVE Off(leads[x], Lapsed(x)) \in Seq(Lead)
        OBVIOUS
      <4>1. leads[x] \in Seq(Lead)
        BY <1>2
      <4> QED
        BY <4>1, LeadsOff
    <3> QED
      BY <1>1, <3>1
  <2>3. Assigned(leads', g, type, l)
    BY <1>3, <1>5, <1>6, <2>1, <2>2, AssignedIs
  <2> QED
    BY <2>3 DEF Leaves
<1>8. l \in gone
  BY <1>3, <1>7
<1> HIDE DEF gone
<1>9. \A q \in People : pending'[q] # l
  BY <1>1, <1>8, NamesAssumption
<1> QED
  BY <1>9 DEF HandsOver, Members

LEMMA StepHands ==
    ASSUME IInv, Next, NEW g \in Groups, NEW l \in People, Leaves(g, l)
    PROVE  HandsOver(g, l)
<1>1. Typed /\ InCircles
  BY DEF IInv
<1>2. leads' # leads
  BY Zenon DEF Leaves
<1>3. CASE Sweep
  BY <1>1, <1>3, SweepHands
<1>4. ASSUME NEW p \in People, NEW role \in Base \cup Duties, NEW until \in 1..Forever,
             NEW c \in Circles, NEW h \in Groups \cup {None}, Edit(p, role, until, c, h)
      PROVE  HandsOver(g, l)
  BY <1>1, <1>4, EditHands
<1>5. ASSUME NEW t \in Threads, CommitLeaders(t) PROVE HandsOver(g, l)
  BY <1>1, <1>5, LeadersHand
<1>6. ASSUME NEW t \in Threads, CommitClose(t) PROVE HandsOver(g, l)
  <2>1. thread[t] \in Plans /\ thread[t].op = "close"
    BY <1>1, <1>6, Ended DEF CommitClose
  <2>2. thread[t].group \in Groups
    BY <2>1 DEF Plans
  <2>3. /\ leads' = [leads EXCEPT ![thread[t].group] = Off(@, thread[t].old)]
        /\ status' = [status EXCEPT ![thread[t].group] = "closed"]
    BY <1>6 DEF CommitClose
  <2>4. leads \in [Groups -> Seq(Lead)] /\ status \in [Groups -> {"active", "pending_takeover", "closed"}]
    BY <1>1 DEF Typed, LeadsOK, RequestsOK
  <2>5. g # thread[t].group
    BY <2>2, <2>3, <2>4 DEF Leaves
  <2>6. leads'[g] = leads[g]
    BY <2>3, <2>4, <2>5
  <2> QED
    BY <2>6, Zenon DEF Leaves, Assigned
<1>7. CASE \/ NextDay
           \/ \E p \in People, c \in Circles : Ask(p, c)
           \/ \E t \in Threads, p \in People : PlanDecline(t, p)
           \/ \E t \in Threads, p \in People, h \in Groups : PlanAccept(t, p, h)
           \/ \E t \in Threads, p \in People : PlanSubmit(t, p)
           \/ \E t \in Threads, h \in Groups : PlanClose(t, h)
           \/ \E t \in Threads, h \in Groups, plan \in [Types -> People \cup {None}] : PlanLeaders(t, h, plan)
           \/ \E t \in Threads : CommitDecline(t) \/ CommitAccept(t) \/ CommitSubmit(t)
           \/ \E k, p \in People : Review(k, p)
  BY <1>2, <1>7 DEF NextDay, Ask, PlanDecline, PlanAccept, PlanSubmit, PlanClose, PlanLeaders, Plan,
     CommitDecline, CommitAccept, CommitSubmit, Review
<1> QED
  BY <1>3, <1>4, <1>5, <1>6, <1>7 DEF Next

\* Whoever stops leading an open group leaves its members' records to those who
\* review them now, by an edit, a save of the leaders or the sweep
\* (relinquish_ineligible_leadership, apply_group_leaders, process_role_expirations).
THEOREM LeadersHandOver == Spec => HandOver
<1>1. IInv /\ [Next]_vars => [\A g \in Groups, l \in People : Leaves(g, l) => HandsOver(g, l)]_vars
  BY StepHands
<1>2. [\A g \in Groups, l \in People : Leaves(g, l) => HandsOver(g, l)]_vars =>
      [\A g \in Groups, l \in People :
         (/\ \E type \in Types : Assigned(leads, g, type, l)
          /\ \A type \in Types : ~Assigned(leads', g, type, l)
          /\ status'[g] # "closed")
         => \A p \in Members(rows', g) :
                pending'[p] = l => Reviewer(rows', leads', p) = l \/ Overtaken(rows', p)]_vars
  BY DEF Leaves, HandsOver
<1> QED
  BY <1>1, <1>2, Start, Kept, PTL DEF Spec, HandOver
=============================================================================
