-------------------------------- MODULE Members --------------------------------
(***************************************************************************)
(* Who people are, what they plan and publish, and what their pages show.  *)
(* Each keeps state of its own and shares none with another, so they are   *)
(* checked side by side: a behaviour is one of the component named by      *)
(* topic, while the others rest in one of their initial states.            *)
(***************************************************************************)
EXTENDS VideoJobs, Integers

\* Sick leaves, leave of absence and attendance.
CONSTANTS Employees, Clerks, Previews, Days, MonthOf, Today, MaxIds, MaxLoa
\* Days are numbered in order, and a month's come before the next one's.
ASSUME LeaveAssumption ==
    /\ IsFiniteSet(Employees) /\ IsFiniteSet(Days) /\ Days \subseteq Nat /\ Today \in Days
    /\ MonthOf \in [Days -> Nat] /\ \A d, e \in Days : d <= e => MonthOf[d] <= MonthOf[e]
VARIABLES leaveSick, leaveLastId, leaveLoa, leaveScore, leaveUpload, leaveReader, leavePreview
Leave == INSTANCE Absence WITH
    sick <- leaveSick, lastId <- leaveLastId, loa <- leaveLoa, score <- leaveScore,
    upload <- leaveUpload, reader <- leaveReader, preview <- leavePreview

\* Who is responsible for announcements.
CONSTANTS Publishers, Admin, Shared, NoGroup, MaxNotices, MaxVersion, MaxBatches, MaxRevision, MaxGrants
VARIABLES ownedNotices, ownedGroups, ownedBatches, ownedMay, ownedGranted
Owned == INSTANCE AnnouncementOwners WITH
    People <- Publishers, Scopes <- Shared, Nothing <- NoGroup,
    notices <- ownedNotices, groups <- ownedGroups, batches <- ownedBatches, may <- ownedMay,
    granted <- ownedGranted

\* The plan of a day of the post rotation.
CONSTANTS Slots, LineOf, SevenRank, Sevens, Opens, MaxPlanEdits, MaxUploads, MaxNamed
\* Three lists; nobody is in both shifts or twice in the opening one.
ASSUME PlanAssumption ==
    /\ Slots \in Seq({Slots[i] : i \in DOMAIN Slots})
    /\ Sevens \in Seq({Sevens[i] : i \in DOMAIN Sevens})
    /\ Opens \in Seq({Opens[i] : i \in DOMAIN Opens})
    /\ \A i, j \in DOMAIN Opens : Opens[i] = Opens[j] => i = j
    /\ \A i \in DOMAIN Sevens, j \in DOMAIN Opens : Sevens[i] # Opens[j]
    /\ \A j \in DOMAIN Opens : Opens[j] # None
VARIABLES planDay, planStatus, planToday, planAuto, planBoard, planDuties, planUpload, planDrafted,
          planEdits, planChosen, planBare
Plan == INSTANCE DayPlan WITH
    MaxEdits <- MaxPlanEdits,
    day <- planDay, status <- planStatus, today <- planToday, auto <- planAuto,
    board <- planBoard, duties <- planDuties, upload <- planUpload, drafted <- planDrafted,
    edits <- planEdits, chosen <- planChosen, bare <- planBare

\* One employee.
CONSTANTS LastDay, LastDays, MaxWrites
ASSUME CalendarAssumption == LastDay \in Nat \ {0} /\ LastDays \subseteq Nat
VARIABLES jobToday, jobEmp, jobCycles, jobAccount, jobBases, jobDuties, jobOffSince, jobWrites
Person == INSTANCE Employment WITH
    today <- jobToday, emp <- jobEmp, cycles <- jobCycles, account <- jobAccount,
    bases <- jobBases, duties <- jobDuties, offSince <- jobOffSince, writes <- jobWrites

\* A shared learning document, and the requests to read it.
CONSTANTS TRs, Editing, FirstOwner, Requests, MaxRevisions, MaxSaves, MaxAsks
VARIABLES shareShare, shareRevs, shareDraft, shareRequest
Share == INSTANCE LearningShares WITH
    Supervisors <- Editing,
    share <- shareShare, revs <- shareRevs, draft <- shareDraft, request <- shareRequest
VARIABLES askAccess, askAsking, askPage
Ask == INSTANCE LearningAccess WITH access <- askAccess, asking <- askAsking, page <- askPage

\* The pages that tell scores.
CONSTANTS Ranked, Group, Circle, RankedMonths, Recs, Rec, Deds, Ded, FullMark
\* Finitely many rows, whose points are numbers.
ASSUME ViewAssumption ==
    /\ IsFiniteSet(Ranked) /\ IsFiniteSet(RankedMonths) /\ RankedMonths \subseteq Nat /\ RankedMonths # {}
    /\ IsFiniteSet(Recs) /\ \A r \in Recs : /\ Rec[r].full \in Int /\ Rec[r].credit \in Int
                                        /\ Rec[r].old \in BOOLEAN /\ Rec[r].configured \in BOOLEAN
    /\ IsFiniteSet(Deds) /\ \A d \in Deds : Ded[d].points \in Int
    /\ FullMark \in Int
VARIABLES viewRecs, viewDeds, viewLoa, viewGone, viewStored
View == INSTANCE ScoreViews WITH
    Employees <- Ranked, Months <- RankedMonths,
    recs <- viewRecs, deds <- viewDeds, loa <- viewLoa, gone <- viewGone, stored <- viewStored

\* The sealed bands of a month.
CONSTANTS Staff, Supervisors, OnLeave, Homes, All, First, MinCohort, Scores, MaxCloses, MaxMoves
\* Everyone has a circle, and the scope of all is none of them.
ASSUME RankAssumption ==
    /\ IsFiniteSet(Staff) /\ Supervisors \subseteq Staff /\ OnLeave \subseteq Staff
    /\ First \in [Staff -> Homes] /\ All \notin Homes
VARIABLES rankCircle, rankTotal, rankFrozen, rankClosure, rankRows, rankCloses, rankMoves
Rank == INSTANCE MonthRanks WITH
    Circles <- Homes,
    circle <- rankCircle, total <- rankTotal, frozen <- rankFrozen, closure <- rankClosure,
    rows <- rankRows, closes <- rankCloses, moves <- rankMoves

VARIABLE topic   \* the component that moves
-----------------------------------------------------------------------------
absenceVars == <<leaveSick, leaveLastId, leaveLoa, leaveScore, leaveUpload, leaveReader, leavePreview>>
ownerVars == <<ownedNotices, ownedGroups, ownedBatches, ownedMay, ownedGranted>>
dayVars == <<planDay, planStatus, planToday, planAuto, planBoard, planDuties, planUpload, planDrafted, planEdits, planChosen,
             planBare>>
employmentVars == <<jobToday, jobEmp, jobCycles, jobAccount, jobBases, jobDuties, jobOffSince, jobWrites>>
learningVars == <<shareShare, shareRevs, shareDraft, shareRequest>>
accessVars == <<askAccess, askAsking, askPage>>
viewVars == <<viewRecs, viewDeds, viewLoa, viewGone, viewStored>>
rankVars == <<rankCircle, rankTotal, rankFrozen, rankClosure, rankRows, rankCloses, rankMoves>>
memberVars == <<topic, vars, absenceVars, ownerVars, dayVars, employmentVars, learningVars, accessVars, viewVars, rankVars>>

MembersInit ==
    /\ Init
    /\ Leave!Init
    /\ Owned!Init
    /\ Plan!Init
    /\ Person!Init
    /\ Share!Init
    /\ Ask!Init
    /\ View!Init
    /\ Rank!Init
    /\ topic \in {"versions", "absence", "owners", "plan", "employment", "share", "access", "views", "ranks"}

Others ==
    /\ UNCHANGED topic
    /\ IF topic = "versions" THEN TRUE ELSE UNCHANGED vars
    /\ IF topic = "absence" THEN TRUE ELSE UNCHANGED absenceVars
    /\ IF topic = "owners" THEN TRUE ELSE UNCHANGED ownerVars
    /\ IF topic = "plan" THEN TRUE ELSE UNCHANGED dayVars
    /\ IF topic = "employment" THEN TRUE ELSE UNCHANGED employmentVars
    /\ IF topic = "share" THEN TRUE ELSE UNCHANGED learningVars
    /\ IF topic = "access" THEN TRUE ELSE UNCHANGED accessVars
    /\ IF topic = "views" THEN TRUE ELSE UNCHANGED viewVars
    /\ IF topic = "ranks" THEN TRUE ELSE UNCHANGED rankVars

MembersNext ==
    \/ topic = "versions" /\ Next /\ Others
    \/ topic = "absence" /\ Leave!Next /\ Others
    \/ topic = "owners" /\ Owned!Next /\ Others
    \/ topic = "plan" /\ Plan!Next /\ Others
    \/ topic = "employment" /\ Person!Next /\ Others
    \/ topic = "share" /\ Share!Next /\ Others
    \/ topic = "access" /\ Ask!Next /\ Others
    \/ topic = "views" /\ View!Next /\ Others
    \/ topic = "ranks" /\ Rank!Next /\ Others

MembersSpec == MembersInit /\ [][MembersNext]_memberVars
-----------------------------------------------------------------------------
(* The properties, each stated in its component's module. *)

\* Plans and publications are in the hands they are recorded in: the day's plan on
\* its board, a shared scope's announcements with its members, a learning document
\* with one line of versions (daily.py:206, announcement_responsibilities.py:106,
\* learning.py:346).
HandsTrue ==
    CASE topic = "plan" -> Plan!PlanKept
      [] topic = "owners" -> Owned!OwnersAreMembers
      [] topic = "share" -> Share!LibraryWhole
      [] OTHER -> TRUE

\* Every page tells the same score, and each member of a sealed cohort the rank of
\* its present generation (score_queries.py:37, monthly_ranks.py:282).
ScoresTold ==
    CASE topic = "views" -> View!ViewsAgree /\ View!LeaveFollowed
      [] topic = "ranks" -> Rank!BandTold
      [] OTHER -> TRUE

\* Whoever decides gets what was shown: an import, a handover of responsibility, a
\* request to read, the publication of a revision (sick_leave_import.py:626,
\* announcement_responsibilities.py:158, learning.py:186, 346).
DecidedAsShown ==
    Leave!ImportAsReviewed /\ Owned!PassesAsNamed /\ Ask!ApprovedAsRead /\ Share!OwnerPublishes

\* Attendance is that of the leaves in force, and no two of them share a day unless
\* one was uploading (attendance.py:317, sick_leave_import.py:631).
AttendanceTrue == topic = "absence" => Leave!AttendanceTrue

\* An edit leaves alone what it does not name: the other pairs of a day's plan, the
\* past of an employee, the three days of a disabled account (daily.py:423,
\* employment.py:27, employee_status.py:137, employee_types.py:48).
EditsKeepTheRest ==
    Plan!PairsKept /\ Person!PastKept /\ Person!DeletedAfterThreeDays /\ Person!OverdueOnlyByMidnight
===============================================================================
