------------------------------ MODULE LessonOrder ------------------------------
(***************************************************************************)
(* The lessons of one course as its authors edit them: addLesson,          *)
(* updateLesson, deleteLesson and reorderLessons of LmsService, with       *)
(* renumberLessons, applyLessonOrder and syncCourseDuration, which they    *)
(* call.  An action is one database call, or one transaction, with the     *)
(* code up to the next one.                                                *)
(*                                                                         *)
(* The database refuses a row whose (course, lesson number) is taken, also *)
(* in the middle of a transaction, which is then rolled back and the       *)
(* request fails.  A lesson that is published and has minutes counts one   *)
(* minute towards the duration of the course; other lessons count none.    *)
(*                                                                         *)
(* "orderly" is chosen at the start of a behaviour and says whether its    *)
(* edits wait for each other and its process stays alive; "alone" is       *)
(* history: the request, if any, that has had the course to itself.        *)
(***************************************************************************)
EXTENDS Integers, FiniteSets, Functions

CONSTANTS
    Lessons,        \* ids of lessons
    NoLesson,
    Workers,        \* requests in progress
    Overlap,        \* how many of them may be in progress together
    Crashes         \* whether the process may die between two calls,
                    \* in a behaviour that is not orderly

ASSUME OrderAssumption ==
    /\ IsFiniteSet(Lessons) /\ NoLesson \notin Lessons
    /\ IsFiniteSet(Workers)
    /\ Overlap \in Nat /\ Crashes \in BOOLEAN

VARIABLES
    number,         \* lessonNumber of every lesson; 0, there is no such row
    counted,        \* the lessons that count for the duration
    duration,       \* of the course, in minutes; 0 is null
    req,
    orderly, alone

vars == <<number, counted, duration, req, orderly, alone>>

Lists == UNION {[1..n -> Lessons] : n \in 0..Cardinality(Lessons)}

Request == [pc: {"idle", "create", "update", "delete", "collect", "park",
                 "number", "minutes", "duration"},
            lesson: Lessons \cup {NoLesson},        \* updated or deleted
            count: Nat,                             \* lessons, or minutes
            order: Lists]

Idle == [pc |-> "idle", lesson |-> NoLesson, count |-> 0, order |-> << >>]

TypeOK ==
    /\ number \in [Lessons -> -Cardinality(Lessons)..Cardinality(Lessons)]
    /\ counted \in SUBSET Lessons
    /\ duration \in Nat
    /\ req \in [Workers -> Request]
    /\ orderly \in BOOLEAN
    /\ alone \in SUBSET Workers

-----------------------------------------------------------------------------
Stored == {l \in Lessons : number[l] # 0}

\* The ways to put the stored lessons in a row.
Orders == Bijection(1..Cardinality(Stored), Stored)

Minutes == Cardinality(counted \cap Stored)

\* createAdminCourse: the lessons in the order of the form, and a duration that
\* the form gives or that is estimated from all of them, drafts included.
Init ==
    /\ number \in [Lessons -> 0..Cardinality(Lessons)]
    /\ {number[l] : l \in Stored} = 1..Cardinality(Stored)
    /\ counted \in SUBSET Stored
    /\ duration \in 0..Cardinality(Lessons)
    /\ req = [w \in Workers |-> Idle]
    /\ orderly \in BOOLEAN
    /\ alone = {}

Busy == {w \in Workers : req[w].pc # "idle"}

Room == Cardinality(Busy) < (IF orderly THEN 1 ELSE Overlap)

At(w, pc) == req[w].pc = pc

\* A request comes in and has made its first call.
Begin(w, value) ==
    /\ At(w, "idle") /\ Room
    /\ req' = [req EXCEPT ![w] = value]
    /\ alone' = IF Busy = {} THEN {w} ELSE {}

Set(w, value) ==
    /\ req' = [req EXCEPT ![w] = value]
    /\ UNCHANGED alone

Taken(n) == \E l \in Stored : number[l] = n

\* Ids that no row and no request in progress knows.
Fresh == Lessons \ (Stored \cup {req[w].lesson : w \in Workers}
                           \cup UNION {Range(req[w].order) : w \in Workers})

-----------------------------------------------------------------------------
(* syncCourseDuration, which ends adding, updating and deleting. *)

\* Mutant: drafts count as well.
SumMinutesOfAll(w) ==
    /\ At(w, "minutes")
    /\ Set(w, IF Stored = {} THEN Idle
              ELSE [req[w] EXCEPT !.pc = "duration", !.count = Cardinality(Stored)])
    /\ UNCHANGED <<number, counted, duration, orderly>>

SumMinutes(w) ==
    /\ At(w, "minutes")
    /\ \/ /\ Minutes > 0
          /\ Set(w, [req[w] EXCEPT !.pc = "duration", !.count = Minutes])
       \/ Minutes = 0 /\ Set(w, Idle)
    /\ UNCHANGED <<number, counted, duration, orderly>>

WriteDuration(w) ==
    /\ At(w, "duration")
    /\ duration' = req[w].count
    /\ Set(w, Idle)
    /\ UNCHANGED <<number, counted, orderly>>

-----------------------------------------------------------------------------
(* addLesson: the new number is one more than the number of lessons. *)

\* The bound: no more lessons are begun than there are ids.
AddRead(w) ==
    /\ Cardinality({v \in Workers : At(v, "create")}) < Cardinality(Fresh)
    /\ Begin(w, [Idle EXCEPT !.pc = "create", !.count = Cardinality(Stored)])
    /\ UNCHANGED <<number, counted, duration, orderly>>

AddCreate(w) ==
    LET n == req[w].count + 1 IN
    /\ At(w, "create")
    /\ \/ /\ ~Taken(n)
          /\ \E l \in Fresh :
                /\ number' = [number EXCEPT ![l] = n]
                /\ counted' \in {counted \ {l}, counted \cup {l}}
          /\ Set(w, [Idle EXCEPT !.pc = "minutes"])
       \/ Taken(n) /\ Set(w, Idle) /\ UNCHANGED <<number, counted>>
    /\ UNCHANGED <<duration, orderly>>

-----------------------------------------------------------------------------
(* updateLesson: may publish the lesson, draft it or change its length. *)

UpdateRead(w, l) ==
    /\ l \in Stored
    /\ Begin(w, [Idle EXCEPT !.pc = "update", !.lesson = l])
    /\ UNCHANGED <<number, counted, duration, orderly>>

UpdateWrite(w) ==
    LET l == req[w].lesson IN
    /\ At(w, "update")
    /\ \/ /\ l \in Stored
          /\ counted' \in {counted \ {l}, counted \cup {l}}
          /\ Set(w, [Idle EXCEPT !.pc = "minutes"])
       \/ l \notin Stored /\ Set(w, Idle) /\ UNCHANGED counted
    /\ UNCHANGED <<number, duration, orderly>>

-----------------------------------------------------------------------------
(* deleteLesson: find, delete, then renumberLessons. *)

DeleteRead(w, l) ==
    /\ l \in Stored
    /\ Begin(w, [Idle EXCEPT !.pc = "delete", !.lesson = l])
    /\ UNCHANGED <<number, counted, duration, orderly>>

DeleteRow(w) ==
    LET l == req[w].lesson IN
    /\ At(w, "delete")
    /\ \/ /\ l \in Stored
          /\ number' = [number EXCEPT ![l] = 0]
          /\ Set(w, [req[w] EXCEPT !.pc = "collect"])
       \/ l \notin Stored /\ Set(w, Idle) /\ UNCHANGED number
    /\ UNCHANGED <<counted, duration, orderly>>

\* Mutant: renumbered in whatever order the rows come.
CollectUnordered(w) ==
    /\ At(w, "collect")
    /\ \E o \in Orders : Set(w, [req[w] EXCEPT !.pc = "park", !.order = o])
    /\ UNCHANGED <<number, counted, duration, orderly>>

\* Mutant: only the published lessons are renumbered.
CollectPublished(w) ==
    /\ At(w, "collect")
    /\ \E o \in Bijection(1..Minutes, counted \cap Stored) :
          /\ \A i, j \in DOMAIN o : i < j => number[o[i]] < number[o[j]]
          /\ Set(w, [req[w] EXCEPT !.pc = "park", !.order = o])
    /\ UNCHANGED <<number, counted, duration, orderly>>

\* renumberLessons: the lessons by ascending number.
Collect(w) ==
    /\ At(w, "collect")
    /\ \E o \in Orders :
          /\ \A i, j \in DOMAIN o : i < j => number[o[i]] < number[o[j]]
          /\ Set(w, [req[w] EXCEPT !.pc = "park", !.order = o])
    /\ UNCHANGED <<number, counted, duration, orderly>>

-----------------------------------------------------------------------------
(* reorderLessons: a list that does not name every lesson of the course is *)
(* refused.  The editor sends each lesson once.                            *)

ReorderRead(w) ==
    /\ \E o \in Orders \ {<< >>} : Begin(w, [Idle EXCEPT !.pc = "park", !.order = o])
    /\ UNCHANGED <<number, counted, duration, orderly>>

-----------------------------------------------------------------------------
(* applyLessonOrder: one transaction that parks the lessons on negative    *)
(* numbers and one that gives them their numbers.                          *)

\* Whether a transaction that gives the lessons of order o the numbers sign,
\* 2 * sign, ... one after the other meets every row and no number in use.
Fits(o, sign) ==
    \A i \in DOMAIN o :
        /\ o[i] \in Stored
        /\ \A l \in Stored : number[l] = sign * i => \E j \in 1..i : o[j] = l

Renumbered(o, sign) ==
    [l \in Lessons |-> IF l \in Range(o) THEN sign * (CHOOSE i \in DOMAIN o : o[i] = l)
                       ELSE number[l]]

Park(w) ==
    LET o == req[w].order IN
    /\ At(w, "park")
    /\ \/ /\ Fits(o, -1)
          /\ number' = Renumbered(o, -1)
          /\ Set(w, [req[w] EXCEPT !.pc = "number"])
       \/ ~Fits(o, -1) /\ Set(w, Idle) /\ UNCHANGED number
    /\ UNCHANGED <<counted, duration, orderly>>

\* Only a deletion has the duration to see to.
Number(w) ==
    LET o == req[w].order IN
    /\ At(w, "number")
    /\ \/ /\ Fits(o, 1)
          /\ number' = Renumbered(o, 1)
          /\ Set(w, IF req[w].lesson = NoLesson THEN Idle
                    ELSE [Idle EXCEPT !.pc = "minutes"])
       \/ ~Fits(o, 1) /\ Set(w, Idle) /\ UNCHANGED number
    /\ UNCHANGED <<counted, duration, orderly>>

-----------------------------------------------------------------------------
Crash(w) ==
    /\ Crashes /\ ~orderly
    /\ req[w].pc # "idle"
    /\ Set(w, Idle)
    /\ UNCHANGED <<number, counted, duration, orderly>>

Next ==
    \E w \in Workers :
        \/ AddRead(w) \/ AddCreate(w)
        \/ \E l \in Lessons : UpdateRead(w, l) \/ DeleteRead(w, l)
        \/ UpdateWrite(w) \/ DeleteRow(w) \/ Collect(w) \/ ReorderRead(w)
        \/ Park(w) \/ Number(w) \/ SumMinutes(w) \/ WriteDuration(w)
        \/ Crash(w)

Spec == Init /\ [][Next]_vars

-----------------------------------------------------------------------------
(* Properties *)

Quiet == Busy = {}

Gapless == {number[l] : l \in Stored} = 1..Cardinality(Stored)

\* Between edits that do not overlap the lessons of the course are numbered
\* from one without a gap, so that a new lesson gets a free number
\* (lms.service.ts:732) and the learner's pointer names a lesson.
NumberedWithoutGaps == orderly /\ Quiet => Gapless

\* No renumbering runs into a number in use: that is what parking is for
\* (lms.service.ts:914-917).
ParkingFits ==
    \A w \in Workers : /\ At(w, "park") => Fits(req[w].order, -1)
                       /\ At(w, "number") => Fits(req[w].order, 1)

\* Edits that do not overlap never run into each other's numbers.
OrderlyParkingFits == orderly => ParkingFits

\* Adding, updating or deleting a lesson, when no other edit overlaps it, ends
\* with the course showing the minutes of its published lessons, if there are
\* any (lms.service.ts:883 "Keeps the advertised course length in step").
DurationInStep ==
    [][\A w \in alone :
          /\ orderly /\ req[w].pc \in {"minutes", "duration"} /\ At(w, "idle")'
          /\ Minutes' > 0
          => duration' = Minutes']_vars

\* Whatever overlapping edits and crashes have left behind, a renumbering that
\* gets through and had the course to itself puts the numbers right again.
RenumberingRepairs ==
    [][\A w \in alone : At(w, "number") /\ number' # number => Gapless']_vars

\* Parked numbers count down from -1.
Distance(l) == IF number[l] < 0 THEN -number[l] ELSE number[l]

Place(l) == Cardinality({m \in Stored : Distance(m) <= Distance(l)})

\* The list of lessons that orderly edits keep.
Listed ==
    IF orderly THEN [i \in 1..Cardinality(Stored) |-> CHOOSE l \in Stored : Place(l) = i]
               ELSE << >>

\* The order that a reorder in progress is about to carry out.
Wanted ==
    LET asked == {w \in Workers : At(w, "park") /\ req[w].lesson = NoLesson}
    IN  IF orderly /\ asked # {} THEN req[CHOOSE w \in asked : TRUE].order ELSE << >>

List == INSTANCE LessonList WITH list <- Listed, wanted <- Wanted

\* Edits that do not overlap implement a list of lessons.
ImplementsList == List!Spec

=============================================================================
