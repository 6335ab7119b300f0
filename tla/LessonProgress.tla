---------------------------- MODULE LessonProgress ----------------------------
(***************************************************************************)
(* One learner in one course: enroll, updateProgress and completeLesson of *)
(* LmsService with everything they call (updateCourseProgress,             *)
(* checkAchievements, issueCertificate), and the one edit of updateLesson  *)
(* that they can notice, a lesson being published or put back to draft.    *)
(* The player sends progress every fifteen seconds, on every seek and at   *)
(* the end of a video without waiting for the previous answer, so several  *)
(* requests of the same learner are in progress together.                  *)
(*                                                                         *)
(* An action is one database call with the code up to the next one.  A     *)
(* lesson is named by its number; renumbering is not part of this module.  *)
(* "ever" is history: no guard reads it.                                   *)
(*                                                                         *)
(* "setting" is chosen at the start of a behaviour.  Requests wait for     *)
(* each other and the process stays alive (orderly); or they overlap and   *)
(* may be cut short (racing); or lessons are published and put back to     *)
(* draft besides (edited).                                                 *)
(***************************************************************************)
EXTENDS Integers, FiniteSets, CourseLessons

CONSTANTS
    Percents,       \* watch percentages a player reports
    Threshold,      \* completionThreshold * 100
    Achievements,   \* the achievements that are defined
    Workers,        \* requests in progress
    Overlap,        \* how many of them may be in progress together
    Crashes,        \* whether the process may die between two calls
    Settings        \* the settings that are looked at

ASSUME ProgressAssumption ==
    /\ N \in Nat \ {0} /\ Overlap \in Nat
    /\ IsFiniteSet(Workers) /\ Workers # {}
    /\ Percents \subseteq 0..100 /\ Threshold \in 0..100
    /\ Achievements \subseteq {"first_lesson", "first_course"}
    /\ Crashes \in BOOLEAN
    /\ Settings \subseteq {"orderly", "racing", "edited"}

VARIABLES
    published,      \* the lessons whose status is published
    progress,       \* the learner's LessonProgress rows
    ever,           \* the lessons the learner has ever been credited with
    enrollment, earned, certificate,
    req,
    setting

vars == <<published, progress, ever, enrollment, earned, certificate, req, setting>>

Enrollment == [made: BOOLEAN, pointer: Nat, done: Nat, completed: BOOLEAN]

Request == [pc: {"idle", "enroll", "upsert", "total", "count", "furthest",
                 "advance", "achieve", "award", "findCert", "createCert"},
            lesson: Nat,
            watched: 0..100, completed: BOOLEAN,    \* about to be written
            total: Nat, count: Nat, furthest: Nat,  \* read so far
            todo: SUBSET Achievements,              \* rest of the loop
            award: Achievements \cup {"none"},
            last: BOOLEAN]      \* no certificate to see to after the loop

Idle == [pc |-> "idle", lesson |-> 0, watched |-> 0, completed |-> FALSE,
         total |-> 0, count |-> 0, furthest |-> 0, todo |-> {},
         award |-> "none", last |-> TRUE]

TypeOK ==
    /\ published \in SUBSET Lessons
    /\ progress \in [Lessons -> [watched: 0..100, completed: BOOLEAN]]
    /\ ever \in SUBSET Lessons
    /\ enrollment \in Enrollment
    /\ earned \in SUBSET Achievements
    /\ certificate \in BOOLEAN
    /\ req \in [Workers -> Request]
    /\ setting \in Settings

\* A course is created with its lessons published unless the author says not.
Init ==
    /\ published = Lessons
    /\ progress = [l \in Lessons |-> [watched |-> 0, completed |-> FALSE]]
    /\ ever = {}
    /\ enrollment = [made |-> FALSE, pointer |-> 1, done |-> 0, completed |-> FALSE]
    /\ earned = {}
    /\ certificate = FALSE
    /\ req = [w \in Workers |-> Idle]
    /\ setting \in Settings

-----------------------------------------------------------------------------
Busy == {w \in Workers : req[w].pc # "idle"}

Room == Cardinality(Busy) < (IF setting = "orderly" THEN 1 ELSE Overlap)

Admit(w) == req[w].pc = "idle" /\ Room

At(w, pc) == req[w].pc = pc

Set(w, value) == req' = [req EXCEPT ![w] = value]

Smaller(a, b) == IF a <= b THEN a ELSE b

Done == {l \in Lessons : progress[l].completed}

\* Mutant: the lesson being watched is counted too.
CourseProgressOneAhead(done, total) ==
    IF total = 0 THEN 0 ELSE (100 * (done + 1)) \div total

\* Math.round of the percentage of lessons completed.
CourseProgress(done, total) ==
    IF total = 0 THEN 0 ELSE (200 * done + total) \div (2 * total)

\* Mutant: the pointer at the furthest lesson done.
PointerAtFurthest(furthest, total) == Larger(furthest, 1)

Pointer(furthest, total) ==
    IF furthest = 0 THEN 1 ELSE Smaller(furthest + 1, Larger(total, 1))

-----------------------------------------------------------------------------
(* enroll: find, then create; the pair (user, course) is unique. *)

EnrollRead(w) ==
    /\ Admit(w)
    /\ ~enrollment.made
    /\ Set(w, [Idle EXCEPT !.pc = "enroll"])
    /\ UNCHANGED <<published, progress, ever, enrollment, earned, certificate, setting>>

EnrollCreate(w) ==
    /\ At(w, "enroll")
    /\ enrollment' = [enrollment EXCEPT !.made = TRUE]
    /\ Set(w, Idle)
    /\ UNCHANGED <<published, progress, ever, earned, certificate, setting>>

-----------------------------------------------------------------------------
(* updateProgress and completeLesson *)

\* Mutant: the lock lets one lesson too many through.
UnlockedOneAhead(l) == enrollment.made /\ l <= enrollment.pointer + 1

Unlocked(l) == enrollment.made /\ l <= enrollment.pointer

\* Mutant: what was reached before is forgotten.
WatchReadAfresh(w, l) ==
    /\ Admit(w)
    /\ Unlocked(l)
    /\ \E p \in Percents :
          Set(w, [Idle EXCEPT !.pc = "upsert", !.lesson = l, !.watched = p,
                              !.completed = p >= Threshold])
    /\ UNCHANGED <<published, progress, ever, enrollment, earned, certificate, setting>>

\* The reads of updateProgress, and the row it computes from them.
WatchRead(w, l) ==
    /\ Admit(w)
    /\ Unlocked(l)
    /\ \E p \in Percents :
          LET watched == Larger(progress[l].watched, p) IN
          Set(w, [Idle EXCEPT
                    !.pc = "upsert", !.lesson = l, !.watched = watched,
                    !.completed = progress[l].completed \/ watched >= Threshold])
    /\ UNCHANGED <<published, progress, ever, enrollment, earned, certificate, setting>>

FinishRead(w, l) ==
    /\ Admit(w)
    /\ Unlocked(l)
    /\ Set(w, [Idle EXCEPT !.pc = "upsert", !.lesson = l,
                           !.watched = 100, !.completed = TRUE])
    /\ UNCHANGED <<published, progress, ever, enrollment, earned, certificate, setting>>

\* The upsert writes what was computed from the read, whatever is there now.
Upsert(w) ==
    LET q == req[w] IN
    /\ At(w, "upsert")
    /\ progress' = [progress EXCEPT ![q.lesson] =
                      [watched |-> q.watched, completed |-> q.completed]]
    /\ \/ q.completed /\ ever' = ever \cup {q.lesson}
                      /\ Set(w, [Idle EXCEPT !.pc = "total"])
       \/ ~q.completed /\ ever' = ever /\ Set(w, Idle)
    /\ UNCHANGED <<published, enrollment, earned, certificate, setting>>

-----------------------------------------------------------------------------
(* updateCourseProgress: three reads, then the update of the enrollment. *)

CountLessons(w) ==
    /\ At(w, "total")
    /\ Set(w, [req[w] EXCEPT !.pc = "count", !.total = Cardinality(published)])
    /\ UNCHANGED <<published, progress, ever, enrollment, earned, certificate, setting>>

\* Drafts are not counted above; the lessons of the learner all are here.
CountCompleted(w) ==
    /\ At(w, "count")
    /\ Set(w, [req[w] EXCEPT !.pc = "furthest", !.count = Cardinality(Done)])
    /\ UNCHANGED <<published, progress, ever, enrollment, earned, certificate, setting>>

FindFurthest(w) ==
    /\ At(w, "furthest")
    /\ \E f \in Done \cup {0} :
          /\ \A l \in Done : l <= f
          /\ Set(w, [req[w] EXCEPT !.pc = "advance", !.furthest = f])
    /\ UNCHANGED <<published, progress, ever, enrollment, earned, certificate, setting>>

\* The loop over the achievements goes on with S, or gives way to what follows.
Resume(w, S, last) ==
    Set(w, IF S # {} THEN [Idle EXCEPT !.pc = "achieve", !.todo = S, !.last = last]
           ELSE IF last THEN Idle
           ELSE [Idle EXCEPT !.pc = "findCert"])

Advance(w) ==
    LET q == req[w]
        finished == CourseProgress(q.count, q.total) >= 100
    IN
    /\ At(w, "advance")
    /\ enrollment' = [enrollment EXCEPT !.pointer = Pointer(q.furthest, q.total),
                                        !.done = q.count, !.completed = finished]
    /\ Resume(w, Achievements, ~finished)
    /\ UNCHANGED <<published, progress, ever, earned, certificate, setting>>

-----------------------------------------------------------------------------
(* checkAchievements, once inside updateCourseProgress when the course is   *)
(* finished and once after it.  The create is not conditional.  The lookup  *)
(* and the count of one achievement are taken together.                     *)

Deserved(a) ==
    CASE a = "first_lesson" -> Done # {}
      [] a = "first_course" -> enrollment.completed

CheckAchievement(w) ==
    LET q == req[w] IN
    /\ At(w, "achieve")
    /\ \E a \in q.todo :
          \/ /\ a \notin earned /\ Deserved(a)
             /\ Set(w, [q EXCEPT !.pc = "award", !.award = a, !.todo = @ \ {a}])
          \/ /\ a \in earned \/ ~Deserved(a)
             /\ Resume(w, q.todo \ {a}, q.last)
    /\ UNCHANGED <<published, progress, ever, enrollment, earned, certificate, setting>>

\* A second row for the same achievement throws, which ends the request.
Award(w) ==
    LET q == req[w] IN
    /\ At(w, "award")
    /\ \/ /\ q.award \notin earned
          /\ earned' = earned \cup {q.award}
          /\ Resume(w, q.todo, q.last)
       \/ /\ q.award \in earned
          /\ Set(w, Idle)
          /\ UNCHANGED earned
    /\ UNCHANGED <<published, progress, ever, enrollment, certificate, setting>>

-----------------------------------------------------------------------------
(* issueCertificate *)

FindCertificate(w) ==
    /\ At(w, "findCert")
    /\ IF certificate THEN Resume(w, Achievements, TRUE)
                      ELSE Set(w, [Idle EXCEPT !.pc = "createCert"])
    /\ UNCHANGED <<published, progress, ever, enrollment, earned, certificate, setting>>

\* Here the second row of a race is caught.
CreateCertificate(w) ==
    /\ At(w, "createCert")
    /\ certificate' = TRUE
    /\ Resume(w, Achievements, TRUE)
    /\ UNCHANGED <<published, progress, ever, enrollment, earned, setting>>

-----------------------------------------------------------------------------
(* updateLesson, and the process dying between two calls. *)

SetStatus(l) ==
    /\ setting = "edited" /\ Room
    /\ published' = IF l \in published THEN published \ {l} ELSE published \cup {l}
    /\ UNCHANGED <<progress, ever, enrollment, earned, certificate, req, setting>>

Crash(w) ==
    /\ Crashes /\ setting # "orderly"
    /\ req[w].pc # "idle"
    /\ Set(w, Idle)
    /\ UNCHANGED <<published, progress, ever, enrollment, earned, certificate, setting>>

Next ==
    \/ \E w \in Workers :
          \/ EnrollRead(w) \/ EnrollCreate(w)
          \/ \E l \in Lessons : WatchRead(w, l) \/ FinishRead(w, l)
          \/ Upsert(w)
          \/ CountLessons(w) \/ CountCompleted(w) \/ FindFurthest(w) \/ Advance(w)
          \/ CheckAchievement(w) \/ Award(w)
          \/ FindCertificate(w) \/ CreateCertificate(w)
          \/ Crash(w)
    \/ \E l \in Lessons : SetStatus(l)

Spec == Init /\ [][Next]_vars

-----------------------------------------------------------------------------
(* Properties *)

\* No lesson is ever completed before all the lessons before it were, whatever
\* requests race and however lessons are drafted meanwhile: the lock of
\* lms.service.ts:237 and 298 and the pointer it reads.
LessonsInOrder == \A l \in ever : 1..l \subseteq ever

\* A certificate means that every published lesson was completed
\* (schema.prisma:676, "Issued once a learner completes every published
\* lesson of a course").
CertificateEarned ==
    [][~certificate /\ certificate' => published \subseteq ever]_vars

\* The same for a course that nobody edits, whatever requests race.
EarnedUnlessEdited ==
    [][setting # "edited" /\ ~certificate /\ certificate' => published \subseteq ever]_vars

\* Requests that do not overlap take no progress back: a completed lesson stays
\* completed (lms.service.ts:247, existing.isCompleted) and the pointer where it is or
\* further, so that a lesson once unlocked is never locked again (lms.service.ts:342-345).
NothingTakenBack ==
    [][setting = "orderly" =>
         /\ enrollment.pointer <= enrollment'.pointer
         /\ \A l \in Lessons : progress[l].completed => progress'[l].completed]_vars

\* At rest, in a behaviour whose requests do not overlap.
Quiet == setting = "orderly" /\ Busy = {}

\* A learner who has not finished the course always has a published lesson to
\* go on with: one that is unlocked and not completed yet.
NobodyStuck ==
    Quiet /\ enrollment.made /\ ~enrollment.completed =>
        \E l \in published : Unlocked(l) /\ ~progress[l].completed

\* The enrollment tells what the lesson rows tell.
EnrollmentAgrees ==
    Quiet => /\ enrollment.done = Cardinality(Done)
             /\ enrollment.completed <=> published \subseteq Done

\* Finishing the last lesson is what earns the certificate (lms.service.ts:370).
CompletedCourseHasCertificate == Quiet /\ enrollment.completed => certificate

\* The enrollment agrees with the lessons, and the certificate with the enrollment.
EnrollmentTellsTruth == EnrollmentAgrees /\ CompletedCourseHasCertificate

=============================================================================
