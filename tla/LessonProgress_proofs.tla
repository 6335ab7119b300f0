------------------------ MODULE LessonProgress_proofs ------------------------
(***************************************************************************)
(* For every number of lessons, requests and reported percentages:         *)
(* lessons are completed in order whatever is drafted meanwhile, and in a  *)
(* course of fewer than 200 lessons that is not edited the certificate     *)
(* means that every lesson was completed.                                  *)
(* With requests that wait for each other nothing is taken back, the       *)
(* learner always has a lesson to go on with, and in such a course the     *)
(* enrollment and the certificate tell what the lesson rows tell.          *)
(* The last part is about the pages that show it (LessonPlayer): at rest   *)
(* they show what the server holds, and lock what the server would refuse. *)
(***************************************************************************)
EXTENDS LessonProgress, LessonPlayer, FiniteSetTheorems, TLAPS

-----------------------------------------------------------------------------
(* Facts about the operators *)

\* Sets of lessons are finite and no larger than the course.
LEMMA LessonSets ==
    ASSUME NEW S \in SUBSET Lessons
    PROVE  /\ IsFiniteSet(S) /\ Cardinality(S) \in Nat /\ Cardinality(S) <= N
           /\ Cardinality(S) = N => S = Lessons
<1>1. IsFiniteSet(Lessons) /\ Cardinality(Lessons) = N
  BY FS_Interval, ProgressAssumption DEF Lessons
<1>2. /\ IsFiniteSet(S) /\ Cardinality(S) <= Cardinality(Lessons)
      /\ Cardinality(S) = Cardinality(Lessons) => S = Lessons
  BY <1>1, FS_Subset
<1>3. Cardinality(S) \in Nat
  BY <1>2, FS_CardinalityType
<1> QED
  BY <1>1, <1>2, <1>3

\* A quotient of naturals is a natural, and what a quotient is.
LEMMA Quotient ==
    ASSUME NEW a \in Nat, NEW b \in Nat \ {0}
    PROVE  a \div b \in Nat /\ b * (a \div b) <= a
BY SMT

\* All lessons done is one hundred percent.
LEMMA QuotientBelow ==
    ASSUME NEW n \in Nat \ {0}
    PROVE  (200 * n + n) \div (2 * n) >= 100
<1> DEFINE a == 200 * n + n
           b == 2 * n
           d == a \div b
<1>1. a \in Nat /\ b \in Nat \ {0} /\ a >= b * 100
  OBVIOUS
<1> HIDE DEF a, b
<1>2. d \in Nat /\ a < b * (d + 1)
  BY <1>1, SMT
<1> HIDE DEF d
<1>3. d + 1 > 100
  <2>1. d + 1 \in Nat /\ b * 100 < b * (d + 1)
    BY <1>1, <1>2
  <2>2. ASSUME d + 1 <= 100 PROVE FALSE
    <3>1. b * (d + 1) <= b * 100
      BY <1>1, <2>1, <2>2
    <3> QED
      BY <1>1, <2>1, <3>1
  <2> QED
    BY <2>1, <2>2
<1> QED
  BY <1>2, <1>3 DEF a, b, d

LEMMA CourseProgressType ==
    ASSUME NEW m \in Nat, NEW total \in Nat
    PROVE  CourseProgress(m, total) \in Nat
<1>1. CASE total = 0
  BY <1>1 DEF CourseProgress
<1>2. CASE total # 0
  <2>1. 200 * m + total \in Nat /\ 2 * total \in Nat \ {0}
    BY <1>2
  <2> QED
    BY <1>2, <2>1, Quotient DEF CourseProgress
<1> QED
  BY <1>1, <1>2

\* Rounding reaches one hundred percent early only from 200 lessons on.
LEMMA FullProgressMeansAll ==
    ASSUME NEW m \in Nat, NEW total \in 1..199,
           CourseProgress(m, total) >= 100
    PROVE  m >= total
<1> DEFINE d == (200 * m + total) \div (2 * total)
<1>1. 200 * m + total \in Nat /\ 2 * total \in Nat \ {0}
  OBVIOUS
<1>2. d \in Nat /\ (2 * total) * d <= 200 * m + total
  BY <1>1, Quotient
<1>3. d >= 100
  BY DEF CourseProgress
<1> HIDE DEF d
<1>4. (2 * total) * 100 <= (2 * total) * d
  BY <1>2, <1>3, SMT
<1>5. 200 * total <= 200 * m + total
  BY <1>2, <1>4, SMT
<1> QED
  BY <1>5, SMT

LEMMA PointerType ==
    ASSUME NEW f \in Nat, NEW total \in Nat
    PROVE  Pointer(f, total) \in Nat /\ Pointer(f, total) <= f + 1
BY DEF Pointer, Smaller, Larger

-----------------------------------------------------------------------------
(* Type correctness.  TypeOK alone is not inductive: an upsert needs to be  *)
(* about a lesson of the course, an award about a defined achievement.      *)

WellFormed ==
    \A w \in Workers : /\ At(w, "upsert") => req[w].lesson \in Lessons
                       /\ At(w, "award") => req[w].award \in Achievements

TypeInv == TypeOK /\ WellFormed

\* What a request may become without breaking TypeInv.
Good(v) == /\ v \in Request
           /\ v.pc = "upsert" => v.lesson \in Lessons
           /\ v.pc = "award" => v.award \in Achievements

LEMMA SetInv ==
    ASSUME TypeInv, NEW w \in Workers, NEW v, Good(v), Set(w, v)
    PROVE  req' \in [Workers -> Request] /\ WellFormed'
<1>1. req' \in [Workers -> Request]
  BY DEF TypeInv, TypeOK, Good, Set
<1>2. ASSUME NEW x \in Workers
      PROVE  /\ req'[x].pc = "upsert" => req'[x].lesson \in Lessons
             /\ req'[x].pc = "award" => req'[x].award \in Achievements
  <2>1. CASE x = w
    BY <2>1 DEF TypeInv, TypeOK, Good, Set
  <2>2. CASE x # w
    BY <2>2 DEF TypeInv, TypeOK, WellFormed, At, Set
  <2> QED
    BY <2>1, <2>2
<1> QED
  BY <1>1, <1>2 DEF WellFormed, At

LEMMA IdleGood == Good(Idle)
BY DEF Good, Idle, Request

LEMMA ResumeInv ==
    ASSUME TypeInv, NEW w \in Workers, NEW S \in SUBSET Achievements,
           NEW last \in BOOLEAN, Resume(w, S, last)
    PROVE  req' \in [Workers -> Request] /\ WellFormed'
<1>1. CASE S # {}
  <2>1. Good([Idle EXCEPT !.pc = "achieve", !.todo = S, !.last = last])
    BY IdleGood DEF Good, Request
  <2> QED
    BY <1>1, <2>1, SetInv DEF Resume
<1>2. CASE S = {} /\ last
  BY <1>2, IdleGood, SetInv DEF Resume
<1>3. CASE S = {} /\ ~last
  <2>1. Good([Idle EXCEPT !.pc = "findCert"])
    BY IdleGood DEF Good, Request
  <2> QED
    BY <1>3, <2>1, SetInv DEF Resume
<1> QED
  BY <1>1, <1>2, <1>3

LEMMA TypeStep == TypeInv /\ [Next]_vars => TypeInv'
<1> SUFFICES ASSUME TypeInv, [Next]_vars PROVE TypeInv'
  OBVIOUS
<1>1. ASSUME NEW w \in Workers, EnrollRead(w) PROVE TypeInv'
  <2>1. Good([Idle EXCEPT !.pc = "enroll"])
    BY IdleGood DEF Good, Request
  <2> QED
    BY <1>1, <2>1, SetInv DEF EnrollRead, TypeInv, TypeOK
<1>2. ASSUME NEW w \in Workers, EnrollCreate(w) PROVE TypeInv'
  <2>1. enrollment' \in Enrollment
    BY <1>2 DEF EnrollCreate, Enrollment, TypeInv, TypeOK
  <2> QED
    BY <1>2, <2>1, IdleGood, SetInv DEF EnrollCreate, TypeInv, TypeOK
<1>3. ASSUME NEW w \in Workers, NEW l \in Lessons, WatchRead(w, l) PROVE TypeInv'
  <2> DEFINE high(p) == Larger(progress[l].watched, p)
             completed(p) == progress[l].completed \/ high(p) >= Threshold
             v(p) == [Idle EXCEPT !.pc = "upsert", !.lesson = l,
                                  !.watched = high(p), !.completed = completed(p)]
  <2>1. PICK p \in Percents : Set(w, v(p))
    BY <1>3 DEF WatchRead
  <2>2. progress[l].watched \in 0..100 /\ progress[l].completed \in BOOLEAN
    BY DEF TypeInv, TypeOK
  <2>3. p \in 0..100 /\ Threshold \in 0..100
    BY ProgressAssumption
  <2>4. high(p) \in 0..100
    BY <2>2, <2>3 DEF Larger
  <2>5. completed(p) \in BOOLEAN /\ l \in Nat
    BY <2>2, <2>3, <2>4 DEF Lessons
  <2> HIDE DEF high, completed
  <2>6. Good(v(p))
    BY <2>4, <2>5, IdleGood DEF Good, Request
  <2> HIDE DEF v
  <2> QED
    BY <1>3, <2>1, <2>6, SetInv DEF WatchRead, TypeInv, TypeOK
<1>4. ASSUME NEW w \in Workers, NEW l \in Lessons, FinishRead(w, l) PROVE TypeInv'
  <2>1. l \in Nat /\ 100 \in 0..100
    BY DEF Lessons
  <2>2. Good([Idle EXCEPT !.pc = "upsert", !.lesson = l,
                          !.watched = 100, !.completed = TRUE])
    BY <2>1, IdleGood DEF Good, Request
  <2> QED
    BY <1>4, <2>2, SetInv DEF FinishRead, TypeInv, TypeOK
<1>5. ASSUME NEW w \in Workers, Upsert(w) PROVE TypeInv'
  <2>1. req[w] \in Request /\ req[w].lesson \in Lessons
    BY <1>5 DEF Upsert, TypeInv, TypeOK, WellFormed
  <2>2. progress' \in [Lessons -> [watched: 0..100, completed: BOOLEAN]]
    <3>1. req[w].watched \in 0..100 /\ req[w].completed \in BOOLEAN
      BY <2>1 DEF Request
    <3> QED
      BY <1>5, <3>1 DEF Upsert, TypeInv, TypeOK
  <2>3. ever' \in SUBSET Lessons
    BY <1>5, <2>1 DEF Upsert, TypeInv, TypeOK
  <2>4. Good([Idle EXCEPT !.pc = "total"])
    BY IdleGood DEF Good, Request
  <2>5. req' \in [Workers -> Request] /\ WellFormed'
    BY <1>5, <2>4, IdleGood, SetInv DEF Upsert
  <2> QED
    BY <1>5, <2>2, <2>3, <2>5 DEF Upsert, TypeInv, TypeOK
<1>6. ASSUME NEW w \in Workers, CountLessons(w) PROVE TypeInv'
  <2>1. Cardinality(published) \in Nat
    BY LessonSets DEF TypeInv, TypeOK
  <2>2. req[w] \in Request
    BY DEF TypeInv, TypeOK
  <2>3. Good([req[w] EXCEPT !.pc = "count", !.total = Cardinality(published)])
    BY <2>1, <2>2 DEF Good, Request
  <2> QED
    BY <1>6, <2>3, SetInv DEF CountLessons, TypeInv, TypeOK
<1>7. ASSUME NEW w \in Workers, CountCompleted(w) PROVE TypeInv'
  <2>1. Cardinality(Done) \in Nat
    BY LessonSets DEF Done
  <2>2. req[w] \in Request
    BY DEF TypeInv, TypeOK
  <2>3. Good([req[w] EXCEPT !.pc = "furthest", !.count = Cardinality(Done)])
    BY <2>1, <2>2 DEF Good, Request
  <2> QED
    BY <1>7, <2>3, SetInv DEF CountCompleted, TypeInv, TypeOK
<1>8. ASSUME NEW w \in Workers, FindFurthest(w) PROVE TypeInv'
  <2>1. PICK f \in Done \cup {0} :
          Set(w, [req[w] EXCEPT !.pc = "advance", !.furthest = f])
    BY <1>8 DEF FindFurthest
  <2>2. f \in Nat
    BY DEF Done, Lessons
  <2>3. req[w] \in Request
    BY DEF TypeInv, TypeOK
  <2>4. Good([req[w] EXCEPT !.pc = "advance", !.furthest = f])
    BY <2>2, <2>3 DEF Good, Request
  <2> QED
    BY <1>8, <2>1, <2>4, SetInv DEF FindFurthest, TypeInv, TypeOK
<1>9. ASSUME NEW w \in Workers, Advance(w) PROVE TypeInv'
  <2> DEFINE q == req[w]
             finished == CourseProgress(q.count, q.total) >= 100
             pointer == Pointer(q.furthest, q.total)
  <2>1. /\ q.count \in Nat /\ q.total \in Nat /\ q.furthest \in Nat
    BY DEF TypeInv, TypeOK, Request
  <2>2. finished \in BOOLEAN
    BY <2>1, CourseProgressType
  <2>3. pointer \in Nat
    BY <2>1, PointerType
  <2>4. /\ enrollment' = [enrollment EXCEPT !.pointer = pointer, !.done = q.count,
                                            !.completed = finished]
        /\ Resume(w, Achievements, ~finished)
        /\ UNCHANGED <<published, progress, ever, earned, certificate, setting>>
    BY <1>9 DEF Advance
  <2> HIDE DEF finished, pointer
  <2>5. enrollment' \in Enrollment
    BY <2>1, <2>2, <2>3, <2>4 DEF TypeInv, TypeOK, Enrollment
  <2>6. req' \in [Workers -> Request] /\ WellFormed'
    BY <2>2, <2>4, ResumeInv
  <2> QED
    BY <2>4, <2>5, <2>6 DEF TypeInv, TypeOK
<1>10. ASSUME NEW w \in Workers, CheckAchievement(w) PROVE TypeInv'
  <2> DEFINE v(a) == [req[w] EXCEPT !.pc = "award", !.award = a, !.todo = @ \ {a}]
  <2>1. PICK a \in req[w].todo :
          Set(w, v(a)) \/ Resume(w, req[w].todo \ {a}, req[w].last)
    BY <1>10 DEF CheckAchievement
  <2>2. req[w] \in Request /\ req[w].todo \in SUBSET Achievements
    BY DEF TypeInv, TypeOK, Request
  <2>3. Good(v(a))
    BY <2>2 DEF Good, Request
  <2>4. req[w].todo \ {a} \in SUBSET Achievements /\ req[w].last \in BOOLEAN
    BY <2>2 DEF Request
  <2>5. req' \in [Workers -> Request] /\ WellFormed'
    BY <2>1, <2>3, <2>4, SetInv, ResumeInv
  <2> QED
    BY <1>10, <2>5 DEF CheckAchievement, TypeInv, TypeOK
<1>11. ASSUME NEW w \in Workers, Award(w) PROVE TypeInv'
  <2>1. req[w].award \in Achievements
    BY <1>11 DEF Award, TypeInv, WellFormed
  <2>2. req[w].todo \in SUBSET Achievements /\ req[w].last \in BOOLEAN
    BY DEF TypeInv, TypeOK, Request
  <2>3. req' \in [Workers -> Request] /\ WellFormed'
    BY <1>11, <2>2, ResumeInv, IdleGood, SetInv DEF Award
  <2>4. earned' \in SUBSET Achievements
    BY <1>11, <2>1 DEF Award, TypeInv, TypeOK
  <2> QED
    BY <1>11, <2>3, <2>4 DEF Award, TypeInv, TypeOK
<1>12. ASSUME NEW w \in Workers, FindCertificate(w) PROVE TypeInv'
  <2>1. Good([Idle EXCEPT !.pc = "createCert"])
    BY IdleGood DEF Good, Request
  <2>2. req' \in [Workers -> Request] /\ WellFormed'
    BY <1>12, <2>1, SetInv, ResumeInv DEF FindCertificate
  <2> QED
    BY <1>12, <2>2 DEF FindCertificate, TypeInv, TypeOK
<1>13. ASSUME NEW w \in Workers, CreateCertificate(w) PROVE TypeInv'
  BY <1>13, ResumeInv DEF CreateCertificate, TypeInv, TypeOK
<1>14. ASSUME NEW w \in Workers, Crash(w) PROVE TypeInv'
  BY <1>14, IdleGood, SetInv DEF Crash, TypeInv, TypeOK
<1>15. ASSUME NEW l \in Lessons, SetStatus(l) PROVE TypeInv'
  BY <1>15 DEF SetStatus, TypeInv, TypeOK, WellFormed, At
<1>16. CASE UNCHANGED vars
  BY <1>16 DEF vars, TypeInv, TypeOK, WellFormed, At
<1> QED
  BY <1>1, <1>2, <1>3, <1>4, <1>5, <1>6, <1>7, <1>8, <1>9, <1>10, <1>11, <1>12,
     <1>13, <1>14, <1>15, <1>16 DEF Next

LEMMA TypeInit == Init => TypeInv
<1> SUFFICES ASSUME Init PROVE TypeInv
  OBVIOUS
<1>1. Idle \in Request
  BY IdleGood DEF Good
<1>2. enrollment \in Enrollment
  BY DEF Init, Enrollment
<1>3. TypeOK
  <2>1. progress \in [Lessons -> [watched: 0..100, completed: BOOLEAN]]
    BY DEF Init
  <2>2. req \in [Workers -> Request]
    BY <1>1 DEF Init
  <2> QED
    BY <1>2, <2>1, <2>2 DEF Init, TypeOK
<1>4. WellFormed
  BY DEF Init, WellFormed, At, Idle
<1> QED
  BY <1>3, <1>4 DEF TypeInv

\* The columns keep the ranges that the handlers assume (Prisma models
\* LessonProgress and CourseEnrollment).
THEOREM TypeCorrect == Spec => []TypeOK
<1>1. TypeInv => TypeOK
  BY DEF TypeInv
<1> QED
  BY <1>1, TypeInit, TypeStep, PTL DEF Spec

-----------------------------------------------------------------------------
(* Lessons in order.  The lock is a comparison with the pointer, and what   *)
(* it let through may be stale when the upsert runs.  What survives is that *)
(* the pointer, and every request past the lock, stay behind the history.   *)

\* Everything before lesson l has been completed at some time.
Reached(l) == 1..(l - 1) \subseteq ever

\* What a request may become without getting ahead of the history.
Behind(v) == /\ v.pc = "upsert" => Reached(v.lesson)
             /\ v.pc = "advance" => v.furthest \in ever \cup {0}

OrderInv ==
    /\ LessonsInOrder
    /\ Done \subseteq ever
    /\ Reached(enrollment.pointer)
    /\ \A w \in Workers : Behind(req[w])

\* The history only grows, so what was behind it stays behind it.
LEMMA BehindStays ==
    ASSUME ever \subseteq ever', NEW v, Behind(v)
    PROVE  /\ v.pc = "upsert" => 1..(v.lesson - 1) \subseteq ever'
           /\ v.pc = "advance" => v.furthest \in ever' \cup {0}
BY DEF Behind, Reached

\* A step of one request that moves it to v keeps every request behind.
LEMMA SetBehind ==
    ASSUME TypeInv, OrderInv, ever \subseteq ever',
           NEW w \in Workers, NEW v, Set(w, v),
           v.pc = "upsert" => 1..(v.lesson - 1) \subseteq ever',
           v.pc = "advance" => v.furthest \in ever' \cup {0}
    PROVE  (\A x \in Workers : Behind(req[x]))'
<1> SUFFICES ASSUME NEW x \in Workers
             PROVE  /\ req'[x].pc = "upsert" => 1..(req'[x].lesson - 1) \subseteq ever'
                    /\ req'[x].pc = "advance" => req'[x].furthest \in ever' \cup {0}
  BY DEF Behind, Reached
<1>1. CASE x = w
  BY <1>1 DEF Set, TypeInv, TypeOK
<1>2. CASE x # w
  <2>1. req'[x] = req[x] /\ Behind(req[x])
    BY <1>2 DEF Set, TypeInv, TypeOK, OrderInv
  <2> QED
    BY <2>1, BehindStays
<1> QED
  BY <1>1, <1>2

\* The same when neither the history, the rows nor the enrollment change.
LEMMA SetOrder ==
    ASSUME TypeInv, OrderInv, UNCHANGED <<progress, ever, enrollment>>,
           NEW w \in Workers, NEW v, Set(w, v), Behind(v)
    PROVE  OrderInv'
<1>1. (\A x \in Workers : Behind(req[x]))'
  BY BehindStays, SetBehind
<1>2. (LessonsInOrder /\ Done \subseteq ever /\ Reached(enrollment.pointer))'
  BY DEF OrderInv, LessonsInOrder, Done, Reached
<1> QED
  BY <1>1, <1>2 DEF OrderInv

LEMMA IdleBehind == Idle.pc = "idle" /\ Behind(Idle)
BY DEF Idle, Behind

\* After the loop over the achievements no request is past the lock.
LEMMA ResumeBehind ==
    ASSUME NEW w \in Workers, NEW S, NEW last \in BOOLEAN, Resume(w, S, last)
    PROVE  \E v : Set(w, v) /\ Behind(v)
<1>1. CASE S # {}
  <2> DEFINE v == [Idle EXCEPT !.pc = "achieve", !.todo = S, !.last = last]
  <2>1. v.pc = "achieve"
    BY DEF Idle
  <2>2. Behind(v)
    BY <2>1 DEF Behind
  <2> QED
    BY <1>1, <2>2 DEF Resume
<1>2. CASE S = {} /\ last
  BY <1>2, IdleBehind DEF Resume
<1>3. CASE S = {} /\ ~last
  <2> DEFINE v == [Idle EXCEPT !.pc = "findCert"]
  <2>1. v.pc = "findCert"
    BY DEF Idle
  <2>2. Behind(v)
    BY <2>1 DEF Behind
  <2> QED
    BY <1>3, <2>2 DEF Resume
<1> QED
  BY <1>1, <1>2, <1>3

\* An unlocked lesson is reached.
LEMMA UnlockedReached ==
    ASSUME TypeInv, OrderInv, NEW l \in Lessons, Unlocked(l)
    PROVE  Reached(l)
<1>1. enrollment.pointer \in Nat /\ l \in Nat /\ l <= enrollment.pointer
  BY DEF TypeInv, TypeOK, Enrollment, Unlocked, Lessons
<1>2. 1..(l - 1) \subseteq 1..(enrollment.pointer - 1)
  BY <1>1
<1> QED
  BY <1>2 DEF OrderInv, Reached

LEMMA OrderStep == TypeInv /\ OrderInv /\ [Next]_vars => OrderInv'
<1> SUFFICES ASSUME TypeInv, OrderInv, [Next]_vars PROVE OrderInv'
  OBVIOUS
<1>1. ASSUME NEW w \in Workers, EnrollRead(w) PROVE OrderInv'
  <2>1. Behind([Idle EXCEPT !.pc = "enroll"])
    BY DEF Behind, Idle
  <2> QED
    BY <1>1, <2>1, SetOrder DEF EnrollRead
<1>2. ASSUME NEW w \in Workers, EnrollCreate(w) PROVE OrderInv'
  <2>1. (\A x \in Workers : Behind(req[x]))'
    BY <1>2, IdleBehind, SetBehind DEF EnrollCreate
  <2>2. enrollment'.pointer = enrollment.pointer
    BY <1>2 DEF EnrollCreate, TypeInv, TypeOK, Enrollment
  <2> QED
    BY <1>2, <2>1, <2>2 DEF EnrollCreate, OrderInv, LessonsInOrder, Done, Reached
<1>3. ASSUME NEW w \in Workers, NEW l \in Lessons, WatchRead(w, l) PROVE OrderInv'
  <2>1. Reached(l)
    BY <1>3, UnlockedReached DEF WatchRead
  <2> DEFINE high(p) == Larger(progress[l].watched, p)
             completed(p) == progress[l].completed \/ high(p) >= Threshold
             v(p) == [Idle EXCEPT !.pc = "upsert", !.lesson = l,
                                  !.watched = high(p), !.completed = completed(p)]
  <2>2. PICK p \in Percents : Set(w, v(p))
    BY <1>3 DEF WatchRead
  <2> HIDE DEF high, completed
  <2>3. v(p).pc = "upsert" /\ v(p).lesson = l
    BY DEF Idle
  <2>4. Behind(v(p))
    BY <2>1, <2>3 DEF Behind
  <2> HIDE DEF v
  <2> QED
    BY <1>3, <2>2, <2>4, SetOrder DEF WatchRead
<1>4. ASSUME NEW w \in Workers, NEW l \in Lessons, FinishRead(w, l) PROVE OrderInv'
  <2> DEFINE v == [Idle EXCEPT !.pc = "upsert", !.lesson = l,
                               !.watched = 100, !.completed = TRUE]
  <2>1. Reached(l)
    BY <1>4, UnlockedReached DEF FinishRead
  <2>2. v.pc = "upsert" /\ v.lesson = l
    BY DEF Idle
  <2>3. Behind(v)
    BY <2>1, <2>2 DEF Behind
  <2>4. Set(w, v)
    BY <1>4 DEF FinishRead
  <2> HIDE DEF v
  <2> QED
    BY <1>4, <2>3, <2>4, SetOrder DEF FinishRead
<1>5. ASSUME NEW w \in Workers, Upsert(w) PROVE OrderInv'
  <2> DEFINE l == req[w].lesson
  <2>1. l \in Lessons /\ req[w].completed \in BOOLEAN /\ Reached(l)
    BY <1>5 DEF Upsert, TypeInv, TypeOK, WellFormed, Request, OrderInv, Behind, At
  <2>2. progress' = [progress EXCEPT ![l] = [watched |-> req[w].watched,
                                             completed |-> req[w].completed]]
    BY <1>5 DEF Upsert
  <2>3. ever' = (IF req[w].completed THEN ever \cup {l} ELSE ever)
    BY <1>5 DEF Upsert
  <2>4. Done' \subseteq ever'
    BY <2>1, <2>2, <2>3 DEF OrderInv, Done, TypeInv, TypeOK
  <2>5. LessonsInOrder'
    <3>1. CASE req[w].completed
      <4>1. 1..l \subseteq ever'
        <5>1. l \in Nat /\ 1..l = 1..(l - 1) \cup {l}
          BY <2>1 DEF Lessons
        <5> QED
          BY <2>1, <2>3, <3>1, <5>1 DEF Reached
      <4> QED
        BY <2>3, <3>1, <4>1 DEF OrderInv, LessonsInOrder
    <3>2. CASE ~req[w].completed
      BY <2>3, <3>2 DEF OrderInv, LessonsInOrder
    <3> QED
      BY <3>1, <3>2
  <2>6. (\A x \in Workers : Behind(req[x]))'
    <3>1. [Idle EXCEPT !.pc = "total"].pc = "total"
      BY DEF Idle
    <3>2. \E v : Set(w, v) /\ v.pc \in {"idle", "total"}
      BY <1>5, <3>1, IdleBehind DEF Upsert
    <3> QED
      BY <2>3, <3>2, SetBehind
  <2>7. Reached(enrollment.pointer)'
    BY <1>5, <2>3 DEF Upsert, OrderInv, Reached
  <2> QED
    BY <2>4, <2>5, <2>6, <2>7 DEF OrderInv
<1>6. ASSUME NEW w \in Workers, CountLessons(w) PROVE OrderInv'
  <2> DEFINE v == [req[w] EXCEPT !.pc = "count", !.total = Cardinality(published)]
  <2>1. v.pc = "count"
    BY DEF TypeInv, TypeOK, Request
  <2>2. Behind(v) /\ Set(w, v)
    BY <1>6, <2>1 DEF Behind, CountLessons
  <2> QED
    BY <1>6, <2>2, SetOrder DEF CountLessons
<1>7. ASSUME NEW w \in Workers, CountCompleted(w) PROVE OrderInv'
  <2> DEFINE v == [req[w] EXCEPT !.pc = "furthest", !.count = Cardinality(Done)]
  <2>1. v.pc = "furthest"
    BY DEF TypeInv, TypeOK, Request
  <2>2. Behind(v) /\ Set(w, v)
    BY <1>7, <2>1 DEF Behind, CountCompleted
  <2> QED
    BY <1>7, <2>2, SetOrder DEF CountCompleted
<1>8. ASSUME NEW w \in Workers, FindFurthest(w) PROVE OrderInv'
  <2> DEFINE v(f) == [req[w] EXCEPT !.pc = "advance", !.furthest = f]
  <2>1. PICK f \in Done \cup {0} : Set(w, v(f))
    BY <1>8 DEF FindFurthest
  <2>2. v(f).pc = "advance" /\ v(f).furthest = f
    BY DEF TypeInv, TypeOK, Request
  <2>3. Behind(v(f))
    BY <2>2 DEF Behind, OrderInv
  <2> QED
    BY <1>8, <2>1, <2>3, SetOrder DEF FindFurthest
<1>9. ASSUME NEW w \in Workers, Advance(w) PROVE OrderInv'
  <2> DEFINE q == req[w]
             p == Pointer(q.furthest, q.total)
             finished == CourseProgress(q.count, q.total) >= 100
  <2>1. q.furthest \in Nat /\ q.total \in Nat /\ q.count \in Nat
    BY DEF TypeInv, TypeOK, Request
  <2>2. p \in Nat /\ p <= q.furthest + 1
    BY <2>1, PointerType
  <2>3. finished \in BOOLEAN
    BY <2>1, CourseProgressType
  <2>4. q.furthest \in ever \cup {0}
    BY <1>9 DEF Advance, At, OrderInv, Behind
  <2>5. enrollment'.pointer = p /\ Resume(w, Achievements, ~finished)
    BY <1>9 DEF Advance, TypeInv, TypeOK, Enrollment
  <2> HIDE DEF p, finished
  <2>6. 1..(p - 1) \subseteq ever
    <3>1. 1..(p - 1) \subseteq 1..q.furthest
      BY <2>1, <2>2
    <3>2. 1..q.furthest \subseteq ever
      BY <2>4 DEF OrderInv, LessonsInOrder
    <3> QED
      BY <3>1, <3>2
  <2>7. (\A x \in Workers : Behind(req[x]))'
    <3>1. PICK v : Set(w, v) /\ Behind(v)
      BY <2>3, <2>5, ResumeBehind
    <3> QED
      BY <1>9, <3>1, BehindStays, SetBehind DEF Advance
  <2> QED
    BY <1>9, <2>5, <2>6, <2>7 DEF Advance, OrderInv, LessonsInOrder, Done, Reached
<1>10. ASSUME NEW w \in Workers, CheckAchievement(w) PROVE OrderInv'
  <2> DEFINE v(a) == [req[w] EXCEPT !.pc = "award", !.award = a, !.todo = @ \ {a}]
  <2>1. PICK a \in req[w].todo :
          Set(w, v(a)) \/ Resume(w, req[w].todo \ {a}, req[w].last)
    BY <1>10 DEF CheckAchievement
  <2>2. v(a).pc = "award" /\ req[w].last \in BOOLEAN
    BY DEF TypeInv, TypeOK, Request
  <2>3. Behind(v(a))
    BY <2>2 DEF Behind
  <2>4. PICK u : Set(w, u) /\ Behind(u)
    BY <2>1, <2>2, <2>3, ResumeBehind
  <2> QED
    BY <1>10, <2>4, SetOrder DEF CheckAchievement
<1>11. ASSUME NEW w \in Workers, Award(w) PROVE OrderInv'
  <2>1. req[w].last \in BOOLEAN
    BY DEF TypeInv, TypeOK, Request
  <2>2. PICK u : Set(w, u) /\ Behind(u)
    BY <1>11, <2>1, IdleBehind, ResumeBehind DEF Award
  <2> QED
    BY <1>11, <2>2, SetOrder DEF Award
<1>12. ASSUME NEW w \in Workers, FindCertificate(w) PROVE OrderInv'
  <2>1. [Idle EXCEPT !.pc = "createCert"].pc = "createCert"
    BY DEF Idle
  <2>2. Behind([Idle EXCEPT !.pc = "createCert"])
    BY <2>1 DEF Behind
  <2>3. PICK u : Set(w, u) /\ Behind(u)
    BY <1>12, <2>2, ResumeBehind DEF FindCertificate
  <2> QED
    BY <1>12, <2>3, SetOrder DEF FindCertificate
<1>13. ASSUME NEW w \in Workers, CreateCertificate(w) PROVE OrderInv'
  <2>1. PICK u : Set(w, u) /\ Behind(u)
    BY <1>13, ResumeBehind DEF CreateCertificate
  <2> QED
    BY <1>13, <2>1, SetOrder DEF CreateCertificate
<1>14. ASSUME NEW w \in Workers, Crash(w) PROVE OrderInv'
  BY <1>14, IdleBehind, SetOrder DEF Crash
<1>15. ASSUME NEW l \in Lessons, SetStatus(l) PROVE OrderInv'
  BY <1>15 DEF SetStatus, OrderInv, LessonsInOrder, Done, Reached, Behind
<1>16. CASE UNCHANGED vars
  BY <1>16 DEF vars, OrderInv, LessonsInOrder, Done, Reached, Behind
<1> QED
  BY <1>1, <1>2, <1>3, <1>4, <1>5, <1>6, <1>7, <1>8, <1>9, <1>10, <1>11, <1>12,
     <1>13, <1>14, <1>15, <1>16 DEF Next

LEMMA OrderInit == Init => OrderInv
<1> SUFFICES ASSUME Init PROVE OrderInv
  OBVIOUS
<1>1. \A w \in Workers : Behind(req[w])
  BY IdleBehind DEF Init
<1>2. Done = {} /\ ever = {} /\ enrollment.pointer = 1
  BY DEF Init, Done
<1> QED
  BY <1>1, <1>2 DEF OrderInv, LessonsInOrder, Reached

\* No lesson is ever completed before all the lessons before it: the lock of
\* updateProgress and completeLesson works however stale its pointer is.
THEOREM InOrder == Spec => []LessonsInOrder
<1>1. TypeInv /\ OrderInv /\ [Next]_vars => (TypeInv /\ OrderInv)'
  BY TypeStep, OrderStep
<1>2. OrderInv => LessonsInOrder
  BY DEF OrderInv
<1> QED
  BY <1>1, <1>2, TypeInit, OrderInit, PTL DEF Spec

-----------------------------------------------------------------------------
(* The certificate, in a course that nobody edits.  The two counts are read *)
(* at different times and compared later; since the history only grows they *)
(* still bound it when the certificate is created.                          *)

\* What the counts that a request carries say of the history.
Counted(v) ==
    /\ v.pc \in {"count", "furthest", "advance"} => v.total = N
    /\ v.pc \in {"furthest", "advance"} => v.count \in 0..Cardinality(ever)
    /\ v.pc \in {"achieve", "award"} /\ ~v.last => ever = Lessons
    /\ v.pc \in {"findCert", "createCert"} => ever = Lessons

CountInv ==
    /\ published = Lessons
    /\ \A w \in Workers : Counted(req[w])

LEMMA CountedStays ==
    ASSUME TypeInv, TypeInv', ever \subseteq ever', NEW v, Counted(v)
    PROVE  /\ v.pc \in {"count", "furthest", "advance"} => v.total = N
           /\ v.pc \in {"furthest", "advance"} => v.count \in 0..Cardinality(ever')
           /\ v.pc \in {"achieve", "award"} /\ ~v.last => ever' = Lessons
           /\ v.pc \in {"findCert", "createCert"} => ever' = Lessons
<1>1. ever \in SUBSET Lessons /\ ever' \in SUBSET Lessons
  BY DEF TypeInv, TypeOK
<1>2. /\ IsFiniteSet(ever') /\ Cardinality(ever') \in Nat /\ Cardinality(ever) \in Nat
  BY <1>1, LessonSets
<1>3. Cardinality(ever) <= Cardinality(ever')
  BY <1>2, FS_Subset
<1>4. v.pc \in {"furthest", "advance"} => v.count \in 0..Cardinality(ever')
  BY <1>2, <1>3 DEF Counted
<1> QED
  BY <1>1, <1>4 DEF Counted

LEMMA SetCounted ==
    ASSUME TypeInv, TypeInv', CountInv, ever \subseteq ever', published' = published,
           NEW w \in Workers, NEW v, Set(w, v), Counted(v)
    PROVE  CountInv'
<1> SUFFICES ASSUME NEW x \in Workers PROVE Counted(req[x])'
  BY DEF CountInv
<1>1. CASE x = w
  <2>1. req'[x] = v
    BY <1>1 DEF Set, TypeInv, TypeOK
  <2> QED
    BY <2>1, CountedStays DEF Counted
<1>2. CASE x # w
  <2>1. req'[x] = req[x] /\ Counted(req[x])
    BY <1>2 DEF Set, TypeInv, TypeOK, CountInv
  <2> QED
    BY <2>1, CountedStays DEF Counted
<1> QED
  BY <1>1, <1>2

\* A record whose pc carries no count says nothing of the history.
LEMMA SilentCounted ==
    ASSUME NEW v, v.pc \in {"idle", "enroll", "upsert", "total"}
    PROVE  Counted(v)
BY DEF Counted

LEMMA ResumeCounted ==
    ASSUME NEW w \in Workers, NEW S, NEW last \in BOOLEAN, Resume(w, S, last),
           ~last => ever = Lessons
    PROVE  \E v : Set(w, v) /\ Counted(v)
<1>1. CASE S # {}
  <2> DEFINE v == [Idle EXCEPT !.pc = "achieve", !.todo = S, !.last = last]
  <2>1. v.pc = "achieve" /\ v.last = last
    BY DEF Idle
  <2>2. Counted(v)
    BY <2>1 DEF Counted
  <2> QED
    BY <1>1, <2>2 DEF Resume
<1>2. CASE S = {} /\ last
  BY <1>2, IdleBehind, SilentCounted DEF Resume
<1>3. CASE S = {} /\ ~last
  <2> DEFINE v == [Idle EXCEPT !.pc = "findCert"]
  <2>1. v.pc = "findCert"
    BY DEF Idle
  <2>2. Counted(v)
    BY <1>3, <2>1 DEF Counted
  <2> QED
    BY <1>3, <2>2 DEF Resume
<1> QED
  BY <1>1, <1>2, <1>3

LEMMA CountStep ==
    ASSUME N < 200, setting # "edited"
    PROVE  TypeInv /\ TypeInv' /\ OrderInv /\ CountInv /\ [Next]_vars => CountInv'
<1> SUFFICES ASSUME TypeInv, TypeInv', OrderInv, CountInv, [Next]_vars PROVE CountInv'
  OBVIOUS
<1>0. N \in 1..199 /\ Cardinality(Lessons) = N
  BY FS_Interval, ProgressAssumption DEF Lessons
<1>1. ASSUME NEW w \in Workers, EnrollRead(w) PROVE CountInv'
  <2> DEFINE v == [Idle EXCEPT !.pc = "enroll"]
  <2>1. v.pc = "enroll"
    BY DEF Idle
  <2>2. Set(w, v)
    BY <1>1 DEF EnrollRead
  <2> HIDE DEF v
  <2> QED
    BY <1>1, <2>1, <2>2, SilentCounted, SetCounted DEF EnrollRead
<1>2. ASSUME NEW w \in Workers, EnrollCreate(w) PROVE CountInv'
  BY <1>2, IdleBehind, SilentCounted, SetCounted DEF EnrollCreate
<1>3. ASSUME NEW w \in Workers, NEW l \in Lessons, WatchRead(w, l) PROVE CountInv'
  <2> DEFINE high(p) == Larger(progress[l].watched, p)
             completed(p) == progress[l].completed \/ high(p) >= Threshold
             v(p) == [Idle EXCEPT !.pc = "upsert", !.lesson = l,
                                  !.watched = high(p), !.completed = completed(p)]
  <2>1. PICK p \in Percents : Set(w, v(p))
    BY <1>3 DEF WatchRead
  <2> HIDE DEF high, completed
  <2>2. v(p).pc = "upsert"
    BY DEF Idle
  <2> HIDE DEF v
  <2> QED
    BY <1>3, <2>1, <2>2, SilentCounted, SetCounted DEF WatchRead
<1>4. ASSUME NEW w \in Workers, NEW l \in Lessons, FinishRead(w, l) PROVE CountInv'
  <2> DEFINE v == [Idle EXCEPT !.pc = "upsert", !.lesson = l,
                               !.watched = 100, !.completed = TRUE]
  <2>1. v.pc = "upsert"
    BY DEF Idle
  <2>2. Set(w, v)
    BY <1>4 DEF FinishRead
  <2> HIDE DEF v
  <2> QED
    BY <1>4, <2>1, <2>2, SilentCounted, SetCounted DEF FinishRead
<1>5. ASSUME NEW w \in Workers, Upsert(w) PROVE CountInv'
  <2> DEFINE total == [Idle EXCEPT !.pc = "total"]
  <2>1. total.pc = "total"
    BY DEF Idle
  <2>2. Set(w, total) \/ Set(w, Idle)
    BY <1>5 DEF Upsert
  <2> HIDE DEF total
  <2>3. PICK v : Set(w, v) /\ Counted(v)
    BY <2>1, <2>2, IdleBehind, SilentCounted
  <2>4. ever \subseteq ever' /\ published' = published
    BY <1>5 DEF Upsert
  <2> QED
    BY <2>3, <2>4, SetCounted
<1>6. ASSUME NEW w \in Workers, CountLessons(w) PROVE CountInv'
  <2> DEFINE v == [req[w] EXCEPT !.pc = "count", !.total = Cardinality(published)]
  <2>1. v.pc = "count" /\ v.total = N
    BY <1>0 DEF TypeInv, TypeOK, Request, CountInv
  <2>2. Counted(v) /\ Set(w, v)
    BY <1>6, <2>1 DEF Counted, CountLessons
  <2> HIDE DEF v
  <2> QED
    BY <1>6, <2>2, SetCounted DEF CountLessons
<1>7. ASSUME NEW w \in Workers, CountCompleted(w) PROVE CountInv'
  <2> DEFINE v == [req[w] EXCEPT !.pc = "furthest", !.count = Cardinality(Done)]
  <2>1. v.pc = "furthest" /\ v.count = Cardinality(Done) /\ v.total = req[w].total
    BY DEF TypeInv, TypeOK, Request
  <2>2. Cardinality(Done) \in 0..Cardinality(ever)
    <3>1. Done \in SUBSET Lessons /\ ever \in SUBSET Lessons /\ Done \subseteq ever
      BY DEF TypeInv, TypeOK, Done, OrderInv
    <3>2. /\ IsFiniteSet(ever) /\ Cardinality(ever) \in Nat /\ Cardinality(Done) \in Nat
      BY <3>1, LessonSets
    <3>3. Cardinality(Done) <= Cardinality(ever)
      BY <3>1, <3>2, FS_Subset
    <3> QED
      BY <3>2, <3>3
  <2>3. req[w].total = N
    BY <1>7 DEF CountCompleted, At, CountInv, Counted
  <2>4. Counted(v) /\ Set(w, v)
    BY <1>7, <2>1, <2>2, <2>3 DEF Counted, CountCompleted
  <2> HIDE DEF v
  <2> QED
    BY <1>7, <2>4, SetCounted DEF CountCompleted
<1>8. ASSUME NEW w \in Workers, FindFurthest(w) PROVE CountInv'
  <2> DEFINE v(f) == [req[w] EXCEPT !.pc = "advance", !.furthest = f]
  <2>1. PICK f \in Done \cup {0} : Set(w, v(f))
    BY <1>8 DEF FindFurthest
  <2>2. v(f).pc = "advance" /\ v(f).count = req[w].count /\ v(f).total = req[w].total
    BY DEF TypeInv, TypeOK, Request
  <2>3. req[w].total = N /\ req[w].count \in 0..Cardinality(ever)
    BY <1>8 DEF FindFurthest, At, CountInv, Counted
  <2>4. Counted(v(f))
    BY <2>2, <2>3 DEF Counted
  <2> HIDE DEF v
  <2> QED
    BY <1>8, <2>1, <2>4, SetCounted DEF FindFurthest
<1>9. ASSUME NEW w \in Workers, Advance(w) PROVE CountInv'
  <2> DEFINE q == req[w]
             finished == CourseProgress(q.count, q.total) >= 100
  <2>1. q.total = N /\ q.count \in 0..Cardinality(ever) /\ q.count \in Nat
    BY <1>9 DEF Advance, At, CountInv, Counted, TypeInv, TypeOK, Request
  <2>2. finished => ever = Lessons
    <3> SUFFICES ASSUME finished PROVE ever = Lessons
      OBVIOUS
    <3>1. q.count >= N
      BY <1>0, <2>1, FullProgressMeansAll
    <3>2. ever \in SUBSET Lessons
      BY DEF TypeInv, TypeOK
    <3>3. Cardinality(ever) \in Nat /\ Cardinality(ever) <= N /\ N \in Nat
      BY <3>2, LessonSets, ProgressAssumption
    <3>4. Cardinality(ever) = N
      BY <2>1, <3>1, <3>3
    <3> QED
      BY <3>2, <3>4, LessonSets
  <2>3. finished \in BOOLEAN
    BY <1>0, <2>1, CourseProgressType
  <2>4. Resume(w, Achievements, ~finished)
    BY <1>9 DEF Advance
  <2> HIDE DEF finished
  <2>5. PICK v : Set(w, v) /\ Counted(v)
    BY <2>2, <2>3, <2>4, ResumeCounted
  <2> QED
    BY <1>9, <2>5, SetCounted DEF Advance
<1>10. ASSUME NEW w \in Workers, CheckAchievement(w) PROVE CountInv'
  <2> DEFINE v(a) == [req[w] EXCEPT !.pc = "award", !.award = a, !.todo = @ \ {a}]
  <2>1. PICK a \in req[w].todo :
          Set(w, v(a)) \/ Resume(w, req[w].todo \ {a}, req[w].last)
    BY <1>10 DEF CheckAchievement
  <2>2. v(a).pc = "award" /\ v(a).last = req[w].last /\ req[w].last \in BOOLEAN
    BY DEF TypeInv, TypeOK, Request
  <2>3. ~req[w].last => ever = Lessons
    BY <1>10 DEF CheckAchievement, At, CountInv, Counted
  <2>4. Counted(v(a))
    BY <2>2, <2>3 DEF Counted
  <2>5. PICK u : Set(w, u) /\ Counted(u)
    BY <2>1, <2>2, <2>3, <2>4, ResumeCounted
  <2> QED
    BY <1>10, <2>5, SetCounted DEF CheckAchievement
<1>11. ASSUME NEW w \in Workers, Award(w) PROVE CountInv'
  <2>1. req[w].last \in BOOLEAN
    BY DEF TypeInv, TypeOK, Request
  <2>2. ~req[w].last => ever = Lessons
    BY <1>11 DEF Award, At, CountInv, Counted
  <2>3. PICK u : Set(w, u) /\ Counted(u)
    BY <1>11, <2>1, <2>2, IdleBehind, SilentCounted, ResumeCounted DEF Award
  <2> QED
    BY <1>11, <2>3, SetCounted DEF Award
<1>12. ASSUME NEW w \in Workers, FindCertificate(w) PROVE CountInv'
  <2>1. [Idle EXCEPT !.pc = "createCert"].pc = "createCert"
    BY DEF Idle
  <2>2. ever = Lessons
    BY <1>12 DEF FindCertificate, At, CountInv, Counted
  <2>3. Counted([Idle EXCEPT !.pc = "createCert"])
    BY <2>1, <2>2 DEF Counted
  <2>4. PICK u : Set(w, u) /\ Counted(u)
    BY <1>12, <2>3, ResumeCounted DEF FindCertificate
  <2> QED
    BY <1>12, <2>4, SetCounted DEF FindCertificate
<1>13. ASSUME NEW w \in Workers, CreateCertificate(w) PROVE CountInv'
  <2>1. PICK u : Set(w, u) /\ Counted(u)
    BY <1>13, ResumeCounted DEF CreateCertificate
  <2> QED
    BY <1>13, <2>1, SetCounted DEF CreateCertificate
<1>14. ASSUME NEW w \in Workers, Crash(w) PROVE CountInv'
  BY <1>14, IdleBehind, SilentCounted, SetCounted DEF Crash
<1>15. ASSUME NEW l \in Lessons, SetStatus(l) PROVE CountInv'
  BY <1>15 DEF SetStatus
<1>16. CASE UNCHANGED vars
  BY <1>16 DEF vars, CountInv, Counted
<1> QED
  BY <1>1, <1>2, <1>3, <1>4, <1>5, <1>6, <1>7, <1>8, <1>9, <1>10, <1>11, <1>12,
     <1>13, <1>14, <1>15, <1>16 DEF Next

\* Only a request that found every lesson completed creates a certificate.
LEMMA CertificateStep ==
    ASSUME CountInv, TypeInv, [Next]_vars, ~certificate, certificate'
    PROVE  published \subseteq ever
<1>1. PICK w \in Workers : CreateCertificate(w)
  BY DEF Next, vars, EnrollRead, EnrollCreate, WatchRead, FinishRead, Upsert, CountLessons,
         CountCompleted, FindFurthest, Advance, CheckAchievement, Award,
         FindCertificate, Crash, SetStatus, TypeInv, TypeOK
<1> QED
  BY <1>1 DEF CreateCertificate, At, CountInv, Counted

\* In a course of fewer than 200 lessons that is not edited, a certificate means
\* that every published lesson was completed, whatever requests race.
THEOREM CertificateIsEarned ==
    ASSUME N < 200
    PROVE  Spec => EarnedUnlessEdited
<1> DEFINE C == setting # "edited" => CountInv
           I == TypeInv /\ OrderInv /\ C
           Earned == setting # "edited" /\ ~certificate /\ certificate'
                        => published \subseteq ever
<1>1. Init => I
  <2>1. ASSUME Init PROVE CountInv
    BY <2>1, IdleBehind, SilentCounted DEF Init, CountInv
  <2> QED
    BY <2>1, TypeInit, OrderInit
<1>2. I /\ [Next]_vars => I'
  <2>1. [Next]_vars => setting' = setting
    BY DEF Next, vars, EnrollRead, EnrollCreate, WatchRead, FinishRead, Upsert,
           CountLessons, CountCompleted, FindFurthest, Advance, CheckAchievement,
           Award, FindCertificate, CreateCertificate, Crash, SetStatus
  <2> QED
    BY <2>1, TypeStep, OrderStep, CountStep
<1>3. I /\ [Next]_vars => [Earned]_vars
  BY CertificateStep
<1> QED
  BY <1>1, <1>2, <1>3, PTL DEF Spec, EarnedUnlessEdited

-----------------------------------------------------------------------------
(* Requests that wait for each other, in a course that nobody edits.  The   *)
(* lessons completed are always the first ones, so that the count and the   *)
(* furthest lesson of updateCourseProgress are the same number.             *)

Completed == Cardinality(Done)

\* The request is between its upsert and the update of the enrollment.
Recounting(v) == v.pc \in {"total", "count", "furthest", "advance"}

\* The certificate is still to be seen to.
Certifying(v) == \/ v.pc \in {"achieve", "award"} /\ ~v.last
                 \/ v.pc \in {"findCert", "createCert"}

\* The enrollment tells what the lesson rows tell; a course of 200 lessons may be
\* finished one lesson early.
Agrees ==
    /\ enrollment.pointer = Pointer(Completed, N)
    /\ enrollment.done = Completed
    /\ Completed = N => enrollment.completed
    /\ N < 200 /\ enrollment.completed => Completed = N

\* What the one request v knows, and what it leaves to be done.
Fits(v) ==
    /\ v.pc = "upsert" => /\ v.lesson <= Completed + 1
                          /\ progress[v.lesson].completed => v.completed
    /\ v.pc \in {"count", "furthest", "advance"} => v.total = N
    /\ v.pc \in {"furthest", "advance"} => v.count = Completed
    /\ v.pc = "advance" => v.furthest = Completed
    /\ v.pc = "award" => v.award \notin earned
    /\ ~Recounting(v) => Agrees
    /\ enrollment.completed /\ ~certificate => Certifying(v)

\* The first lessons are the completed ones, and no lesson is unlocked too early.
FirstLessons ==
    /\ published = Lessons
    /\ Done = 1..Completed
    /\ enrollment.pointer <= Pointer(Completed, N)

OthersIdle(w) == \A x \in Workers \ {w} : req[x].pc = "idle"

OrderlyInv ==
    setting = "orderly" =>
        FirstLessons /\ \E w \in Workers : OthersIdle(w) /\ Fits(req[w])

LEMMA CompletedLessons == Completed \in 0..N /\ IsFiniteSet(Done)
BY LessonSets DEF Completed, Done

\* With more than none and all lessons published the pointer is the next lesson.
LEMMA NextLesson ==
    ASSUME NEW k \in 0..N
    PROVE  /\ Pointer(k, N) = IF k = N THEN N ELSE k + 1
           /\ CourseProgress(k, N) >= 100 /\ N < 200 => k = N
           /\ k = N => CourseProgress(k, N) >= 100
<1>1. N \in Nat \ {0}
  BY ProgressAssumption
<1>2. Pointer(k, N) = IF k = N THEN N ELSE k + 1
  BY <1>1 DEF Pointer, Smaller, Larger
<1>3. CourseProgress(k, N) >= 100 /\ N < 200 => k = N
  BY <1>1, FullProgressMeansAll
<1>4. ASSUME k = N PROVE CourseProgress(k, N) >= 100
  <2> DEFINE d == (200 * N + N) \div (2 * N)
  <2>1. CourseProgress(k, N) = d
    BY <1>1, <1>4 DEF CourseProgress
  <2>2. d >= 100
    BY <1>1, QuotientBelow
  <2> QED
    BY <2>1, <2>2
<1> QED
  BY <1>2, <1>3, <1>4

\* Who is admitted finds nobody else, and who is busy is the only one.
LEMMA Mine ==
    ASSUME TypeInv, OrderlyInv, setting = "orderly",
           NEW w \in Workers, req[w].pc # "idle" \/ Admit(w)
    PROVE  FirstLessons /\ OthersIdle(w) /\ Fits(req[w])
<1>1. PICK o \in Workers : FirstLessons /\ OthersIdle(o) /\ Fits(req[o])
  BY DEF OrderlyInv
<1>2. CASE w = o
  BY <1>1, <1>2
<1>3. CASE w # o
  <2>1. Admit(w)
    BY <1>1, <1>3 DEF OthersIdle
  <2>2. IsFiniteSet(Busy) /\ Cardinality(Busy) \in Nat
    BY ProgressAssumption, FS_Subset, FS_CardinalityType DEF Busy
  <2>3. Cardinality(Busy) = 0
    BY <2>1, <2>2 DEF Admit, Room
  <2>4. Busy = {}
    BY <2>2, <2>3, FS_EmptySet
  <2>5. \A x \in Workers : req[x].pc = "idle"
    BY <2>4 DEF Busy
  <2>6. Fits(req[w])
    BY <1>1, <2>5 DEF Fits, Recounting, Certifying
  <2> QED
    BY <1>1, <2>5, <2>6 DEF OthersIdle
<1> QED
  BY <1>2, <1>3

\* A step of the one request that leaves it fitting.
LEMMA Settle ==
    ASSUME TypeInv, NEW w \in Workers, OthersIdle(w), NEW v, Set(w, v),
           FirstLessons', Fits(req[w])'
    PROVE  OrderlyInv'
<1>1. OthersIdle(w)'
  BY DEF OthersIdle, Set, TypeInv, TypeOK
<1> QED
  BY <1>1 DEF OrderlyInv

\* Reading changes nothing but the request.
LEMMA FirstLessonsStay ==
    ASSUME UNCHANGED <<published, progress, enrollment>>
    PROVE  /\ FirstLessons <=> FirstLessons'
           /\ Completed' = Completed /\ Done' = Done
           /\ Agrees <=> Agrees'
BY DEF FirstLessons, Completed, Done, Agrees

\* The loop over the achievements, once nothing is to be counted any more.
LEMMA ResumeFits ==
    ASSUME TypeInv, NEW w \in Workers, NEW S, NEW last \in BOOLEAN, Resume(w, S, last),
           Agrees', enrollment'.completed /\ ~certificate' => ~last
    PROVE  Fits(req[w])' /\ \E v : Set(w, v)
<1>1. CASE S # {}
  <2>1. Set(w, [Idle EXCEPT !.pc = "achieve", !.todo = S, !.last = last])
    BY <1>1 DEF Resume
  <2>2. req'[w].pc = "achieve" /\ req'[w].last = last
    BY <2>1 DEF Set, Idle, TypeInv, TypeOK
  <2> QED
    BY <2>1, <2>2 DEF Fits, Recounting, Certifying
<1>2. CASE S = {} /\ last
  <2>1. Set(w, Idle)
    BY <1>2 DEF Resume
  <2>2. req'[w].pc = "idle"
    BY <2>1 DEF Set, Idle, TypeInv, TypeOK
  <2> QED
    BY <1>2, <2>1, <2>2 DEF Fits, Recounting, Certifying
<1>3. CASE S = {} /\ ~last
  <2>1. Set(w, [Idle EXCEPT !.pc = "findCert"])
    BY <1>3 DEF Resume
  <2>2. req'[w].pc = "findCert"
    BY <2>1 DEF Set, Idle, TypeInv, TypeOK
  <2> QED
    BY <2>1, <2>2 DEF Fits, Recounting, Certifying
<1> QED
  BY <1>1, <1>2, <1>3

LEMMA OrderlyInit == Init => OrderlyInv
<1> SUFFICES ASSUME Init PROVE OrderlyInv
  OBVIOUS
<1>1. Done = {} /\ Completed = 0
  <2>1. Done = {}
    BY DEF Init, Done
  <2> QED
    BY <2>1, FS_EmptySet DEF Completed
<1>2. N \in Nat \ {0} /\ Pointer(0, N) = 1
  BY ProgressAssumption DEF Pointer
<1>3. FirstLessons /\ Agrees
  BY <1>1, <1>2 DEF Init, FirstLessons, Agrees
<1>4. PICK w \in Workers : TRUE
  BY ProgressAssumption
<1>5. \A x \in Workers : req[x].pc = "idle"
  BY DEF Init, Idle
<1>6. OthersIdle(w) /\ Fits(req[w])
  BY <1>3, <1>5 DEF Init, OthersIdle, Fits, Recounting, Certifying
<1> QED
  BY <1>3, <1>6 DEF OrderlyInv

\* The lesson just completed was the next one or one completed before.
LEMMA UpsertLessons ==
    ASSUME TypeInv, FirstLessons, NEW w \in Workers, Fits(req[w]), Upsert(w)
    PROVE  /\ FirstLessons'
           /\ ~req[w].completed => Done' = Done
           /\ \A l \in Lessons : progress[l].completed => progress'[l].completed
<1> DEFINE q == req[w]
           c == Completed
<1>1. /\ q.lesson \in Lessons /\ q.completed \in BOOLEAN /\ q.lesson <= c + 1
      /\ progress[q.lesson].completed => q.completed
      /\ progress' = [progress EXCEPT ![q.lesson] =
                        [watched |-> q.watched, completed |-> q.completed]]
      /\ UNCHANGED <<published, enrollment>>
  BY DEF Upsert, At, TypeInv, WellFormed, TypeOK, Request, Fits
<1>2. c \in 0..N /\ Done = 1..c /\ enrollment.pointer \in Nat /\ N \in Nat \ {0}
      /\ enrollment.pointer <= Pointer(c, N)
  BY CompletedLessons, ProgressAssumption DEF FirstLessons, TypeInv, TypeOK, Enrollment
<1> HIDE DEF c
<1>3. Done' = IF q.completed THEN Done \cup {q.lesson} ELSE Done
  BY <1>1 DEF Done, TypeInv, TypeOK
<1>4. PICK k \in {c, c + 1} : Done' = 1..k /\ k \in 0..N
  <2>1. CASE ~q.completed \/ q.lesson <= c
    <3>1. Done' = 1..c
      <4>1. ASSUME q.completed PROVE Done' = 1..c
        <5>1. q.lesson \in 1..c /\ Done' = Done \cup {q.lesson}
          BY <1>1, <1>2, <1>3, <2>1, <4>1 DEF Lessons
        <5> QED
          BY <1>2, <5>1
      <4> QED
        BY <1>2, <1>3, <4>1
    <3> QED
      BY <1>2, <3>1
  <2>2. CASE q.completed /\ ~(q.lesson <= c)
    <3>1. q.lesson = c + 1 /\ c + 1 \in 0..N
      BY <1>1, <1>2, <2>2 DEF Lessons
    <3>2. Done' = 1..(c + 1)
      BY <1>2, <1>3, <2>2, <3>1
    <3> QED
      BY <3>1, <3>2
  <2> QED
    BY <2>1, <2>2
<1>5. Completed' = k
  <2>1. Cardinality(1..k) = k
    BY <1>2, <1>4, FS_Interval
  <2> QED
    BY <1>4, <2>1 DEF Completed
<1>6. Pointer(c, N) <= Pointer(k, N) /\ Pointer(c, N) \in Nat /\ Pointer(k, N) \in Nat
  BY <1>2, <1>4, NextLesson
<1>7. FirstLessons'
  <2>1. enrollment'.pointer <= Pointer(k, N)
    BY <1>1, <1>2, <1>6
  <2> QED
    BY <1>1, <1>4, <1>5, <2>1 DEF FirstLessons
<1>8. \A l \in Lessons : progress[l].completed => progress'[l].completed
  BY <1>1 DEF TypeInv, TypeOK
<1> QED
  BY <1>3, <1>7, <1>8

\* The pointer is updated to where it was or beyond.
LEMMA AdvanceAgrees ==
    ASSUME TypeInv, FirstLessons, NEW w \in Workers, Fits(req[w]), Advance(w)
    PROVE  /\ FirstLessons' /\ Agrees'
           /\ enrollment.pointer <= enrollment'.pointer
           /\ Resume(w, Achievements, ~enrollment'.completed)
           /\ enrollment'.completed \in BOOLEAN
<1> DEFINE c == Completed
           finished == CourseProgress(c, N) >= 100
<1>1. req[w].total = N /\ req[w].count = c /\ req[w].furthest = c
  BY DEF Advance, At, Fits
<1>2. /\ enrollment' = [enrollment EXCEPT !.pointer = Pointer(c, N), !.done = c,
                                          !.completed = finished]
      /\ Resume(w, Achievements, ~finished)
      /\ UNCHANGED <<published, progress>>
  BY <1>1 DEF Advance
<1>3. c \in 0..N /\ Pointer(c, N) \in Nat /\ N \in Nat \ {0} /\ finished \in BOOLEAN
  <2>1. c \in 0..N /\ N \in Nat \ {0}
    BY CompletedLessons, ProgressAssumption
  <2> HIDE DEF c
  <2>2. c \in Nat /\ Pointer(c, N) \in Nat /\ CourseProgress(c, N) \in Nat
    BY <2>1, PointerType, CourseProgressType
  <2> QED
    BY <2>1, <2>2
<1>4. Done' = Done /\ Completed' = c
  BY <1>2 DEF Completed, Done
<1>5. /\ enrollment'.pointer = Pointer(c, N) /\ enrollment'.done = c
      /\ enrollment'.completed = finished
  BY <1>2 DEF TypeInv, TypeOK, Enrollment
<1>6. finished /\ N < 200 => c = N
  BY <1>3, NextLesson
<1>7. c = N => finished
  BY <1>3, NextLesson
<1> HIDE DEF c, finished
<1>8. Agrees'
  BY <1>3, <1>4, <1>5, <1>6, <1>7 DEF Agrees
<1>9. published = Lessons /\ Done = 1..c /\ enrollment.pointer <= Pointer(c, N)
  BY DEF FirstLessons, c
<1>10. FirstLessons'
  <2>1. enrollment'.pointer <= Pointer(c, N)
    BY <1>3, <1>5
  <2> QED
    BY <1>2, <1>4, <1>5, <1>9, <2>1 DEF FirstLessons
<1> QED
  BY <1>2, <1>3, <1>5, <1>8, <1>9, <1>10

LEMMA OrderlyStep == TypeInv /\ OrderlyInv /\ [Next]_vars => OrderlyInv'
<1> SUFFICES ASSUME TypeInv, OrderlyInv, setting = "orderly", [Next]_vars PROVE OrderlyInv'
  BY DEF OrderlyInv, Next, vars, EnrollRead, EnrollCreate, WatchRead, FinishRead, Upsert,
         CountLessons, CountCompleted, FindFurthest, Advance, CheckAchievement,
         Award, FindCertificate, CreateCertificate, Crash, SetStatus
<1>0. \A w \in Workers : req[w] \in Request
  BY DEF TypeInv, TypeOK
<1>1. ASSUME NEW w \in Workers, EnrollRead(w) PROVE OrderlyInv'
  <2>1. FirstLessons /\ OthersIdle(w) /\ Fits(req[w]) /\ req[w].pc = "idle"
    BY <1>1, Mine DEF EnrollRead, Admit
  <2>2. req'[w].pc = "enroll" /\ Set(w, [Idle EXCEPT !.pc = "enroll"])
    BY <1>1 DEF EnrollRead, Set, Idle, TypeInv, TypeOK
  <2>3. FirstLessons' /\ (Agrees <=> Agrees') /\ UNCHANGED <<enrollment, certificate>>
    BY <1>1, <2>1, FirstLessonsStay DEF EnrollRead
  <2>4. Fits(req[w])'
    BY <2>1, <2>2, <2>3 DEF Fits, Recounting, Certifying
  <2> QED
    BY <2>1, <2>2, <2>3, <2>4, Settle
<1>2. ASSUME NEW w \in Workers, EnrollCreate(w) PROVE OrderlyInv'
  <2>1. FirstLessons /\ OthersIdle(w) /\ Fits(req[w]) /\ req[w].pc = "enroll"
    BY <1>2, Mine DEF EnrollCreate, At
  <2>2. req'[w].pc = "idle" /\ Set(w, Idle)
    BY <1>2 DEF EnrollCreate, Set, Idle, TypeInv, TypeOK
  <2>3. /\ UNCHANGED <<published, progress, certificate>>
        /\ enrollment'.pointer = enrollment.pointer /\ enrollment'.done = enrollment.done
        /\ enrollment'.completed = enrollment.completed
    BY <1>2 DEF EnrollCreate, TypeInv, TypeOK, Enrollment
  <2>4. FirstLessons' /\ (Agrees <=> Agrees')
    BY <2>1, <2>3 DEF FirstLessons, Agrees, Completed, Done
  <2>5. Fits(req[w])'
    BY <2>1, <2>2, <2>3, <2>4 DEF Fits, Recounting, Certifying
  <2> QED
    BY <2>1, <2>2, <2>4, <2>5, Settle
<1>3. ASSUME NEW w \in Workers, NEW l \in Lessons, WatchRead(w, l) \/ FinishRead(w, l)
      PROVE  OrderlyInv'
  <2>1. FirstLessons /\ OthersIdle(w) /\ Fits(req[w]) /\ req[w].pc = "idle"
    BY <1>3, Mine DEF WatchRead, FinishRead, Admit
  <2>2. PICK p \in 0..100, c \in BOOLEAN :
          /\ Set(w, [Idle EXCEPT !.pc = "upsert", !.lesson = l,
                                 !.watched = p, !.completed = c])
          /\ progress[l].completed => c
    <3>1. CASE FinishRead(w, l)
      <4>1. Set(w, [Idle EXCEPT !.pc = "upsert", !.lesson = l,
                                !.watched = 100, !.completed = TRUE])
        BY <3>1 DEF FinishRead
      <4>2. 100 \in 0..100 /\ TRUE \in BOOLEAN
        OBVIOUS
      <4> QED
        BY <4>1, <4>2, Zenon
    <3>2. CASE WatchRead(w, l)
      <4> DEFINE high(r) == Larger(progress[l].watched, r)
                 completed(r) == progress[l].completed \/ high(r) >= Threshold
      <4>1. PICK r \in Percents :
              Set(w, [Idle EXCEPT !.pc = "upsert", !.lesson = l,
                                  !.watched = high(r), !.completed = completed(r)])
        BY <3>2 DEF WatchRead
      <4>2. high(r) \in 0..100 /\ completed(r) \in BOOLEAN
        BY ProgressAssumption DEF TypeInv, TypeOK, Larger
      <4>3. progress[l].completed => completed(r)
        OBVIOUS
      <4> HIDE DEF high, completed
      <4> QED
        BY <4>1, <4>2, <4>3
    <3> QED
      BY <1>3, <3>1, <3>2
  <2>3. req'[w].pc = "upsert" /\ req'[w].lesson = l /\ req'[w].completed = c
    BY <2>2 DEF Set, Idle, TypeInv, TypeOK
  <2>4. UNCHANGED <<published, progress, enrollment, earned, certificate>>
    BY <1>3 DEF WatchRead, FinishRead
  <2>5. FirstLessons' /\ (Agrees <=> Agrees') /\ Completed' = Completed
    BY <2>1, <2>4, FirstLessonsStay
  <2>6. l <= Completed + 1
    <3>1. l <= enrollment.pointer /\ enrollment.pointer <= Pointer(Completed, N)
      BY <1>3, <2>1 DEF WatchRead, FinishRead, Unlocked, FirstLessons
    <3>2. Completed \in 0..N /\ enrollment.pointer \in Nat /\ l \in Nat /\ N \in Nat
      BY CompletedLessons, ProgressAssumption DEF TypeInv, TypeOK, Enrollment, Lessons
    <3> QED
      BY <3>1, <3>2, NextLesson
  <2>7. Fits(req[w])'
    BY <2>1, <2>2, <2>3, <2>4, <2>5, <2>6 DEF Fits, Recounting, Certifying
  <2> QED
    BY <2>1, <2>2, <2>5, <2>7, Settle
<1>4. ASSUME NEW w \in Workers, Upsert(w) PROVE OrderlyInv'
  <2>1. FirstLessons /\ OthersIdle(w) /\ Fits(req[w]) /\ req[w].pc = "upsert"
    BY <1>4, Mine DEF Upsert, At
  <2>2. FirstLessons' /\ (~req[w].completed => Done' = Done)
    BY <1>4, <2>1, UpsertLessons
  <2>3. \/ req[w].completed /\ Set(w, [Idle EXCEPT !.pc = "total"])
        \/ ~req[w].completed /\ Set(w, Idle)
    BY <1>4 DEF Upsert
  <2>4. UNCHANGED <<enrollment, certificate>>
    BY <1>4 DEF Upsert
  <2>5. \/ req[w].completed /\ req'[w].pc = "total"
        \/ ~req[w].completed /\ req'[w].pc = "idle"
    BY <2>3 DEF Set, Idle, TypeInv, TypeOK
  <2>6. ~req[w].completed => Agrees'
    BY <2>1, <2>2, <2>4 DEF Fits, Recounting, Agrees, Completed
  <2>7. Fits(req[w])'
    BY <2>1, <2>4, <2>5, <2>6 DEF Fits, Recounting, Certifying
  <2> QED
    BY <2>1, <2>2, <2>3, <2>7, Settle
<1>5. ASSUME NEW w \in Workers, CountLessons(w) PROVE OrderlyInv'
  <2>1. FirstLessons /\ OthersIdle(w) /\ Fits(req[w]) /\ req[w].pc = "total"
    BY <1>5, Mine DEF CountLessons, At
  <2>2. Set(w, [req[w] EXCEPT !.pc = "count", !.total = Cardinality(published)])
    BY <1>5 DEF CountLessons
  <2>3. Cardinality(published) = N
    BY <2>1, FS_Interval, ProgressAssumption DEF FirstLessons, Lessons
  <2>4. req'[w].pc = "count" /\ req'[w].total = N
    BY <1>0, <2>2, <2>3 DEF Set, TypeInv, TypeOK, Request
  <2>5. FirstLessons' /\ UNCHANGED <<enrollment, certificate>>
    BY <1>5, <2>1, FirstLessonsStay DEF CountLessons
  <2>6. Fits(req[w])'
    BY <2>1, <2>4, <2>5 DEF Fits, Recounting, Certifying
  <2> QED
    BY <2>1, <2>2, <2>5, <2>6, Settle
<1>6. ASSUME NEW w \in Workers, CountCompleted(w) PROVE OrderlyInv'
  <2>1. FirstLessons /\ OthersIdle(w) /\ Fits(req[w]) /\ req[w].pc = "count"
    BY <1>6, Mine DEF CountCompleted, At
  <2>2. Set(w, [req[w] EXCEPT !.pc = "furthest", !.count = Cardinality(Done)])
    BY <1>6 DEF CountCompleted
  <2>3. /\ FirstLessons' /\ Completed' = Completed
        /\ UNCHANGED <<enrollment, certificate>>
    BY <1>6, <2>1, FirstLessonsStay DEF CountCompleted
  <2>4. /\ req'[w].pc = "furthest" /\ req'[w].total = req[w].total
        /\ req'[w].count = Completed
    BY <1>0, <2>2 DEF Set, TypeInv, TypeOK, Request, Completed
  <2>5. Fits(req[w])'
    BY <2>1, <2>3, <2>4 DEF Fits, Recounting, Certifying
  <2> QED
    BY <2>1, <2>2, <2>3, <2>5, Settle
<1>7. ASSUME NEW w \in Workers, FindFurthest(w) PROVE OrderlyInv'
  <2>1. FirstLessons /\ OthersIdle(w) /\ Fits(req[w]) /\ req[w].pc = "furthest"
    BY <1>7, Mine DEF FindFurthest, At
  <2>2. PICK f \in Done \cup {0} :
          /\ \A l \in Done : l <= f
          /\ Set(w, [req[w] EXCEPT !.pc = "advance", !.furthest = f])
    BY <1>7 DEF FindFurthest
  <2>3. f = Completed
    <3>1. Done = 1..Completed /\ Completed \in Nat
      BY <2>1, CompletedLessons, ProgressAssumption DEF FirstLessons
    <3> QED
      BY <2>2, <3>1
  <2>4. /\ FirstLessons' /\ Completed' = Completed
        /\ UNCHANGED <<enrollment, certificate>>
    BY <1>7, <2>1, FirstLessonsStay DEF FindFurthest
  <2>5. /\ req'[w].pc = "advance" /\ req'[w].total = req[w].total
        /\ req'[w].count = req[w].count /\ req'[w].furthest = Completed
    BY <1>0, <2>2, <2>3 DEF Set, TypeInv, TypeOK, Request
  <2>6. Fits(req[w])'
    BY <2>1, <2>4, <2>5 DEF Fits, Recounting, Certifying
  <2> QED
    BY <2>1, <2>2, <2>4, <2>6, Settle
<1>8. ASSUME NEW w \in Workers, Advance(w) PROVE OrderlyInv'
  <2>1. FirstLessons /\ OthersIdle(w) /\ Fits(req[w])
    BY <1>8, Mine DEF Advance, At
  <2>2. /\ FirstLessons' /\ Agrees' /\ enrollment'.completed \in BOOLEAN
        /\ Resume(w, Achievements, ~enrollment'.completed)
    BY <1>8, <2>1, AdvanceAgrees
  <2>3. PICK last \in BOOLEAN : last = ~enrollment'.completed
    BY <2>2
  <2>4. Fits(req[w])' /\ \E v : Set(w, v)
    BY <2>2, <2>3, ResumeFits
  <2> QED
    BY <2>1, <2>2, <2>4, Settle
<1>9. ASSUME NEW w \in Workers, CheckAchievement(w) PROVE OrderlyInv'
  <2>1. FirstLessons /\ OthersIdle(w) /\ Fits(req[w]) /\ req[w].pc = "achieve"
    BY <1>9, Mine DEF CheckAchievement, At
  <2>2. UNCHANGED <<published, progress, enrollment, earned, certificate>>
    BY <1>9 DEF CheckAchievement
  <2>3. FirstLessons' /\ Agrees'
    BY <2>1, <2>2, FirstLessonsStay DEF Fits, Recounting
  <2>4. enrollment.completed /\ ~certificate => ~req[w].last
    BY <2>1 DEF Fits, Certifying
  <2>5. PICK a \in req[w].todo :
          \/ /\ a \notin earned
             /\ Set(w, [req[w] EXCEPT !.pc = "award", !.award = a, !.todo = @ \ {a}])
          \/ Resume(w, req[w].todo \ {a}, req[w].last)
    BY <1>9 DEF CheckAchievement
  <2>6. CASE Resume(w, req[w].todo \ {a}, req[w].last)
    <3>1. req[w].last \in BOOLEAN
      BY <1>0 DEF Request
    <3>2. Fits(req[w])' /\ \E v : Set(w, v)
      BY <2>2, <2>3, <2>4, <2>6, <3>1, ResumeFits
    <3> QED
      BY <2>1, <2>3, <3>2, Settle
  <2>7. CASE /\ a \notin earned
             /\ Set(w, [req[w] EXCEPT !.pc = "award", !.award = a, !.todo = @ \ {a}])
    <3>1. /\ req'[w].pc = "award" /\ req'[w].award = a /\ req'[w].last = req[w].last
      BY <1>0, <2>7 DEF Set, TypeInv, TypeOK, Request
    <3>2. Fits(req[w])'
      BY <2>2, <2>3, <2>4, <2>7, <3>1 DEF Fits, Recounting, Certifying
    <3> QED
      BY <2>1, <2>3, <2>7, <3>2, Settle
  <2> QED
    BY <2>5, <2>6, <2>7
<1>10. ASSUME NEW w \in Workers, Award(w) PROVE OrderlyInv'
  <2>1. FirstLessons /\ OthersIdle(w) /\ Fits(req[w]) /\ req[w].pc = "award"
    BY <1>10, Mine DEF Award, At
  <2>2. Resume(w, req[w].todo, req[w].last)
        /\ UNCHANGED <<published, progress, enrollment, certificate>>
    BY <1>10, <2>1 DEF Award, Fits
  <2>3. FirstLessons' /\ Agrees'
    BY <2>1, <2>2, FirstLessonsStay DEF Fits, Recounting
  <2>4. enrollment.completed /\ ~certificate => ~req[w].last
    BY <2>1 DEF Fits, Certifying
  <2>5. req[w].last \in BOOLEAN
    BY <1>0 DEF Request
  <2>6. Fits(req[w])' /\ \E v : Set(w, v)
    BY <2>2, <2>3, <2>4, <2>5, ResumeFits
  <2> QED
    BY <2>1, <2>3, <2>6, Settle
<1>11. ASSUME NEW w \in Workers, FindCertificate(w) PROVE OrderlyInv'
  <2>1. FirstLessons /\ OthersIdle(w) /\ Fits(req[w]) /\ req[w].pc = "findCert"
    BY <1>11, Mine DEF FindCertificate, At
  <2>2. UNCHANGED <<published, progress, enrollment, earned, certificate>>
    BY <1>11 DEF FindCertificate
  <2>3. FirstLessons' /\ Agrees'
    BY <2>1, <2>2, FirstLessonsStay DEF Fits, Recounting
  <2>4. CASE certificate
    <3>1. Resume(w, Achievements, TRUE)
      BY <1>11, <2>4 DEF FindCertificate
    <3>2. Fits(req[w])' /\ \E v : Set(w, v)
      BY <2>2, <2>3, <2>4, <3>1, ResumeFits
    <3> QED
      BY <2>1, <2>3, <3>2, Settle
  <2>5. CASE ~certificate
    <3>1. Set(w, [Idle EXCEPT !.pc = "createCert"])
      BY <1>11, <2>5 DEF FindCertificate
    <3>2. req'[w].pc = "createCert"
      BY <3>1 DEF Set, Idle, TypeInv, TypeOK
    <3>3. Fits(req[w])'
      BY <2>3, <3>2 DEF Fits, Recounting, Certifying
    <3> QED
      BY <2>1, <2>3, <3>1, <3>3, Settle
  <2> QED
    BY <2>4, <2>5
<1>12. ASSUME NEW w \in Workers, CreateCertificate(w) PROVE OrderlyInv'
  <2>1. FirstLessons /\ OthersIdle(w) /\ Fits(req[w]) /\ req[w].pc = "createCert"
    BY <1>12, Mine DEF CreateCertificate, At
  <2>2. Resume(w, Achievements, TRUE) /\ certificate'
        /\ UNCHANGED <<published, progress, enrollment>>
    BY <1>12 DEF CreateCertificate
  <2>3. FirstLessons' /\ Agrees'
    BY <2>1, <2>2, FirstLessonsStay DEF Fits, Recounting
  <2>4. Fits(req[w])' /\ \E v : Set(w, v)
    BY <2>2, <2>3, ResumeFits
  <2> QED
    BY <2>1, <2>3, <2>4, Settle
<1>13. CASE UNCHANGED vars
  BY <1>13 DEF vars, OrderlyInv, FirstLessons, OthersIdle, Fits, Recounting, Certifying,
               Agrees, Completed, Done
<1> QED
  BY <1>1, <1>2, <1>3, <1>4, <1>5, <1>6, <1>7, <1>8, <1>9, <1>10, <1>11, <1>12,
     <1>13 DEF Next, Crash, SetStatus

LEMMA Orderly == Spec => [](TypeInv /\ OrderlyInv)
<1>1. TypeInv /\ OrderlyInv /\ [Next]_vars => (TypeInv /\ OrderlyInv)'
  BY TypeStep, OrderlyStep
<1> QED
  BY <1>1, TypeInit, OrderlyInit, PTL DEF Spec

\* At rest nobody is recounting, so the enrollment agrees with the lessons.
LEMMA AtRest ==
    ASSUME TypeInv, OrderlyInv, Quiet
    PROVE  /\ FirstLessons /\ Agrees /\ Completed \in 0..N
           /\ enrollment.completed => certificate
<1>1. PICK w \in Workers : FirstLessons /\ OthersIdle(w) /\ Fits(req[w])
  BY DEF OrderlyInv, Quiet
<1>2. req[w].pc = "idle"
  BY DEF Quiet, Busy
<1> QED
  BY <1>1, <1>2, CompletedLessons DEF Fits, Recounting, Certifying, TypeInv, TypeOK

\* With requests that wait for each other the learner always has an unlocked lesson
\* to go on with, in a course of any length.
THEOREM AlwaysALesson == Spec => []NobodyStuck
<1>1. TypeInv /\ OrderlyInv => NobodyStuck
  <2> SUFFICES ASSUME TypeInv, OrderlyInv, Quiet, enrollment.made, ~enrollment.completed
               PROVE  \E l \in published : Unlocked(l) /\ ~progress[l].completed
    BY DEF NobodyStuck
  <2>1. /\ published = Lessons /\ Done = 1..Completed /\ Completed \in 0..N
        /\ enrollment.pointer = Pointer(Completed, N) /\ Completed # N /\ N \in Nat
    BY AtRest, ProgressAssumption DEF FirstLessons, Agrees
  <2>2. enrollment.pointer = Completed + 1
    BY <2>1, NextLesson
  <2>3. Completed + 1 \in Lessons /\ Completed + 1 \notin Done /\ Completed + 1 <= Completed + 1
    BY <2>1 DEF Lessons
  <2>4. Unlocked(Completed + 1)
    BY <2>2, <2>3 DEF Unlocked
  <2> QED
    BY <2>1, <2>3, <2>4 DEF Done
<1> QED
  BY <1>1, Orderly, PTL

\* The enrollment says what the lesson rows say, and a finished course has its
\* certificate, in a course of fewer than 200 lessons.
THEOREM EnrollmentIsTrue ==
    ASSUME N < 200
    PROVE  Spec => []EnrollmentTellsTruth
<1>1. TypeInv /\ OrderlyInv => EnrollmentTellsTruth
  <2> SUFFICES ASSUME TypeInv, OrderlyInv, Quiet
               PROVE  /\ enrollment.done = Cardinality(Done)
                      /\ enrollment.completed <=> published \subseteq Done
                      /\ enrollment.completed => certificate
    BY DEF EnrollmentTellsTruth, EnrollmentAgrees, CompletedCourseHasCertificate
  <2>1. /\ published = Lessons /\ Done = 1..Completed /\ Completed \in 0..N
        /\ enrollment.done = Completed /\ (enrollment.completed <=> Completed = N)
        /\ N \in Nat \ {0}
        /\ enrollment.completed => certificate
    BY AtRest, ProgressAssumption DEF FirstLessons, Agrees, TypeInv, TypeOK, Enrollment
  <2>2. Lessons \subseteq Done <=> Completed = N
    <3>1. N \in Lessons
      BY <2>1 DEF Lessons
    <3> QED
      BY <2>1, <3>1 DEF Lessons
  <2> QED
    BY <2>1, <2>2 DEF Completed
<1> QED
  BY <1>1, Orderly, PTL

\* No request takes back a lesson or locks one again, when requests wait for each
\* other.
THEOREM NothingLost == Spec => NothingTakenBack
<1> DEFINE Kept == setting = "orderly" =>
                     /\ enrollment.pointer <= enrollment'.pointer
                     /\ \A l \in Lessons : progress[l].completed => progress'[l].completed
<1>1. TypeInv /\ OrderlyInv /\ [Next]_vars => [Kept]_vars
  <2> SUFFICES ASSUME TypeInv, OrderlyInv, Next, setting = "orderly"
               PROVE  /\ enrollment.pointer <= enrollment'.pointer
                      /\ \A l \in Lessons : progress[l].completed => progress'[l].completed
    OBVIOUS
  <2>1. ASSUME NEW w \in Workers, Upsert(w)
        PROVE  \A l \in Lessons : progress[l].completed => progress'[l].completed
    <3>1. FirstLessons /\ Fits(req[w])
      BY <2>1, Mine DEF Upsert, At
    <3> QED
      BY <2>1, <3>1, UpsertLessons
  <2>2. ASSUME NEW w \in Workers, Advance(w) PROVE enrollment.pointer <= enrollment'.pointer
    <3>1. FirstLessons /\ Fits(req[w])
      BY <2>2, Mine DEF Advance, At
    <3> QED
      BY <2>2, <3>1, AdvanceAgrees
  <2>3. enrollment.pointer \in Nat /\ enrollment.pointer <= enrollment.pointer
    BY DEF TypeInv, TypeOK, Enrollment
  <2>4. ASSUME NEW w \in Workers, EnrollCreate(w)
        PROVE  enrollment'.pointer = enrollment.pointer
    BY <2>4 DEF EnrollCreate, TypeInv, TypeOK, Enrollment
  <2>5. \/ \E w \in Workers : Upsert(w) /\ UNCHANGED enrollment
        \/ \E w \in Workers : Advance(w) /\ UNCHANGED progress
        \/ \E w \in Workers : EnrollCreate(w) /\ UNCHANGED progress
        \/ UNCHANGED <<progress, enrollment>>
    BY DEF Next, EnrollRead, EnrollCreate, WatchRead, FinishRead, Upsert,
           CountLessons, CountCompleted, FindFurthest, Advance, CheckAchievement,
           Award, FindCertificate, CreateCertificate, Crash, SetStatus
  <2> QED
    BY <2>1, <2>2, <2>3, <2>4, <2>5
<1> QED
  BY <1>1, Orderly, PTL DEF Spec, NothingTakenBack

-----------------------------------------------------------------------------
(***************************************************************************)
(* The pages.  A cached answer is sound when it is what the server would   *)
(* say now, or a mutation that was answered is about to invalidate it.     *)
(* Every answer that counts as fresh, is on its way or stays on the screen *)
(* unasked is sound, so when nothing is under way the screen is right; a   *)
(* completion that is shown is at the server, or its save is in flight.    *)
(***************************************************************************)

Queries == [val : Answers \cup {Nothing}, fresh : BOOLEAN,
            fetch : Answers \cup {Unasked, Asked}]

Players == [completed: BOOLEAN, finished: BOOLEAN, playing: BOOLEAN,
            running: BOOLEAN, level: Levels]

Seens == [lesson: 0..N, done: BOOLEAN, watched: Levels]

ServerTyped ==
    /\ reading \in Readings /\ enrolled \in BOOLEAN
    /\ watched \in [Lessons -> Levels] /\ done \subseteq Lessons

FlightTyped ==
    /\ flight \subseteq Mutations
    /\ IsFiniteSet(flight) /\ Cardinality(flight) <= MaxSaves

PageTyped == at \in Keys /\ seen \in Seens /\ player \in Players

Typed ==
    /\ ServerTyped /\ astray \in BOOLEAN
    /\ cache \in [Keys -> Queries] /\ FlightTyped /\ PageTyped

\* A mutation that was answered will invalidate k.
Due(k) == \E m \in flight : m.answered /\ k \in Stale(m)

Sound(k, val) == val = Answer(k) \/ Due(k)

FreshOK(k) == cache[k].fresh => cache[k].val # Nothing /\ Sound(k, cache[k].val)

FetchOK(k) ==
    /\ cache[k].fetch \notin {Unasked, Asked} => Sound(k, cache[k].fetch)
    /\ cache[k].fetch # Unasked => Ready(k)

\* What is on the screen and not asked for again.
ShownOK(k) ==
    k \in Mounted(at) /\ Ready(k) /\ cache[k].fetch = Unasked
        => cache[k].val # Nothing /\ Sound(k, cache[k].val)

CacheOK == \A k \in Keys : FreshOK(k) /\ FetchOK(k) /\ ShownOK(k)

\* An answer, however old, tells of no lesson that is not done.
Past(val) == val \in Answers => val.done \subseteq done

PastOK == \A k \in Keys : Past(cache[k].val) /\ Past(cache[k].fetch)

Sensible(m) ==
    /\ m.op = "enroll" <=> m.lesson = 0
    /\ m.op = "complete" => m.level = Finish

\* What was answered has been done.
FlightOK ==
    \A m \in flight :
        /\ Sensible(m)
        /\ m.answered /\ m.op # "enroll" /\ m.level >= Enough => m.lesson \in done

Finishes(m) == m.op # "enroll" /\ m.lesson = at /\ m.level = Finish

CompletedOK ==
    at \in Lessons /\ player.completed => at \in done \/ \E m \in flight : Finishes(m)

DoneInOrder == \E k \in 0..N : done = 1..k

PlayerInv ==
    /\ Typed /\ DoneInOrder
    /\ ~astray => CacheOK /\ PastOK /\ FlightOK /\ CompletedOK

-----------------------------------------------------------------------------
\* The placeholders of the cache are not answers, and not each other.
LEMMA Placeholders ==
    /\ Nothing \notin Answers /\ Unasked \notin Answers /\ Asked \notin Answers
    /\ Unasked # Asked /\ Unasked # Nothing
<1>1. DOMAIN Nothing = {"nothing"} /\ DOMAIN Unasked = {"nothing"} /\ DOMAIN Asked = {"asked"}
  BY DEF Nothing, Unasked, Asked
<1>2. Nothing.nothing = TRUE /\ Unasked.nothing = FALSE
  BY DEF Nothing, Unasked
<1>3. \A a \in Answers : "done" \in DOMAIN a
  BY DEF Answers
<1>4. "done" # "nothing" /\ "done" # "asked" /\ "nothing" # "asked"
  OBVIOUS
<1>5. Unasked # Asked
  BY <1>1, <1>4
<1> QED
  BY <1>1, <1>2, <1>3, <1>4, <1>5

\* The course is no lesson.
LEMMA KeyFacts ==
    /\ Course \in Keys /\ Course \notin Lessons
    /\ Lessons \subseteq Keys /\ Keys = {Course} \cup Lessons
BY PlayerAssumption DEF Course, Keys, Lessons

\* What the server answers.
LEMMA AnswerTyped ==
    ASSUME ServerTyped, NEW k \in Keys
    PROVE  /\ Answer(k) \in Answers
           /\ Answer(k).done \subseteq done
           /\ k = Course => Answer(k).done = done
<1> DEFINE e == k = Course /\ enrolled
           d == IF k = Course THEN done ELSE done \cap {k}
           w == IF k \in Lessons THEN watched[k] ELSE 0
<1>1. Answer(k) = [enrolled |-> e, done |-> d, watched |-> w]
  BY DEF Answer
<1>2. e \in BOOLEAN /\ d \in SUBSET Lessons /\ d \subseteq done /\ (k = Course => d = done)
  BY DEF ServerTyped
<1>3. w \in Levels
  BY DEF ServerTyped, Levels
<1> HIDE DEF e, d, w
<1> QED
  BY <1>1, <1>2, <1>3 DEF Answers

\* The lesson the enrollment points to.
LEMMA PointerIs ==
    ASSUME NEW k \in 0..N
    PROVE  PointerTo(1..k) = IF k = N THEN N ELSE k + 1
<1> DEFINE q == IF k = N THEN N ELSE k + 1
           Furthest(p) == /\ p = N \/ p \notin 1..k
                          /\ \A l \in 1..k : l <= p
                          /\ p = 1 \/ p - 1 \in 1..k
<1>1. q \in Lessons /\ Furthest(q)
  BY PlayerAssumption DEF Lessons
<1>2. ASSUME NEW p \in Lessons, Furthest(p) PROVE p = q
  <2>1. CASE k = 0
    BY <1>2, <2>1, PlayerAssumption DEF Lessons
  <2>2. CASE k > 0
    <3>1. k \in 1..k
      BY <2>2
    <3>2. k <= p /\ (p = 1 \/ p - 1 <= k)
      BY <1>2, <3>1
    <3> QED
      BY <1>2, <2>2, <3>2, PlayerAssumption DEF Lessons
  <2> QED
    BY <2>1, <2>2
<1> HIDE DEF q
<1>3. (CHOOSE p \in Lessons : Furthest(p)) = q
  BY <1>1, <1>2
<1> QED
  BY <1>3 DEF PointerTo, q

-----------------------------------------------------------------------------
\* The keys that pages mount and mutations invalidate.
LEMMA KeySets ==
    /\ \A page \in Keys : Mounted(page) \subseteq Keys
    /\ \A m : Stale(m) \subseteq Keys /\ Course \in Stale(m)
    /\ \A m : m.op # "enroll" => Stale(m) = Keys
BY KeyFacts DEF Mounted, Stale

\* A mutation as the page sends it.
LEMMA MutationFields ==
    ASSUME NEW op \in {"enroll", "complete", "save"}, NEW l \in 0..N, NEW level \in Levels
    PROVE  LET m == Mutation(op, l, level)
           IN  m \in Mutations /\ m.op = op /\ m.lesson = l /\ m.level = level /\ ~m.answered
BY DEF Mutation, Mutations

\* Sending it keeps the bound.
LEMMA SendTyped ==
    ASSUME FlightTyped, NEW m \in Mutations, Send(m)
    PROVE  FlightTyped' /\ flight' = flight \cup {m}
<1>1. flight' = flight \cup {m} /\ Cardinality(flight') <= MaxSaves
  BY DEF Send
<1>2. IsFiniteSet(flight \cup {m})
  BY FS_AddElement DEF FlightTyped
<1> QED
  BY <1>1, <1>2 DEF FlightTyped

\* One less, or one for another, keeps it too.
LEMMA RemoveTyped ==
    ASSUME FlightTyped, NEW m \in flight
    PROVE  /\ IsFiniteSet(flight \ {m})
           /\ Cardinality(flight \ {m}) = Cardinality(flight) - 1
           /\ Cardinality(flight) \in Nat
<1> QED
  BY FS_RemoveElement, FS_CardinalityType DEF FlightTyped

LEMMA ReplaceTyped ==
    ASSUME FlightTyped, NEW m \in flight, NEW n \in Mutations, flight' = (flight \ {m}) \cup {n}
    PROVE  FlightTyped'
<1> DEFINE S == flight \ {m}
<1>1. IsFiniteSet(S) /\ Cardinality(S) = Cardinality(flight) - 1 /\ Cardinality(flight) \in Nat
  BY RemoveTyped
<1>2. /\ IsFiniteSet(S \cup {n})
      /\ \/ Cardinality(S \cup {n}) = Cardinality(S)
         \/ Cardinality(S \cup {n}) = Cardinality(S) + 1
  BY <1>1, FS_AddElement
<1>3. S \cup {n} \subseteq Mutations
  BY DEF FlightTyped
<1>4. Cardinality(S \cup {n}) <= MaxSaves
  <2>1. Cardinality(flight) <= MaxSaves
    BY DEF FlightTyped
  <2> HIDE DEF S
  <2> QED
    BY <1>1, <1>2, <2>1, PlayerAssumption
<1> QED
  BY <1>2, <1>3, <1>4 DEF FlightTyped

LEMMA DropTyped ==
    ASSUME FlightTyped, NEW m \in flight, flight' = flight \ {m}
    PROVE  FlightTyped'
<1>1. /\ IsFiniteSet(flight \ {m})
      /\ Cardinality(flight \ {m}) = Cardinality(flight) - 1 /\ Cardinality(flight) \in Nat
  BY RemoveTyped
<1>2. flight \ {m} \subseteq Mutations /\ Cardinality(flight) <= MaxSaves
  BY DEF FlightTyped
<1>3. Cardinality(flight \ {m}) <= MaxSaves
  BY <1>1, <1>2, PlayerAssumption
<1> QED
  BY <1>1, <1>2, <1>3 DEF FlightTyped

\* A page that closes takes no mutation back.
Left == {[m EXCEPT !.here = FALSE] : m \in flight}

LEMMA LeaveTyped ==
    ASSUME FlightTyped, flight' = Left
    PROVE  FlightTyped'
<1> DEFINE f == [m \in flight |-> [m EXCEPT !.here = FALSE]]
<1>1. f \in Surjection(flight, Left)
  BY Zenon DEF Surjection, Left
<1>2. IsFiniteSet(Left) /\ Cardinality(Left) <= Cardinality(flight)
  BY <1>1, FS_Surjection DEF FlightTyped
<1>3. Left \subseteq Mutations
  BY DEF Left, FlightTyped, Mutations
<1>4. Cardinality(Left) \in Nat /\ Cardinality(flight) \in Nat
  BY <1>2, FS_CardinalityType DEF FlightTyped
<1>5. Cardinality(Left) <= MaxSaves
  BY <1>2, <1>4, PlayerAssumption DEF FlightTyped
<1> QED
  BY <1>2, <1>3, <1>5 DEF FlightTyped

-----------------------------------------------------------------------------
\* What the learner does on a page, as far as the rest of it is concerned.
Learns ==
    /\ UNCHANGED <<server, astray, cache, at, seen>>
    /\ player' \in Players
    /\ flight' = flight \/ \E m \in Mutations : Send(m) /\ ~m.answered /\ Sensible(m)
    /\ player'.completed =>
           player.completed \/ at \notin Lessons \/ \E m \in flight' : Finishes(m)

LEMMA ActsLearn ==
    ASSUME Typed, Acts
    PROVE  Learns \/ \E p \in Keys : Visit(p)
<1>0. player \in Players
  BY DEF Typed, PageTyped
<1> SUFFICES ASSUME ~\E p \in Keys : Visit(p) PROVE Learns
  OBVIOUS
<1>1. CASE Enroll
  <2>1. Send(Mutation("enroll", 0, 0)) /\ UNCHANGED <<server, astray, cache, at, seen, player>>
    BY <1>1 DEF Enroll
  <2>2. 0 \in 0..N /\ 0 \in Levels
    BY PlayerAssumption DEF Levels
  <2>3. Sensible(Mutation("enroll", 0, 0))
    BY <2>2, MutationFields DEF Sensible
  <2> QED
    BY <1>0, <2>1, <2>2, <2>3, MutationFields DEF Learns
<1>2. CASE Dismiss
  <2>1. /\ player' = [player EXCEPT !.finished = FALSE]
        /\ UNCHANGED <<server, astray, cache, flight, at, seen>>
    BY <1>2 DEF Dismiss
  <2>2. player' \in Players /\ player'.completed = player.completed
    BY <1>0, <2>1 DEF Players
  <2> QED
    BY <2>1, <2>2 DEF Learns
<1>3. ASSUME NEW l \in Lessons, NEW op \in {"complete", "save"}, NEW level \in Levels,
             op = "complete" => level = Finish,
             Send(Mutation(op, l, level)), at = l,
             UNCHANGED <<server, astray, cache, at, seen>>, player' \in Players,
             player'.completed => player.completed \/ level = Finish
      PROVE  Learns
  <2> DEFINE m == Mutation(op, l, level)
  <2>1. l \in 0..N /\ l # 0
    BY DEF Lessons
  <2>2. m \in Mutations /\ m.op = op /\ m.lesson = l /\ m.level = level /\ ~m.answered
    BY <2>1, MutationFields
  <2>3. Sensible(m)
    BY <1>3, <2>1, <2>2 DEF Sensible
  <2>4. m \in flight'
    BY <1>3 DEF Send
  <2>5. level = Finish => Finishes(m)
    BY <1>3, <2>2 DEF Finishes
  <2> HIDE DEF m
  <2>6. Send(m)
    BY <1>3 DEF m
  <2> QED
    BY <1>3, <2>2, <2>3, <2>4, <2>5, <2>6 DEF Learns
<1>l. player.level \in Levels /\ Finish \in Levels
  BY <1>0 DEF Players, Levels, Finish
<1>4. ASSUME NEW l \in Lessons, MarkComplete(l) PROVE Learns
  <2>1. /\ at = l /\ Send(Mutation("complete", l, Finish))
        /\ UNCHANGED <<server, astray, cache, at, seen, player>>
    BY <1>4 DEF MarkComplete, Shows
  <2> QED
    BY <1>0, <1>3, <1>l, <2>1
<1>5. ASSUME NEW l \in Lessons, Play(l) PROVE Learns
  <2>1. /\ player' = [player EXCEPT !.running = TRUE, !.playing = TRUE]
        /\ UNCHANGED <<server, astray, cache, flight, at, seen>>
    BY <1>5 DEF Play
  <2>2. player' \in Players /\ player'.completed = player.completed
    BY <1>0, <2>1 DEF Players
  <2> QED
    BY <2>1, <2>2 DEF Learns
<1>6. ASSUME NEW l \in Lessons, Pause(l) PROVE Learns
  <2>1. /\ at = l /\ Send(Mutation("save", l, player.level))
        /\ player' = [player EXCEPT !.running = FALSE, !.playing = FALSE]
        /\ UNCHANGED <<server, astray, cache, at, seen>>
    BY <1>6 DEF Pause, Video, Shows
  <2>2. player' \in Players /\ player'.completed = player.completed
    BY <1>0, <2>1 DEF Players
  <2> QED
    BY <1>3, <1>l, <2>1, <2>2
<1>7. ASSUME NEW l \in Lessons, Ends(l) PROVE Learns
  <2>1. /\ at = l /\ Send(Mutation("save", l, Finish))
        /\ player' = [player EXCEPT !.running = FALSE, !.playing = FALSE, !.completed = TRUE]
        /\ UNCHANGED <<server, astray, cache, at, seen>>
    BY <1>7 DEF Ends, Video, Shows
  <2>2. player' \in Players
    BY <1>0, <2>1 DEF Players
  <2> QED
    BY <1>3, <1>l, <2>1, <2>2
<1>8. ASSUME NEW l \in Lessons, AutoSave(l) PROVE Learns
  <2>1. /\ at = l /\ Send(Mutation("save", l, player.level))
        /\ UNCHANGED <<server, astray, cache, at, seen, player>>
    BY <1>8 DEF AutoSave, Video, Shows
  <2> QED
    BY <1>0, <1>3, <1>l, <2>1
<1>9. ASSUME NEW l \in Lessons, NEW p \in Levels, Seek(l, p) PROVE Learns
  <2>1. /\ at = l /\ Send(Mutation("save", l, p))
        /\ UNCHANGED <<server, astray, cache, at, seen, player>>
    BY <1>9 DEF Seek, Video, Shows
  <2> QED
    BY <1>0, <1>3, <2>1
<1>10. ASSUME NEW l \in Lessons, NEW p \in Levels, Watch(l, p) PROVE Learns
  <2> DEFINE ends == p = Finish /\ ~player.completed
  <2>1. /\ at = l
        /\ player' = [player EXCEPT !.level = p, !.completed = @ \/ ends,
                                    !.finished = @ \/ (ends /\ l = N)]
        /\ IF ends THEN Send(Mutation("save", l, Finish)) ELSE UNCHANGED flight
        /\ UNCHANGED <<server, astray, cache, at, seen>>
    BY <1>10 DEF Watch, Video, Shows
  <2>2. player' \in Players /\ player'.completed = (player.completed \/ ends)
    <3>1. ends \in BOOLEAN /\ (ends /\ l = N) \in BOOLEAN
      OBVIOUS
    <3> HIDE DEF ends
    <3> QED
      BY <1>0, <2>1, <3>1 DEF Players
  <2>3. CASE ends
    BY <1>3, <1>l, <2>1, <2>2, <2>3
  <2>4. CASE ~ends
    BY <2>1, <2>2, <2>4 DEF Learns
  <2> QED
    BY <2>3, <2>4
<1> QED
  BY <1>1, <1>2, <1>4, <1>5, <1>6, <1>7, <1>8, <1>9, <1>10 DEF Acts

-----------------------------------------------------------------------------
(* Every step keeps the types. *)

LEMMA InitTyped == PlayerInit => Typed
<1> SUFFICES ASSUME PlayerInit PROVE Typed
  OBVIOUS
<1>0. /\ reading \in Readings /\ enrolled = FALSE /\ watched = [l \in Lessons |-> 0]
      /\ done = {} /\ astray = FALSE
  BY Zenon DEF PlayerInit
<1>1. ServerTyped /\ astray \in BOOLEAN
  <2>1. watched \in [Lessons -> Levels]
    BY <1>0 DEF Levels
  <2> QED
    BY <1>0, <2>1, Zenon DEF ServerTyped
<1>2. cache \in [Keys -> Queries]
  BY DEF PlayerInit, Queries
<1>3. FlightTyped
  BY FS_EmptySet, PlayerAssumption DEF PlayerInit, FlightTyped
<1>4. seen \in Seens /\ player \in Players
  BY PlayerAssumption DEF PlayerInit, Seens, Players, Unseen, Fresh, Levels
<1> QED
  BY <1>1, <1>2, <1>3, <1>4, KeyFacts DEF Typed, PageTyped, PlayerInit

LEMMA LearnsTyped ==
    ASSUME Typed, Learns
    PROVE  Typed'
<1>1. CASE flight' = flight
  BY <1>1 DEF Learns, Typed, PageTyped, ServerTyped, FlightTyped, server
<1>2. ASSUME NEW m \in Mutations, Send(m) PROVE FlightTyped'
  BY <1>2, SendTyped DEF Typed
<1>3. CASE FlightTyped'
  BY <1>3 DEF Learns, Typed, PageTyped, ServerTyped, server
<1> QED
  BY <1>1, <1>2, <1>3 DEF Learns

\* What the effect depends on, and what it leaves of the player.
LEMMA DependsTyped ==
    ASSUME NEW l \in Lessons, NEW val \in Answers \cup {Nothing}, NEW p \in Players
    PROVE  /\ Depends(l, val) \in Seens
           /\ Reset(p, Depends(l, val)) \in Players
           /\ Reset(p, Depends(l, val)).completed <=> val \in Answers /\ l \in val.done
<1> DEFINE d == Depends(l, val)
<1>1. d \in Seens /\ (d.done <=> val \in Answers /\ l \in val.done)
  <2>1. CASE val = Nothing
    <3>1. d = Unseen
      BY <2>1 DEF Depends
    <3> QED
      BY <2>1, <3>1, Placeholders, PlayerAssumption DEF Unseen, Seens, Levels
  <2>2. CASE val # Nothing
    <3> DEFINE b == l \in val.done
    <3>1. d = [lesson |-> l, done |-> b, watched |-> val.watched] /\ val \in Answers
      BY <2>2 DEF Depends
    <3>2. l \in 0..N /\ val.watched \in Levels /\ b \in BOOLEAN
      BY <3>1 DEF Lessons, Answers
    <3> HIDE DEF b, d
    <3>3. d \in Seens /\ d.done = b
      BY <3>1, <3>2 DEF Seens
    <3> QED
      BY <3>1, <3>3 DEF b
  <2> QED
    BY <2>1, <2>2
<1> HIDE DEF d
<1>2. d.done \in BOOLEAN /\ d.watched \in Levels
  BY <1>1 DEF Seens
<1>3. Reset(p, d) \in Players /\ Reset(p, d).completed = d.done
  BY <1>2 DEF Reset, Players
<1> QED
  BY <1>1, <1>3 DEF d

LEMMA OpenedTyped ==
    ASSUME NEW c \in [Keys -> Queries], NEW page \in Keys
    PROVE  Opened(page, c) \in [Keys -> Queries]
BY DEF Opened, Queries

LEMMA ServeQueryTyped ==
    ASSUME Typed, NEW k \in Keys, ServeQuery(k)
    PROVE  Typed'
<1>1. Answer(k) \in Answers
  BY AnswerTyped DEF Typed
<1>2. cache' \in [Keys -> Queries]
  BY <1>1 DEF ServeQuery, Typed, Queries
<1> QED
  BY <1>2 DEF ServeQuery, Typed, PageTyped, ServerTyped, FlightTyped, server

LEMMA ArriveTyped ==
    ASSUME Typed, NEW k \in Keys, Arrive(k)
    PROVE  Typed'
<1> DEFINE val == cache[k].fetch
           d == Depends(k, val)
           c == [cache EXCEPT ![k] = [val |-> val, fresh |-> TRUE, fetch |-> Unasked]]
<1>0. /\ cache \in [Keys -> Queries] /\ at \in Keys /\ seen \in Seens /\ player \in Players
  BY DEF Typed, PageTyped
<1>1. val \in Answers
  BY <1>0 DEF Arrive, Queries
<1>2. c \in [Keys -> Queries]
  BY <1>0, <1>1 DEF Queries
<1>3. /\ cache' = IF k = Course THEN Opened(at, c) ELSE c
      /\ IF k \in Lessons /\ k = at /\ d # seen
         THEN seen' = d /\ player' = Reset(player, d)
         ELSE UNCHANGED <<seen, player>>
      /\ UNCHANGED <<server, astray, flight, at>>
  BY DEF Arrive
<1>4. k \in Lessons => d \in Seens /\ Reset(player, d) \in Players
  BY <1>0, <1>1, DependsTyped
<1> HIDE DEF c, d, val
<1>5. cache' \in [Keys -> Queries]
  BY <1>0, <1>2, <1>3, OpenedTyped
<1>6. seen' \in Seens /\ player' \in Players
  BY <1>0, <1>3, <1>4
<1> QED
  BY <1>3, <1>5, <1>6 DEF Typed, PageTyped, ServerTyped, FlightTyped, server

LEMMA ServeMutationTyped ==
    ASSUME Typed, NEW m \in flight, ServeMutation(m)
    PROVE  Typed'
<1> DEFINE n == [m EXCEPT !.answered = TRUE]
<1>1. m \in Mutations /\ n \in Mutations
  BY DEF Typed, FlightTyped, Mutations
<1>2. FlightTyped'
  BY <1>1, ReplaceTyped DEF Typed, ServeMutation
<1>3. /\ UNCHANGED <<astray, cache, at, seen, player>> /\ Serve(m)
  BY DEF ServeMutation
<1>4. \A l \in Lessons : /\ watched[l] \in Levels /\ m.level \in Levels
                         /\ Larger(watched[l], m.level) \in Levels
  BY <1>1 DEF Typed, ServerTyped, Mutations, Larger
<1>5. ServerTyped'
  BY <1>3, <1>4 DEF Serve, Typed, ServerTyped
<1> QED
  BY <1>2, <1>3, <1>5 DEF Typed, PageTyped

LEMMA SucceedsTyped ==
    ASSUME Typed, NEW m \in flight, Succeeds(m)
    PROVE  Typed'
<1>1. FlightTyped'
  BY DropTyped DEF Typed, Succeeds
<1>2. cache' = Invalidated(Stale(m)) /\ UNCHANGED <<server, at, seen>>
  BY DEF Succeeds
<1>3. cache' \in [Keys -> Queries]
  BY <1>2 DEF Invalidated, Typed, Queries
<1>4. astray' \in BOOLEAN
  BY DEF Succeeds
<1>5. player' \in Players
  <2>1. player \in Players
    BY DEF Typed, PageTyped
  <2>2. \/ player' = player
        \/ player' = [player EXCEPT !.completed = TRUE,
                                    !.finished = player.finished \/ m.lesson = N]
    BY DEF Succeeds
  <2>3. (player.finished \/ m.lesson = N) \in BOOLEAN
    OBVIOUS
  <2> QED
    BY <2>1, <2>2, <2>3 DEF Players
<1> QED
  BY <1>1, <1>2, <1>3, <1>4, <1>5 DEF Typed, PageTyped, ServerTyped, server

LEMMA FailsTyped ==
    ASSUME Typed, NEW m \in flight, Fails(m)
    PROVE  Typed'
<1>1. FlightTyped'
  BY DropTyped DEF Typed, Fails
<1> QED
  BY <1>1 DEF Fails, Typed, PageTyped, ServerTyped, server

LEMMA AgesTyped ==
    ASSUME Typed, Ages
    PROVE  Typed'
<1>1. cache' \in [Keys -> Queries]
  BY DEF Ages, Typed, Queries
<1> QED
  BY <1>1 DEF Ages, Typed, PageTyped, ServerTyped, FlightTyped, server

LEMMA VisitTyped ==
    ASSUME Typed, NEW page \in Keys, Visit(page)
    PROVE  Typed'
<1> DEFINE val == cache[page].val
           d == IF page \in Lessons THEN Depends(page, val) ELSE Unseen
           kept == IF at \in Lessons THEN player ELSE Fresh
<1>0. /\ cache \in [Keys -> Queries] /\ player \in Players
      /\ Fresh \in Players /\ Unseen \in Seens
  BY PlayerAssumption DEF Typed, PageTyped, Fresh, Players, Unseen, Seens, Levels
<1>1. val \in Answers \cup {Nothing} /\ kept \in Players
  BY <1>0 DEF Queries
<1>2. /\ at' = page /\ cache' = Opened(page, cache) /\ seen' = d
      /\ player' = IF page \in Lessons THEN [Reset(kept, d) EXCEPT !.running = FALSE] ELSE Fresh
      /\ flight' = IF page \in Lessons THEN flight ELSE Left
      /\ UNCHANGED <<server, astray>>
  BY DEF Visit, Left
<1>3. page \in Lessons => d \in Seens /\ Reset(kept, d) \in Players
  BY <1>1, DependsTyped
<1> HIDE DEF d, kept
<1>4. seen' \in Seens
  BY <1>0, <1>2, <1>3 DEF d
<1>5. player' \in Players
  <2>1. page \in Lessons => [Reset(kept, d) EXCEPT !.running = FALSE] \in Players
    BY <1>3 DEF Players
  <2> QED
    BY <1>0, <1>2, <2>1
<1>6. FlightTyped'
  <2>1. CASE page \in Lessons
    BY <1>2, <2>1 DEF Typed, FlightTyped
  <2>2. CASE page \notin Lessons
    BY <1>2, <2>2, LeaveTyped DEF Typed
  <2> QED
    BY <2>1, <2>2
<1>7. cache' \in [Keys -> Queries]
  BY <1>0, <1>2, OpenedTyped
<1> QED
  BY <1>2, <1>4, <1>5, <1>6, <1>7 DEF Typed, PageTyped, ServerTyped, server

-----------------------------------------------------------------------------
(* The lessons are done in order. *)

LEMMA ServeInOrder ==
    ASSUME Typed, DoneInOrder, FlightOK, NEW m \in flight, ServeMutation(m)
    PROVE  DoneInOrder' /\ done \subseteq done'
<1>1. PICK k \in 0..N : done = 1..k
  BY DEF DoneInOrder
<1>2. /\ m.op = "enroll" <=> m.lesson = 0
      /\ m.op = "enroll" \/ m.lesson <= CurrentLessonNumber
      /\ done' = done \cup {l \in Lessons : l = m.lesson /\ watched'[l] >= Enough}
  BY DEF FlightOK, Sensible, ServeMutation, Accepted, Serve
<1>3. m.lesson \in 0..N
  BY DEF Typed, FlightTyped, Mutations
<1>4. CurrentLessonNumber = IF k = N THEN N ELSE k + 1
  BY <1>1, PointerIs DEF CurrentLessonNumber
<1>5. CASE done' = done
  BY <1>5 DEF DoneInOrder
<1>6. CASE done' # done
  <2>1. m.lesson \in Lessons /\ done' = done \cup {m.lesson} /\ m.lesson \notin done
    BY <1>2, <1>6
  <2>2. k # N /\ m.lesson = k + 1
    BY <1>1, <1>2, <1>3, <1>4, <2>1, PlayerAssumption DEF Lessons
  <2>3. k + 1 \in 0..N /\ done' = 1..(k + 1)
    BY <1>1, <2>1, <2>2, PlayerAssumption DEF Lessons
  <2> QED
    BY <2>3, <2>1 DEF DoneInOrder
<1> QED
  BY <1>5, <1>6

-----------------------------------------------------------------------------
(* What the server does to what is known of it. *)

\* An answer that no answered mutation outdates stays what the server says.
LEMMA ServeSound ==
    ASSUME Typed, FlightOK, NEW m \in flight, ServeMutation(m),
           NEW k \in Keys, NEW val, Sound(k, val)
    PROVE  Sound(k, val)'
<1> DEFINE n == [m EXCEPT !.answered = TRUE]
<1>1. /\ flight' = (flight \ {m}) \cup {n} /\ ~m.answered
      /\ enrolled' = (enrolled \/ m.op = "enroll")
      /\ watched' = [l \in Lessons |-> IF l = m.lesson /\ m.op # "enroll"
                                       THEN Larger(watched[l], m.level) ELSE watched[l]]
      /\ done' = done \cup {l \in Lessons : l = m.lesson /\ watched'[l] >= Enough}
  BY DEF ServeMutation, Serve
<1>2. n.answered /\ n.op = m.op /\ Stale(n) = Stale(m)
  BY DEF Typed, FlightTyped, Mutations, Stale
<1> HIDE DEF n
<1>3. CASE k \in Stale(m)
  <2>1. Due(k)'
    BY <1>1, <1>2, <1>3 DEF Due, Stale
  <2> QED
    BY <2>1 DEF Sound
<1>4. CASE k \notin Stale(m)
  <2>1. m.op = "enroll" /\ k \in Lessons
    BY <1>4, KeySets, KeyFacts DEF Stale
  <2>2. m.lesson = 0 /\ m.lesson \notin Lessons
    BY <2>1 DEF FlightOK, Sensible, Lessons
  <2>3. watched' = watched /\ done' = done
    BY <1>1, <2>1, <2>2 DEF Typed, ServerTyped
  <2>4. Answer(k)' = Answer(k)
    BY <2>1, <2>3, KeyFacts DEF Answer
  <2>5. Due(k) => Due(k)'
    BY <1>1 DEF Due, Stale
  <2> QED
    BY <2>4, <2>5 DEF Sound
<1> QED
  BY <1>3, <1>4

\* Without the server nothing is outdated but by the mutations.
LEMMA StillSound ==
    ASSUME UNCHANGED server, NEW k, NEW val, Sound(k, val), Due(k) => Due(k)'
    PROVE  Sound(k, val)'
<1>1. Answer(k)' = Answer(k)
  BY DEF Answer, server
<1> QED
  BY <1>1 DEF Sound

LEMMA ServeCache ==
    ASSUME Typed, CacheOK, FlightOK, NEW m \in flight, ServeMutation(m)
    PROVE  CacheOK'
<1>1. UNCHANGED <<cache, at>>
  BY DEF ServeMutation
<1> SUFFICES ASSUME NEW k \in Keys PROVE (FreshOK(k) /\ FetchOK(k) /\ ShownOK(k))'
  BY DEF CacheOK
<1>2. FreshOK(k) /\ FetchOK(k) /\ ShownOK(k)
  BY DEF CacheOK
<1>3. \A val : Sound(k, val) => Sound(k, val)'
  BY ServeSound
<1>4. FreshOK(k)'
  BY <1>1, <1>2, <1>3 DEF FreshOK
<1>5. FetchOK(k)'
  BY <1>1, <1>2, <1>3 DEF FetchOK, Ready
<1>6. ShownOK(k)'
  BY <1>1, <1>2, <1>3 DEF ShownOK, Ready, Mounted
<1> QED
  BY <1>4, <1>5, <1>6

LEMMA ServePast ==
    ASSUME Typed, PastOK, DoneInOrder, FlightOK, NEW m \in flight, ServeMutation(m)
    PROVE  PastOK'
<1>1. done \subseteq done' /\ cache' = cache
  BY ServeInOrder DEF ServeMutation
<1> QED
  BY <1>1 DEF PastOK, Past

LEMMA ServeFlight ==
    ASSUME Typed, DoneInOrder, FlightOK, NEW m \in flight, ServeMutation(m)
    PROVE  FlightOK'
<1> DEFINE n == [m EXCEPT !.answered = TRUE]
<1>1. m \in Mutations /\ n.op = m.op /\ n.lesson = m.lesson /\ n.level = m.level
  BY DEF Typed, FlightTyped, Mutations
<1>2. /\ flight' = (flight \ {m}) \cup {n}
      /\ watched' = [l \in Lessons |-> IF l = m.lesson /\ m.op # "enroll"
                                       THEN Larger(watched[l], m.level) ELSE watched[l]]
      /\ done' = done \cup {l \in Lessons : l = m.lesson /\ watched'[l] >= Enough}
  BY DEF ServeMutation, Serve
<1> HIDE DEF n
<1>3. Sensible(m)
  BY DEF FlightOK
<1>4. ASSUME m.op # "enroll", m.level >= Enough PROVE m.lesson \in done'
  <2>1. m.lesson \in Lessons
    BY <1>1, <1>3, <1>4 DEF Sensible, Mutations, Lessons
  <2>2. watched'[m.lesson] = Larger(watched[m.lesson], m.level)
    BY <1>2, <1>4, <2>1
  <2>3. watched[m.lesson] \in Levels /\ m.level \in Levels
    BY <1>1, <2>1 DEF Typed, ServerTyped, Mutations
  <2>4. watched'[m.lesson] >= Enough
    BY <1>4, <2>2, <2>3 DEF Larger, Levels, Enough
  <2> QED
    BY <1>2, <2>1, <2>4
<1>5. done \subseteq done'
  BY <1>2
<1>6. ASSUME NEW i \in flight', i # n
      PROVE  /\ Sensible(i)
             /\ i.answered /\ i.op # "enroll" /\ i.level >= Enough => i.lesson \in done'
  BY <1>2, <1>5, <1>6 DEF FlightOK
<1>7. /\ Sensible(n)
      /\ n.answered /\ n.op # "enroll" /\ n.level >= Enough => n.lesson \in done'
  BY <1>1, <1>3, <1>4 DEF Sensible
<1> QED
  BY <1>6, <1>7 DEF FlightOK, Sensible

LEMMA ServeCompleted ==
    ASSUME Typed, DoneInOrder, FlightOK, CompletedOK, NEW m \in flight, ServeMutation(m)
    PROVE  CompletedOK'
<1> DEFINE n == [m EXCEPT !.answered = TRUE]
<1>1. m \in Mutations /\ n.op = m.op /\ n.lesson = m.lesson /\ n.level = m.level
  BY DEF Typed, FlightTyped, Mutations
<1>2. flight' = (flight \ {m}) \cup {n} /\ UNCHANGED <<at, player>> /\ done \subseteq done'
  BY ServeInOrder DEF ServeMutation
<1> HIDE DEF n
<1>3. \A i \in flight : Finishes(i) => \E j \in flight' : Finishes(j)
  BY <1>1, <1>2 DEF Finishes
<1> QED
  BY <1>2, <1>3 DEF CompletedOK, Finishes

-----------------------------------------------------------------------------
(* What the cache holds is what the server says, or about to be asked again. *)

LEMMA LearnsCache ==
    ASSUME CacheOK, Learns
    PROVE  CacheOK'
<1>1. UNCHANGED <<server, cache, at>> /\ flight \subseteq flight'
  BY DEF Learns, Send
<1> SUFFICES ASSUME NEW k \in Keys PROVE (FreshOK(k) /\ FetchOK(k) /\ ShownOK(k))'
  BY DEF CacheOK
<1>2. FreshOK(k) /\ FetchOK(k) /\ ShownOK(k)
  BY DEF CacheOK
<1>3. Due(k) => Due(k)'
  BY <1>1 DEF Due, Stale
<1>4. \A val : Sound(k, val) => Sound(k, val)'
  BY <1>1, <1>3, StillSound
<1>5. FreshOK(k)'
  BY <1>1, <1>2, <1>4 DEF FreshOK
<1>6. FetchOK(k)'
  BY <1>1, <1>2, <1>4 DEF FetchOK, Ready
<1>7. ShownOK(k)'
  BY <1>1, <1>2, <1>4 DEF ShownOK, Ready, Mounted
<1> QED
  BY <1>5, <1>6, <1>7

\* Most steps leave the server and the mutations: what is sound stays sound.
LEMMA QuietSound ==
    ASSUME UNCHANGED <<server, flight>>, NEW k, NEW val, Sound(k, val)
    PROVE  Sound(k, val)'
<1>1. Due(k) => Due(k)'
  BY DEF Due, Stale
<1> QED
  BY <1>1, StillSound

LEMMA ServeQueryCache ==
    ASSUME Typed, CacheOK, NEW q \in Keys, ServeQuery(q)
    PROVE  CacheOK'
<1>1. /\ UNCHANGED <<server, flight, at>> /\ cache[q].fetch = Asked
      /\ cache' = [cache EXCEPT ![q].fetch = Answer(q)]
  BY DEF ServeQuery
<1>2. cache \in [Keys -> Queries] /\ Answer(q) \in Answers
  BY AnswerTyped DEF Typed
<1> SUFFICES ASSUME NEW k \in Keys PROVE (FreshOK(k) /\ FetchOK(k) /\ ShownOK(k))'
  BY DEF CacheOK
<1>3. FreshOK(k) /\ FetchOK(k) /\ ShownOK(k)
  BY DEF CacheOK
<1>4. \A val : Sound(k, val) => Sound(k, val)'
  BY <1>1, QuietSound
<1>5. \A l \in Keys : cache'[l].val = cache[l].val /\ cache'[l].fresh = cache[l].fresh
  BY <1>1, <1>2 DEF Queries
<1>6. Ready(k)' <=> Ready(k)
  BY <1>5, KeyFacts DEF Ready
<1>7. cache'[k].fetch = IF k = q THEN Answer(q) ELSE cache[k].fetch
  BY <1>1, <1>2 DEF Queries
<1>8. FreshOK(k)'
  BY <1>3, <1>4, <1>5 DEF FreshOK
<1>9. k = q => cache'[k].fetch \in Answers /\ Sound(k, cache'[k].fetch) /\ Ready(k)
  BY <1>1, <1>2, <1>3, <1>7, Placeholders DEF Sound, FetchOK
<1>10. FetchOK(k)'
  BY <1>3, <1>4, <1>6, <1>7, <1>9 DEF FetchOK
<1>11. ShownOK(k)'
  BY <1>1, <1>3, <1>4, <1>5, <1>6, <1>7, <1>9, Placeholders DEF ShownOK, Mounted
<1> QED
  BY <1>8, <1>10, <1>11

\* What opening a page does to a query.
LEMMA OpenedIs ==
    ASSUME NEW c \in [Keys -> Queries], NEW page \in Keys, NEW k \in Keys
    PROVE  LET asks == /\ k \in Mounted(page) /\ ~c[k].fresh /\ c[k].fetch = Unasked
                       /\ k \in Lessons => c[Course].val # Nothing
           IN  /\ Opened(page, c)[k].val = c[k].val
               /\ Opened(page, c)[k].fresh = c[k].fresh
               /\ Opened(page, c)[k].fetch = IF asks THEN Asked ELSE c[k].fetch
BY DEF Opened, Queries

\* A page that opens asks for what it shows unless that is fresh.
LEMMA OpenedCache ==
    ASSUME NEW c \in [Keys -> Queries], NEW page \in Keys,
           UNCHANGED server, \A k \in Keys : Due(k) => Due(k)',
           cache' = Opened(page, c), at' = page,
           \A k \in Keys : /\ c[k].fresh => c[k].val # Nothing /\ Sound(k, c[k].val)
                           /\ c[k].fetch \notin {Unasked, Asked} => Sound(k, c[k].fetch)
                           /\ c[k].fetch # Unasked => (k \in Lessons => c[Course].val # Nothing)
    PROVE  CacheOK'
<1> SUFFICES ASSUME NEW k \in Keys PROVE (FreshOK(k) /\ FetchOK(k) /\ ShownOK(k))'
  BY DEF CacheOK
<1> DEFINE ready == k \in Lessons => c[Course].val # Nothing
           asks == k \in Mounted(page) /\ ~c[k].fresh /\ c[k].fetch = Unasked /\ ready
<1>1. \A val : Sound(k, val) => Sound(k, val)'
  BY StillSound
<1>2. /\ cache'[k].val = c[k].val /\ cache'[k].fresh = c[k].fresh
      /\ cache'[k].fetch = IF asks THEN Asked ELSE c[k].fetch
  BY OpenedIs
<1>3. cache'[Course].val = c[Course].val
  BY OpenedIs, KeyFacts
<1>4. Ready(k)' <=> ready
  BY <1>3 DEF Ready
<1>5. /\ c[k].fresh => c[k].val # Nothing /\ Sound(k, c[k].val)
      /\ c[k].fetch \notin {Unasked, Asked} => Sound(k, c[k].fetch)
      /\ c[k].fetch # Unasked => ready
  OBVIOUS
<1>6. asks => ready
  OBVIOUS
<1>7. FreshOK(k)'
  BY <1>1, <1>2, <1>5 DEF FreshOK
<1>8. FetchOK(k)'
  BY <1>1, <1>2, <1>4, <1>5, <1>6 DEF FetchOK
<1>9. ShownOK(k)'
  <2>1. (k \in Mounted(at))' <=> k \in Mounted(page)
    BY DEF Mounted
  <2> QED
    BY <1>1, <1>2, <1>4, <1>5, <2>1, Placeholders DEF ShownOK
<1> QED
  BY <1>7, <1>8, <1>9

LEMMA VisitCache ==
    ASSUME Typed, CacheOK, NEW page \in Keys, Visit(page)
    PROVE  CacheOK'
<1>1. /\ UNCHANGED server /\ cache' = Opened(page, cache) /\ at' = page
      /\ flight' = IF page \in Lessons THEN flight ELSE Left
  BY DEF Visit, Left
<1>2. ASSUME NEW k \in Keys PROVE Due(k) => Due(k)'
  <2>1. \A m \in flight : LET n == [m EXCEPT !.here = FALSE]
                          IN n \in Left /\ n.op = m.op /\ n.answered = m.answered
    BY DEF Left, Typed, FlightTyped, Mutations
  <2> QED
    BY <1>1, <2>1 DEF Due, Stale
<1>3. \A k \in Keys : FreshOK(k) /\ FetchOK(k)
  BY DEF CacheOK
<1> QED
  BY <1>1, <1>2, <1>3, OpenedCache DEF FreshOK, FetchOK, Ready, Typed

LEMMA ArriveCache ==
    ASSUME Typed, CacheOK, NEW q \in Keys, Arrive(q)
    PROVE  CacheOK'
<1> DEFINE c == [cache EXCEPT ![q] =
                    [val |-> cache[q].fetch, fresh |-> TRUE, fetch |-> Unasked]]
<1>1. /\ UNCHANGED <<server, flight, at>> /\ cache[q].fetch \notin {Unasked, Asked}
      /\ cache' = IF q = Course THEN Opened(at, c) ELSE c
  BY DEF Arrive
<1>2. cache \in [Keys -> Queries] /\ at \in Keys /\ cache[q].fetch \in Answers
  BY <1>1 DEF Typed, PageTyped, Queries
<1>3. c \in [Keys -> Queries]
  BY <1>2 DEF Queries
<1>4. ASSUME NEW k \in Keys
      PROVE  /\ c[k].fresh => c[k].val # Nothing /\ Sound(k, c[k].val)
             /\ c[k].fetch \notin {Unasked, Asked} => Sound(k, c[k].fetch)
             /\ c[k].fetch # Unasked => (k \in Lessons => c[Course].val # Nothing)
  <2>1. FreshOK(k) /\ FetchOK(k) /\ FetchOK(q)
    BY DEF CacheOK
  <2>2. c[q].val = cache[q].fetch /\ c[q].fetch = Unasked /\ cache[q].fetch # Nothing
    BY <1>2, Placeholders
  <2>3. k # q => c[k] = cache[k]
    BY <1>2
  <2>4. cache[Course].val # Nothing => c[Course].val # Nothing
    BY <1>2, <2>2, KeyFacts
  <2>5. CASE k = q
    BY <1>1, <2>1, <2>2, <2>5 DEF FetchOK
  <2>6. CASE k # q
    BY <2>1, <2>3, <2>4, <2>6 DEF FreshOK, FetchOK, Ready
  <2> QED
    BY <2>5, <2>6
<1>5. CASE q = Course
  <2>1. \A k \in Keys : Due(k) => Due(k)'
    BY <1>1 DEF Due, Stale
  <2> HIDE DEF c
  <2> QED
    BY <1>1, <1>2, <1>3, <1>4, <1>5, <2>1, OpenedCache
<1>6. CASE q # Course
  <2>1. cache' = c /\ cache'[Course] = cache[Course]
    BY <1>1, <1>2, <1>6, KeyFacts
  <2> SUFFICES ASSUME NEW k \in Keys PROVE (FreshOK(k) /\ FetchOK(k) /\ ShownOK(k))'
    BY DEF CacheOK
  <2>2. \A val : Sound(k, val) => Sound(k, val)'
    BY <1>1, QuietSound
  <2>3. FreshOK(k)' /\ FetchOK(k)'
    BY <1>4, <2>1, <2>2 DEF FreshOK, FetchOK, Ready
  <2>4. ShownOK(k)'
    <3>1. CASE k = q
      <4>1. cache'[k].val # Nothing /\ Sound(k, cache'[k].val)
        BY <1>2, <1>4, <2>1, <3>1
      <4> QED
        BY <2>2, <4>1 DEF ShownOK
    <3>2. CASE k # q
      <4>1. cache'[k] = cache[k] /\ ShownOK(k)
        BY <1>2, <2>1, <3>2 DEF CacheOK
      <4> QED
        BY <1>1, <2>1, <2>2, <4>1 DEF ShownOK, Ready, Mounted
    <3> QED
      BY <3>1, <3>2
  <2> QED
    BY <2>3, <2>4
<1> QED
  BY <1>5, <1>6

LEMMA AgesCache ==
    ASSUME Typed, CacheOK, Ages
    PROVE  CacheOK'
<1>1. /\ UNCHANGED <<server, flight, at>>
      /\ cache' = [k \in Keys |-> [cache[k] EXCEPT !.fresh = FALSE]]
  BY DEF Ages
<1>2. \A k \in Keys : /\ cache'[k].val = cache[k].val /\ cache'[k].fetch = cache[k].fetch
                      /\ ~cache'[k].fresh
  BY <1>1 DEF Typed, Queries
<1> SUFFICES ASSUME NEW k \in Keys PROVE (FreshOK(k) /\ FetchOK(k) /\ ShownOK(k))'
  BY DEF CacheOK
<1>3. FetchOK(k) /\ ShownOK(k)
  BY DEF CacheOK
<1>4. \A val : Sound(k, val) => Sound(k, val)'
  BY <1>1, QuietSound
<1>5. Ready(k)' <=> Ready(k)
  BY <1>2, KeyFacts DEF Ready
<1>6. FreshOK(k)' /\ FetchOK(k)'
  BY <1>2, <1>3, <1>4, <1>5 DEF FreshOK, FetchOK
<1>7. ShownOK(k)'
  BY <1>1, <1>2, <1>3, <1>4, <1>5 DEF ShownOK, Mounted
<1> QED
  BY <1>6, <1>7

\* A mutation that is answered makes its page ask for what it changed; what is on its
\* way to a page that has closed would be taken for the truth, and that is astray.
LEMMA SucceedsCache ==
    ASSUME Typed, CacheOK, NEW m \in flight, Succeeds(m), ~astray'
    PROVE  CacheOK'
<1>1. /\ UNCHANGED <<server, at>> /\ cache' = Invalidated(Stale(m)) /\ flight' = flight \ {m}
      /\ ~Overtaken(Stale(m))
  BY DEF Succeeds
<1> SUFFICES ASSUME NEW k \in Keys PROVE (FreshOK(k) /\ FetchOK(k) /\ ShownOK(k))'
  BY DEF CacheOK
<1>2. FreshOK(k) /\ FetchOK(k) /\ ShownOK(k)
  BY DEF CacheOK
<1>3. \A l \in Keys :
        /\ cache'[l].val = cache[l].val
        /\ cache'[l].fresh <=> cache[l].fresh /\ l \notin Stale(m)
        /\ cache'[l].fetch = IF l \in Stale(m) /\ l \in Mounted(at) /\ Ready(l)
                             THEN Asked ELSE cache[l].fetch
  BY <1>1 DEF Invalidated, Typed, Queries
<1>4. Ready(k)' <=> Ready(k)
  BY <1>3, KeyFacts DEF Ready
<1>5. CASE k \in Stale(m)
  <2>1. ~cache'[k].fresh
    BY <1>3, <1>5
  <2>2. cache'[k].fetch \in {Unasked, Asked}
    <3>1. CASE k \in Mounted(at)
      BY <1>2, <1>3, <1>5, <3>1 DEF FetchOK
    <3>2. CASE k \notin Mounted(at)
      BY <1>1, <1>3, <1>5, <3>2 DEF Overtaken
    <3> QED
      BY <3>1, <3>2
  <2>3. cache'[k].fetch # Unasked => Ready(k)
    BY <1>2, <1>3 DEF FetchOK
  <2>4. k \in Mounted(at) /\ Ready(k) => cache'[k].fetch # Unasked
    BY <1>3, <1>5, Placeholders
  <2> QED
    BY <1>1, <1>4, <2>1, <2>2, <2>3, <2>4 DEF FreshOK, FetchOK, ShownOK, Mounted
<1>6. CASE k \notin Stale(m)
  <2>1. /\ cache'[k].val = cache[k].val /\ cache'[k].fetch = cache[k].fetch
        /\ cache'[k].fresh <=> cache[k].fresh
    BY <1>3, <1>6
  <2>2. Due(k) => Due(k)'
    BY <1>1, <1>6 DEF Due, Stale
  <2>3. \A val : Sound(k, val) => Sound(k, val)'
    BY <1>1, <2>2, StillSound
  <2>4. FreshOK(k)' /\ FetchOK(k)'
    BY <1>2, <1>4, <2>1, <2>3 DEF FreshOK, FetchOK
  <2>5. ShownOK(k)'
    BY <1>1, <1>2, <1>4, <2>1, <2>3 DEF ShownOK, Mounted
  <2> QED
    BY <2>4, <2>5
<1> QED
  BY <1>5, <1>6

-----------------------------------------------------------------------------
(* The cache never knows of more than the server. *)

LEMMA LearnsPast ==
    ASSUME PastOK, UNCHANGED <<cache, done>>
    PROVE  PastOK'
BY DEF PastOK, Past

LEMMA ServeQueryPast ==
    ASSUME Typed, PastOK, NEW q \in Keys, ServeQuery(q)
    PROVE  PastOK'
<1>1. done' = done /\ cache' = [cache EXCEPT ![q].fetch = Answer(q)]
  BY DEF ServeQuery, server
<1>2. Answer(q).done \subseteq done
  BY AnswerTyped DEF Typed
<1>3. \A k \in Keys : cache'[k].val = cache[k].val
                      /\ cache'[k].fetch = IF k = q THEN Answer(q) ELSE cache[k].fetch
  BY <1>1 DEF Typed, Queries
<1> QED
  BY <1>1, <1>2, <1>3 DEF PastOK, Past

LEMMA OpenedPast ==
    ASSUME NEW c \in [Keys -> Queries], NEW page \in Keys,
           done' = done, cache' = Opened(page, c),
           \A k \in Keys : Past(c[k].val) /\ Past(c[k].fetch)
    PROVE  PastOK'
<1>1. \A k \in Keys : cache'[k].val = c[k].val /\ cache'[k].fetch \in {Asked, c[k].fetch}
  BY OpenedIs
<1> QED
  BY <1>1, Placeholders DEF PastOK, Past

LEMMA ArrivePast ==
    ASSUME Typed, PastOK, NEW q \in Keys, Arrive(q)
    PROVE  PastOK'
<1> DEFINE c == [cache EXCEPT ![q] =
                    [val |-> cache[q].fetch, fresh |-> TRUE, fetch |-> Unasked]]
<1>1. done' = done /\ cache' = IF q = Course THEN Opened(at, c) ELSE c
  BY DEF Arrive, server
<1>2. cache \in [Keys -> Queries] /\ at \in Keys /\ cache[q].fetch \in Answers
  BY DEF Arrive, Typed, PageTyped, Queries
<1>3. c \in [Keys -> Queries]
  BY <1>2 DEF Queries
<1>4. \A k \in Keys : c[k].val = (IF k = q THEN cache[k].fetch ELSE cache[k].val)
                      /\ c[k].fetch \in {Unasked, cache[k].fetch}
  BY <1>2
<1> HIDE DEF c
<1>5. \A k \in Keys : Past(c[k].val) /\ Past(c[k].fetch)
  BY <1>4, Placeholders DEF PastOK, Past
<1>6. CASE q = Course
  BY <1>1, <1>2, <1>3, <1>5, <1>6, OpenedPast
<1>7. CASE q # Course
  BY <1>1, <1>5, <1>7 DEF PastOK, Past
<1> QED
  BY <1>6, <1>7

LEMMA SucceedsPast ==
    ASSUME Typed, PastOK, NEW m \in flight, Succeeds(m)
    PROVE  PastOK'
<1>1. done' = done /\ cache' = Invalidated(Stale(m))
  BY DEF Succeeds, server
<1>2. \A k \in Keys : /\ cache'[k].val = cache[k].val
                      /\ cache'[k].fetch \in {Asked, cache[k].fetch}
  BY <1>1 DEF Invalidated, Typed, Queries
<1> QED
  BY <1>1, <1>2, Placeholders DEF PastOK, Past

LEMMA AgesPast ==
    ASSUME Typed, PastOK, Ages
    PROVE  PastOK'
<1>1. done' = done /\ cache' = [k \in Keys |-> [cache[k] EXCEPT !.fresh = FALSE]]
  BY DEF Ages, server
<1>2. \A k \in Keys : cache'[k].val = cache[k].val /\ cache'[k].fetch = cache[k].fetch
  BY <1>1 DEF Typed, Queries
<1> QED
  BY <1>1, <1>2 DEF PastOK, Past

LEMMA VisitPast ==
    ASSUME Typed, PastOK, NEW page \in Keys, Visit(page)
    PROVE  PastOK'
<1>1. done' = done /\ cache' = Opened(page, cache)
  BY DEF Visit, server
<1> QED
  BY <1>1, OpenedPast DEF PastOK, Typed

-----------------------------------------------------------------------------
(* A mutation that was answered has been done. *)

LEMMA LearnsFlight ==
    ASSUME FlightOK, Learns
    PROVE  FlightOK'
<1>1. done' = done
  BY DEF Learns, server
<1>2. CASE flight' = flight
  BY <1>1, <1>2 DEF FlightOK, Sensible
<1>3. ASSUME NEW m \in Mutations, Send(m), ~m.answered, Sensible(m)
      PROVE  FlightOK'
  BY <1>1, <1>3 DEF FlightOK, Send, Sensible
<1> QED
  BY <1>2, <1>3 DEF Learns

LEMMA FewerFlight ==
    ASSUME FlightOK, flight' \subseteq flight, done' = done
    PROVE  FlightOK'
BY DEF FlightOK, Sensible

LEMMA VisitFlight ==
    ASSUME Typed, FlightOK, NEW page \in Keys, Visit(page)
    PROVE  FlightOK'
<1>1. done' = done /\ (flight' = flight \/ flight' = Left)
  BY DEF Visit, Left, server
<1>2. \A n \in Left : \E m \in flight : /\ n.op = m.op /\ n.lesson = m.lesson
                                       /\ n.level = m.level /\ n.answered = m.answered
  BY DEF Left, Typed, FlightTyped, Mutations
<1> QED
  BY <1>1, <1>2 DEF FlightOK, Sensible

-----------------------------------------------------------------------------
(* What is shown as completed is completed, or its save is under way. *)

LEMMA LearnsCompleted ==
    ASSUME CompletedOK, Learns
    PROVE  CompletedOK'
<1>1. done' = done /\ at' = at /\ flight \subseteq flight'
  BY DEF Learns, Send, server
<1>2. player'.completed =>
          player.completed \/ at \notin Lessons \/ \E m \in flight' : Finishes(m)
  BY DEF Learns
<1> QED
  BY <1>1, <1>2 DEF CompletedOK, Finishes

LEMMA SameCompleted ==
    ASSUME CompletedOK, UNCHANGED <<done, at, flight, player>>
    PROVE  CompletedOK'
BY DEF CompletedOK, Finishes

LEMMA ArriveCompleted ==
    ASSUME Typed, PastOK, CompletedOK, NEW q \in Keys, Arrive(q)
    PROVE  CompletedOK'
<1> DEFINE val == cache[q].fetch
           d == Depends(q, val)
<1>1. /\ UNCHANGED <<done, at, flight>>
      /\ IF q \in Lessons /\ q = at /\ d # seen
         THEN seen' = d /\ player' = Reset(player, d)
         ELSE UNCHANGED <<seen, player>>
  BY DEF Arrive, server
<1>2. val \in Answers /\ Past(val) /\ player \in Players
  BY DEF Arrive, Typed, PageTyped, Queries, PastOK
<1>3. CASE player' = player
  BY <1>1, <1>3, SameCompleted
<1>4. CASE q \in Lessons /\ q = at /\ player' = Reset(player, d)
  <2>1. player'.completed => q \in val.done
    BY <1>2, <1>4, DependsTyped
  <2>2. player'.completed => at \in done
    BY <1>2, <1>4, <2>1 DEF Past
  <2> QED
    BY <1>1, <2>2 DEF CompletedOK
<1> QED
  BY <1>1, <1>3, <1>4

LEMMA SucceedsCompleted ==
    ASSUME Typed, FlightOK, CompletedOK, NEW m \in flight, Succeeds(m), ~astray'
    PROVE  CompletedOK'
<1>1. /\ UNCHANGED <<done, at>> /\ flight' = flight \ {m} /\ m.answered
      /\ m.op = "complete" /\ m.here => at = m.lesson
      /\ player' = player \/ (m.op = "complete" /\ m.here)
  BY DEF Succeeds, server
<1>2. /\ m.op = "complete" => m.level = Finish
      /\ m.op # "enroll" /\ m.level >= Enough => m.lesson \in done
  BY <1>1 DEF FlightOK, Sensible
<1>3. Finishes(m) => at \in done
  BY <1>2 DEF Finishes, Finish, Enough
<1>4. CASE player' = player
  BY <1>1, <1>3, <1>4 DEF CompletedOK, Finishes
<1>5. CASE m.op = "complete" /\ m.here
  <2>1. at \in done
    BY <1>1, <1>2, <1>5 DEF Finish, Enough
  <2> QED
    BY <1>1, <2>1 DEF CompletedOK
<1> QED
  BY <1>1, <1>4, <1>5

LEMMA VisitCompleted ==
    ASSUME Typed, PastOK, NEW page \in Keys, Visit(page)
    PROVE  CompletedOK'
<1> DEFINE val == cache[page].val
           kept == IF at \in Lessons THEN player ELSE Fresh
           p == Reset(kept, Depends(page, val))
<1>1. at' = page /\ done' = done
      /\ (page \in Lessons => player' = [p EXCEPT !.running = FALSE])
  BY DEF Visit, server
<1>2. val \in Answers \cup {Nothing} /\ Past(val) /\ kept \in Players
  BY DEF Typed, PageTyped, Queries, PastOK, Fresh, Players, Levels
<1>3. ASSUME page \in Lessons, player'.completed PROVE page \in done
  <2>1. p \in Players /\ (p.completed <=> val \in Answers /\ page \in val.done)
    BY <1>2, <1>3, DependsTyped
  <2>2. player'.completed = p.completed
    BY <1>1, <1>3, <2>1 DEF Players
  <2> QED
    BY <1>2, <1>3, <2>1, <2>2 DEF Past
<1> QED
  BY <1>1, <1>3 DEF CompletedOK

-----------------------------------------------------------------------------
(* The inductive invariant. *)

PagesAgree == CacheOK /\ PastOK /\ FlightOK /\ CompletedOK

LEMMA PlayerInvInit == PlayerInit => PlayerInv
<1> SUFFICES ASSUME PlayerInit PROVE PlayerInv
  OBVIOUS
<1>1. Typed
  BY InitTyped
<1>2. /\ done = {} /\ flight = {} /\ at = Course
      /\ cache = [k \in Keys |-> [val |-> Nothing, fresh |-> FALSE,
                                  fetch |-> IF k = Course THEN Asked ELSE Unasked]]
  BY DEF PlayerInit
<1>3. DoneInOrder
  <2>1. done = 1..0 /\ 0 \in 0..N
    BY <1>2, PlayerAssumption
  <2> QED
    BY <2>1 DEF DoneInOrder
<1>4. CacheOK
  <2>1. Mounted(at) = {Course}
    BY <1>2, KeyFacts DEF Mounted
  <2> QED
    BY <1>2, <2>1, KeyFacts, Placeholders DEF CacheOK, FreshOK, FetchOK, ShownOK, Ready
<1>5. PastOK
  BY <1>2, Placeholders DEF PastOK, Past
<1>6. FlightOK /\ CompletedOK
  BY <1>2, KeyFacts DEF FlightOK, CompletedOK
<1> QED
  BY <1>1, <1>3, <1>4, <1>5, <1>6 DEF PlayerInv

LEMMA SameOrder == ASSUME DoneInOrder, done' = done PROVE DoneInOrder'
BY DEF DoneInOrder

LEMMA PlayerInvStep ==
    ASSUME PlayerInv, PlayerNext
    PROVE  PlayerInv'
<1>1. CASE astray /\ UNCHANGED playerVars
  <2>1. UNCHANGED <<server, astray, flight, at, seen, player, cache>>
    BY <1>1 DEF playerVars
  <2>2. Typed' /\ DoneInOrder'
    BY <2>1, SameOrder DEF PlayerInv, Typed, ServerTyped, FlightTyped, PageTyped, server
  <2> QED
    BY <1>1, <2>1, <2>2 DEF PlayerInv
<1>2. CASE ~astray /\ (Acts \/ Replies \/ Ages)
  <2>0. Typed /\ DoneInOrder /\ CacheOK /\ PastOK /\ FlightOK /\ CompletedOK
    BY <1>2 DEF PlayerInv
  <2> SUFFICES Typed' /\ DoneInOrder' /\ (~astray' => PagesAgree')
    BY DEF PlayerInv, PagesAgree
  <2>1. ASSUME Learns PROVE Typed' /\ DoneInOrder' /\ PagesAgree'
    <3>1. UNCHANGED <<cache, done>>
      BY <2>1 DEF Learns, server
    <3> QED
      BY <2>0, <2>1, <3>1, LearnsTyped, SameOrder, LearnsCache, LearnsPast, LearnsFlight,
        LearnsCompleted DEF PagesAgree
  <2>2. ASSUME NEW page \in Keys, Visit(page) PROVE Typed' /\ DoneInOrder' /\ PagesAgree'
    <3>1. done' = done
      BY <2>2 DEF Visit, server
    <3> QED
      BY <2>0, <2>2, <3>1, VisitTyped, SameOrder, VisitCache, VisitPast, VisitFlight,
        VisitCompleted DEF PagesAgree
  <2>3. ASSUME NEW k \in Keys, ServeQuery(k) PROVE Typed' /\ DoneInOrder' /\ PagesAgree'
    <3>1. UNCHANGED <<done, at, flight, player>>
      BY <2>3 DEF ServeQuery, server
    <3> QED
      BY <2>0, <2>3, <3>1, ServeQueryTyped, SameOrder, ServeQueryCache, ServeQueryPast,
        FewerFlight, SameCompleted DEF PagesAgree
  <2>4. ASSUME NEW k \in Keys, Arrive(k) PROVE Typed' /\ DoneInOrder' /\ PagesAgree'
    <3>1. UNCHANGED <<done, flight>>
      BY <2>4 DEF Arrive, server
    <3> QED
      BY <2>0, <2>4, <3>1, ArriveTyped, SameOrder, ArriveCache, ArrivePast, FewerFlight,
        ArriveCompleted DEF PagesAgree
  <2>5. ASSUME NEW m \in flight, ServeMutation(m) PROVE Typed' /\ DoneInOrder' /\ PagesAgree'
    BY <2>0, <2>5, ServeMutationTyped, ServeInOrder, ServeCache, ServePast, ServeFlight,
      ServeCompleted DEF PagesAgree
  <2>6. ASSUME NEW m \in flight, Succeeds(m)
        PROVE  Typed' /\ DoneInOrder' /\ (~astray' => PagesAgree')
    <3>1. done' = done /\ flight' \subseteq flight
      BY <2>6 DEF Succeeds, server
    <3> QED
      BY <2>0, <2>6, <3>1, SucceedsTyped, SameOrder, SucceedsCache, SucceedsPast,
        FewerFlight, SucceedsCompleted DEF PagesAgree
  <2>7. ASSUME NEW m \in flight, Fails(m)
        PROVE  Typed' /\ DoneInOrder' /\ (~astray' => PagesAgree')
    <3>1. done' = done /\ astray'
      BY <2>7 DEF Fails, server
    <3> QED
      BY <2>0, <2>7, <3>1, FailsTyped, SameOrder
  <2>8. ASSUME Ages PROVE Typed' /\ DoneInOrder' /\ PagesAgree'
    <3>1. UNCHANGED <<done, at, flight, player>>
      BY <2>8 DEF Ages, server
    <3> QED
      BY <2>0, <2>8, <3>1, AgesTyped, SameOrder, AgesCache, AgesPast, FewerFlight,
        SameCompleted DEF PagesAgree
  <2>9. Acts => Learns \/ \E page \in Keys : Visit(page)
    BY <2>0, ActsLearn
  <2> QED
    BY <1>2, <2>1, <2>2, <2>3, <2>4, <2>5, <2>6, <2>7, <2>8, <2>9 DEF Replies
<1> QED
  BY <1>1, <1>2 DEF PlayerNext

LEMMA PlayerInvariant == PlayerSpec => []PlayerInv
<1>1. PlayerInv /\ UNCHANGED playerVars => PlayerInv'
  <2> SUFFICES ASSUME PlayerInv, UNCHANGED playerVars PROVE PlayerInv'
    OBVIOUS
  <2>1. UNCHANGED <<server, astray, flight, at, seen, player, cache>>
    BY DEF playerVars
  <2>2. Typed' /\ DoneInOrder'
    BY <2>1, SameOrder DEF PlayerInv, Typed, ServerTyped, FlightTyped, PageTyped, server
  <2>3. CASE astray
    BY <2>1, <2>2, <2>3 DEF PlayerInv
  <2>4. CASE ~astray
    <3>1. \A k, val : Sound(k, val) => Sound(k, val)'
      BY <2>1, QuietSound
    <3>2. CacheOK'
      BY <2>1, <2>4, <3>1 DEF PlayerInv, CacheOK, FreshOK, FetchOK, ShownOK, Ready, Mounted
    <3>3. PastOK' /\ FlightOK' /\ CompletedOK'
      BY <2>1, <2>4, LearnsPast, FewerFlight, SameCompleted DEF PlayerInv, server
    <3> QED
      BY <2>2, <3>2, <3>3 DEF PlayerInv
  <2> QED
    BY <2>3, <2>4
<1> QED
  BY PlayerInvInit, PlayerInvStep, <1>1, PTL DEF PlayerSpec

-----------------------------------------------------------------------------
\* At rest every query on the screen holds what the server says.
LEMMA RestIsSound ==
    ASSUME PlayerInv, Settled, NEW k \in Mounted(at)
    PROVE  cache[k].val = Answer(k)
<1>1. CacheOK /\ at \in Keys /\ flight = {} /\ \A q \in Keys : cache[q].fetch = Unasked
  BY DEF PlayerInv, Settled, Typed, PageTyped
<1>2. \A q : ~Due(q)
  BY <1>1 DEF Due
<1>3. Course \in Mounted(at) /\ Ready(Course) /\ k \in Keys
  BY <1>1, KeyFacts, KeySets DEF Mounted, Ready
<1>4. cache[Course].val # Nothing
  BY <1>1, <1>3, KeyFacts DEF CacheOK, ShownOK
<1>5. Ready(k)
  BY <1>4 DEF Ready
<1> QED
  BY <1>1, <1>2, <1>3, <1>5 DEF CacheOK, ShownOK, Sound

\* At rest a page shows the learner what the server holds (the keys that useLms.ts
\* invalidates), and what it shows as completed is completed.
THEOREM PagesAreTrue == PlayerSpec => []PagesTellTruth
<1>1. PlayerInv => PagesTellTruth
  <2> SUFFICES ASSUME PlayerInv PROVE PagesTellTruth
    OBVIOUS
  <2>1. PlayerTypeOK
    BY DEF PlayerInv, Typed, ServerTyped, FlightTyped, PageTyped, Queries, Players, Seens,
      PlayerTypeOK
  <2>2. ShownIsTrue
    BY RestIsSound DEF ShownIsTrue
  <2>3. CompletedIsDone
    BY DEF CompletedIsDone, Settled, PlayerInv, CompletedOK
  <2> QED
    BY <2>1, <2>2, <2>3 DEF PagesTellTruth
<1> QED
  BY <1>1, PlayerInvariant, PTL

\* At rest isLocked of LessonPage.tsx and the lock of updateProgress agree, and
\* resumeLesson of CourseDetailPage.tsx leads to a lesson that is open.
THEOREM OpenedAsServed == PlayerSpec => []OpenAsServed
<1>1. PlayerInv => OpenAsServed
  <2> SUFFICES ASSUME PlayerInv, Settled, enrolled PROVE OpenAsServed
    BY DEF OpenAsServed, LockAgrees, ResumeIsOpen
  <2>1. at \in Keys /\ Course \in Mounted(at)
    BY KeyFacts DEF PlayerInv, Typed, PageTyped, Mounted
  <2>2. /\ cache[Course].val = Answer(Course)
        /\ Answer(Course) \in Answers /\ Answer(Course).done = done
    BY <2>1, RestIsSound, AnswerTyped, KeyFacts DEF PlayerInv, Typed
  <2>3. PICK k \in 0..N : done = 1..k
    BY DEF PlayerInv, DoneInOrder
  <2>4. CurrentLessonNumber = IF k = N THEN N ELSE k + 1
    BY <2>3, PointerIs DEF CurrentLessonNumber
  <2>5. cache[Course].val # Nothing /\ cache[Course].val.done = done
    BY <2>2, Placeholders
  <2>6. LockAgrees
    <3> SUFFICES ASSUME at \in Lessons PROVE Locked(at) <=> at > CurrentLessonNumber
      BY DEF LockAgrees
    <3>1. Locked(at) <=> at > 1 /\ at - 1 \notin done
      BY <2>5 DEF Locked
    <3> QED
      BY <2>3, <2>4, <3>1, PlayerAssumption DEF Lessons
  <2>7. ResumeLesson <= CurrentLessonNumber /\ (ResumeLesson \in done => Lessons \subseteq done)
    <3> DEFINE left == Lessons \ done
    <3>1. ResumeLesson = IF left = {} THEN PointerTo(done)
                         ELSE CHOOSE l \in left : \A n \in left : l <= n
      BY <2>5 DEF ResumeLesson
    <3>2. CASE left = {}
      BY <2>3, <2>4, <3>1, <3>2, PlayerAssumption DEF CurrentLessonNumber, Lessons
    <3>3. CASE left # {}
      <4>1. k # N
        BY <2>3, <3>3 DEF Lessons
      <4>2. k + 1 \in left /\ \A n \in left : k + 1 <= n
        BY <2>3, <4>1, PlayerAssumption DEF Lessons
      <4>3. left \subseteq Int
        BY DEF Lessons
      <4>4. \E l \in left : \A n \in left : l <= n
        BY <4>2
      <4>5. ResumeLesson \in left /\ \A n \in left : ResumeLesson <= n
        <5> HIDE DEF left
        <5> QED
          BY <3>1, <3>3, <4>4
      <4>6. ResumeLesson <= k + 1
        BY <4>2, <4>5
      <4> QED
        BY <2>4, <4>1, <4>5, <4>6
    <3> QED
      BY <3>2, <3>3
  <2> QED
    BY <2>6, <2>7 DEF OpenAsServed, ResumeIsOpen
<1> QED
  BY <1>1, PlayerInvariant, PTL

=============================================================================
