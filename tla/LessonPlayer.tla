----------------------------- MODULE LessonPlayer -----------------------------
(***************************************************************************)
(* The pages of a learner in one course: the course and its lessons with   *)
(* the player (LessonPage.tsx).  What they show is what the query cache    *)
(* holds (hooks/useLms.ts), and the cache learns of a change only when a   *)
(* mutation that was answered invalidates its keys or when its five        *)
(* minutes are over.                                                       *)
(*                                                                         *)
(* The server answers a request in one step here (LessonProgress has its   *)
(* steps) and nobody else changes the learner's progress.  A lesson is     *)
(* named by its number.  How much of a video was watched is a level: 0, 1  *)
(* the completion threshold, 2 the point where the player calls it         *)
(* finished.  Where the video is, nobody knows but the video.              *)
(***************************************************************************)
EXTENDS Integers, FiniteSets, CourseLessons

CONSTANTS
    Readings,   \* which of them may be without a video
    MaxSaves    \* bound: mutations in flight

ASSUME PlayerAssumption == N \in Nat \ {0} /\ Readings \subseteq SUBSET (1..N) /\ MaxSaves \in Nat

Levels == 0..2
Enough == 1
Finish == 2

\* The queries and the pages: the course by its slug, a lesson by its id.
Course == 0
Keys == {Course} \cup Lessons

VARIABLES
    reading,        \* lessons without a video
    enrolled, watched, done,        \* at the server
    astray,         \* history: a mutation failed, or an answer was overtaken or came
                    \* to the wrong page
    cache,          \* of each query: its data, whether it is fresh, its fetch
    flight,         \* mutations in flight
    at,             \* the page
    seen,           \* what the effect of LessonPage ran for last
    player          \* the state of LessonPage

server == <<reading, enrolled, watched, done>>
playerVars == <<server, astray, cache, flight, at, seen, player>>

Answers == [enrolled: BOOLEAN, done: SUBSET Lessons, watched: Levels]

Nothing == [nothing |-> TRUE]
Unasked == [nothing |-> FALSE]
Asked == [asked |-> TRUE]

Mutations == [op: {"enroll", "complete", "save"}, lesson: 0..N, level: Levels,
              here: BOOLEAN, answered: BOOLEAN]

PlayerTypeOK ==
    /\ reading \in Readings /\ enrolled \in BOOLEAN
    /\ watched \in [Lessons -> Levels] /\ done \subseteq Lessons /\ astray \in BOOLEAN
    /\ \A k \in Keys :
          /\ cache[k].val \in Answers \cup {Nothing} /\ cache[k].fresh \in BOOLEAN
          /\ cache[k].fetch \in Answers \cup {Unasked, Asked}
    /\ flight \subseteq Mutations /\ Cardinality(flight) <= MaxSaves
    /\ at \in Keys
    /\ seen \in [lesson: 0..N, done: BOOLEAN, watched: Levels]
    /\ player \in [completed: BOOLEAN, finished: BOOLEAN, playing: BOOLEAN,
                   running: BOOLEAN, level: Levels]

-----------------------------------------------------------------------------
(* The server. *)

\* getLesson, findCourseBySlug: what each tells the learner.
Answer(k) ==
    [enrolled |-> k = Course /\ enrolled,
     done     |-> IF k = Course THEN done ELSE done \cap {k},
     watched  |-> IF k \in Lessons THEN watched[k] ELSE 0]

\* currentLessonNumber: one past the furthest lesson that is done.
PointerTo(d) == CHOOSE p \in Lessons :
                   /\ p = N \/ p \notin d
                   /\ \A l \in d : l <= p
                   /\ p = 1 \/ p - 1 \in d

CurrentLessonNumber == PointerTo(done)

Accepted(m) == m.op = "enroll" \/ (enrolled /\ m.lesson <= CurrentLessonNumber)

\* enroll, updateProgress, completeLesson.
Serve(m) ==
    /\ enrolled' = (enrolled \/ m.op = "enroll")
    /\ watched' = [l \in Lessons |-> IF l = m.lesson /\ m.op # "enroll"
                                     THEN Larger(watched[l], m.level) ELSE watched[l]]
    /\ done' = done \cup {l \in Lessons : l = m.lesson /\ watched'[l] >= Enough}
    /\ UNCHANGED reading

-----------------------------------------------------------------------------
(* The query cache (@tanstack/react-query, with the options of App.tsx). *)

\* The queries of a page: LessonPage asks for the course, too, and for the lesson
\* once it has the course.
Mounted(page) == IF page \in Lessons THEN {Course, page} ELSE {page}

Ready(k) == k \in Lessons => cache[Course].val # Nothing

\* invalidateQueries: stale, and fetched again at once where it is on the screen.
Invalidated(ks) ==
    [k \in Keys |->
        IF k \in ks
        THEN [cache[k] EXCEPT !.fresh = FALSE,
                              !.fetch = IF k \in Mounted(at) /\ Ready(k) THEN Asked ELSE @]
        ELSE cache[k]]

\* Data that was on its way to a page that has closed will count as fresh.
Overtaken(ks) == \E k \in ks \ Mounted(at) : cache[k].fetch \notin {Unasked, Asked}

\* A page that opens fetches what is not fresh.
Opened(page, c) ==
    [k \in Keys |-> IF k \in Mounted(page) /\ ~c[k].fresh /\ c[k].fetch = Unasked
                       /\ (k \in Lessons => c[Course].val # Nothing)
                    THEN [c[k] EXCEPT !.fetch = Asked] ELSE c[k]]

\* Mutant: the course is invalidated by its id, and it is not cached by that.
StaleById(m) == IF m.op = "enroll" THEN {} ELSE Lessons

\* The keys that onSuccess of useEnroll, useUpdateProgress and useCompleteLesson
\* invalidate.
Stale(m) == IF m.op = "enroll" THEN {Course} ELSE {Course} \cup Lessons

-----------------------------------------------------------------------------
(* The player. *)

Fresh == [completed |-> FALSE, finished |-> FALSE, playing |-> FALSE,
          running |-> FALSE, level |-> 0]

Unseen == [lesson |-> 0, done |-> FALSE, watched |-> 0]

\* What the effect depends on: the lesson, whether it is done, how far it is watched.
Depends(l, val) ==
    IF val = Nothing THEN Unseen
    ELSE [lesson |-> l, done |-> l \in val.done, watched |-> val.watched]

\* The effect: completion and level as the server has them, no dialog, not playing;
\* the video element itself goes on as it was.
Reset(p, d) ==
    [p EXCEPT !.completed = d.done, !.level = d.watched, !.playing = FALSE,
              !.finished = FALSE]

\* Mutant: the second lesson is open, too.
LockedLater(l) == l > 2 /\ cache[Course].val # Nothing /\ l - 1 \notin cache[Course].val.done

\* isLocked.
Locked(l) == l > 1 /\ cache[Course].val # Nothing /\ l - 1 \notin cache[Course].val.done

\* The first lesson that is not completed, else the one the enrollment points to.
ResumeLesson ==
    LET left == Lessons \ cache[Course].val.done
    IN IF left = {} THEN PointerTo(cache[Course].val.done)
       ELSE CHOOSE l \in left : \A m \in left : l <= m

\* The lesson's page is shown, with its content.
Shows(l) ==
    /\ at = l /\ cache[Course].val # Nothing /\ cache[l].val # Nothing /\ ~Locked(l)

Video(l) == Shows(l) /\ l \notin reading

\* "here": the page that sent it is still open.
Mutation(op, l, level) ==
    [op |-> op, lesson |-> l, level |-> level, here |-> TRUE, answered |-> FALSE]

\* Bound: no more than MaxSaves in flight.
Send(m) == flight' = flight \cup {m} /\ Cardinality(flight') <= MaxSaves

PlayerInit ==
    /\ reading \in Readings
    /\ enrolled = FALSE /\ watched = [l \in Lessons |-> 0] /\ done = {} /\ astray = FALSE
    /\ cache = [k \in Keys |-> [val |-> Nothing, fresh |-> FALSE,
                                fetch |-> IF k = Course THEN Asked ELSE Unasked]]
    /\ flight = {} /\ at = Course /\ seen = Unseen /\ player = Fresh

-----------------------------------------------------------------------------
(* What is answered. *)

ServeQuery(k) ==
    /\ cache[k].fetch = Asked
    /\ cache' = [cache EXCEPT ![k].fetch = Answer(k)]
    /\ UNCHANGED <<server, astray, flight, at, seen, player>>

\* The data is shown; on a lesson that may make the effect run.
Arrive(k) ==
    /\ cache[k].fetch \notin {Unasked, Asked}
    /\ LET val == cache[k].fetch
           d == Depends(k, val)
           c == [cache EXCEPT ![k] = [val |-> val, fresh |-> TRUE, fetch |-> Unasked]]
       IN /\ cache' = IF k = Course THEN Opened(at, c) ELSE c
          /\ IF k \in Lessons /\ k = at /\ d # seen
             THEN seen' = d /\ player' = Reset(player, d)
             ELSE UNCHANGED <<seen, player>>
    /\ UNCHANGED <<server, astray, flight, at>>

ServeMutation(m) ==
    /\ m \in flight /\ ~m.answered /\ Accepted(m)
    /\ Serve(m)
    /\ flight' = (flight \ {m}) \cup {[m EXCEPT !.answered = TRUE]}
    /\ UNCHANGED <<astray, cache, at, seen, player>>

\* onSuccess; handleMarkComplete goes on to show its dialog, on whatever lesson its
\* page has come to show.
Succeeds(m) ==
    /\ m \in flight /\ m.answered
    /\ flight' = flight \ {m}
    /\ cache' = Invalidated(Stale(m))
    /\ astray' = (astray \/ Overtaken(Stale(m)) \/ (m.op = "complete" /\ m.here /\ at # m.lesson))
    /\ IF m.op = "complete" /\ m.here
       THEN player' = [player EXCEPT !.completed = TRUE, !.finished = @ \/ m.lesson = N]
       ELSE UNCHANGED player
    /\ UNCHANGED <<server, at, seen>>

\* Refused, or lost on the way there or on the way back; the page does not change.
Fails(m) ==
    /\ m \in flight
    /\ flight' = flight \ {m}
    /\ astray' = TRUE
    /\ UNCHANGED <<server, cache, at, seen, player>>

\* Five minutes pass.
Ages ==
    /\ \E k \in Keys : cache[k].fresh
    /\ cache' = [k \in Keys |-> [cache[k] EXCEPT !.fresh = FALSE]]
    /\ UNCHANGED <<server, astray, flight, at, seen, player>>

-----------------------------------------------------------------------------
(* What the learner does. *)

\* The route of the lessons has one LessonPage: from a lesson to the next it stays,
\* and the effect runs with what is cached.
Visit(page) ==
    /\ page # at
    /\ at' = page
    /\ cache' = Opened(page, cache)
    /\ LET d == IF page \in Lessons THEN Depends(page, cache[page].val) ELSE Unseen
           kept == IF at \in Lessons THEN player ELSE Fresh
       IN /\ seen' = d
          /\ player' = IF page \in Lessons
                       THEN [Reset(kept, d) EXCEPT !.running = FALSE]
                       ELSE Fresh
    /\ flight' = IF page \in Lessons THEN flight ELSE {[m EXCEPT !.here = FALSE] : m \in flight}
    /\ UNCHANGED <<server, astray>>

Enroll ==
    /\ at = Course /\ cache[Course].val # Nothing /\ ~cache[Course].val.enrolled
    /\ Send(Mutation("enroll", 0, 0))
    /\ UNCHANGED <<server, astray, cache, at, seen, player>>

\* The button of a lesson that is read, shown until it is completed.
MarkComplete(l) ==
    /\ Shows(l) /\ l \in reading /\ ~player.completed
    /\ Send(Mutation("complete", l, Finish))
    /\ UNCHANGED <<server, astray, cache, at, seen, player>>

Play(l) ==
    /\ Video(l) /\ ~player.running
    /\ player' = [player EXCEPT !.running = TRUE, !.playing = TRUE]
    /\ UNCHANGED <<server, astray, cache, flight, at, seen>>

\* The pause saves, and so does the end of the video.
Pause(l) ==
    /\ Video(l) /\ player.running
    /\ Send(Mutation("save", l, player.level))
    /\ player' = [player EXCEPT !.running = FALSE, !.playing = FALSE]
    /\ UNCHANGED <<server, astray, cache, at, seen>>

\* handleTimeUpdate, wherever the video is: at the finish the lesson is completed,
\* here and in a save.
Watch(l, p) ==
    /\ Video(l) /\ player.running
    /\ LET ends == p = Finish /\ ~player.completed
       IN /\ player' = [player EXCEPT !.level = p, !.completed = @ \/ ends,
                                      !.finished = @ \/ (ends /\ l = N)]
          /\ IF ends THEN Send(Mutation("save", l, Finish)) ELSE UNCHANGED flight
    /\ UNCHANGED <<server, astray, cache, at, seen>>

\* onEnded.
Ends(l) ==
    /\ Video(l) /\ player.running
    /\ Send(Mutation("save", l, Finish))
    /\ player' = [player EXCEPT !.running = FALSE, !.playing = FALSE, !.completed = TRUE]
    /\ UNCHANGED <<server, astray, cache, at, seen>>

\* handleSeek saves where the learner went, watched or not.
Seek(l, p) ==
    /\ Video(l)
    /\ Send(Mutation("save", l, p))
    /\ UNCHANGED <<server, astray, cache, at, seen, player>>

\* Every fifteen seconds, while the state says that the video plays.
AutoSave(l) ==
    /\ Video(l) /\ player.playing
    /\ Send(Mutation("save", l, player.level))
    /\ UNCHANGED <<server, astray, cache, at, seen, player>>

\* A button of the dialog that sends the learner to the certificate.
Dismiss ==
    /\ player.finished
    /\ player' = [player EXCEPT !.finished = FALSE]
    /\ UNCHANGED <<server, astray, cache, flight, at, seen>>

-----------------------------------------------------------------------------
Acts ==
    \/ Enroll \/ Dismiss \/ \E p \in Keys : Visit(p)
    \/ \E l \in Lessons : MarkComplete(l) \/ Play(l) \/ Pause(l) \/ Ends(l) \/ AutoSave(l)
    \/ \E l \in Lessons, p \in Levels : Seek(l, p) \/ Watch(l, p)

Replies ==
    \/ \E k \in Keys : ServeQuery(k) \/ Arrive(k)
    \/ \E m \in flight : ServeMutation(m) \/ Succeeds(m) \/ Fails(m)

\* Bound: a behaviour that has gone astray is not followed any further.
PlayerNext ==
    \/ ~astray /\ (Acts \/ Replies \/ Ages)
    \/ astray /\ UNCHANGED playerVars

PlayerSpec == PlayerInit /\ [][PlayerNext]_playerVars

-----------------------------------------------------------------------------
(* Properties. *)

\* Nothing is under way, and nothing has gone astray.
Settled == ~astray /\ flight = {} /\ \A k \in Keys : cache[k].fetch = Unasked

\* When nothing is under way a page shows the progress that the server has: every
\* mutation invalidates the queries it concerns (useLms.ts).
ShownIsTrue ==
    Settled => \A k \in Mounted(at) : cache[k].val = Answer(k)

\* A lesson is locked on its page exactly when the server would refuse its progress
\* (isLocked of LessonPage.tsx, the lock of updateProgress and completeLesson).
LockAgrees ==
    Settled /\ enrolled /\ at \in Lessons => (Locked(at) <=> at > CurrentLessonNumber)

\* "Continue learning" leads to a lesson that is open and, while there is one, not
\* done (resumeLesson of CourseDetailPage.tsx).
ResumeIsOpen ==
    Settled /\ enrolled /\ at = Course =>
        /\ ResumeLesson <= CurrentLessonNumber
        /\ ResumeLesson \in done => Lessons \subseteq done

\* What is shown as completed is completed, once its save has had its answer.
CompletedIsDone ==
    Settled /\ enrolled /\ at \in Lessons /\ player.completed => at \in done

\* At rest the pages tell the learner the truth.
PagesTellTruth == PlayerTypeOK /\ ShownIsTrue /\ CompletedIsDone

\* The pages and the server agree on what is open, and lead there.
OpenAsServed == LockAgrees /\ ResumeIsOpen

\* "Finishing the last lesson: the certificate is waiting" (LessonPage.tsx): the
\* dialog stays until it is dismissed or the page is left.
DialogStays == [][player.finished /\ ~player'.finished => at' # at \/ Dismiss]_playerVars

=============================================================================
