-------------------------------- MODULE Seeding --------------------------------
(***************************************************************************)
(* prisma/seed.ts: the script that fills the database with the demo        *)
(* content, one statement after another and without a transaction.  It is  *)
(* run again and again, on databases that are in use (DEPLOYMENT.md), and  *)
(* it may die between any two statements.                                  *)
(*                                                                         *)
(* A stage is a loop or a call of main; "todo" are the rows its loop has   *)
(* still to do.  What becomes of a row is kept to what a second run could  *)
(* spoil: how often it is there, where a record hangs and who may see it.  *)
(***************************************************************************)
EXTENDS Integers, Sequences, FiniteSets, SequencesExt

CONSTANTS
    Slugged,        \* the tables that are upserted by a unique slug, with their rows
    Pilot,          \* the institution of records that name none
    NamedBy,        \* of each seeded record: the institution it names, or Pilot
    Sensitive,      \* the seeded records that are sensitive; the others are public
    Media,          \* the seeded record that comes with genuine media
    Deposits,       \* records that users may deposit
    Course,         \* the lessons of the one course, in order
    Badges,         \* the achievements
    Roles,          \* the roles of the seeded users
    Modes,          \* which of the settings below are explored
    MaxCrashes,     \* bound: crashes
    MaxEdits        \* bound: acts of users

Seeded == DOMAIN NamedBy
Records == Seeded \cup Deposits
Institutions == ToSet(Slugged["institutions"])
None == "none"
Stages == <<"users", "institutions", "members", "roles", "newsCategories", "records",
            "demo", "media", "fonds", "placing", "subjects", "news", "categories", "tags",
            "foreign", "courses", "lessons", "awards", "badges">>

\* The tables that are upserted by a slug, or by an email.
Tables == {"users", "institutions", "members", "newsCategories", "news", "categories", "tags",
           "courses"}

\* The slugs of lessons and the names of achievements are distinct, as they are in the seeds.
ASSUME SeedingAssumption ==
    /\ DOMAIN Slugged = Tables /\ \A t \in Tables : Slugged[t] \in Seq(ToSet(Slugged[t]))
    /\ Pilot \in Institutions /\ None \notin Institutions
    /\ \A r \in Seeded : NamedBy[r] \in Institutions
    /\ Media \in Seeded /\ Sensitive \subseteq Seeded \ {Media} /\ Deposits \cap Seeded = {}
    /\ IsFiniteSet(Seeded) /\ IsFiniteSet(Deposits)
    /\ Course \in Seq(ToSet(Course)) /\ IsInjective(Course)
    /\ Badges \in Seq(ToSet(Badges)) /\ IsInjective(Badges)
    /\ Roles \in Seq(ToSet(Roles))
    /\ Modes \subseteq {"between", "live", "authored"}
    /\ MaxCrashes \in Nat /\ MaxEdits \in Nat

Levels == {"public", "private", "sensitive"}

VARIABLES
    mode,           \* "between": users rest while the seed runs; "live": they do not;
                    \* "authored": as "between", and authors take lessons away
    rows,           \* the rows of the slugged tables
    role,           \* of each seeded role: "none", "active" or "revoked"
    records,        \* ArchiveRecord, with its policy, events, subjects and files
    fonds,          \* of each institution: its units GF-001
    foreign,        \* courses that are not seeded
    lessons,        \* slugs of the lessons of the seeded course, by number
    badges, awards, \* Achievement: rows of each; whether a learner has been awarded any
    running, stage, todo,
    half,           \* statements done for the first row of todo
    snapshot,       \* records as findMany gave them to the stage
    outcome,        \* of the last run, until somebody writes: "none", "done" or "failed"
    crashes, edits

people == <<mode, crashes, edits>>
courses == <<foreign, lessons, badges, awards>>
script == <<running, stage, todo, half, snapshot, outcome>>
seedingVars == <<people, rows, role, records, fonds, courses, script>>

Absent == [there |-> FALSE, institution |-> None, unit |-> None, level |-> "public",
           policy |-> None, events |-> 0, topic |-> FALSE, subjects |-> 0, files |-> 0]

SeedingTypeOK ==
    /\ mode \in Modes
    /\ \A t \in DOMAIN Slugged : rows[t] \subseteq ToSet(Slugged[t])
    /\ role \in [ToSet(Roles) -> {"none", "active", "revoked"}]
    /\ \A r \in Records :
          /\ records[r].institution \in Institutions \cup {None}
          /\ records[r].unit \in Institutions \cup {None, "series"}
          /\ records[r].level \in Levels /\ records[r].policy \in Levels \cup {None}
          /\ {records[r].events, records[r].subjects, records[r].files} \subseteq Nat
    /\ fonds \in [Institutions -> Nat] /\ foreign \in BOOLEAN
    /\ ToSet(lessons) \subseteq ToSet(Course) /\ IsInjective(lessons)
    /\ badges \in [ToSet(Badges) -> Nat] /\ awards \in BOOLEAN
    /\ running \in BOOLEAN /\ stage \in 1..Len(Stages) /\ half \in 0..2
    /\ outcome \in {"none", "done", "failed"}
    /\ crashes \in 0..MaxCrashes /\ edits \in 0..MaxEdits

-----------------------------------------------------------------------------
(* The script and its stages. *)

Listed(S) == SetToSeq(S)

There == {r \in Records : records[r].there}

\* What the loop of a stage runs over, as it begins.
Work(s) ==
    CASE s \in DOMAIN Slugged -> Slugged[s]
      [] s = "roles" -> Roles
      [] s = "records" -> SetToSeq(Seeded \ {Media})
      [] s = "demo" -> Listed((There \cap Seeded) \ {Media})
      [] s = "media" -> <<Media>>
      [] s = "fonds" -> Listed(rows["institutions"])
      [] s = "placing" -> Listed(There)
      [] s = "subjects" -> Listed({r \in There : records[r].topic})
      [] s = "lessons" -> Course
      [] s = "badges" -> Badges
      [] OTHER -> <<s>>

\* Before its loop, a stage may take away what earlier runs left: files under its
\* prefix, achievements and everybody's awards.
Cleared(s) ==
    CASE s = "demo" -> [r \in Records |-> IF r = Media THEN records[r]
                                         ELSE [records[r] EXCEPT !.files = 0]]
      [] s = "media" -> [records EXCEPT ![Media].files = 0]
      [] OTHER -> records

Row == Head(todo)
At(s) == running /\ Stages[stage] = s /\ todo # <<>>

\* The row is done.
Onward == todo' = Tail(todo) /\ half' = 0 /\ UNCHANGED <<running, stage, snapshot, outcome>>

Blank == [r \in Records |-> Absent]

Stop == running' = FALSE /\ stage' = 1 /\ todo' = <<>> /\ half' = 0 /\ snapshot' = Blank

\* A statement throws: the script ends there.
Throw == Stop /\ outcome' = "failed"

Enter(s) == running' = TRUE /\ stage' = s /\ todo' = Work(Stages[s]) /\ half' = 0

Start ==
    /\ ~running
    /\ Enter(1) /\ outcome' = "none" /\ snapshot' = records
    /\ UNCHANGED <<people, rows, role, records, fonds, courses>>

NextStage ==
    /\ running /\ todo = <<>> /\ stage < Len(Stages)
    /\ records' = Cleared(Stages[stage + 1])
    /\ badges' = IF Stages[stage + 1] = "badges" THEN [b \in ToSet(Badges) |-> 0] ELSE badges
    /\ Enter(stage + 1) /\ snapshot' = records'
    /\ UNCHANGED <<people, rows, role, fonds, foreign, lessons, awards, outcome>>

End ==
    /\ running /\ todo = <<>> /\ stage = Len(Stages)
    /\ Stop /\ outcome' = "done"
    /\ UNCHANGED <<people, rows, role, records, fonds, courses>>

Dies ==
    /\ running /\ crashes < MaxCrashes
    /\ crashes' = crashes + 1 /\ Stop
    /\ UNCHANGED <<mode, edits, rows, role, records, fonds, courses, outcome>>

-----------------------------------------------------------------------------
(* One row of each stage. *)

\* upsert by a unique slug, of users by the email, with nothing to update (but that a
\* suspended user is active again, which is not in the model).
Upsert(t) ==
    /\ At(t)
    /\ rows' = [rows EXCEPT ![t] = @ \cup {Row}]
    /\ Onward
    /\ UNCHANGED <<people, role, records, fonds, courses>>

UpsertUsers == Upsert("users")
UpsertInstitutions == Upsert("institutions")
\* "members" are the users that have been given their institution.
LinkMembers == Upsert("members")
UpsertNewsCategories == Upsert("newsCategories")
UpsertNews == Upsert("news")
UpsertCategories == Upsert("categories")
UpsertTags == Upsert("tags")
UpsertCourses == Upsert("courses")

\* ensureRole: a revoked one is active again.
EnsureRole ==
    /\ At("roles")
    /\ role' = [role EXCEPT ![Row] = "active"]
    /\ Onward
    /\ UNCHANGED <<people, rows, records, fonds, courses>>

\* A record as its seed has it; what the seed does not name stays.
Seed(r) == [records[r] EXCEPT !.there = TRUE,
                              !.level = IF r \in Sensitive THEN "sensitive" ELSE "public"]

\* Found by its reference number, updated or created.
SeedRecord ==
    /\ At("records")
    /\ records' = [records EXCEPT ![Row] = Seed(Row)]
    /\ Onward
    /\ UNCHANGED <<people, rows, role, fonds, courses>>

\* A file needs its record.
CreateFile ==
    IF records[Row].there
    THEN records' = [records EXCEPT ![Row].files = @ + 1] /\ Onward
    ELSE Throw /\ UNCHANGED records

DemoFile ==
    /\ At("demo")
    /\ CreateFile
    /\ UNCHANGED <<people, rows, role, fonds, courses>>

\* First the record, then its file.
RealMedia ==
    /\ At("media")
    /\ \/ /\ half = 0
          /\ records' = [records EXCEPT ![Row] = Seed(Row)]
          /\ half' = 1 /\ UNCHANGED <<running, stage, todo, snapshot, outcome>>
       \/ half = 1 /\ CreateFile
    /\ UNCHANGED <<people, rows, role, fonds, courses>>

\* Found, or created.
DefaultFonds ==
    /\ At("fonds")
    /\ fonds' = [fonds EXCEPT ![Row] = IF @ = 0 THEN 1 ELSE @]
    /\ Onward
    /\ UNCHANGED <<people, rows, role, records, courses>>

\* Mutant: the record's own institution does not count.
PlacedByName(r) ==
    LET institution == IF r \in Seeded THEN NamedBy[r] ELSE Pilot
        old == snapshot[r]
    IN [records[r] EXCEPT
          !.institution = institution,
          !.unit = IF old.unit # None THEN old.unit ELSE institution,
          !.level = IF old.level = "private" THEN "sensitive" ELSE old.level]

\* What the record had when it was read decides; a unit "GF-001" has the name of its
\* institution here.
Placed(r) ==
    LET old == snapshot[r]
        institution == IF old.institution # None THEN old.institution
                       ELSE IF r \in Seeded THEN NamedBy[r] ELSE Pilot
    IN [records[r] EXCEPT
          !.institution = institution,
          !.unit = IF old.unit # None THEN old.unit ELSE institution,
          !.level = IF old.level = "private" THEN "sensitive" ELSE old.level]

\* Mutant: the policy is written for new records only.
PolicyCreated(r) ==
    [records[r] EXCEPT !.policy = IF @ # None THEN @
                                  ELSE IF snapshot[r].level = "private" THEN "sensitive"
                                  ELSE snapshot[r].level]

\* The upsert of the policy, from the level that was read.
PolicyOf(r) ==
    [records[r] EXCEPT !.policy = IF snapshot[r].level = "private" THEN "sensitive"
                                  ELSE snapshot[r].level]

\* Three statements for a record; each of them needs it to be there.
PlaceRecord ==
    /\ At("placing")
    /\ IF ~records[Row].there
       THEN Throw /\ UNCHANGED records
       ELSE \/ /\ half < 2
               /\ records' = [records EXCEPT ![Row] = IF half = 0 THEN Placed(Row)
                                                      ELSE PolicyOf(Row)]
               /\ half' = half + 1
               /\ UNCHANGED <<running, stage, todo, snapshot, outcome>>
            \/ /\ half = 2
               /\ records' = [records EXCEPT ![Row].events = IF @ = 0 THEN 1 ELSE @]
               /\ Onward
    /\ UNCHANGED <<people, rows, role, fonds, courses>>

\* The subject that the record's subject_text names, found or created.
AddSubject ==
    /\ At("subjects")
    /\ IF records[Row].there
       THEN records' = [records EXCEPT ![Row].subjects = IF @ = 0 THEN 1 ELSE @] /\ Onward
       ELSE Throw /\ UNCHANGED records
    /\ UNCHANGED <<people, rows, role, fonds, courses>>

\* The courses that are not among the seeds go, with what was learned in them.
DeleteOthers ==
    /\ At("foreign")
    /\ foreign' = FALSE
    /\ Onward
    /\ UNCHANGED <<people, rows, role, records, fonds, lessons, badges, awards>>

Numbered == CHOOSE n \in 1..Len(Course) : Course[n] = Row

\* Mutant: created without a look at what is there.
InsertLesson ==
    /\ At("lessons")
    /\ IF Row \in ToSet(lessons)
       THEN Throw /\ UNCHANGED lessons
       ELSE lessons' = Append(lessons, Row) /\ Onward
    /\ UNCHANGED <<people, rows, role, records, fonds, foreign, badges, awards>>

\* upsert by the number; a slug is unique in its course.
UpsertLesson ==
    /\ At("lessons")
    /\ IF Numbered > Len(lessons) /\ Row \in ToSet(lessons)
       THEN Throw /\ UNCHANGED lessons
       ELSE /\ lessons' = IF Numbered > Len(lessons) THEN Append(lessons, Row) ELSE lessons
            /\ Onward
    /\ UNCHANGED <<people, rows, role, records, fonds, foreign, badges, awards>>

DeleteAwards ==
    /\ At("awards")
    /\ awards' = FALSE
    /\ Onward
    /\ UNCHANGED <<people, rows, role, records, fonds, foreign, lessons, badges>>

CreateBadge ==
    /\ At("badges")
    /\ badges' = [badges EXCEPT ![Row] = @ + 1]
    /\ Onward
    /\ UNCHANGED <<people, rows, role, records, fonds, foreign, lessons, awards>>

-----------------------------------------------------------------------------
(* The platform is in use.  Bound: MaxEdits acts. *)

Act ==
    /\ edits < MaxEdits /\ (mode = "live" \/ ~running)
    /\ edits' = edits + 1 /\ outcome' = IF running THEN outcome ELSE "none"
    /\ UNCHANGED <<mode, crashes, running, stage, todo, half, snapshot>>

\* create of archives.service.ts, with or without a unit of the institution.
Deposit(r, level, unit, topic) ==
    /\ ~records[r].there
    /\ \E i \in rows["institutions"] :
          records' = [records EXCEPT ![r] =
              [Absent EXCEPT !.there = TRUE, !.institution = i, !.unit = unit, !.level = level,
                             !.policy = level, !.events = 1, !.topic = topic]]
    /\ Act
    /\ UNCHANGED <<rows, role, fonds, courses>>

\* update, with its policy.
ChangeLevel(r, level) ==
    /\ records[r].there /\ records[r].level # level
    /\ records' = [records EXCEPT ![r].level = level, ![r].policy = level]
    /\ Act
    /\ UNCHANGED <<rows, role, fonds, courses>>

RemoveRecord(r) ==
    /\ records[r].there
    /\ records' = [records EXCEPT ![r] = Absent]
    /\ Act
    /\ UNCHANGED <<rows, role, fonds, courses>>

Revoke(x) ==
    /\ role[x] = "active"
    /\ role' = [role EXCEPT ![x] = "revoked"]
    /\ Act
    /\ UNCHANGED <<rows, records, fonds, courses>>

\* deleteLesson; the lessons behind it move up.
DeleteLesson(n) ==
    /\ mode = "authored"
    /\ lessons' = RemoveAt(lessons, n)
    /\ Act
    /\ UNCHANGED <<rows, role, records, fonds, foreign, badges, awards>>

ReorderLessons(n) ==
    /\ n < Len(lessons)
    /\ lessons' = [lessons EXCEPT ![n] = lessons[n + 1], ![n + 1] = lessons[n]]
    /\ Act
    /\ UNCHANGED <<rows, role, records, fonds, foreign, badges, awards>>

CreateCourse ==
    /\ ~foreign /\ foreign' = TRUE
    /\ Act
    /\ UNCHANGED <<rows, role, records, fonds, lessons, badges, awards>>

\* checkAchievements.
Award ==
    /\ ~awards /\ \E b \in ToSet(Badges) : badges[b] > 0
    /\ awards' = TRUE
    /\ Act
    /\ UNCHANGED <<rows, role, records, fonds, foreign, lessons, badges>>

-----------------------------------------------------------------------------
\* As the migrations leave it: the pilot institution and its fonds.
SeedingInit ==
    /\ mode \in Modes
    /\ rows = [t \in DOMAIN Slugged |-> IF t = "institutions" THEN {Pilot} ELSE {}]
    /\ role = [x \in ToSet(Roles) |-> "none"]
    /\ records = Blank
    /\ fonds = [i \in Institutions |-> IF i = Pilot THEN 1 ELSE 0]
    /\ foreign = FALSE /\ lessons = <<>> /\ badges = [b \in ToSet(Badges) |-> 0] /\ awards = FALSE
    /\ running = FALSE /\ stage = 1 /\ todo = <<>> /\ half = 0 /\ snapshot = Blank
    /\ outcome = "none" /\ crashes = 0 /\ edits = 0

Run ==
    \/ NextStage \/ End
    \/ UpsertUsers \/ UpsertInstitutions \/ LinkMembers \/ EnsureRole \/ UpsertNewsCategories
    \/ SeedRecord \/ DemoFile \/ RealMedia \/ DefaultFonds \/ PlaceRecord \/ AddSubject
    \/ UpsertNews \/ UpsertCategories \/ UpsertTags \/ DeleteOthers \/ UpsertCourses
    \/ UpsertLesson \/ DeleteAwards \/ CreateBadge

Use ==
    \/ \E r \in Deposits, l \in Levels, u \in {None, "series"}, t \in BOOLEAN : Deposit(r, l, u, t)
    \/ \E r \in Records : RemoveRecord(r) \/ \E l \in Levels : ChangeLevel(r, l)
    \/ \E x \in ToSet(Roles) : Revoke(x)
    \/ \E n \in DOMAIN lessons : DeleteLesson(n) \/ ReorderLessons(n)
    \/ CreateCourse \/ Award

SeedingNext == Start \/ Run \/ Dies \/ Use

SeedingSpec == SeedingInit /\ [][SeedingNext]_seedingVars

-----------------------------------------------------------------------------
(* Properties. *)

\* However often the script dies and is run again, it leaves no row twice: neither a
\* default fonds, an event or a subject that it creates only when it finds none, nor a
\* file or an achievement that it deletes first.
NothingTwice ==
    /\ \A r \in Records :
          records[r].events <= 1 /\ records[r].subjects <= 1 /\ records[r].files <= 1
    /\ \A i \in Institutions : fonds[i] <= 1
    /\ \A b \in ToSet(Badges) : badges[b] <= 1

\* A run that gets through, whatever the runs before it left behind, leaves the seeds
\* complete and every record, of users too, in a unit of its institution, with an
\* event and with the policy of its level.
SeedsAreWhole ==
    outcome = "done" /\ mode # "live" =>
        /\ \A t \in DOMAIN Slugged : rows[t] = ToSet(Slugged[t])
        /\ \A x \in ToSet(Roles) : role[x] = "active"
        /\ \A r \in Seeded : records[r].there /\ records[r].files = 1
        /\ \A r \in There :
              /\ records[r].institution # None
              /\ records[r].unit \in {"series", records[r].institution}
              /\ records[r].policy = records[r].level /\ records[r].level # "private"
              /\ records[r].events = 1
              /\ records[r].topic => records[r].subjects = 1
        /\ \A i \in Institutions : fonds[i] = 1
        /\ Len(lessons) = Len(Course)
        /\ \A b \in ToSet(Badges) : badges[b] = 1

\* The seeds are there once, and all of them.
SeededOnce == SeedingTypeOK /\ NothingTwice /\ SeedsAreWhole

\* Running the script again never fails on what an earlier run or a crash left, unless
\* lessons of the course were deleted, or records while it ran.
FailsOnlyIfCut ==
    outcome = "failed" => mode = "live" \/ (mode = "authored" /\ Len(lessons) < Len(Course))

\* "Link every record ... preserving all data": while users rest, no statement of the
\* script moves a record that has its place, takes it or its subjects away, or changes
\* the level of a deposited one but from private to sensitive.
PreservesRecords ==
    [][running /\ mode # "live" => \A r \in There :
          /\ records'[r].there
          /\ records[r].institution # None => records'[r].institution = records[r].institution
          /\ records[r].unit # None => records'[r].unit = records[r].unit
          /\ records'[r].subjects >= records[r].subjects
          /\ r \in Deposits /\ records'[r].level # records[r].level =>
                records[r].level = "private" /\ records'[r].level = "sensitive"]_seedingVars

=============================================================================
