# Verification of the Archivna platform

TLA+ models of Archivna, of its API (`apps/api`), of the parts of its client that
keep state (`apps/web`) and of the script that seeds its database, the TLC
configurations that check them on small instances, and theorems about them with
proofs checked by TLAPS. Every definition is translated from the source; `PROJECT.json` maps
each one to its lines. Paths below are relative to the repository.

## The system

Archivna is a NestJS API over PostgreSQL (Prisma) with a React client that also
ships as a mobile application. A handler is an `async` function that awaits one
database call after another. Node runs other requests during each await, several
requests of one user are common (tabs, parallel refreshes, a video player that
reports progress without waiting), and the process may die between two calls.
Transactions are rare: most handlers read, decide on what they read, and write
in a later call that does not look again. That is where this system is hard to
get right and hard to test, so that is what is modelled: **one action is one
database call with the code that runs up to the next one.**

| Component | State | Operations | What is hard | Correct when |
|---|---|---|---|---|
| Sessions (`auth/auth.service.ts`) | `RefreshToken` rows with `replaced_by_id` links, the password | login, refresh (rotation), logout, change and reset of the password, unawaited purge | callers race for one token; claim, creation and link are three calls; grace window, polls, hop limit; lost replies | a session has one line of succession with at most one usable token; logout and password change end what they say; a lost race costs nothing |
| Authorization (`common/authorization`) | `RoleAssignment` rows | role predicates, `canReadFile` | scope of a role | a role counts only in its institution |
| Editorial workflow (`governance`, `archives`, `audit`) | status and timestamps of an `ArchiveRecord`, its `ArchiveWorkflowEvent` rows, the audit log | transition; publish and unpublish by the compatibility routes | status checked on an earlier read; two routes with different writes; three stores written separately | stages are not skipped; event trail, audit log, timestamps and status agree |
| Learning (`lms/lms.service.ts`) | `LessonProgress`, `CourseEnrollment`, `UserAchievement`, `Certificate` | enroll, progress, complete, then recompute, award, certify | four derived facts recomputed in ten calls by overlapping requests; lessons drafted meanwhile; rounding | lessons in order, nobody stuck, the certificate exactly when the course is finished |
| Archival hierarchy (`catalog`) | `ArchivalUnit` tree | create, update, path | parent validated on an earlier read; fields absent or null; children not looked at | every unit one step below its parent, no cycle, the walk to the root ends |
| Access requests, role assignments (`governance`, `archives`) | `AccessRequest`, `RoleAssignment`, access level of the record and its `AccessPolicy` | request, decide, assign, revoke, change the level | find-then-create, decide twice, a unique index that lets null pass, the level written twice | one active request, one decision that was announced, a revoked role is gone, policy and record agree |
| Course authoring (`lms`) | lesson numbers, duration of the course | add, update, delete, reorder | two transactions with a parking range; counts and sums read earlier | numbers 1..n; the order asked for; a duration that is in step |
| Files, pictures, subjects (`files`, `files/storage`, `archives`, `profile`) | `ArchiveFile`, `ArchiveSubject`, `avatar_path` and stored assets | upload, delete one or all, removal of the record, update of the subjects, picture of a profile | two stores, no common transaction; assets listed, then destroyed, then rows deleted | no row without its asset, no asset without a row |
| Session client (`apps/web`: `api/client.ts`, `store/authStore.ts`, `lib/nativeSession.ts`) | access token, shared refresh, user, timers, cookie or device copies | refresh, retry after 401, sign in, sign out, reopen | one refresh for many callers, hiccups that are no logouts, a bridge that times out, writes nobody waits for | the copies of who is signed in agree; nobody is signed out silently; no wait is endless |
| Learning pages (`LessonPage`, `CourseDetailPage`, `useLms`) | query cache, player, mutations in flight | enroll, watch, seek, read, move between pages | the cache learns of a change by the keys that are invalidated; answers come to pages that have moved on | at rest the pages show what the server has and lock what it would refuse |
| Registration, password codes, preferences (`RegisterPage`, `SettingsPage`, `ThemeToggle`, `auth`, `settings`) | form, debounced searches and patches, `User`, `Institution`, `AppSetting` | register, forgot and reset, choose, toggle | an institution before its account; one debounce for all preferences; two rows and two widgets for one theme | registration is whole; a code works once; the last choice arrives; no page waits for ever |
| Seeds (`prisma/seed.ts`) | all tables with demo content | the script, run again and again | no transaction, crashes, users at work, rows without a unique key | nothing twice, nothing missing, nothing of the users lost |
| Search, favorites, notifications, support, news, health | single rows | single-row reads and writes | normalisation written twice (TypeScript, SQL) | the two agree |

On the server the components meet in the database only: authorization reads the assignments
that governance writes, the workflow handlers and the catalog ask authorization,
every handler of governance and archives writes the audit log, and files are
readable by status, access level and grant. The client meets the server in its
requests: `SessionClient` keeps a session where `TokenRotation` keeps its chain of
tokens, `LessonPlayer` answers in one step what `LessonProgress` does in ten, and
the seeds write the tables all of them read.

## Modules

| Module | Contents |
|---|---|
| `TokenRotation` | the refresh tokens of one user |
| `Authorization` | the role predicates as operators |
| `Transitions` | statuses, actions and the transition table |
| `EditorialPath` | abstract specification: what the workflow promises |
| `Workflow` | both handlers that move a record; implements `EditorialPath` |
| `AccessRequests` | access requests, role assignments and the access level of one record |
| `CourseLessons` | the numbers of the lessons, shared by `LessonProgress` and `LessonPlayer` |
| `LessonProgress` | one learner in one course |
| `LessonList` | abstract specification: the order of lessons as a list |
| `LessonOrder` | the lessons of one course as authors edit them; implements `LessonList` |
| `Hierarchy` | the tree of archival units |
| `ArchiveFiles` | files and subjects of one record, picture of one user |
| `SessionClient` | the session of one browser tab or app |
| `LessonPlayer` | the pages of a learner in one course |
| `Account` | registration, password codes and preferences of one account |
| `Seeding` | the seed script over a database in use |
| `..._proofs` | the theorems about the module they are named after; behind them, about `LessonPlayer` (in `LessonProgress_proofs`), `Account` (`SessionClient_proofs`) and `Seeding` (`Workflow_proofs`) |
| `MC...` | values, symmetry or an order of names for TLC |

`Workflow` and `AccessRequests` extend `Authorization`, `Workflow` and
`EditorialPath` extend `Transitions`, `LessonProgress` and `LessonPlayer` extend
`CourseLessons`. The specifications of `LessonPlayer`, `Account` and `Seeding` are
called `PlayerSpec`, `AccountSpec` and `SeedingSpec`. Every module of a handler keeps each request in a record
with a program counter `pc` (which call comes next) and the values it carries
from one call to the next, which is what makes stale reads possible. `Room`,
`Admit` or `Begin` bounds how many requests are in progress together.

**Orderly behaviours.** A variable `orderly` that `Init` chooses and no step
changes splits the behaviours of a module: in an orderly one the requests wait
for each other and the process stays alive, in the others they overlap (up to
`Overlap`) and may be cut short. (`LessonProgress` has three `setting`s, the
third with lessons published and drafted meanwhile. `ArchiveFiles`, `SessionClient`
and `Seeding` have a `mode` and `Account` a `manner`, described with each of them.) Properties without that
premise hold in all behaviours. Properties with it are what the handlers promise
and races break; the section on overlapping requests says how.

Operators preceded by "Mutant:" are plausible bugs of the definition that follows
them. No specification uses them; substituted for that definition they make a
property fail, which is how each property is known to bite.

### TokenRotation and `auth.service.ts`

`row` is the table: a row is unused, stored or purged, has the columns of the
schema, and two history fields nothing reads: `family` (the login it descends
from) and `cred` (the password version that login was checked against). Users do
not interact here, because every query names one token or the tokens of one
user. Tokens are uuids, used once.

| Code | Actions |
|---|---|
| `login` | `LoginCheck` (read, compare), `LoginStore`, `Purge` (started, not awaited) |
| `rotateRefreshToken` | `RefreshRead`, `Claim` (the conditional `updateMany`), `StoreReplacement`, `Link` |
| `resolveReplacement`, `waitForReplacement` | `WaitForReplacement` (one poll), `FollowReplacement` (one hop), `Cascade` (theft alarm) |
| `logout`, `revokeChain` | `LogoutRead`, then `WalkChain` and `MarkLink` per link |
| `changePassword` | `ChangeCheck`, `ChangeWrite`, `ChangeRevoke` |
| faults | `Crash` between any two calls, a reply lost (`Answer`), `Tick` |

A client presents only tokens some reply delivered (`Known`), including old ones.
The account's status is not modelled: nothing in these handlers changes it, and a
refusal after the claim behaves like `Crash`.

### Workflow, `governance.service.ts` and `archives.service.ts`

One record. `transition` is `ReadTransition` (read, rule, role, timestamps) and
`WriteTransition` (the `$transaction`: update by id, and event). `publish` and
`unpublish` are `ReadCompat`, `WriteCompat` (status and `published_at` only) and
`RecordEvent`. Both end in `LogAudit`. `Init` is the record as
`ArchivesService.create` leaves it. Timestamps are a set of the names that are
set. Refused calls change nothing and are not steps. The assignments do not
change while a request runs: the code reads them in the same breath as the record.

`EditorialPath` has two variables, `status` and `trail`, and one action: a move
in the transition table that appends its event. The refinement mapping gives it
the status, and the trail extended by the event of a compatibility route that
has written the status but not yet its event.

### AccessRequests, `governance.service.ts`, `authorization.service.ts` and `archives.service.ts`

One published record, the requests for access to it, and the assignments of the
users of its institution.

| Code | Actions |
|---|---|
| `assignRole` | `AssignRead` (may the caller), `AssignFind`, `AssignWrite` (update, create, or refused by the unique index, which lets two null institutions pass) |
| `revokeRole` | `RevokeRead`, `RevokeWrite` |
| `requestAccess` | `AskRead` (level, `canReadFile`), `AskFind` (the duplicate), `AskCreate` |
| `decideAccess` | `DecideRead` (still pending, level), `DecideCheck` (roles), `DecideWrite` (by id), `Tell` (the notification) |
| `ArchivesService.update` | `LevelRead`, `LevelWrite`, `PolicyWrite` (only if the level differs from the one read) |
| faults | `Crash` between any two calls, `Tick` |

`Offers` is the set of roles that get assigned. Left out: the text and note of a
request, the hours a reviewer chooses (a grant lasts `Hours`), the audit entries,
which nothing here reads, and records that are not published, for which nobody
may ask. `silenced`, the requests whose last decision lost its notification to a
crash, is history.

### LessonProgress and `lms.service.ts`

`enroll` is `EnrollRead`, `EnrollCreate`. `updateProgress` is `WatchRead`,
`Upsert`; `completeLesson` is `FinishRead`, `Upsert`. Both go on into
`updateCourseProgress`: `CountLessons`, `CountCompleted`, `FindFurthest`,
`Advance`, then `CheckAchievement` / `Award` per achievement, and for a finished
course `FindCertificate` / `CreateCertificate` before the second round of
achievements. `SetStatus` is the edit of `updateLesson` these handlers can notice.
Reads that the code issues together, or whose results do not depend on each other
(the lookup and the count of one achievement, the fields copied into a
certificate), are one step. Percentages are integers and `Math.round` is modelled
exactly. `ever`, the lessons ever credited, is history.

### LessonOrder and `lms.service.ts`

`addLesson` is `AddRead` (the count), `AddCreate`; `updateLesson` is `UpdateRead`,
`UpdateWrite`; `deleteLesson` is `DeleteRead`, `DeleteRow` and then
`renumberLessons`: `Collect` (by ascending number), `Park` and `Number`, the two
transactions of `applyLessonOrder`; `reorderLessons` is `ReorderRead` and the same
two. Adding, updating and deleting end in `syncCourseDuration`: `SumMinutes`,
`WriteDuration`. The unique index on (course, number) refuses a row in the middle
of a transaction (`Fits`), and the request fails. A lesson counts one minute if
it is published and has a video, none otherwise. Left out: attachments, which go
with their lesson, and an order that names a lesson twice. `alone`, the request
that has had the course to itself, is history.

`LessonList` has the list and the order asked for. The mapping lists the stored
lessons by the distance of their number from zero, which is the same before,
between and after the two transactions of a deletion; a reorder takes effect when
it parks the lessons.

### Hierarchy and `catalog.service.ts`

`create` is `CreateCheck`, `CreateWrite`; `update` is `UpdateRead`,
`UpdateValidate`, `UpdateWrite`; `path` is `PathRead` and one `PathStep` per read.
A body is any record of fields given or `Absent`, chosen where it makes its first
difference; a null parent is `NoUnit`. The differences between `??`, `||` and
spreading the body into the update are the point of the module (`ParentToCheck`,
`Given`, `Written`). Levels are depths 0..Depth-1.

An update may break the hierarchy in three ways, and three history variables name
what it broke, so that the properties can say that nothing else is broken. `misled`
are the requests whose unit was written, or whose parent was given another level or
institution, between their check and their write. `displaced` are the units that
such a request wrote, that were written with a null parent, or whose parent has
another level or institution since; an update that nobody overtakes takes its unit
off that list. `releveled` are the units whose level some update changed.

### ArchiveFiles, `files.service.ts`, `archives.service.ts` and `profile.service.ts`

Ids stand for assets and for the rows that name them. `mode` is `orderly`,
`racing` (requests overlap) or `failing` (they also die, and the provider's calls
fail: a failed deletion is logged and passed over). `driver` is the storage in use.

| Code | Actions |
|---|---|
| `uploadFile` | `Upload`, `Store`, `Insert` (refused if the record has gone) |
| `deleteFile`, `deleteSingleFile`, `deleteFilesByArchiveId` | `DeleteAll` / `DeleteOne`, `List` / `Find`, `Destroy` per asset, `DeleteRows` |
| `ArchivesService.remove` | `Remove`, the same calls, `DeleteRecord`; `RemoveAnyway` is its `catch` |
| `ArchivesService.update` | `Update`, `DeleteSubjects`, `WriteSubjects` |
| `uploadAvatar`, `deleteAvatar` | `UploadAvatar` / `DeleteAvatar`, `Destroy`, `Store`, `SetAvatar` |

`Kept` is what the Cloudinary deletion does not reach: it guesses the type of an
asset from the extension of its public id, which the upload has cut off, so that
images, audio and video stay. Not modelled: refusals of who may not edit, contents.

### SessionClient, `client.ts`, `authStore.ts`, `nativeSession.ts` and `auth.controller.ts`

An action is the code between two events. `refresh` is the shared promise with
whoever waits for it (the effect at mount, the timer, a tab that becomes visible,
calls that got 401). `stored` is the cookie of a browser or the local copy of the
app, `mirror` its preferences, `writes` what was sent over the bridge and not
waited for. In `patient` behaviours exchanges take turns and all is answered; in
`shaky` ones requests fail, the bridge times out and the agent is closed at any
moment; in `hasty` ones signing in and out overlaps with a refresh.

| Code | Actions |
|---|---|
| `refreshSession` and its waiters | `Ask` in `TimerFires`, `BecomesVisible`, `Refused`; `ReadMirror`, `ServeRefresh`, `Granted`, `Denied`, `Stumbled` |
| `scheduleRefresh` | `TimerFires`, `RetryFires` |
| interceptors | `Send`, `Answered`, `Refused`, `Resent` / `Failed` with the refresh; `GivenUp`, the call sent again that fails for good and is taken for the end of the session |
| `login`, `logout` | `Login`, `ServeLogin`, `LoggedIn`, `LoginFails`; `Logout`, `ServeLogout`, `LoggedOut` |
| `writeLocal`, `mirror` | `Keep`, `WriteMirror` |
| environment | `Expires`, `EndsAtServer`, `Reopen` |

A second tab of the browser is not modelled. `abandoned`, in patient behaviours the
sessions that `GivenUp` dropped at the client only, is history.

### LessonPlayer, `LessonPage.tsx`, `CourseDetailPage.tsx` and `useLms.ts`

The query cache has the data of each query, whether it is fresh, and its fetch.
The server answers in one step (`Serve`), since one learner's own requests are
what the pages wait for. How much of a video was watched is a level (none, the
completion threshold, the point the player calls the end). `Arrive` runs the
effect that resets the player, `Succeeds` the invalidations of `useLms.ts`, `Ages`
the five minutes of `App.tsx`. `astray` is set when a mutation fails or an answer
comes to a page that has moved on; such behaviours are not followed further, since
nothing in the code repairs them before the next load. Left out: the position in the video, guests,
reviews.

### Account: `auth.service.ts`, `settings.service.ts` and their pages

A request goes through the statements of its handler, `heard` or not by a page
that still waits. By its `manner`: in `calm` ones the user does one thing at a time and answers come in
order, in `rough` ones requests, timers and failures overlap.

| Code | Actions |
|---|---|
| `RegisterPage` | `ChooseKind`, `WriteText`, `SearchFires`, `SearchAnswered`, `Pick`, `Submit`, `Welcome`, `RegistrationRefused`, `GivesUp` |
| `register` | `TurnedAway` (by the ValidationPipe: `register.dto.ts` limits lengths that the form does not), `RegisterFind`, `Found` (the institution), `CreateUser`, `Claim` |
| `forgotPassword`, `resetPassword` | `Forgot`, `IssueCode`; `Reset`, `ResetFind`, `ResetWrite`; `Told` |
| `SettingsPage` | `OpenSettings`, `Loaded`, `LoadFails`, `Choose`, `PatchFires`, `Saved`, `Leave` |
| `ThemeToggle` | `Toggle`, by the theme `knob` it was mounted with |
| `getSettings`, `updateSettings` | `ReadSetting`; `SaveRow`, `SaveUser` |

Two preferences stand for five: the theme, which `User` repeats, and e-mails,
which it does not. `wish` is history.

### Seeding, `prisma/seed.ts`

`stage` and `todo` are where `main` is: the stages in its order and the rows the
loop has still to do; `half` counts the statements done for a row, `snapshot` is
what `findMany` gave to the stage. `mode` is `between` (users write between runs),
`live` (also while it runs) or `authored` (as `between`, and lessons are deleted
and reordered). `Use` are the writes of the other services that the script could
spoil. `SeedingInit` is the database as the migrations leave it. A record has one file
and one subject here. The array `COURSES` (lines 172-982) is not used by the script.

## Runs

| Run | Question | Bounds and why they suffice |
|---|---|---|
| `tr_tokens` | do racing requests keep one line of succession, does each end; do logout, password change and the grace window keep their word? | 4 tokens; 4 requests one by one, or 3 in progress together; crash and loss, clock to 2 with grace 1 and life 2. A login and two callers of its token reach every race for the claim; three hops and two polls reach each exit of both loops; four requests log in, rotate twice, then replay or log out with any earlier token. Safety for more of them is proved |
| `tr_logout_race` | the same for a logout that overlaps a rotation | violated, see below |
| `wf_moves` | can races and crashes skip a stage; does the workflow implement the path, do its histories agree? | 2 requests, 7 changes: one full way to publication by either route, a withdrawal and one more. Four users, one role each |
| `ar_grants` | is there one request, one decision, one truth about roles and level? | 3 users, 4 requests of which 2 overlap, 2 rows of requests and 4 of assignments, a grant of one tick: enough to ask, be granted, lose the level and ask again; to assign a role twice and revoke it; to find the unique index taken |
| `lp_course` | are lessons completed in order, is everything derived from them correct? | 3 lessons (a middle one with one before and one after), 2 requests, all three settings |
| `lo_edited` | do edits keep a numbered list and the duration; does a renumbering repair? | 3 lessons, 2 requests: enough to park two against a third, and to delete in the middle |
| `hi_reparent` | is every unit one step below its parent, is there no cycle, does the walk to the root end, whatever updates write? | 3 units on 3 levels, 2 institutions; request 1 creates, walks and updates one field at a time, request 2 updates any fields (`Roles`); one unit at a time in the second institution (`Abroad`) and one displaced or releveled (`Bounded`, `MaxLoose` = 1): a unit moved, detached or edited under another that is being checked against it, and mended again. More of them, and requests without roles: the safety is proved |
| `fi_files` | what do uploads, deletions and removals leave behind? | 2 requests, 2 documents and 2 images: a file being deleted beside one being uploaded, an old picture beside a new one |
| `sc_web` | who is signed in, in every copy; does every wait end? | 2 sessions in a row (one that ended and the next), 1 call beside mount, timer and tab, 2 writes under way |
| `pl_pages` | do the pages tell what the server has? | 2 lessons, one watched and one read, 2 mutations in flight: the lock between two lessons, and a save beside another |
| `se_rerun` | is the script safe to run again? | one row per plain table, 2 institutions, 2 seeded records and a deposited one, 3 lessons, 1 crash and 2 acts of users in any order with as many runs as there are. With `MaxCrashes = 2` the properties hold as well (5.4 million states) |
| `ap_pages` | is a registration whole, does a code work once, do choices arrive, do pages settle? | 5 acts of the user, 2 requests at a time, 2 codes, 2 institutions: choose, search, pick, submit, and then one more on the other page |

A property that is a conjunction of named parts is one question of a run:
`OneLineOfSuccession` (one live token, linear links, answers in the session),
`HistoryTellsStatus` (trail, timestamps), `EnrollmentTellsTruth` (enrollment,
certificate), `TablesAgree` (one active request, told as decided, policy),
`NothingTakenBack` (completion, pointer), and those of the five last modules.

Deadlock checking is off for `TokenRotation`, `Workflow`, `AccessRequests` and
`Account`, whose requests, changes or acts are bounded in number, so that a
behaviour may come to rest; it is on elsewhere.

`MCTokenRotation` uses the numbers 1, 2, ... as ids of tokens and of requests and
lets the next id always be the smallest unused one (`InOrder`). A behaviour with
other ids is a renaming of such a behaviour, and the properties mention no
particular id, so nothing is lost; unlike TLC's symmetry reduction this is sound
for `RequestsEnd`. `MCHierarchy` does the same with units, for `PathEnds`. Other `MC`
modules use symmetry, for safety only.

Bounds in the guards: `Overlap` and `Rivals` (requests together), `MaxTime`
(clock), `MaxTrail` and `MaxBegun` (requests that come in), `Spare` (units
created), `Room` of `ArchiveFiles` (names left), `MaxWrites`, `MaxSaves`, `Slots`
and two searches on their way (what is in flight), `MaxActs`, `MaxCodes`,
`MaxEdits`, `MaxCrashes`, and one use of each request in `TokenRotation`. Those of
`MCHierarchy` are constraints on states (`Bounded`, `InOrder`, `Roles`, `Abroad`). `Grace`,
`TTL`, `MaxHops`, `Polls` and `Hours` stand for 60 s, 7 days, 5, 6 and 72 h; the
code only compares times and counts, and small values reproduce every order of them.

Fairness: `FairSpec` (and `MCSpec`) give weak fairness to the next call of each
request that has begun (`Serve`, `PathStep`), and to nothing else. A database
call that was issued returns or throws, and the event loop runs its continuation.
Arrivals, crashes, edits and the clock are not fair. `RequestsEnd` and `PathEnds`
rest on it. `SessionClient` is fair to answers, exchanges, writes over the bridge
and each call (requests have a timeout in `client.ts`, calls over the bridge one in
`platform.ts`); not to timers, users or the server's ending of a session.
`NobodyWaits` and `Remembered` rest on it. `Account` is fair to its `Replies`:
requests answer or fail, timers fire. `PagesSettle` rests on it.

### What the violation run shows

`tr_logout_race`: `auth.service.ts:248-249` says logout revokes the whole chain so
that "a token issued moments earlier in another tab cannot keep the session
alive". A rotation that has claimed its token and not linked the new one yet
leaves the walk nothing to follow, and its token outlives the logout.

### Statements that do not hold

These are definitions of the modules that state what the source says of itself
and that the code does not keep. None of them is in a configuration; adding the
definition to the named one as INVARIANT or PROPERTY gives the trace.

| Definition | Add to | What the source says, and what happens |
|---|---|---|
| `TokenRotation!ReplayAfterLogoutIsHarmless` (PROPERTY) | `tr_tokens` | `auth.service.ts:320-322`: the links already rotated are marked too, so that "replaying an earlier link is not evidence of theft". The walk starts at the token presented, normally the newest; earlier links keep their reason, and replaying one revokes every session of the user |
| `Workflow!PublishOnlyFromApproved` (PROPERTY) | `wf_moves` | `governance.service.spec.ts:12` "rejects direct publication"; a publish decided while the record was approved is carried out after another request returned it to draft |
| `LessonProgress!CertificateEarned` (PROPERTY) | `lp_course` | `schema.prisma:676`: issued "once a learner completes every published lesson". Completed lessons are counted whatever their status, so drafting a completed lesson makes up for a published one that is not |
| `LessonOrder!ParkingFits` | `lo_edited` with `Overlap = 1` | `lms.service.ts:914-917`: parked on negatives to stay clear of numbers in use. After a crash between the two transactions the negatives are still there, and the next renumbering runs into them |
| `TokenRotation!LosersAreAnswered` (PROPERTY) | `tr_logout_race` | `auth.service.ts:168-171`: "the losers are answered with the replacement token instead of being logged out". A loser polls six times, 100 ms apart; if the winner's link is not there by then, the loser, whose token is marked as rotated, takes the replay for a theft and revokes every session of the user, the one the winner has just stored included |
| `Hierarchy!OnlyFondsAlone` | `hi_reparent` | `archival-levels.ts:6-8`: "only a fonds stands on its own", and the rule "is checked when a unit is written". A body with a null parent is validated with the old parent and written with null (`catalog.service.ts:60-61`) |
| `SessionClient!ClearedOnlyWhenGone` (PROPERTY) | `sc_web` | `authStore.ts:65`: "the client already clears the session when it is genuinely gone". The call that is sent again after a refresh is awaited in the same `try` as the refresh (`client.ts:198-201`): if its own answer is a 404, say, the access token, the kept token of an app and the user are cleared, while the session and the cookie live on. Nothing needs to fail or overlap for it |
| `SessionClient!HiccupIsNoLogout` (PROPERTY) | `sc_web` | `client.ts:203` "A rate limit, a server hiccup or an offline moment is not a logout". `auth.controller.ts:161` clears the cookie whatever made the rotation fail, and the next refresh is refused |
| `SessionClient!ForgottenWhenClosed` | `sc_web` | `apps/web/src/api/auth.ts:29`: without "remember me" the session ends with the browser session. `auth.controller.ts:159` sets the refreshed cookie with the maximum age of a remembered one |
| `LessonPlayer!DialogStays` (PROPERTY) | `pl_pages` | `LessonPage.tsx:565` "Finishing the last lesson: the certificate is waiting". The effect at lines 155-163 runs again when the save of that lesson is answered and closes the dialog |

Two more facts that no document contradicts: "independent" on the registration
form goes to the server as the id of an institution and is refused
(`RegisterPage.tsx:245`; `RefusedOnlyUnknown` allows for it, and for fields longer
than the server takes), and images, audio and video are never deleted at Cloudinary
(`Kept`).

### What overlapping requests break

These properties fail when the premise `orderly` is dropped, on the constants of
their run (without crashes, except for `TokenRotation` and `Workflow`). What a
comment of the source claims for overlapping requests as well is `LogoutEndsSession`
(`tr_logout_race`) and `LosersAreAnswered` (above); of the others we know no such
claim, and they say where the care of the authors ends.

| Property | How it fails |
|---|---|
| `PasswordChangeEndsSessions` | a login or rotation in progress stores its token after the change |
| `GraceKeepsSession` | the polls of a loser end before the winner's link, and it raises the theft alarm (`LosersAreAnswered`) |
| `TrailIsComplete` (of `HistoryTellsStatus`) | status, event and audit entry are written in the order of another request, or not at all after a crash |
| `StampsTellPublication` (of `HistoryTellsStatus`) | a move decided earlier sets the timestamps for a status that another request has changed since |
| `OneActiveRequest` (of `TablesAgree`) | two requests find no duplicate and both create one |
| `ToldAsDecided` (of `TablesAgree`) | two reviewers read the request as pending; the second write wins, both notifications are sent (`OutcomeTold` and `DecisionStands`, which hold, say what is left: the one in force is announced, and only those two can change it) |
| `RevokedIsGone` | two assignments of a role without institution create two rows, and one survives the revocation |
| `PolicyAgrees` (of `TablesAgree`) | two updates write the level in one order and the policy in the other, or the second sees no difference |
| `NothingTakenBack`, `EnrollmentAgrees` (of `EnrollmentTellsTruth`), `NobodyStuck` | an update computed from an older read is written last: a completed lesson, the count or the pointer goes back |
| `CompletedCourseHasCertificate` (of `EnrollmentTellsTruth`) | the request that loses the race for an achievement fails before the certificate |
| `NumberedWithoutGaps`, `OrderlyParkingFits` | a lesson is added or deleted while the others are parked |
| `NothingLeftBehind` | a file uploaded between the listing and the deletion of the rows loses its row and keeps its asset; so does an upload whose record is removed |
| `SignedOutLeavesNothing`, `MirrorFollows` (of `OneIdentity`) | a refresh granted while the user signs out is kept; a failed logout leaves the session at the server; a write over the bridge is lost |
| `CodeWorksOnce` | two resets find the code before either clears it |
| `ChoicesArrive` | a choice made within 400 ms of another replaces its patch; leaving the page drops it; a load that fails saves what the page started with |
| `FoundedWithAccount` (of `RegistrationWhole`) | the page gives up on a registration and submits again: the second one creates an institution before its account is refused |
| `SeedsAreWhole` (of `SeededOnce`) | records change after the list was read, and get the unit or the policy they had then |

Other constants: with `MaxHops = 2` `OrderlyLogoutEndsSession` fails, the walk
stops before the live end of a longer chain (in the code, one of more links than
`MAX_ROTATION_HOPS`). With `N = 200` `EarnedUnlessEdited` fails, 199 of 200 rounds
to 100.

`Hierarchy`: drop `displaced` from `OneStepAbove`, or `releveled` from `NoCycle`, and
each fails. Children are not looked at when a level or an institution changes, so that
units whose levels are edited one after the other come to hang off each other in a
circle, and `path` does not end. That a reviewer may decide only on levels that are the
record's when the decision is written does not hold either: the record may become
sovereign between `DecideCheck` and `DecideWrite`.

## Proofs

TLAPS proves these for every value of the constants allowed by the assumptions of
the module (and those stated in the theorem): any number of tokens, requests,
users, roles, lessons, units, institutions and seeds, any overlap, with crashes and losses.

| Theorem | States |
|---|---|
| `TokenRotation_proofs!TypeCorrect`, `OneLiveToken`, `ChainLinear`, `AnswersInSession`, `SuccessionFinal` | `TypeOK`, `OneLiveTokenPerSession`, `ReplacementChainLinear`, `AnswersStayInSession`, `SuccessionIsFinal` |
| `TokenRotation_proofs!OneLine` | `OneLineOfSuccession`, from the three in the middle |
| `TokenRotation_proofs!PasswordChangeTakes` | `PasswordChangeEndsSessions` |
| `TokenRotation_proofs!LogoutEnds` | `OrderlyLogoutEndsSession`, under `PurgesAtRest`, `PresentsRecent` and `PresentsStored` (below) |
| `TokenRotation_proofs!GraceKeeps` | `GraceKeepsSession`, if `Grace < TTL`, under `PurgesAtRest` and `PresentsRecent` |
| `SessionClient_proofs!TypeCorrect`, `IdentityIsOne`, `SignedOutMeansOut`, `NobodySignedOutSilently` | `TypeOK`, `OneIdentity`, `SignedOutLeavesNothing`, `NoSilentSignOut`: all the safety of `sc_web` |
| `Workflow_proofs!TypeCorrect`, `NoStageSkipped`, `HistoryIsTrue` | `TypeOK`, `StagesInOrder`, `HistoryTellsStatus` |
| `Workflow_proofs!ImplementsPath` | `FollowsEditorialPath`: the refinement of `EditorialPath`, for moves that wait for each other |
| `AccessRequests_proofs!TypeCorrect`, `NoDuplicates`, `ToldTheTruth`, `PolicyKept`, `TablesInAgreement`, `RevocationTakes`, `NoDecisionOverturned`, `OutcomeAnnounced` | `TypeOK` and all the properties of `ar_grants`; the last two whatever overlaps and crashes, the others for requests that wait for each other |
| `LessonProgress_proofs!TypeCorrect`, `InOrder` | `TypeOK`, `LessonsInOrder` (drafting included) |
| `LessonProgress_proofs!CertificateIsEarned` | `EarnedUnlessEdited`, if `N < 200`: as seen above, the condition is needed |
| `LessonProgress_proofs!AlwaysALesson`, `NothingLost`, `EnrollmentIsTrue` | `NobodyStuck`, `NothingTakenBack`; `EnrollmentTellsTruth` if `N < 200` |
| `LessonOrder_proofs!TypeCorrect`, `NoGaps`, `NothingInTheWay`, `DurationKeepsStep`, `RenumberingHeals` | `TypeOK`, `NumberedWithoutGaps`, `OrderlyParkingFits`, `DurationInStep`, `RenumberingRepairs` |
| `LessonOrder_proofs!KeepsTheList` | `ImplementsList`: the refinement of `LessonList`, for edits that wait for each other |
| `Hierarchy_proofs!TypeCorrect`, `StepAbove`, `NeverCyclic` | `TypeOK`, `OneStepAbove`, `NoCycle`: all the safety of `hi_reparent`, for updates of any fields |
| `ArchiveFiles_proofs!FilesHoldTogether`, `NothingIsLeft` | `HoldsTogether`, `NothingLeftBehind`: all the properties of `fi_files` |
| `LessonProgress_proofs!PagesAreTrue`, `OpenedAsServed` | `PagesTellTruth`, `OpenAsServed` of `LessonPlayer`: all the properties of `pl_pages` |
| `SessionClient_proofs!RegistersWhole`, `CodesWorkOnce`, `ChoicesAlwaysArrive` | `RegistrationWhole`, `CodeWorksOnce`, `ChoicesArrive`: all the safety of `ap_pages` |
| `Workflow_proofs!SeedsComeOnce`, `RunsGetThrough`, `SeedingKeepsRecords` | `SeededOnce`, `FailsOnlyIfCut`, `PreservesRecords`: all the properties of `se_rerun` |

The inductive invariants:

* **TokenRotation** (`IInv`). `OneLiveTokenPerSession` is not inductive: a
  request about to store or link a replacement carries facts about rows. `RowsOK`
  says what the table looks like (unused ids are blank, links leave revoked rows,
  stay in the session and are unique), `RequestsOK` that what a request holds is
  of the session of the token it presented, `RotationsOK` that a rotation owns
  the token it claimed, still without a link, and the one it created until it has
  linked the two. The conditional claim is what makes two winners impossible.
  `PasswordInv` adds, for requests that wait for each other, that the password a
  login was checked against is still the password and that a rotation passes it on.
* **TokenRotation, logout and replay** (`ChainInv`, `SignedOff`). A logout and a
  replay walk a chain while nobody else moves. That they come to its end takes two
  facts about the shape of the table: a session has one token without a replacement
  (`OneEnd`), and the links ascend (`Ascending`, a rank that exists), so that the
  line ahead of the cursor gets shorter with each hop (`LineShrinks`) and the hops that
  are left are enough for it (`Holds`). A session without a usable token and
  without a rotation that will create one stays so (`Over`, `OverStable`). For the
  grace window, `Heirs` relates the dates of a token and its replacement. It fails
  while a logout writes new dates, and then either the walk is still on its way
  (`Walking`) or the session is over. Three conditions, each on what happens at the
  moment of a step, are hypotheses of the theorems: a token that is presented was
  replaced fewer than `MaxHops` times since (`PresentsRecent`; a client presents
  the last one it was given), it is still in the table when it is presented to sign
  out (`PresentsStored`), and no row is purged between two calls of a request
  (`PurgesAtRest`; the deletion is sent to the database before the reply to its
  login). TLC refutes `OrderlyLogoutEndsSession` without any one of the three, with
  `MaxHops = 2` and a clock beyond `TTL`; in `tr_tokens` the bounds imply them.
* **SessionClient** (`IInv`). `Known` and `Tidy` say where what the client has came
  from and what stands behind an answer. The rest is by kind of behaviour: while
  exchanges take turns (`Turns`) what is sent is what is stored; in patient ones
  (`Mirrored`, `Checking`, `SignedOut`, `SignedIn`) the last write under way is of the local
  copy, and the sessions still live are accounted for, by the one in use, the one
  looked for when the app opens, the one a login has just created, and those their
  users did not ask to be remembered; and those that `GivenUp` has dropped (`abandoned`). That the calls have no names in common with
  the other waiters is an assumption.
* **Workflow** (`IInv`). `StatusReached` ties the status to the trail, and
  `MovesReached` says that a request about to write carries a move of the table
  whose `from` has occurred, so that whatever the status is by then, the event
  appended has its predecessor. For moves that wait for each other `OrderlyInv`
  adds that there is one request, what it has still to record (`InStep`: between
  the status, the event and the audit row, each one behind the one before), and
  the timestamps every way to a status has set (`StampsBehind`). The same
  invariant maps every step to a step of `EditorialPath` or a stutter.
* **AccessRequests** (`Inv`). `Prepared` says of a request what its reads have
  found and is still so, such as the status and level a decision rests on;
  `OneByOne` that there is one such request, so that nobody undoes it. `OneRow`
  (a role has one row) is what revocation needs, `Announced` and `PolicyFollows`
  are the promises about notifications and policy with the calls still to come.
  `OutcomeTold` is inductive with `TypeOK` alone, and `DecisionStands` needs no more:
  both hold whatever overlaps and crashes.
* **LessonProgress** (`OrderInv`, `CountInv`). Everything a request carries is
  stated against `ever`, which only grows: a lesson about to be credited has all
  its predecessors in it, and so has every lesson up to the pointer; the furthest
  lesson read was completed. For the certificate, the counts read never exceed
  what was ever completed, a lemma shows that the rounded percentage of fewer
  than 200 lessons reaches 100 only when all are done, and the calls that follow
  carry that conclusion. For requests that wait for each other `OrderlyInv` says
  that the completed lessons are the first ones, so that the count and the furthest
  lesson of `updateCourseProgress` are one number (`FirstLessons`), and what the one
  request still owes: the enrollment agrees unless it is between its upsert and the
  update, the certificate is there unless it is on its way to it (`Fits`).
* **LessonOrder** (`OrderInv`). `AloneInv` says what a request that has had the
  course to itself knows, for instance that its order holds every lesson once and
  that the lessons are parked in that order; `OrderlyInv` that an orderly course
  has no gap, except in the calls that are about to close it. Sets of lessons are
  counted with the library's facts about cardinality. For the refinement one fact
  carries the proof: a row of all lessons by ascending distance from zero is the list
  (`PlaceInRow`, `ListedRow`), so that each step is understood by the row it leaves
  (`AppendedRow`, `RemovedRow`, `RenumberedRow`). `ListInv` adds that there is such a
  row, and that a deletion under way renumbers the lessons in that order.
* **Hierarchy** (`HangInv`, `LevelInv`). A request that nobody has overtaken still knows
  what it read: its parent as it was checked, its target as it was read (`Checked`); so
  that what it writes is a checked place, and whoever changes what others rely on
  overtakes them (`misled`) and displaces what hangs below. For circles that is not
  enough, since overtaken requests write too: `LevelInv` says of levels alone that
  nobody's are stale but those of units somebody gave another level, in rows and in what
  requests have read (`OneBelow`, `LevelKnown`). In a circle of units that kept theirs
  every level would be one more than another's, so that none is the lowest (`LevelsEnd`).
* **ArchiveFiles** (`IInv`). `Held` says that an asset about to be named is known
  to nobody else; `Apart` that pictures and files of the record never mix, also in
  lists of what is to be destroyed. `Covered` is the promise with requests under
  way: a name whose asset is gone is one that a request is about to take away
  (`Dooms`). `Orderly` adds the other direction for one request at a time.

* **LessonPlayer** (`PlayerInv`, theorem `PagesAreTrue`). What is at rest is true
  because of what is under way: an answer that is fresh, on its way or on the screen
  and not asked for again is what the server says, or a mutation that was answered
  will invalidate it (`Sound`, `Due`). Old answers tell of no lesson that is not done
  (`PastOK`; completion is never taken back), an answered save that reached the
  threshold has completed its lesson (`FlightOK`), and the player shows "completed"
  only for a lesson that is done or for a save on its way (`CompletedOK`). All of it
  until something fails (`astray`); `DoneInOrder` holds in any case.
* **Account** (`AccountSound`, theorem `AccountAlwaysSound`). In every manner, a code
  that can still be found has set no password, and the passwords a code has set or is
  about to set are no more than the requests in progress together (`CodesSound`). In
  calm behaviours one thing is under way (`Alone`), and the promises hold with it: a
  found code has set nothing yet (`CodesOnce`), a refusal has its reason while it is
  still an answer on its way (`RefusalsJust`), an institution that was founded is the
  user's or the request that founded it is about to create him (`FoundedWhole`), and a
  choice is in both rows, in the timer, or in the request that writes it (`WishesKept`).
* **Seeding** (`SeedInv`, theorem `SeedsAlwaysSound`). `SeededOnce` says something only of
  the end of a run. Before it, `Queued` says of which rows the loop has still to do what;
  `Clean` that what a stage adds without a look was taken away from those rows before;
  `SoFar`, in nine parts, what is settled while nobody else writes: every row of a stage
  that is behind, and of the present one every row no longer in `todo`. For the placing
  of records, three statements of one row, it follows them (`PlacesSoFar`): a row not
  yet begun is as it was read, which is also why nothing is moved. `Lessons` says that
  the lessons there are the first ones of the course unless authors take some away, so
  that none is met under another number.

Assumptions on the constants are stated where they are declared. Those the proofs of the last three need:
the numbers of request slots, seeded and deposited records are finite; no institution
is called "independent" or "none" (ids are generated); the slugs of the lessons and the
names of the achievements are distinct, and the tables of the seeds are the eight that
are upserted, each as a list (`seed.ts`). The bounds `MaxActs`, `MaxCodes`, `MaxSaves`,
`MaxCrashes` and `MaxEdits` may be any numbers.

Model-checked only: liveness (`RequestsEnd`, `PathEnds`, `NobodyWaits`, `Remembered`,
`PagesSettle`), which with ENABLED is beyond these provers. Every invariant and every
action property of a passing run, and both refinements, are proved, under the conditions
the table names.

## Not modelled

Reviews, saved courses, favorites, notifications, support and the administrators'
writes of institutions and profiles are single-row writes without state that spans
calls, or lose at most a request to a unique index. Search queries, listings,
queues, metadata export and HTTP plumbing keep no state. The other web pages read
and send single requests; the dictionaries (`i18n`), styles and deployment files
are data. A second tab of the browser, which shares the cookie and nothing else, is
met by `TokenRotation` as another caller of the same token. The normalisation of
Arabic text exists in TypeScript and in SQL; a model of either would be a copy of
its character tables.

## Plan

1. Composition of `SessionClient` with two tabs and `TokenRotation`.
2. The achievements counted over several courses in `LessonProgress`.
