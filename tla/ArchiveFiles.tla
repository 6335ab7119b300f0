------------------------------ MODULE ArchiveFiles ------------------------------
(***************************************************************************)
(* The files of one archive record and the picture of one user: rows in    *)
(* the database that name assets of a storage provider, which takes part   *)
(* in no transaction.  Uploads and deletions of FilesService, the removal  *)
(* of the record (ArchivesService.remove), the subjects that its update    *)
(* deletes and writes anew, and the avatar of ProfileService.  An action   *)
(* is one call of the database or of the provider with the code up to the  *)
(* next one.  Requests that may not edit the record are refused and change *)
(* nothing; they are left out.                                             *)
(*                                                                         *)
(* "mode" is chosen at the start of a behaviour: its requests wait for     *)
(* each other (orderly), overlap (racing), or overlap and fail (failing).  *)
(***************************************************************************)
EXTENDS Integers, FiniteSets

CONSTANTS
    Requests,       \* requests in progress
    Files,          \* ids of assets, and of the rows that name them
    NoFile,
    Media           \* the ids of images, audio and video; the others are documents

ASSUME FilesAssumption == NoFile \notin Files /\ Media \subseteq Files

VARIABLES
    present,        \* the archive record exists
    rows,           \* ArchiveFile: the files of the record
    subjects,       \* ArchiveSubject: the requests whose lists are stored;
                    \* NoFile stands for the list the record was created with
    avatar,         \* User.avatar_path
    assets,         \* what the provider holds
    req,
    driver,         \* STORAGE_DRIVER
    mode

vars == <<present, rows, subjects, avatar, assets, req, driver, mode>>

Operations == {"upload", "deleteAll", "deleteOne", "remove", "update", "avatar", "noAvatar"}

Request == [op: Operations,
            pc: {"idle", "store", "insert", "find", "list", "destroy", "rows",
                 "record", "subjects", "rewrite", "avatar"},
            file: Files \cup {NoFile},      \* stored, or to be deleted
            list: SUBSET Files]             \* assets still to be destroyed

TypeOK ==
    /\ present \in BOOLEAN
    /\ rows \in SUBSET Files
    /\ subjects \in SUBSET (Requests \cup {NoFile})
    /\ avatar \in Files \cup {NoFile}
    /\ assets \in SUBSET Files
    /\ req \in [Requests -> Request]
    /\ driver \in {"local", "cloudinary"}
    /\ mode \in {"orderly", "racing", "failing"}

-----------------------------------------------------------------------------
Resting == [op |-> "update", pc |-> "idle", file |-> NoFile, list |-> {}]

Init ==
    /\ present = TRUE
    /\ rows = {} /\ assets = {} /\ avatar = NoFile
    /\ subjects = {NoFile}
    /\ req = [r \in Requests |-> Resting]
    /\ driver \in {"local", "cloudinary"}
    /\ mode \in {"orderly", "racing", "failing"}

At(r, pc) == req[r].pc = pc

Rest == \A r \in Requests : At(r, "idle")

\* A request comes in and has made its first call.
Begin(r, op, pc, file, list) ==
    /\ At(r, "idle")
    /\ mode = "orderly" => Rest
    /\ req' = [req EXCEPT ![r] = [op |-> op, pc |-> pc, file |-> file, list |-> list]]
    /\ UNCHANGED <<present, rows, subjects, avatar, assets, driver, mode>>

Goto(r, pc) == req' = [req EXCEPT ![r].pc = pc]

Finish(r) == req' = [req EXCEPT ![r] = Resting]

\* Names that nothing refers to any more; the code makes them from clock or uuid.
Fresh == Files \ (assets \cup rows \cup {avatar} \cup {req[r].file : r \in Requests}
                         \cup UNION {req[r].list : r \in Requests})

Storable(op) == IF op = "avatar" THEN Fresh \cap Media ELSE Fresh

\* The assets that a deletion leaves where they are: Cloudinary takes the type of
\* an asset from the extension of its public id, which an upload has cut off, so
\* only documents are found under the type that is then assumed.
Kept == IF driver = "local" THEN {} ELSE Media

\* Bound: a request that will store something finds a name.
Room ==
    Cardinality(Storable("avatar")) >
        Cardinality({r \in Requests : At(r, "store") \/ (At(r, "destroy") /\ req[r].op = "avatar")})

-----------------------------------------------------------------------------
(* The requests. *)

Upload(r) == present /\ Room /\ Begin(r, "upload", "store", NoFile, {})

DeleteAll(r) == present /\ Begin(r, "deleteAll", "list", NoFile, {})

Remove(r) == present /\ Begin(r, "remove", "list", NoFile, {})

DeleteOne(r) == present /\ \E f \in rows : Begin(r, "deleteOne", "find", f, {})

Update(r) == present /\ Begin(r, "update", "subjects", NoFile, {})

UploadAvatar(r) ==
    /\ Room
    /\ IF avatar = NoFile THEN Begin(r, "avatar", "store", NoFile, {})
                          ELSE Begin(r, "avatar", "destroy", NoFile, {avatar})

DeleteAvatar(r) ==
    IF avatar = NoFile THEN Begin(r, "noAvatar", "avatar", NoFile, {})
                       ELSE Begin(r, "noAvatar", "destroy", NoFile, {avatar})

-----------------------------------------------------------------------------
(* Their further calls. *)

Store(r) ==
    /\ At(r, "store")
    /\ \E f \in Storable(req[r].op) :
          /\ assets' = assets \cup {f}
          /\ req' = [req EXCEPT ![r].file = f,
                                ![r].pc = IF req[r].op = "upload" THEN "insert" ELSE "avatar"]
    /\ UNCHANGED <<present, rows, subjects, avatar, driver, mode>>

\* A row of a record that has been removed is refused by its foreign key.
Insert(r) ==
    /\ At(r, "insert")
    /\ rows' = IF present THEN rows \cup {req[r].file} ELSE rows
    /\ Finish(r)
    /\ UNCHANGED <<present, subjects, avatar, assets, driver, mode>>

Find(r) ==
    /\ At(r, "find")
    /\ req' = [req EXCEPT ![r] = IF req[r].file \in rows
                                 THEN [@ EXCEPT !.pc = "destroy", !.list = {req[r].file}]
                                 ELSE Resting]
    /\ UNCHANGED <<present, rows, subjects, avatar, assets, driver, mode>>

\* Mutant: removing the record leaves its files to the cascade.
ListUnlessRemoving(r) ==
    /\ At(r, "list")
    /\ \/ req[r].op = "remove" /\ Goto(r, "rows")
       \/ /\ req[r].op # "remove" /\ rows # {}
          /\ req' = [req EXCEPT ![r].pc = "destroy", ![r].list = rows]
       \/ req[r].op # "remove" /\ rows = {} /\ Finish(r)
    /\ UNCHANGED <<present, rows, subjects, avatar, assets, driver, mode>>

\* Deleting all files of a record that has none is refused; removing it is not.
List(r) ==
    /\ At(r, "list")
    /\ \/ rows # {} /\ req' = [req EXCEPT ![r].pc = "destroy", ![r].list = rows]
       \/ rows = {} /\ req[r].op = "remove" /\ Goto(r, "rows")
       \/ rows = {} /\ req[r].op # "remove" /\ Finish(r)
    /\ UNCHANGED <<present, rows, subjects, avatar, assets, driver, mode>>

Then(op) == IF op = "avatar" THEN "store" ELSE IF op = "noAvatar" THEN "avatar" ELSE "rows"

\* A failure of the provider is logged and passed over.
Destroy(r) ==
    /\ At(r, "destroy")
    /\ \E f \in req[r].list :
          /\ \/ assets' = IF f \in Kept THEN assets ELSE assets \ {f}
             \/ mode = "failing" /\ UNCHANGED assets
          /\ req' = [req EXCEPT ![r].list = @ \ {f},
                                ![r].pc = IF req[r].list = {f} THEN Then(req[r].op) ELSE @]
    /\ UNCHANGED <<present, rows, subjects, avatar, driver, mode>>

\* One row by its id, or all rows of the record, listed or not.
DeleteRows(r) ==
    /\ At(r, "rows")
    /\ rows' = IF req[r].op = "deleteOne" THEN rows \ {req[r].file} ELSE {}
    /\ IF req[r].op = "remove" THEN Goto(r, "record") ELSE Finish(r)
    /\ UNCHANGED <<present, subjects, avatar, assets, driver, mode>>

\* Files and subjects go with the record.
DeleteRecord(r) ==
    /\ At(r, "record")
    /\ present' = FALSE /\ rows' = {} /\ subjects' = {}
    /\ Finish(r)
    /\ UNCHANGED <<avatar, assets, driver, mode>>

DeleteSubjects(r) ==
    /\ At(r, "subjects")
    /\ subjects' = {}
    /\ Goto(r, "rewrite")
    /\ UNCHANGED <<present, rows, avatar, assets, driver, mode>>

WriteSubjects(r) ==
    /\ At(r, "rewrite")
    /\ subjects' = IF present THEN subjects \cup {r} ELSE subjects
    /\ Finish(r)
    /\ UNCHANGED <<present, rows, avatar, assets, driver, mode>>

\* Mutant: deleting the picture leaves its path in the profile.
SetAvatarOnly(r) ==
    /\ At(r, "avatar")
    /\ avatar' = IF req[r].op = "avatar" THEN req[r].file ELSE avatar
    /\ Finish(r)
    /\ UNCHANGED <<present, rows, subjects, assets, driver, mode>>

SetAvatar(r) ==
    /\ At(r, "avatar")
    /\ avatar' = IF req[r].op = "avatar" THEN req[r].file ELSE NoFile
    /\ Finish(r)
    /\ UNCHANGED <<present, rows, subjects, assets, driver, mode>>

\* The process dies, or a call throws where nothing catches it.
Abandon(r) ==
    /\ mode = "failing" /\ ~At(r, "idle")
    /\ Finish(r)
    /\ UNCHANGED <<present, rows, subjects, avatar, assets, driver, mode>>

\* remove catches what goes wrong with the files and deletes the record.
RemoveAnyway(r) ==
    /\ mode = "failing" /\ req[r].op = "remove"
    /\ At(r, "list") \/ At(r, "rows")
    /\ Goto(r, "record")
    /\ UNCHANGED <<present, rows, subjects, avatar, assets, driver, mode>>

Next == \E r \in Requests :
    \/ Upload(r) \/ DeleteAll(r) \/ Remove(r) \/ DeleteOne(r) \/ Update(r)
    \/ UploadAvatar(r) \/ DeleteAvatar(r)
    \/ Store(r) \/ Insert(r) \/ Find(r) \/ List(r) \/ Destroy(r) \/ DeleteRows(r)
    \/ DeleteRecord(r) \/ DeleteSubjects(r) \/ WriteSubjects(r) \/ SetAvatar(r)
    \/ Abandon(r) \/ RemoveAnyway(r)

Spec == Init /\ [][Next]_vars

-----------------------------------------------------------------------------
(* Properties. *)

Named == (rows \cup {avatar}) \ {NoFile}

\* Between requests that wait for each other the provider holds what the rows
\* name and nothing else, but for the assets its deletion does not reach
\* (files.service.ts deletes assets and rows by separate calls).
NothingLeftBehind == mode = "orderly" /\ Rest => Named \subseteq assets /\ assets \ Named \subseteq Kept

\* However requests overlap, once they have ended no row names an asset that is
\* gone, and the profile shows a picture that exists: the assets are destroyed
\* before the rows, and only rows that are about to go lose theirs.
NothingBroken == mode # "failing" /\ Rest => Named \subseteq assets

\* Overlapping updates may leave two lists of subjects side by side but never
\* none, and updates that wait for each other leave one (archives.service.ts:259).
SubjectsKept ==
    mode # "failing" /\ Rest /\ present =>
       subjects # {} /\ (mode = "orderly" => Cardinality(subjects) = 1)

\* Whatever overlaps, files, pictures and subjects hold together.
HoldsTogether == TypeOK /\ NothingBroken /\ SubjectsKept

=============================================================================
