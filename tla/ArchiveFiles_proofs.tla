-------------------------- MODULE ArchiveFiles_proofs --------------------------
(***************************************************************************)
(* For every number of files and of requests: whatever overlaps, no row    *)
(* and no profile is left naming an asset that is gone, and a record keeps *)
(* its subjects; requests that wait for each other leave no asset behind.  *)
(***************************************************************************)
EXTENDS ArchiveFiles, FiniteSetTheorems, TLAPS

-----------------------------------------------------------------------------
(* The inductive invariant. *)

Pictures == {"avatar", "noAvatar"}

\* The calls that a request makes, and idle between requests.
Makes(op, pc) ==
    /\ op = "upload" => pc \in {"store", "insert"}
    /\ op = "deleteAll" => pc \in {"list", "destroy", "rows"}
    /\ op = "deleteOne" => pc \in {"find", "destroy", "rows"}
    /\ op = "remove" => pc \in {"list", "destroy", "rows", "record"}
    /\ op = "update" => pc \in {"idle", "subjects", "rewrite"}
    /\ op = "avatar" => pc \in {"destroy", "store", "avatar"}
    /\ op = "noAvatar" => pc \in {"destroy", "avatar"}

Shape == \A r \in Requests :
    /\ Makes(req[r].op, req[r].pc)
    /\ ~At(r, "destroy") => req[r].list = {}
    /\ req[r].op = "deleteOne" => req[r].file # NoFile /\ req[r].list \subseteq {req[r].file}

\* A request has stored an asset that it is about to name.
Holding(r) == At(r, "insert") \/ (At(r, "avatar") /\ req[r].op = "avatar")

\* Nobody else knows that asset.
Held ==
    /\ \A r \in Requests : Holding(r) => req[r].file \in assets \ rows /\ req[r].file # avatar
    /\ \A r, s \in Requests : Holding(r) => req[r].file \notin req[s].list
    /\ \A r, s \in Requests : Holding(r) /\ s # r => req[s].file # req[r].file

\* Pictures are not files of the record, also not those about to be destroyed.
Apart ==
    /\ avatar \notin rows
    /\ \A r \in Requests : IF req[r].op \in Pictures THEN req[r].list \cap rows = {}
                                                     ELSE avatar \notin req[r].list
    /\ \A r \in Requests : req[r].op = "deleteOne" => req[r].file # avatar

\* The names that a request is about to take away.
Dooms(r, f) ==
    \/ req[r].op \in Pictures /\ f = avatar
    \/ req[r].op \in {"deleteAll", "remove"} /\ ~At(r, "list") /\ f \in rows
    \/ req[r].op = "deleteOne" /\ ~At(r, "find") /\ f = req[r].file

\* A name whose asset is gone is about to go.
Covered == mode # "failing" => \A f \in Named \ assets : \E r \in Requests : Dooms(r, f)

\* With one request at a time, an asset is named or about to be, and what is about
\* to lose its name has lost its asset or is about to.
Orderly == mode = "orderly" =>
    /\ \A r, s \in Requests : At(r, "idle") \/ At(s, "idle") \/ r = s
    /\ \A r \in Requests : req[r].op = "upload" => present
    /\ \A f \in assets \ (Named \cup Kept) : \E r \in Requests : Holding(r) /\ req[r].file = f
    /\ \A r \in Requests, f \in assets : Dooms(r, f) => f \in Kept \cup req[r].list

\* The subjects of a record are there, or about to be.
Subjects == mode # "failing" /\ present =>
    IF \E r \in Requests : At(r, "rewrite")
    THEN mode = "orderly" => subjects = {}
    ELSE subjects # {} /\ (mode = "orderly" => \E x \in Requests \cup {NoFile} : subjects = {x})

IInv == TypeOK /\ Shape /\ Held /\ Apart /\ Covered /\ Orderly /\ Subjects

-----------------------------------------------------------------------------
LEMMA InvInit == Init => IInv
<1> SUFFICES ASSUME Init PROVE IInv
  OBVIOUS
<1>1. Resting \in Request
  BY DEF Resting, Request, Operations
<1>2. TypeOK
  BY <1>1 DEF Init, TypeOK
<1>3. \A r \in Requests : req[r] = Resting
  BY DEF Init
<1>4. Shape /\ Held
  BY <1>3 DEF Shape, Held, Holding, At, Resting, Makes
<1>5. Apart /\ Covered /\ Orderly /\ Subjects
  BY <1>3, FilesAssumption
  DEF Init, Apart, Covered, Orderly, Subjects, Dooms, Holding, Named, At, Resting, Pictures
<1> QED
  BY <1>2, <1>4, <1>5 DEF IInv

\* A request comes in.
LEMMA BeginStep ==
    ASSUME IInv,
           NEW r \in Requests, NEW op \in Operations, NEW pc, NEW file,
           NEW list \in SUBSET Files,
           Begin(r, op, pc, file, list),
           pc \in {"store", "find", "list", "destroy", "subjects", "avatar"}, Makes(op, pc),
           op = "avatar" => pc # "avatar",
           IF pc = "destroy" THEN op \in Pictures /\ list = {avatar} ELSE list = {},
           pc \in {"store", "avatar"} /\ op \in Pictures => avatar = NoFile,
           op = "upload" => present,
           IF op = "deleteOne" THEN file \in rows ELSE file = NoFile
    PROVE  IInv'
<1> DEFINE new == [op |-> op, pc |-> pc, file |-> file, list |-> list]
<1>1. /\ req'[r] = new /\ \A s \in Requests \ {r} : req'[s] = req[s]
      /\ req[r].pc = "idle"
      /\ UNCHANGED <<present, rows, subjects, avatar, assets, driver, mode>>
  BY DEF Begin, IInv, TypeOK, At
<1>2. TypeOK'
  <2>1. new \in Request
    BY DEF Request, IInv, TypeOK
  <2> QED
    BY <1>1, <2>1 DEF IInv, TypeOK, Begin
<1>3. Shape'
  BY <1>1, FilesAssumption DEF IInv, TypeOK, Shape, At, Makes, Pictures
<1>4. Held'
  <2>1. \A s \in Requests : Holding(s)' => Holding(s) /\ s # r /\ req'[s] = req[s]
    BY <1>1 DEF Holding, At, Makes
  <2>2. \A s \in Requests : Holding(s) => req[s].file \in assets \ rows /\ req[s].file # NoFile
                                         /\ req[s].file # avatar
    BY FilesAssumption DEF IInv, TypeOK, Held
  <2>3. req'[r].file \in rows \cup {NoFile} /\ req'[r].list \subseteq {avatar}
    BY <1>1
  <2> QED
    BY <1>1, <2>1, <2>2, <2>3 DEF IInv, Held
<1>5. Apart'
  BY <1>1 DEF IInv, Apart, Pictures
<1>6. req[r].op = "update"
  BY <1>1 DEF IInv, Shape, TypeOK, Request, Operations, Makes
<1>7. \A s \in Requests : \A f : Dooms(s, f) => Dooms(s, f)'
  BY <1>1, <1>6 DEF Dooms, At, Pictures
<1>8. Covered'
  BY <1>1, <1>7 DEF IInv, Covered, Named
<1>9. Orderly'
  <2> SUFFICES ASSUME mode = "orderly" PROVE Orderly'
    BY <1>1 DEF Orderly
  <2>1. \A s \in Requests : s # r => req[s].pc = "idle"
    BY DEF Begin, Rest, At
  <2>2. \A g \in assets' \ (Named \cup Kept)' : \E s \in Requests : Holding(s)' /\ req'[s].file = g
    BY <1>1, <2>1 DEF IInv, Orderly, Named, Kept, Holding, At
  <2>3. \A f \in assets' : Dooms(r, f)' => f \in Kept' \cup req'[r].list
    BY <1>1, FilesAssumption DEF IInv, TypeOK, Dooms, At, Pictures, Operations, Makes
  <2>4. \A s \in Requests : s # r => (\A f : Dooms(s, f)' <=> Dooms(s, f))
    BY <1>1 DEF Dooms, At
  <2> QED
    BY <1>1, <2>1, <2>2, <2>3, <2>4 DEF IInv, Orderly, At, Kept
<1>10. Subjects'
  BY <1>1 DEF IInv, Subjects, At
<1> QED
  BY <1>2, <1>3, <1>4, <1>5, <1>8, <1>9, <1>10 DEF IInv

-----------------------------------------------------------------------------
(* The further calls. *)

LEMMA StoreStep == ASSUME IInv, NEW r \in Requests, Store(r) PROVE IInv'
<1>1. PICK f \in Fresh \cap Files :
         /\ assets' = assets \cup {f}
         /\ req' = [req EXCEPT ![r].file = f,
                               ![r].pc = IF req[r].op = "upload" THEN "insert" ELSE "avatar"]
  BY DEF Store, Storable, Fresh
<1>2. /\ req[r].op \in {"upload", "avatar"} /\ req[r].pc = "store" /\ req[r].list = {}
      /\ req'[r] = [req[r] EXCEPT !.file = f, !.pc = IF req[r].op = "upload" THEN "insert" ELSE "avatar"]
      /\ \A s \in Requests \ {r} : req'[s] = req[s]
      /\ UNCHANGED <<present, rows, subjects, avatar, driver, mode>>
  BY <1>1 DEF Store, At, IInv, TypeOK, Shape, Makes, Request, Operations
<1>3. TypeOK'
  <2>1. req'[r] \in Request
    BY <1>2 DEF IInv, TypeOK, Request
  <2> QED
    BY <1>1, <1>2, <2>1 DEF IInv, TypeOK
<1>r. /\ req'[r].op = req[r].op /\ req'[r].list = {} /\ req'[r].file = f
      /\ req'[r].pc = IF req[r].op = "upload" THEN "insert" ELSE "avatar"
  BY <1>2 DEF IInv, TypeOK, Request
<1>4. Shape'
  <2>1. /\ Makes(req'[r].op, req'[r].pc) /\ req'[r].list = {} /\ req'[r].op # "deleteOne"
    BY <1>2, <1>r DEF Makes
  <2>2. \A s \in Requests : Makes(req'[s].op, req'[s].pc)
    BY <1>2, <2>1 DEF IInv, Shape
  <2>3. \A s \in Requests : req'[s].pc # "destroy" => req'[s].list = {}
    BY <1>2, <2>1 DEF IInv, Shape, At
  <2>4. \A s \in Requests : req'[s].op = "deleteOne" =>
           req'[s].file # NoFile /\ req'[s].list \subseteq {req'[s].file}
    BY <1>2, <2>1 DEF IInv, Shape
  <2> QED
    BY <2>2, <2>3, <2>4 DEF Shape, At
<1>5. Held'
  <2>1. /\ f \notin assets \cup rows /\ f # avatar
        /\ \A s \in Requests : f \notin req[s].list /\ f # req[s].file
    BY <1>1 DEF Fresh
  <2>2. \A s \in Requests : s # r /\ Holding(s)' => Holding(s) /\ req'[s].file = req[s].file
    BY <1>2 DEF Holding, At
  <2>3. \A s \in Requests : s # r /\ Holding(s)' =>
           req'[s].file \in assets' \ rows' /\ req'[s].file # avatar'
    <3>1. \A s \in Requests : Holding(s) => req[s].file \in assets \ rows /\ req[s].file # avatar
      BY DEF IInv, Held
    <3>2. assets \subseteq assets' /\ rows' = rows /\ avatar' = avatar
      BY <1>1, <1>2
    <3> QED
      BY <2>2, <3>1, <3>2
  <2>4. f \in assets' \ rows' /\ f # avatar'
    BY <1>1, <1>2, <2>1
  <2>5. \A q, s \in Requests : Holding(q)' => req'[q].file \notin req'[s].list
    <3>1. \A q, s \in Requests : Holding(q) => req[q].file \notin req[s].list
      BY DEF IInv, Held
    <3>2. \A s \in Requests : req'[s].list = req[s].list
      BY <1>2, <1>r
    <3>3. \A s \in Requests : req'[r].file \notin req'[s].list
      BY <1>r, <2>1, <3>2
    <3> QED
      BY <2>2, <3>1, <3>2, <3>3
  <2>6. \A q, s \in Requests : Holding(q)' /\ s # q => req'[s].file # req'[q].file
    <3>1. \A q, s \in Requests : Holding(q) /\ s # q => req[s].file # req[q].file
      BY DEF IInv, Held
    <3>2. \A s \in Requests : s # r => req[s].file # f /\ req'[s].file = req[s].file
      BY <1>2, <2>1
    <3>3. req'[r].file = f
      BY <1>r
    <3> QED
      BY <2>2, <3>1, <3>2, <3>3
  <2> QED
    BY <1>r, <2>3, <2>4, <2>5, <2>6 DEF Held
<1>6. Apart'
  BY <1>2, <1>r DEF IInv, Apart, Pictures
<1>7. \A s \in Requests : \A g : Dooms(s, g) <=> Dooms(s, g)'
  <2>1. \A g : Dooms(r, g) <=> Dooms(r, g)'
    BY <1>2, <1>r DEF Dooms, At, Pictures
  <2>2. \A s \in Requests \ {r} : \A g : Dooms(s, g) <=> Dooms(s, g)'
    BY <1>2 DEF Dooms, At
  <2> QED
    BY <2>1, <2>2
<1>8. Covered'
  BY <1>1, <1>2, <1>7 DEF IInv, Covered, Named
<1>9. Orderly'
  <2> SUFFICES ASSUME mode = "orderly" PROVE Orderly'
    BY <1>2 DEF Orderly
  <2>1. Holding(r)' /\ \A s \in Requests : Holding(s) => s # r /\ Holding(s)' /\ req'[s].file = req[s].file
    BY <1>2, <1>r DEF Holding, At
  <2>2. \A g \in assets' \ (Named \cup Kept)' : \E s \in Requests : Holding(s)' /\ req'[s].file = g
    <3>1. \A g \in assets \ (Named \cup Kept) : \E s \in Requests : Holding(s)' /\ req'[s].file = g
      BY <2>1 DEF IInv, Orderly
    <3> QED
      BY <1>1, <1>2, <1>r, <2>1, <3>1 DEF Named, Kept
  <2>3. \A s \in Requests : ~Dooms(s, f)
    BY <1>1, <1>2 DEF Dooms, Fresh, At
  <2>4. \A s \in Requests, g \in assets' : Dooms(s, g)' => g \in Kept' \cup req'[s].list
    <3>1. \A s \in Requests, g \in assets : Dooms(s, g) => g \in Kept \cup req[s].list
      BY DEF IInv, Orderly
    <3>2. Kept' = Kept /\ \A s \in Requests : req'[s].list = req[s].list
      BY <1>2, <1>r DEF Kept
    <3> QED
      BY <1>1, <1>7, <2>3, <3>1, <3>2
  <2>5. \A q, s \in Requests : At(q, "idle")' \/ At(s, "idle")' \/ q = s
    BY <1>2, <1>r DEF IInv, Orderly, At
  <2>6. \A s \in Requests : req'[s].op = "upload" => present'
    BY <1>2, <1>r DEF IInv, Orderly
  <2> QED
    BY <2>2, <2>4, <2>5, <2>6 DEF Orderly
<1>10. Subjects'
  <2>1. \A s \in Requests : At(s, "rewrite")' <=> At(s, "rewrite")
    BY <1>2, <1>r DEF At
  <2> QED
    BY <1>2, <2>1 DEF IInv, Subjects
<1> QED
  BY <1>3, <1>4, <1>5, <1>6, <1>8, <1>9, <1>10 DEF IInv

\* What is left to show of a step that moves nothing but a request.
LEMMA OnlyRequests ==
    ASSUME IInv, NEW r \in Requests,
           UNCHANGED <<present, rows, subjects, avatar, assets, driver, mode>>,
           req' \in [Requests -> Request], Shape',
           \A s \in Requests : s # r => req'[s] = req[s],
           \A s \in Requests : Holding(s)' => Holding(s) /\ s # r,
           \A q, s \in Requests : Holding(q)' => req'[q].file \notin req'[s].list,
           \A q, s \in Requests : Holding(q)' /\ s # q => req'[s].file # req'[q].file
    PROVE  TypeOK' /\ Held'
<1>1. TypeOK'
  BY DEF IInv, TypeOK
<1>2. \A s \in Requests : Holding(s)' =>
         req'[s] = req[s] /\ req[s].file \in assets \ rows /\ req[s].file # avatar
  BY DEF IInv, Held
<1> QED
  BY <1>1, <1>2 DEF Held

Moves(r, pc, list) == req' = [req EXCEPT ![r].pc = pc, ![r].list = list]

\* A request moves on to a call that does not name what it has stored.
LEMMA Goes ==
    ASSUME IInv, NEW r \in Requests, NEW pc, NEW list \in SUBSET Files,
           Moves(r, pc, list),
           pc \in {"destroy", "rows", "record", "store", "avatar", "rewrite"},
           Makes(req[r].op, pc),
           pc = "avatar" => req[r].op # "avatar",
           pc # "destroy" => list = {},
           req[r].op = "deleteOne" => list \subseteq {req[r].file},
           \A q \in Requests : q # r /\ Holding(q) => req[q].file \notin list
    PROVE  /\ req' \in [Requests -> Request] /\ Shape'
           /\ req'[r].op = req[r].op /\ req'[r].pc = pc
           /\ req'[r].list = list /\ req'[r].file = req[r].file
           /\ \A s \in Requests : s # r => req'[s] = req[s]
           /\ \A s \in Requests : Holding(s)' => Holding(s) /\ s # r
           /\ \A q, s \in Requests : Holding(q)' => req'[q].file \notin req'[s].list
           /\ \A q, s \in Requests : Holding(q)' /\ s # q => req'[s].file # req'[q].file
           /\ UNCHANGED <<present, rows, subjects, avatar, assets, driver, mode>>
                 => TypeOK' /\ Held'
<1>1. req \in [Requests -> Request]
  BY DEF IInv, TypeOK
<1>2. /\ req'[r] = [req[r] EXCEPT !.pc = pc, !.list = list]
      /\ \A s \in Requests : s # r => req'[s] = req[s]
  BY <1>1 DEF Moves
<1>3. /\ req'[r].op = req[r].op /\ req'[r].pc = pc
      /\ req'[r].list = list /\ req'[r].file = req[r].file
  BY <1>1, <1>2 DEF Request
<1>4. req' \in [Requests -> Request]
  <2>1. pc \in {"idle", "store", "insert", "find", "list", "destroy", "rows",
                "record", "subjects", "rewrite", "avatar"}
    OBVIOUS
  <2>2. req'[r] \in Request
    BY <1>1, <1>2, <2>1 DEF Request
  <2> QED
    BY <1>1, <1>2, <2>2 DEF Moves
<1>5. Shape'
  <2>1. Makes(req'[r].op, req'[r].pc) /\ (req'[r].pc # "destroy" => req'[r].list = {})
    BY <1>3
  <2>2. req'[r].op = "deleteOne" =>
           req'[r].file # NoFile /\ req'[r].list \subseteq {req'[r].file}
    BY <1>3 DEF IInv, Shape
  <2>3. \A s \in Requests : s # r =>
           /\ Makes(req'[s].op, req'[s].pc)
           /\ req'[s].pc # "destroy" => req'[s].list = {}
           /\ req'[s].op = "deleteOne" =>
                 req'[s].file # NoFile /\ req'[s].list \subseteq {req'[s].file}
    BY <1>2 DEF IInv, Shape, At
  <2> QED
    BY <2>1, <2>2, <2>3 DEF Shape, At
<1>6. \A s \in Requests : Holding(s)' => Holding(s) /\ s # r
  BY <1>2, <1>3 DEF Holding, At
<1>7. \A q, s \in Requests : Holding(q)' => req'[q].file \notin req'[s].list
  <2>1. \A q, s \in Requests : Holding(q) => req[q].file \notin req[s].list
    BY DEF IInv, Held
  <2> QED
    BY <1>2, <1>3, <1>6, <2>1
<1>8. \A q, s \in Requests : Holding(q)' /\ s # q => req'[s].file # req'[q].file
  <2>1. \A q, s \in Requests : Holding(q) /\ s # q => req[s].file # req[q].file
    BY DEF IInv, Held
  <2>2. \A s \in Requests : req'[s].file = req[s].file
    BY <1>2, <1>3
  <2>3. \A q \in Requests : Holding(q)' => Holding(q)
    BY <1>6
  <2> QED
    BY <2>1, <2>2, <2>3
<1>9. UNCHANGED <<present, rows, subjects, avatar, assets, driver, mode>> => TypeOK' /\ Held'
  BY <1>2, <1>4, <1>5, <1>6, <1>7, <1>8, OnlyRequests
<1> QED
  BY <1>2, <1>3, <1>4, <1>5, <1>6, <1>7, <1>8, <1>9

\* A request ends.
LEMMA Ends ==
    ASSUME IInv, NEW r \in Requests, Finish(r)
    PROVE  /\ req' \in [Requests -> Request] /\ Shape'
           /\ req'[r].op = "update" /\ req'[r].pc = "idle"
           /\ req'[r].list = {} /\ req'[r].file = NoFile
           /\ \A s \in Requests : s # r => req'[s] = req[s]
           /\ \A s \in Requests : Holding(s)' => Holding(s) /\ s # r
           /\ \A q, s \in Requests : Holding(q)' => req'[q].file \notin req'[s].list
           /\ \A q, s \in Requests : Holding(q)' /\ s # q => req'[s].file # req'[q].file
           /\ UNCHANGED <<present, rows, subjects, avatar, assets, driver, mode>>
                 => TypeOK' /\ Held'
<1>1. req \in [Requests -> Request] /\ Resting \in Request
  BY DEF IInv, TypeOK, Resting, Request, Operations
<1>2. req'[r] = Resting /\ \A s \in Requests : s # r => req'[s] = req[s]
  BY <1>1 DEF Finish
<1>3. /\ req'[r].op = "update" /\ req'[r].pc = "idle"
      /\ req'[r].list = {} /\ req'[r].file = NoFile
  BY <1>2 DEF Resting
<1>4. req' \in [Requests -> Request]
  BY <1>1 DEF Finish
<1>5. Shape'
  BY <1>2, <1>3 DEF IInv, Shape, At, Makes
<1>6. \A s \in Requests : Holding(s)' => Holding(s) /\ s # r
  BY <1>2, <1>3 DEF Holding, At
<1>7. \A q, s \in Requests : Holding(q)' => req'[q].file \notin req'[s].list
  <2>1. \A q, s \in Requests : Holding(q) => req[q].file \notin req[s].list
    BY DEF IInv, Held
  <2> QED
    BY <1>2, <1>3, <1>6, <2>1
<1>8. \A q, s \in Requests : Holding(q)' /\ s # q => req'[s].file # req'[q].file
  <2>1. \A q, s \in Requests : Holding(q) /\ s # q => req[s].file # req[q].file
    BY DEF IInv, Held
  <2>2. \A q \in Requests : Holding(q) => req[q].file # NoFile
    BY FilesAssumption DEF IInv, TypeOK, Held
  <2> SUFFICES ASSUME NEW q \in Requests, NEW s \in Requests, Holding(q)', s # q
               PROVE  req'[s].file # req'[q].file
    OBVIOUS
  <2>3. Holding(q) /\ req'[q].file = req[q].file
    BY <1>2, <1>6
  <2>4. req'[s].file = NoFile \/ req'[s].file = req[s].file
    BY <1>2, <1>3
  <2> QED
    BY <2>1, <2>2, <2>3, <2>4
<1>9. UNCHANGED <<present, rows, subjects, avatar, assets, driver, mode>> => TypeOK' /\ Held'
  BY <1>2, <1>4, <1>5, <1>6, <1>7, <1>8, OnlyRequests
<1> QED
  BY <1>2, <1>3, <1>4, <1>5, <1>6, <1>7, <1>8, <1>9

\* While a request is under way in an orderly behaviour, the others rest.
LEMMA OneAtATime ==
    ASSUME IInv, NEW r \in Requests, ~At(r, "idle"), mode = "orderly"
    PROVE  \A s \in Requests : s # r => /\ req[s].pc = "idle" /\ req[s].op = "update"
                                        /\ ~Holding(s) /\ \A g : ~Dooms(s, g)
<1>1. \A s \in Requests : s # r => req[s].pc = "idle"
  BY DEF IInv, Orderly, At
<1>2. \A s \in Requests : s # r => req[s].op = "update"
  BY <1>1 DEF IInv, TypeOK, Request, Operations, Shape, Makes
<1> QED
  BY <1>1, <1>2 DEF Holding, Dooms, Pictures, At

LEMMA InsertStep == ASSUME IInv, NEW r \in Requests, Insert(r) PROVE IInv'
<1> DEFINE f == req[r].file
<1>1. /\ req[r].op = "upload" /\ Holding(r) /\ ~At(r, "idle")
      /\ rows' = (IF present THEN rows \cup {f} ELSE rows) /\ Finish(r)
      /\ UNCHANGED <<present, subjects, avatar, assets, driver, mode>>
  BY DEF IInv, TypeOK, Request, Operations, Shape, Makes, Insert, At, Holding
<1>2. /\ f \in assets \ rows /\ f # avatar /\ f \in Files /\ f # NoFile
      /\ \A s \in Requests : f \notin req[s].list /\ (s # r => req[s].file # f)
  BY <1>1, FilesAssumption DEF IInv, TypeOK, Held
<1>3. TypeOK' /\ Shape'
  BY <1>1, <1>2, Ends DEF IInv, TypeOK
<1>4. Held'
  <2>1. \A s \in Requests : Holding(s)' =>
           req'[s].file \in assets' \ rows' /\ req'[s].file # avatar'
    <3>1. \A s \in Requests : Holding(s)' =>
             s # r /\ req'[s] = req[s] /\ req[s].file \in assets \ rows /\ req[s].file # avatar
      BY <1>1, Ends DEF IInv, Held
    <3> QED
      BY <1>1, <1>2, <3>1
  <2> QED
    BY <1>1, <2>1, Ends DEF Held
<1>5. Apart'
  BY <1>1, <1>2, Ends DEF IInv, Apart, Pictures
<1>6. \A s \in Requests : \A g : Dooms(s, g) => Dooms(s, g)'
  BY <1>1, Ends DEF Dooms, At, Pictures
<1>7. Covered'
  BY <1>1, <1>2, <1>6 DEF IInv, Covered, Named
<1>8. ASSUME mode = "orderly" PROVE Orderly'
  <2>1. present /\ rows' = rows \cup {f}
    BY <1>1, <1>8 DEF IInv, Orderly
  <2>2. \A s \in Requests : req'[s].pc = "idle" /\ req'[s].op = "update"
    BY <1>1, <1>8, OneAtATime, Ends
  <2>3. \A s \in Requests : \A g : ~Dooms(s, g)'
    BY <2>2 DEF Dooms, Pictures
  <2>4. \A g \in assets : g \in Named \cup Kept \/ g = f
    BY <1>1, <1>8, OneAtATime DEF IInv, Orderly
  <2>5. assets' \subseteq (Named \cup Kept)'
    BY <1>1, <1>2, <2>1, <2>4 DEF Named, Kept
  <2> QED
    BY <2>2, <2>3, <2>5 DEF Orderly, At
<1>9. Orderly'
  BY <1>1, <1>8 DEF Orderly
<1>10. Subjects'
  BY <1>1, Ends DEF IInv, Subjects, At, Holding
<1> QED
  BY <1>3, <1>4, <1>5, <1>7, <1>9, <1>10 DEF IInv

LEMMA FindStep == ASSUME IInv, NEW r \in Requests, Find(r) PROVE IInv'
<1>1. /\ req[r].op = "deleteOne" /\ req[r].pc = "find" /\ req[r].list = {}
      /\ ~At(r, "idle") /\ ~Holding(r) /\ \A g : ~Dooms(r, g)
      /\ UNCHANGED <<present, rows, subjects, avatar, assets, driver, mode>>
  BY DEF IInv, TypeOK, Request, Operations, Shape, Makes, Find, At, Holding, Dooms, Pictures
<1>2. mode = "orderly" => \A g \in assets : g \in Named \cup Kept
  BY <1>1, OneAtATime DEF IInv, Orderly
<1>a. CASE req[r].file \notin rows
  <2>1. Finish(r)
    BY <1>a DEF Find, Finish
  <2>2. TypeOK' /\ Shape' /\ Held'
    BY <1>1, <2>1, Ends
  <2>3. Apart'
    BY <1>1, <2>1, Ends DEF IInv, Apart, Pictures
  <2>4. \A s \in Requests : \A g : Dooms(s, g) => Dooms(s, g)'
    BY <1>1, <2>1, Ends DEF Dooms, At
  <2>5. Covered'
    BY <1>1, <2>4 DEF IInv, Covered, Named
  <2>6. ASSUME mode = "orderly" PROVE Orderly'
    <3>1. \A s \in Requests : req'[s].pc = "idle" /\ req'[s].op = "update"
      BY <1>1, <2>1, <2>6, OneAtATime, Ends
    <3> QED
      BY <1>1, <1>2, <2>6, <3>1 DEF Orderly, At, Dooms, Pictures, Named, Kept
  <2>7. Orderly'
    BY <1>1, <2>6 DEF Orderly
  <2>8. Subjects'
    BY <1>1, <2>1, Ends DEF IInv, Subjects, At
  <2> QED
    BY <2>2, <2>3, <2>5, <2>7, <2>8 DEF IInv
<1>b. CASE req[r].file \in rows
  <2> DEFINE list == {req[r].file}
  <2>1. /\ Moves(r, "destroy", list)
        /\ list \in SUBSET Files
        /\ \A q \in Requests : q # r /\ Holding(q) => req[q].file \notin list
    BY <1>1, <1>b DEF Moves, Find, IInv, TypeOK, Held
  <2>2. Makes(req[r].op, "destroy")
    BY <1>1 DEF Makes
  <2>3. /\ req' \in [Requests -> Request] /\ Shape'
        /\ req'[r].op = "deleteOne" /\ req'[r].pc = "destroy"
        /\ req'[r].list = list /\ req'[r].file = req[r].file
        /\ \A s \in Requests : s # r => req'[s] = req[s]
        /\ TypeOK' /\ Held'
    BY <1>1, <2>1, <2>2, Goes
  <2>4. Apart'
    BY <1>1, <1>b, <2>3 DEF IInv, Apart, Pictures
  <2>5. \A s \in Requests : \A g : Dooms(s, g) => Dooms(s, g)'
    BY <1>1, <2>3 DEF Dooms, At
  <2>6. Covered'
    BY <1>1, <2>5 DEF IInv, Covered, Named
  <2>7. ASSUME mode = "orderly" PROVE Orderly'
    <3>1. \A s \in Requests : s # r => req'[s].pc = "idle" /\ req'[s].op = "update"
      BY <1>1, <2>3, <2>7, OneAtATime
    <3>2. \A s \in Requests, g \in assets' : Dooms(s, g)' => g \in Kept' \cup req'[s].list
      BY <1>1, <2>3, <3>1 DEF Dooms, Pictures
    <3> QED
      BY <1>1, <1>2, <2>3, <2>7, <3>1, <3>2 DEF Orderly, At, Named, Kept
  <2>8. Orderly'
    BY <1>1, <2>7 DEF Orderly
  <2>9. Subjects'
    BY <1>1, <2>3 DEF IInv, Subjects, At
  <2> QED
    BY <2>3, <2>4, <2>6, <2>8, <2>9 DEF IInv
<1> QED
  BY <1>a, <1>b

LEMMA ListStep == ASSUME IInv, NEW r \in Requests, List(r) PROVE IInv'
<1>1. /\ req[r].op \in {"deleteAll", "remove"} /\ req[r].pc = "list" /\ req[r].list = {}
      /\ ~At(r, "idle") /\ ~Holding(r) /\ \A g : ~Dooms(r, g)
      /\ UNCHANGED <<present, rows, subjects, avatar, assets, driver, mode>>
  BY DEF IInv, TypeOK, Request, Operations, Shape, Makes, List, At, Holding, Dooms, Pictures
<1>2. mode = "orderly" => \A g \in assets : g \in Named \cup Kept
  BY <1>1, OneAtATime DEF IInv, Orderly
<1>a. CASE Finish(r)
  <2>2. TypeOK' /\ Shape' /\ Held'
    BY <1>1, <1>a, Ends
  <2>3. Apart'
    BY <1>1, <1>a, Ends DEF IInv, Apart, Pictures
  <2>4. \A s \in Requests : \A g : Dooms(s, g) => Dooms(s, g)'
    BY <1>1, <1>a, Ends DEF Dooms, At
  <2>5. Covered'
    BY <1>1, <2>4 DEF IInv, Covered, Named
  <2>6. ASSUME mode = "orderly" PROVE Orderly'
    <3>1. \A s \in Requests : req'[s].pc = "idle" /\ req'[s].op = "update"
      BY <1>1, <1>a, <2>6, OneAtATime, Ends
    <3> QED
      BY <1>1, <1>2, <2>6, <3>1 DEF Orderly, At, Dooms, Pictures, Named, Kept
  <2>7. Orderly'
    BY <1>1, <2>6 DEF Orderly
  <2>8. Subjects'
    BY <1>1, <1>a, Ends DEF IInv, Subjects, At
  <2> QED
    BY <2>2, <2>3, <2>5, <2>7, <2>8 DEF IInv
<1>b. ASSUME NEW pc \in {"destroy", "rows"},
             Moves(r, pc, rows),
             pc = "rows" => rows = {}
      PROVE  IInv'
  <2>1. /\ rows \in SUBSET Files
        /\ \A q \in Requests : q # r /\ Holding(q) => req[q].file \notin rows
    BY DEF IInv, TypeOK, Held
  <2>2. Makes(req[r].op, pc)
    BY <1>1, <1>b DEF Makes
  <2>3. /\ req' \in [Requests -> Request] /\ Shape'
        /\ req'[r].op = req[r].op /\ req'[r].pc = pc
        /\ req'[r].list = rows /\ req'[r].file = req[r].file
        /\ \A s \in Requests : s # r => req'[s] = req[s]
        /\ TypeOK' /\ Held'
    BY <1>1, <1>b, <2>1, <2>2, Goes
  <2>4. Apart'
    BY <1>1, <2>3 DEF IInv, Apart, Pictures
  <2>5. \A s \in Requests : \A g : Dooms(s, g) => Dooms(s, g)'
    BY <1>1, <2>3 DEF Dooms, At
  <2>6. Covered'
    BY <1>1, <2>5 DEF IInv, Covered, Named
  <2>7. ASSUME mode = "orderly" PROVE Orderly'
    <3>1. \A s \in Requests : s # r => req'[s].pc = "idle" /\ req'[s].op = "update"
      BY <1>1, <2>3, <2>7, OneAtATime
    <3>2. \A s \in Requests, g \in assets' : Dooms(s, g)' => g \in Kept' \cup req'[s].list
      BY <1>1, <2>3, <3>1 DEF Dooms, Pictures
    <3> QED
      BY <1>1, <1>2, <2>3, <2>7, <3>1, <3>2 DEF Orderly, At, Named, Kept
  <2>8. Orderly'
    BY <1>1, <2>7 DEF Orderly
  <2>9. Subjects'
    BY <1>1, <1>b, <2>3 DEF IInv, Subjects, At
  <2> QED
    BY <2>3, <2>4, <2>6, <2>8, <2>9 DEF IInv
<1>c. ASSUME rows = {}, Goto(r, "rows")
      PROVE  Moves(r, "rows", rows)
  BY <1>1, <1>c DEF Moves, Goto, IInv, TypeOK, Request
<1> QED
  BY <1>a, <1>b, <1>c DEF List, Moves

LEMMA DestroyStep == ASSUME IInv, NEW r \in Requests, Destroy(r) PROVE IInv'
<1> DEFINE pc(f) == IF req[r].list = {f} THEN Then(req[r].op) ELSE "destroy"
<1>1. PICK f \in req[r].list :
         /\ \/ assets' = IF f \in Kept THEN assets ELSE assets \ {f}
            \/ mode = "failing" /\ UNCHANGED assets
         /\ Moves(r, pc(f), req[r].list \ {f})
  <2>1. PICK f \in req[r].list :
           /\ \/ assets' = IF f \in Kept THEN assets ELSE assets \ {f}
              \/ mode = "failing" /\ UNCHANGED assets
           /\ req' = [req EXCEPT ![r].list = @ \ {f},
                                 ![r].pc = IF req[r].list = {f} THEN Then(req[r].op) ELSE @]
    BY DEF Destroy
  <2>2. req[r].pc = "destroy" /\ req[r] \in Request
    BY DEF Destroy, At, IInv, TypeOK
  <2>3. Moves(r, pc(f), req[r].list \ {f})
    BY <2>1, <2>2 DEF Moves, Request
  <2> QED
    BY <2>1, <2>3
<1>2. /\ req[r].op \in Pictures \cup {"deleteAll", "deleteOne", "remove"}
      /\ req[r].pc = "destroy" /\ ~At(r, "idle") /\ ~Holding(r)
      /\ UNCHANGED <<present, rows, subjects, avatar, driver, mode>>
  BY DEF IInv, TypeOK, Request, Operations, Shape, Makes, Destroy, At, Holding, Pictures
<1>3. /\ req[r].list \ {f} \in SUBSET Files
      /\ \A q \in Requests : q # r /\ Holding(q) => req[q].file \notin req[r].list \ {f}
  BY DEF IInv, TypeOK, Request, Held
<1>4. /\ pc(f) \in {"destroy", "rows", "store", "avatar"} /\ Makes(req[r].op, pc(f))
      /\ pc(f) = "avatar" => req[r].op # "avatar"
      /\ pc(f) # "destroy" => req[r].list \ {f} = {}
  BY <1>2 DEF Then, Makes, Pictures
<1>5. req[r].op = "deleteOne" => req[r].list \ {f} \subseteq {req[r].file}
  BY DEF IInv, Shape
<1>6. /\ req' \in [Requests -> Request] /\ Shape'
      /\ req'[r].op = req[r].op /\ req'[r].pc = pc(f)
      /\ req'[r].list = req[r].list \ {f} /\ req'[r].file = req[r].file
      /\ \A s \in Requests : s # r => req'[s] = req[s]
      /\ \A s \in Requests : Holding(s)' => Holding(s) /\ s # r
      /\ \A q, s \in Requests : Holding(q)' => req'[q].file \notin req'[s].list
      /\ \A q, s \in Requests : Holding(q)' /\ s # q => req'[s].file # req'[q].file
  BY <1>1, <1>3, <1>4, <1>5, Goes
<1>7. assets \ {f} \subseteq assets' /\ assets' \subseteq assets
  BY <1>1
<1>8. TypeOK'
  BY <1>2, <1>6, <1>7 DEF IInv, TypeOK
<1>9. Held'
  <2>1. \A s \in Requests : Holding(s)' =>
           /\ req'[s].file = req[s].file /\ req[s].file \in assets \ rows
           /\ req[s].file # avatar /\ req[s].file # f
    BY <1>1, <1>6 DEF IInv, Held
  <2> QED
    BY <1>2, <1>6, <1>7, <2>1 DEF Held
<1>10. Apart'
  BY <1>2, <1>6 DEF IInv, Apart
<1>11. \A s \in Requests : \A g : Dooms(s, g) <=> Dooms(s, g)'
  BY <1>2, <1>4, <1>6 DEF Dooms, At
<1>12. f \in Named => Dooms(r, f)
  BY <1>1, <1>2 DEF IInv, Apart, Shape, Named, Dooms, At
<1>13. Covered'
  BY <1>2, <1>7, <1>11, <1>12 DEF IInv, Covered, Named
<1>14. ASSUME mode = "orderly" PROVE Orderly'
  <2>1. \A s \in Requests : s # r => req'[s].pc = "idle" /\ req'[s].op = "update"
    BY <1>2, <1>6, <1>14, OneAtATime
  <2>2. \A g \in assets : g \in Named \cup Kept
    BY <1>2, <1>14, OneAtATime DEF IInv, Orderly
  <2>3. assets' = IF f \in Kept THEN assets ELSE assets \ {f}
    BY <1>1, <1>14
  <2>4. \A g \in assets : Dooms(r, g) => g \in Kept \cup req[r].list
    BY <1>14 DEF IInv, Orderly
  <2>5. \A g \in assets' : Dooms(r, g)' => g \in Kept' \cup req'[r].list
    BY <1>2, <1>6, <1>11, <2>3, <2>4 DEF Kept
  <2>6. \A s \in Requests, g \in assets' : Dooms(s, g)' => g \in Kept' \cup req'[s].list
    BY <2>1, <2>5 DEF Dooms, Pictures
  <2>7. \A g \in assets' : g \in (Named \cup Kept)'
    BY <1>2, <1>7, <2>2 DEF Named, Kept
  <2>8. req'[r].op # "upload"
    BY <1>2, <1>6 DEF Pictures
  <2> QED
    BY <2>1, <2>6, <2>7, <2>8 DEF Orderly, At
<1>15. Orderly'
  BY <1>2, <1>14 DEF Orderly
<1>16. Subjects'
  BY <1>2, <1>4, <1>6 DEF IInv, Subjects, At
<1> QED
  BY <1>6, <1>8, <1>9, <1>10, <1>13, <1>15, <1>16 DEF IInv

LEMMA DeleteRowsStep == ASSUME IInv, NEW r \in Requests, DeleteRows(r) PROVE IInv'
<1>1. /\ req[r].op \in {"deleteAll", "deleteOne", "remove"} /\ req[r].pc = "rows"
      /\ req[r].list = {} /\ ~At(r, "idle") /\ ~Holding(r)
      /\ rows' = (IF req[r].op = "deleteOne" THEN rows \ {req[r].file} ELSE {})
      /\ UNCHANGED <<present, subjects, avatar, assets, driver, mode>>
  BY DEF IInv, TypeOK, Request, Operations, Shape, Makes, DeleteRows, At, Holding
<1>2. /\ req' \in [Requests -> Request] /\ Shape'
      /\ req'[r].op = IF req[r].op = "remove" THEN "remove" ELSE "update"
      /\ req'[r].pc = IF req[r].op = "remove" THEN "record" ELSE "idle"
      /\ req'[r].list = {}
      /\ \A s \in Requests : s # r => req'[s] = req[s]
      /\ \A s \in Requests : Holding(s)' => Holding(s) /\ s # r
      /\ \A q, s \in Requests : Holding(q)' => req'[q].file \notin req'[s].list
      /\ \A q, s \in Requests : Holding(q)' /\ s # q => req'[s].file # req'[q].file
  <2>1. CASE req[r].op # "remove"
    BY <2>1, Ends DEF DeleteRows
  <2>2. CASE req[r].op = "remove"
    <3>1. Moves(r, "record", {})
      BY <1>1, <2>2 DEF DeleteRows, Goto, Moves, IInv, TypeOK, Request
    <3>2. Makes(req[r].op, "record")
      BY <2>2 DEF Makes
    <3> QED
      BY <2>2, <3>1, <3>2, Goes
  <2> QED
    BY <2>1, <2>2
<1>3. TypeOK'
  BY <1>1, <1>2 DEF IInv, TypeOK
<1>4. Held'
  <2>1. \A s \in Requests : Holding(s)' =>
           req'[s].file = req[s].file /\ req[s].file \in assets \ rows /\ req[s].file # avatar
    BY <1>2 DEF IInv, Held
  <2> QED
    BY <1>1, <1>2, <2>1 DEF Held
<1>5. Apart'
  BY <1>1, <1>2 DEF IInv, Apart, Pictures
<1>6. ASSUME NEW s \in Requests, NEW g \in Named', Dooms(s, g)
      PROVE  s # r /\ Dooms(s, g)'
  BY <1>1, <1>2, <1>6 DEF IInv, Apart, Dooms, At, Named, Pictures
<1>7. Covered'
  BY <1>1, <1>6 DEF IInv, Covered, Named
<1>8. ASSUME mode = "orderly" PROVE Orderly'
  <2>1. \A s \in Requests : s # r => req'[s].pc = "idle" /\ req'[s].op = "update"
    BY <1>1, <1>2, <1>8, OneAtATime
  <2>2. \A s \in Requests : \A g : ~Dooms(s, g)'
    BY <1>1, <1>2, <2>1 DEF Dooms, Pictures
  <2>3. \A g \in assets : g \in Named \cup Kept /\ (Dooms(r, g) => g \in Kept)
    BY <1>1, <1>8, OneAtATime DEF IInv, Orderly
  <2>4. \A g \in Named \ Named' : Dooms(r, g)
    BY <1>1 DEF Named, Dooms, At
  <2>5. \A g \in assets' : g \in (Named \cup Kept)'
    BY <1>1, <2>3, <2>4 DEF Kept
  <2> QED
    BY <1>2, <2>1, <2>2, <2>5 DEF Orderly, At
<1>9. Orderly'
  BY <1>1, <1>8 DEF Orderly
<1>10. Subjects'
  BY <1>1, <1>2 DEF IInv, Subjects, At
<1> QED
  BY <1>2, <1>3, <1>4, <1>5, <1>7, <1>9, <1>10 DEF IInv

LEMMA DeleteRecordStep == ASSUME IInv, NEW r \in Requests, DeleteRecord(r) PROVE IInv'
<1>1. /\ req[r].op = "remove" /\ req[r].pc = "record" /\ Finish(r)
      /\ req[r].list = {} /\ ~At(r, "idle")
      /\ present' = FALSE /\ rows' = {} /\ subjects' = {}
      /\ UNCHANGED <<avatar, assets, driver, mode>>
  BY DEF IInv, TypeOK, Request, Operations, Shape, Makes, DeleteRecord, At
<1>2. TypeOK' /\ Shape' /\ Subjects'
  BY <1>1, Ends DEF IInv, TypeOK, Subjects
<1>3. Held'
  <2>1. \A s \in Requests : Holding(s)' =>
           req'[s].file = req[s].file /\ req[s].file \in assets \ rows /\ req[s].file # avatar
    BY <1>1, Ends DEF IInv, Held
  <2> QED
    BY <1>1, <2>1, Ends DEF Held
<1>4. Apart'
  BY <1>1, Ends DEF IInv, Apart, Pictures
<1>5. ASSUME NEW s \in Requests, NEW g \in Named', Dooms(s, g)
      PROVE  s # r /\ Dooms(s, g)'
  BY <1>1, <1>5, Ends DEF IInv, Apart, Dooms, At, Named, Pictures
<1>6. Covered'
  BY <1>1, <1>5 DEF IInv, Covered, Named
<1>7. ASSUME mode = "orderly" PROVE Orderly'
  <2>1. \A s \in Requests : req'[s].pc = "idle" /\ req'[s].op = "update"
    BY <1>1, <1>7, OneAtATime, Ends
  <2>2. \A s \in Requests : \A g : ~Dooms(s, g)'
    BY <2>1 DEF Dooms, Pictures
  <2>3. ~Holding(r)
    BY <1>1 DEF Holding, At
  <2>4. \A g \in assets : g \in Named \cup Kept /\ (Dooms(r, g) => g \in Kept)
    BY <1>1, <1>7, <2>3, OneAtATime DEF IInv, Orderly
  <2>5. \A g \in Named \ Named' : Dooms(r, g)
    BY <1>1 DEF Named, Dooms, At
  <2>6. \A g \in assets' : g \in (Named \cup Kept)'
    BY <1>1, <2>4, <2>5 DEF Kept
  <2> QED
    BY <2>1, <2>2, <2>6 DEF Orderly, At
<1>8. Orderly'
  BY <1>1, <1>7 DEF Orderly
<1> QED
  BY <1>2, <1>3, <1>4, <1>6, <1>8 DEF IInv

LEMMA SetAvatarStep == ASSUME IInv, NEW r \in Requests, SetAvatar(r) PROVE IInv'
<1>1. /\ req[r].op \in Pictures /\ req[r].pc = "avatar" /\ Finish(r)
      /\ req[r].list = {} /\ ~At(r, "idle") /\ (req[r].op = "avatar" => Holding(r))
      /\ avatar' = (IF req[r].op = "avatar" THEN req[r].file ELSE NoFile)
      /\ UNCHANGED <<present, rows, subjects, assets, driver, mode>>
  BY DEF IInv, TypeOK, Request, Operations, Shape, Makes, SetAvatar, At, Pictures, Holding
<1>2. \/ avatar' = NoFile
      \/ /\ Holding(r) /\ avatar' = req[r].file /\ avatar' \in assets \ rows
         /\ \A s \in Requests : avatar' \notin req[s].list /\ (s # r => req[s].file # avatar')
  BY <1>1 DEF IInv, Held
<1>3. TypeOK' /\ Shape'
  BY <1>1, <1>2, Ends DEF IInv, TypeOK
<1>4. Held'
  <2>1. \A s \in Requests : Holding(s)' =>
           /\ req'[s].file = req[s].file /\ req[s].file \in assets \ rows
           /\ s # r /\ req[s].file # NoFile
    BY <1>1, Ends, FilesAssumption DEF IInv, TypeOK, Held
  <2> QED
    BY <1>1, <1>2, <2>1, Ends DEF Held
<1>5. Apart'
  <2>1. avatar' \notin rows' /\ \A s \in Requests : avatar' \notin req[s].list
    BY <1>1, <1>2, FilesAssumption DEF IInv, TypeOK, Request
  <2>2. \A s \in Requests : req'[s].op = "deleteOne" => s # r /\ req'[s].file # avatar'
    BY <1>1, <1>2, Ends DEF IInv, Shape
  <2> QED
    BY <1>1, <2>1, <2>2, Ends DEF IInv, Apart, Pictures
<1>6. ASSUME NEW s \in Requests, NEW g \in rows, Dooms(s, g)
      PROVE  Dooms(s, g)'
  BY <1>1, <1>6, Ends DEF IInv, Apart, Dooms, At, Pictures
<1>7. Covered'
  BY <1>1, <1>2, <1>6 DEF IInv, Covered, Named
<1>8. ASSUME mode = "orderly" PROVE Orderly'
  <2>1. \A s \in Requests : req'[s].pc = "idle" /\ req'[s].op = "update"
    BY <1>1, <1>8, OneAtATime, Ends
  <2>2. \A s \in Requests : \A g : ~Dooms(s, g)'
    BY <2>1 DEF Dooms, Pictures
  <2>3. /\ \A g \in assets : g \in Named \cup Kept \/ (Holding(r) /\ g = req[r].file)
        /\ \A g \in assets : Dooms(r, g) => g \in Kept
    BY <1>1, <1>8, OneAtATime DEF IInv, Orderly
  <2>4. Dooms(r, avatar)
    BY <1>1 DEF Dooms
  <2>5. Holding(r) => avatar' = req[r].file
    BY <1>1 DEF Holding, At
  <2>6. ASSUME NEW g \in assets' PROVE g \in (Named \cup Kept)'
    <3>1. g \in assets /\ g # NoFile
      BY <1>1, FilesAssumption DEF IInv, TypeOK
    <3>2. g \in rows \/ g = avatar' \/ g \in Kept
      <4>1. CASE g \in Named \cup Kept
        BY <2>3, <2>4, <3>1, <4>1 DEF Named
      <4>2. CASE Holding(r) /\ g = req[r].file
        BY <2>5, <4>2
      <4> QED
        BY <2>3, <3>1, <4>1, <4>2
    <3> QED
      BY <1>1, <3>1, <3>2 DEF Named, Kept
  <2> QED
    BY <2>1, <2>2, <2>6 DEF Orderly, At
<1>9. Orderly'
  BY <1>1, <1>8 DEF Orderly
<1>10. Subjects'
  BY <1>1, Ends DEF IInv, Subjects, At
<1> QED
  BY <1>3, <1>4, <1>5, <1>7, <1>9, <1>10 DEF IInv

LEMMA DeleteSubjectsStep == ASSUME IInv, NEW r \in Requests, DeleteSubjects(r) PROVE IInv'
<1>1. /\ req[r].op = "update" /\ req[r].pc = "subjects" /\ ~At(r, "idle")
      /\ ~Holding(r) /\ Moves(r, "rewrite", {}) /\ subjects' = {}
      /\ UNCHANGED <<present, rows, avatar, assets, driver, mode>>
  <2>1. req[r].op = "update" /\ req[r].pc = "subjects" /\ req[r].list = {}
    BY DEF IInv, TypeOK, Request, Operations, Shape, Makes, DeleteSubjects, At
  <2>2. Moves(r, "rewrite", {})
    BY <2>1 DEF DeleteSubjects, Goto, Moves, IInv, TypeOK, Request
  <2> QED
    BY <2>1, <2>2 DEF DeleteSubjects, At, Holding
<1>2. Makes(req[r].op, "rewrite")
  BY <1>1 DEF Makes
<1>3. /\ req' \in [Requests -> Request] /\ Shape'
      /\ req'[r].op = "update" /\ req'[r].pc = "rewrite" /\ req'[r].list = {}
      /\ \A s \in Requests : s # r => req'[s] = req[s]
      /\ \A s \in Requests : Holding(s)' => Holding(s) /\ s # r
      /\ \A q, s \in Requests : Holding(q)' => req'[q].file \notin req'[s].list
      /\ \A q, s \in Requests : Holding(q)' /\ s # q => req'[s].file # req'[q].file
  BY <1>1, <1>2, Goes
<1>4. TypeOK'
  BY <1>1, <1>3 DEF IInv, TypeOK
<1>5. Held'
  <2>1. \A s \in Requests : Holding(s)' =>
           req'[s].file = req[s].file /\ req[s].file \in assets \ rows /\ req[s].file # avatar
    BY <1>3 DEF IInv, Held
  <2> QED
    BY <1>1, <1>3, <2>1 DEF Held
<1>6. Apart'
  BY <1>1, <1>3 DEF IInv, Apart, Pictures
<1>7. \A s \in Requests : \A g : Dooms(s, g) <=> Dooms(s, g)'
  BY <1>1, <1>3 DEF Dooms, At, Pictures
<1>8. Covered'
  BY <1>1, <1>7 DEF IInv, Covered, Named
<1>9. ASSUME mode = "orderly" PROVE Orderly'
  <2>1. \A s \in Requests : s # r => req'[s].pc = "idle" /\ req'[s].op = "update"
    BY <1>1, <1>3, <1>9, OneAtATime
  <2>2. \A s \in Requests : \A g : ~Dooms(s, g)'
    BY <1>3, <2>1 DEF Dooms, Pictures
  <2>3. \A g \in assets' : g \in (Named \cup Kept)'
    BY <1>1, <1>9, OneAtATime DEF IInv, Orderly, Named, Kept
  <2> QED
    BY <1>3, <2>1, <2>2, <2>3 DEF Orderly, At
<1>10. Orderly'
  BY <1>1, <1>9 DEF Orderly
<1>11. Subjects'
  BY <1>1, <1>3 DEF Subjects, At
<1> QED
  BY <1>3, <1>4, <1>5, <1>6, <1>8, <1>10, <1>11 DEF IInv

LEMMA WriteSubjectsStep == ASSUME IInv, NEW r \in Requests, WriteSubjects(r) PROVE IInv'
<1>1. /\ req[r].op = "update" /\ req[r].pc = "rewrite" /\ ~At(r, "idle") /\ At(r, "rewrite")
      /\ ~Holding(r) /\ Finish(r)
      /\ subjects' = (IF present THEN subjects \cup {r} ELSE subjects)
      /\ UNCHANGED <<present, rows, avatar, assets, driver, mode>>
  BY DEF IInv, TypeOK, Request, Operations, Shape, Makes, WriteSubjects, At, Holding
<1>2. TypeOK' /\ Shape'
  BY <1>1, Ends DEF IInv, TypeOK
<1>3. Held'
  <2>1. \A s \in Requests : Holding(s)' =>
           req'[s].file = req[s].file /\ req[s].file \in assets \ rows /\ req[s].file # avatar
    BY <1>1, Ends DEF IInv, Held
  <2> QED
    BY <1>1, <2>1, Ends DEF Held
<1>4. Apart'
  BY <1>1, Ends DEF IInv, Apart, Pictures
<1>5. \A s \in Requests : \A g : Dooms(s, g) <=> Dooms(s, g)'
  BY <1>1, Ends DEF Dooms, At, Pictures
<1>6. Covered'
  BY <1>1, <1>5 DEF IInv, Covered, Named
<1>7. ASSUME mode = "orderly" PROVE Orderly'
  <2>1. \A s \in Requests : req'[s].pc = "idle" /\ req'[s].op = "update"
    BY <1>1, <1>7, OneAtATime, Ends
  <2>2. \A s \in Requests : \A g : ~Dooms(s, g)'
    BY <2>1 DEF Dooms, Pictures
  <2>3. \A g \in assets' : g \in (Named \cup Kept)'
    BY <1>1, <1>7, OneAtATime DEF IInv, Orderly, Named, Kept
  <2> QED
    BY <2>1, <2>2, <2>3 DEF Orderly, At
<1>8. Orderly'
  BY <1>1, <1>7 DEF Orderly
<1>9. Subjects'
  <2> SUFFICES ASSUME mode # "failing", present PROVE Subjects'
    BY <1>1 DEF Subjects
  <2>1. subjects' = subjects \cup {r} /\ subjects' # {}
    BY <1>1
  <2>2. ASSUME mode = "orderly" PROVE subjects' = {r}
    BY <1>1, <2>1, <2>2 DEF IInv, Subjects
  <2>3. ASSUME mode = "orderly" PROVE ~\E s \in Requests : At(s, "rewrite")'
    BY <1>1, <2>3, OneAtATime, Ends DEF At
  <2> QED
    BY <1>1, <2>1, <2>2, <2>3 DEF Subjects
<1> QED
  BY <1>2, <1>3, <1>4, <1>6, <1>8, <1>9 DEF IInv

\* Failures: only the promises about all behaviours are at stake.
LEMMA AbandonStep == ASSUME IInv, NEW r \in Requests, Abandon(r) PROVE IInv'
<1>1. Finish(r) /\ mode = "failing"
      /\ UNCHANGED <<present, rows, subjects, avatar, assets, driver, mode>>
  BY DEF Abandon
<1>2. TypeOK' /\ Shape' /\ Held'
  BY <1>1, Ends
<1>3. Apart'
  BY <1>1, Ends DEF IInv, Apart, Pictures
<1> QED
  BY <1>1, <1>2, <1>3 DEF IInv, Covered, Orderly, Subjects

LEMMA RemoveAnywayStep == ASSUME IInv, NEW r \in Requests, RemoveAnyway(r) PROVE IInv'
<1>1. /\ req[r].op = "remove" /\ mode = "failing" /\ Moves(r, "record", {})
      /\ UNCHANGED <<present, rows, subjects, avatar, assets, driver, mode>>
  <2>1. req[r].list = {}
    BY DEF RemoveAnyway, IInv, Shape, At
  <2> QED
    BY <2>1 DEF RemoveAnyway, Goto, Moves, IInv, TypeOK, Request
<1>2. Makes(req[r].op, "record")
  BY <1>1 DEF Makes
<1>3. /\ TypeOK' /\ Shape' /\ Held'
      /\ req'[r].op = "remove" /\ req'[r].list = {} /\ req'[r].file = req[r].file
      /\ \A s \in Requests : s # r => req'[s] = req[s]
  BY <1>1, <1>2, Goes
<1>4. Apart'
  BY <1>1, <1>3 DEF IInv, Apart, Pictures
<1> QED
  BY <1>1, <1>3, <1>4 DEF IInv, Covered, Orderly, Subjects

-----------------------------------------------------------------------------
(* The theorems. *)

LEMMA InvStep == IInv /\ [Next]_vars => IInv'
<1> SUFFICES ASSUME IInv, [Next]_vars PROVE IInv'
  OBVIOUS
<1>1. ASSUME NEW r \in Requests, Upload(r) PROVE IInv'
  <2>1. "upload" \in Operations \ Pictures /\ Makes("upload", "store")
    BY DEF Operations, Makes, Pictures
  <2> QED
    BY <1>1, <2>1, BeginStep DEF Upload
<1>2. ASSUME NEW r \in Requests, DeleteAll(r) PROVE IInv'
  <2>1. "deleteAll" \in Operations /\ Makes("deleteAll", "list")
    BY DEF Operations, Makes
  <2> QED
    BY <1>2, <2>1, BeginStep DEF DeleteAll
<1>3. ASSUME NEW r \in Requests, Remove(r) PROVE IInv'
  <2>1. "remove" \in Operations /\ Makes("remove", "list")
    BY DEF Operations, Makes
  <2> QED
    BY <1>3, <2>1, BeginStep DEF Remove
<1>4. ASSUME NEW r \in Requests, DeleteOne(r) PROVE IInv'
  <2>1. "deleteOne" \in Operations /\ Makes("deleteOne", "find")
    BY DEF Operations, Makes
  <2>2. PICK f \in rows : Begin(r, "deleteOne", "find", f, {})
    BY <1>4 DEF DeleteOne
  <2> QED
    BY <2>1, <2>2, BeginStep
<1>5. ASSUME NEW r \in Requests, Update(r) PROVE IInv'
  <2>1. "update" \in Operations /\ Makes("update", "subjects")
    BY DEF Operations, Makes
  <2> QED
    BY <1>5, <2>1, BeginStep DEF Update
<1>6. ASSUME NEW r \in Requests, UploadAvatar(r) PROVE IInv'
  <2>1. "avatar" \in Operations /\ Makes("avatar", "store") /\ Makes("avatar", "destroy")
        /\ "avatar" \in Pictures
    BY DEF Operations, Makes, Pictures
  <2>2. CASE avatar = NoFile
    BY <1>6, <2>1, <2>2, BeginStep DEF UploadAvatar
  <2>3. CASE avatar # NoFile
    <3>1. {avatar} \in SUBSET Files
      BY <2>3 DEF IInv, TypeOK
    <3> QED
      BY <1>6, <2>1, <2>3, <3>1, BeginStep DEF UploadAvatar
  <2> QED
    BY <2>2, <2>3
<1>7. ASSUME NEW r \in Requests, DeleteAvatar(r) PROVE IInv'
  <2>1. "noAvatar" \in Operations /\ Makes("noAvatar", "avatar") /\ Makes("noAvatar", "destroy")
        /\ "noAvatar" \in Pictures
    BY DEF Operations, Makes, Pictures
  <2>2. CASE avatar = NoFile
    BY <1>7, <2>1, <2>2, BeginStep DEF DeleteAvatar
  <2>3. CASE avatar # NoFile
    <3>1. {avatar} \in SUBSET Files
      BY <2>3 DEF IInv, TypeOK
    <3> QED
      BY <1>7, <2>1, <2>3, <3>1, BeginStep DEF DeleteAvatar
  <2> QED
    BY <2>2, <2>3
<1>8. CASE UNCHANGED vars
  BY <1>8 DEF vars, IInv, TypeOK, Shape, Held, Apart, Covered, Orderly, Subjects,
              At, Holding, Dooms, Named, Kept
<1> QED
  BY <1>1, <1>2, <1>3, <1>4, <1>5, <1>6, <1>7, <1>8, StoreStep, InsertStep, FindStep, ListStep,
     DestroyStep, DeleteRowsStep, DeleteRecordStep, DeleteSubjectsStep, WriteSubjectsStep,
     SetAvatarStep, AbandonStep, RemoveAnywayStep
  DEF Next

THEOREM Invariant == Spec => []IInv
BY InvInit, InvStep, PTL DEF Spec

\* Whatever overlaps, once the requests have ended every row and every profile
\* names an asset that exists, and a record that was ever updated has subjects,
\* one list if its updates waited for each other (files.service.ts,
\* profile.service.ts, archives.service.ts:259).
THEOREM FilesHoldTogether == Spec => []HoldsTogether
<1>1. IInv => HoldsTogether
  <2> SUFFICES ASSUME IInv PROVE HoldsTogether
    OBVIOUS
  <2>1. ASSUME Rest, NEW r \in Requests
        PROVE  req[r].pc = "idle" /\ req[r].op = "update" /\ ~At(r, "rewrite")
    BY <2>1 DEF Rest, At, IInv, TypeOK, Request, Operations, Shape, Makes
  <2>2. Rest => \A r \in Requests : \A f : ~Dooms(r, f)
    BY <2>1 DEF Dooms, Pictures
  <2>3. NothingBroken
    BY <2>2 DEF NothingBroken, IInv, Covered
  <2>4. \A x \in Requests \cup {NoFile} : Cardinality({x}) = 1
    BY FS_Singleton
  <2>5. SubjectsKept
    BY <2>1, <2>4 DEF SubjectsKept, IInv, Subjects
  <2> QED
    BY <2>3, <2>5 DEF HoldsTogether, IInv
<1> QED
  BY <1>1, Invariant, PTL

\* Requests that wait for each other leave the provider with the assets that are
\* named, and none besides but those its deletion does not reach.
THEOREM NothingIsLeft == Spec => []NothingLeftBehind
<1>1. IInv => NothingLeftBehind
  <2> SUFFICES ASSUME IInv, mode = "orderly", Rest
               PROVE  Named \subseteq assets /\ assets \ Named \subseteq Kept
    BY DEF NothingLeftBehind
  <2>1. ASSUME NEW r \in Requests PROVE req[r].pc = "idle" /\ req[r].op = "update"
    BY DEF Rest, At, IInv, TypeOK, Request, Operations, Shape, Makes
  <2>2. \A r \in Requests : ~Holding(r) /\ \A f : ~Dooms(r, f)
    BY <2>1 DEF Dooms, Holding, At, Pictures
  <2> QED
    BY <2>2 DEF IInv, Covered, Orderly
<1> QED
  BY <1>1, Invariant, PTL

=============================================================================
