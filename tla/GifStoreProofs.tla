--------------------------- MODULE GifStoreProofs ---------------------------
(***************************************************************************)
(* The rows and the files of GifStore stay together for any number of      *)
(* handlers, gifs, contents and renditions, and whatever fails.            *)
(*                                                                         *)
(* The argument: an id belongs to the one upload that drew it until that   *)
(* upload answers, and no row comes back to an id that had one.  So a half *)
(* written file, a missing file under a live row and a file without a row  *)
(* each have a handler that has yet to come past it (done < k), unless a   *)
(* fault that the property excepts cut that handler short.                 *)
(***************************************************************************)
EXTENDS GifStore, TLAPS

Uploads(r) == pc[r] # "idle" /\ job[r].kind = "upload"

\* Every handler is at a stage of its kind.
StageInv ==
  \A r \in Requests :
    /\ pc[r] # "idle" => job[r] \in Jobs
    /\ pc[r] \in {"lookup", "insert", "open", "close", "detached", "undo"} =>
         job[r].kind = "upload"
    /\ pc[r] \in {"list", "update", "tmp", "rename"} => job[r].kind = "replace"
    /\ pc[r] = "deleterow" => job[r].kind = "delete"
    /\ pc[r] = "unlink" => job[r].kind \in {"upload", "delete"}
    /\ pc[r] = "answer" => job[r].kind \in {"upload", "replace"}

\* A handler begins each of its loops at the first file.
DoneInv ==
  \A r \in Requests :
    pc[r] \notin {"open", "close", "detached", "tmp", "rename", "unlink"} =>
      done[r] = 0

\* The rows, the handlers that write files and the answers are all about
\* contents that a commit gave to the gif.
CommitInv ==
  /\ \A i \in Ids :
       /\ rows[i] # NoRow => rows[i].hash \in committed[i]
       /\ i \in created => committed[i] # {}
  /\ \A r \in Requests :
       pc[r] \in {"open", "close", "detached", "undo", "tmp", "rename",
                  "answer"} => job[r].hash \in committed[job[r].id]

\* Until its row is committed nobody knows the id of an upload.
FreshInv ==
  \A r \in Requests : pc[r] \in {"lookup", "insert"} =>
    /\ committed[job[r].id] = {}
    /\ \A q \in Requests \ {r} : pc[q] # "idle" => job[q].id # job[r].id

\* One upload has the id, and only a deletion takes its row away.
OwnerInv ==
  \A r \in Requests : Uploads(r) =>
    /\ job[r].id \notin created
    /\ \A q \in Requests \ {r} : Uploads(q) => job[q].id # job[r].id
    /\ pc[r] \in {"open", "close", "answer"} =>
         rows[job[r].id] # NoRow \/ job[r].id \in deleted

\* Files are removed only once the row is, and a write outlives its handler
\* only if that was dropped.
FaultInv ==
  \A r \in Requests :
    /\ pc[r] = "unlink" => rows[job[r].id] = NoRow \/ "db" \in hit[job[r].id]
    /\ pc[r] = "detached" => "drop" \in hit[job[r].id]

\* The upload of gif i is filling its file k with c, or is going to remove it;
Fills(r, i, k, c) ==
  /\ Uploads(r) /\ job[r].id = i /\ job[r].hash = c
  /\ \/ pc[r] = "close" /\ done[r] + 1 = k
     \/ pc[r] \in {"undo", "unlink"} /\ done[r] < k

\* ... it is still to write the file, or to take the row back;
Loads(r, i, k) ==
  pc[r] \in {"open", "close", "undo"} /\ job[r].id = i /\ done[r] < k

\* ... a handler is going to remove the file;
Removes(r, i, k) ==
  pc[r] = "unlink" /\ job[r].id = i /\ done[r] < k

\* ... or to write it.
Writes(r, i, k) ==
  /\ pc[r] \in {"open", "close", "tmp", "rename"} /\ job[r].id = i
  /\ done[r] < k

\* A half written file is the one its upload is filling, or will remove.
TornInv ==
  \A i \in Ids, k \in 1..NFiles :
    file[i][k] # NoFile /\ ~ file[i][k].whole /\ hit[i] \subseteq {"write"} =>
      \E r \in Requests : Fills(r, i, k, file[i][k].of)

\* Under a live row every file is whole that its upload is done with, ...
LiveInv ==
  \A i \in Ids, k \in 1..NFiles :
    rows[i] # NoRow /\ hit[i] \subseteq {"write", "unlink"} =>
      \/ file[i][k] \in WholeFiles
      \/ \E r \in Requests : Loads(r, i, k)

\* ... and the file the upload is filling is there: as the upload opened it,
\* or as a replacement renamed over it.
FillInv ==
  \A r \in Requests :
    LET i == job[r].id IN
    pc[r] = "close" =>
      /\ rows[i] # NoRow /\ hit[i] \subseteq {"write", "unlink"} =>
           TheFile(r) \in WholeFiles \cup {Partial(job[r].hash)}
      /\ i \notin contended /\ hit[i] = {} => TheFile(r) = Partial(job[r].hash)

\* Handlers of an uncontended gif do not overlap, two deletions apart, and
\* one that writes files writes those of the row.
SoleInv ==
  \A r \in Requests :
    pc[r] # "idle" /\ job[r].id \notin contended =>
      /\ \A q \in Requests \ {r} : pc[q] # "idle" /\ job[q].id = job[r].id =>
           job[q].kind = "delete" /\ job[r].kind = "delete"
      /\ pc[r] \in {"open", "close", "undo", "tmp", "rename"} =>
           rows[job[r].id] # NoRow /\ rows[job[r].id].hash = job[r].hash

\* A file without a row has a handler that is going to remove it.
GoneInv ==
  \A i \in Ids, k \in 1..NFiles :
    rows[i] = NoRow /\ i \notin contended /\ hit[i] \subseteq {"write"} =>
      \/ file[i][k] = NoFile
      \/ \E r \in Requests : Removes(r, i, k)

\* A file that is not the row's has a handler that is going to write it.
LatestInv ==
  \A i \in Ids, k \in 1..NFiles :
    rows[i] # NoRow /\ i \notin contended /\ hit[i] = {} =>
      \/ file[i][k] = Whole(rows[i].hash)
      \/ \E r \in Requests : Writes(r, i, k)

\* The other handlers stay where they are.
Only(r) ==
  \A q \in Requests \ {r} :
    pc'[q] = pc[q] /\ job'[q] = job[q] /\ done'[q] = done[q]

IInv ==
  /\ TypeOK
  /\ StageInv /\ DoneInv /\ CommitInv /\ FreshInv /\ OwnerInv
  /\ FaultInv /\ SoleInv
  /\ FilesWereCommitted /\ CreatedStays
  /\ TornInv /\ LiveInv /\ FillInv /\ GoneInv /\ LatestInv

-----------------------------------------------------------------------------
\* Nothing is stored and nobody is working when the server is first started.
THEOREM InitIInv == Init => IInv
<1> SUFFICES ASSUME Init PROVE IInv
  OBVIOUS
<1> USE DEF Init
<1>1. TypeOK
  BY GifStoreAssumption DEF TypeOK, Tables, Labels, Fetches
<1>2. /\ StageInv /\ DoneInv /\ FreshInv /\ OwnerInv
      /\ FaultInv /\ SoleInv /\ FillInv
  BY DEF StageInv, DoneInv, FreshInv, OwnerInv, FaultInv, SoleInv, FillInv,
         Uploads
<1>3. CommitInv /\ FilesWereCommitted /\ CreatedStays
  BY DEF CommitInv, FilesWereCommitted, CreatedStays
<1>4. TornInv /\ LiveInv /\ GoneInv /\ LatestInv
  BY DEF TornInv, LiveInv, GoneInv, LatestInv
<1> QED
  BY <1>1, <1>2, <1>3, <1>4 DEF IInv

\* While the files and the rows stay as they are, what a file still has coming
\* stays true if it does for the one handler that moves.
LEMMA StillInv ==
  ASSUME IInv, NEW r \in Requests, Only(r),
         UNCHANGED <<rows, file>>, contended \subseteq contended',
         \A i \in Ids : hit[i] \subseteq hit'[i],
         \A i \in Ids, k \in 1..NFiles :
           /\ hit'[i] \subseteq {"write"} =>
                /\ \A c \in Contents : Fills(r, i, k, c) => Fills(r, i, k, c)'
                /\ Removes(r, i, k) => Removes(r, i, k)'
           /\ rows[i] # NoRow /\ hit'[i] \subseteq {"write", "unlink"} =>
                (Loads(r, i, k) => Loads(r, i, k)')
           /\ hit'[i] = {} => (Writes(r, i, k) => Writes(r, i, k)')
  PROVE  TornInv' /\ LiveInv' /\ GoneInv' /\ LatestInv'
<1>0. \A i \in Ids, k \in 1..NFiles :
        file[i][k] # NoFile => file[i][k].of \in Contents
  <2>1. \A i \in Ids, k \in 1..NFiles : file[i][k] \in Files \cup {NoFile}
    BY DEF IInv, TypeOK
  <2> QED
    BY <2>1 DEF Files
<1>1. TornInv'
  <2> SUFFICES ASSUME NEW i \in Ids, NEW k \in 1..NFiles,
                      file[i][k] # NoFile, ~ file[i][k].whole,
                      hit'[i] \subseteq {"write"}
               PROVE  \E q \in Requests : Fills(q, i, k, file[i][k].of)'
    BY DEF TornInv
  <2>1. PICK q \in Requests : Fills(q, i, k, file[i][k].of)
    BY DEF IInv, TornInv
  <2>2. CASE q = r
    BY <2>1, <2>2, <1>0 DEF Fills, Uploads
  <2>3. CASE q # r
    BY <2>1, <2>3 DEF Fills, Only, Uploads
  <2> QED
    BY <2>2, <2>3
<1>2. LiveInv'
  <2> SUFFICES ASSUME NEW i \in Ids, NEW k \in 1..NFiles,
                      rows[i] # NoRow, hit'[i] \subseteq {"write", "unlink"},
                      file[i][k] \notin WholeFiles
               PROVE  \E q \in Requests : Loads(q, i, k)'
    BY DEF LiveInv, WholeFiles, Whole
  <2>1. PICK q \in Requests : Loads(q, i, k)
    BY DEF IInv, LiveInv
  <2>2. CASE q = r
    BY <2>1, <2>2 DEF Loads
  <2>3. CASE q # r
    BY <2>1, <2>3 DEF Loads, Only
  <2> QED
    BY <2>2, <2>3
<1>3. GoneInv'
  <2> SUFFICES ASSUME NEW i \in Ids, NEW k \in 1..NFiles,
                      rows[i] = NoRow, i \notin contended',
                      hit'[i] \subseteq {"write"}, file[i][k] # NoFile
               PROVE  \E q \in Requests : Removes(q, i, k)'
    BY DEF GoneInv
  <2>1. PICK q \in Requests : Removes(q, i, k)
    BY DEF IInv, GoneInv
  <2>2. CASE q = r
    BY <2>1, <2>2 DEF Removes
  <2>3. CASE q # r
    BY <2>1, <2>3 DEF Removes, Only
  <2> QED
    BY <2>2, <2>3
<1>4. LatestInv'
  <2> SUFFICES ASSUME NEW i \in Ids, NEW k \in 1..NFiles,
                      rows[i] # NoRow, i \notin contended', hit'[i] = {},
                      file[i][k] # Whole(rows[i].hash)
               PROVE  \E q \in Requests : Writes(q, i, k)'
    BY DEF LatestInv, Whole
  <2>1. PICK q \in Requests : Writes(q, i, k)
    BY DEF IInv, LatestInv
  <2>2. CASE q = r
    BY <2>1, <2>2 DEF Writes
  <2>3. CASE q # r
    BY <2>1, <2>3 DEF Writes, Only
  <2> QED
    BY <2>2, <2>3
<1> QED
  BY <1>1, <1>2, <1>3, <1>4

\* The files that uploads are filling stay as they are if no other is opened.
LEMMA FillStillInv ==
  ASSUME IInv, NEW r \in Requests, Only(r), UNCHANGED file, pc'[r] # "close",
         contended \subseteq contended',
         \A i \in Ids : hit[i] \subseteq hit'[i],
         \A q \in Requests \ {r} :
           pc[q] = "close" /\ rows'[job[q].id] # NoRow =>
             rows[job[q].id] # NoRow
  PROVE  FillInv'
<1> SUFFICES ASSUME NEW q \in Requests, q # r, pc[q] = "close"
             PROVE  FillInv!(q)'
  BY DEF FillInv, Only
<1>1. /\ pc'[q] = pc[q] /\ job'[q] = job[q] /\ done'[q] = done[q]
      /\ job[q].id \in Ids
      /\ TheFile(q)' = TheFile(q)
  BY DEF IInv, StageInv, Jobs, Only, TheFile
<1> QED
  BY <1>1 DEF IInv, FillInv, WholeFiles, Whole, Partial

\* A handler that returns, early or dropped, leaves the others what they need:
\* whatever it has not finished is recorded in hit.
LEMMA LeaveIInv ==
  ASSUME IInv, NEW r \in Requests, pc[r] # "idle", Return(r),
         UNCHANGED <<rows, file, client, committed, contended, deleted>>,
         \/ UNCHANGED created
         \/ /\ pc[r] = "answer" /\ job[r].kind = "upload"
            /\ created' = created \cup {job[r].id},
         hit' \in [Ids -> SUBSET Faults],
         \A i \in Ids : hit[i] \subseteq hit'[i],
         pc[r] \in {"open", "close", "undo", "unlink"} =>
           "drop" \in hit'[job[r].id],
         pc[r] \in {"tmp", "rename"} => hit'[job[r].id] # {}
  PROVE  IInv'
<1>0. /\ TypeOK
      /\ Only(r)
      /\ pc'[r] = "idle" /\ done'[r] = 0
      /\ job[r] \in Jobs /\ job[r].id \in Ids
  BY DEF IInv, TypeOK, Return, Goto, Only, StageInv, Jobs
<1>1. TypeOK'
  BY <1>0, GifStoreAssumption DEF TypeOK, Return, Goto, Labels
<1>2. StageInv' /\ DoneInv'
  BY <1>0 DEF IInv, StageInv, DoneInv, Only
<1>3. CommitInv' /\ FilesWereCommitted' /\ CreatedStays'
  BY <1>0 DEF IInv, CommitInv, FilesWereCommitted, CreatedStays, Only, Live,
              OwnerInv, Uploads
<1>4. FreshInv' /\ OwnerInv'
  BY <1>0 DEF IInv, FreshInv, OwnerInv, Only, Uploads
<1>5. FaultInv'
  BY <1>0 DEF IInv, FaultInv, Only, StageInv, Jobs
<1>6. SoleInv'
  BY <1>0 DEF IInv, SoleInv, Only
<1>7. TornInv' /\ LiveInv' /\ GoneInv' /\ LatestInv'
  <2> SUFFICES ASSUME NEW i \in Ids, NEW k \in 1..NFiles
               PROVE  /\ hit'[i] \subseteq {"write"} =>
                           /\ \A c \in Contents : ~ Fills(r, i, k, c)
                           /\ ~ Removes(r, i, k)
                      /\ hit'[i] \subseteq {"write", "unlink"} =>
                           ~ Loads(r, i, k)
                      /\ hit'[i] = {} => ~ Writes(r, i, k)
    BY <1>0, StillInv
  <2> QED
    BY DEF Fills, Removes, Loads, Writes
<1>8. FillInv'
  BY <1>0, FillStillInv DEF Only
<1> QED
  BY <1>1, <1>2, <1>3, <1>4, <1>5, <1>6, <1>7, <1>8 DEF IInv

\* A handler that goes on, or turns to undoing its upload.
LEMMA MoveIInv ==
  ASSUME IInv, NEW r \in Requests, NEW label \in Labels, Goto(r, label),
         UNCHANGED <<rows, file, client, job, committed, contended, created,
                     deleted>>,
         hit' \in [Ids -> SUBSET Faults],
         \A i \in Ids : hit[i] \subseteq hit'[i],
         \/ /\ <<pc[r], label>> \in {<<"lookup", "insert">>,
                                   <<"list", "update">>, <<"tmp", "rename">>}
            /\ UNCHANGED done
         \/ /\ pc[r] \in {"open", "close"} /\ label = "undo"
            /\ hit'[job[r].id] # {}
            /\ done' = [done EXCEPT ![r] = 0]
         \/ /\ pc[r] = "undo" /\ label = "unlink"
            /\ "db" \in hit'[job[r].id]
            /\ UNCHANGED done
         \/ /\ pc[r] = "close" /\ label = "detached"
            /\ "drop" \in hit'[job[r].id]
            /\ UNCHANGED done
  PROVE  IInv'
<1>0. /\ TypeOK
      /\ Only(r)
      /\ pc'[r] = label /\ done'[r] <= done[r]
      /\ label # "idle" /\ pc[r] # "idle" /\ job[r] \in Jobs
      /\ done' \in [Requests -> 0..(NFiles - 1)]
  <2>1. TypeOK /\ StageInv
    BY DEF IInv
  <2>2. pc[r] # "idle" /\ label # "idle"
    OBVIOUS
  <2>3. job[r] \in Jobs
    BY <2>1, <2>2 DEF StageInv
  <2>4. done[r] \in 0..(NFiles - 1) /\ NFiles \in Nat \ {0}
    BY <2>1, GifStoreAssumption DEF TypeOK
  <2>5. done'[r] <= done[r] /\ done' \in [Requests -> 0..(NFiles - 1)]
    BY <2>1, <2>4 DEF TypeOK
  <2>6. Only(r) /\ pc'[r] = label
    BY <2>1 DEF TypeOK, Goto, Only
  <2> QED
    BY <2>1, <2>2, <2>3, <2>5, <2>6
<1>1. TypeOK'
  BY <1>0, GifStoreAssumption DEF TypeOK, Goto
<1>2. StageInv'
  BY <1>0 DEF IInv, StageInv, Only
<1>3. DoneInv'
  BY <1>0 DEF IInv, DoneInv, Only, TypeOK
<1>4. CommitInv' /\ FilesWereCommitted' /\ CreatedStays'
  BY <1>0 DEF IInv, CommitInv, FilesWereCommitted, CreatedStays, Only, Live
<1>5. FreshInv'
  BY <1>0 DEF IInv, FreshInv, Only
<1>6. OwnerInv'
  BY <1>0 DEF IInv, OwnerInv, Only, Uploads
<1>7. FaultInv'
  BY <1>0 DEF IInv, FaultInv, Only, StageInv, Jobs
<1>8. SoleInv'
  BY <1>0 DEF IInv, SoleInv, Only
<1>9. TornInv' /\ LiveInv' /\ GoneInv' /\ LatestInv'
  <2> SUFFICES ASSUME NEW i \in Ids, NEW k \in 1..NFiles
               PROVE  /\ hit'[i] \subseteq {"write"} =>
                           /\ \A c \in Contents :
                                Fills(r, i, k, c) => Fills(r, i, k, c)'
                           /\ ~ Removes(r, i, k)
                      /\ hit'[i] \subseteq {"write", "unlink"} =>
                           (Loads(r, i, k) => Loads(r, i, k)')
                      /\ hit'[i] = {} => (Writes(r, i, k) => Writes(r, i, k)')
    BY <1>0, StillInv
  <2>1. done[r] \in Nat /\ done'[r] \in Nat /\ k \in Nat \ {0}
    BY <1>0, GifStoreAssumption DEF TypeOK
  <2>2. CASE pc[r] \in {"open", "close"} /\ label = "undo"
    <3>1. done'[r] = 0
      BY <1>0, <2>2 DEF TypeOK
    <3> QED
      BY <1>0, <2>1, <2>2, <3>1 DEF Fills, Removes, Loads, Writes, Uploads
  <2>3. CASE ~ (pc[r] \in {"open", "close"} /\ label = "undo")
    <3>1. done' = done
      BY <2>3
    <3> QED
      BY <1>0, <2>1, <2>3, <3>1 DEF Fills, Removes, Loads, Writes, Uploads
  <2> QED
    BY <2>2, <2>3
<1>10. FillInv'
  BY <1>0, FillStillInv DEF Only
<1> QED
  BY <1>1, <1>2, <1>3, <1>4, <1>5, <1>6, <1>7, <1>8, <1>9, <1>10 DEF IInv

\* A handler begins: an upload with an id nobody knows, the others with the id
\* of a row.
LEMMA StartIInv ==
  ASSUME IInv, NEW r \in Requests,
         StartUpload(r) \/ StartReplace(r) \/ StartDelete(r)
  PROVE  IInv'
<1> USE GifStoreAssumption
<1>1. PICK kind \in Kinds, i \in Ids, u \in Users, c \in Contents,
           label \in Labels :
        /\ Start(r, kind, i, u, c, label)
        /\ <<kind, label>> \in {<<"upload", "lookup">>, <<"replace", "list">>,
                               <<"delete", "deleterow">>}
        /\ IF kind = "upload" THEN Fresh(i) ELSE rows[i] # NoRow
  <2>1. \A i \in Live(rows) : /\ i \in Ids /\ rows[i] # NoRow
                              /\ rows[i].uploader \in Users
                              /\ rows[i].hash \in Contents
    BY DEF IInv, TypeOK, Tables, Row, Live
  <2>2. CASE StartUpload(r)
    BY <2>2 DEF StartUpload, Kinds, Labels
  <2>3. CASE StartReplace(r)
    BY <2>1, <2>3 DEF StartReplace, Kinds, Labels
  <2>4. CASE StartDelete(r)
    BY <2>1, <2>4 DEF StartDelete, Kinds, Labels
  <2> QED
    BY <2>2, <2>3, <2>4
<1>2. /\ pc[r] = "idle" /\ pc'[r] = label /\ done'[r] = done[r] /\ done[r] = 0
      /\ job'[r] = [kind |-> kind, id |-> i, uploader |-> u, hash |-> c]
      /\ job'[r] \in Jobs
      /\ Only(r)
      /\ contended \subseteq contended'
      /\ UNCHANGED <<rows, file, done, client, committed, created, deleted,
                     hit>>
  <2>1. [kind |-> kind, id |-> i, uploader |-> u, hash |-> c] \in Jobs
    BY DEF Jobs
  <2> QED
    BY <1>1, <2>1 DEF IInv, TypeOK, DoneInv, Start, Goto, Only
<1>3. \A q \in Requests : pc[q] # "idle" /\ job[q].id = i =>
        kind # "upload" /\ committed[i] # {}
        /\ (i \notin contended' => kind = "delete" /\ job[q].kind = "delete")
  <2> SUFFICES ASSUME NEW q \in Requests, pc[q] # "idle", job[q].id = i
               PROVE  kind # "upload" /\ committed[i] # {}
                      /\ (i \notin contended' =>
                            kind = "delete" /\ job[q].kind = "delete")
    OBVIOUS
  <2>1. q \in About(i)
    BY DEF About
  <2>2. kind # "upload" /\ rows[i] # NoRow
    BY <1>1, <2>1 DEF Fresh
  <2>3. i \notin contended' => {kind, job[q].kind} = {"delete"}
    BY <1>1, <2>1 DEF Start
  <2> QED
    BY <2>2, <2>3 DEF IInv, CommitInv
<1>4. TypeOK'
  <2>1. contended' \subseteq Ids
    BY <1>1 DEF IInv, TypeOK, Start
  <2> QED
    BY <1>1, <1>2, <2>1 DEF IInv, TypeOK, Start, Goto
<1>5. StageInv' /\ DoneInv'
  BY <1>1, <1>2 DEF IInv, StageInv, DoneInv, Only
<1>6. CommitInv' /\ FilesWereCommitted' /\ CreatedStays'
  BY <1>1, <1>2 DEF IInv, CommitInv, FilesWereCommitted, CreatedStays, Only,
                    Live
<1>7. FreshInv'
  BY <1>1, <1>2, <1>3 DEF IInv, FreshInv, Only, Fresh
<1>8. OwnerInv'
  <2>1. kind = "upload" => i \notin created
    BY <1>1 DEF IInv, CommitInv, Fresh
  <2> QED
    BY <1>1, <1>2, <1>3, <2>1 DEF IInv, OwnerInv, Only, Uploads
<1>9. FaultInv'
  BY <1>1, <1>2 DEF IInv, FaultInv, Only
<1>10. SoleInv'
  BY <1>1, <1>2, <1>3 DEF IInv, SoleInv, Only
<1>11. TornInv' /\ LiveInv' /\ GoneInv' /\ LatestInv'
  BY <1>2, StillInv DEF Fills, Removes, Loads, Writes, Uploads
<1>12. FillInv'
  BY <1>1, <1>2, FillStillInv
<1> QED
  BY <1>4, <1>5, <1>6, <1>7, <1>8, <1>9, <1>10, <1>11, <1>12 DEF IInv

\* The row of an upload is committed: all its files are still to be written.
LEMMA InsertIInv ==
  ASSUME IInv, NEW r \in Requests, InsertRow(r)
  PROVE  IInv'
<1> USE GifStoreAssumption
<1>1. CASE IsTaken(r) /\ Return(r) /\ UNCHANGED <<rows, file, client, history>>
  BY <1>1, LeaveIInv DEF InsertRow, IInv, TypeOK, history
<1>2. CASE /\ Accounting!Upload(job[r].id, job[r].uploader, job[r].hash)
           /\ Committed(r)
           /\ Goto(r, "open")
           /\ UNCHANGED <<file, job, done, client, contended, created, deleted,
                          hit>>
  <2> DEFINE i == job[r].id
             c == job[r].hash
             row == [uploader |-> job[r].uploader, hash |-> c]
  <2>1. /\ TypeOK
        /\ pc[r] = "insert" /\ pc'[r] = "open" /\ done[r] = 0
        /\ Only(r)
        /\ UNCHANGED <<job, done>>
        /\ job[r] \in Jobs /\ i \in Ids /\ c \in Contents /\ row \in Row
        /\ job[r].kind = "upload"
    BY <1>2 DEF InsertRow, IInv, TypeOK, StageInv, DoneInv, Only, Goto, Jobs,
                Row
  <2>2. /\ committed[i] = {}
        /\ \A q \in Requests \ {r} : pc[q] # "idle" => job[q].id # i
    BY <2>1 DEF IInv, FreshInv
  <2>3. /\ rows' = [rows EXCEPT ![i] = row]
        /\ rows[i] = NoRow /\ rows'[i] = row /\ row # NoRow
        /\ rows' \in Tables
        /\ committed' = [committed EXCEPT ![i] = @ \cup {c}]
        /\ committed'[i] = {c}
        /\ \A k \in Ids : committed[k] \subseteq committed'[k]
        /\ \A k \in Ids \ {i} : rows'[k] = rows[k]
    BY <1>2, <2>1, <2>2, StorageAssumption
    DEF Accounting!Upload, Committed, TypeOK, Tables
  <2>4. \A k \in 1..NFiles : file[i][k] = NoFile /\ done[r] < k
    BY <2>1, <2>2 DEF IInv, FilesWereCommitted
  <2>5. TypeOK'
    BY <1>2, <2>1, <2>3 DEF TypeOK, Labels, Goto
  <2>6. StageInv' /\ DoneInv'
    BY <2>1 DEF IInv, StageInv, DoneInv, Only
  <2>7. CommitInv' /\ FilesWereCommitted' /\ CreatedStays'
    BY <1>2, <2>1, <2>3 DEF IInv, CommitInv, FilesWereCommitted, CreatedStays,
                            Only, Live
  <2>8. FreshInv'
    BY <2>1, <2>2, <2>3 DEF IInv, FreshInv, Only, StageInv, Jobs
  <2>9. OwnerInv'
    BY <1>2, <2>1, <2>2, <2>3 DEF IInv, OwnerInv, Only, Uploads, StageInv,
                                  Jobs
  <2>10. FaultInv' /\ SoleInv'
    BY <1>2, <2>1, <2>2, <2>3 DEF IInv, FaultInv, SoleInv, Only, StageInv, Jobs
  <2>11. FillInv'
    BY <1>2, <2>1, <2>2, <2>3, FillStillInv DEF IInv, StageInv, Jobs
  <2>12. TornInv'
    BY <1>2, <2>1 DEF IInv, TornInv, Fills, Uploads, Only
  <2>13. LiveInv' /\ LatestInv'
    BY <1>2, <2>1, <2>3, <2>4 DEF IInv, LiveInv, LatestInv, Loads, Writes, Only,
                                  WholeFiles, Whole
  <2>14. GoneInv'
    BY <1>2, <2>1, <2>3 DEF IInv, GoneInv, Removes, Only
  <2> QED
    BY <2>5, <2>6, <2>7, <2>8, <2>9, <2>10, <2>11, <2>12, <2>13, <2>14 DEF IInv
<1> QED
  BY <1>1, <1>2 DEF InsertRow

\* A replacement is committed: all files of its gif are still to be replaced.
LEMMA UpdateIInv ==
  ASSUME IInv, NEW r \in Requests, UpdateRow(r)
  PROVE  IInv'
<1> USE GifStoreAssumption
<1> DEFINE i == job[r].id
           c == job[r].hash
           row == [uploader |-> rows[i].uploader, hash |-> c]
<1>1. /\ TypeOK
      /\ pc[r] = "update" /\ pc'[r] = "tmp" /\ done[r] = 0
      /\ Only(r)
      /\ UNCHANGED <<file, job, done, client, contended, created, deleted, hit>>
      /\ job[r] \in Jobs /\ i \in Ids /\ c \in Contents
      /\ job[r].kind = "replace"
  BY DEF UpdateRow, IInv, TypeOK, StageInv, DoneInv, Only, Goto, Jobs
<1>2. /\ rows[i] # NoRow /\ row \in Row /\ row # NoRow
  BY <1>1, StorageAssumption DEF UpdateRow, Accounting!Replace, TypeOK, Tables,
                                 Row
<1>3. /\ rows' = [rows EXCEPT ![i] = row]
      /\ rows'[i] = row /\ rows' \in Tables
      /\ committed' = [committed EXCEPT ![i] = @ \cup {c}]
      /\ c \in committed'[i]
      /\ \A k \in Ids : committed[k] \subseteq committed'[k]
      /\ \A k \in Ids \ {i} : rows'[k] = rows[k] /\ committed'[k] = committed[k]
  BY <1>1, <1>2 DEF UpdateRow, Accounting!Replace, Committed, TypeOK, Tables
<1>4. \A k \in 1..NFiles : done[r] < k
  BY <1>1
<1>5. TypeOK'
  BY <1>1, <1>3 DEF TypeOK, Labels, Goto, UpdateRow
<1>6. StageInv' /\ DoneInv'
  BY <1>1 DEF IInv, StageInv, DoneInv, Only
<1>7. CommitInv' /\ FilesWereCommitted' /\ CreatedStays'
  BY <1>1, <1>2, <1>3 DEF IInv, CommitInv, FilesWereCommitted, CreatedStays,
                          Only, Live
<1>8. FreshInv'
  BY <1>1, <1>2, <1>3 DEF IInv, FreshInv, Only, StageInv, Jobs, CommitInv
<1>9. OwnerInv'
  BY <1>1, <1>2, <1>3 DEF IInv, OwnerInv, Only, Uploads, StageInv, Jobs
<1>10. FaultInv'
  BY <1>1, <1>2, <1>3 DEF IInv, FaultInv, Only, StageInv, Jobs
<1>11. SoleInv'
  BY <1>1, <1>2, <1>3 DEF IInv, SoleInv, Only, StageInv, Jobs
<1>12. FillInv'
  BY <1>1, <1>2, <1>3, FillStillInv DEF IInv, StageInv, Jobs
<1>13. TornInv'
  BY <1>1 DEF IInv, TornInv, Fills, Uploads, Only
<1>14. LiveInv'
  BY <1>1, <1>2, <1>3 DEF IInv, LiveInv, Loads, Only, WholeFiles, Whole
<1>15. GoneInv'
  BY <1>1, <1>2, <1>3 DEF IInv, GoneInv, Removes, Only
<1>16. LatestInv'
  BY <1>1, <1>2, <1>3, <1>4 DEF IInv, LatestInv, Writes, Only, Whole
<1> QED
  BY <1>5, <1>6, <1>7, <1>8, <1>9, <1>10, <1>11, <1>12, <1>13, <1>14, <1>15,
     <1>16 DEF IInv

\* The row goes, in an upload that undoes itself or a deletion: all files of
\* the gif are still to be removed.
LEMMA RemoveRowIInv ==
  ASSUME IInv, NEW r \in Requests,
         \/ pc[r] = "undo" /\ UNCHANGED deleted
         \/ pc[r] = "deleterow" /\ deleted' = deleted \cup {job[r].id},
         rows' = [rows EXCEPT ![job[r].id] = NoRow],
         Goto(r, "unlink"),
         UNCHANGED <<file, job, done, client, committed, contended, created,
                     hit>>
  PROVE  IInv'
<1> USE GifStoreAssumption
<1> DEFINE i == job[r].id
<1>1. /\ TypeOK
      /\ pc'[r] = "unlink" /\ done[r] = 0
      /\ Only(r)
      /\ job[r] \in Jobs /\ i \in Ids
      /\ job[r].kind = (IF pc[r] = "undo" THEN "upload" ELSE "delete")
  BY DEF IInv, TypeOK, StageInv, DoneInv, Only, Goto, Jobs
<1>2. /\ rows'[i] = NoRow /\ rows' \in Tables
      /\ \A k \in Ids \ {i} : rows'[k] = rows[k]
  BY <1>1 DEF TypeOK, Tables
<1>3. \A k \in 1..NFiles : done[r] < k
  BY <1>1
<1>4. TypeOK'
  BY <1>1, <1>2 DEF TypeOK, Labels, Goto
<1>5. StageInv' /\ DoneInv'
  BY <1>1 DEF IInv, StageInv, DoneInv, Only
<1>6. CommitInv' /\ FilesWereCommitted'
  BY <1>1, <1>2 DEF IInv, CommitInv, FilesWereCommitted, Only
<1>7. CreatedStays'
  BY <1>1, <1>2 DEF IInv, CreatedStays, Live, OwnerInv, Uploads
<1>8. FreshInv'
  BY <1>1 DEF IInv, FreshInv, Only
<1>9. OwnerInv'
  BY <1>1, <1>2 DEF IInv, OwnerInv, Only, Uploads, StageInv, Jobs
<1>10. FaultInv'
  BY <1>1, <1>2 DEF IInv, FaultInv, Only, StageInv, Jobs
<1>11. SoleInv'
  BY <1>1, <1>2 DEF IInv, SoleInv, Only, StageInv, Jobs
<1>12. FillInv'
  BY <1>1, <1>2, FillStillInv DEF IInv, StageInv, Jobs
<1>13. TornInv'
  BY <1>1 DEF IInv, TornInv, Fills, Uploads, Only
<1>14. LiveInv' /\ LatestInv'
  BY <1>1, <1>2 DEF IInv, LiveInv, LatestInv, Loads, Writes, Only, WholeFiles,
                    Whole
<1>15. GoneInv'
  BY <1>1, <1>2, <1>3 DEF IInv, GoneInv, Removes, Only
<1> QED
  BY <1>4, <1>5, <1>6, <1>7, <1>8, <1>9, <1>10, <1>11, <1>12, <1>13, <1>14,
     <1>15 DEF IInv

\* Half a file and a whole one are different files, and neither is no file.
LEMMA BytesFacts ==
  ASSUME NEW c \in Contents
  PROVE  /\ Partial(c) \in Files /\ Whole(c) \in Files
         /\ Partial(c) # NoFile /\ Whole(c) # NoFile
         /\ Partial(c).of = c /\ Whole(c).of = c
         /\ ~ Partial(c).whole /\ Whole(c).whole
         /\ \A f \in Files : ~ f.whole /\ f.of = c => f = Partial(c)
<1>1. Partial(c) \in Files /\ Whole(c) \in Files
  BY DEF Partial, Whole, Files
<1>2. \A f \in Files : ~ f.whole /\ f.of = c => f = Partial(c)
  <2> SUFFICES ASSUME NEW f \in Files, ~ f.whole, f.of = c
               PROVE  f = Partial(c)
    OBVIOUS
  <2>1. f = [of |-> f.of, whole |-> f.whole] /\ f.whole \in BOOLEAN
    BY DEF Files
  <2>2. f.whole = FALSE
    BY <2>1
  <2> QED
    BY <2>1, <2>2 DEF Partial
<1> QED
  BY <1>1, <1>2, GifStoreAssumption DEF Partial, Whole

\* One path of the gif changes.
LEMMA FileFacts ==
  ASSUME TypeOK, NEW r \in Requests, job[r] \in Jobs,
         NEW v \in Files \cup {NoFile}, SetFile(r, v)
  PROVE  /\ file' \in [Ids -> [1..NFiles -> Files \cup {NoFile}]]
         /\ done[r] + 1 \in 1..NFiles
         /\ file'[job[r].id][done[r] + 1] = v
         /\ \A i \in Ids, k \in 1..NFiles :
              i # job[r].id \/ k # done[r] + 1 => file'[i][k] = file[i][k]
<1>1. job[r].id \in Ids
  BY DEF Jobs
<1>2. done[r] + 1 \in 1..NFiles
  BY GifStoreAssumption DEF TypeOK
<1> QED
  BY <1>1, <1>2 DEF TypeOK, SetFile

\* Handler r writes v to file n of gif i: each file invariant survives if it
\* does for that path, and if r still comes to the files it had ahead of it.
TornKept(r, i, n, v) ==
  hit[i] \subseteq {"write"} =>
    /\ v # NoFile /\ ~ v.whole => Fills(r, i, n, v.of)'
    /\ \A k \in 1..NFiles \ {n}, c \in Contents :
         Fills(r, i, k, c) => Fills(r, i, k, c)'

LiveKept(r, i, n, v) ==
  rows[i] # NoRow /\ hit[i] \subseteq {"write", "unlink"} =>
    /\ v \in WholeFiles \/ Loads(r, i, n)'
    /\ \A k \in 1..NFiles \ {n} : Loads(r, i, k) => Loads(r, i, k)'

GoneKept(r, i, n, v) ==
  rows[i] = NoRow /\ i \notin contended /\ hit[i] \subseteq {"write"} =>
    /\ v = NoFile
    /\ \A k \in 1..NFiles \ {n} : Removes(r, i, k) => Removes(r, i, k)'

LatestKept(r, i, n, v) ==
  rows[i] # NoRow /\ i \notin contended /\ hit[i] = {} =>
    /\ v = Whole(rows[i].hash) \/ Writes(r, i, n)'
    /\ \A k \in 1..NFiles \ {n} : Writes(r, i, k) => Writes(r, i, k)'

FillKept(r, i, v) ==
  /\ pc'[r] = "close" =>
       v = Partial(job[r].hash) /\ job'[r] = job[r] /\ done'[r] = done[r]
  /\ \A q \in Requests \ {r} : pc[q] = "close" /\ job[q].id = i =>
       /\ i \in contended \/ hit[i] # {}
       /\ rows[i] # NoRow /\ hit[i] \subseteq {"write", "unlink"} =>
            v \in WholeFiles

\* So the file invariants hold after a change of one path.
LEMMA PathInv ==
  ASSUME IInv, NEW r \in Requests, Only(r), job[r] \in Jobs,
         NEW i, i = job[r].id, NEW n, n = done[r] + 1,
         NEW v \in Files \cup {NoFile}, SetFile(r, v),
         UNCHANGED <<rows, contended, hit>>,
         TornKept(r, i, n, v), LiveKept(r, i, n, v), GoneKept(r, i, n, v),
         LatestKept(r, i, n, v), FillKept(r, i, v)
  PROVE  /\ TornInv' /\ LiveInv' /\ GoneInv' /\ LatestInv'
         /\ FillInv'
<1>0. /\ n \in 1..NFiles /\ i \in Ids
      /\ file'[i][n] = v
      /\ \A j \in Ids, k \in 1..NFiles :
           j # i \/ k # n => file'[j][k] = file[j][k]
      /\ \A j \in Ids, k \in 1..NFiles :
           file[j][k] # NoFile => file[j][k].of \in Contents
  <2>1. TypeOK
    BY DEF IInv
  <2>2. \A j \in Ids, k \in 1..NFiles : file[j][k] \in Files \cup {NoFile}
    BY <2>1 DEF TypeOK
  <2> QED
    BY <2>1, <2>2, FileFacts DEF Jobs, Files
<1>1. TornInv'
  <2> SUFFICES ASSUME NEW j \in Ids, NEW k \in 1..NFiles,
                      file'[j][k] # NoFile, ~ file'[j][k].whole,
                      hit'[j] \subseteq {"write"}
               PROVE  \E q \in Requests : Fills(q, j, k, file[j][k].of)'
    BY DEF TornInv
  <2>1. CASE j = i /\ k = n
    BY <1>0, <2>1 DEF Fills, Uploads, TornKept
  <2>2. CASE ~ (j = i /\ k = n)
    <3>1. PICK q \in Requests : Fills(q, j, k, file[j][k].of)
      BY <1>0, <2>2 DEF IInv, TornInv
    <3>2. CASE q = r
      BY <1>0, <2>2, <3>1, <3>2 DEF Fills, Uploads, TornKept
    <3>3. CASE q # r
      BY <1>0, <2>2, <3>1, <3>3 DEF Fills, Uploads, Only
    <3> QED
      BY <3>2, <3>3
  <2> QED
    BY <2>1, <2>2
<1>2. LiveInv'
  <2> SUFFICES ASSUME NEW j \in Ids, NEW k \in 1..NFiles,
                      rows[j] # NoRow, hit[j] \subseteq {"write", "unlink"},
                      file'[j][k] \notin WholeFiles
               PROVE  \E q \in Requests : Loads(q, j, k)'
    BY DEF LiveInv, WholeFiles, Whole
  <2>1. CASE j = i /\ k = n
    BY <1>0, <2>1 DEF Loads, LiveKept
  <2>2. CASE ~ (j = i /\ k = n)
    <3>1. PICK q \in Requests : Loads(q, j, k)
      BY <1>0, <2>2 DEF IInv, LiveInv
    <3>2. CASE q = r
      BY <1>0, <2>2, <3>1, <3>2 DEF Loads, LiveKept
    <3>3. CASE q # r
      BY <1>0, <2>2, <3>1, <3>3 DEF Loads, Only
    <3> QED
      BY <3>2, <3>3
  <2> QED
    BY <2>1, <2>2
<1>3. GoneInv'
  <2> SUFFICES ASSUME NEW j \in Ids, NEW k \in 1..NFiles,
                      rows[j] = NoRow, j \notin contended,
                      hit[j] \subseteq {"write"}, file'[j][k] # NoFile
               PROVE  \E q \in Requests : Removes(q, j, k)'
    BY DEF GoneInv
  <2>1. CASE j = i /\ k = n
    BY <1>0, <2>1 DEF GoneKept
  <2>2. CASE ~ (j = i /\ k = n)
    <3>1. PICK q \in Requests : Removes(q, j, k)
      BY <1>0, <2>2 DEF IInv, GoneInv
    <3>2. CASE q = r
      BY <1>0, <2>2, <3>1, <3>2 DEF Removes, GoneKept
    <3>3. CASE q # r
      BY <1>0, <2>2, <3>1, <3>3 DEF Removes, Only
    <3> QED
      BY <3>2, <3>3
  <2> QED
    BY <2>1, <2>2
<1>4. LatestInv'
  <2> SUFFICES ASSUME NEW j \in Ids, NEW k \in 1..NFiles,
                      rows[j] # NoRow, j \notin contended, hit[j] = {},
                      file'[j][k] # Whole(rows[j].hash)
               PROVE  \E q \in Requests : Writes(q, j, k)'
    BY DEF LatestInv, Whole
  <2>1. CASE j = i /\ k = n
    BY <1>0, <2>1 DEF Writes, LatestKept
  <2>2. CASE ~ (j = i /\ k = n)
    <3>1. PICK q \in Requests : Writes(q, j, k)
      BY <1>0, <2>2 DEF IInv, LatestInv
    <3>2. CASE q = r
      BY <1>0, <2>2, <3>1, <3>2 DEF Writes, LatestKept
    <3>3. CASE q # r
      BY <1>0, <2>2, <3>1, <3>3 DEF Writes, Only
    <3> QED
      BY <3>2, <3>3
  <2> QED
    BY <2>1, <2>2
<1>5. FillInv'
  <2> SUFFICES ASSUME NEW q \in Requests, pc'[q] = "close"
               PROVE  FillInv!(q)'
    BY DEF FillInv
  <2>1. CASE q = r
    BY <1>0, <2>1 DEF TheFile, FillKept
  <2>2. CASE q # r
    <3>1. pc[q] = "close" /\ job'[q] = job[q] /\ done'[q] = done[q]
      BY <2>2 DEF Only
    <3>2. job[q].id \in Ids /\ done[q] + 1 \in 1..NFiles
      BY <3>1, GifStoreAssumption DEF IInv, StageInv, Jobs, TypeOK
    <3>3. CASE job[q].id = i /\ done[q] + 1 = n
      <4>1. TheFile(q)' = v
        BY <1>0, <3>1, <3>3 DEF TheFile
      <4> QED
        BY <2>2, <3>1, <3>3, <4>1 DEF FillKept, WholeFiles, Whole, Partial
    <3>4. CASE ~ (job[q].id = i /\ done[q] + 1 = n)
      <4>1. TheFile(q)' = TheFile(q)
        BY <1>0, <3>1, <3>2, <3>4 DEF TheFile
      <4> QED
        BY <3>1, <4>1 DEF IInv, FillInv, WholeFiles, Whole, Partial
    <3> QED
      BY <3>3, <3>4
  <2> QED
    BY <2>1, <2>2
<1> QED
  BY <1>1, <1>2, <1>3, <1>4, <1>5

\* A handler goes round its loop over the files, or is through with it: the
\* invariants that are not about files.
LEMMA LoopInv ==
  ASSUME IInv, NEW r \in Requests, Only(r), pc[r] # "idle",
         UNCHANGED <<rows, contended, created, deleted, committed>>,
         \A i \in Ids : hit[i] \subseteq hit'[i],
         \/ pc'[r] = "idle"
         \/ /\ <<pc[r], pc'[r]>> \in
                 {<<"open", "close">>, <<"close", "open">>,
                  <<"close", "answer">>, <<"rename", "tmp">>,
                  <<"rename", "answer">>, <<"unlink", "unlink">>}
            /\ job'[r] = job[r],
         pc'[r] \in {"idle", "answer"} => done'[r] = 0
  PROVE  /\ StageInv' /\ DoneInv' /\ CommitInv' /\ CreatedStays' /\ FreshInv'
         /\ OwnerInv' /\ FaultInv' /\ SoleInv'
<1>1. StageInv'
  BY DEF IInv, StageInv, Only
<1>2. DoneInv'
  BY DEF IInv, DoneInv, Only
<1>3. CommitInv' /\ CreatedStays'
  BY DEF IInv, CommitInv, CreatedStays, Only, Live
<1>4. FreshInv'
  BY DEF IInv, FreshInv, Only
<1>5. OwnerInv'
  BY DEF IInv, OwnerInv, Only, Uploads, StageInv
<1>6. FaultInv'
  BY DEF IInv, FaultInv, Only, StageInv, Jobs
<1>7. SoleInv'
  BY DEF IInv, SoleInv, Only
<1> QED
  BY <1>1, <1>2, <1>3, <1>4, <1>5, <1>6, <1>7

\* write_file opens a path.
LEMMA OpenIInv ==
  ASSUME IInv, NEW r \in Requests, OpenFile(r)
  PROVE  IInv'
<1>1. PICK i, c, n : i = job[r].id /\ c = job[r].hash /\ n = done[r] + 1
  OBVIOUS
<1>2. /\ TypeOK
      /\ pc[r] = "open" /\ job[r] \in Jobs /\ i \in Ids /\ c \in Contents
      /\ job[r].kind = "upload"
      /\ done[r] \in 0..(NFiles - 1)
  BY <1>1 DEF OpenFile, IInv, StageInv, Jobs, TypeOK
<1>3. CASE /\ Fails(r, "write") /\ Goto(r, "undo")
           /\ done' = [done EXCEPT ![r] = 0]
           /\ UNCHANGED <<file, rows, job, client>>
  BY <1>1, <1>2, <1>3, MoveIInv DEF Fails, TypeOK, Labels
<1>4. CASE /\ SetFile(r, Partial(job[r].hash)) /\ Goto(r, "close")
           /\ UNCHANGED <<done, history, rows, job, client>>
  <2>1. /\ n \in 1..NFiles
        /\ file' \in [Ids -> [1..NFiles -> Files \cup {NoFile}]]
        /\ file'[i][n] = Partial(c)
        /\ \A j \in Ids, k \in 1..NFiles :
             j # i \/ k # n => file'[j][k] = file[j][k]
    BY <1>1, <1>2, <1>4, BytesFacts, FileFacts
  <2>2. /\ pc'[r] = "close" /\ done'[r] = done[r]
        /\ Only(r)
        /\ UNCHANGED <<hit, contended, created, deleted, committed>>
    BY <1>2, <1>4 DEF Goto, Only, history, TypeOK
  <2>3. \A q \in Requests \ {r} : Uploads(q) => job[q].id # i
    BY <1>1, <1>2 DEF IInv, OwnerInv, Uploads
  <2>4. i \notin contended => rows[i] # NoRow
    BY <1>1, <1>2 DEF IInv, SoleInv
  <2> USE <1>1, <1>2, <1>4, <2>1, <2>2
  <2>5. TypeOK'
    BY DEF TypeOK, Labels, Goto
  <2>6. /\ StageInv' /\ DoneInv' /\ CommitInv' /\ CreatedStays' /\ FreshInv'
        /\ OwnerInv' /\ FaultInv' /\ SoleInv'
    BY LoopInv
  <2>7. FilesWereCommitted'
    BY BytesFacts DEF IInv, CommitInv, FilesWereCommitted
  <2>8. TornInv' /\ LiveInv' /\ GoneInv' /\ LatestInv' /\ FillInv'
    <3>1. \A q \in Requests \ {r} : pc[q] = "close" => job[q].id # i
      BY <2>3 DEF IInv, StageInv, Uploads
    <3>2. Fills(r, i, n, c)' /\ Loads(r, i, n)' /\ Writes(r, i, n)'
      BY DEF Fills, Uploads, Loads, Writes
    <3>3. \A k \in 1..NFiles, d \in Contents :
            /\ ~ Fills(r, i, k, d) /\ ~ Removes(r, i, k)
            /\ Loads(r, i, k) => Loads(r, i, k)'
            /\ Writes(r, i, k) => Writes(r, i, k)'
      BY DEF Fills, Uploads, Loads, Removes, Writes
    <3>4. PICK v \in Files \cup {NoFile} :
            /\ v = Partial(c) /\ v # NoFile /\ ~ v.whole /\ v.of = c
            /\ SetFile(r, v)
      BY BytesFacts
    <3>5. TornKept(r, i, n, v)
      BY <3>2, <3>3, <3>4 DEF TornKept
    <3>6. LiveKept(r, i, n, v)
      BY <3>2, <3>3 DEF LiveKept
    <3>7. GoneKept(r, i, n, v)
      BY <2>4 DEF GoneKept
    <3>8. LatestKept(r, i, n, v)
      BY <3>2, <3>3 DEF LatestKept
    <3>9. FillKept(r, i, v)
      BY <3>1, <3>4 DEF FillKept
    <3> QED
      BY <3>4, <3>5, <3>6, <3>7, <3>8, <3>9, PathInv
  <2> QED
    BY <2>5, <2>6, <2>7, <2>8 DEF IInv
<1> QED
  BY <1>3, <1>4 DEF OpenFile

\* The handler comes past its file: to the next one, or to the end.
LEMMA NextFacts ==
  ASSUME TypeOK, NEW r \in Requests, NEW again \in Labels, NEW after \in Labels,
         NextFile(r, again, after)
  PROVE  /\ job' = job /\ Only(r)
         /\ pc' \in [Requests -> Labels]
         /\ done' \in [Requests -> 0..(NFiles - 1)]
         /\ \/ done[r] + 1 = NFiles /\ pc'[r] = after /\ done'[r] = 0
            \/ done[r] + 1 < NFiles /\ pc'[r] = again /\ done'[r] = done[r] + 1
<1>1. done[r] \in 0..(NFiles - 1)
  BY DEF TypeOK
<1>2. job' = job /\ Only(r) /\ pc' \in [Requests -> Labels]
  BY DEF TypeOK, NextFile, Goto, Only
<1>3. CASE done[r] + 1 = NFiles
  BY <1>1, <1>2, <1>3, GifStoreAssumption DEF TypeOK, NextFile, Goto
<1>4. CASE done[r] + 1 # NFiles
  BY <1>1, <1>2, <1>4, GifStoreAssumption DEF TypeOK, NextFile, Goto
<1> QED
  BY <1>3, <1>4

\* write_file fills the path it opened, unless something else is there by now.
LEMMA CloseIInv ==
  ASSUME IInv, NEW r \in Requests, CloseFile(r)
  PROVE  IInv'
<1>1. PICK i, c, n : i = job[r].id /\ c = job[r].hash /\ n = done[r] + 1
  OBVIOUS
<1>2. /\ TypeOK
      /\ pc[r] = "close" /\ job[r] \in Jobs /\ i \in Ids /\ c \in Contents
      /\ job[r].kind = "upload"
      /\ done[r] \in 0..(NFiles - 1)
      /\ n \in 1..NFiles
      /\ file[i][n] \in Files \cup {NoFile}
  BY <1>1, GifStoreAssumption DEF CloseFile, IInv, StageInv, Jobs, TypeOK
<1>3. CASE /\ Fails(r, "write") /\ Goto(r, "undo")
           /\ done' = [done EXCEPT ![r] = 0]
           /\ UNCHANGED <<file, rows, job, client>>
  BY <1>1, <1>2, <1>3, MoveIInv DEF Fails, TypeOK, Labels
<1>4. CASE /\ FillFile(r) /\ NextFile(r, "open", "answer")
           /\ UNCHANGED <<history, rows, client>>
  <2>1. PICK v \in Files \cup {NoFile} :
          /\ v = (IF file[i][n] = Partial(c) THEN Whole(c) ELSE file[i][n])
          /\ SetFile(r, v)
    BY <1>1, <1>2, <1>4, BytesFacts DEF FillFile, TheFile
  <2>2. /\ file' \in [Ids -> [1..NFiles -> Files \cup {NoFile}]]
        /\ file'[i][n] = v
        /\ \A j \in Ids, k \in 1..NFiles :
             j # i \/ k # n => file'[j][k] = file[j][k]
    BY <1>1, <1>2, <2>1, FileFacts
  <2>3. /\ job' = job /\ Only(r)
        /\ pc' \in [Requests -> Labels]
        /\ done' \in [Requests -> 0..(NFiles - 1)]
        /\ \/ n = NFiles /\ pc'[r] = "answer" /\ done'[r] = 0
           \/ n < NFiles /\ pc'[r] = "open" /\ done'[r] = n
        /\ UNCHANGED <<hit, contended, created, deleted, committed>>
    BY <1>1, <1>2, <1>4, NextFacts DEF Labels, history
  <2>4. \A q \in Requests \ {r} : Uploads(q) => job[q].id # i
    BY <1>1, <1>2 DEF IInv, OwnerInv, Uploads
  <2>5. i \notin contended => rows[i] # NoRow /\ rows[i].hash = c
    BY <1>1, <1>2 DEF IInv, SoleInv
  <2>6. /\ rows[i] # NoRow /\ hit[i] \subseteq {"write", "unlink"} =>
             v \in WholeFiles
        /\ i \notin contended /\ hit[i] = {} => v = Whole(c)
    <3>1. /\ rows[i] # NoRow /\ hit[i] \subseteq {"write", "unlink"} =>
               file[i][n] \in WholeFiles \cup {Partial(c)}
          /\ i \notin contended /\ hit[i] = {} => file[i][n] = Partial(c)
      BY <1>1, <1>2 DEF IInv, FillInv, TheFile
    <3> QED
      BY <1>2, <2>1, <3>1 DEF WholeFiles
  <2>7. hit[i] \subseteq {"write"} => v = NoFile \/ v.whole
    <3> SUFFICES ASSUME hit[i] \subseteq {"write"}, v # NoFile, ~ v.whole
                 PROVE  FALSE
      OBVIOUS
    <3>1. v = file[i][n] /\ v # Partial(c)
      BY <1>2, <2>1, BytesFacts
    <3>2. PICK q \in Requests : Fills(q, i, n, v.of)
      BY <1>2, <3>1 DEF IInv, TornInv
    <3>3. q = r
      BY <2>4, <3>2 DEF Fills
    <3>4. v.of = c
      BY <1>1, <3>2, <3>3 DEF Fills
    <3> QED
      BY <1>2, <3>1, <3>4, BytesFacts
  <2> USE <1>1, <1>2, <1>4, <2>2, <2>3
  <2>8. TypeOK'
    BY DEF TypeOK
  <2>9. /\ StageInv' /\ DoneInv' /\ CommitInv' /\ CreatedStays' /\ FreshInv'
        /\ OwnerInv' /\ FaultInv' /\ SoleInv'
    BY LoopInv
  <2>10. FilesWereCommitted'
    BY <2>1, BytesFacts DEF IInv, CommitInv, FilesWereCommitted
  <2>11. TornInv' /\ LiveInv' /\ GoneInv' /\ LatestInv' /\ FillInv'
    <3>1. \A q \in Requests \ {r} : pc[q] = "close" => job[q].id # i
      BY <2>4 DEF IInv, StageInv, Uploads
    <3>2. \A k \in 1..NFiles \ {n}, d \in Contents :
            /\ ~ Fills(r, i, k, d) /\ ~ Removes(r, i, k)
            /\ Loads(r, i, k) => Loads(r, i, k)'
            /\ Writes(r, i, k) => Writes(r, i, k)'
      BY DEF Fills, Uploads, Loads, Removes, Writes
    <3>3. TornKept(r, i, n, v)
      BY <2>7, <3>2 DEF TornKept
    <3>4. LiveKept(r, i, n, v)
      BY <2>6, <3>2 DEF LiveKept
    <3>5. GoneKept(r, i, n, v)
      BY <2>5 DEF GoneKept
    <3>6. LatestKept(r, i, n, v)
      BY <2>5, <2>6, <3>2 DEF LatestKept
    <3>7. FillKept(r, i, v)
      BY <3>1 DEF FillKept
    <3> QED
      BY <2>1, <3>3, <3>4, <3>5, <3>6, <3>7, PathInv
  <2> QED
    BY <2>8, <2>9, <2>10, <2>11 DEF IInv
<1> QED
  BY <1>3, <1>4 DEF CloseFile

\* A write of a dropped handler ends: it was counted as a fault of its gif.
LEMMA DetachedIInv ==
  ASSUME IInv, NEW r \in Requests, FinishDetached(r)
  PROVE  IInv'
<1>1. PICK i, c, n : i = job[r].id /\ c = job[r].hash /\ n = done[r] + 1
  OBVIOUS
<1>2. /\ TypeOK
      /\ pc[r] = "detached" /\ job[r] \in Jobs /\ i \in Ids /\ c \in Contents
      /\ n \in 1..NFiles
      /\ file[i][n] \in Files \cup {NoFile}
      /\ "drop" \in hit[i]
  BY <1>1, GifStoreAssumption
  DEF FinishDetached, IInv, StageInv, FaultInv, Jobs, TypeOK
<1>3. PICK v \in Files \cup {NoFile} :
        /\ v = (IF file[i][n] = Partial(c) THEN Whole(c) ELSE file[i][n])
        /\ SetFile(r, v)
  BY <1>1, <1>2, BytesFacts DEF FinishDetached, FillFile, TheFile
<1>4. /\ file' \in [Ids -> [1..NFiles -> Files \cup {NoFile}]]
      /\ file'[i][n] = v
      /\ \A j \in Ids, k \in 1..NFiles :
           j # i \/ k # n => file'[j][k] = file[j][k]
  BY <1>1, <1>2, <1>3, FileFacts
<1>5. /\ Only(r) /\ pc'[r] = "idle" /\ done'[r] = 0
      /\ UNCHANGED <<rows, client, hit, contended, created, deleted, committed>>
  BY <1>2 DEF FinishDetached, Return, Goto, Only, TypeOK, history
<1> USE <1>1, <1>2, <1>4, <1>5
<1>6. TypeOK'
  BY GifStoreAssumption DEF TypeOK, FinishDetached, Return, Goto, Labels
<1>7. /\ StageInv' /\ DoneInv' /\ CommitInv' /\ CreatedStays' /\ FreshInv'
      /\ OwnerInv' /\ FaultInv' /\ SoleInv'
  BY LoopInv
<1>8. FilesWereCommitted'
  BY <1>3, BytesFacts DEF IInv, CommitInv, FilesWereCommitted
<1>9. TornInv' /\ LiveInv' /\ GoneInv' /\ LatestInv' /\ FillInv'
  <2>1. /\ TornKept(r, i, n, v) /\ LiveKept(r, i, n, v) /\ GoneKept(r, i, n, v)
        /\ LatestKept(r, i, n, v) /\ FillKept(r, i, v)
    BY DEF TornKept, LiveKept, GoneKept, LatestKept, FillKept
  <2> QED
    BY <1>3, <2>1, PathInv
<1> QED
  BY <1>6, <1>7, <1>8, <1>9 DEF IInv

\* write_file_atomic replaces a path at once.
LEMMA RenameIInv ==
  ASSUME IInv, NEW r \in Requests, Rename(r)
  PROVE  IInv'
<1>1. PICK i, c, n : i = job[r].id /\ c = job[r].hash /\ n = done[r] + 1
  OBVIOUS
<1>2. /\ TypeOK
      /\ pc[r] = "rename" /\ job[r] \in Jobs /\ i \in Ids /\ c \in Contents
      /\ job[r].kind = "replace"
      /\ n \in 1..NFiles
  BY <1>1, GifStoreAssumption DEF Rename, IInv, StageInv, Jobs, TypeOK
<1>3. CASE Fails(r, "write") /\ Return(r) /\ UNCHANGED <<file, rows, client>>
  <2>1. /\ hit' \in [Ids -> SUBSET Faults]
        /\ \A j \in Ids : hit[j] \subseteq hit'[j]
        /\ hit'[job[r].id] # {}
    BY <1>1, <1>2, <1>3 DEF Fails, TypeOK
  <2> QED
    BY <1>2, <1>3, <2>1, LeaveIInv DEF Fails
<1>4. CASE /\ SetFile(r, Whole(job[r].hash)) /\ NextFile(r, "tmp", "answer")
           /\ UNCHANGED <<history, rows, client>>
  <2>1. PICK v \in Files \cup {NoFile} :
          v = Whole(c) /\ v.whole /\ SetFile(r, v) /\ v.of = c
    BY <1>1, <1>2, <1>4, BytesFacts
  <2>2. /\ file' \in [Ids -> [1..NFiles -> Files \cup {NoFile}]]
        /\ file'[i][n] = v
        /\ \A j \in Ids, k \in 1..NFiles :
             j # i \/ k # n => file'[j][k] = file[j][k]
    BY <1>1, <1>2, <2>1, FileFacts
  <2>3. /\ job' = job /\ Only(r)
        /\ pc' \in [Requests -> Labels]
        /\ done' \in [Requests -> 0..(NFiles - 1)]
        /\ \/ n = NFiles /\ pc'[r] = "answer" /\ done'[r] = 0
           \/ n < NFiles /\ pc'[r] = "tmp" /\ done'[r] = n
        /\ UNCHANGED <<hit, contended, created, deleted, committed>>
    BY <1>1, <1>2, <1>4, NextFacts DEF Labels, history
  <2>4. i \notin contended => rows[i] # NoRow /\ rows[i].hash = c
    BY <1>1, <1>2 DEF IInv, SoleInv
  <2> USE <1>1, <1>2, <1>4, <2>2, <2>3
  <2>5. TypeOK'
    BY DEF TypeOK
  <2>6. /\ StageInv' /\ DoneInv' /\ CommitInv' /\ CreatedStays' /\ FreshInv'
        /\ OwnerInv' /\ FaultInv' /\ SoleInv'
    BY LoopInv
  <2>7. FilesWereCommitted'
    BY <2>1 DEF IInv, CommitInv, FilesWereCommitted
  <2>8. TornInv' /\ LiveInv' /\ GoneInv' /\ LatestInv' /\ FillInv'
    <3>1. \A k \in 1..NFiles \ {n}, d \in Contents :
            /\ ~ Fills(r, i, k, d) /\ ~ Loads(r, i, k)
            /\ Writes(r, i, k) => Writes(r, i, k)'
      BY DEF Fills, Uploads, Loads, Writes, TypeOK
    <3>2. \A q \in Requests \ {r} : pc[q] = "close" /\ job[q].id = i =>
            i \in contended
      BY DEF IInv, SoleInv
    <3>3. TornKept(r, i, n, v)
      BY <2>1, <3>1 DEF TornKept
    <3>4. LiveKept(r, i, n, v)
      BY <2>1, <3>1 DEF LiveKept, WholeFiles
    <3>5. GoneKept(r, i, n, v)
      BY <2>4 DEF GoneKept
    <3>6. LatestKept(r, i, n, v)
      BY <2>1, <2>4, <3>1 DEF LatestKept
    <3>7. FillKept(r, i, v)
      BY <2>1, <3>2 DEF FillKept, WholeFiles
    <3> QED
      BY <2>1, <3>3, <3>4, <3>5, <3>6, <3>7, PathInv
  <2> QED
    BY <2>5, <2>6, <2>7, <2>8 DEF IInv
<1> QED
  BY <1>3, <1>4 DEF Rename

\* delete_file removes a path, or tries to.
LEMMA UnlinkIInv ==
  ASSUME IInv, NEW r \in Requests, Unlink(r)
  PROVE  IInv'
<1>1. PICK i, n : i = job[r].id /\ n = done[r] + 1
  OBVIOUS
<1>2. /\ TypeOK
      /\ pc[r] = "unlink" /\ job[r] \in Jobs /\ i \in Ids
      /\ n \in 1..NFiles /\ done[r] \in 0..(NFiles - 1)
      /\ rows[i] = NoRow \/ "db" \in hit[i]
  BY <1>1, GifStoreAssumption DEF Unlink, IInv, StageInv, FaultInv, Jobs, TypeOK
<1>3. /\ Only(r)
      /\ pc' \in [Requests -> Labels]
      /\ job' \in [Requests -> Jobs \cup {NoJob}]
      /\ done' \in [Requests -> 0..(NFiles - 1)]
      /\ \/ n = NFiles /\ pc'[r] = "idle" /\ done'[r] = 0
         \/ /\ n < NFiles /\ pc'[r] = "unlink" /\ done'[r] = n
            /\ job'[r] = job[r]
  <2>1. CASE n = NFiles
    <3>1. Return(r)
      BY <1>1, <2>1 DEF Unlink
    <3>2. 0 \in 0..(NFiles - 1) /\ "idle" \in Labels
      BY GifStoreAssumption DEF Labels
    <3> QED
      BY <1>2, <2>1, <3>1, <3>2 DEF Return, Goto, Only, TypeOK
  <2>2. CASE n # NFiles
    <3>1. NextFile(r, "unlink", "idle")
      BY <1>1, <2>2 DEF Unlink
    <3>2. "unlink" \in Labels /\ "idle" \in Labels
      BY DEF Labels
    <3>3. job \in [Requests -> Jobs \cup {NoJob}]
      BY <1>2 DEF TypeOK
    <3> QED
      BY <1>1, <1>2, <2>2, <3>1, <3>2, <3>3, NextFacts
  <2> QED
    BY <2>1, <2>2
<1>4. /\ UNCHANGED <<rows, client, contended, created, deleted, committed>>
      /\ hit' \in [Ids -> SUBSET Faults]
      /\ \A j \in Ids : hit[j] \subseteq hit'[j]
  <2>1. CASE UNCHANGED history
    BY <1>2, <2>1 DEF Unlink, history, TypeOK
  <2>2. CASE Fails(r, "unlink")
    BY <1>1, <1>2, <2>2 DEF Unlink, Fails, TypeOK
  <2> QED
    BY <2>1, <2>2 DEF Unlink
<1> USE <1>1, <1>2, <1>3, <1>4
<1>5. /\ StageInv' /\ DoneInv' /\ CommitInv' /\ CreatedStays' /\ FreshInv'
      /\ OwnerInv' /\ FaultInv' /\ SoleInv'
  BY LoopInv
<1>6. CASE SetFile(r, NoFile) /\ UNCHANGED history
  <2> USE <1>6
  <2>1. PICK v \in Files \cup {NoFile} : v = NoFile /\ SetFile(r, v)
    OBVIOUS
  <2>2. /\ file' \in [Ids -> [1..NFiles -> Files \cup {NoFile}]]
        /\ file'[i][n] = v
        /\ \A j \in Ids, k \in 1..NFiles :
             j # i \/ k # n => file'[j][k] = file[j][k]
    BY <2>1, FileFacts
  <2>3. TypeOK'
    BY <2>2 DEF TypeOK
  <2>4. FilesWereCommitted'
    BY <2>1, <2>2 DEF IInv, FilesWereCommitted
  <2>5. TornInv' /\ LiveInv' /\ GoneInv' /\ LatestInv' /\ FillInv'
    <3>1. TornKept(r, i, n, v)
      BY <2>1 DEF TornKept, Fills, Uploads
    <3>2. LiveKept(r, i, n, v) /\ LatestKept(r, i, n, v)
      BY DEF LiveKept, LatestKept
    <3>3. GoneKept(r, i, n, v)
      BY <2>1 DEF GoneKept, Removes
    <3>4. FillKept(r, i, v)
      BY DEF FillKept, IInv, SoleInv, StageInv
    <3> QED
      BY <2>1, <3>1, <3>2, <3>3, <3>4, PathInv DEF history
  <2> QED
    BY <1>5, <2>3, <2>4, <2>5 DEF IInv
<1>7. CASE Fails(r, "unlink") /\ UNCHANGED file
  <2> USE <1>7
  <2>1. "unlink" \in hit'[i]
    BY DEF Fails, TypeOK
  <2>2. TypeOK' /\ FilesWereCommitted'
    BY DEF TypeOK, IInv, FilesWereCommitted
  <2>3. TornInv' /\ LiveInv' /\ GoneInv' /\ LatestInv'
    BY <2>1, StillInv DEF Fills, Removes, Loads, Writes
  <2>4. FillInv'
    BY FillStillInv
  <2> QED
    BY <1>5, <2>2, <2>3, <2>4 DEF IInv
<1> QED
  BY <1>6, <1>7 DEF Unlink

\* The server stops: its handlers are gone, and what they and the clients were
\* about is typed as before.
LEMMA HaltTypeOK ==
  ASSUME TypeOK, Halt, "crash" \in Faults
  PROVE  TypeOK'
<1>1. client' \in [Clients -> Fetches]
  <2> SUFFICES ASSUME NEW x \in Clients, client[x].at = "found"
               PROVE  [client[x] EXCEPT !.at = "url"] \in Fetches
    BY DEF Halt, TypeOK
  <2>1. client[x] \in Fetches
    BY DEF TypeOK
  <2>2. client[x] \in [at : {"url", "found"}, id : Ids, version : Contents]
    BY <2>1 DEF Fetches, NoFetch
  <2> QED
    BY <2>2 DEF Fetches
<1>2. hit' \in [Ids -> SUBSET Faults]
  BY DEF Halt, TypeOK
<1> QED
  BY <1>1, <1>2, GifStoreAssumption DEF Halt, TypeOK, Labels

\* The server stops: every handler is gone, and recorded in hit.
LEMMA HaltIInv ==
  ASSUME IInv, Halt, "crash" \in Faults
  PROVE  IInv'
<1>1. /\ TypeOK
      /\ \A r \in Requests : pc'[r] = "idle" /\ done'[r] = 0
      /\ UNCHANGED <<rows, file, committed, contended, created, deleted>>
      /\ \A i \in Ids : /\ hit[i] \subseteq hit'[i]
                        /\ About(i) # {} => "crash" \in hit'[i]
  BY DEF IInv, Halt, TypeOK
<1>2. TypeOK'
  BY <1>1, HaltTypeOK
<1>3. StageInv' /\ DoneInv' /\ FreshInv' /\ OwnerInv' /\ FaultInv' /\ SoleInv'
      /\ FillInv'
  BY <1>1 DEF StageInv, DoneInv, FreshInv, OwnerInv, FaultInv, SoleInv, FillInv,
              Uploads
<1>4. CommitInv' /\ FilesWereCommitted' /\ CreatedStays'
  BY <1>1 DEF IInv, CommitInv, FilesWereCommitted, CreatedStays, Live
<1>5. \A r \in Requests, i \in Ids :
        pc[r] # "idle" /\ job[r].id = i => "crash" \in hit'[i]
  BY <1>1 DEF About
<1>6. TornInv'
  BY <1>1, <1>5 DEF IInv, TornInv, Fills, Uploads
<1>7. LiveInv'
  BY <1>1, <1>5 DEF IInv, LiveInv, Loads, WholeFiles, Whole
<1>8. GoneInv'
  BY <1>1, <1>5 DEF IInv, GoneInv, Removes
<1>9. LatestInv'
  BY <1>1, <1>5 DEF IInv, LatestInv, Writes, Whole
<1> QED
  BY <1>2, <1>3, <1>4, <1>6, <1>7, <1>8, <1>9 DEF IInv

\* The invariant says nothing of what clients hold.
LEMMA SameIInv ==
  ASSUME IInv, UNCHANGED <<rows, file, pc, job, done, history>>,
         client' \in [Clients -> Fetches]
  PROVE  IInv'
<1> USE DEF history
<1>1. TypeOK'
  BY DEF IInv, TypeOK
<1>2. StageInv' /\ DoneInv'
  BY DEF IInv, StageInv, DoneInv
<1>3. CommitInv' /\ FilesWereCommitted' /\ CreatedStays'
  BY DEF IInv, CommitInv, FilesWereCommitted, CreatedStays, Live
<1>4. FreshInv' /\ OwnerInv'
  BY DEF IInv, FreshInv, OwnerInv, Uploads
<1>5. FaultInv' /\ SoleInv'
  BY DEF IInv, FaultInv, SoleInv
<1>6. TornInv'
  BY DEF IInv, TornInv, Fills, Uploads
<1>7. LiveInv'
  BY DEF IInv, LiveInv, Loads, WholeFiles
<1>8. FillInv'
  BY DEF IInv, FillInv, TheFile, WholeFiles
<1>9. GoneInv'
  BY DEF IInv, GoneInv, Removes
<1>10. LatestInv'
  BY DEF IInv, LatestInv, Writes
<1> QED
  BY <1>1, <1>2, <1>3, <1>4, <1>5, <1>6, <1>7, <1>8, <1>9, <1>10 DEF IInv

\* What a client fetches or caches is typed.
LEMMA ServeTyped ==
  ASSUME TypeOK, NEW x \in Clients, Serve(x)
  PROVE  client' \in [Clients -> Fetches]
<1>1. CASE GetUrl(x)
  <2>1. PICK i \in Live(rows) : client' = [client EXCEPT ![x] =
          [at |-> "url", id |-> i, version |-> rows[i].hash]]
    BY <1>1 DEF GetUrl
  <2>2. i \in Ids /\ rows[i].hash \in Contents
    BY DEF Live, TypeOK, Tables, Row
  <2>3. [at |-> "url", id |-> i, version |-> rows[i].hash] \in Fetches
    BY <2>2 DEF Fetches
  <2> QED
    BY <2>1, <2>3 DEF TypeOK
<1>2. CASE FindFile(x)
  <2>1. client[x] \in Fetches /\ client[x].at = "url"
    BY <1>2 DEF TypeOK, FindFile
  <2>2. client[x] \in [at : {"url", "found"}, id : Ids, version : Contents]
    BY <2>1 DEF Fetches, NoFetch
  <2>3. [client[x] EXCEPT !.at = "found"] \in Fetches /\ NoFetch \in Fetches
    BY <2>2 DEF Fetches
  <2> QED
    BY <1>2, <2>3 DEF TypeOK, FindFile
<1>3. CASE ReadFile(x)
  <2>1. PICK k \in 1..NFiles :
          client' = [client EXCEPT ![x] =
            IF file[client[x].id][k] = NoFile
              THEN NoFetch
              ELSE [at |-> "cached", id |-> @.id, version |-> @.version,
                    bytes |-> file[client[x].id][k]]]
    BY <1>3 DEF ReadFile
  <2>2. client[x] \in Fetches /\ client[x].at = "found"
    BY <1>3 DEF TypeOK, ReadFile
  <2>3. client[x] \in [at : {"url", "found"}, id : Ids, version : Contents]
    BY <2>2 DEF Fetches, NoFetch
  <2>4. file[client[x].id][k] \in Files \cup {NoFile}
    <3>1. client[x].id \in Ids
      BY <2>3
    <3> QED
      BY <3>1 DEF TypeOK
  <2> DEFINE read == [at |-> "cached", id |-> client[x].id,
                      version |-> client[x].version,
                      bytes |-> file[client[x].id][k]]
  <2>5. NoFetch \in Fetches
        /\ (file[client[x].id][k] # NoFile => read \in Fetches)
    BY <2>3, <2>4 DEF Fetches
  <2>6. client' = [client EXCEPT ![x] =
          IF file[client[x].id][k] = NoFile THEN NoFetch ELSE read]
    BY <2>1
  <2> QED
    BY <2>5, <2>6 DEF TypeOK
<1> QED
  BY <1>1, <1>2, <1>3 DEF Serve

\* A client reads the rows and the files and changes neither.
LEMMA ServeIInv ==
  ASSUME IInv, NEW x \in Clients, Serve(x)
  PROVE  IInv'
<1>1. UNCHANGED <<rows, file, pc, job, done, history>>
  BY DEF Serve, GetUrl, FindFile, ReadFile
<1> QED
  BY <1>1, ServeTyped, SameIInv DEF IInv

\* Every step keeps the invariant.
THEOREM NextIInv == IInv /\ [Next]_vars => IInv'
<1> SUFFICES ASSUME IInv, [Next]_vars PROVE IInv'
  OBVIOUS
<1>0. /\ TypeOK
      /\ \A r \in Requests :
           pc[r] # "idle" => job[r] \in Jobs /\ job[r].id \in Ids
  BY DEF IInv, StageInv, Jobs
<1>1. ASSUME NEW r \in Requests, Upload(r) PROVE IInv'
  <2>1. CASE StartUpload(r)
    BY <2>1, StartIInv
  <2>2. CASE Lookup(r)
    <3>1. CASE Return(r)
      BY <1>0, <2>2, <3>1, LeaveIInv DEF Lookup, history, TypeOK
    <3>2. CASE Goto(r, "insert") /\ UNCHANGED <<job, done>>
      BY <1>0, <2>2, <3>2, MoveIInv DEF Lookup, history, TypeOK, Labels
    <3> QED
      BY <2>2, <3>1, <3>2 DEF Lookup
  <2>3. CASE InsertRow(r)
    BY <2>3, InsertIInv
  <2>4. CASE Refuse(r)
    BY <1>0, <2>4, LeaveIInv DEF Refuse, history, TypeOK
  <2>5. CASE OpenFile(r)
    BY <2>5, OpenIInv
  <2>6. CASE CloseFile(r)
    BY <2>6, CloseIInv
  <2>7. CASE UndoRow(r)
    <3>1. CASE rows' = [rows EXCEPT ![job[r].id] = NoRow] /\ UNCHANGED history
      BY <2>7, <3>1, RemoveRowIInv DEF UndoRow, history
    <3>2. CASE Fails(r, "db") /\ UNCHANGED rows
      <4>1. /\ hit' \in [Ids -> SUBSET Faults]
            /\ \A i \in Ids : hit[i] \subseteq hit'[i]
            /\ "db" \in hit'[job[r].id]
        BY <1>0, <2>7, <3>2 DEF Fails, TypeOK, UndoRow
      <4> QED
        BY <2>7, <3>2, <4>1, MoveIInv DEF UndoRow, Fails, Labels
    <3> QED
      BY <2>7, <3>1, <3>2 DEF UndoRow
  <2>8. CASE Answer(r)
    <3>1. /\ hit' \in [Ids -> SUBSET Faults]
          /\ \A i \in Ids : hit[i] \subseteq hit'[i]
      BY <1>0, <2>8 DEF Answer, TypeOK
    <3> QED
      BY <2>8, <3>1, LeaveIInv DEF Answer
  <2> QED
    BY <1>1, <2>1, <2>2, <2>3, <2>4, <2>5, <2>6, <2>7, <2>8 DEF Upload
<1>2. ASSUME NEW r \in Requests, Replace(r) PROVE IInv'
  <2>1. CASE StartReplace(r)
    BY <2>1, StartIInv
  <2>2. CASE ListFiles(r)
    <3>1. CASE Return(r)
      BY <1>0, <2>2, <3>1, LeaveIInv DEF ListFiles, history, TypeOK
    <3>2. CASE Goto(r, "update") /\ UNCHANGED <<job, done>>
      BY <1>0, <2>2, <3>2, MoveIInv DEF ListFiles, history, TypeOK, Labels
    <3> QED
      BY <2>2, <3>1, <3>2 DEF ListFiles
  <2>3. CASE UpdateRow(r)
    BY <2>3, UpdateIInv
  <2>4. CASE WriteTmp(r)
    <3>1. CASE Goto(r, "rename") /\ UNCHANGED <<job, done, history>>
      BY <1>0, <2>4, <3>1, MoveIInv DEF WriteTmp, history, TypeOK, Labels
    <3>2. CASE Fails(r, "write") /\ Return(r)
      <4>1. /\ hit' \in [Ids -> SUBSET Faults]
            /\ \A i \in Ids : hit[i] \subseteq hit'[i]
            /\ hit'[job[r].id] # {}
        BY <1>0, <2>4, <3>2 DEF Fails, TypeOK, WriteTmp
      <4> QED
        BY <2>4, <3>2, <4>1, LeaveIInv DEF WriteTmp, Fails
    <3> QED
      BY <2>4, <3>1, <3>2 DEF WriteTmp
  <2>5. CASE Rename(r)
    BY <2>5, RenameIInv
  <2> QED
    BY <1>2, <2>1, <2>2, <2>3, <2>4, <2>5 DEF Replace
<1>3. ASSUME NEW r \in Requests, Delete(r) PROVE IInv'
  <2>1. CASE StartDelete(r)
    BY <2>1, StartIInv
  <2>2. CASE DeleteRow(r)
    <3>1. CASE /\ Accounting!Delete(job[r].id)
               /\ deleted' = deleted \cup {job[r].id}
               /\ Goto(r, "unlink")
               /\ UNCHANGED <<job, done>>
      BY <2>2, <3>1, RemoveRowIInv DEF DeleteRow, Accounting!Delete
    <3>2. CASE Return(r) /\ UNCHANGED <<rows, deleted>>
      BY <1>0, <2>2, <3>2, LeaveIInv DEF DeleteRow, TypeOK
    <3> QED
      BY <2>2, <3>1, <3>2 DEF DeleteRow
  <2>3. CASE Unlink(r)
    BY <2>3, UnlinkIInv
  <2> QED
    BY <1>3, <2>1, <2>2, <2>3 DEF Delete
<1>4. ASSUME NEW r \in Requests, Drop(r) PROVE IInv'
  <2>1. /\ hit' \in [Ids -> SUBSET Faults]
        /\ \A i \in Ids : hit[i] \subseteq hit'[i]
        /\ "drop" \in hit'[job[r].id]
    BY <1>0, <1>4 DEF Drop, Fails, TypeOK
  <2>2. CASE pc[r] = "close"
    BY <1>4, <2>1, <2>2, MoveIInv DEF Drop, Fails, Labels
  <2>3. CASE pc[r] # "close"
    BY <1>4, <2>1, <2>3, LeaveIInv DEF Drop, Fails
  <2> QED
    BY <2>2, <2>3
<1>5. ASSUME NEW r \in Requests, FinishDetached(r) PROVE IInv'
  BY <1>5, DetachedIInv
<1>6. ASSUME NEW x \in Clients, Serve(x) PROVE IInv'
  BY <1>6, ServeIInv
<1>7. CASE Restart
  BY <1>7, HaltIInv DEF Restart
<1>8. CASE UNCHANGED vars
  BY <1>0, <1>8, SameIInv DEF vars, TypeOK
<1> QED
  BY <1>1, <1>2, <1>3, <1>4, <1>5, <1>6, <1>7, <1>8 DEF Next

-----------------------------------------------------------------------------
\* The invariant holds in every state the handlers reach.
THEOREM SpecIInv == Spec => []IInv
  BY InitIInv, NextIInv, PTL DEF Spec

\* "Nothing is written to disk until the row is committed" (upload.rs:140):
\* a path holds only bytes of contents that a commit gave to its gif.
THEOREM SpecFilesWereCommitted == Spec => []FilesWereCommitted
  BY SpecIInv, PTL DEF IInv

\* What a client was told is created stays until somebody deletes it.
THEOREM SpecCreatedStays == Spec => []CreatedStays
  BY SpecIInv, PTL DEF IInv

\* A gif with a row that no handler is working on can be served in every
\* rendition, however the handlers overlapped and whichever writes and
\* removals failed.
THEOREM SpecLiveIsServable == Spec => []LiveIsServable
<1>1. IInv => LiveIsServable
  <2> SUFFICES ASSUME IInv, NEW i \in Live(rows), Quiet(i),
                      hit[i] \subseteq {"write", "unlink"}, NEW k \in 1..NFiles
               PROVE  file[i][k] \in WholeFiles
    BY DEF LiveIsServable, AllFiles
  <2>1. \A r \in Requests : ~ Loads(r, i, k)
    BY DEF Quiet, About, Loads
  <2> QED
    BY <2>1 DEF IInv, LiveInv, Live
<1> QED
  BY <1>1, SpecIInv, PTL

\* A gif at rest whose handlers never overlapped has all files of its row, and
\* none without a row, whichever writes failed.
THEOREM SpecRestingIsComplete == Spec => []RestingIsComplete
<1>1. IInv => RestingIsComplete
  <2> SUFFICES ASSUME IInv, NEW i \in Ids, Quiet(i), i \notin contended,
                      hit[i] \subseteq {"write"}, NEW k \in 1..NFiles
               PROVE  IF rows[i] = NoRow THEN file[i][k] \in {NoFile}
                                         ELSE file[i][k] \in WholeFiles
    BY DEF RestingIsComplete, AllFiles
  <2>1. \A r \in Requests : ~ Loads(r, i, k) /\ ~ Removes(r, i, k)
    BY DEF Quiet, About, Loads, Removes
  <2> QED
    BY <2>1 DEF IInv, LiveInv, GoneInv
<1> QED
  BY <1>1, SpecIInv, PTL

\* ... and if nothing failed they are the row's own content.
THEOREM SpecRestingIsUpToDate == Spec => []RestingIsUpToDate
<1>1. IInv => RestingIsUpToDate
  <2> SUFFICES ASSUME IInv, NEW i \in Live(rows), Quiet(i), i \notin contended,
                      hit[i] = {}, NEW k \in 1..NFiles
               PROVE  file[i][k] = Whole(rows[i].hash)
    BY DEF RestingIsUpToDate, AllFiles
  <2>1. \A r \in Requests : ~ Writes(r, i, k)
    BY DEF Quiet, About, Writes
  <2> QED
    BY <2>1 DEF IInv, LatestInv, Live
<1> QED
  BY <1>1, SpecIInv, PTL

\* A client is served half a file only while its gif's upload is writing it or
\* has yet to remove it (files.rs:25-27), faults that leave it behind excepted.
THEOREM SpecTornReadsOnlyDuringUpload == Spec => TornReadsOnlyDuringUpload
<1>1. ASSUME IInv, Next, NEW x \in Clients,
             client[x].at = "found", client'[x].at = "cached"
      PROVE  ReadFile(x)
  <2>1. TypeOK /\ client' # client
    BY <1>1 DEF IInv
  <2>2. ASSUME NEW r \in Requests,
               \/ Upload(r) \/ Replace(r) \/ Delete(r)
               \/ Drop(r) \/ FinishDetached(r)
        PROVE  client' = client
    BY <2>2 DEF Upload, Replace, Delete, StartUpload, StartReplace, StartDelete,
                Start, Lookup, InsertRow, Refuse, OpenFile, CloseFile, UndoRow,
                Answer, ListFiles, UpdateRow, WriteTmp, Rename, DeleteRow,
                Unlink, Drop, FinishDetached
  <2>3. CASE Restart
    BY <1>1, <2>1, <2>3 DEF Restart, Halt, TypeOK
  <2>4. ASSUME NEW y \in Clients, Serve(y)
        PROVE  ReadFile(x)
    <3>1. ~ GetUrl(y) /\ ~ FindFile(y)
      <4>1. ASSUME NEW z, client' = [client EXCEPT ![y] = z], z.at # "cached"
            PROVE  FALSE
        BY <1>1, <2>1, <4>1 DEF TypeOK
      <4>2. client[y] \in Fetches
        BY <2>1 DEF TypeOK
      <4>3. ~ GetUrl(y)
        <5> SUFFICES ASSUME NEW i \in Live(rows),
                            client' = [client EXCEPT ![y] =
                              [at |-> "url", id |-> i,
                               version |-> rows[i].hash]]
                     PROVE  FALSE
          BY DEF GetUrl
        <5>1. PICK z : z = [at |-> "url", id |-> i, version |-> rows[i].hash]
          OBVIOUS
        <5>2. z.at # "cached"
          BY <5>1
        <5> QED
          BY <4>1, <5>1, <5>2
      <4>4. ~ FindFile(y)
        <5> SUFFICES ASSUME FindFile(y) PROVE FALSE
          OBVIOUS
        <5>1. client[y] \in
                [at : {"url", "found"}, id : Ids, version : Contents]
          BY <4>2 DEF Fetches, NoFetch, FindFile
        <5>2. /\ [client[y] EXCEPT !.at = "found"].at # "cached"
              /\ NoFetch.at # "cached"
          BY <5>1 DEF NoFetch
        <5>3. client' = [client EXCEPT ![y] = IF rows[client[y].id] = NoRow
                           THEN NoFetch ELSE [client[y] EXCEPT !.at = "found"]]
          BY DEF FindFile
        <5> QED
          BY <4>1, <5>2, <5>3
      <4> QED
        BY <4>3, <4>4
    <3>2. y = x
      BY <1>1, <2>1, <2>4, <3>1 DEF Serve, ReadFile, TypeOK
    <3> QED
      BY <2>4, <3>1, <3>2 DEF Serve
  <2> QED
    BY <1>1, <2>1, <2>2, <2>3, <2>4 DEF Next
<1>2. ASSUME IInv, NEW x \in Clients, ReadFile(x), client'[x].at = "cached",
             ~ client'[x].bytes.whole, hit[client[x].id] \subseteq {"write"}
      PROVE  \E r \in About(client[x].id) :
               /\ pc[r] \in {"close", "undo", "unlink"}
               /\ job[r].kind = "upload"
  <2>1. client[x] \in Fetches /\ client[x].at = "found"
    BY <1>2 DEF IInv, TypeOK, ReadFile
  <2>2. client[x].id \in Ids
    BY <2>1 DEF Fetches, NoFetch
  <2>3. PICK k \in 1..NFiles :
          client' = [client EXCEPT ![x] =
            IF file[client[x].id][k] = NoFile
              THEN NoFetch
              ELSE [at |-> "cached", id |-> @.id, version |-> @.version,
                    bytes |-> file[client[x].id][k]]]
    BY <1>2 DEF ReadFile
  <2>4. file[client[x].id][k] # NoFile /\ ~ file[client[x].id][k].whole
    BY <1>2, <2>3 DEF IInv, TypeOK, NoFetch
  <2>5. PICK r \in Requests :
          Fills(r, client[x].id, k, file[client[x].id][k].of)
    BY <1>2, <2>2, <2>4 DEF IInv, TornInv
  <2> QED
    BY <2>5 DEF Fills, About, Uploads
<1>3. IInv /\ [Next]_vars =>
        [\A x \in Clients :
           LET i == client[x].id IN
             client[x].at = "found" /\ client'[x].at = "cached"
                 /\ ~ client'[x].bytes.whole /\ hit[i] \subseteq {"write"} =>
               \E r \in About(i) : /\ pc[r] \in {"close", "undo", "unlink"}
                                    /\ job[r].kind = "upload"]_vars
  BY <1>1, <1>2
<1> QED
  BY <1>3, SpecIInv, PTL DEF Spec, TornReadsOnlyDuringUpload

\* Seen through the committed rows the handlers are Catalog: an upload that
\* undoes itself is a deletion, or nothing if its row is gone.
THEOREM SpecImplementsCatalog == Spec => Accounting!Spec
<1>1. Init => Accounting!Init
  BY DEF Init, Accounting!Init
<1>2. IInv /\ [Next]_vars => [Accounting!Next]_rows
  <2> SUFFICES ASSUME IInv, [Next]_vars, rows' # rows
               PROVE  Accounting!Next
    OBVIOUS
  <2>1. \A r \in Requests : pc[r] # "idle" =>
          /\ job[r].id \in Ids
          /\ job[r].uploader \in Users
          /\ job[r].hash \in Contents
    BY DEF IInv, StageInv, Jobs
  <2>2. ASSUME NEW r \in Requests, Upload(r) PROVE Accounting!Next
    <3>1. InsertRow(r) \/ UndoRow(r)
      BY <2>2 DEF Upload, StartUpload, Start, Lookup, Refuse, OpenFile, CloseFile,
                  Answer
    <3>2. CASE InsertRow(r)
      BY <2>1, <3>2 DEF InsertRow, Accounting!Next
    <3>3. CASE UndoRow(r)
      <4>1. rows' = [rows EXCEPT ![job[r].id] = NoRow] /\ pc[r] = "undo"
        BY <3>3 DEF UndoRow
      <4>2. rows[job[r].id] # NoRow
        BY <2>1, <4>1 DEF IInv, TypeOK, Tables
      <4> QED
        BY <2>1, <4>1, <4>2 DEF Accounting!Delete, Accounting!Next
    <3> QED
      BY <3>1, <3>2, <3>3
  <2>3. ASSUME NEW r \in Requests, Replace(r) PROVE Accounting!Next
    <3>1. UpdateRow(r)
      BY <2>3 DEF Replace, StartReplace, Start, ListFiles, WriteTmp, Rename
    <3> QED
      BY <2>1, <3>1 DEF UpdateRow, Accounting!Next
  <2>4. ASSUME NEW r \in Requests, Delete(r) PROVE Accounting!Next
    <3>1. DeleteRow(r)
      BY <2>4 DEF Delete, StartDelete, Start, Unlink
    <3> QED
      BY <2>1, <3>1 DEF DeleteRow, Accounting!Next
  <2>5. \A r \in Requests : ~ Drop(r) /\ ~ FinishDetached(r)
    BY DEF Drop, FinishDetached
  <2>6. ~ Restart /\ \A x \in Clients : ~ Serve(x)
    BY DEF Restart, Halt, Serve, GetUrl, FindFile, ReadFile
  <2>7. vars' # vars
    BY DEF vars
  <2> QED
    BY <2>2, <2>3, <2>4, <2>5, <2>6, <2>7 DEF Next
<1> QED
  BY <1>1, <1>2, SpecIInv, PTL DEF Spec, Accounting!Spec

=============================================================================
