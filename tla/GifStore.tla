------------------------------ MODULE GifStore ------------------------------
(***************************************************************************)
(* The handlers that keep a gif's row and its rendition files together:    *)
(* upload (routes/upload.rs), replace_file, delete_gif and serve_file      *)
(* (routes/fetch.rs) over the file operations of storage/files.rs.  The    *)
(* row changes in one transaction, which is a step of Catalog; the files   *)
(* follow one by one, and nothing ties the two together but the order of   *)
(* the statements of a handler.                                            *)
(*                                                                         *)
(* Every await is a point where other handlers run, where the client may   *)
(* go away (the handler is dropped) and where the server may stop.         *)
(***************************************************************************)
EXTENDS Storage

CONSTANTS
  Requests,     \* slots for concurrently running mutating handlers
  Clients,      \* holders of a rendition URL and of a cache
  NFiles,       \* renditions of a gif: original, preview, thumbnail
  Faults,       \* what may go wrong in this instance
  NoFile,       \* a path with nothing at it
  NoJob         \* the slot is idle

AllFaults == {"write", "unlink", "db", "drop", "crash"}

Files == [of : Contents, whole : BOOLEAN]

ASSUME GifStoreAssumption ==
  /\ NFiles \in Nat \ {0}
  /\ Faults \subseteq AllFaults
  /\ NoFile \notin Files

VARIABLES
  rows,         \* committed rows
  file,         \* file[i][k]: what rendition path k of gif i holds
  pc,           \* where each handler is
  job,          \* what it is about
  done,         \* files its current loop is done with
  client,       \* what a client is fetching or has cached
  committed,    \* history: contents that a commit gave to gif i
  contended,    \* history: gifs that two handlers have been about at a time
  created,      \* history: gifs for which a client was answered 201
  deleted,      \* history: gifs whose row a DELETE removed
  hit           \* history: faults that cut a handler of gif i short

history == <<committed, contended, created, deleted, hit>>
vars == <<rows, file, pc, job, done, client, history>>

Accounting == INSTANCE Catalog WITH rows <- rows

Kinds == {"upload", "replace", "delete"}
Jobs == [kind : Kinds, id : Ids, uploader : Users, hash : Contents]

Labels == {"idle", "lookup", "insert", "open", "close", "detached", "undo",
           "list", "update", "tmp", "rename", "deleterow", "unlink", "answer"}

NoFetch == [at |-> "none"]
Fetches ==
  {NoFetch}
    \cup [at : {"url", "found"}, id : Ids, version : Contents]
    \cup [at : {"cached"}, id : Ids, version : Contents, bytes : Files]

TypeOK ==
  /\ rows \in Tables
  /\ file \in [Ids -> [1..NFiles -> Files \cup {NoFile}]]
  /\ pc \in [Requests -> Labels]
  /\ job \in [Requests -> Jobs \cup {NoJob}]
  /\ done \in [Requests -> 0..(NFiles - 1)]
  /\ client \in [Clients -> Fetches]
  /\ committed \in [Ids -> SUBSET Contents]
  /\ contended \subseteq Ids
  /\ created \subseteq Ids
  /\ deleted \subseteq Ids
  /\ hit \in [Ids -> SUBSET Faults]

Init ==
  /\ rows = [i \in Ids |-> NoRow]
  /\ file = [i \in Ids |-> [k \in 1..NFiles |-> NoFile]]
  /\ pc = [r \in Requests |-> "idle"]
  /\ job = [r \in Requests |-> NoJob]
  /\ done = [r \in Requests |-> 0]
  /\ client = [x \in Clients |-> NoFetch]
  /\ committed = [i \in Ids |-> {}]
  /\ contended = {}
  /\ created = {}
  /\ deleted = {}
  /\ hit = [i \in Ids |-> {}]

-----------------------------------------------------------------------------
Whole(c)   == [of |-> c, whole |-> TRUE]
Partial(c) == [of |-> c, whole |-> FALSE]

About(i) == {r \in Requests : pc[r] # "idle" /\ job[r].id = i}

Goto(r, label) == pc' = [pc EXCEPT ![r] = label]

\* The handler returns: its answer, or its error, is on the way.
Return(r) ==
  /\ Goto(r, "idle")
  /\ job' = [job EXCEPT ![r] = NoJob]
  /\ done' = [done EXCEPT ![r] = 0]

\* Fault f keeps handler r from doing the rest of its work.
Fails(r, f) ==
  /\ f \in Faults
  /\ hit' = [hit EXCEPT ![job[r].id] = @ \cup {f}]
  /\ UNCHANGED <<committed, contended, created, deleted>>

\* The handler turns to its next file, or to after once it has had them all.
NextFile(r, again, after) ==
  /\ Goto(r, IF done[r] + 1 = NFiles THEN after ELSE again)
  /\ done' = [done EXCEPT ![r] = IF done[r] + 1 = NFiles THEN 0 ELSE @ + 1]
  /\ UNCHANGED job

SetFile(r, value) ==
  file' = [file EXCEPT ![job[r].id][done[r] + 1] = value]

TheFile(r) == file[job[r].id][done[r] + 1]

Start(r, kind, i, u, c, label) ==
  /\ pc[r] = "idle"
  /\ job' = [job EXCEPT ![r] = [kind |-> kind, id |-> i,
                                uploader |-> u, hash |-> c]]
  /\ Goto(r, label)
  /\ contended' =
       IF \E q \in About(i) : {kind, job[q].kind} # {"delete"}
         THEN contended \cup {i} ELSE contended
  /\ UNCHANGED <<rows, file, done, client, committed, created, deleted, hit>>

-----------------------------------------------------------------------------
(* POST /gifs                                                              *)

\* Uuid::new_v4: an id that no row and no handler ever had.
Fresh(i) == committed[i] = {} /\ About(i) = {}

StartUpload(r) ==
  \E i \in Ids, u \in Users, c \in Contents :
    Fresh(i) /\ Start(r, "upload", i, u, c, "lookup")

IsTaken(r) == Taken(rows, job[r].id, job[r].uploader, job[r].hash)

\* get_gif_by_hash_for_uploader, before the file is decoded: 200 if it is there.
Lookup(r) ==
  /\ pc[r] = "lookup"
  /\ IF IsTaken(r)
       THEN Return(r)
       ELSE Goto(r, "insert") /\ UNCHANGED <<job, done>>
  /\ UNCHANGED <<rows, file, client, history>>

Committed(r) ==
  committed' = [committed EXCEPT ![job[r].id] = @ \cup {job[r].hash}]

\* Mutant: the client is answered before the files are written.
InsertRowAnswersEarly(r) ==
  /\ pc[r] = "insert"
  /\ Accounting!Upload(job[r].id, job[r].uploader, job[r].hash)
  /\ Committed(r)
  /\ created' = created \cup {job[r].id}
  /\ Goto(r, "open")
  /\ UNCHANGED <<file, job, done, client, contended, deleted, hit>>

\* insert_gif_quota: Inserted, or Duplicate.
InsertRow(r) ==
  /\ pc[r] = "insert"
  /\ \/ /\ Accounting!Upload(job[r].id, job[r].uploader, job[r].hash)
        /\ Committed(r)
        /\ Goto(r, "open")
        /\ UNCHANGED <<file, job, done, client, contended, created, deleted,
                       hit>>
     \/ /\ IsTaken(r)
        /\ Return(r)
        /\ UNCHANGED <<rows, file, client, history>>

\* The file cannot be decoded, the transaction answers QuotaExceeded (or, for
\* a replacement, Duplicate), finds no row to update, or fails.
Refuse(r) ==
  /\ pc[r] \in {"insert", "update"}
  /\ Return(r)
  /\ UNCHANGED <<rows, file, client, history>>

\* write_file: fs::write creates or truncates the path ...
OpenFile(r) ==
  /\ pc[r] = "open"
  /\ \/ /\ SetFile(r, Partial(job[r].hash))
        /\ Goto(r, "close")
        /\ UNCHANGED <<done, history>>
     \/ /\ Fails(r, "write")
        /\ Goto(r, "undo")
        /\ done' = [done EXCEPT ![r] = 0]
        /\ UNCHANGED file
  /\ UNCHANGED <<rows, job, client>>

\* ... and fills it.  If the path was unlinked or renamed over meanwhile, the
\* bytes go to a file that no path leads to.
FillFile(r) ==
  SetFile(r, IF TheFile(r) = Partial(job[r].hash)
               THEN Whole(job[r].hash) ELSE TheFile(r))

CloseFile(r) ==
  /\ pc[r] = "close"
  /\ \/ /\ FillFile(r)
        /\ NextFile(r, "open", "answer")
        /\ UNCHANGED history
     \/ /\ Fails(r, "write")
        /\ Goto(r, "undo")
        /\ done' = [done EXCEPT ![r] = 0]
        /\ UNCHANGED <<file, job>>
  /\ UNCHANGED <<rows, client>>

\* Mutant: a failed write removes the files and forgets the row.
UndoRowForgotten(r) ==
  /\ pc[r] = "undo"
  /\ Goto(r, "unlink")
  /\ UNCHANGED <<rows, file, job, done, client, history>>

\* A failed write: delete_gif, whose error is ignored, then the files.
UndoRow(r) ==
  /\ pc[r] = "undo"
  /\ \/ rows' = [rows EXCEPT ![job[r].id] = NoRow] /\ UNCHANGED history
     \/ Fails(r, "db") /\ UNCHANGED rows
  /\ Goto(r, "unlink")
  /\ UNCHANGED <<file, job, done, client>>

\* 201 for an upload, 200 for a replacement; build_renditions may still fail.
Answer(r) ==
  /\ pc[r] = "answer"
  /\ \/ created' = IF job[r].kind = "upload" THEN created \cup {job[r].id}
                                            ELSE created
     \/ "db" \in Faults /\ UNCHANGED created
  /\ Return(r)
  /\ UNCHANGED <<rows, file, client, committed, contended, deleted, hit>>

-----------------------------------------------------------------------------
(* PUT /gifs/:id/file                                                      *)

StartReplace(r) ==
  \E i \in Live(rows), c \in Contents :
    Start(r, "replace", i, rows[i].uploader, c, "list")

\* get_renditions, after decoding: without a row there are no file names.
ListFiles(r) ==
  /\ pc[r] = "list"
  /\ IF rows[job[r].id] = NoRow
       THEN Return(r)
       ELSE Goto(r, "update") /\ UNCHANGED <<job, done>>
  /\ UNCHANGED <<rows, file, client, history>>

\* Mutant: the files are overwritten whatever the transaction answers.
UpdateRowOptional(r) ==
  /\ pc[r] = "update"
  /\ \/ Accounting!Replace(job[r].id, job[r].hash) /\ Committed(r)
     \/ UNCHANGED <<rows, committed>>
  /\ Goto(r, "tmp")
  /\ UNCHANGED <<file, job, done, client, contended, created, deleted, hit>>

\* replace_gif_quota: Updated.
UpdateRow(r) ==
  /\ pc[r] = "update"
  /\ Accounting!Replace(job[r].id, job[r].hash)
  /\ Committed(r)
  /\ Goto(r, "tmp")
  /\ UNCHANGED <<file, job, done, client, contended, created, deleted, hit>>

\* Mutant: the replacement writes the rendition's own path.
WriteTmpInPlace(r) ==
  /\ pc[r] = "tmp"
  /\ SetFile(r, Partial(job[r].hash))
  /\ Goto(r, "rename")
  /\ UNCHANGED <<rows, job, done, client, history>>

\* write_file_atomic: the temporary file has a name of its own and is not
\* looked at by anyone ...
WriteTmp(r) ==
  /\ pc[r] = "tmp"
  /\ \/ Goto(r, "rename") /\ UNCHANGED <<job, done, history>>
     \/ Fails(r, "write") /\ Return(r)
  /\ UNCHANGED <<rows, file, client>>

\* Mutant: only the original is replaced.
RenameFirstOnly(r) ==
  /\ pc[r] = "rename"
  /\ SetFile(r, Whole(job[r].hash))
  /\ Goto(r, "answer")
  /\ UNCHANGED <<rows, job, done, client, history>>

\* ... until it is renamed.  A failure leaves the remaining files as they are.
Rename(r) ==
  /\ pc[r] = "rename"
  /\ \/ /\ SetFile(r, Whole(job[r].hash))
        /\ NextFile(r, "tmp", "answer")
        /\ UNCHANGED history
     \/ /\ Fails(r, "write")
        /\ Return(r)
        /\ UNCHANGED file
  /\ UNCHANGED <<rows, client>>

-----------------------------------------------------------------------------
(* DELETE /gifs/:id                                                        *)

StartDelete(r) ==
  \E i \in Live(rows) :
    Start(r, "delete", i, rows[i].uploader, rows[i].hash, "deleterow")

\* delete_gif: of two deletions one finds no row, and answers 404.
DeleteRow(r) ==
  /\ pc[r] = "deleterow"
  /\ \/ /\ Accounting!Delete(job[r].id)
        /\ deleted' = deleted \cup {job[r].id}
        /\ Goto(r, "unlink")
        /\ UNCHANGED <<job, done>>
     \/ /\ rows[job[r].id] = NoRow \/ "db" \in Faults
        /\ Return(r)
        /\ UNCHANGED <<rows, deleted>>
  /\ UNCHANGED <<file, client, committed, contended, created, hit>>

\* Mutant: the last rendition is forgotten.
UnlinkAllButLast(r) ==
  /\ pc[r] = "unlink"
  /\ IF done[r] + 1 < NFiles THEN SetFile(r, NoFile) ELSE UNCHANGED file
  /\ IF done[r] + 1 = NFiles THEN Return(r) ELSE NextFile(r, "unlink", "idle")
  /\ UNCHANGED <<rows, client, history>>

\* delete_file, for delete_gif and for an upload that undoes itself.  Errors
\* are logged or ignored, and the next file is tried.
Unlink(r) ==
  /\ pc[r] = "unlink"
  /\ \/ SetFile(r, NoFile) /\ UNCHANGED history
     \/ Fails(r, "unlink") /\ UNCHANGED file
  /\ IF done[r] + 1 = NFiles THEN Return(r) ELSE NextFile(r, "unlink", "idle")
  /\ UNCHANGED <<rows, client>>

-----------------------------------------------------------------------------
(* GET /gifs/:id, GET /gifs/:id/file                                       *)

\* A response with rendition URLs carries the row's hash as their version.
GetUrl(x) ==
  /\ client[x] = NoFetch
  /\ \E i \in Live(rows) :
       client' = [client EXCEPT ![x] =
         [at |-> "url", id |-> i, version |-> rows[i].hash]]
  /\ UNCHANGED <<rows, file, pc, job, done, history>>

\* serve_file: load_viewable and get_renditions; the version is not looked at.
FindFile(x) ==
  /\ client[x].at = "url"
  /\ client' = [client EXCEPT ![x] =
       IF rows[@.id] = NoRow THEN NoFetch ELSE [@ EXCEPT !.at = "found"]]
  /\ UNCHANGED <<rows, file, pc, job, done, history>>

\* read_file: a missing file is a 404, anything else may be cached for a year.
ReadFile(x) ==
  /\ client[x].at = "found"
  /\ \E k \in 1..NFiles :
       LET bytes == file[client[x].id][k] IN
       client' = [client EXCEPT ![x] =
         IF bytes = NoFile
           THEN NoFetch
           ELSE [at |-> "cached", id |-> @.id, version |-> @.version,
                 bytes |-> bytes]]
  /\ UNCHANGED <<rows, file, pc, job, done, history>>

-----------------------------------------------------------------------------
(* Faults                                                                  *)

\* The client goes away and the handler is dropped at an await.  A write that
\* tokio::fs has handed to its thread pool is carried out all the same.
Drop(r) ==
  /\ pc[r] \notin {"idle", "detached"}
  /\ Fails(r, "drop")
  /\ IF pc[r] = "close"
       THEN Goto(r, "detached") /\ UNCHANGED <<job, done>>
       ELSE Return(r)
  /\ UNCHANGED <<rows, file, client>>

FinishDetached(r) ==
  /\ pc[r] = "detached"
  /\ FillFile(r)
  /\ Return(r)
  /\ UNCHANGED <<rows, client, history>>

\* The server process stops: its handlers are gone.
Halt ==
  /\ pc' = [r \in Requests |-> "idle"]
  /\ job' = [r \in Requests |-> NoJob]
  /\ done' = [r \in Requests |-> 0]
  /\ client' = [x \in Clients |->
       IF client[x].at = "found" THEN [client[x] EXCEPT !.at = "url"]
                                 ELSE client[x]]
  /\ hit' = [i \in Ids |->
       IF About(i) = {} THEN hit[i] ELSE hit[i] \cup {"crash"}]
  /\ UNCHANGED <<rows, file, committed, contended, created, deleted>>

\* It stops and is started again.  main only logs whether the bytes on disk
\* add up: nothing is repaired.
Restart ==
  /\ "crash" \in Faults
  /\ \E r \in Requests : pc[r] # "idle"
  /\ Halt

Upload(r) ==
  \/ StartUpload(r)
  \/ Lookup(r)
  \/ InsertRow(r)
  \/ Refuse(r)
  \/ OpenFile(r)
  \/ CloseFile(r)
  \/ UndoRow(r)
  \/ Answer(r)

Replace(r) ==
  \/ StartReplace(r)
  \/ ListFiles(r)
  \/ UpdateRow(r)
  \/ WriteTmp(r)
  \/ Rename(r)

Delete(r) ==
  \/ StartDelete(r)
  \/ DeleteRow(r)
  \/ Unlink(r)

Serve(x) ==
  \/ GetUrl(x)
  \/ FindFile(x)
  \/ ReadFile(x)

Next ==
  \/ \E r \in Requests :
       Upload(r) \/ Replace(r) \/ Delete(r) \/ Drop(r) \/ FinishDetached(r)
  \/ \E x \in Clients : Serve(x)
  \/ Restart

Spec == Init /\ [][Next]_vars

-----------------------------------------------------------------------------
AllFiles(i, S) == \A k \in 1..NFiles : file[i][k] \in S

WholeFiles == {Whole(c) : c \in Contents}

Quiet(i) == About(i) = {}

\* A path holds only bytes of a content that a commit gave to its gif:
\* "Nothing is written to disk until the row is committed" (upload.rs:140).
FilesWereCommitted ==
  \A i \in Ids, k \in 1..NFiles :
    file[i][k] # NoFile => file[i][k].of \in committed[i]

\* A gif that no handler is working on and whose row exists can be served in
\* every rendition, however uploads, replacements and deletions overlapped and
\* whichever of their file operations failed (upload.rs:167-173, files.rs:25).
LiveIsServable ==
  \A i \in Live(rows) :
    Quiet(i) /\ hit[i] \subseteq {"write", "unlink"} => AllFiles(i, WholeFiles)

\* If its handlers never overlapped, a gif at rest has exactly the files of
\* its row, whichever writes failed: none without a row, none half written.
RestingIsComplete ==
  \A i \in Ids :
    Quiet(i) /\ i \notin contended /\ hit[i] \subseteq {"write"} =>
      IF rows[i] = NoRow THEN AllFiles(i, {NoFile}) ELSE AllFiles(i, WholeFiles)

\* ... and, when nothing failed, they hold the content that the row names.
RestingIsUpToDate ==
  \A i \in Live(rows) :
    Quiet(i) /\ i \notin contended /\ hit[i] = {} =>
      AllFiles(i, {Whole(rows[i].hash)})

\* What a client was told is created stays until somebody deletes it, whatever
\* fails afterwards (upload.rs:158-176: the answer comes after the undo point).
CreatedStays ==
  created \subseteq Live(rows) \cup deleted

\* A client may be served half a file only while the upload that creates the
\* gif is writing it; a replacement is never seen half-way (files.rs:25-27).
\* A fault that leaves the half written file behind is excepted.
TornReadsOnlyDuringUpload ==
  [][\A x \in Clients :
       LET i == client[x].id IN
         client[x].at = "found" /\ client'[x].at = "cached"
             /\ ~ client'[x].bytes.whole /\ hit[i] \subseteq {"write"} =>
           \E r \in About(i) : /\ pc[r] \in {"close", "undo", "unlink"}
                                /\ job[r].kind = "upload"]_vars

-----------------------------------------------------------------------------
(* What a comment says and this code does not keep.                        *)

\* "caches ... miss instead of serving the old bytes" (upload.rs:185-187): the
\* bytes cached under a versioned URL are of that version.
VersionNamesBytes ==
  \A x \in Clients :
    client[x].at = "cached" => client[x].bytes.of = client[x].version
=============================================================================
