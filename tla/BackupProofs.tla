----------------------------- MODULE BackupProofs -----------------------------
(***************************************************************************)
(* What a backup that completed promises, and what a restore leaves, for   *)
(* any number of gifs, renditions and handlers and for every order in      *)
(* which the scripts and the server take their steps.                      *)
(*                                                                         *)
(* The argument: until a backup is complete nothing was restored, so the   *)
(* rows and the files are as GifStoreProofs has them.  A gif that no       *)
(* handler was about since tar began has not changed since, whenever it    *)
(* was read.  A gif that is in the dump and was not being uploaded then    *)
(* never will be.  And while the app is down only restore.sh writes.       *)
(***************************************************************************)
EXTENDS Backup, GifStoreProofs

\* Every handler under way has a job.
JobInv == \A r \in Requests : pc[r] # "idle" => job[r] \in Jobs

\* What the scripts can count on at each of their commands.
ScriptInv ==
  /\ InBackup => archive = NoArchive
  /\ script \in {"confirm", "extract", "drop", "create", "replay"} =>
       archive # NoArchive
  /\ script \in {"dump", "verify"} => toCopy = {}
  /\ script = "create" => db = "none"

\* Of a gif that no handler has been about the draft has what there is now.
DraftInv ==
  InBackup =>
    \A i \in Ids \ busy :
      /\ About(i) = {}
      /\ \A k \in 1..NFiles :
           <<i, k>> \notin toCopy => draft.files[i][k] = file[i][k]
      /\ script = "verify" => draft.rows[i] = rows[i]

\* No upload begins, or began, under the id of a row in the dump.
DumpedInv ==
  script = "verify" =>
    \A i \in Live(draft.rows) \ draft.inflight :
      committed[i] # {} /\ ~ Uploading(i)

\* With the app down the files are those that restore.sh put there.
AloneInv ==
  alone =>
    /\ ~ running
    /\ script = "extract" => file = Empty
    /\ script \in {"drop", "create", "replay"} => file = archive.files

BackupIInv ==
  /\ BackupTypeOK /\ JobInv
  /\ archive = NoArchive => IInv
  /\ ScriptInv /\ DraftInv /\ DumpedInv /\ AloneInv
  /\ QuietGifsAreArchived

-----------------------------------------------------------------------------
(* Steps of the handlers, also over rows and files that were restored      *)

\* A step of the handler of r with the job it has.
Works(r) ==
  /\ TypeOK'
  /\ Only(r)
  /\ pc'[r] = "idle" \/ job'[r] = job[r]
  /\ \A i \in Ids :
       /\ committed[i] \subseteq committed'[i]
       /\ i # job[r].id => rows'[i] = rows[i] /\ file'[i] = file[i]

\* Of a gif that no handler is about a step leaves everything as it is, and no
\* upload begins under an id that had a row.
Calm ==
  \A i \in Ids :
    /\ About(i) = {} => rows'[i] = rows[i] /\ file'[i] = file[i]
    /\ committed[i] # {} /\ ~ Uploading(i) =>
         committed'[i] # {} /\ ~ Uploading(i)'

\* A handler begins: nothing it is going to change has changed yet.
LEMMA StartTyped ==
  ASSUME TypeOK, JobInv, NEW r \in Requests,
         StartUpload(r) \/ StartReplace(r) \/ StartDelete(r)
  PROVE  /\ TypeOK' /\ JobInv'
         /\ UNCHANGED <<rows, file, committed>>
         /\ Only(r)
         /\ job'[r].kind = "upload" => committed[job'[r].id] = {}
<1>1. PICK kind \in Kinds, i \in Ids, u \in Users, c \in Contents,
           label \in Labels :
        /\ Start(r, kind, i, u, c, label)
        /\ kind = "upload" => Fresh(i)
  <2>1. \A i \in Live(rows) : /\ i \in Ids
                              /\ rows[i].uploader \in Users
                              /\ rows[i].hash \in Contents
    BY DEF TypeOK, Tables, Row, Live
  <2>2. CASE StartUpload(r)
    BY <2>2 DEF StartUpload, Kinds, Labels
  <2>3. CASE StartReplace(r)
    BY <2>1, <2>3 DEF StartReplace, Kinds, Labels
  <2>4. CASE StartDelete(r)
    BY <2>1, <2>4 DEF StartDelete, Kinds, Labels
  <2> QED
    BY <2>2, <2>3, <2>4
<1>2. [kind |-> kind, id |-> i, uploader |-> u, hash |-> c] \in Jobs
  BY DEF Jobs
<1>3. /\ job'[r] = [kind |-> kind, id |-> i, uploader |-> u, hash |-> c]
      /\ Only(r)
      /\ UNCHANGED <<rows, file, committed>>
  BY <1>1 DEF TypeOK, Start, Goto, Only
<1>4. TypeOK'
  BY <1>1, <1>2 DEF TypeOK, Start, Goto
<1>5. JobInv'
  BY <1>2, <1>3 DEF JobInv, Only
<1> QED
  BY <1>1, <1>3, <1>4, <1>5 DEF Fresh

\* The handler has the same job after the step, or none.
LEMMA ReturnTyped ==
  ASSUME TypeOK, NEW r \in Requests, Return(r)
  PROVE  /\ pc' \in [Requests -> Labels]
         /\ job' \in [Requests -> Jobs \cup {NoJob}]
         /\ done' \in [Requests -> 0..(NFiles - 1)]
         /\ pc'[r] = "idle" /\ Only(r)
BY GifStoreAssumption DEF TypeOK, Return, Goto, Labels, Only

\* A handler that turns to something else keeps its job.
LEMMA GotoTyped ==
  ASSUME TypeOK, NEW r \in Requests, NEW label \in Labels, Goto(r, label),
         UNCHANGED job,
         done' \in {done, [done EXCEPT ![r] = 0]}
  PROVE  /\ pc' \in [Requests -> Labels]
         /\ job' \in [Requests -> Jobs \cup {NoJob}]
         /\ done' \in [Requests -> 0..(NFiles - 1)]
         /\ Only(r)
BY GifStoreAssumption DEF TypeOK, Goto, Only

\* What a handler changes that answers, goes on with its work or is dropped.
LEMMA WorkTyped ==
  ASSUME TypeOK, JobInv, NEW r \in Requests,
         \/ Lookup(r) \/ InsertRow(r) \/ Refuse(r) \/ OpenFile(r)
         \/ CloseFile(r) \/ UndoRow(r) \/ Answer(r)
         \/ ListFiles(r) \/ UpdateRow(r) \/ WriteTmp(r) \/ Rename(r)
         \/ DeleteRow(r) \/ Unlink(r) \/ Drop(r) \/ FinishDetached(r)
  PROVE  pc[r] # "idle" /\ Works(r)
<1> USE GifStoreAssumption
<1>1. /\ pc[r] # "idle" /\ pc[r] \in Labels
      /\ job[r] \in Jobs /\ job[r].id \in Ids /\ job[r].hash \in Contents
      /\ job[r].uploader \in Users
  <2>1. pc[r] # "idle"
    BY DEF Lookup, InsertRow, Refuse, OpenFile, CloseFile, UndoRow, Answer,
           ListFiles, UpdateRow, WriteTmp, Rename, DeleteRow, Unlink, Drop,
           FinishDetached
  <2> QED
    BY <2>1 DEF JobInv, Jobs, TypeOK
<1>2. /\ {Partial(job[r].hash), Whole(job[r].hash), NoFile, TheFile(r)}
           \subseteq Files \cup {NoFile}
      /\ TypeOK
  <2>1. TheFile(r) \in Files \cup {NoFile}
    BY <1>1 DEF TypeOK, TheFile
  <2> QED
    BY <1>1, <2>1, BytesFacts
\* The files: at most one path of its gif changes.
<1>3. /\ file' \in [Ids -> [1..NFiles -> Files \cup {NoFile}]]
      /\ \A i \in Ids : i # job[r].id => file'[i] = file[i]
  <2>1. UNCHANGED file \/ \E v \in Files \cup {NoFile} : SetFile(r, v)
    BY <1>2 DEF Lookup, InsertRow, Refuse, OpenFile, CloseFile, UndoRow, Answer,
                ListFiles, UpdateRow, WriteTmp, Rename, DeleteRow, Unlink, Drop,
                FinishDetached, FillFile
  <2>2. CASE UNCHANGED file
    BY <2>2 DEF TypeOK
  <2>3. ASSUME NEW v \in Files \cup {NoFile}, SetFile(r, v)
        PROVE  <1>3
    BY <1>1, <2>3, FileFacts DEF TypeOK, SetFile
  <2> QED
    BY <2>1, <2>2, <2>3
\* The rows: at most its gif's.
<1>4. /\ rows' \in Tables
      /\ \A i \in Ids : i # job[r].id => rows'[i] = rows[i]
  <2>1. \/ UNCHANGED rows
        \/ \E w \in Row \cup {NoRow} : rows' = [rows EXCEPT ![job[r].id] = w]
    <3>1. [uploader |-> job[r].uploader, hash |-> job[r].hash] \in Row
      BY <1>1 DEF Row
    <3>2. rows[job[r].id] # NoRow =>
            [uploader |-> rows[job[r].id].uploader, hash |-> job[r].hash] \in Row
      BY <1>1 DEF TypeOK, Tables, Row
    <3> QED
      BY <3>1, <3>2
      DEF Lookup, InsertRow, Refuse, OpenFile, CloseFile, UndoRow, Answer,
          ListFiles, UpdateRow, WriteTmp, Rename, DeleteRow, Unlink, Drop,
          FinishDetached, Accounting!Upload, Accounting!Replace,
          Accounting!Delete
  <2> QED
    BY <1>1, <2>1 DEF TypeOK, Tables
\* What it is about.
<1>5. /\ pc' \in [Requests -> Labels]
      /\ job' \in [Requests -> Jobs \cup {NoJob}]
      /\ done' \in [Requests -> 0..(NFiles - 1)]
      /\ Only(r)
      /\ pc'[r] = "idle" \/ job'[r] = job[r]
  <2>1. \/ Return(r)
        \/ \E label \in Labels : /\ Goto(r, label) /\ UNCHANGED job
                                 /\ done' \in {done, [done EXCEPT ![r] = 0]}
        \/ \E again, after \in Labels : NextFile(r, again, after)
    BY DEF Lookup, InsertRow, Refuse, OpenFile, CloseFile, UndoRow, Answer,
           ListFiles, UpdateRow, WriteTmp, Rename, DeleteRow, Unlink, Drop,
           FinishDetached, Labels
  <2>2. CASE Return(r)
    BY <2>2, ReturnTyped
  <2>3. ASSUME NEW label \in Labels, Goto(r, label), UNCHANGED job,
               done' \in {done, [done EXCEPT ![r] = 0]}
        PROVE  <1>5
    BY <2>3, GotoTyped
  <2>4. ASSUME NEW again \in Labels, NEW after \in Labels,
               NextFile(r, again, after)
        PROVE  <1>5
    BY <2>4, NextFacts DEF TypeOK
  <2> QED
    BY <2>1, <2>2, <2>3, <2>4
\* What clients were told, and the history.
<1>6. /\ UNCHANGED <<client, contended>>
      /\ created' \subseteq Ids /\ deleted' \subseteq Ids
      /\ hit' \in [Ids -> SUBSET Faults]
      /\ committed' \in [Ids -> SUBSET Contents]
      /\ \A i \in Ids : committed[i] \subseteq committed'[i]
  <2>1. UNCHANGED <<client, contended>>
    BY DEF Lookup, InsertRow, Refuse, OpenFile, CloseFile, UndoRow, Answer,
           ListFiles, UpdateRow, WriteTmp, Rename, DeleteRow, Unlink, Drop,
           FinishDetached, Fails, history
  <2>2. created' \subseteq Ids /\ deleted' \subseteq Ids
    <3>1. /\ created' \in {created, created \cup {job[r].id}}
          /\ deleted' \in {deleted, deleted \cup {job[r].id}}
      BY DEF Lookup, InsertRow, Refuse, OpenFile, CloseFile, UndoRow, Answer,
             ListFiles, UpdateRow, WriteTmp, Rename, DeleteRow, Unlink, Drop,
             FinishDetached, Fails, history
    <3> QED
      BY <1>1, <3>1 DEF TypeOK
  <2>3. hit' \in [Ids -> SUBSET Faults]
    <3>1. UNCHANGED hit \/ \E f \in Faults : Fails(r, f)
      BY DEF Lookup, InsertRow, Refuse, OpenFile, CloseFile, UndoRow, Answer,
             ListFiles, UpdateRow, WriteTmp, Rename, DeleteRow, Unlink, Drop,
             FinishDetached, history, Fails
    <3>2. hit \in [Ids -> SUBSET Faults]
      BY DEF TypeOK
    <3>3. ASSUME NEW f \in Faults, Fails(r, f) PROVE hit' \in [Ids -> SUBSET Faults]
      <4>1. hit' = [hit EXCEPT ![job[r].id] = @ \cup {f}]
        BY <3>3 DEF Fails
      <4> QED
        BY <1>1, <3>2, <4>1
    <3> QED
      BY <3>1, <3>2, <3>3
  <2>4. /\ committed' \in [Ids -> SUBSET Contents]
        /\ \A i \in Ids : committed[i] \subseteq committed'[i]
    <3>1. UNCHANGED committed \/ Committed(r)
      BY DEF Lookup, InsertRow, Refuse, OpenFile, CloseFile, UndoRow, Answer,
             ListFiles, UpdateRow, WriteTmp, Rename, DeleteRow, Unlink, Drop,
             FinishDetached, history, Fails
    <3>2. committed \in [Ids -> SUBSET Contents]
      BY DEF TypeOK
    <3>3. CASE Committed(r)
      BY <1>1, <3>2, <3>3 DEF Committed
    <3> QED
      BY <3>1, <3>2, <3>3
  <2> QED
    BY <2>1, <2>2, <2>3, <2>4
<1>7. TypeOK'
  BY <1>3, <1>4, <1>5, <1>6 DEF TypeOK
<1> QED
  BY <1>1, <1>3, <1>4, <1>5, <1>6, <1>7 DEF Works

\* A step of the server keeps the types, and leaves quiet gifs alone.
LEMMA NextTyped ==
  ASSUME TypeOK, JobInv, Next
  PROVE  TypeOK' /\ JobInv' /\ Calm
<1>1. ASSUME NEW r \in Requests,
             StartUpload(r) \/ StartReplace(r) \/ StartDelete(r)
      PROVE  TypeOK' /\ JobInv' /\ Calm
  BY <1>1, StartTyped DEF Only, Uploading, About, Calm
<1>2. ASSUME NEW r \in Requests, pc[r] # "idle", Works(r)
      PROVE  TypeOK' /\ JobInv' /\ Calm
  BY <1>2 DEF Works, Only, JobInv, Uploading, About, Calm
<1>3. ASSUME NEW x \in Clients, Serve(x)
      PROVE  TypeOK' /\ JobInv' /\ Calm
  <2>1. UNCHANGED <<rows, file, pc, job, done, history>>
    BY <1>3 DEF Serve, GetUrl, FindFile, ReadFile
  <2> QED
    BY <1>3, <2>1, ServeTyped DEF TypeOK, JobInv, Uploading, About, history, Calm
<1>4. CASE Restart
  BY <1>4, HaltTypeOK DEF Restart, Halt, JobInv, Uploading, About, Calm
<1> QED
  BY <1>1, <1>2, <1>3, <1>4, WorkTyped DEF Next, Upload, Replace, Delete

\* Commands of the scripts that leave the rows, the files and the handlers
\* alone.
LEMMA SameVars ==
  ASSUME TypeOK, JobInv, UNCHANGED vars
  PROVE  /\ TypeOK' /\ JobInv'
         /\ IInv => IInv'
         /\ \A i : About(i)' = About(i) /\ Uploading(i)' = Uploading(i)
<1>1. TypeOK' /\ JobInv'
  BY DEF vars, history, TypeOK, JobInv
<1>2. IInv => IInv'
  BY NextIInv
<1>3. \A i : About(i)' = About(i) /\ Uploading(i)' = Uploading(i)
  BY DEF vars, About, Uploading
<1> QED
  BY <1>1, <1>2, <1>3

\* Commands that change rows or files change no handler.
LEMMA SameHandlers ==
  ASSUME TypeOK, JobInv, rows' \in Tables,
         file' \in [Ids -> [1..NFiles -> Files \cup {NoFile}]],
         UNCHANGED <<pc, job, done, client, history>>
  PROVE  TypeOK' /\ JobInv'
BY DEF history, TypeOK, JobInv

-----------------------------------------------------------------------------
\* Nothing is stored and no script was ever run.
THEOREM BackupInitIInv == BackupInit => BackupIInv
<1> SUFFICES ASSUME BackupInit PROVE BackupIInv
  OBVIOUS
<1>1. IInv /\ TypeOK /\ JobInv
  BY InitIInv DEF BackupInit, IInv, StageInv, JobInv
<1>2. Blank \in Archives
  BY GifStoreAssumption
  DEF Blank, Archives, Storages, Empty, NoRows, Tables
<1>3. BackupTypeOK
  BY <1>1, <1>2 DEF BackupInit, BackupTypeOK, Init, Steps, Paths
<1> QED
  BY <1>1, <1>3
  DEF BackupInit, BackupIInv, ScriptInv, DraftInv, DumpedInv, AloneInv,
      InBackup, QuietGifsAreArchived

\* A handler takes a step beside the scripts.
LEMMA HandleBackup ==
  ASSUME BackupIInv, Handle
  PROVE  BackupIInv'
<1>1. /\ running /\ ~ alone /\ db = "schema"
      /\ connected' = TRUE /\ UNCHANGED <<tools, db, running, displaced>>
      /\ TypeOK' /\ JobInv' /\ Calm
  BY NextTyped DEF BackupIInv, BackupTypeOK, AloneInv, Handle
<1>2. busy' \subseteq Ids
  BY DEF BackupIInv, BackupTypeOK, Handle
<1>3. BackupTypeOK'
  BY <1>1, <1>2 DEF BackupIInv, BackupTypeOK, tools
<1>4. (archive = NoArchive => IInv)'
  BY <1>1, NextIInv DEF BackupIInv, Handle, tools
<1>5. ScriptInv' /\ AloneInv' /\ QuietGifsAreArchived'
  BY <1>1
  DEF BackupIInv, ScriptInv, AloneInv, QuietGifsAreArchived, tools, InBackup
<1>6. DraftInv'
  <2> SUFFICES ASSUME InBackup, NEW i \in Ids \ busy'
               PROVE  DraftInv!2!(i)'
    BY <1>1 DEF DraftInv, tools, InBackup
  <2>1. i \notin busy /\ About(i)' = {}
    BY DEF Handle
  <2> QED
    BY <1>1, <2>1 DEF BackupIInv, DraftInv, tools, Calm
<1>7. DumpedInv'
  <2>1. \A i \in Live(draft.rows) : i \in Ids
    BY DEF Live
  <2> QED
    BY <1>1, <2>1 DEF BackupIInv, DumpedInv, tools, Calm, Live
<1> QED
  BY <1>1, <1>3, <1>4, <1>5, <1>6, <1>7 DEF BackupIInv

\* The app stops, whatever its handlers and the scripts are at.
LEMMA StopAppBackup ==
  ASSUME BackupIInv, StopApp
  PROVE  BackupIInv'
<1>1. /\ UNCHANGED <<tools, db, busy, rows, file, committed>>
      /\ running' = FALSE /\ connected' = FALSE /\ displaced' = FALSE
      /\ \A r \in Requests : pc'[r] = "idle"
  BY DEF StopApp, Halt
<1>2. TypeOK' /\ JobInv'
  BY <1>1, HaltTypeOK, BackupAssumption
  DEF BackupIInv, BackupTypeOK, StopApp, JobInv
<1>3. BackupTypeOK'
  BY <1>1, <1>2 DEF BackupIInv, BackupTypeOK, tools
<1>4. (archive = NoArchive => IInv)'
  BY <1>1, HaltIInv, BackupAssumption DEF BackupIInv, StopApp, tools
<1>5. \A i : About(i)' = {} /\ ~ Uploading(i)'
  BY <1>1 DEF About, Uploading
<1>6. ScriptInv' /\ AloneInv' /\ QuietGifsAreArchived'
  BY <1>1
  DEF BackupIInv, ScriptInv, AloneInv, QuietGifsAreArchived, tools, InBackup
<1>7. DraftInv' /\ DumpedInv'
  BY <1>1, <1>5 DEF BackupIInv, DraftInv, DumpedInv, tools, InBackup, Live
<1> QED
  BY <1>2, <1>3, <1>4, <1>6, <1>7 DEF BackupIInv

\* A read, an idle connection that is closed, and the start of the app.
LEMMA ServiceBackup ==
  ASSUME BackupIInv, Connect \/ CloseIdle \/ StartApp
  PROVE  BackupIInv'
<1>1. /\ UNCHANGED <<vars, script, toCopy, draft, archive, busy>>
      /\ UNCHANGED <<rows, file, committed, pc, displaced>>
      /\ alone' => alone /\ running' = running
      /\ TypeOK /\ JobInv
  BY DEF Connect, CloseIdle, StartApp, tools, vars, history, BackupIInv,
         BackupTypeOK
<1>2. /\ TypeOK' /\ JobInv' /\ (IInv => IInv')
      /\ \A i : About(i)' = About(i) /\ Uploading(i)' = Uploading(i)
  BY <1>1, SameVars
<1>3. BackupTypeOK'
  <2>1. /\ {running', connected', displaced', alone'} \subseteq BOOLEAN
        /\ connected' \/ displaced' => running'
        /\ db' \in {"schema", "none", "empty"}
        /\ db' # "schema" => rows' = NoRows
    <3>1. CASE Connect \/ CloseIdle
      <4>1. /\ UNCHANGED <<db, running, displaced, alone, rows>>
            /\ connected' \in BOOLEAN /\ (connected' => running \/ connected)
        BY <1>1, <3>1
        DEF BackupIInv, BackupTypeOK, Connect, CloseIdle, tools
      <4> QED
        BY <4>1 DEF BackupIInv, BackupTypeOK
    <3>2. CASE StartApp
      BY <1>1, <3>2 DEF BackupIInv, BackupTypeOK, StartApp
    <3> QED
      BY <3>1, <3>2
  <2>2. \A r \in Requests : pc'[r] # "idle" => connected'
    BY <1>1
    DEF BackupIInv, BackupTypeOK, Connect, CloseIdle, StartApp, tools
  <2> QED
    BY <1>1, <1>2, <2>1, <2>2 DEF BackupIInv, BackupTypeOK
<1>4. ScriptInv' /\ AloneInv' /\ QuietGifsAreArchived'
  BY <1>1
  DEF BackupIInv, ScriptInv, AloneInv, QuietGifsAreArchived, InBackup, Connect,
      CloseIdle, StartApp
<1>5. DraftInv' /\ DumpedInv'
  BY <1>1, <1>2 DEF BackupIInv, DraftInv, DumpedInv, InBackup, Live
<1> QED
  BY <1>1, <1>2, <1>3, <1>4, <1>5 DEF BackupIInv

-----------------------------------------------------------------------------
\* A backup begins: what the handlers are about is noted.
LEMMA StartBackupBackup ==
  ASSUME BackupIInv, StartBackup
  PROVE  BackupIInv'
<1>1. /\ UNCHANGED <<vars, archive, alone, service, db, running, connected,
                     displaced, rows, file, pc>>
      /\ script' = "tar" /\ toCopy' = Paths /\ draft' = Blank
      /\ busy' = {i \in Ids : About(i) # {}}
      /\ archive = NoArchive
      /\ TypeOK /\ JobInv
  BY DEF StartBackup, vars, service, BackupIInv, BackupTypeOK
<1>2. /\ TypeOK' /\ JobInv' /\ (IInv => IInv')
      /\ \A i : About(i)' = About(i) /\ Uploading(i)' = Uploading(i)
  BY <1>1, SameVars
<1>3. BackupTypeOK'
  <2>1. Blank \in Archives
    BY GifStoreAssumption
    DEF Blank, Archives, Storages, Empty, NoRows, Tables
  <2> QED
    BY <1>1, <1>2, <2>1 DEF BackupIInv, BackupTypeOK, Steps
<1>4. ScriptInv' /\ AloneInv' /\ QuietGifsAreArchived' /\ DumpedInv'
  BY <1>1
  DEF BackupIInv, ScriptInv, AloneInv, QuietGifsAreArchived, DumpedInv, InBackup
<1>5. DraftInv'
  BY <1>1, <1>2 DEF DraftInv, InBackup, Paths
<1> QED
  BY <1>1, <1>2, <1>3, <1>4, <1>5 DEF BackupIInv

\* tar reads one file.
LEMMA CopyFileBackup ==
  ASSUME BackupIInv, CopyFile
  PROVE  BackupIInv'
<1>1. PICK p \in toCopy :
        /\ draft' = [draft EXCEPT !.files[p[1]][p[2]] = file[p[1]][p[2]]]
        /\ toCopy' = toCopy \ {p}
        /\ script' = IF toCopy = {p} THEN "dump" ELSE "tar"
  BY DEF CopyFile
<1>2. /\ UNCHANGED <<vars, archive, alone, service, busy, db, running,
                     connected, displaced, rows, file, pc>>
      /\ script = "tar" /\ archive = NoArchive /\ InBackup
      /\ TypeOK /\ JobInv /\ draft \in Archives
      /\ toCopy \subseteq Paths /\ p \in Ids \X (1..NFiles)
  BY DEF CopyFile, vars, service, BackupIInv, BackupTypeOK, ScriptInv, InBackup,
         Paths
<1>3. /\ TypeOK' /\ JobInv' /\ (IInv => IInv')
      /\ \A i : About(i)' = About(i) /\ Uploading(i)' = Uploading(i)
  BY <1>2, SameVars
<1>4. /\ draft' \in Archives
      /\ \A i \in Ids, k \in 1..NFiles :
           draft'.files[i][k] = IF <<i, k>> = p THEN file[i][k]
                                                ELSE draft.files[i][k]
  <2>1. PICK j \in Ids, n \in 1..NFiles : p = <<j, n>>
    BY <1>2
  <2>2. draft.files \in Storages /\ file \in Storages
    BY <1>2 DEF Archives, Storages, TypeOK
  <2>3. [draft.files EXCEPT ![j][n] = file[j][n]] \in Storages
    BY <2>2 DEF Storages
  <2>4. draft' = [draft EXCEPT !.files =
                    [draft.files EXCEPT ![j][n] = file[j][n]]]
    BY <1>1, <1>2, <2>1 DEF Archives
  <2>5. draft'.files = [draft.files EXCEPT ![j][n] = file[j][n]]
    BY <1>2, <2>4 DEF Archives
  <2>6. draft' \in Archives
    BY <1>2, <2>3, <2>4 DEF Archives
  <2>7. \A i \in Ids, k \in 1..NFiles :
          draft'.files[i][k] = IF i = j /\ k = n THEN file[i][k]
                                                 ELSE draft.files[i][k]
    <3>1. \A v : \A S \in Storages : \A i \in Ids, k \in 1..NFiles :
            [S EXCEPT ![j][n] = v][i][k] = IF i = j /\ k = n THEN v ELSE S[i][k]
      BY DEF Storages
    <3> QED
      BY <2>2, <2>5, <3>1
  <2> QED
    BY <2>1, <2>6, <2>7
<1>5. BackupTypeOK'
  BY <1>1, <1>2, <1>3, <1>4 DEF BackupIInv, BackupTypeOK, Steps
<1>6. ScriptInv' /\ AloneInv' /\ QuietGifsAreArchived' /\ DumpedInv'
  BY <1>1, <1>2
  DEF BackupIInv, ScriptInv, AloneInv, QuietGifsAreArchived, DumpedInv, InBackup
<1>7. DraftInv'
  BY <1>1, <1>2, <1>3, <1>4 DEF BackupIInv, DraftInv, InBackup
<1> QED
  BY <1>2, <1>3, <1>5, <1>6, <1>7 DEF BackupIInv

\* pg_dump, once tar is done.
LEMMA DumpBackup ==
  ASSUME BackupIInv, Dump
  PROVE  BackupIInv'
<1>1. /\ UNCHANGED <<vars, toCopy, archive, alone, service, busy, db, running,
                     connected, displaced, rows, file, pc, committed>>
      /\ script = "dump" /\ script' = "verify" /\ toCopy = {}
      /\ archive = NoArchive /\ InBackup
      /\ TypeOK /\ JobInv /\ IInv /\ draft \in Archives
  BY DEF Dump, vars, history, service, BackupIInv, BackupTypeOK, ScriptInv,
         InBackup
<1>2. /\ TypeOK' /\ JobInv' /\ IInv'
      /\ \A i : About(i)' = About(i) /\ Uploading(i)' = Uploading(i)
  BY <1>1, SameVars
<1>3. /\ draft' \in Archives
      /\ draft'.files = draft.files /\ draft'.rows = rows
      /\ draft'.inflight = {i \in Ids : Uploading(i)}
  BY <1>1 DEF Dump, Archives, TypeOK
<1>4. BackupTypeOK'
  BY <1>1, <1>2, <1>3 DEF BackupIInv, BackupTypeOK, Steps
<1>5. ScriptInv' /\ AloneInv' /\ QuietGifsAreArchived'
  BY <1>1
  DEF BackupIInv, ScriptInv, AloneInv, QuietGifsAreArchived, InBackup
<1>6. DraftInv'
  BY <1>1, <1>2, <1>3 DEF BackupIInv, DraftInv, InBackup
<1>7. DumpedInv'
  <2>1. \A i \in Live(rows) : i \in Ids /\ committed[i] # {}
    BY <1>1 DEF IInv, CommitInv, Live
  <2> QED
    BY <1>1, <1>2, <1>3, <2>1 DEF DumpedInv
<1> QED
  BY <1>2, <1>4, <1>5, <1>6, <1>7 DEF BackupIInv

\* The backup is complete.
LEMMA VerifyBackup ==
  ASSUME BackupIInv, Verify
  PROVE  BackupIInv'
<1>1. /\ UNCHANGED <<vars, toCopy, alone, service, db, running, connected,
                     displaced, rows, file, pc>>
      /\ script = "verify" /\ script' = "none" /\ toCopy = {} /\ busy' = {}
      /\ draft' = Blank /\ InBackup
      /\ TypeOK /\ JobInv /\ IInv /\ draft \in Archives
  BY DEF Verify, vars, service, BackupIInv, BackupTypeOK, ScriptInv, InBackup
<1>2. /\ TypeOK' /\ JobInv' /\ IInv'
  BY <1>1, SameVars
<1>3. PICK m \in BOOLEAN :
        archive' = [draft EXCEPT !.matched = m, !.quiet = Undisturbed]
  BY DEF Verify, Matches
<1>4. /\ archive' \in Archives
      /\ archive'.files = draft.files /\ archive'.rows = draft.rows
      /\ archive'.quiet = Undisturbed
  BY <1>1, <1>3 DEF Archives, Undisturbed
<1>5. BackupTypeOK'
  <2>1. Blank \in Archives
    BY GifStoreAssumption
    DEF Blank, Archives, Storages, Empty, NoRows, Tables
  <2> QED
    BY <1>1, <1>2, <1>4, <2>1 DEF BackupIInv, BackupTypeOK, Steps
<1>6. ScriptInv' /\ AloneInv' /\ DraftInv' /\ DumpedInv'
  BY <1>1
  DEF BackupIInv, ScriptInv, AloneInv, DraftInv, DumpedInv, InBackup
<1>7. QuietGifsAreArchived'
  <2> SUFFICES ASSUME NEW i \in Undisturbed, NEW k \in 1..NFiles
               PROVE  draft.files[i][k] = IF draft.rows[i] = NoRow
                        THEN NoFile ELSE Whole(draft.rows[i].hash)
    BY <1>4 DEF QuietGifsAreArchived, Whole
  <2>1. /\ i \in Ids /\ i \notin contended /\ hit[i] = {} /\ About(i) = {}
        /\ draft.files[i][k] = file[i][k] /\ draft.rows[i] = rows[i]
    BY <1>1 DEF BackupIInv, DraftInv, Undisturbed
  <2>2. \A r \in Requests : ~ Removes(r, i, k) /\ ~ Writes(r, i, k)
    BY <2>1 DEF About, Removes, Writes
  <2>3. rows[i] = NoRow => file[i][k] = NoFile
    BY <1>1, <2>1, <2>2 DEF IInv, GoneInv
  <2>4. rows[i] # NoRow => file[i][k] = Whole(rows[i].hash)
    BY <1>1, <2>1, <2>2 DEF IInv, LatestInv
  <2> QED
    BY <2>1, <2>3, <2>4
<1> QED
  BY <1>2, <1>5, <1>6, <1>7 DEF BackupIInv

-----------------------------------------------------------------------------
\* restore.sh finds nobody connected, and the operator declines or a command
\* fails.
LEMMA ConfirmBackup ==
  ASSUME BackupIInv, CheckConnections \/ Abort
  PROVE  BackupIInv'
<1>1. /\ UNCHANGED <<vars, archive, alone, service, db, running, connected,
                     displaced, rows, file, pc>>
      /\ script' \in {"confirm", "none"}
      /\ script' = "confirm" => archive # NoArchive
      /\ toCopy' \in {toCopy, {}} /\ draft' \in {draft, Blank}
      /\ busy' \in {busy, {}}
      /\ TypeOK /\ JobInv
  BY DEF CheckConnections, Abort, vars, service, BackupIInv, BackupTypeOK
<1>2. /\ TypeOK' /\ JobInv' /\ (IInv => IInv')
  BY <1>1, SameVars
<1>3. BackupTypeOK'
  <2>1. Blank \in Archives
    BY GifStoreAssumption
    DEF Blank, Archives, Storages, Empty, NoRows, Tables
  <2> QED
    BY <1>1, <1>2, <2>1 DEF BackupIInv, BackupTypeOK, Steps
<1>4. /\ ScriptInv' /\ AloneInv' /\ DraftInv' /\ DumpedInv'
      /\ QuietGifsAreArchived'
  BY <1>1
  DEF BackupIInv, ScriptInv, AloneInv, DraftInv, DumpedInv, InBackup,
      QuietGifsAreArchived
<1> QED
  BY <1>1, <1>2, <1>3, <1>4 DEF BackupIInv

\* The storage is moved away, and the archive's files are extracted.
LEMMA FilesBackup ==
  ASSUME BackupIInv, MoveAside \/ Extract
  PROVE  BackupIInv'
<1>1. /\ UNCHANGED <<rows, pc, job, done, client, history, toCopy, draft,
                     archive, db, running, connected, busy>>
      /\ script \in {"confirm", "extract"}
      /\ archive # NoArchive /\ archive \in Archives
      /\ TypeOK /\ JobInv
  BY DEF MoveAside, Extract, service, BackupIInv, BackupTypeOK, ScriptInv
<1>2. /\ file' \in Storages
      /\ script' \in {"extract", "drop", "none"}
      /\ displaced' \in {displaced, running} /\ alone' \in BOOLEAN
      /\ alone' => ~ running
      /\ alone' /\ script' = "extract" => file' = Empty
      /\ alone' /\ script' = "drop" => file' = archive.files
  <2>1. file \in Storages /\ archive.files \in Storages /\ Empty \in Storages
    BY <1>1 DEF TypeOK, Storages, Archives, Empty
  <2>2. running \in BOOLEAN /\ displaced \in BOOLEAN /\ alone \in BOOLEAN
    BY DEF BackupIInv, BackupTypeOK
  <2>3. CASE MoveAside
    BY <2>1, <2>2, <2>3 DEF MoveAside
  <2>4. CASE Extract
    <3>1. PICK S \in SUBSET Names(archive.files) :
            /\ file' = [i \in Ids |-> [k \in 1..NFiles |->
                 IF <<i, k>> \in S THEN archive.files[i][k] ELSE file[i][k]]]
            /\ script' = IF S = Names(archive.files) THEN "drop" ELSE "none"
      BY <2>4 DEF Extract
    <3>2. file' \in Storages
      BY <2>1, <3>1 DEF Storages
    <3>3. /\ UNCHANGED <<alone, displaced>> /\ script = "extract"
          /\ alone => ~ running /\ file = Empty
      BY <2>4 DEF Extract, service, BackupIInv, AloneInv
    <3>4. ASSUME alone, script' = "drop"
          PROVE  file' = archive.files
      <4>1. S = Names(archive.files)
        BY <3>1, <3>4
      <4>2. \A i \in Ids, k \in 1..NFiles :
              (IF <<i, k>> \in S THEN archive.files[i][k] ELSE file[i][k])
                = archive.files[i][k]
        <5> SUFFICES ASSUME NEW i \in Ids, NEW k \in 1..NFiles,
                            archive.files[i][k] # NoFile
                     PROVE  <<i, k>> \in S
          <6>1. file = Empty
            BY <3>3, <3>4
          <6>2. \A i \in Ids, k \in 1..NFiles : file[i][k] = NoFile
            BY <6>1 DEF Empty
          <6> QED
            BY <6>2
        <5>1. PICK f : f = archive.files
          OBVIOUS
        <5>2. <<i, k>> \in Paths
          BY DEF Paths
        <5> QED
          BY <4>1, <5>1, <5>2 DEF Names
      <4>3. file' = [i \in Ids |-> [k \in 1..NFiles |-> archive.files[i][k]]]
        BY <3>1, <4>2
      <4> QED
        BY <2>1, <4>3 DEF Storages
    <3> QED
      BY <2>2, <3>1, <3>2, <3>3, <3>4
  <2> QED
    BY <2>3, <2>4
<1>3. TypeOK' /\ JobInv'
  <2>1. rows' \in Tables
    BY <1>1 DEF TypeOK
  <2> QED
    BY <1>1, <1>2, <2>1, SameHandlers DEF Storages
<1>4. BackupTypeOK'
  <2>1. /\ {running', connected', displaced', alone'} \subseteq BOOLEAN
        /\ connected' \/ displaced' => running'
    BY <1>1, <1>2 DEF BackupIInv, BackupTypeOK
  <2> QED
    BY <1>1, <1>2, <1>3, <2>1 DEF BackupIInv, BackupTypeOK, Steps
<1>5. /\ ScriptInv' /\ AloneInv' /\ DraftInv' /\ DumpedInv'
      /\ QuietGifsAreArchived'
  BY <1>1, <1>2
  DEF BackupIInv, ScriptInv, AloneInv, DraftInv, DumpedInv, InBackup,
      QuietGifsAreArchived
<1> QED
  BY <1>1, <1>3, <1>4, <1>5 DEF BackupIInv

\* The database is dropped, created and filled.
LEMMA RowsBackup ==
  ASSUME BackupIInv, DropDatabase \/ CreateDatabase \/ Replay
  PROVE  BackupIInv'
<1>1. /\ UNCHANGED <<file, pc, job, done, client, history, toCopy, draft,
                     archive, alone, running, connected, displaced, busy>>
      /\ script \in {"drop", "create", "replay"}
      /\ archive # NoArchive /\ archive \in Archives
      /\ TypeOK /\ JobInv
  BY DEF DropDatabase, CreateDatabase, Replay, vars, service, BackupIInv,
         BackupTypeOK, ScriptInv
<1>2. /\ rows' \in Tables
      /\ db' \in {"schema", "none", "empty"} /\ (db' # "schema" => rows' = NoRows)
      /\ script' \in {"none", "create", "replay"}
      /\ script' = "create" => db' = "none"
  <2>1. archive.rows \in Tables /\ rows \in Tables /\ NoRows \in Tables
    BY <1>1 DEF Archives, TypeOK, NoRows, Tables
  <2>2. /\ db \in {"schema", "none", "empty"}
        /\ db # "schema" => rows = NoRows
        /\ script = "create" => db = "none"
    BY DEF BackupIInv, BackupTypeOK, ScriptInv
  <2> QED
    BY <2>1, <2>2 DEF DropDatabase, CreateDatabase, Replay, vars
<1>3. TypeOK' /\ JobInv'
  <2>1. file' \in [Ids -> [1..NFiles -> Files \cup {NoFile}]]
    BY <1>1 DEF TypeOK
  <2> QED
    BY <1>1, <1>2, <2>1, SameHandlers
<1>4. BackupTypeOK'
  BY <1>1, <1>2, <1>3 DEF BackupIInv, BackupTypeOK, Steps
<1>5. /\ ScriptInv' /\ AloneInv' /\ DraftInv' /\ DumpedInv'
      /\ QuietGifsAreArchived'
  BY <1>1, <1>2
  DEF BackupIInv, ScriptInv, AloneInv, DraftInv, DumpedInv, InBackup,
      QuietGifsAreArchived
<1> QED
  BY <1>1, <1>3, <1>4, <1>5 DEF BackupIInv

\* Every step of the server, the scripts and the operator keeps the invariant.
THEOREM BackupNextIInv == BackupIInv /\ [BackupNext]_bvars => BackupIInv'
<1> SUFFICES ASSUME BackupIInv, [BackupNext]_bvars PROVE BackupIInv'
  OBVIOUS
<1>1. CASE UNCHANGED bvars
  <2>1. /\ UNCHANGED <<vars, script, toCopy, draft, archive, alone, db, running,
                       connected, displaced, busy>>
        /\ UNCHANGED <<rows, file, pc, committed>>
        /\ TypeOK /\ JobInv
    BY <1>1 DEF bvars, tools, service, vars, history, BackupIInv, BackupTypeOK
  <2>2. /\ TypeOK' /\ JobInv' /\ (IInv => IInv')
        /\ \A i : About(i)' = About(i) /\ Uploading(i)' = Uploading(i)
    BY <2>1, SameVars
  <2>3. BackupTypeOK'
    BY <2>1, <2>2 DEF BackupIInv, BackupTypeOK
  <2> QED
    BY <2>1, <2>2, <2>3
    DEF BackupIInv, ScriptInv, AloneInv, DraftInv, DumpedInv, InBackup, Live,
        QuietGifsAreArchived
<1>2. CASE BackupNext
  BY <1>2, HandleBackup, StopAppBackup, ServiceBackup, StartBackupBackup,
     CopyFileBackup, DumpBackup, VerifyBackup, ConfirmBackup, FilesBackup,
     RowsBackup
  DEF BackupNext, Server, BackUp, Restore
<1> QED
  BY <1>1, <1>2

-----------------------------------------------------------------------------
\* The invariant holds in every state of the server and the scripts.
THEOREM SpecBackupIInv == BackupSpec => []BackupIInv
  BY BackupInitIInv, BackupNextIInv, PTL DEF BackupSpec

\* The state of the server, the scripts and the archive is typed, also after a
\* restore beside a running app; no handler outlives its connections.
THEOREM SpecBackupTypeOK == BackupSpec => []BackupTypeOK
  BY SpecBackupIInv, PTL DEF BackupIInv

\* A gif no handler was about while the backup was taken is in it with exactly
\* the files of its row (backup.sh:53-57).
THEOREM SpecQuietGifsAreArchived == BackupSpec => []QuietGifsAreArchived
  BY SpecBackupIInv, PTL DEF BackupIInv

\* "archive matches" (backup.sh:68) means that the rows of the dump have their
\* files in the archive, save uploads under way at the dump and deletions.
THEOREM SpecMatchingArchiveHasFiles == BackupSpec => MatchingArchiveHasFiles
<1>1. ASSUME BackupIInv, BackupNext, archive' # archive
      PROVE  Verify
  BY <1>1
  DEF BackupNext, Server, BackUp, Restore, Handle, Connect, CloseIdle, StopApp,
      StartApp, StartBackup, CopyFile, Dump, CheckConnections, MoveAside,
      Extract, DropDatabase, CreateDatabase, Replay, Abort, tools
<1>2. ASSUME BackupIInv, Verify, archive'.matched,
             NEW i \in (Live(archive'.rows) \cap Live(rows)) \ archive'.inflight,
             hit[i] = {}, NEW k \in 1..NFiles
      PROVE  archive'.files[i][k] # NoFile
  <2>1. IInv /\ script = "verify" /\ draft \in Archives
    BY <1>2 DEF BackupIInv, BackupTypeOK, ScriptInv, Verify, InBackup
  <2>2. PICK m \in {Matches, FALSE} :
          archive' = [draft EXCEPT !.matched = m, !.quiet = Undisturbed]
    BY <1>2 DEF Verify
  <2>3. /\ archive'.matched = m
        /\ archive'.files = draft.files /\ archive'.rows = draft.rows
        /\ archive'.inflight = draft.inflight
    BY <2>1, <2>2 DEF Archives
  <2>4. Matches
    <3>1. m = TRUE
      BY <1>2, <2>2, <2>3 DEF Matches
    <3> QED
      BY <2>2, <3>1, Zenon
  <2>5. i \in Ids /\ rows[i] # NoRow /\ ~ Uploading(i)
    BY <1>2, <2>1, <2>3 DEF Live, BackupIInv, DumpedInv
  <2>6. \A r \in Requests : ~ Loads(r, i, k)
    BY <2>1, <2>5 DEF Uploading, About, Loads, IInv, StageInv
  <2>7. file[i][k] \in WholeFiles
    BY <1>2, <2>1, <2>5, <2>6 DEF IInv, LiveInv
  <2>8. file[i][k] # NoFile
    BY <2>7, BytesFacts DEF WholeFiles
  <2>9. <<i, k>> \in Names(file)
    BY <2>5, <2>8 DEF Names, Paths
  <2>10. <<i, k>> \in Names(draft.files)
    BY <2>4, <2>9 DEF Matches
  <2> QED
    BY <2>3, <2>10 DEF Names
<1>3. BackupIInv /\ [BackupNext]_bvars =>
        [archive' # archive /\ archive'.matched =>
           \A i \in (Live(archive'.rows) \cap Live(rows)) \ archive'.inflight :
             hit[i] = {} =>
               \A k \in 1..NFiles : archive'.files[i][k] # NoFile]_bvars
  BY <1>1, <1>2
<1> QED
  BY <1>3, SpecBackupIInv, PTL DEF BackupSpec, MatchingArchiveHasFiles

\* A restore that runs to its end with the app down throughout leaves, with the
\* rows of the backup, its files and no others (restore.sh:119-137).
THEOREM SpecRestoreIsBackup == BackupSpec => RestoreIsBackup
<1>1. ASSUME BackupIInv, BackupNext, script = "replay", alone
      PROVE  file' = archive.files
  <2>1. ~ running /\ file = archive.files
    BY <1>1 DEF BackupIInv, AloneInv
  <2>2. file' = file
    BY <1>1, <2>1
    DEF BackupNext, Server, BackUp, Restore, Handle, Connect, CloseIdle,
        StopApp, StartApp, StartBackup, CopyFile, Dump, Verify,
        CheckConnections, MoveAside, Extract, DropDatabase, CreateDatabase,
        Replay, Abort, vars
  <2> QED
    BY <2>1, <2>2
<1>2. BackupIInv /\ [BackupNext]_bvars =>
        [script = "replay" /\ db = "empty" /\ rows' = archive.rows /\ alone =>
           file' = archive.files]_bvars
  BY <1>1
<1> QED
  BY <1>2, SpecBackupIInv, PTL DEF BackupSpec, RestoreIsBackup
=============================================================================
