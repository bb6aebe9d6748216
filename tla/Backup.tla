------------------------------- MODULE Backup -------------------------------
(***************************************************************************)
(* deploy/backup.sh beside a server that goes on serving, and              *)
(* deploy/restore.sh, which wants it stopped.  The server is GifStore; the *)
(* scripts reach the storage directory and the database behind its back.   *)
(*                                                                         *)
(* A script is a sequence of commands under `set -e`: it stops at the      *)
(* first that fails, wherever that is, and can be run again.               *)
(***************************************************************************)
EXTENDS GifStore

CONSTANT NoArchive      \* no folder holds both halves of a backup

VARIABLES
  script,       \* the command the operator's script is at
  toCopy,       \* paths tar has yet to read
  draft,        \* the folder that backup.sh is filling
  archive,      \* the folder it completed
  db,           \* "schema", or while restoring "none" and then "empty"
  running,      \* the app's container is up
  connected,    \* its pool holds a connection
  displaced,    \* its storage directory was moved while it was up
  alone,        \* history: the app was down since the storage was moved
  busy          \* history: gifs with a handler while the backup was taken

tools == <<script, toCopy, draft, archive, alone>>
service == <<db, running, connected, displaced>>
bvars == <<vars, tools, service, busy>>

Steps == {"none", "tar", "dump", "verify",
          "confirm", "extract", "drop", "create", "replay"}

Paths == Ids \X (1..NFiles)
Storages == [Ids -> [1..NFiles -> Files \cup {NoFile}]]
Empty == [i \in Ids |-> [k \in 1..NFiles |-> NoFile]]
NoRows == [i \in Ids |-> NoRow]

Archives == [files : Storages, rows : Tables, matched : BOOLEAN,
             inflight : SUBSET Ids, quiet : SUBSET Ids]
Blank == [files |-> Empty, rows |-> NoRows, matched |-> FALSE,
          inflight |-> {}, quiet |-> {}]

\* Stopping the app cuts its handlers short.
ASSUME BackupAssumption ==
  /\ "crash" \in Faults
  /\ NoArchive \notin Archives

\* The pool has a connection as long as a handler is under way, a container
\* that is down has none, and there are no rows without tables.
BackupTypeOK ==
  /\ TypeOK
  /\ script \in Steps
  /\ toCopy \subseteq Paths
  /\ draft \in Archives
  /\ archive \in Archives \cup {NoArchive}
  /\ db \in {"schema", "none", "empty"}
  /\ {running, connected, displaced, alone} \subseteq BOOLEAN
  /\ busy \subseteq Ids
  /\ connected \/ displaced => running
  /\ \A r \in Requests : pc[r] # "idle" => connected
  /\ db # "schema" => rows = NoRows

BackupInit ==
  /\ Init
  /\ script = "none"
  /\ toCopy = {}
  /\ draft = Blank
  /\ archive = NoArchive
  /\ db = "schema"
  /\ running = TRUE
  /\ connected = TRUE
  /\ displaced = FALSE
  /\ alone = FALSE
  /\ busy = {}

-----------------------------------------------------------------------------
(* The server                                                              *)

InBackup == script \in {"tar", "dump", "verify"}

\* A handler takes a step.  A server whose directory was moved away under it
\* goes on in the moved one: what it does there is not followed.
Handle ==
  /\ running
  /\ ~ displaced
  /\ db = "schema"
  /\ Next
  /\ connected' = TRUE
  /\ busy' = IF InBackup THEN busy \cup {i \in Ids : About(i)' # {}} ELSE busy
  /\ UNCHANGED <<tools, db, running, displaced>>

\* A request that only reads, among them the health check of the container.
Connect ==
  /\ running
  /\ db = "schema"
  /\ connected' = TRUE
  /\ UNCHANGED <<vars, tools, db, running, displaced, busy>>

\* The pool keeps no minimum of connections (main.rs sets the maximum only): it
\* closes those that failed, got old or were idle for long.  As long as the
\* health check calls, the next one follows within seconds (Connect).
CloseIdle ==
  /\ \A r \in Requests : pc[r] = "idle"
  /\ connected' = FALSE
  /\ UNCHANGED <<vars, tools, db, running, displaced, busy>>

\* Mutant: a container that is stopped seems to keep its connections.
StopAppKeepsConnections ==
  /\ running
  /\ Halt
  /\ running' = FALSE
  /\ displaced' = FALSE
  /\ UNCHANGED <<tools, db, connected, busy>>

\* docker compose stop app
StopApp ==
  /\ running
  /\ Halt
  /\ running' = FALSE
  /\ connected' = FALSE
  /\ displaced' = FALSE
  /\ UNCHANGED <<tools, db, busy>>

\* main: it connects, which needs the database, and applies the migrations.
StartApp ==
  /\ ~ running
  /\ db # "none"
  /\ running' = TRUE
  /\ connected' = TRUE
  /\ db' = "schema"
  /\ alone' = FALSE
  /\ UNCHANGED <<vars, script, toCopy, draft, archive, displaced, busy>>

-----------------------------------------------------------------------------
(* backup.sh.  One backup is taken, after as many attempts as it needs.    *)

StartBackup ==
  /\ script = "none"
  /\ archive = NoArchive
  /\ script' = "tar"
  /\ toCopy' = Paths
  /\ draft' = Blank
  /\ busy' = {i \in Ids : About(i) # {}}
  /\ UNCHANGED <<vars, archive, alone, service>>

\* tar reads the files in an order of its own, each as it is then.
CopyFile ==
  /\ script = "tar"
  /\ \E p \in toCopy :
       /\ draft' = [draft EXCEPT !.files[p[1]][p[2]] = file[p[1]][p[2]]]
       /\ toCopy' = toCopy \ {p}
       /\ script' = IF toCopy = {p} THEN "dump" ELSE "tar"
  /\ UNCHANGED <<vars, archive, alone, service, busy>>

Uploading(i) == \E r \in About(i) : job[r].kind = "upload"

\* Mutant: pg_dump comes while tar is reading, and tar's end is not awaited.
DumpBesideTar ==
  /\ InBackup
  /\ script # "verify"
  /\ draft' = [draft EXCEPT !.rows = rows,
       !.inflight = {i \in Ids : Uploading(i)}]
  /\ script' = "verify"
  /\ UNCHANGED <<vars, toCopy, archive, alone, service, busy>>

\* pg_dump sees the rows of one moment, after the files.
Dump ==
  /\ script = "dump"
  /\ draft' = [draft EXCEPT !.rows = rows,
       !.inflight = {i \in Ids : Uploading(i)}]
  /\ script' = "verify"
  /\ UNCHANGED <<vars, toCopy, archive, alone, service, busy>>

Names(f) == {p \in Paths : f[p[1]][p[2]] # NoFile}

\* Mutant: only files that are gone from the directory are reported.
MatchesOneWay == Names(draft.files) \subseteq Names(file)

\* The names in the archive are those in the directory now.
Matches == Names(draft.files) = Names(file)

\* Gifs that nothing happened to while the backup was taken, nor before it
\* anything that leaves a gif without its files.
Undisturbed == {i \in Ids \ (busy \cup contended) : hit[i] = {}}

\* A mismatch is a warning.  The temporary file of a replacement is a name too:
\* one that comes or goes meanwhile makes the comparison fail.  An archive
\* without any name ends the script: the grep for names fails.
Verify ==
  /\ script = "verify"
  /\ Names(draft.files) # {} \/ busy # {}
  /\ \E m \in {Matches} \cup (IF busy = {} THEN {} ELSE {FALSE}) :
       archive' = [draft EXCEPT !.matched = m, !.quiet = Undisturbed]
  /\ draft' = Blank
  /\ busy' = {}
  /\ script' = "none"
  /\ UNCHANGED <<vars, toCopy, alone, service>>

-----------------------------------------------------------------------------
(* restore.sh                                                              *)

\* Both halves are there, and pg_stat_activity shows no connection.
CheckConnections ==
  /\ script = "none"
  /\ archive # NoArchive
  /\ ~ connected
  /\ script' = "confirm"
  /\ UNCHANGED <<vars, toCopy, draft, archive, alone, service, busy>>

\* Mutant: the archive is extracted over what is there.
MoveAsideNever ==
  /\ script = "confirm"
  /\ alone' = ~ running
  /\ script' = "extract"
  /\ UNCHANGED <<vars, toCopy, draft, archive, service, busy>>

\* The operator has typed "restore".
MoveAside ==
  /\ script = "confirm"
  /\ file' = Empty
  /\ displaced' = running
  /\ alone' = ~ running
  /\ script' = "extract"
  /\ UNCHANGED <<rows, pc, job, done, client, history,
                 toCopy, draft, archive, db, running, connected, busy>>

\* tar overwrites what is there and leaves the rest; it may not get to the end.
Extract ==
  /\ script = "extract"
  /\ \E S \in SUBSET Names(archive.files) :
       /\ file' = [i \in Ids |-> [k \in 1..NFiles |->
            IF <<i, k>> \in S THEN archive.files[i][k] ELSE file[i][k]]]
       /\ script' = IF S = Names(archive.files) THEN "drop" ELSE "none"
  /\ UNCHANGED <<rows, pc, job, done, client, history,
                 toCopy, draft, archive, alone, service, busy>>

\* DROP DATABASE fails while anybody is connected.
DropDatabase ==
  /\ script = "drop"
  /\ IF connected
       THEN script' = "none" /\ UNCHANGED <<rows, db>>
       ELSE /\ script' = "create"
            /\ db' = "none"
            /\ rows' = NoRows
  /\ UNCHANGED <<file, pc, job, done, client, history, toCopy, draft, archive,
                 alone, running, connected, displaced, busy>>

CreateDatabase ==
  /\ script = "create"
  /\ db' = "empty"
  /\ script' = "replay"
  /\ UNCHANGED <<vars, toCopy, draft, archive, alone,
                 running, connected, displaced, busy>>

\* The dump creates the tables: it fails where the app has done so.  It is no
\* transaction, and can stop with the tables there and the rows not.
Replay ==
  /\ script = "replay"
  /\ script' = "none"
  /\ \/ db = "empty" /\ db' = "schema" /\ rows' = archive.rows
     \/ db' \in {db, "schema"} /\ UNCHANGED rows
  /\ UNCHANGED <<file, pc, job, done, client, history, toCopy, draft, archive,
                 alone, running, connected, displaced, busy>>

\* The operator declines or interrupts, or the command fails.
Abort ==
  /\ script # "none"
  /\ script' = "none"
  /\ toCopy' = {}
  /\ draft' = Blank
  /\ busy' = {}
  /\ UNCHANGED <<vars, archive, alone, service>>

-----------------------------------------------------------------------------
Server == Handle \/ Connect \/ CloseIdle \/ StopApp \/ StartApp

BackUp == StartBackup \/ CopyFile \/ Dump \/ Verify

Restore ==
  \/ CheckConnections
  \/ MoveAside
  \/ Extract
  \/ DropDatabase
  \/ CreateDatabase
  \/ Replay

BackupNext == Server \/ BackUp \/ Restore \/ Abort

BackupSpec == BackupInit /\ [][BackupNext]_bvars

-----------------------------------------------------------------------------
\* A gif that no handler was about while the backup was taken is in it with
\* exactly the files of its row, although the files were read one after the
\* other and before the rows (backup.sh:53-57).
QuietGifsAreArchived ==
  archive # NoArchive =>
    \A i \in archive.quiet, k \in 1..NFiles :
      archive.files[i][k] =
        IF archive.rows[i] = NoRow THEN NoFile ELSE Whole(archive.rows[i].hash)

\* "archive matches" (backup.sh:68) means that the rows of the dump have all
\* their files in the archive, also those of gifs that were uploaded while tar
\* was running.  Excepted are gifs whose upload was under way at the dump or
\* that were deleted before the comparison.
MatchingArchiveHasFiles ==
  [][archive' # archive /\ archive'.matched =>
       \A i \in (Live(archive'.rows) \cap Live(rows)) \ archive'.inflight :
         hit[i] = {} => \A k \in 1..NFiles : archive'.files[i][k] # NoFile]_bvars

\* A restore that runs to its end with the app down throughout leaves, with the
\* rows of the backup, its files and no others, whatever earlier attempts and
\* the app between them left behind (restore.sh:119-137).
RestoreIsBackup ==
  [][script = "replay" /\ db = "empty" /\ rows' = archive.rows /\ alone =>
       file' = archive.files]_bvars
=============================================================================
