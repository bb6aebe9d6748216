------------------------------ MODULE QuotaTx ------------------------------
(***************************************************************************)
(* The accounting transactions of storage/db.rs, insert_gif_quota and      *)
(* replace_gif_quota, one action per SQL statement.  Postgres runs them at *)
(* READ COMMITTED: a statement sees what was committed when it started, so *)
(* a gif deleted between two statements of a transaction is seen by the    *)
(* first and not by the second.  Writers are serialised by the advisory    *)
(* lock UPLOAD_LOCK_ID only; DELETE takes no lock.                         *)
(*                                                                         *)
(* A request slot runs one handler after another.  The requests share the  *)
(* MaxConns pooled connections of main.rs with every other handler of the  *)
(* server, of which only the connections they hold are modelled.           *)
(***************************************************************************)
EXTENDS Storage

CONSTANTS
  Requests,     \* slots for concurrently running upload/replace handlers
  MaxConns,     \* PgPoolOptions::max_connections
  NoRequest,    \* the advisory lock is free
  NoJob         \* the slot is idle

Jobs == [kind : {"upload", "replace"}, id : Ids,
         uploader : Users, hash : Contents]

ASSUME QuotaTxAssumption ==
  /\ NoRequest \notin Requests
  /\ NoJob \notin Jobs
  /\ MaxConns \in Nat \ {0}

VARIABLES
  rows,         \* committed rows of gifs and gif_renditions
  pc,           \* next statement of each request
  job,          \* arguments of the transaction
  old,          \* replace_gif_quota's old_total
  lock,         \* holder of pg_advisory_xact_lock(UPLOAD_LOCK_ID)
  others        \* pooled connections in the hands of other handlers

vars == <<rows, pc, job, old, lock, others>>

Locked == {"dedup", "old", "global", "user", "write", "commit"}
InTx   == {"lock"} \cup Locked
Labels == {"idle", "begin"} \cup InTx

TypeOK ==
  /\ rows \in Tables
  /\ pc \in [Requests -> Labels]
  /\ job \in [Requests -> Jobs \cup {NoJob}]
  /\ old \in [Requests -> 0..MaxBytes]
  /\ lock \in Requests \cup {NoRequest}
  /\ others \in Nat

Init ==
  /\ rows = [i \in Ids |-> NoRow]
  /\ pc = [r \in Requests |-> "idle"]
  /\ job = [r \in Requests |-> NoJob]
  /\ old = [r \in Requests |-> 0]
  /\ lock = NoRequest
  /\ others = 0

-----------------------------------------------------------------------------
\* A transaction keeps its connection from pool.begin to its end, also while
\* it waits for the advisory lock.
ConnectionFree ==
  Cardinality({r \in Requests : pc[r] \in InTx}) + others < MaxConns

Goto(r, label) == pc' = [pc EXCEPT ![r] = label]

\* Uuid::new_v4 returns an id nobody has seen: no row, no request about it.
Fresh(i) ==
  /\ rows[i] = NoRow
  /\ \A r \in Requests : pc[r] # "idle" => job[r].id # i

\* The transaction ends, by COMMIT or by rollback: the session gives back its
\* connection and, if it holds it, the advisory lock.
Leave(r) ==
  /\ Goto(r, "idle")
  /\ job' = [job EXCEPT ![r] = NoJob]
  /\ old' = [old EXCEPT ![r] = 0]
  /\ lock' = IF lock = r THEN NoRequest ELSE lock
  /\ UNCHANGED others

StartUpload(r) ==
  /\ pc[r] = "idle"
  /\ \E i \in Ids, u \in Users, c \in Contents :
       /\ Fresh(i)
       /\ job' = [job EXCEPT ![r] = [kind |-> "upload", id |-> i,
                                     uploader |-> u, hash |-> c]]
  /\ Goto(r, "begin")
  /\ UNCHANGED <<rows, old, lock, others>>

\* replace_file loads the row, and keeps its uploader, long before the
\* transaction begins: decoding and resizing come in between.
StartReplace(r) ==
  /\ pc[r] = "idle"
  /\ \E i \in Live(rows), c \in Contents :
       job' = [job EXCEPT ![r] = [kind |-> "replace", id |-> i,
                                  uploader |-> rows[i].uploader, hash |-> c]]
  /\ Goto(r, "begin")
  /\ UNCHANGED <<rows, old, lock, others>>

Begin(r) ==
  /\ pc[r] = "begin"
  /\ ConnectionFree
  /\ Goto(r, "lock")
  /\ UNCHANGED <<rows, job, old, lock, others>>

\* Mutant: the transaction goes on without waiting for the lock.
TakeLockWithoutWaiting(r) ==
  /\ pc[r] = "lock"
  /\ lock' = r
  /\ Goto(r, "dedup")
  /\ UNCHANGED <<rows, job, old, others>>

TakeLock(r) ==
  /\ pc[r] = "lock"
  /\ lock = NoRequest
  /\ lock' = r
  /\ Goto(r, "dedup")
  /\ UNCHANGED <<rows, job, old, others>>

AfterDedup(r) == IF job[r].kind = "replace" THEN "old" ELSE "global"

\* Mutant: the duplicate is looked up before the transaction only.
CheckDuplicateNever(r) ==
  /\ pc[r] = "dedup"
  /\ Goto(r, AfterDedup(r))
  /\ UNCHANGED <<rows, job, old, lock, others>>

\* SELECT ... WHERE uploader_id = $1 AND hash = $2 [AND id <> $3].  The id of
\* an upload is fresh, so the exclusion of its own id is harmless there.
CheckDuplicate(r) ==
  /\ pc[r] = "dedup"
  /\ IF Taken(rows, job[r].id, job[r].uploader, job[r].hash)
       THEN Leave(r) /\ UNCHANGED rows
       ELSE /\ Goto(r, AfterDedup(r))
            /\ UNCHANGED <<rows, job, old, lock, others>>

\* replace_gif_quota: the bytes the gif occupies now, 0 if its row is gone.
ReadOld(r) ==
  /\ pc[r] = "old"
  /\ old' = [old EXCEPT ![r] = RowBytes(rows, job[r].id)]
  /\ Goto(r, "global")
  /\ UNCHANGED <<rows, job, lock, others>>

\* Bytes in use once the transaction commits, from those in use now.
After(r, bytes) == bytes - old[r] + Size[job[r].hash]

\* Mutant: the cap is compared with the bytes in use now.
CheckGlobalForgetsIncoming(r) ==
  /\ pc[r] = "global"
  /\ IF Exceeds(TotalBytes(rows), GlobalMax)
       THEN Leave(r) /\ UNCHANGED rows
       ELSE Goto(r, "user") /\ UNCHANGED <<rows, job, old, lock, others>>

\* Mutant: the statement asks the pool for a connection of its own.
CheckGlobalOnPool(r) ==
  /\ pc[r] = "global"
  /\ ConnectionFree
  /\ IF Exceeds(After(r, TotalBytes(rows)), GlobalMax)
       THEN Leave(r) /\ UNCHANGED rows
       ELSE Goto(r, "user") /\ UNCHANGED <<rows, job, old, lock, others>>

CheckGlobal(r) ==
  /\ pc[r] = "global"
  /\ IF Exceeds(After(r, TotalBytes(rows)), GlobalMax)
       THEN Leave(r) /\ UNCHANGED rows
       ELSE Goto(r, "user") /\ UNCHANGED <<rows, job, old, lock, others>>

\* Mutant: the replaced bytes are credited twice.
CheckUserCreditsTwice(r) ==
  /\ pc[r] = "user"
  /\ IF Exceeds(After(r, UserBytes(rows, job[r].uploader)) - old[r], PerUserMax)
       THEN Leave(r) /\ UNCHANGED rows
       ELSE Goto(r, "write") /\ UNCHANGED <<rows, job, old, lock, others>>

CheckUser(r) ==
  /\ pc[r] = "user"
  /\ IF Exceeds(After(r, UserBytes(rows, job[r].uploader)), PerUserMax)
       THEN Leave(r) /\ UNCHANGED rows
       ELSE Goto(r, "write") /\ UNCHANGED <<rows, job, old, lock, others>>

\* An uncommitted insert or update of the same (uploader, hash) makes a
\* statement wait on the unique index until the other transaction ends.
KeyPending(r) ==
  \E q \in Requests \ {r} :
    /\ pc[q] = "commit"
    /\ job[q].uploader = job[r].uploader
    /\ job[q].hash = job[r].hash

KeyTaken(r) == Taken(rows, job[r].id, job[r].uploader, job[r].hash)

RowMissing(r) == job[r].kind = "replace" /\ rows[job[r].id] = NoRow

\* The INSERTs or UPDATEs.  They fail on UNIQUE (uploader_id, hash), and the
\* UPDATE of a row deleted meanwhile returns nothing to fetch_one.  What they
\* write is invisible to other sessions until the commit.
WriteRows(r) ==
  /\ pc[r] = "write"
  /\ ~ KeyPending(r)
  /\ IF KeyTaken(r) \/ RowMissing(r)
       THEN Leave(r) /\ UNCHANGED rows
       ELSE Goto(r, "commit") /\ UNCHANGED <<rows, job, old, lock, others>>

Commit(r) ==
  /\ pc[r] = "commit"
  /\ rows' = [rows EXCEPT ![job[r].id] = [uploader |-> job[r].uploader,
                                          hash |-> job[r].hash]]
  /\ Leave(r)

\* A statement fails, the client goes away and the handler is dropped, the
\* server dies or, before the transaction, the pool gives up waiting for a
\* connection: Postgres rolls back what there is of the transaction.
Abort(r) ==
  /\ pc[r] # "idle"
  /\ Leave(r)
  /\ UNCHANGED rows

\* Mutant: the deletion does not wait for the row's uncommitted update.
RowLockedNever(i) == FALSE

\* replace_gif_quota's UPDATE holds the row until its transaction ends.
RowLocked(i) ==
  \E r \in Requests :
    pc[r] = "commit" /\ job[r].kind = "replace" /\ job[r].id = i

\* delete_gif: one autocommitted statement, renditions go by cascade.
DeleteGif(i) ==
  /\ i \in Live(rows)
  /\ ConnectionFree
  /\ ~ RowLocked(i)
  /\ rows' = [rows EXCEPT ![i] = NoRow]
  /\ UNCHANGED <<pc, job, old, lock, others>>

\* Every other handler takes a connection for a query and gives it back.
TakeConnection ==
  /\ ConnectionFree
  /\ others' = others + 1
  /\ UNCHANGED <<rows, pc, job, old, lock>>

GiveConnection ==
  /\ others > 0
  /\ others' = others - 1
  /\ UNCHANGED <<rows, pc, job, old, lock>>

-----------------------------------------------------------------------------
Statement(r) ==
  \/ CheckDuplicate(r)
  \/ ReadOld(r)
  \/ CheckGlobal(r)
  \/ CheckUser(r)
  \/ WriteRows(r)
  \/ Commit(r)

Next ==
  \/ \E r \in Requests :
       \/ StartUpload(r)
       \/ StartReplace(r)
       \/ Begin(r)
       \/ TakeLock(r)
       \/ Statement(r)
       \/ Abort(r)
  \/ \E i \in Ids : DeleteGif(i)
  \/ TakeConnection
  \/ GiveConnection

\* Postgres answers every statement.  The pool hands out connections and
\* Postgres grants locks in arrival order, so a request that is passed over is
\* not passed over forever.  Another handler's query waits for no lock but that
\* of a row whose update is not yet committed (a DELETE), so it ends when
\* nobody is about to commit.  Nothing makes a client start a request, delete a
\* gif or go away, and nothing makes a handler give up.
Fairness ==
  /\ \A r \in Requests : SF_vars(Begin(r) \/ TakeLock(r) \/ Statement(r))
  /\ SF_vars(GiveConnection /\ \A r \in Requests : pc[r] # "commit")

Spec == Init /\ [][Next]_vars

FairSpec == Spec /\ Fairness

-----------------------------------------------------------------------------
\* The committed renditions never occupy more than STORAGE_MAX_BYTES, however
\* uploads, replacements, deletions and failures interleave (config.rs:20).
GlobalCap == TotalBytes(rows) <= GlobalMax

\* No uploader's committed renditions occupy more than PER_USER_STORAGE_BYTES,
\* although a replacement is charged with bytes read two statements earlier
\* (config.rs:23).
UserCap == \A u \in Users : UserBytes(rows, u) <= PerUserMax

\* A transaction that reaches its INSERT or UPDATE cannot fail on
\* UNIQUE (uploader_id, hash): the duplicate check taken under the lock still
\* holds, and no other transaction has the key in flight.
NoConstraintError ==
  \A r \in Requests : pc[r] = "write" => ~ KeyTaken(r) /\ ~ KeyPending(r)

\* Once the UPDATE of a replacement has found its row, the row is there at the
\* commit: a commit never brings a deleted gif back.
NoResurrection ==
  \A r \in Requests :
    pc[r] = "commit" => (job[r].kind = "replace") = (rows[job[r].id] # NoRow)

\* Every accounting transaction ends.  The holder of the lock and those that
\* wait for it can hold every connection of the pool (db.rs:113-118), and a
\* request without one waits for those who have one: that never turns into
\* everyone waiting on everyone.
TransactionsEnd ==
  \A r \in Requests : (pc[r] # "idle") ~> (pc[r] = "idle")

-----------------------------------------------------------------------------
(* The inductive invariant: what a lock holder has read remains a bound.   *)

\* Only the lock holder is past pg_advisory_xact_lock.
LockInv == \A r \in Requests : pc[r] \in Locked <=> lock = r

\* A request that is under way has arguments, and the id of an upload is its
\* own: no row and no other request has it.
JobInv ==
  \A r \in Requests :
    /\ pc[r] # "idle" => job[r] \in Jobs
    /\ pc[r] # "idle" /\ job[r].kind = "upload" =>
         /\ rows[job[r].id] = NoRow
         /\ \A q \in Requests \ {r} : pc[q] # "idle" => job[q].id # job[r].id

\* The row a replacement is about keeps its uploader, and it keeps the bytes
\* that were read unless it is deleted.
OldInv ==
  \A r \in Requests :
    /\ pc[r] = "idle" \/ job[r].kind = "upload" => old[r] = 0
    /\ pc[r] # "idle" /\ job[r].kind = "replace" /\ rows[job[r].id] # NoRow =>
         /\ rows[job[r].id].uploader = job[r].uploader
         /\ pc[r] \in {"global", "user", "write", "commit"} =>
              old[r] = RowBytes(rows, job[r].id)

\* A cap check that passed goes on passing until the commit: the only bytes
\* added meanwhile would need the lock.
CapInv ==
  \A r \in Requests :
    /\ pc[r] \in {"user", "write", "commit"} /\ ~ RowMissing(r) =>
         After(r, TotalBytes(rows)) <= GlobalMax
    /\ pc[r] \in {"write", "commit"} /\ ~ RowMissing(r) =>
         After(r, UserBytes(rows, job[r].uploader)) <= PerUserMax

\* A duplicate check that passed goes on passing until the commit.
DedupInv ==
  \A r \in Requests :
    pc[r] \in Locked \ {"dedup"} => ~ KeyTaken(r)

\* The committed tables are deduplicated per uploader.
UniqueInv ==
  \A i \in Live(rows) : ~ Taken(rows, i, rows[i].uploader, rows[i].hash)

IInv ==
  /\ TypeOK
  /\ LockInv
  /\ JobInv
  /\ OldInv
  /\ CapInv
  /\ DedupInv
  /\ UniqueInv
  /\ NoResurrection
  /\ GlobalCap
  /\ UserCap

\* Refinement: the statements implement the atomic catalogue.  The committed
\* rows are the catalogue's rows; only COMMIT and DELETE change them.
Abstract == INSTANCE Catalog WITH rows <- rows
ImplementsCatalog == Abstract!Spec
=============================================================================
