-------------------------------- MODULE Tags --------------------------------
(***************************************************************************)
(* The tags of one gif: set_tags, add_tags and remove_tags of              *)
(* storage/db.rs behind PUT, PATCH and DELETE /gifs/:id/tags.  A PUT is    *)
(* one READ COMMITTED transaction, a DELETE of the rows its snapshot shows *)
(* and an INSERT per tag; the other two run one autocommitted statement    *)
(* per tag.                                                                *)
(*                                                                         *)
(* A row is told from a later row with the same key by the INSERT it comes *)
(* from: a snapshot taken before a row was committed does not show it,     *)
(* whatever was there before.                                              *)
(***************************************************************************)
EXTENDS Naturals, Sequences, FiniteSets, SequencesExt

CONSTANTS
  Requests,     \* handlers, each of which runs once
  TagNames,     \* lower-cased tags
  MaxTags,      \* bound on the length of a request's tag list
  Initial,      \* the origin of the rows that are there at first
  NoRow,        \* a tag without a row
  Faults        \* "drop": a handler may be dropped or a statement fail

\* The INSERT of a request after so many of its tags; a PUT, which inserts a
\* key once, commits them all as of the first.
Origins == (Requests \X (0..MaxTags)) \cup {Initial}

ASSUME TagsAssumption ==
  /\ Initial \notin Requests \X (0..MaxTags)
  /\ NoRow \notin Origins
  /\ MaxTags \in Nat
  /\ Faults \subseteq {"drop"}

VARIABLES
  row,          \* row[t]: the origin of the committed row of tag t
  pc,           \* next statement of each handler
  job,          \* its kind and its tags
  done,         \* tags its loop is through with
  snap,         \* what the statement DELETE it is in sees
  gone,         \* rows it has deleted and not yet committed
  new,          \* rows it has inserted and not yet committed
  later         \* history: tags that others committed since it took snap

vars == <<row, pc, job, done, snap, gone, new, later>>

Jobs ==
  [kind : {"put", "patch", "delete"}, tags : BoundedSeq(TagNames, MaxTags)]

Labels == {"start", "delete", "lockrows", "insert", "add", "done", "failed",
           "dropped"}

TypeOK ==
  /\ row \in [TagNames -> Origins \cup {NoRow}]
  /\ pc \in [Requests -> Labels]
  /\ \A r \in Requests : pc[r] # "start" => job[r] \in Jobs
  /\ done \in [Requests -> 0..MaxTags]
  /\ snap \in [Requests -> SUBSET (TagNames \X Origins)]
  /\ gone \in [Requests -> SUBSET TagNames]
  /\ new \in [Requests -> SUBSET TagNames]
  /\ later \in [Requests -> SUBSET TagNames]
  /\ \A r \in Requests :
       /\ pc[r] # "insert" => new[r] = {}
       /\ pc[r] \notin {"lockrows", "insert"} => gone[r] = {}

Init ==
  /\ \E S \in SUBSET TagNames :
       row = [t \in TagNames |-> IF t \in S THEN Initial ELSE NoRow]
  /\ pc = [r \in Requests |-> "start"]
  /\ job = [r \in Requests |-> <<>>]
  /\ done = [r \in Requests |-> 0]
  /\ snap = [r \in Requests |-> {}]
  /\ gone = [r \in Requests |-> {}]
  /\ new = [r \in Requests |-> {}]
  /\ later = [r \in Requests |-> {}]

-----------------------------------------------------------------------------
Goto(r, label) == pc' = [pc EXCEPT ![r] = label]

Finished(r) == done[r] = Len(job[r].tags)
Tag(r) == job[r].tags[done[r] + 1]

First(kind) == CASE kind = "put"    -> "delete"
                 [] kind = "patch"  -> "add"
                 [] kind = "delete" -> "delete"

\* load_mutable has passed.
Start(r) ==
  /\ pc[r] = "start"
  /\ \E j \in Jobs :
       /\ job' = [job EXCEPT ![r] = j]
       /\ Goto(r, First(j.kind))
  /\ UNCHANGED <<row, done, snap, gone, new, later>>

\* Mutant: the session keeps the row locks of the transaction.
EndTxKeepsLocks(r, label) ==
  /\ Goto(r, label)
  /\ new' = [new EXCEPT ![r] = {}]
  /\ snap' = [snap EXCEPT ![r] = {}]
  /\ UNCHANGED gone

\* The transaction ends, by COMMIT or by rollback.
EndTx(r, label) ==
  /\ Goto(r, label)
  /\ gone' = [gone EXCEPT ![r] = {}]
  /\ new' = [new EXCEPT ![r] = {}]
  /\ snap' = [snap EXCEPT ![r] = {}]

Rollback(r) == EndTx(r, "failed") /\ UNCHANGED <<row, job, done, later>>

\* Other requests come to see that tags S were committed.
CommitTags(r, S) ==
  later' = [q \in Requests |->
              IF q # r /\ pc[q] \in {"lockrows", "insert"}
                THEN later[q] \cup S ELSE later[q]]

-----------------------------------------------------------------------------
(* DELETE FROM tags                                                        *)

Scope(r) == IF job[r].kind = "put" THEN TagNames ELSE {Tag(r)}

\* The statement starts: its snapshot is what is committed now.
TakeSnapshot(r) ==
  /\ pc[r] = "delete"
  /\ ~ (job[r].kind = "delete" /\ Finished(r))
  /\ snap' = [snap EXCEPT ![r] =
       {<<t, row[t]>> : t \in {t \in Scope(r) : row[t] # NoRow}}]
  /\ later' = [later EXCEPT ![r] = {}]
  /\ Goto(r, "lockrows")
  /\ UNCHANGED <<row, job, done, gone, new>>

\* Rows of the snapshot that are still there and not yet deleted by r.
ToDelete(r) == {t \in TagNames \ gone[r] : <<t, row[t]>> \in snap[r]}

Holders(t) == {q \in Requests : t \in gone[q] \cup new[q]}

\* Mutant: rows another transaction has locked are passed over.
DeleteRowSkipsLocked(r) ==
  /\ pc[r] = "lockrows"
  /\ IF \E t \in ToDelete(r) : Holders(t) = {}
       THEN /\ \E t \in ToDelete(r) :
                 Holders(t) = {} /\ gone' = [gone EXCEPT ![r] = @ \cup {t}]
            /\ UNCHANGED <<row, pc, job, done, snap, new, later>>
       ELSE /\ job[r].kind = "put"
            /\ Goto(r, "insert")
            /\ snap' = [snap EXCEPT ![r] = {}]
            /\ UNCHANGED <<row, job, done, gone, new, later>>

\* One row after the other is locked and deleted; a row that another
\* transaction has deleted is waited for, and gone if that one commits.
DeleteRow(r) ==
  /\ pc[r] = "lockrows"
  /\ \E t \in ToDelete(r) :
       Holders(t) = {} /\ gone' = [gone EXCEPT ![r] = @ \cup {t}]
  /\ UNCHANGED <<row, pc, job, done, snap, new, later>>

\* All rows are dealt with: set_tags goes on, remove_tags commits.
EndDelete(r) ==
  /\ pc[r] = "lockrows"
  /\ ToDelete(r) = {}
  /\ IF job[r].kind = "put"
       THEN /\ Goto(r, "insert")
            /\ snap' = [snap EXCEPT ![r] = {}]
            /\ UNCHANGED <<row, done, gone, new>>
       ELSE /\ row' = [t \in TagNames |->
                 IF t \in gone[r] THEN NoRow ELSE row[t]]
            /\ done' = [done EXCEPT ![r] = @ + 1]
            /\ EndTx(r, "delete")
  /\ UNCHANGED <<job, later>>

-----------------------------------------------------------------------------
(* INSERT INTO tags                                                        *)

\* A row with the key that is there for r: committed and not deleted by r, or
\* its own.
Occupied(r, t) == t \in new[r] \/ (row[t] # NoRow /\ t \notin gone[r])

\* set_tags: a key that another transaction has touched is waited for, a key
\* that is there is a unique violation, which ends the transaction.
InsertTag(r) ==
  /\ pc[r] = "insert"
  /\ ~ Finished(r)
  /\ Holders(Tag(r)) \subseteq {r}
  /\ IF Occupied(r, Tag(r))
       THEN Rollback(r)
       ELSE /\ new' = [new EXCEPT ![r] = @ \cup {Tag(r)}]
            /\ done' = [done EXCEPT ![r] = @ + 1]
            /\ UNCHANGED <<row, pc, job, snap, gone, later>>

\* Mutant: the transaction commits what it inserted and keeps the old rows.
CommitKeepsOld(r) ==
  /\ pc[r] = "insert"
  /\ Finished(r)
  /\ row' = [t \in TagNames |-> IF t \in new[r] THEN <<r, 0>> ELSE row[t]]
  /\ CommitTags(r, new[r])
  /\ EndTx(r, "done")
  /\ UNCHANGED <<job, done>>

Commit(r) ==
  /\ pc[r] = "insert"
  /\ Finished(r)
  /\ row' = [t \in TagNames |-> IF t \in new[r] THEN <<r, 0>>
                                ELSE IF t \in gone[r] THEN NoRow ELSE row[t]]
  /\ CommitTags(r, new[r])
  /\ EndTx(r, "done")
  /\ UNCHANGED <<job, done>>

\* add_tags: ON CONFLICT DO NOTHING, after waiting like any INSERT.
AddTag(r) ==
  /\ pc[r] = "add"
  /\ ~ Finished(r)
  /\ Holders(Tag(r)) = {}
  /\ IF row[Tag(r)] = NoRow
       THEN /\ row' = [row EXCEPT ![Tag(r)] = <<r, done[r]>>]
            /\ CommitTags(r, {Tag(r)})
       ELSE UNCHANGED <<row, later>>
  /\ done' = [done EXCEPT ![r] = @ + 1]
  /\ UNCHANGED <<pc, job, snap, gone, new>>

\* add_tags and remove_tags return after their last tag.
Return(r) ==
  /\ pc[r] = "add" \/ (pc[r] = "delete" /\ job[r].kind = "delete")
  /\ Finished(r)
  /\ Goto(r, "done")
  /\ UNCHANGED <<row, job, done, snap, gone, new, later>>

-----------------------------------------------------------------------------
\* Whom the statement that r is in waits for.
BlockedOn(r) ==
  CASE pc[r] = "lockrows" /\ ToDelete(r) # {} ->
         IF \E t \in ToDelete(r) : Holders(t) = {} THEN {}
         ELSE UNION {Holders(t) : t \in ToDelete(r)} \ {r}
    [] pc[r] \in {"insert", "add"} /\ ~ Finished(r) -> Holders(Tag(r)) \ {r}
    [] OTHER -> {}

\* Everyone in some set that r belongs to waits for someone in it.
Deadlocked(r) ==
  \E S \in SUBSET Requests :
    r \in S /\ \A q \in S : BlockedOn(q) \cap S # {}

\* Postgres aborts a statement that is part of a deadlock: 500.
DeadlockVictim(r) == Deadlocked(r) /\ Rollback(r)

\* The client goes away or a statement fails: what is not committed is lost,
\* what add_tags and remove_tags have committed stays.
Drop(r) ==
  /\ "drop" \in Faults
  /\ pc[r] \notin {"start", "done", "failed", "dropped"}
  /\ EndTx(r, "dropped")
  /\ UNCHANGED <<row, job, done, later>>

Progress(r) ==
  \/ TakeSnapshot(r)
  \/ DeleteRow(r)
  \/ EndDelete(r)
  \/ InsertTag(r)
  \/ Commit(r)
  \/ AddTag(r)
  \/ Return(r)
  \/ DeadlockVictim(r)

Next == \E r \in Requests : Start(r) \/ Progress(r) \/ Drop(r)

Spec == Init /\ [][Next]_vars

\* Postgres and the runtime go on with every statement that is not blocked,
\* and the deadlock detector runs.
FairSpec == Spec /\ \A r \in Requests : WF_vars(Progress(r))

-----------------------------------------------------------------------------
Present == {t \in TagNames : row[t] # NoRow}
Wanted(r) == ToSet(job[r].tags)

Commits(r) == pc[r] = "insert" /\ pc'[r] = "done"

\* A PUT leaves its own tags and, beside them, at most tags that others
\* committed after its DELETE looked: no tag from before it survives it.
PutReplacesWhatItSaw ==
  [][\A r \in Requests : Commits(r) =>
       /\ Wanted(r) \subseteq Present'
       /\ Present' \subseteq Wanted(r) \cup later[r]]_vars

\* A PUT is refused for a key that is there only if its own list names the
\* tag twice or another request committed the tag after its DELETE looked.
PutFailsForCause ==
  [][\A r \in Requests :
       pc[r] = "insert" /\ pc'[r] = "failed" /\ ~ Deadlocked(r) =>
         Tag(r) \in new[r] \cup later[r]]_vars

\* Two transactions that wait for each other's keys do not wait forever.
RequestsEnd ==
  \A r \in Requests :
    (pc[r] # "start") ~> (pc[r] \in {"done", "failed", "dropped"})
=============================================================================
