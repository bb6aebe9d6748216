----------------------------- MODULE TagsProofs -----------------------------
(***************************************************************************)
(* A PUT of tags replaces what its DELETE saw, and is only refused for     *)
(* what came later, for any number of requests and tags.                   *)
(*                                                                         *)
(* The argument: as long as a PUT is in its DELETE, a row is in the        *)
(* snapshot or was committed later; a row of the snapshot that is still    *)
(* there is deleted before the INSERTs begin; and what is inserted is what *)
(* the loop is through with.                                               *)
(***************************************************************************)
EXTENDS Tags, SequenceTheorems, TLAPS

Putting(r) == pc[r] # "start" /\ job[r].kind = "put"

\* The kinds of request are told by where they are, and a loop does not go
\* beyond its tags.
LoopInv ==
  \A r \in Requests :
    /\ pc[r] = "start" => done[r] = 0
    /\ pc[r] # "start" => done[r] <= Len(job[r].tags)
    /\ pc[r] = "insert" => job[r].kind = "put"
    /\ pc[r] = "add" => job[r].kind = "patch"
    /\ pc[r] \in {"delete", "lockrows"} => job[r].kind # "patch"
    /\ pc[r] = "lockrows" /\ job[r].kind = "delete" => ~ Finished(r)
    /\ Putting(r) /\ pc[r] \in {"delete", "lockrows"} => done[r] = 0

\* What a PUT has inserted is the part of its list that it is through with.
NewInv ==
  \A r \in Requests : pc[r] = "insert" =>
    new[r] = {job[r].tags[i] : i \in 1..done[r]}

\* A row is in the snapshot of a PUT or came later.
SeenInv ==
  \A r \in Requests, t \in TagNames :
    Putting(r) /\ pc[r] = "lockrows" /\ row[t] # NoRow =>
      <<t, row[t]>> \in snap[r] \/ t \in later[r]

\* Once the DELETE is through, a row that it did not delete came later.
LaterInv ==
  \A r \in Requests, t \in TagNames :
    pc[r] = "insert" /\ row[t] # NoRow => t \in gone[r] \/ t \in later[r]

IInv ==
  /\ TypeOK
  /\ job \in [Requests -> Jobs \cup {<<>>}]
  /\ LoopInv /\ NewInv /\ SeenInv /\ LaterInv

-----------------------------------------------------------------------------
\* A request has a list of at most MaxTags tags.
LEMMA JobFacts ==
  ASSUME NEW j \in Jobs
  PROVE  /\ j.kind \in {"put", "patch", "delete"}
         /\ Len(j.tags) \in 0..MaxTags /\ Len(j.tags) \in Nat
         /\ DOMAIN j.tags = 1..Len(j.tags)
         /\ \A i \in 1..Len(j.tags) : j.tags[i] \in TagNames
<1>1. j.kind \in {"put", "patch", "delete"} /\ MaxTags \in Nat
  BY TagsAssumption DEF Jobs
<1>2. PICK m \in 0..MaxTags : j.tags \in [1..m -> TagNames]
  BY DEF Jobs, BoundedSeq, SeqOf
<1>3. j.tags \in Seq(TagNames)
  BY <1>1, <1>2, SeqDef
<1>4. Len(j.tags) = m
  BY <1>1, <1>2, <1>3
<1> QED
  BY <1>1, <1>2, <1>4

\* The tag that the loop of a request is at.
LEMMA TagFacts ==
  ASSUME IInv, NEW r \in Requests, pc[r] # "start"
  PROVE  /\ job[r] \in Jobs
         /\ done[r] \in Nat /\ Len(job[r].tags) \in Nat
         /\ ~ Finished(r) => /\ Tag(r) \in TagNames
                             /\ done[r] + 1 <= Len(job[r].tags)
                             /\ done[r] + 1 \in 0..MaxTags
<1>1. /\ job[r] \in Jobs /\ done[r] \in 0..MaxTags
      /\ done[r] <= Len(job[r].tags)
  BY DEF IInv, TypeOK, LoopInv
<1>2. MaxTags \in Nat
  BY TagsAssumption
<1> QED
  BY <1>1, <1>2, JobFacts DEF Finished, Tag

\* Nothing is under way at first.
THEOREM InitIInv == Init => IInv
<1> SUFFICES ASSUME Init PROVE IInv
  OBVIOUS
<1> USE DEF Init
<1>1. TypeOK
  BY TagsAssumption DEF TypeOK, Labels, Origins
<1>2. job \in [Requests -> Jobs \cup {<<>>}]
  OBVIOUS
<1>3. LoopInv /\ NewInv /\ SeenInv /\ LaterInv
  BY DEF LoopInv, NewInv, SeenInv, LaterInv, Putting
<1> QED
  BY <1>1, <1>2, <1>3 DEF IInv

-----------------------------------------------------------------------------
\* The step is one of request r: what the others are doing stays.
OnlyOf(r) ==
  /\ pc' \in [Requests -> Labels]
  /\ job' \in [Requests -> Jobs \cup {<<>>}]
  /\ done' \in [Requests -> 0..MaxTags]
  /\ snap' \in [Requests -> SUBSET (TagNames \X Origins)]
  /\ gone' \in [Requests -> SUBSET TagNames]
  /\ new' \in [Requests -> SUBSET TagNames]
  /\ \A q \in Requests \ {r} :
       /\ pc'[q] = pc[q] /\ job'[q] = job[q] /\ done'[q] = done[q]
       /\ snap'[q] = snap[q] /\ gone'[q] = gone[q] /\ new'[q] = new[q]

\* Rows come only with the tags S, which the others come to see.
Comes(r, S) ==
  /\ row' \in [TagNames -> Origins \cup {NoRow}]
  /\ \A t \in TagNames : row'[t] = row[t] \/ row'[t] = NoRow \/ t \in S
  /\ later' \in [Requests -> SUBSET TagNames]
  /\ \A q \in Requests \ {r} :
       /\ later[q] \subseteq later'[q]
       /\ pc[q] \in {"lockrows", "insert"} => S \subseteq later'[q]

\* What the invariant asks of request r.
Type(r) ==
  /\ pc[r] # "start" => job[r] \in Jobs
  /\ pc[r] # "insert" => new[r] = {}
  /\ pc[r] \notin {"lockrows", "insert"} => gone[r] = {}

Own(r) ==
  /\ Type(r) /\ LoopInv!(r) /\ NewInv!(r)
  /\ \A t \in TagNames : SeenInv!(r, t) /\ LaterInv!(r, t)

\* For the others, a step of r changes nothing: rows that come are later.
LEMMA OthersKeep ==
  ASSUME IInv, NEW r \in Requests, NEW S,
         OnlyOf(r), Comes(r, S), Own(r)'
  PROVE  IInv'
<1>1. \A q \in Requests \ {r} :
        /\ pc'[q] = pc[q] /\ job'[q] = job[q] /\ done'[q] = done[q]
        /\ snap'[q] = snap[q] /\ gone'[q] = gone[q] /\ new'[q] = new[q]
        /\ Finished(q)' = Finished(q)
  BY DEF OnlyOf, Finished
<1>2. TypeOK'
  BY <1>1 DEF IInv, TypeOK, OnlyOf, Comes, Own, Type
<1>3. LoopInv'
  BY <1>1 DEF IInv, LoopInv, Own, Putting
<1>4. NewInv'
  BY <1>1 DEF IInv, NewInv, Own
<1>5. ASSUME NEW q \in Requests \ {r}, NEW t \in TagNames
      PROVE  SeenInv!(q, t)' /\ LaterInv!(q, t)'
  <2>1. SeenInv!(q, t) /\ LaterInv!(q, t)
    BY DEF IInv, SeenInv, LaterInv
  <2>2. /\ row'[t] = row[t] \/ row'[t] = NoRow \/ t \in S
        /\ later[q] \subseteq later'[q]
        /\ pc[q] \in {"lockrows", "insert"} => S \subseteq later'[q]
    BY DEF Comes
  <2> QED
    BY <1>1, <2>1, <2>2 DEF Putting
<1>6. SeenInv' /\ LaterInv'
  BY <1>5 DEF SeenInv, LaterInv, Own
<1> QED
  BY <1>2, <1>3, <1>4, <1>6 DEF IInv, OnlyOf

-----------------------------------------------------------------------------
\* No rows come.
LEMMA NothingComes ==
  ASSUME TypeOK, NEW r \in Requests, row' = row,
         later' \in [Requests -> SUBSET TagNames],
         \A q \in Requests \ {r} : later'[q] = later[q]
  PROVE  Comes(r, {})
  BY DEF TypeOK, Comes

\* The lists of a request are those it comes with.
LEMMA StartIInv ==
  ASSUME IInv, NEW r \in Requests, Start(r)
  PROVE  IInv'
<1>1. PICK j \in Jobs : job' = [job EXCEPT ![r] = j] /\ Goto(r, First(j.kind))
  BY DEF Start
<1>2. /\ TypeOK /\ job \in [Requests -> Jobs \cup {<<>>}]
      /\ pc[r] = "start" /\ done[r] = 0 /\ new[r] = {} /\ gone[r] = {}
      /\ UNCHANGED <<row, done, snap, gone, new, later>>
  BY DEF IInv, Start, TypeOK, LoopInv
<1>3. /\ \/ j.kind = "put" /\ First(j.kind) = "delete"
         \/ j.kind = "patch" /\ First(j.kind) = "add"
         \/ j.kind = "delete" /\ First(j.kind) = "delete"
      /\ Len(j.tags) \in Nat
  BY JobFacts DEF First
<1>4. pc'[r] = First(j.kind) /\ job'[r] = j
  BY <1>1, <1>2 DEF Goto, TypeOK
<1>5. OnlyOf(r)
  BY <1>1, <1>2, <1>3 DEF OnlyOf, Goto, TypeOK, Labels
<1>6. Comes(r, {})
  BY <1>2, NothingComes DEF TypeOK
<1>7. Own(r)'
  <2>1. done'[r] = 0 /\ new'[r] = {} /\ gone'[r] = {}
    BY <1>2
  <2> QED
    BY <1>3, <1>4, <2>1 DEF Own, Type, Putting
<1> QED
  BY <1>5, <1>6, <1>7, OthersKeep

\* The snapshot shows every row that is there.
LEMMA TakeSnapshotIInv ==
  ASSUME IInv, NEW r \in Requests, TakeSnapshot(r)
  PROVE  IInv'
<1>1. /\ TypeOK /\ job \in [Requests -> Jobs \cup {<<>>}] /\ LoopInv!(r)
      /\ pc[r] = "delete" /\ ~ (job[r].kind = "delete" /\ Finished(r))
      /\ snap' = [snap EXCEPT ![r] =
           {<<t, row[t]>> : t \in {t \in Scope(r) : row[t] # NoRow}}]
      /\ later' = [later EXCEPT ![r] = {}]
      /\ Goto(r, "lockrows")
      /\ UNCHANGED <<row, job, done, gone, new>>
  BY DEF IInv, TakeSnapshot, LoopInv
<1>2. /\ job[r] \in Jobs /\ new[r] = {} /\ gone[r] = {}
      /\ pc'[r] = "lockrows" /\ Finished(r)' = Finished(r)
  BY <1>1 DEF TypeOK, Goto, Finished
<1>3. Scope(r) \subseteq TagNames
  <2>1. CASE job[r].kind = "put"
    BY <2>1 DEF Scope
  <2>2. CASE job[r].kind # "put"
    <3>1. ~ Finished(r)
      BY <1>1, <1>2, <2>2, JobFacts
    <3> QED
      BY <1>1, <2>2, <3>1, TagFacts DEF Scope
  <2> QED
    BY <2>1, <2>2
<1>4. /\ snap'[r] = {<<t, row[t]>> : t \in {t \in Scope(r) : row[t] # NoRow}}
      /\ snap'[r] \in SUBSET (TagNames \X Origins)
  BY <1>1, <1>3 DEF TypeOK
<1>5. OnlyOf(r)
  BY <1>1, <1>4 DEF OnlyOf, Goto, TypeOK, Labels
<1>6. Comes(r, {})
  BY <1>1, NothingComes DEF TypeOK
<1>7. Own(r)'
  <2>1. Type(r)' /\ LoopInv!(r)' /\ NewInv!(r)'
    BY <1>1, <1>2 DEF Type, Putting
  <2>2. ASSUME NEW t \in TagNames PROVE SeenInv!(r, t)' /\ LaterInv!(r, t)'
    BY <1>1, <1>2, <1>4 DEF Putting, Scope
  <2> QED
    BY <2>1, <2>2 DEF Own
<1> QED
  BY <1>5, <1>6, <1>7, OthersKeep

\* A deleted row is still of the snapshot.
LEMMA DeleteRowIInv ==
  ASSUME IInv, NEW r \in Requests, DeleteRow(r)
  PROVE  IInv'
<1>1. PICK t \in TagNames : gone' = [gone EXCEPT ![r] = @ \cup {t}]
  BY DEF DeleteRow, ToDelete
<1>2. /\ TypeOK /\ job \in [Requests -> Jobs \cup {<<>>}]
      /\ Own(r) /\ pc[r] = "lockrows"
      /\ UNCHANGED <<row, pc, job, done, snap, new, later>>
  BY DEF IInv, DeleteRow, Own, Type, TypeOK, LoopInv, NewInv, SeenInv, LaterInv
<1>3. OnlyOf(r)
  BY <1>1, <1>2 DEF OnlyOf, TypeOK
<1>4. Comes(r, {})
  BY <1>2, NothingComes DEF TypeOK
<1>5. Own(r)'
  BY <1>2 DEF Own, Type, Finished, Putting
<1> QED
  BY <1>3, <1>4, <1>5, OthersKeep

\* A PUT has deleted what its snapshot shows, or it is gone: what is left came
\* later.  A DELETE takes its row away.
LEMMA EndDeleteIInv ==
  ASSUME IInv, NEW r \in Requests, EndDelete(r)
  PROVE  IInv'
<1>1. /\ TypeOK /\ job \in [Requests -> Jobs \cup {<<>>}]
      /\ Own(r) /\ job[r] \in Jobs
      /\ pc[r] = "lockrows" /\ ToDelete(r) = {}
      /\ UNCHANGED <<job, later>>
  BY DEF IInv, EndDelete, Own, Type, TypeOK, LoopInv, NewInv, SeenInv, LaterInv
<1>2. CASE job[r].kind = "put"
  <2>1. /\ Goto(r, "insert") /\ snap' = [snap EXCEPT ![r] = {}]
        /\ UNCHANGED <<row, done, gone, new>>
    BY <1>2 DEF EndDelete
  <2>2. pc'[r] = "insert" /\ done[r] = 0 /\ new[r] = {}
    BY <1>1, <1>2, <2>1 DEF Goto, TypeOK, Own, Type, Putting
  <2>3. OnlyOf(r)
    BY <1>1, <2>1 DEF OnlyOf, Goto, TypeOK, Labels
  <2>4. Comes(r, {})
    BY <1>1, <2>1, NothingComes DEF TypeOK
  <2>5. Type(r)' /\ LoopInv!(r)' /\ NewInv!(r)'
    <3>1. \A i \in 1..0 : FALSE
      OBVIOUS
    <3> QED
      BY <1>1, <1>2, <2>1, <2>2, <3>1, JobFacts DEF Type, Putting
  <2>6. ASSUME NEW t \in TagNames PROVE SeenInv!(r, t)' /\ LaterInv!(r, t)'
    <3>1. t \in gone[r] \/ <<t, row[t]>> \notin snap[r]
      BY <1>1 DEF ToDelete
    <3>2. row[t] # NoRow => <<t, row[t]>> \in snap[r] \/ t \in later[r]
      BY <1>1, <1>2 DEF Own, Putting
    <3> QED
      BY <1>1, <2>1, <2>2, <3>1, <3>2
  <2> QED
    BY <2>3, <2>4, <2>5, <2>6, OthersKeep DEF Own
<1>3. CASE job[r].kind # "put"
  <2>1. /\ row' = [t \in TagNames |-> IF t \in gone[r] THEN NoRow ELSE row[t]]
        /\ done' = [done EXCEPT ![r] = @ + 1]
        /\ EndTx(r, "delete")
    BY <1>3 DEF EndDelete
  <2>2. /\ job[r].kind = "delete" /\ ~ Finished(r)
        /\ done[r] + 1 <= Len(job[r].tags) /\ done[r] + 1 \in 0..MaxTags
    BY <1>1, <1>3, JobFacts, TagFacts DEF Own
  <2>3. OnlyOf(r)
    BY <1>1, <2>1, <2>2 DEF OnlyOf, EndTx, Goto, TypeOK, Labels
  <2>4. Comes(r, {})
    BY <1>1, <2>1 DEF Comes, TypeOK
  <2>5. /\ pc'[r] = "delete" /\ done'[r] = done[r] + 1
        /\ gone'[r] = {} /\ new'[r] = {} /\ job'[r] = job[r]
    BY <1>1, <2>1 DEF EndTx, Goto, TypeOK
  <2>6. Own(r)'
    BY <1>1, <2>2, <2>5 DEF Own, Type, Putting
  <2> QED
    BY <2>3, <2>4, <2>6, OthersKeep
<1> QED
  BY <1>2, <1>3

\* What is not committed is lost.
LEMMA FailIInv ==
  ASSUME IInv, NEW r \in Requests, pc[r] # "start",
         NEW label \in {"failed", "dropped"},
         EndTx(r, label), UNCHANGED <<row, job, done, later>>
  PROVE  IInv'
<1>1. /\ TypeOK /\ job \in [Requests -> Jobs \cup {<<>>}]
      /\ job[r] \in Jobs /\ done[r] <= Len(job[r].tags)
  BY DEF IInv, TypeOK, LoopInv
<1>2. OnlyOf(r)
  BY <1>1 DEF OnlyOf, EndTx, Goto, TypeOK, Labels
<1>3. Comes(r, {})
  BY <1>1, NothingComes DEF TypeOK
<1>4. pc'[r] = label /\ gone'[r] = {} /\ new'[r] = {} /\ job'[r] = job[r]
  BY <1>1 DEF EndTx, Goto, TypeOK
<1>5. Own(r)'
  BY <1>1, <1>4 DEF Own, Type, Putting
<1> QED
  BY <1>2, <1>3, <1>5, OthersKeep

\* An INSERT is of the tag that the loop is at.
LEMMA InsertTagIInv ==
  ASSUME IInv, NEW r \in Requests, InsertTag(r)
  PROVE  IInv'
<1>1. /\ TypeOK /\ job \in [Requests -> Jobs \cup {<<>>}]
      /\ Own(r) /\ job[r] \in Jobs
      /\ pc[r] = "insert" /\ ~ Finished(r)
  BY DEF IInv, InsertTag, Own, Type, TypeOK, LoopInv, NewInv, SeenInv, LaterInv
<1>2. CASE Occupied(r, Tag(r))
  <2>1. EndTx(r, "failed") /\ UNCHANGED <<row, job, done, later>>
    BY <1>2 DEF InsertTag, Rollback
  <2> QED
    BY <1>1, <2>1, FailIInv
<1>3. CASE ~ Occupied(r, Tag(r))
  <2>1. /\ new' = [new EXCEPT ![r] = @ \cup {Tag(r)}]
        /\ done' = [done EXCEPT ![r] = @ + 1]
        /\ UNCHANGED <<row, pc, job, snap, gone, later>>
    BY <1>3 DEF InsertTag
  <2>2. /\ Tag(r) \in TagNames /\ Tag(r) = job[r].tags[done[r] + 1]
        /\ done[r] \in Nat /\ done[r] + 1 \in 0..MaxTags
        /\ done[r] + 1 <= Len(job[r].tags)
    BY <1>1, TagFacts DEF Tag
  <2>3. OnlyOf(r)
    BY <1>1, <2>1, <2>2 DEF OnlyOf, TypeOK
  <2>4. Comes(r, {})
    BY <1>1, <2>1, NothingComes DEF TypeOK
  <2>5. done'[r] = done[r] + 1 /\ new'[r] = new[r] \cup {Tag(r)}
    BY <1>1, <2>1 DEF TypeOK
  <2>6. NewInv!(r)'
    <3>1. new[r] = {job[r].tags[k] : k \in 1..done[r]}
      BY <1>1 DEF Own
    <3>2. 1..(done[r] + 1) = 1..done[r] \cup {done[r] + 1}
      BY <2>2
    <3> QED
      BY <2>1, <2>2, <2>5, <3>1, <3>2
  <2>7. Own(r)'
    BY <1>1, <2>1, <2>2, <2>5, <2>6 DEF Own, Type, Putting
  <2> QED
    BY <2>3, <2>4, <2>7, OthersKeep
<1> QED
  BY <1>2, <1>3

\* The rows that a PUT commits are of the tags it has inserted, and the others
\* come to see them.
LEMMA CommitIInv ==
  ASSUME IInv, NEW r \in Requests, Commit(r)
  PROVE  IInv'
<1>1. /\ TypeOK /\ job \in [Requests -> Jobs \cup {<<>>}]
      /\ job[r] \in Jobs /\ done[r] <= Len(job[r].tags)
      /\ row' = [t \in TagNames |-> IF t \in new[r] THEN <<r, 0>>
                                    ELSE IF t \in gone[r] THEN NoRow ELSE row[t]]
      /\ CommitTags(r, new[r])
      /\ EndTx(r, "done")
      /\ UNCHANGED <<job, done>>
  BY DEF IInv, Commit, TypeOK, LoopInv
<1>2. OnlyOf(r)
  BY <1>1 DEF OnlyOf, EndTx, Goto, TypeOK, Labels
<1>3. Comes(r, new[r])
  <2>1. <<r, 0>> \in Origins
    BY TagsAssumption DEF Origins
  <2>2. row' \in [TagNames -> Origins \cup {NoRow}]
    BY <1>1, <2>1 DEF TypeOK
  <2> QED
    BY <1>1, <2>2 DEF Comes, CommitTags, TypeOK
<1>4. pc'[r] = "done" /\ gone'[r] = {} /\ new'[r] = {} /\ job'[r] = job[r]
  BY <1>1 DEF EndTx, Goto, TypeOK
<1>5. Own(r)'
  BY <1>1, <1>4 DEF Own, Type, Putting
<1> QED
  BY <1>2, <1>3, <1>5, OthersKeep

\* A PATCH commits its tag at once.
LEMMA AddTagIInv ==
  ASSUME IInv, NEW r \in Requests, AddTag(r)
  PROVE  IInv'
<1>1. /\ TypeOK /\ job \in [Requests -> Jobs \cup {<<>>}]
      /\ Own(r) /\ job[r] \in Jobs
      /\ pc[r] = "add" /\ ~ Finished(r)
      /\ done' = [done EXCEPT ![r] = @ + 1]
      /\ UNCHANGED <<pc, job, snap, gone, new>>
  BY DEF IInv, AddTag, Own, Type, TypeOK, LoopInv, NewInv, SeenInv, LaterInv
<1>2. /\ Tag(r) \in TagNames /\ done[r] \in 0..MaxTags
      /\ done[r] \in Nat /\ done[r] + 1 \in 0..MaxTags
      /\ done[r] + 1 <= Len(job[r].tags)
  BY <1>1, TagFacts DEF TypeOK
<1>3. OnlyOf(r)
  BY <1>1, <1>2 DEF OnlyOf, TypeOK
<1>4. Comes(r, {Tag(r)}) \/ Comes(r, {})
  <2>1. CASE row[Tag(r)] = NoRow
    <3>1. /\ row' = [row EXCEPT ![Tag(r)] = <<r, done[r]>>]
          /\ CommitTags(r, {Tag(r)})
      BY <2>1 DEF AddTag
    <3>2. <<r, done[r]>> \in Origins
      BY <1>2 DEF Origins
    <3>3. /\ row' \in [TagNames -> Origins \cup {NoRow}]
          /\ \A t \in TagNames : row'[t] = row[t] \/ t \in {Tag(r)}
      BY <1>1, <1>2, <3>1, <3>2 DEF TypeOK
    <3> QED
      BY <1>1, <1>2, <3>1, <3>3 DEF Comes, CommitTags, TypeOK
  <2>2. CASE row[Tag(r)] # NoRow
    <3>1. UNCHANGED <<row, later>>
      BY <2>2 DEF AddTag
    <3> QED
      BY <1>1, <3>1, NothingComes DEF TypeOK
  <2> QED
    BY <2>1, <2>2
<1>5. done'[r] = done[r] + 1 /\ new[r] = {} /\ gone[r] = {}
  BY <1>1 DEF TypeOK
<1>6. Own(r)'
  BY <1>1, <1>2, <1>5 DEF Own, Type, Putting
<1> QED
  BY <1>3, <1>4, <1>6, OthersKeep

\* A PATCH or a DELETE ends.
LEMMA ReturnIInv ==
  ASSUME IInv, NEW r \in Requests, Return(r)
  PROVE  IInv'
<1>1. /\ TypeOK /\ job \in [Requests -> Jobs \cup {<<>>}]
      /\ Own(r) /\ job[r] \in Jobs /\ pc[r] \in {"add", "delete"}
      /\ Goto(r, "done")
      /\ UNCHANGED <<row, job, done, snap, gone, new, later>>
  BY DEF IInv, Return, Own, Type, TypeOK, LoopInv, NewInv, SeenInv, LaterInv
<1>2. OnlyOf(r)
  BY <1>1 DEF OnlyOf, Goto, TypeOK, Labels
<1>3. Comes(r, {})
  BY <1>1, NothingComes DEF TypeOK
<1>4. pc'[r] = "done" /\ new[r] = {} /\ gone[r] = {}
  BY <1>1 DEF Goto, TypeOK
<1>5. Own(r)'
  BY <1>1, <1>4 DEF Own, Type, Putting
<1> QED
  BY <1>2, <1>3, <1>5, OthersKeep

\* Only a statement waits.
LEMMA BlockedIsUnderWay ==
  ASSUME NEW r \in Requests, Deadlocked(r)
  PROVE  pc[r] \in {"lockrows", "insert", "add"}
<1>1. BlockedOn(r) # {}
  BY DEF Deadlocked
<1>2. pc[r] \notin {"lockrows", "insert", "add"} => BlockedOn(r) = {}
  BY DEF BlockedOn
<1> QED
  BY <1>1, <1>2

\* Every step of the tag handlers preserves the invariant.
THEOREM NextIInv == IInv /\ [Next]_vars => IInv'
<1> SUFFICES ASSUME IInv, [Next]_vars PROVE IInv'
  OBVIOUS
<1>1. ASSUME NEW r \in Requests, Start(r) \/ Progress(r) \/ Drop(r)
      PROVE  IInv'
  <2>1. CASE Start(r)
    BY <2>1, StartIInv
  <2>2. CASE TakeSnapshot(r)
    BY <2>2, TakeSnapshotIInv
  <2>3. CASE DeleteRow(r)
    BY <2>3, DeleteRowIInv
  <2>4. CASE EndDelete(r)
    BY <2>4, EndDeleteIInv
  <2>5. CASE InsertTag(r)
    BY <2>5, InsertTagIInv
  <2>6. CASE Commit(r)
    BY <2>6, CommitIInv
  <2>7. CASE AddTag(r)
    BY <2>7, AddTagIInv
  <2>8. CASE Return(r)
    BY <2>8, ReturnIInv
  <2>9. CASE DeadlockVictim(r)
    <3>1. pc[r] # "start"
      BY <2>9, BlockedIsUnderWay DEF DeadlockVictim
    <3> QED
      BY <2>9, <3>1, FailIInv DEF DeadlockVictim, Rollback
  <2>10. CASE Drop(r)
    BY <2>10, FailIInv DEF Drop
  <2> QED
    BY <1>1, <2>1, <2>2, <2>3, <2>4, <2>5, <2>6, <2>7, <2>8, <2>9, <2>10
    DEF Progress
<1>2. CASE UNCHANGED vars
  BY <1>2
  DEF vars, IInv, TypeOK, LoopInv, NewInv, SeenInv, LaterInv, Putting, Finished
<1> QED
  BY <1>1, <1>2 DEF Next

\* The inductive invariant holds in every state.
THEOREM SpecIInv == Spec => []IInv
  BY InitIInv, NextIInv, PTL DEF Spec

\* Every state has its type; outside its transaction, a request holds no key.
THEOREM SpecTypeOK == Spec => []TypeOK
<1>1. IInv => TypeOK
  BY DEF IInv
<1> QED
  BY <1>1, SpecIInv, PTL

-----------------------------------------------------------------------------
\* A handler returns from its INSERTs by the COMMIT only.
LEMMA CommitsIsCommit ==
  ASSUME IInv, [Next]_vars, NEW r \in Requests, Commits(r)
  PROVE  Commit(r)
<1>1. pc[r] = "insert" /\ pc'[r] = "done" /\ pc \in [Requests -> Labels]
  BY DEF Commits, IInv, TypeOK
<1>2. PICK q \in Requests : Start(q) \/ Progress(q) \/ Drop(q)
  BY <1>1 DEF Next, vars
<1>3. \A label : Goto(q, label) => q = r /\ label = "done"
  BY <1>1 DEF Goto
<1>4. pc' # pc
  BY <1>1
<1>5. CASE Start(q)
  BY <1>1, <1>3, <1>5 DEF Start
<1>6. CASE Drop(q)
  BY <1>3, <1>6 DEF Drop, EndTx
<1>7. CASE Progress(q)
  BY <1>1, <1>3, <1>4, <1>7
  DEF Progress, TakeSnapshot, DeleteRow, EndDelete, InsertTag, Commit, AddTag,
      Return, DeadlockVictim, Rollback, EndTx
<1> QED
  BY <1>2, <1>5, <1>6, <1>7

\* What a PUT has inserted when its loop is through are its tags.
LEMMA InsertedIsWanted ==
  ASSUME IInv, NEW r \in Requests, pc[r] = "insert", Finished(r)
  PROVE  new[r] = Wanted(r)
<1>1. job[r] \in Jobs /\ new[r] = {job[r].tags[k] : k \in 1..done[r]}
  BY DEF IInv, TypeOK, NewInv
<1>2. DOMAIN job[r].tags = 1..done[r]
  BY <1>1, JobFacts DEF Finished
<1> QED
  BY <1>1, <1>2 DEF Wanted, ToSet

\* A PUT leaves its own tags and, beside them, only what others committed
\* after its DELETE had looked (set_tags, db.rs).
THEOREM SpecPutReplacesWhatItSaw == Spec => PutReplacesWhatItSaw
<1>1. ASSUME IInv, [Next]_vars, NEW r \in Requests, Commits(r)
      PROVE  /\ Wanted(r) \subseteq Present'
             /\ Present' \subseteq Wanted(r) \cup later[r]
  <2>1. /\ Commit(r) /\ pc[r] = "insert" /\ Finished(r)
        /\ row' = [t \in TagNames |-> IF t \in new[r] THEN <<r, 0>>
                                      ELSE IF t \in gone[r] THEN NoRow
                                                            ELSE row[t]]
    BY <1>1, CommitsIsCommit DEF Commit
  <2>2. new[r] = Wanted(r) /\ new[r] \subseteq TagNames
    BY <1>1, <2>1, InsertedIsWanted DEF IInv, TypeOK
  <2>3. <<r, 0>> # NoRow
    BY TagsAssumption DEF Origins
  <2>4. Present' = {t \in TagNames : row'[t] # NoRow}
    BY DEF Present
  <2>5. \A t \in TagNames : row[t] # NoRow => t \in gone[r] \/ t \in later[r]
    BY <1>1, <2>1 DEF IInv, LaterInv
  <2> QED
    BY <2>1, <2>2, <2>3, <2>4, <2>5
<1>2. IInv /\ [Next]_vars =>
        [\A r \in Requests : Commits(r) =>
           /\ Wanted(r) \subseteq Present'
           /\ Present' \subseteq Wanted(r) \cup later[r]]_vars
  BY <1>1
<1> QED
  BY <1>2, SpecIInv, PTL DEF Spec, PutReplacesWhatItSaw

\* A PUT meets a key that is there only if its list names the tag twice or
\* another request committed the tag after its DELETE had looked: its own
\* DELETE leaves nothing in its way.
THEOREM SpecPutFailsForCause == Spec => PutFailsForCause
<1>1. ASSUME IInv, [Next]_vars, NEW r \in Requests,
             pc[r] = "insert", pc'[r] = "failed", ~ Deadlocked(r)
      PROVE  Tag(r) \in new[r] \cup later[r]
  <2>1. pc \in [Requests -> Labels] /\ pc' # pc
    BY <1>1 DEF IInv, TypeOK
  <2>2. PICK q \in Requests : Start(q) \/ Progress(q) \/ Drop(q)
    BY <1>1 DEF Next, vars
  <2>3. \A label : Goto(q, label) => q = r /\ label = "failed"
    BY <1>1, <2>1 DEF Goto
  <2>4. ~ Start(q) /\ ~ Drop(q)
    BY <1>1, <2>3 DEF Start, Drop, EndTx
  <2>5. DeadlockVictim(q) \/ (q = r /\ InsertTag(r))
    <3>1. ~ TakeSnapshot(q) /\ ~ DeleteRow(q) /\ ~ AddTag(q) /\ ~ Return(q)
      BY <2>1, <2>3 DEF TakeSnapshot, DeleteRow, AddTag, Return
    <3>2. ~ EndDelete(q) /\ ~ Commit(q)
      BY <2>3 DEF EndDelete, Commit, EndTx
    <3>3. InsertTag(q) => q = r
      BY <2>1, <2>3 DEF InsertTag, Rollback, EndTx
    <3> QED
      BY <2>2, <2>4, <3>1, <3>2, <3>3 DEF Progress
  <2>6. ~ DeadlockVictim(q)
    BY <1>1, <2>3 DEF DeadlockVictim, Rollback, EndTx
  <2>7. InsertTag(r) /\ ~ Finished(r)
    BY <2>5, <2>6 DEF InsertTag
  <2>8. Occupied(r, Tag(r))
    BY <2>1, <2>7 DEF InsertTag
  <2>9. Tag(r) \in TagNames
    BY <1>1, <2>7, TagFacts
  <2> QED
    BY <1>1, <2>8, <2>9 DEF Occupied, IInv, LaterInv
<1>2. IInv /\ [Next]_vars =>
        [\A r \in Requests :
           pc[r] = "insert" /\ pc'[r] = "failed" /\ ~ Deadlocked(r) =>
             Tag(r) \in new[r] \cup later[r]]_vars
  BY <1>1
<1> QED
  BY <1>2, SpecIInv, PTL DEF Spec, PutFailsForCause
=============================================================================
