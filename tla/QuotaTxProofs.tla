---------------------------- MODULE QuotaTxProofs ----------------------------
(***************************************************************************)
(* The accounting transactions keep the caps and the deduplication for any *)
(* number of requests, gifs, users and bytes, and they implement Catalog.  *)
(*                                                                         *)
(* The argument: only the holder of the advisory lock adds bytes, so from  *)
(* a check to the commit the totals can only go down (DELETE); the row a   *)
(* replacement is credited for either still occupies the bytes that were   *)
(* read or is gone, and then the UPDATE finds no row.                      *)
(***************************************************************************)
EXTENDS QuotaTx, FiniteSetTheorems, TLAPS

-----------------------------------------------------------------------------
(* What one row adds to, and takes from, the total and its owner's share.  *)

\* Any set of gifs occupies finitely many byte slots.
LEMMA SlotsFinite ==
  ASSUME NEW t, NEW S \in SUBSET Ids
  PROVE  /\ IsFiniteSet(Slots(t, S))
         /\ Cardinality(Slots(t, S)) \in Nat
<1>1. IsFiniteSet(Ids) /\ MaxBytes \in Nat
  BY StorageAssumption
<1>2. IsFiniteSet(S)
  BY <1>1, FS_Subset
<1>3. IsFiniteSet(1..MaxBytes)
  BY <1>1, FS_Interval
<1>4. IsFiniteSet(S \X (1..MaxBytes))
  BY <1>2, <1>3, FS_Product
<1>5. Slots(t, S) \in SUBSET (S \X (1..MaxBytes))
  BY DEF Slots
<1> QED
  BY <1>4, <1>5, FS_Subset, FS_CardinalityType

\* More gifs occupy at least as many bytes, and so do tables with more rows.
LEMMA SlotsMonotone ==
  ASSUME NEW t, NEW w, NEW S \in SUBSET Ids, NEW T \in SUBSET Ids,
         Slots(t, S) \subseteq Slots(w, T)
  PROVE  Cardinality(Slots(t, S)) <= Cardinality(Slots(w, T))
BY SlotsFinite, FS_Subset

\* One row occupies the bytes of its content.
LEMMA SlotsOfOne ==
  ASSUME NEW t \in Tables, NEW i \in Ids
  PROVE  /\ RowBytes(t, i) \in 0..MaxBytes
         /\ Cardinality(Slots(t, {i})) = RowBytes(t, i)
<1> DEFINE n == RowBytes(t, i)
<1>1. n \in 0..MaxBytes /\ MaxBytes \in Nat
  BY StorageAssumption DEF RowBytes, Tables, Row
<1>2. Slots(t, {i}) = {i} \X (1..n)
  <2>1. CASE t[i] = NoRow
    BY <2>1 DEF Slots, RowBytes
  <2>2. CASE t[i] # NoRow
    <3>1. n = Size[t[i].hash]
      BY <2>2 DEF RowBytes
    <3> QED
      BY <1>1, <2>2, <3>1 DEF Slots
  <2> QED
    BY <2>1, <2>2
<1>3. IsFiniteSet(1..n) /\ Cardinality(1..n) = n
  BY <1>1, FS_Interval
<1>4. IsFiniteSet({i}) /\ Cardinality({i}) = 1
  BY FS_Singleton
<1>5. Cardinality({i} \X (1..n)) = 1 * n
  BY <1>3, <1>4, FS_Product
<1>6. 1 * n = n
  BY <1>1
<1>7. Cardinality(Slots(t, {i})) = n
  BY <1>2, <1>5, <1>6
<1> QED
  BY <1>1, <1>7

\* The bytes of a set of gifs, one of them counted apart.
LEMMA SlotsSplit ==
  ASSUME NEW t \in Tables, NEW S \in SUBSET Ids, NEW i \in S
  PROVE  Cardinality(Slots(t, S)) =
           Cardinality(Slots(t, S \ {i})) + RowBytes(t, i)
<1> DEFINE A == Slots(t, S \ {i})
           B == Slots(t, {i})
<1>1. S \ {i} \in SUBSET Ids /\ {i} \in SUBSET Ids
  OBVIOUS
<1>2. IsFiniteSet(A) /\ IsFiniteSet(B)
  BY <1>1, SlotsFinite
<1>3. Cardinality(A \cup B) =
        Cardinality(A) + Cardinality(B) - Cardinality(A \cap B)
  BY <1>2, FS_Union
<1>4. A \cap B = {}
  BY DEF Slots
<1>5. A \cup B = Slots(t, S)
  BY DEF Slots
<1>6. Cardinality(A \cap B) = 0
  BY <1>4, FS_EmptySet
<1>7. Cardinality(A) \in Nat /\ Cardinality(B) = RowBytes(t, i)
  BY <1>1, SlotsFinite, SlotsOfOne
<1>8. RowBytes(t, i) \in Nat
  <2>1. RowBytes(t, i) \in 0..MaxBytes
    BY SlotsOfOne
  <2> QED
    BY <2>1, StorageAssumption
<1>9. Cardinality(A) + Cardinality(B) - 0 = Cardinality(A) + RowBytes(t, i)
  BY <1>7, <1>8
<1> QED
  BY <1>3, <1>5, <1>6, <1>9

\* Tables that agree on a set of gifs give it the same bytes.
LEMMA SlotsAgree ==
  ASSUME NEW t, NEW w, NEW S, \A k \in S : t[k] = w[k]
  PROVE  Slots(t, S) = Slots(w, S)
BY DEF Slots

\* The totals are natural numbers.
LEMMA TotalsType ==
  ASSUME NEW t \in Tables, NEW u
  PROVE  TotalBytes(t) \in Nat /\ UserBytes(t, u) \in Nat
<1>1. Ids \in SUBSET Ids /\ Owned(t, u) \in SUBSET Ids
  BY DEF Owned, Live
<1> QED
  BY <1>1, SlotsFinite DEF TotalBytes, UserBytes

\* Removing a row lowers no other total.
LEMMA DeleteLowers ==
  ASSUME NEW t \in Tables, NEW i \in Ids, NEW u
  PROVE  LET w == [t EXCEPT ![i] = NoRow]
         IN  /\ w \in Tables
             /\ TotalBytes(w) <= TotalBytes(t)
             /\ UserBytes(w, u) <= UserBytes(t, u)
<1> DEFINE w == [t EXCEPT ![i] = NoRow]
<1>1. w \in Tables
  BY DEF Tables
<1>2. \A k \in Ids : w[k] # NoRow => w[k] = t[k]
  BY DEF Tables
<1>3. Slots(w, Ids) \subseteq Slots(t, Ids)
  BY <1>2 DEF Slots
<1>4. Owned(w, u) \subseteq Owned(t, u)
  BY <1>2 DEF Owned, Live
<1>5. Slots(w, Owned(w, u)) \subseteq Slots(t, Owned(t, u))
  BY <1>2, <1>4 DEF Slots, Owned, Live
<1>6. Owned(w, u) \in SUBSET Ids /\ Owned(t, u) \in SUBSET Ids
  BY DEF Owned, Live
<1> QED
  BY <1>1, <1>3, <1>5, <1>6, SlotsMonotone DEF TotalBytes, UserBytes

\* Writing a row adds its bytes to the total in place of the old ones.
LEMMA WriteTotal ==
  ASSUME NEW t \in Tables, NEW i \in Ids, NEW row \in Row
  PROVE  LET w == [t EXCEPT ![i] = row]
         IN  /\ w \in Tables
             /\ TotalBytes(w) = TotalBytes(t) - RowBytes(t, i) + Size[row.hash]
<1> DEFINE w == [t EXCEPT ![i] = row]
           rest == Ids \ {i}
<1>1. w \in Tables
  BY DEF Tables
<1>2. RowBytes(w, i) = Size[row.hash]
  BY StorageAssumption DEF RowBytes, Tables
<1>3. Slots(w, rest) = Slots(t, rest)
  BY SlotsAgree DEF Tables
<1>4. Cardinality(Slots(w, Ids)) = Cardinality(Slots(w, rest)) + RowBytes(w, i)
  BY <1>1, SlotsSplit
<1>5. Cardinality(Slots(t, Ids)) = Cardinality(Slots(t, rest)) + RowBytes(t, i)
  BY SlotsSplit
<1>6. Cardinality(Slots(t, rest)) \in Nat
  BY SlotsFinite
<1>7. RowBytes(t, i) \in Nat /\ Size[row.hash] \in Nat
  <2>1. RowBytes(t, i) \in 0..MaxBytes
    BY SlotsOfOne
  <2>2. row.hash \in Contents
    BY DEF Row
  <2> QED
    BY <2>1, <2>2, StorageAssumption
<1>8. TotalBytes(w) = Cardinality(Slots(t, rest)) + Size[row.hash]
  BY <1>2, <1>3, <1>4 DEF TotalBytes
<1>9. TotalBytes(t) = Cardinality(Slots(t, rest)) + RowBytes(t, i)
  BY <1>5 DEF TotalBytes
<1> QED
  BY <1>1, <1>6, <1>7, <1>8, <1>9

\* Writing a row adds its bytes to its owner's share in place of the old ones,
\* if the old row, where there is one, has the same owner.
LEMMA WriteOwner ==
  ASSUME NEW t \in Tables, NEW i \in Ids, NEW row \in Row,
         t[i] # NoRow => t[i].uploader = row.uploader
  PROVE  UserBytes([t EXCEPT ![i] = row], row.uploader) =
           UserBytes(t, row.uploader) - RowBytes(t, i) + Size[row.hash]
<1> DEFINE w == [t EXCEPT ![i] = row]
           u == row.uploader
           all == Owned(t, u) \cup {i}
           rest == Owned(t, u) \ {i}
<1>1. w \in Tables
  BY DEF Tables
<1>2. Owned(w, u) = all
  BY StorageAssumption DEF Owned, Live, Tables
<1>3. all \in SUBSET Ids /\ rest \in SUBSET Ids /\ all \ {i} = rest
  BY DEF Owned, Live
<1>4. RowBytes(w, i) = Size[row.hash]
  BY StorageAssumption DEF RowBytes, Tables
<1>5. Slots(w, rest) = Slots(t, rest)
  BY <1>3, SlotsAgree DEF Tables
<1>6. Cardinality(Slots(w, all)) = Cardinality(Slots(w, rest)) + RowBytes(w, i)
  BY <1>1, <1>3, SlotsSplit
<1>7. Cardinality(Slots(t, all)) = Cardinality(Slots(t, rest)) + RowBytes(t, i)
  BY <1>3, SlotsSplit
<1>8. Slots(t, all) = Slots(t, Owned(t, u))
  BY DEF Slots, Owned, Live
<1>9. Cardinality(Slots(t, rest)) \in Nat
  BY <1>3, SlotsFinite
<1>10. RowBytes(t, i) \in Nat /\ Size[row.hash] \in Nat
  <2>1. RowBytes(t, i) \in 0..MaxBytes
    BY SlotsOfOne
  <2>2. row.hash \in Contents
    BY DEF Row
  <2> QED
    BY <2>1, <2>2, StorageAssumption
<1>11. UserBytes(w, u) = Cardinality(Slots(t, rest)) + Size[row.hash]
  BY <1>2, <1>4, <1>5, <1>6 DEF UserBytes
<1>12. UserBytes(t, u) = Cardinality(Slots(t, rest)) + RowBytes(t, i)
  BY <1>7, <1>8 DEF UserBytes
<1> QED
  BY <1>9, <1>10, <1>11, <1>12

\* Writing a row leaves the share of everyone else as it is.
LEMMA WriteOthers ==
  ASSUME NEW t \in Tables, NEW i \in Ids, NEW row \in Row,
         t[i] # NoRow => t[i].uploader = row.uploader,
         NEW v, v # row.uploader
  PROVE  UserBytes([t EXCEPT ![i] = row], v) = UserBytes(t, v)
<1> DEFINE w == [t EXCEPT ![i] = row]
<1>1. Owned(w, v) = Owned(t, v)
  BY StorageAssumption DEF Owned, Live, Tables
<1>2. \A k \in Owned(t, v) : w[k] = t[k]
  BY DEF Owned, Live, Tables
<1>3. Slots(w, Owned(t, v)) = Slots(t, Owned(t, v))
  BY <1>2, SlotsAgree
<1> QED
  BY <1>1, <1>3 DEF UserBytes

\* Whatever the sign of the byte count, the cast to u64 lets through only
\* counts up to the cap.
LEMMA ExceedsNotMeansWithin ==
  ASSUME NEW n \in Int, NEW cap \in 0..(U64 - 1), ~ Exceeds(n, cap)
  PROVE  n <= cap
BY StorageAssumption DEF Exceeds, AsU64

-----------------------------------------------------------------------------
\* No request has begun and nothing is stored.
THEOREM InitIInv == Init => IInv
<1> SUFFICES ASSUME Init PROVE IInv
  OBVIOUS
<1> USE DEF Init
<1>1. TypeOK
  BY StorageAssumption DEF TypeOK, Tables, Labels
<1>2. Live(rows) = {}
  BY DEF Live
<1>3. \A S \in SUBSET Ids : Cardinality(Slots(rows, S)) = 0
  <2> SUFFICES ASSUME NEW S \in SUBSET Ids
               PROVE  Cardinality(Slots(rows, S)) = 0
    OBVIOUS
  <2>1. Slots(rows, S) = {}
    BY DEF Slots
  <2> QED
    BY <2>1, FS_EmptySet
<1>4. GlobalCap
  <2>1. TotalBytes(rows) = 0
    BY <1>3 DEF TotalBytes
  <2> QED
    BY <2>1, StorageAssumption DEF GlobalCap
<1>5. UserCap
  <2> SUFFICES ASSUME NEW u \in Users
               PROVE  UserBytes(rows, u) <= PerUserMax
    BY DEF UserCap
  <2>1. Owned(rows, u) \in SUBSET Ids
    BY DEF Owned, Live
  <2>2. UserBytes(rows, u) = 0
    BY <1>3, <2>1 DEF UserBytes
  <2> QED
    BY <2>2, StorageAssumption
<1>6. LockInv
  BY QuotaTxAssumption DEF LockInv, Locked
<1>7. JobInv /\ OldInv
  BY DEF JobInv, OldInv
<1>8. CapInv /\ DedupInv /\ NoResurrection
  BY DEF CapInv, DedupInv, NoResurrection, Locked
<1>9. UniqueInv
  BY <1>2 DEF UniqueInv
<1> QED
  BY <1>1, <1>4, <1>5, <1>6, <1>7, <1>8, <1>9 DEF IInv

-----------------------------------------------------------------------------
\* A transaction that ends without a commit changes nothing for the others.
LEMMA LeaveIInv ==
  ASSUME IInv, NEW r \in Requests, pc[r] # "idle", Leave(r), rows' = rows
  PROVE  IInv'
<1> USE DEF Leave, Goto
<1>0. /\ TypeOK
      /\ pc' = [pc EXCEPT ![r] = "idle"]
      /\ \A q \in Requests : q # r =>
           pc'[q] = pc[q] /\ job'[q] = job[q] /\ old'[q] = old[q]
      /\ pc'[r] = "idle" /\ old'[r] = 0
  BY DEF IInv, TypeOK
<1>1. TypeOK'
  BY <1>0, StorageAssumption DEF TypeOK, Labels
<1>2. LockInv'
  BY <1>0, QuotaTxAssumption DEF IInv, LockInv, Locked, TypeOK
<1>3. JobInv'
  BY <1>0 DEF IInv, JobInv
<1>4. OldInv'
  BY <1>0 DEF IInv, OldInv, RowBytes
<1>5. CapInv'
  BY <1>0 DEF IInv, CapInv, RowMissing, After, TotalBytes, UserBytes
<1>6. DedupInv'
  BY <1>0 DEF IInv, DedupInv, KeyTaken, Locked
<1>7. NoResurrection'
  BY <1>0 DEF IInv, NoResurrection
<1>8. UniqueInv' /\ GlobalCap' /\ UserCap'
  BY DEF IInv, UniqueInv, GlobalCap, UserCap
<1> QED
  BY <1>1, <1>2, <1>3, <1>4, <1>5, <1>6, <1>7, <1>8 DEF IInv

\* Handlers start with a snapshot of the row they are about.
LEMMA StartIInv ==
  ASSUME IInv, NEW r \in Requests, StartUpload(r) \/ StartReplace(r)
  PROVE  IInv'
<1>0. /\ pc[r] = "idle" /\ pc' = [pc EXCEPT ![r] = "begin"]
      /\ rows' = rows /\ old' = old /\ lock' = lock
      /\ others' = others
      /\ \A q \in Requests : q # r => pc'[q] = pc[q] /\ job'[q] = job[q]
      /\ pc'[r] = "begin" /\ old[r] = 0
      /\ job'[r] \in Jobs
      /\ job' \in [Requests -> Jobs \cup {NoJob}]
  <2>1. TypeOK /\ OldInv
    BY DEF IInv
  <2>2. CASE StartUpload(r)
    <3>1. PICK i \in Ids, u \in Users, c \in Contents :
            job' = [job EXCEPT ![r] = [kind |-> "upload", id |-> i,
                                       uploader |-> u, hash |-> c]]
      BY <2>2 DEF StartUpload
    <3>2. [kind |-> "upload", id |-> i, uploader |-> u, hash |-> c] \in Jobs
      BY DEF Jobs
    <3> QED
      BY <2>1, <2>2, <3>1, <3>2 DEF StartUpload, Goto, TypeOK, OldInv
  <2>3. CASE StartReplace(r)
    <3>1. PICK i \in Live(rows), c \in Contents :
            job' = [job EXCEPT ![r] = [kind |-> "replace", id |-> i,
                                       uploader |-> rows[i].uploader, hash |-> c]]
      BY <2>3 DEF StartReplace
    <3>2. [kind |-> "replace", id |-> i,
           uploader |-> rows[i].uploader, hash |-> c] \in Jobs
      BY <2>1 DEF TypeOK, Tables, Row, Live, Jobs
    <3> QED
      BY <2>1, <2>3, <3>1, <3>2 DEF StartReplace, Goto, TypeOK, OldInv
  <2> QED
    BY <2>2, <2>3
<1>1. TypeOK'
  BY <1>0 DEF IInv, TypeOK, Labels
<1>2. LockInv'
  BY <1>0 DEF IInv, LockInv, Locked
<1>3. JobInv'
  <2>1. CASE StartUpload(r)
    <3>1. PICK i \in Ids : Fresh(i) /\ job'[r].id = i
      <4>1. TypeOK
        BY DEF IInv
      <4> QED
        BY <2>1, <4>1 DEF StartUpload, TypeOK
    <3> QED
      BY <1>0, <3>1 DEF IInv, JobInv, Fresh
  <2>2. CASE StartReplace(r)
    <3>1. rows[job'[r].id] # NoRow /\ job'[r].kind = "replace"
      <4>1. TypeOK
        BY DEF IInv
      <4> QED
        BY <2>2, <4>1 DEF StartReplace, TypeOK, Live
    <3> QED
      BY <1>0, <3>1 DEF IInv, JobInv
  <2> QED
    BY <2>1, <2>2
<1>4. OldInv'
  <2>1. job'[r].kind = "replace" => rows[job'[r].id].uploader = job'[r].uploader
    <3>1. TypeOK
      BY DEF IInv
    <3>2. CASE StartUpload(r)
      BY <3>1, <3>2 DEF StartUpload, TypeOK
    <3>3. CASE StartReplace(r)
      BY <3>1, <3>3 DEF StartReplace, TypeOK
    <3> QED
      BY <3>2, <3>3
  <2> QED
    BY <1>0, <2>1 DEF IInv, OldInv, RowBytes
<1>5. CapInv'
  BY <1>0 DEF IInv, CapInv, RowMissing, After, TotalBytes, UserBytes
<1>6. DedupInv' /\ NoResurrection'
  BY <1>0 DEF IInv, DedupInv, KeyTaken, Locked, NoResurrection
<1>7. UniqueInv' /\ GlobalCap' /\ UserCap'
  BY <1>0 DEF IInv, UniqueInv, GlobalCap, UserCap
<1> QED
  BY <1>1, <1>2, <1>3, <1>4, <1>5, <1>6, <1>7 DEF IInv

\* A statement that reads, or a wait that ends, moves one request on.
LEMMA AdvanceIInv ==
  ASSUME IInv, NEW r \in Requests, NEW label \in Labels,
         pc[r] # "idle", label # "idle",
         pc' = [pc EXCEPT ![r] = label],
         UNCHANGED <<rows, job>>,
         TypeOK', LockInv', OldInv',
         \A q \in Requests : q # r => old'[q] = old[q],
         label \in {"user", "write", "commit"} /\ ~ RowMissing(r) =>
           After(r, TotalBytes(rows))' <= GlobalMax,
         label \in {"write", "commit"} /\ ~ RowMissing(r) =>
           After(r, UserBytes(rows, job[r].uploader))' <= PerUserMax,
         label \in Locked \ {"dedup"} => ~ KeyTaken(r),
         label = "commit" => (job[r].kind = "replace") = (rows[job[r].id] # NoRow)
  PROVE  IInv'
<1>0. /\ rows' = rows /\ job' = job
      /\ \A q \in Requests : q # r => pc'[q] = pc[q] /\ old'[q] = old[q]
      /\ pc'[r] = label
  BY DEF IInv, TypeOK
<1>1. JobInv'
  BY <1>0 DEF IInv, JobInv
<1>2. CapInv'
  BY <1>0 DEF IInv, CapInv, RowMissing, After, TotalBytes, UserBytes
<1>3. DedupInv' /\ NoResurrection'
  BY <1>0 DEF IInv, DedupInv, KeyTaken, NoResurrection
<1>4. UniqueInv' /\ GlobalCap' /\ UserCap'
  BY <1>0 DEF IInv, UniqueInv, GlobalCap, UserCap
<1> QED
  BY <1>1, <1>2, <1>3, <1>4 DEF IInv

\* What a lock holder is credited with is what its row occupies.
LEMMA AfterIsNumber ==
  ASSUME IInv, NEW r \in Requests, pc[r] # "idle", NEW n \in Nat
  PROVE  /\ After(r, n) \in Int
         /\ Size[job[r].hash] \in Nat /\ old[r] \in Nat
         /\ job[r].id \in Ids /\ job[r].uploader \in Users
         /\ job[r].hash \in Contents
         /\ job[r].kind \in {"upload", "replace"}
<1>1. job[r] \in Jobs
  BY DEF IInv, JobInv
<1>2. old[r] \in 0..MaxBytes
  BY DEF IInv, TypeOK
<1>3. /\ job[r].id \in Ids /\ job[r].uploader \in Users
      /\ job[r].hash \in Contents
      /\ job[r].kind \in {"upload", "replace"}
  BY <1>1 DEF Jobs
<1>4. Size[job[r].hash] \in Nat /\ old[r] \in Nat
  BY <1>2, <1>3, StorageAssumption
<1> QED
  BY <1>3, <1>4 DEF After

LEMMA BeginIInv ==
  ASSUME IInv, NEW r \in Requests, Begin(r)
  PROVE  IInv'
<1> USE DEF Begin, Goto
<1>1. TypeOK'
  BY DEF IInv, TypeOK, Labels, InTx
<1>2. LockInv' /\ OldInv'
  BY DEF IInv, LockInv, Locked, OldInv, RowBytes, TypeOK
<1> QED
  BY <1>1, <1>2, AdvanceIInv DEF Labels, InTx, Locked

LEMMA TakeLockIInv ==
  ASSUME IInv, NEW r \in Requests, TakeLock(r)
  PROVE  IInv'
<1> USE DEF TakeLock, Goto
<1>1. TypeOK'
  BY DEF IInv, TypeOK, Labels, InTx, Locked
<1>2. LockInv'
  BY QuotaTxAssumption DEF IInv, LockInv, Locked, TypeOK
<1>3. OldInv'
  BY DEF IInv, OldInv, RowBytes, TypeOK
<1> QED
  BY <1>1, <1>2, <1>3, AdvanceIInv DEF Labels, InTx, Locked

LEMMA CheckDuplicateIInv ==
  ASSUME IInv, NEW r \in Requests, CheckDuplicate(r)
  PROVE  IInv'
<1> USE DEF CheckDuplicate
<1>1. CASE KeyTaken(r)
  BY <1>1, LeaveIInv DEF KeyTaken
<1>2. CASE ~ KeyTaken(r)
  <2> DEFINE label == AfterDedup(r)
  <2>1. /\ pc' = [pc EXCEPT ![r] = label]
        /\ UNCHANGED <<rows, job, old, lock, others>>
    BY <1>2 DEF KeyTaken, Goto
  <2>2. label \in {"old", "global"}
        /\ (label = "global" => job[r].kind # "replace")
    BY DEF AfterDedup
  <2>3. TypeOK' /\ LockInv'
    BY <2>1, <2>2 DEF IInv, TypeOK, Labels, InTx, Locked, LockInv
  <2>4. OldInv'
    <3>1. job[r].kind \in {"upload", "replace"}
      BY AfterIsNumber
    <3> QED
      BY <2>1, <2>2, <3>1 DEF IInv, OldInv, RowBytes, TypeOK
  <2> QED
    BY <1>2, <2>1, <2>2, <2>3, <2>4, AdvanceIInv DEF Labels, InTx, Locked
<1> QED
  BY <1>1, <1>2

LEMMA ReadOldIInv ==
  ASSUME IInv, NEW r \in Requests, ReadOld(r)
  PROVE  IInv'
<1> USE DEF ReadOld, Goto
<1>1. job[r].id \in Ids
  BY AfterIsNumber
<1>2. RowBytes(rows, job[r].id) \in 0..MaxBytes
  BY <1>1, SlotsOfOne DEF IInv, TypeOK
<1>3. TypeOK' /\ LockInv'
  BY <1>2 DEF IInv, TypeOK, Labels, InTx, Locked, LockInv
<1>4. OldInv'
  BY DEF IInv, OldInv, RowBytes, TypeOK, JobInv
<1>5. ~ KeyTaken(r)
  BY DEF IInv, DedupInv, Locked
<1> QED
  BY <1>3, <1>4, <1>5, AdvanceIInv DEF Labels, InTx, Locked, IInv, TypeOK

LEMMA CheckGlobalIInv ==
  ASSUME IInv, NEW r \in Requests, CheckGlobal(r)
  PROVE  IInv'
<1> USE DEF CheckGlobal
<1> DEFINE n == After(r, TotalBytes(rows))
<1>1. CASE Exceeds(n, GlobalMax)
  BY <1>1, LeaveIInv
<1>2. CASE ~ Exceeds(n, GlobalMax)
  <2>1. n <= GlobalMax
    <3>1. TotalBytes(rows) \in Nat
      BY TotalsType DEF IInv, TypeOK
    <3>2. n \in Int
      BY <3>1, AfterIsNumber
    <3>3. GlobalMax \in 0..(U64 - 1)
      BY StorageAssumption
    <3> QED
      BY <1>2, <3>2, <3>3, ExceedsNotMeansWithin
  <2>2. /\ pc' = [pc EXCEPT ![r] = "user"]
        /\ UNCHANGED <<rows, job, old, lock, others>>
    BY <1>2 DEF Goto
  <2>3. TypeOK' /\ LockInv'
    BY <2>2 DEF IInv, TypeOK, Labels, InTx, Locked, LockInv
  <2>4. OldInv'
    BY <2>2 DEF IInv, OldInv, RowBytes, TypeOK
  <2>5. ~ KeyTaken(r)
    BY DEF IInv, DedupInv, Locked
  <2>6. After(r, TotalBytes(rows))' <= GlobalMax
    BY <2>1, <2>2 DEF After, TotalBytes, Slots
  <2> QED
    BY <2>2, <2>3, <2>4, <2>5, <2>6, AdvanceIInv DEF Labels, InTx, Locked
<1> QED
  BY <1>1, <1>2

LEMMA CheckUserIInv ==
  ASSUME IInv, NEW r \in Requests, CheckUser(r)
  PROVE  IInv'
<1> USE DEF CheckUser
<1> DEFINE n == After(r, UserBytes(rows, job[r].uploader))
<1>1. CASE Exceeds(n, PerUserMax)
  BY <1>1, LeaveIInv
<1>2. CASE ~ Exceeds(n, PerUserMax)
  <2>1. n <= PerUserMax
    <3>1. UserBytes(rows, job[r].uploader) \in Nat
      BY TotalsType DEF IInv, TypeOK
    <3>2. n \in Int
      BY <3>1, AfterIsNumber
    <3>3. PerUserMax \in 0..(U64 - 1)
      BY StorageAssumption
    <3> QED
      BY <1>2, <3>2, <3>3, ExceedsNotMeansWithin
  <2>2. /\ pc' = [pc EXCEPT ![r] = "write"]
        /\ UNCHANGED <<rows, job, old, lock, others>>
    BY <1>2 DEF Goto
  <2>3. TypeOK' /\ LockInv'
    BY <2>2 DEF IInv, TypeOK, Labels, InTx, Locked, LockInv
  <2>4. OldInv'
    BY <2>2 DEF IInv, OldInv, RowBytes, TypeOK
  <2>5. ~ KeyTaken(r)
    BY DEF IInv, DedupInv, Locked
  <2>6. After(r, UserBytes(rows, job[r].uploader))' <= PerUserMax
    BY <2>1, <2>2 DEF After, UserBytes, Slots, Owned, Live
  <2>7. ~ RowMissing(r) => After(r, TotalBytes(rows))' <= GlobalMax
    BY <2>2 DEF IInv, CapInv, After, TotalBytes, Slots
  <2> QED
    BY <2>2, <2>3, <2>4, <2>5, <2>6, <2>7, AdvanceIInv DEF Labels, InTx, Locked
<1> QED
  BY <1>1, <1>2

LEMMA WriteRowsIInv ==
  ASSUME IInv, NEW r \in Requests, WriteRows(r)
  PROVE  IInv'
<1> USE DEF WriteRows
<1>1. CASE KeyTaken(r) \/ RowMissing(r)
  BY <1>1, LeaveIInv
<1>2. CASE ~ (KeyTaken(r) \/ RowMissing(r))
  <2>1. /\ pc' = [pc EXCEPT ![r] = "commit"]
        /\ UNCHANGED <<rows, job, old, lock, others>>
    BY <1>2 DEF Goto
  <2>2. TypeOK' /\ LockInv'
    BY <2>1 DEF IInv, TypeOK, Labels, InTx, Locked, LockInv
  <2>3. OldInv'
    BY <2>1 DEF IInv, OldInv, RowBytes, TypeOK
  <2>4. /\ After(r, TotalBytes(rows))' <= GlobalMax
        /\ After(r, UserBytes(rows, job[r].uploader))' <= PerUserMax
    BY <1>2, <2>1 DEF IInv, CapInv, After, TotalBytes, UserBytes, Slots, Owned, Live
  <2>5. (job[r].kind = "replace") = (rows[job[r].id] # NoRow)
    <3>1. job[r].kind \in {"upload", "replace"}
      BY AfterIsNumber
    <3> QED
      BY <1>2, <3>1 DEF IInv, JobInv, RowMissing
  <2> QED
    BY <1>2, <2>1, <2>2, <2>3, <2>4, <2>5, AdvanceIInv DEF Labels, InTx, Locked
<1> QED
  BY <1>1, <1>2

\* COMMIT is the one step that adds bytes.
LEMMA CommitIInv ==
  ASSUME IInv, NEW r \in Requests, Commit(r)
  PROVE  IInv'
<1> DEFINE i == job[r].id
           row == [uploader |-> job[r].uploader, hash |-> job[r].hash]
<1>1. /\ pc[r] = "commit" /\ lock = r
      /\ \A q \in Requests \ {r} : pc[q] \notin Locked
      /\ rows' = [rows EXCEPT ![i] = row]
      /\ pc' = [pc EXCEPT ![r] = "idle"] /\ job' = [job EXCEPT ![r] = NoJob]
      /\ old' = [old EXCEPT ![r] = 0] /\ lock' = NoRequest /\ others' = others
  BY QuotaTxAssumption DEF Commit, Leave, Goto, IInv, LockInv, Locked
<1>2. /\ i \in Ids /\ row \in Row
      /\ job[r].kind \in {"upload", "replace"}
      /\ row.uploader = job[r].uploader /\ row.hash = job[r].hash
  BY <1>1, AfterIsNumber DEF Row
<1>3. /\ rows \in Tables /\ rows' \in Tables /\ row # NoRow
      /\ rows'[i] = row
      /\ \A k \in Ids \ {i} : rows'[k] = rows[k]
      /\ pc'[r] = "idle" /\ old'[r] = 0
      /\ \A q \in Requests \ {r} :
           pc'[q] = pc[q] /\ job'[q] = job[q] /\ old'[q] = old[q]
  BY <1>1, <1>2, StorageAssumption DEF IInv, TypeOK, Tables
<1>4. /\ old[r] = RowBytes(rows, i)
      /\ rows[i] # NoRow => rows[i].uploader = row.uploader
      /\ ~ RowMissing(r)
  BY <1>1, <1>2 DEF IInv, OldInv, NoResurrection, RowMissing, RowBytes
<1>5. TypeOK'
  BY <1>1, <1>3, StorageAssumption DEF IInv, TypeOK, Labels
<1>6. LockInv'
  BY <1>1, <1>3, QuotaTxAssumption DEF LockInv, Locked
<1>7. JobInv'
  <2> SUFFICES ASSUME NEW q \in Requests, pc'[q] # "idle", job[q].kind = "upload"
               PROVE  /\ job'[q] = job[q] /\ job[q] \in Jobs /\ q # r
                      /\ rows'[job[q].id] = NoRow
    BY <1>3 DEF IInv, JobInv
  <2>1. q # r /\ job[q] \in Jobs /\ rows[job[q].id] = NoRow /\ job[q].id # i
    BY <1>1, <1>3 DEF IInv, JobInv
  <2>2. job[q].id \in Ids
    BY <2>1 DEF Jobs
  <2> QED
    BY <1>3, <2>1, <2>2
<1>8. OldInv'
  <2> SUFFICES ASSUME NEW q \in Requests \ {r}, pc[q] # "idle",
                      job[q].kind = "replace", rows'[job[q].id] # NoRow
               PROVE  rows'[job[q].id].uploader = job[q].uploader
    BY <1>1, <1>3 DEF IInv, OldInv, Locked
  <2>1. job[q].id \in Ids
    BY AfterIsNumber
  <2>2. CASE job[q].id = i
    <3>1. rows[i] # NoRow
      BY <1>1, <1>2, <2>2 DEF IInv, NoResurrection, JobInv
    <3> QED
      BY <1>2, <1>3, <1>4, <2>2, <3>1 DEF IInv, OldInv
  <2>3. CASE job[q].id # i
    BY <1>3, <2>1, <2>3 DEF IInv, OldInv
  <2> QED
    BY <2>2, <2>3
<1>9. CapInv' /\ DedupInv' /\ NoResurrection'
  BY <1>1, <1>3 DEF CapInv, DedupInv, NoResurrection, Locked
<1>10. UniqueInv'
  <2>1. ~ KeyTaken(r)
    BY <1>1 DEF IInv, DedupInv, Locked
  <2> QED
    BY <1>2, <1>3, <2>1 DEF IInv, UniqueInv, KeyTaken, Taken, Owned, Live
<1>11. GlobalCap'
  <2>1. TotalBytes(rows)' = TotalBytes(rows) - old[r] + Size[job[r].hash]
    <3>1. TotalBytes(rows') = TotalBytes(rows) - RowBytes(rows, i) + Size[row.hash]
      BY <1>1, <1>2, <1>3, WriteTotal
    <3> QED
      BY <1>2, <1>4, <3>1 DEF TotalBytes, Slots
  <2> QED
    BY <1>1, <1>4, <2>1 DEF IInv, CapInv, After, GlobalCap
<1>12. UserCap'
  <2> SUFFICES ASSUME NEW u \in Users
               PROVE  UserBytes(rows', u) <= PerUserMax
    BY DEF UserCap
  <2>1. CASE u = row.uploader
    <3>1. UserBytes(rows', u) = UserBytes(rows, u) - RowBytes(rows, i) + Size[row.hash]
      BY <1>1, <1>2, <1>3, <1>4, <2>1, WriteOwner
    <3>2. UserBytes(rows', u) = After(r, UserBytes(rows, job[r].uploader))
      BY <1>2, <1>4, <2>1, <3>1 DEF After
    <3> QED
      BY <1>1, <1>4, <3>2 DEF IInv, CapInv
  <2>2. CASE u # row.uploader
    <3>1. UserBytes([rows EXCEPT ![i] = row], u) = UserBytes(rows, u)
      <4> HIDE DEF row, i
      <4> QED
        BY <1>2, <1>3, <1>4, <2>2, WriteOthers
    <3> QED
      BY <1>1, <3>1 DEF IInv, UserCap
  <2> QED
    BY <2>1, <2>2
<1> QED
  BY <1>5, <1>6, <1>7, <1>8, <1>9, <1>10, <1>11, <1>12 DEF IInv

\* A deletion may come between any two statements of a transaction.
LEMMA DeleteIInv ==
  ASSUME IInv, NEW i \in Ids, DeleteGif(i)
  PROVE  IInv'
<1>1. /\ rows' = [rows EXCEPT ![i] = NoRow]
      /\ pc' = pc /\ job' = job /\ old' = old /\ lock' = lock
      /\ others' = others /\ ~ RowLocked(i)
  BY DEF DeleteGif
<1>2. rows \in Tables
  BY DEF IInv, TypeOK
<1>3. /\ rows' \in Tables
      /\ TotalBytes(rows') <= TotalBytes(rows)
      /\ \A u : UserBytes(rows', u) <= UserBytes(rows, u)
  BY <1>1, <1>2, DeleteLowers
<1>4. \A k \in Ids : rows'[k] # NoRow => k # i /\ rows'[k] = rows[k]
  BY <1>1, <1>2 DEF Tables
<1>5. TypeOK' /\ LockInv'
  BY <1>1, <1>3 DEF IInv, TypeOK, LockInv
<1>6. JobInv'
  <2> SUFFICES ASSUME NEW q \in Requests, pc[q] # "idle", job[q].kind = "upload"
               PROVE  rows'[job[q].id] = NoRow
    BY <1>1 DEF IInv, JobInv
  <2>1. job[q].id \in Ids /\ rows[job[q].id] = NoRow
    BY AfterIsNumber DEF IInv, JobInv
  <2> QED
    BY <1>4, <2>1
<1>7. OldInv'
  <2> SUFFICES ASSUME NEW q \in Requests, pc[q] # "idle",
                      job[q].kind = "replace", rows'[job[q].id] # NoRow
               PROVE  rows[job[q].id] # NoRow /\ rows'[job[q].id] = rows[job[q].id]
    BY <1>1 DEF IInv, OldInv, RowBytes
  <2>1. job[q].id \in Ids
    BY AfterIsNumber
  <2> QED
    BY <1>4, <2>1
<1>8. CapInv'
  <2> SUFFICES ASSUME NEW q \in Requests, pc[q] \in {"user", "write", "commit"},
                      ~ RowMissing(q)'
               PROVE  /\ After(q, TotalBytes(rows')) <= GlobalMax
                      /\ pc[q] \in {"write", "commit"} =>
                           After(q, UserBytes(rows', job[q].uploader)) <= PerUserMax
    BY <1>1 DEF CapInv, RowMissing, After
  <2>1. job[q].id \in Ids /\ Size[job[q].hash] \in Nat /\ old[q] \in Nat
    BY AfterIsNumber
  <2>2. ~ RowMissing(q)
    BY <1>1, <1>4, <2>1 DEF RowMissing
  <2>3. /\ TotalBytes(rows) \in Nat /\ TotalBytes(rows') \in Nat
        /\ \A u : UserBytes(rows, u) \in Nat /\ UserBytes(rows', u) \in Nat
    BY <1>2, <1>3, TotalsType
  <2>4. /\ After(q, TotalBytes(rows)) <= GlobalMax
        /\ pc[q] \in {"write", "commit"} =>
             After(q, UserBytes(rows, job[q].uploader)) <= PerUserMax
    BY <2>2 DEF IInv, CapInv
  <2>5. GlobalMax \in Nat /\ PerUserMax \in Nat
    BY StorageAssumption
  <2> QED
    BY <1>3, <2>1, <2>3, <2>4, <2>5 DEF After
<1>9. DedupInv'
  BY <1>1, <1>4 DEF IInv, DedupInv, KeyTaken, Taken, Owned, Live
<1>10. NoResurrection'
  <2> SUFFICES ASSUME NEW q \in Requests, pc[q] = "commit"
               PROVE  (job[q].kind = "replace") = (rows'[job[q].id] # NoRow)
    BY <1>1 DEF NoResurrection
  <2>1. job[q].id \in Ids
    BY AfterIsNumber
  <2>2. job[q].kind = "replace" => job[q].id # i
    BY <1>1 DEF RowLocked
  <2> QED
    BY <1>1, <1>2, <1>4, <2>1, <2>2 DEF IInv, NoResurrection, Tables
<1>11. UniqueInv'
  BY <1>4 DEF IInv, UniqueInv, Taken, Owned, Live
<1>12. GlobalCap' /\ UserCap'
  <2>1. GlobalMax \in Nat /\ PerUserMax \in Nat
    BY StorageAssumption
  <2>2. /\ TotalBytes(rows) \in Nat /\ TotalBytes(rows') \in Nat
        /\ \A u : UserBytes(rows, u) \in Nat /\ UserBytes(rows', u) \in Nat
    BY <1>2, <1>3, TotalsType
  <2>3. TotalBytes(rows') <= GlobalMax
    BY <1>3, <2>1, <2>2 DEF IInv, GlobalCap
  <2>4. \A u \in Users : UserBytes(rows', u) <= PerUserMax
    <3> SUFFICES ASSUME NEW u \in Users PROVE UserBytes(rows', u) <= PerUserMax
      OBVIOUS
    <3> QED
      BY <1>3, <2>1, <2>2 DEF IInv, UserCap
  <2> QED
    BY <2>3, <2>4 DEF GlobalCap, UserCap
<1> QED
  BY <1>5, <1>6, <1>7, <1>8, <1>9, <1>10, <1>11, <1>12 DEF IInv

-----------------------------------------------------------------------------
THEOREM StepIInv == IInv /\ [Next]_vars => IInv'
<1> SUFFICES ASSUME IInv, [Next]_vars PROVE IInv'
  OBVIOUS
<1>1. CASE \E r \in Requests : StartUpload(r) \/ StartReplace(r)
  BY <1>1, StartIInv
<1>2. CASE \E r \in Requests : Begin(r)
  BY <1>2, BeginIInv
<1>3. CASE \E r \in Requests : TakeLock(r)
  BY <1>3, TakeLockIInv
<1>4. CASE \E r \in Requests : Statement(r)
  BY <1>4, CheckDuplicateIInv, ReadOldIInv, CheckGlobalIInv, CheckUserIInv,
     WriteRowsIInv, CommitIInv DEF Statement
<1>5. CASE \E r \in Requests : Abort(r)
  BY <1>5, LeaveIInv DEF Abort
<1>6. CASE \E i \in Ids : DeleteGif(i)
  BY <1>6, DeleteIInv
<1>7. CASE TakeConnection \/ GiveConnection \/ UNCHANGED vars
  BY <1>7 DEF vars, TakeConnection, GiveConnection, IInv, TypeOK, LockInv, JobInv, OldInv, CapInv, DedupInv,
     UniqueInv, NoResurrection, GlobalCap, UserCap, RowMissing, After, KeyTaken,
     RowBytes
<1> QED
  BY <1>1, <1>2, <1>3, <1>4, <1>5, <1>6, <1>7 DEF Next

\* The inductive invariant holds in every state of every execution.
THEOREM SpecIInv == Spec => []IInv
BY InitIInv, StepIInv, PTL DEF Spec

\* STORAGE_MAX_BYTES is never exceeded, for any number of concurrent uploads,
\* replacements and deletions (config.rs:20, db.rs:90-95).
THEOREM SpecGlobalCap == Spec => []GlobalCap
<1>1. IInv => GlobalCap
  BY DEF IInv
<1> QED
  BY <1>1, SpecIInv, PTL

\* PER_USER_STORAGE_BYTES is never exceeded by any uploader (config.rs:23).
THEOREM SpecUserCap == Spec => []UserCap
<1>1. IInv => UserCap
  BY DEF IInv
<1> QED
  BY <1>1, SpecIInv, PTL

\* A commit never recreates a gif that was deleted during its transaction.
THEOREM SpecNoResurrection == Spec => []NoResurrection
<1>1. IInv => NoResurrection
  BY DEF IInv
<1> QED
  BY <1>1, SpecIInv, PTL

\* The duplicate check is never overtaken: INSERT and UPDATE cannot fail on
\* UNIQUE (uploader_id, hash), and never wait for another transaction's key.
THEOREM SpecNoConstraintError == Spec => []NoConstraintError
<1>1. IInv => NoConstraintError
  BY DEF IInv, LockInv, DedupInv, NoConstraintError, KeyPending, Locked
<1> QED
  BY <1>1, SpecIInv, PTL

-----------------------------------------------------------------------------
\* One step of the statements is one step of the catalogue, or none.
LEMMA StepRefines ==
  IInv /\ IInv' /\ [Next]_vars => [Abstract!Next]_rows
<1> SUFFICES ASSUME IInv, IInv', [Next]_vars, rows' # rows
             PROVE  Abstract!Next
  OBVIOUS
<1>1. Abstract!RespectsCaps(rows') /\ Abstract!Deduplicated(rows')
  <2>0. \A S : Abstract!Cardinality(S) = Cardinality(S)
    BY Zenon DEF Cardinality, Abstract!Cardinality
  <2>1. Abstract!TotalBytes(rows') = TotalBytes(rows')
    BY <2>0 DEF TotalBytes, Slots, Abstract!TotalBytes, Abstract!Slots
  <2>2. \A u : Abstract!UserBytes(rows', u) = UserBytes(rows', u)
    BY <2>0 DEF UserBytes, Slots, Owned, Live, Abstract!UserBytes, Abstract!Slots,
       Abstract!Owned, Abstract!Live
  <2>3. TotalBytes(rows') <= GlobalMax
    BY DEF IInv, GlobalCap, TotalBytes, Slots
  <2>4. \A u \in Users : UserBytes(rows', u) <= PerUserMax
    BY DEF IInv, UserCap, UserBytes, Slots, Owned, Live
  <2>5. Abstract!Deduplicated(rows')
    BY DEF IInv, UniqueInv, Taken, Owned, Live, Abstract!Deduplicated,
       Abstract!Taken, Abstract!Owned, Abstract!Live
  <2> QED
    BY <2>1, <2>2, <2>3, <2>4, <2>5 DEF Abstract!RespectsCaps
<1>2. CASE \E r \in Requests : Commit(r)
  <2>1. PICK r \in Requests : Commit(r)
    BY <1>2
  <2> DEFINE i == job[r].id
             u == job[r].uploader
             c == job[r].hash
  <2>2. /\ pc[r] = "commit"
        /\ rows' = [rows EXCEPT ![i] = [uploader |-> u, hash |-> c]]
    BY <2>1 DEF Commit
  <2>3. /\ i \in Ids /\ u \in Users /\ c \in Contents
        /\ job[r].kind \in {"upload", "replace"}
    BY <2>2, AfterIsNumber
  <2>4. CASE rows[i] = NoRow
    <3>1. Abstract!Upload(i, u, c)
      BY <1>1, <2>2, <2>4 DEF Abstract!Upload
    <3> QED
      BY <2>3, <3>1 DEF Abstract!Next
  <2>5. CASE rows[i] # NoRow
    <3>1. rows[i].uploader = u
      BY <2>2, <2>3, <2>5 DEF IInv, OldInv, NoResurrection
    <3>2. Abstract!Replace(i, c)
      BY <1>1, <2>2, <2>5, <3>1 DEF Abstract!Replace
    <3> QED
      BY <2>3, <3>2 DEF Abstract!Next
  <2> QED
    BY <2>4, <2>5
<1>3. CASE \E i \in Ids : DeleteGif(i)
  <2>1. PICK i \in Ids : DeleteGif(i)
    BY <1>3
  <2>2. Abstract!Delete(i)
    BY <2>1 DEF DeleteGif, Live, Abstract!Delete
  <2> QED
    BY <2>2 DEF Abstract!Next
<1> QED
  BY <1>2, <1>3 DEF Next, vars, Statement, StartUpload, StartReplace, Begin,
     TakeLock, CheckDuplicate, ReadOld, CheckGlobal, CheckUser, WriteRows, Abort,
     TakeConnection, GiveConnection

\* The transactions of db.rs implement the atomic catalogue: what happens
\* between two statements of one of them cannot be observed in the tables.
THEOREM SpecImplementsCatalog == Spec => ImplementsCatalog
<1>1. Init => Abstract!Init
  BY DEF Init, Abstract!Init
<1> QED
  BY <1>1, SpecIInv, StepRefines, PTL
     DEF Spec, ImplementsCatalog, Abstract!Spec
=============================================================================
