---------------------------- MODULE AccessProofs ----------------------------
(***************************************************************************)
(* Who changes a gif may change it, and the lists of users refer to gifs   *)
(* that exist, for any catalogue, any users and any number of handlers.    *)
(*                                                                         *)
(* The argument for the gifs: an id is never given out twice, so that the  *)
(* gif a handler acts on, if it is still there, is the one that was        *)
(* checked, with the uploader it had then; and that it was shared is       *)
(* remembered.  The argument for the lists: a row is inserted only for a   *)
(* gif that is there, and goes with it.                                    *)
(*                                                                         *)
(* The listings of module Browse only read: its steps are steps of Access  *)
(* or leave all of this as it is.  What a client is shown page by page is  *)
(* the second part: every query sorts its rows into one sequence without   *)
(* repetition, a page is the window of it that the cursor asks for, and    *)
(* what is between two queries can only move rows as the walk's history    *)
(* says.  So the rows ahead of the cursor have not been shown unless one   *)
(* appeared or changed place, and those behind it have been unless one     *)
(* vanished or changed place.                                              *)
(***************************************************************************)
EXTENDS Browse, FiniteSetTheorems, SequenceTheorems, TLAPS

\* What the constraints of the database leave an earlier run: every gif has a
\* place in the order of uploads, and lists refer to gifs that exist.
Consistent(catalogue, order, lists) ==
  /\ catalogue \in [Ids -> Gifs \cup {NoGif}]
  /\ order \in Orders
  /\ lists \in [Users -> [Lists -> Orders]]
  /\ {i \in Ids : catalogue[i] # NoGif} \subseteq ToSet(order)
  /\ \A u \in Users, l \in Lists : \A i \in ToSet(lists[u][l]) :
       catalogue[i] # NoGif

AccessStart ==
  \E catalogue, order, lists :
    Consistent(catalogue, order, lists) /\ AccessInit(catalogue, order, lists)

AccessSpec == AccessStart /\ [][AccessNext]_accessVars

\* The ids that a gif has or had.
Issued == ToSet(uploaded) \ pending

\* A gif that exists was uploaded, and its id is not in use again.
UploadedInv == Live \subseteq Issued /\ pending \subseteq ToSet(uploaded)

\* A handler that is to act on a gif was allowed to: by its uploader, or while
\* it was shared.
AllowedInv ==
  \A r \in Requests : pc[r] # "idle" =>
    /\ job[r] \in Jobs
    /\ job[r].op \notin Removals =>
         /\ job[r].id \in Issued
         /\ job[r].id \in Live =>
              \/ gif[job[r].id].uploader = job[r].user
              \/ /\ exposed[r]
                 /\ job[r].op \in Mutations => job[r].user \in Admins

IdleInv == \A r \in Requests : pc[r] = "idle" => job[r] = NoJob

IInv ==
  AccessTypeOK /\ UploadedInv /\ AllowedInv /\ IdleInv /\ ListsReferToGifs

-----------------------------------------------------------------------------
\* What comes after the k-th element of a sequence.
LEMMA RestFacts ==
  ASSUME NEW S, NEW s \in Seq(S), NEW k \in 1..Len(s)
  PROVE  /\ SubSeq(s, k + 1, Len(s)) \in Seq(S)
         /\ Len(SubSeq(s, k + 1, Len(s))) = Len(s) - k
         /\ \A n \in 1..(Len(s) - k) : SubSeq(s, k + 1, Len(s))[n] = s[k + n]
<1>1. Len(s) \in Nat /\ \A i \in (k + 1)..Len(s) : s[i] \in S
  OBVIOUS
<1>2. PICK y : y = SubSeq(s, k + 1, Len(s))
  OBVIOUS
<1>3. /\ y \in Seq(S)
      /\ Len(y) = IF k + 1 <= Len(s) THEN Len(s) - (k + 1) + 1 ELSE 0
      /\ \A n \in 1..(Len(s) - (k + 1) + 1) : y[n] = s[(k + 1) + n - 1]
  BY <1>1, <1>2, SubSeqProperties
<1>4. Len(y) = Len(s) - k
  BY <1>1, <1>3
<1>5. ASSUME NEW n \in 1..(Len(s) - k) PROVE y[n] = s[k + n]
  <2>1. n \in 1..(Len(s) - (k + 1) + 1) /\ (k + 1) + n - 1 = k + n
    BY <1>1
  <2> QED
    BY <1>3, <2>1
<1> QED
  BY <1>2, <1>3, <1>4, <1>5

\* A list without a gif that was on it at most once.
LEMMA RemoveFirstFacts ==
  ASSUME NEW s \in Orders, NEW e
  PROVE  /\ RemoveFirst(s, e) \in Orders
         /\ ToSet(RemoveFirst(s, e)) = ToSet(s) \ {e}
<1>1. /\ s \in Seq(Ids) /\ Len(s) \in Nat /\ DOMAIN s = 1..Len(s)
      /\ \A m, n \in 1..Len(s) : s[m] = s[n] => m = n
  BY DEF Orders, IsInjective
<1>2. CASE ~ \E i \in 1..Len(s) : s[i] = e
  BY <1>1, <1>2 DEF RemoveFirst, ToSet
<1>3. ASSUME NEW k \in 1..Len(s), s[k] = e
      PROVE  /\ RemoveFirst(s, e) \in Orders
             /\ ToSet(RemoveFirst(s, e)) = ToSet(s) \ {e}
  <2> DEFINE x == SubSeq(s, 1, k - 1)
             y == SubSeq(s, k + 1, Len(s))
             t == x \o y
  <2>1. {i \in 1..Len(s) : s[i] = e} = {k}
    BY <1>1, <1>3
  <2>2. SelectInSeq(s, LAMBDA v : v = e) = k
    <3>1. Min({k}) = k
      BY <1>1 DEF Min
    <3> QED
      BY <2>1, <3>1 DEF SelectInSeq
  <2>3. RemoveFirst(s, e) = t
    BY <1>3, <2>2 DEF RemoveFirst, RemoveAt
  <2>4. /\ x \in Seq(Ids) /\ Len(x) = k - 1
        /\ \A n \in 1..(k - 1) : x[n] = s[n]
    BY <1>1, <1>3
  <2>5. /\ y \in Seq(Ids) /\ Len(y) = Len(s) - k
        /\ \A n \in 1..(Len(s) - k) : y[n] = s[k + n]
    BY <1>1, <1>3, RestFacts
  <2> HIDE DEF x, y
  <2>6. /\ t \in Seq(Ids) /\ Len(t) = Len(s) - 1
        /\ \A n \in 1..(Len(s) - 1) :
             t[n] = IF n < k THEN s[n] ELSE s[n + 1]
    <3>1. /\ t \in Seq(Ids) /\ Len(t) = Len(x) + Len(y)
          /\ \A n \in 1..(Len(x) + Len(y)) :
               t[n] = IF n <= Len(x) THEN x[n] ELSE y[n - Len(x)]
      BY <2>4, <2>5, ConcatProperties
    <3>2. Len(x) + Len(y) = Len(s) - 1
      BY <1>1, <2>4, <2>5
    <3>3. ASSUME NEW n \in 1..(Len(s) - 1)
          PROVE  t[n] = IF n < k THEN s[n] ELSE s[n + 1]
      <4>1. CASE n < k
        BY <1>1, <2>4, <3>1, <3>2, <4>1
      <4>2. CASE ~ (n < k)
        <5>1. /\ n - Len(x) \in 1..(Len(s) - k)
              /\ k + (n - Len(x)) = n + 1 /\ ~ (n <= Len(x))
          BY <1>1, <2>4, <4>2
        <5> QED
          BY <2>5, <3>1, <3>2, <4>2, <5>1
      <4> QED
        BY <4>1, <4>2
    <3> HIDE DEF t
    <3> QED
      BY <3>1, <3>2, <3>3
  <2> HIDE DEF t
  <2>7. t \in Orders
    BY <1>1, <1>3, <2>6 DEF Orders, IsInjective
  <2>8. ToSet(t) \subseteq ToSet(s) \ {e}
    BY <1>1, <1>3, <2>6 DEF ToSet
  <2>9. ASSUME NEW m \in 1..Len(s), s[m] # e PROVE s[m] \in ToSet(t)
    <3>1. CASE m < k
      BY <1>1, <1>3, <2>6, <3>1 DEF ToSet
    <3>2. CASE m > k
      <4>1. m - 1 \in 1..(Len(s) - 1) /\ t[m - 1] = s[m]
        BY <1>1, <1>3, <2>6, <3>2
      <4> QED
        BY <2>6, <4>1 DEF ToSet
    <3> QED
      BY <1>1, <1>3, <2>9, <3>1, <3>2
  <2>10. ToSet(s) \ {e} \subseteq ToSet(t)
    BY <1>1, <2>9 DEF ToSet
  <2>11. ToSet(t) = ToSet(s) \ {e}
    BY <2>8, <2>10
  <2> QED
    BY <2>3, <2>7, <2>11
<1> QED
  BY <1>2, <1>3

\* A list with a gif put somewhere that was not on it.
LEMMA InsertFacts ==
  ASSUME NEW s \in Orders, NEW i \in Ids \ ToSet(s), NEW k \in 0..Len(s)
  PROVE  /\ InsertAt(s, k + 1, i) \in Orders
         /\ ToSet(InsertAt(s, k + 1, i)) = ToSet(s) \cup {i}
<1> DEFINE x == SubSeq(s, 1, k)
           y == SubSeq(s, k + 1, Len(s))
           t == x \o <<i>> \o y
<1>1. /\ s \in Seq(Ids) /\ Len(s) \in Nat /\ DOMAIN s = 1..Len(s)
      /\ \A m, n \in 1..Len(s) : s[m] = s[n] => m = n
      /\ \A n \in 1..Len(s) : s[n] # i
  BY DEF Orders, IsInjective, ToSet
<1>2. InsertAt(s, k + 1, i) = t
  <2>1. (k + 1) - 1 = k
    BY <1>1
  <2> QED
    BY <2>1 DEF InsertAt
<1>3. /\ x \in Seq(Ids) /\ Len(x) = k
      /\ \A n \in 1..k : x[n] = s[n]
  BY <1>1
<1>4. /\ y \in Seq(Ids) /\ Len(y) = Len(s) - k
      /\ \A n \in 1..(Len(s) - k) : y[n] = s[k + n]
  <2>1. CASE k = 0
    BY <1>1, <2>1
  <2>2. CASE k # 0
    <3>1. k \in 1..Len(s) /\ s \in Seq(Ids)
      BY <1>1, <2>2
    <3> QED
      BY <3>1, RestFacts
  <2> QED
    BY <2>1, <2>2
<1> HIDE DEF x, y
<1>5. PICK z \in Seq(Ids) : /\ z = x \o <<i>> /\ Len(z) = k + 1
                            /\ \A n \in 1..k : z[n] = s[n]
                            /\ z[k + 1] = i
  <2>1. /\ x \o <<i>> \in Seq(Ids) /\ Len(x \o <<i>>) = k + 1
        /\ \A n \in 1..k : (x \o <<i>>)[n] = s[n]
        /\ (x \o <<i>>)[k + 1] = i
    BY <1>1, <1>3
  <2> QED
    BY <2>1
<1>6. /\ t \in Seq(Ids) /\ Len(t) = Len(s) + 1
      /\ \A n \in 1..k : t[n] = s[n]
      /\ t[k + 1] = i
      /\ \A n \in (k + 2)..(Len(s) + 1) : t[n] = s[n - 1]
  <2>1. /\ t \in Seq(Ids) /\ Len(t) = (k + 1) + Len(y)
        /\ \A n \in 1..((k + 1) + Len(y)) :
             t[n] = IF n <= k + 1 THEN z[n] ELSE y[n - (k + 1)]
    <3>1. /\ z \o y \in Seq(Ids) /\ Len(z \o y) = Len(z) + Len(y)
          /\ \A n \in 1..(Len(z) + Len(y)) :
               (z \o y)[n] = IF n <= Len(z) THEN z[n] ELSE y[n - Len(z)]
      BY <1>4, ConcatProperties
    <3>2. t = z \o y /\ Len(z) = k + 1
      BY <1>5
    <3> HIDE DEF t
    <3> QED
      BY <3>1, <3>2
  <2> HIDE DEF t
  <2>2. ASSUME NEW n \in (k + 2)..(Len(s) + 1) PROVE t[n] = s[n - 1]
    <3>1. /\ n - (k + 1) \in 1..(Len(s) - k) /\ ~ (n <= k + 1)
          /\ k + (n - (k + 1)) = n - 1 /\ n \in 1..((k + 1) + Len(y))
      BY <1>1, <1>4
    <3> QED
      BY <1>4, <2>1, <3>1
  <2>3. ASSUME NEW n \in 1..k PROVE t[n] = s[n]
    <3>1. n \in 1..((k + 1) + Len(y)) /\ n <= k + 1
      BY <1>1, <1>4
    <3> QED
      BY <1>5, <2>1, <3>1
  <2>4. t[k + 1] = i
    <3>1. k + 1 \in 1..((k + 1) + Len(y)) /\ k + 1 <= k + 1
      BY <1>1, <1>4
    <3> QED
      BY <1>5, <2>1, <3>1
  <2>5. Len(t) = Len(s) + 1
    BY <1>1, <1>4, <2>1
  <2> QED
    BY <2>1, <2>2, <2>3, <2>4, <2>5
<1> HIDE DEF t
<1>7. \A n \in 1..Len(t) :
        n \in 1..k \/ n = k + 1 \/ n \in (k + 2)..(Len(s) + 1)
  BY <1>1, <1>6
<1>8. \A n \in (k + 2)..(Len(s) + 1) : n - 1 \in 1..Len(s) /\ n - 1 > k
  BY <1>1
<1>9. t \in Orders
  <2> SUFFICES ASSUME NEW m \in 1..Len(t), NEW n \in 1..Len(t), t[m] = t[n]
               PROVE  m = n
    BY <1>6 DEF Orders, IsInjective
  <2>1. CASE m = k + 1 \/ n = k + 1
    BY <1>1, <1>6, <1>7, <1>8, <2>1
  <2>2. CASE m \in 1..k /\ n # k + 1
    BY <1>1, <1>6, <1>7, <1>8, <2>2
  <2>3. CASE m \in (k + 2)..(Len(s) + 1) /\ n # k + 1
    BY <1>1, <1>6, <1>7, <1>8, <2>3
  <2> QED
    BY <1>7, <2>1, <2>2, <2>3
<1>10. ToSet(t) \subseteq ToSet(s) \cup {i}
  <2> SUFFICES ASSUME NEW n \in 1..Len(t) PROVE t[n] \in ToSet(s) \cup {i}
    BY <1>6 DEF ToSet
  <2>1. n \in 1..k => n \in 1..Len(s)
    BY <1>1
  <2> QED
    BY <1>1, <1>6, <1>7, <1>8, <2>1 DEF ToSet
<1>11. ToSet(s) \cup {i} \subseteq ToSet(t)
  <2>1. /\ ToSet(t) = {t[n] : n \in 1..Len(t)} /\ k + 1 \in 1..Len(t)
        /\ ToSet(s) = {s[n] : n \in 1..Len(s)}
    <3>1. DOMAIN t = 1..Len(t) /\ k + 1 \in 1..Len(t)
      BY <1>1, <1>6
    <3> QED
      BY <1>1, <3>1 DEF ToSet
  <2>2. i \in ToSet(t)
    BY <1>6, <2>1
  <2>3. ASSUME NEW n \in 1..Len(s) PROVE s[n] \in ToSet(t)
    <3>1. CASE n <= k
      <4>1. n \in 1..Len(t) /\ t[n] = s[n]
        BY <1>1, <1>6, <3>1
      <4> QED
        BY <2>1, <4>1
    <3>2. CASE n > k
      <4>1. n + 1 \in (k + 2)..(Len(s) + 1) /\ (n + 1) - 1 = n
        BY <1>1, <3>2
      <4>2. n + 1 \in 1..Len(t) /\ t[n + 1] = s[n]
        BY <1>1, <1>6, <4>1
      <4> QED
        BY <2>1, <4>2
    <3> QED
      BY <1>1, <3>1, <3>2
  <2> QED
    BY <2>1, <2>2, <2>3
<1> QED
  BY <1>2, <1>9, <1>10, <1>11

\* The order of uploads with another gif at its end.
LEMMA AppendFacts ==
  ASSUME NEW s \in Orders, NEW i \in Ids \ ToSet(s)
  PROVE  /\ Append(s, i) \in Orders
         /\ ToSet(Append(s, i)) = ToSet(s) \cup {i}
<1> DEFINE t == Append(s, i)
<1>1. /\ s \in Seq(Ids) /\ Len(s) \in Nat /\ DOMAIN s = 1..Len(s)
      /\ \A m, n \in 1..Len(s) : s[m] = s[n] => m = n
      /\ \A n \in 1..Len(s) : s[n] # i
  BY DEF Orders, IsInjective, ToSet
<1>2. /\ t \in Seq(Ids) /\ Len(t) = Len(s) + 1 /\ t[Len(s) + 1] = i
      /\ \A n \in 1..Len(s) : t[n] = s[n]
  BY <1>1
<1> HIDE DEF t
<1>3. \A n \in 1..Len(t) : n \in 1..Len(s) \/ n = Len(s) + 1
  BY <1>1, <1>2
<1>4. t \in Orders
  BY <1>1, <1>2, <1>3 DEF Orders, IsInjective
<1>5. ToSet(t) = ToSet(s) \cup {i}
  <2>1. ToSet(t) \subseteq ToSet(s) \cup {i}
    BY <1>1, <1>2, <1>3 DEF ToSet
  <2>2. ToSet(s) \cup {i} \subseteq ToSet(t)
    BY <1>1, <1>2 DEF ToSet
  <2> QED
    BY <2>1, <2>2
<1> QED
  BY <1>4, <1>5 DEF t

-----------------------------------------------------------------------------
\* An earlier run leaves what the constraints let it.
THEOREM InitIInv == AccessStart => IInv
<1> SUFFICES ASSUME NEW catalogue, NEW order, NEW lists,
                    Consistent(catalogue, order, lists),
                    AccessInit(catalogue, order, lists)
             PROVE  IInv
  BY DEF AccessStart
<1> USE DEF Consistent, AccessInit
<1>1. AccessTypeOK
  BY AccessAssumption DEF AccessTypeOK
<1>2. UploadedInv /\ AllowedInv /\ IdleInv
  BY DEF UploadedInv, Issued, AllowedInv, IdleInv, Live
<1>3. ListsReferToGifs
  <2>1. \A s \in Orders : ToSet(s) \subseteq Ids
    BY DEF Orders, ToSet
  <2> QED
    BY <2>1 DEF ListsReferToGifs, Live
<1> QED
  BY <1>1, <1>2, <1>3 DEF IInv

\* A gif's row may change or go, but never comes or changes hands.
RowsStay ==
  /\ gif' \in [Ids -> Gifs \cup {NoGif}]
  /\ \A i \in Ids : gif'[i] # NoGif =>
       gif[i] # NoGif /\ gif'[i].uploader = gif[i].uploader
  /\ uploaded' = uploaded /\ pending' = pending

\* Handlers go on with what they are about, or end.
HandlersGoOn ==
  /\ pc' \in [Requests -> {"idle", "act", "second"}]
  /\ job' \in [Requests -> Jobs \cup {NoJob}]
  /\ exposed' \in [Requests -> BOOLEAN]
  /\ newer' \in [Requests -> SUBSET Ids]
  /\ left' = left
  /\ \A q \in Requests : IF pc'[q] = "idle"
                           THEN job'[q] = NoJob
                           ELSE /\ pc[q] # "idle" /\ job'[q] = job[q]
                                /\ exposed[q] => exposed'[q]

\* What a handler was allowed to do stays allowed.
LEMMA StillAllowed ==
  ASSUME IInv, RowsStay, HandlersGoOn,
         list' \in [Users -> [Lists -> Orders]], ListsReferToGifs'
  PROVE  IInv'
<1>1. AccessTypeOK'
  BY DEF IInv, AccessTypeOK, RowsStay, HandlersGoOn
<1>2. UploadedInv'
  BY DEF IInv, UploadedInv, Issued, Live, RowsStay
<1>3. IdleInv'
  BY DEF IdleInv, HandlersGoOn
<1>4. ASSUME NEW r \in Requests, pc'[r] # "idle"
      PROVE  AllowedInv!(r)'
  <2>1. /\ pc[r] # "idle" /\ job'[r] = job[r] /\ Issued' = Issued
        /\ exposed[r] => exposed'[r]
    BY <1>4 DEF RowsStay, HandlersGoOn, Issued
  <2>2. job[r] \in Jobs /\ job[r].id \in Ids
    BY <2>1 DEF IInv, AllowedInv, Jobs
  <2>3. job[r].id \in Live' =>
          /\ job[r].id \in Live
          /\ gif'[job[r].id].uploader = gif[job[r].id].uploader
    BY <2>2 DEF RowsStay, Live
  <2>4. job[r].op \notin Removals =>
          /\ job[r].id \in Issued
          /\ job[r].id \in Live =>
               \/ gif[job[r].id].uploader = job[r].user
               \/ /\ exposed[r]
                  /\ job[r].op \in Mutations => job[r].user \in Admins
    BY <2>1 DEF IInv, AllowedInv
  <2> QED
    BY <2>1, <2>2, <2>3, <2>4
<1>5. AllowedInv'
  BY <1>4 DEF AllowedInv
<1> QED
  BY <1>1, <1>2, <1>3, <1>5 DEF IInv

\* A handler that ends or goes on to its second statement.
LEMMA StepGoesOn ==
  ASSUME IInv, NEW r \in Requests, pc[r] # "idle", left' = left,
         newer' \in [Requests -> SUBSET Ids],
         Finish(r) \/ (Continue(r) /\ exposed' \in [Requests -> BOOLEAN]
                         /\ \A q \in Requests : exposed[q] => exposed'[q])
  PROVE  HandlersGoOn
<1>1. /\ pc \in [Requests -> {"idle", "act", "second"}]
      /\ job \in [Requests -> Jobs \cup {NoJob}]
      /\ exposed \in [Requests -> BOOLEAN]
      /\ \A q \in Requests : pc[q] = "idle" => job[q] = NoJob
  BY DEF IInv, AccessTypeOK, IdleInv
<1>2. CASE Finish(r)
  <2>1. /\ pc' = [pc EXCEPT ![r] = "idle"] /\ job' = [job EXCEPT ![r] = NoJob]
        /\ exposed' = [exposed EXCEPT ![r] = FALSE]
    BY <1>2 DEF Finish
  <2>2. /\ pc'[r] = "idle" /\ job'[r] = NoJob
        /\ \A q \in Requests \ {r} : /\ pc'[q] = pc[q] /\ job'[q] = job[q]
                                     /\ exposed'[q] = exposed[q]
    BY <1>1, <2>1
  <2>3. exposed' \in [Requests -> BOOLEAN]
    BY <1>1, <2>1
  <2> QED
    BY <1>1, <2>1, <2>2, <2>3 DEF HandlersGoOn
<1>3. CASE /\ Continue(r) /\ exposed' \in [Requests -> BOOLEAN]
           /\ \A q \in Requests : exposed[q] => exposed'[q]
  <2>1. /\ pc' = [pc EXCEPT ![r] = "second"] /\ job' = job
        /\ pc'[r] = "second"
        /\ \A q \in Requests \ {r} : pc'[q] = pc[q]
    BY <1>1, <1>3 DEF Continue
  <2> QED
    BY <1>1, <1>3, <2>1 DEF HandlersGoOn
<1> QED
  BY <1>2, <1>3

\* Nothing happens to the rows.
LEMMA RowsUnchanged ==
  ASSUME IInv, UNCHANGED <<gif, uploaded, pending>>
  PROVE  RowsStay /\ Live' = Live
  BY DEF IInv, AccessTypeOK, RowsStay, Live

\* A list of a user changes, to one of gifs that exist.
LEMMA SetListFacts ==
  ASSUME IInv, NEW u \in Users, NEW which \in Lists, NEW ids \in Orders,
         ToSet(ids) \subseteq Live, SetList(u, which, ids), Live' = Live
  PROVE  list' \in [Users -> [Lists -> Orders]] /\ ListsReferToGifs'
<1>1. /\ list \in [Users -> [Lists -> Orders]]
      /\ list' = [list EXCEPT ![u][which] = ids]
      /\ \A v \in Users, l \in Lists : ToSet(list[v][l]) \subseteq Live
  BY DEF IInv, AccessTypeOK, SetList, ListsReferToGifs
<1>2. list' \in [Users -> [Lists -> Orders]]
  BY <1>1
<1>3. \A v \in Users, l \in Lists :
        list'[v][l] = ids \/ list'[v][l] = list[v][l]
  BY <1>1
<1>4. ListsReferToGifs'
  BY <1>1, <1>3 DEF ListsReferToGifs
<1> QED
  BY <1>2, <1>4

\* The lists stay as they are.
LEMMA ListsUnchanged ==
  ASSUME IInv, UNCHANGED list, Live' = Live
  PROVE  list' \in [Users -> [Lists -> Orders]] /\ ListsReferToGifs'
  BY DEF IInv, AccessTypeOK, ListsReferToGifs

-----------------------------------------------------------------------------
\* A handler is let in by MayStart.
LEMMA StartIInv ==
  ASSUME IInv, NEW r \in Requests, NEW u \in Users, NEW i \in Ids,
         NEW op \in Additions \cup Removals \cup Mutations,
         NEW v \in Visibilities \cup {"keep"}, NEW f \in Flags \cup {"keep"},
         Start(r, u, op, i, v, f)
  PROVE  IInv'
<1> DEFINE j == [op |-> op, user |-> u, id |-> i, visibility |-> v, flag |-> f]
<1>1. /\ AccessTypeOK /\ pc[r] = "idle" /\ left > 0
      /\ MayStart(u, op, i)
      /\ job' = [job EXCEPT ![r] = j] /\ pc' = [pc EXCEPT ![r] = "act"]
      /\ left' = left - 1
      /\ exposed' = [exposed EXCEPT ![r] =
           i \in Live /\ gif[i].visibility = "shared"]
      /\ UNCHANGED <<gif, uploaded, pending, list, newer>>
  BY DEF IInv, Start
<1>2. /\ j \in Jobs /\ j.op = op /\ j.user = u /\ j.id = i
  BY DEF Jobs
<1> HIDE DEF j
<1>3. AccessTypeOK'
  <2>1. left' \in 0..MaxRequests
    BY <1>1, AccessAssumption DEF AccessTypeOK
  <2>2. exposed' \in [Requests -> BOOLEAN]
    BY <1>1 DEF AccessTypeOK
  <2> QED
    BY <1>1, <1>2, <2>1, <2>2 DEF AccessTypeOK
<1>4. /\ Live' = Live
      /\ UploadedInv' /\ ListsReferToGifs'
  BY <1>1 DEF IInv, UploadedInv, Issued, ListsReferToGifs, Live
<1>5. /\ \A q \in Requests \ {r} : /\ pc'[q] = pc[q] /\ job'[q] = job[q]
                                   /\ exposed'[q] = exposed[q]
      /\ pc'[r] = "act" /\ job'[r] = j
      /\ exposed'[r] <=> i \in Live /\ gif[i].visibility = "shared"
  BY <1>1 DEF AccessTypeOK
<1>6. IdleInv'
  BY <1>1, <1>5 DEF IInv, IdleInv
<1>7. AllowedInv!(r)'
  <2>1. op \notin Removals => i \in Issued'
    BY <1>1 DEF IInv, UploadedInv, Issued, MayStart
  <2>2. op \notin Removals =>
          \/ gif[i].uploader = u
          \/ /\ exposed'[r]
             /\ op \in Mutations => u \in Admins
    BY <1>1, <1>5 DEF MayStart, can_view, can_mutate
  <2> QED
    BY <1>1, <1>2, <1>4, <1>5, <2>1, <2>2
<1>8. ASSUME NEW q \in Requests \ {r} PROVE AllowedInv!(q)'
  <2>1. AllowedInv!(q)
    BY DEF IInv, AllowedInv
  <2> QED
    BY <1>1, <1>4, <1>5, <2>1 DEF Issued
<1>9. AllowedInv'
  BY <1>7, <1>8 DEF AllowedInv
<1> QED
  BY <1>3, <1>4, <1>6, <1>9 DEF IInv

\* A handler is about a gif and a user.
LEMMA DoingFacts ==
  ASSUME IInv, NEW r \in Requests, NEW label \in {"act", "second"}, NEW ops,
         Doing(r, label, ops)
  PROVE  /\ pc[r] # "idle" /\ job[r] \in Jobs
         /\ job[r].id \in Ids /\ job[r].user \in Users
         /\ job[r].op \in ops
         /\ ListOf(job[r].op) \in Lists \/ job[r].op \in Mutations
         /\ \A l \in Lists : list[job[r].user][l] \in Orders
         /\ \A l \in Lists : ToSet(list[job[r].user][l]) \subseteq Live
<1>1. pc[r] # "idle" /\ job[r] \in Jobs /\ job[r].op \in ops
  BY DEF IInv, AllowedInv, Doing
<1>2. /\ job[r].id \in Ids /\ job[r].user \in Users
      /\ job[r].op \in Additions \cup Removals \cup Mutations
  BY <1>1 DEF Jobs
<1>3. ListOf(job[r].op) \in Lists \/ job[r].op \in Mutations
  BY <1>2 DEF ListOf, Additions, Removals, Mutations, Lists
<1> QED
  BY <1>1, <1>2, <1>3 DEF IInv, AccessTypeOK, ListsReferToGifs

\* A gif that exists gets a place on a list.
LEMMA PutOnListFacts ==
  ASSUME IInv, NEW r \in Requests, NEW which \in Lists,
         job[r].id \in Live, job[r].user \in Users, PutOnList(r, which)
  PROVE  /\ \E ids \in Orders :
              ToSet(ids) \subseteq Live /\ SetList(job[r].user, which, ids)
         /\ newer' \in [Requests -> SUBSET Ids]
<1> DEFINE u == job[r].user
           i == job[r].id
           rest == RemoveFirst(list[u][which], i)
<1>1. /\ list[u][which] \in Orders /\ ToSet(list[u][which]) \subseteq Live
      /\ i \in Ids /\ newer \in [Requests -> SUBSET Ids]
  BY DEF IInv, AccessTypeOK, ListsReferToGifs, Live
<1>2. rest \in Orders /\ ToSet(rest) = ToSet(list[u][which]) \ {i}
  BY <1>1, RemoveFirstFacts
<1>3. PICK n \in 0..Len(rest) : SetList(u, which, InsertAt(rest, n + 1, i))
  BY DEF PutOnList
<1>4. \A q \in Requests : newer'[q] \in {{}, newer[q], newer[q] \cup {i}}
  BY DEF PutOnList
<1>5. newer' = [q \in Requests |-> newer'[q]]
  BY DEF PutOnList
<1>6. newer' \in [Requests -> SUBSET Ids]
  BY <1>1, <1>4, <1>5
<1> HIDE DEF u, rest
<1>7. /\ InsertAt(rest, n + 1, i) \in Orders
      /\ ToSet(InsertAt(rest, n + 1, i)) \subseteq Live
  BY <1>1, <1>2, InsertFacts
<1> QED
  BY <1>3, <1>6, <1>7 DEF u

\* A gif that is on a list exists.
LEMMA ListIInv ==
  ASSUME IInv, NEW r \in Requests,
         AddToList(r) \/ RemoveFromList(r) \/ RecordSelection(r)
  PROVE  IInv'
<1> DEFINE u == job[r].user
           i == job[r].id
           which == ListOf(job[r].op)
<1>1. /\ Doing(r, "act", Additions \cup Removals)
      /\ UNCHANGED <<gif, uploaded, pending, left>>
  BY DEF AddToList, RemoveFromList, RecordSelection, Doing, Additions, Removals
<1>2. /\ pc[r] # "idle" /\ i \in Ids /\ u \in Users
      /\ which \in Lists
      /\ \A l \in Lists :
           list[u][l] \in Orders /\ ToSet(list[u][l]) \subseteq Live
  <2>1. job[r].op \notin Mutations
    BY <1>1 DEF Doing, Additions, Removals, Mutations
  <2> QED
    BY <1>1, <2>1, DoingFacts
<1>3. RowsStay /\ Live' = Live
  BY <1>1, RowsUnchanged
<1>4. /\ newer' \in [Requests -> SUBSET Ids]
      /\ \/ UNCHANGED list
         \/ \E l \in Lists, ids \in Orders :
              ToSet(ids) \subseteq Live /\ SetList(u, l, ids)
  <2>1. UNCHANGED newer \/ Forget(r) => newer' \in [Requests -> SUBSET Ids]
    BY DEF Forget, IInv, AccessTypeOK
  <2>2. CASE AddToList(r)
    <3>1. \/ UNCHANGED list /\ Forget(r)
          \/ i \in Live /\ PutOnList(r, which)
      BY <2>2 DEF AddToList
    <3> QED
      BY <1>2, <2>1, <3>1, PutOnListFacts
  <2>3. CASE RemoveFromList(r)
    <3>1. /\ SetList(u, which, RemoveFirst(list[u][which], i))
          /\ UNCHANGED newer
      BY <2>3 DEF RemoveFromList
    <3>2. /\ RemoveFirst(list[u][which], i) \in Orders
          /\ ToSet(RemoveFirst(list[u][which], i)) = ToSet(list[u][which]) \ {i}
      BY <1>2, RemoveFirstFacts
    <3> HIDE DEF u, i, which
    <3> QED
      BY <1>2, <2>1, <3>1, <3>2
  <2>4. CASE RecordSelection(r)
    <3>1. \/ UNCHANGED list /\ Forget(r)
          \/ i \in Live /\ PutOnList(r, "history")
      BY <2>4 DEF RecordSelection
    <3>2. "history" \in Lists
      BY DEF Lists
    <3> QED
      BY <1>2, <2>1, <3>1, <3>2, PutOnListFacts
  <2> QED
    BY <2>2, <2>3, <2>4
<1>5. HandlersGoOn
  <2>1. Finish(r) \/ (Continue(r) /\ UNCHANGED exposed)
    BY DEF AddToList, RemoveFromList, RecordSelection
  <2>2. UNCHANGED exposed => /\ exposed' \in [Requests -> BOOLEAN]
                             /\ \A q \in Requests : exposed[q] => exposed'[q]
    BY DEF IInv, AccessTypeOK
  <2> QED
    BY <1>1, <1>2, <1>4, <2>1, <2>2, StepGoesOn
<1>6. list' \in [Users -> [Lists -> Orders]] /\ ListsReferToGifs'
  <2>1. CASE UNCHANGED list
    BY <1>3, <2>1, ListsUnchanged
  <2>2. ASSUME NEW l \in Lists, NEW ids \in Orders,
               ToSet(ids) \subseteq Live, SetList(u, l, ids)
        PROVE  list' \in [Users -> [Lists -> Orders]] /\ ListsReferToGifs'
    BY <1>2, <1>3, <2>2, SetListFacts
  <2> QED
    BY <1>4, <2>1, <2>2
<1> QED
  BY <1>3, <1>5, <1>6, StillAllowed

\* A field of a row changes, if the row is there.
LEMMA FieldFacts ==
  ASSUME IInv, NEW i \in Ids, UNCHANGED <<uploaded, pending>>, NEW g \in Gifs,
         g.uploader = gif[i].uploader,
         gif' = IF i \in Live THEN [gif EXCEPT ![i] = g] ELSE gif
  PROVE  RowsStay /\ Live' = Live
<1>1. gif \in [Ids -> Gifs \cup {NoGif}] /\ g # NoGif
  BY AccessAssumption DEF IInv, AccessTypeOK
<1>2. gif' \in [Ids -> Gifs \cup {NoGif}]
  BY <1>1
<1>3. \A k \in Ids : /\ gif'[k] = NoGif <=> gif[k] = NoGif
                     /\ gif'[k] # NoGif => gif'[k].uploader = gif[k].uploader
  BY <1>1 DEF Live
<1> QED
  BY <1>2, <1>3 DEF RowsStay, Live

\* select_gif, patch_gif and the others change a field of a row.
LEMMA ChangeIInv ==
  ASSUME IInv, NEW r \in Requests,
         IncrementUses(r) \/ SetVisibility(r) \/ SetNsfw(r) \/ Rewrite(r)
  PROVE  IInv'
<1> DEFINE i == job[r].id
<1>1. /\ pc[r] # "idle" /\ job[r] \in Jobs /\ i \in Ids
      /\ UNCHANGED <<uploaded, pending, list, left, newer>>
  <2>1. \/ Doing(r, "second", {"select"})
        \/ Doing(r, "act", {"patch"})
        \/ Doing(r, "second", {"patch"})
        \/ Doing(r, "act", {"replace", "tag"})
    BY DEF IncrementUses, SetVisibility, SetNsfw, Rewrite
  <2> QED
    BY <2>1, DoingFacts DEF IncrementUses, SetVisibility, SetNsfw, Rewrite
<1>2. i \in Live => gif[i] \in Gifs
  BY <1>1 DEF IInv, AccessTypeOK, Live
<1>3. \/ gif' = gif
      \/ i \in Live /\ \E g \in Gifs :
           g.uploader = gif[i].uploader /\ gif' = [gif EXCEPT ![i] = g]
  <2>1. CASE IncrementUses(r)
    <3>1. gif' = gif \/ (i \in Live /\ gif' = [gif EXCEPT ![i].uses = @ + 1])
      BY <2>1 DEF IncrementUses
    <3>2. i \in Live => /\ [gif[i] EXCEPT !.uses = @ + 1] \in Gifs
                        /\ [gif[i] EXCEPT !.uses = @ + 1].uploader
                             = gif[i].uploader
      BY <1>2 DEF Gifs
    <3>3. [gif EXCEPT ![i].uses = @ + 1]
            = [gif EXCEPT ![i] = [gif[i] EXCEPT !.uses = @ + 1]]
      BY <1>1 DEF IInv, AccessTypeOK
    <3> QED
      BY <3>1, <3>2, <3>3
  <2>2. CASE SetVisibility(r)
    <3> DEFINE v == job[r].visibility
    <3>1. \/ gif' = gif
          \/ v # "keep" /\ i \in Live /\ gif' = [gif EXCEPT ![i].visibility = v]
      BY <2>2 DEF SetVisibility
    <3>2. v \in Visibilities \cup {"keep"}
      BY <1>1 DEF Jobs
    <3> HIDE DEF v
    <3>3. i \in Live /\ v # "keep" =>
            /\ [gif[i] EXCEPT !.visibility = v] \in Gifs
            /\ [gif[i] EXCEPT !.visibility = v].uploader = gif[i].uploader
      BY <1>2, <3>2 DEF Gifs
    <3>4. [gif EXCEPT ![i].visibility = v]
            = [gif EXCEPT ![i] = [gif[i] EXCEPT !.visibility = v]]
      BY <1>1 DEF IInv, AccessTypeOK
    <3> QED
      BY <3>1, <3>3, <3>4
  <2>3. CASE SetNsfw(r)
    <3> DEFINE f == job[r].flag
    <3>1. \/ gif' = gif
          \/ f # "keep" /\ i \in Live /\ gif' = [gif EXCEPT ![i].flag = f]
      BY <2>3 DEF SetNsfw
    <3>2. f \in Flags \cup {"keep"}
      BY <1>1 DEF Jobs
    <3> HIDE DEF f
    <3>3. i \in Live /\ f # "keep" =>
            /\ [gif[i] EXCEPT !.flag = f] \in Gifs
            /\ [gif[i] EXCEPT !.flag = f].uploader = gif[i].uploader
      BY <1>2, <3>2 DEF Gifs
    <3>4. [gif EXCEPT ![i].flag = f]
            = [gif EXCEPT ![i] = [gif[i] EXCEPT !.flag = f]]
      BY <1>1 DEF IInv, AccessTypeOK
    <3> QED
      BY <3>1, <3>3, <3>4
  <2>4. CASE Rewrite(r)
    <3>1. gif' = gif \/ (i \in Live /\ gif' = [gif EXCEPT ![i].revision = @ + 1])
      BY <2>4 DEF Rewrite
    <3>2. i \in Live => /\ [gif[i] EXCEPT !.revision = @ + 1] \in Gifs
                        /\ [gif[i] EXCEPT !.revision = @ + 1].uploader
                             = gif[i].uploader
      BY <1>2 DEF Gifs
    <3>3. [gif EXCEPT ![i].revision = @ + 1]
            = [gif EXCEPT ![i] = [gif[i] EXCEPT !.revision = @ + 1]]
      BY <1>1 DEF IInv, AccessTypeOK
    <3> QED
      BY <3>1, <3>2, <3>3
  <2> QED
    BY <2>1, <2>2, <2>3, <2>4
<1>4. RowsStay /\ Live' = Live
  BY <1>1, <1>3, RowsUnchanged, FieldFacts
<1>5. HandlersGoOn
  <2> newer' \in [Requests -> SUBSET Ids]
    BY <1>1 DEF IInv, AccessTypeOK
  <2>1. CASE Finish(r)
    BY <1>1, <2>1, StepGoesOn
  <2>2. CASE SetVisibility(r)
    <3>1. /\ Continue(r)
          /\ exposed' = [q \in Requests |->
               exposed[q] \/ (job[r].visibility = "shared" /\ pc[q] # "idle"
                                /\ job[q].id = i)]
      BY <2>2 DEF SetVisibility
    <3>2. exposed \in [Requests -> BOOLEAN]
      BY DEF IInv, AccessTypeOK
    <3>3. /\ exposed' \in [Requests -> BOOLEAN]
          /\ \A q \in Requests : exposed[q] => exposed'[q]
      BY <3>1, <3>2
    <3> QED
      BY <1>1, <3>1, <3>3, StepGoesOn
  <2> QED
    BY <2>1, <2>2 DEF IncrementUses, SetNsfw, Rewrite
<1> QED
  BY <1>1, <1>4, <1>5, ListsUnchanged, StillAllowed

\* A deletion takes the gif off all lists.
LEMMA DeleteGifIInv ==
  ASSUME IInv, NEW r \in Requests, DeleteGif(r)
  PROVE  IInv'
<1>1. PICK i \in Ids : i = job[r].id /\ RemoveGif(i)
  BY DoingFacts DEF DeleteGif
<1>2. /\ pc[r] # "idle" /\ Finish(r)
      /\ UNCHANGED <<uploaded, pending, left, newer>>
      /\ gif' = [gif EXCEPT ![i] = NoGif]
      /\ list' = [u \in Users |-> [l \in Lists |-> RemoveFirst(list[u][l], i)]]
      /\ gif \in [Ids -> Gifs \cup {NoGif}]
      /\ list \in [Users -> [Lists -> Orders]]
  BY <1>1, DoingFacts DEF DeleteGif, RemoveGif, IInv, AccessTypeOK
<1>3. RowsStay /\ Live' = Live \ {i}
  BY <1>2 DEF RowsStay, Live
<1>4. HandlersGoOn
  <2>1. newer' \in [Requests -> SUBSET Ids]
    BY <1>2 DEF IInv, AccessTypeOK
  <2> QED
    BY <1>2, <2>1, StepGoesOn
<1>5. ASSUME NEW u \in Users, NEW l \in Lists
      PROVE  /\ list'[u][l] \in Orders
             /\ ToSet(list'[u][l]) \subseteq Live'
  <2>1. list[u][l] \in Orders /\ ToSet(list[u][l]) \subseteq Live
    BY <1>2 DEF IInv, ListsReferToGifs
  <2>2. list'[u][l] = RemoveFirst(list[u][l], i)
    BY <1>2
  <2> QED
    BY <1>3, <2>1, <2>2, RemoveFirstFacts
<1>6. list' \in [Users -> [Lists -> Orders]]
  BY <1>2, <1>5
<1>7. ListsReferToGifs'
  BY <1>5 DEF ListsReferToGifs
<1> QED
  BY <1>3, <1>4, <1>6, <1>7, StillAllowed

\* An upload begins with an id that no other has.
LEMMA BeginUploadIInv ==
  ASSUME IInv, NEW i \in Ids, BeginUpload(i)
  PROVE  IInv'
<1>1. /\ AccessTypeOK /\ i \notin ToSet(uploaded) /\ left > 0
      /\ uploaded' = Append(uploaded, i)
      /\ pending' = pending \cup {i}
      /\ left' = left - 1
      /\ UNCHANGED <<gif, list, pc, job, newer, exposed>>
  BY DEF IInv, BeginUpload
<1>2. /\ uploaded' \in Orders
      /\ ToSet(uploaded') = ToSet(uploaded) \cup {i}
  BY <1>1, AppendFacts DEF AccessTypeOK
<1>3. AccessTypeOK'
  <2>1. left' \in 0..MaxRequests
    BY <1>1, AccessAssumption DEF AccessTypeOK
  <2> QED
    BY <1>1, <1>2, <2>1 DEF AccessTypeOK
<1>4. Issued' = Issued /\ Live' = Live
  BY <1>1, <1>2 DEF Issued, Live
<1>5. UploadedInv' /\ IdleInv' /\ ListsReferToGifs'
  BY <1>1, <1>2, <1>4
  DEF IInv, UploadedInv, IdleInv, ListsReferToGifs
<1>6. AllowedInv'
  BY <1>1, <1>4 DEF IInv, AllowedInv
<1> QED
  BY <1>3, <1>5, <1>6 DEF IInv

\* An upload is of an id that no gif has had.
LEMMA UploadIInv ==
  ASSUME IInv, NEW i \in Ids, NEW u \in Users, NEW v \in Visibilities,
         NEW f \in Flags, UploadGif(i, u, v, f)
  PROVE  IInv'
<1> DEFINE g == [uploader |-> u, visibility |-> v, flag |-> f, uses |-> 0,
                 revision |-> 0]
<1>1. /\ AccessTypeOK /\ i \in pending
      /\ gif' = [gif EXCEPT ![i] = g]
      /\ pending' = pending \ {i}
      /\ UNCHANGED <<uploaded, list, pc, job, left, newer, exposed>>
  BY DEF IInv, UploadGif
<1>2. g \in Gifs /\ g # NoGif
  BY AccessAssumption DEF Gifs
<1> HIDE DEF g
<1>3. AccessTypeOK'
  BY <1>1, <1>2 DEF AccessTypeOK
<1>4. /\ Live' = Live \cup {i}
      /\ \A k \in Ids \ {i} : gif'[k] = gif[k]
  BY <1>1, <1>2 DEF AccessTypeOK, Live
<1>5. i \notin Issued /\ Issued' = Issued \cup {i}
  BY <1>1 DEF IInv, UploadedInv, Issued
<1>6. UploadedInv' /\ IdleInv' /\ ListsReferToGifs'
  BY <1>1, <1>4, <1>5
  DEF IInv, UploadedInv, IdleInv, ListsReferToGifs
<1>7. ASSUME NEW r \in Requests, pc[r] # "idle" PROVE AllowedInv!(r)'
  <2>1. /\ job[r] \in Jobs /\ job[r].id \in Ids
        /\ AllowedInv!(r)
    BY <1>7 DEF IInv, AllowedInv, Jobs
  <2>2. CASE job[r].id = i
    BY <1>1, <1>5, <1>7, <2>1, <2>2
  <2>3. CASE job[r].id # i
    BY <1>1, <1>4, <1>5, <1>7, <2>1, <2>3
  <2> QED
    BY <2>2, <2>3
<1>8. AllowedInv'
  BY <1>1, <1>7 DEF AllowedInv
<1> QED
  BY <1>3, <1>6, <1>8 DEF IInv

\* Every step preserves the invariant.
THEOREM NextIInv == IInv /\ [AccessNext]_accessVars => IInv'
<1> SUFFICES ASSUME IInv, [AccessNext]_accessVars PROVE IInv'
  OBVIOUS
<1>1. ASSUME NEW r \in Requests, Handle(r) PROVE IInv'
  <2>1. CASE StartPatch(r)
    <3>1. \A b \in Patches : /\ b.visibility \in Visibilities \cup {"keep"}
                             /\ b.flag \in Flags \cup {"keep"}
      BY AccessAssumption DEF Bodies
    <3>2. "patch" \in Mutations
      BY DEF Mutations
    <3> QED
      BY <2>1, <3>1, <3>2, StartIInv DEF StartPatch
  <2>2. CASE StartOther(r)
    BY <2>2, StartIInv DEF StartOther
  <2>3. CASE AddToList(r) \/ RemoveFromList(r) \/ RecordSelection(r)
    BY <2>3, ListIInv
  <2>4. CASE IncrementUses(r) \/ SetVisibility(r) \/ SetNsfw(r) \/ Rewrite(r)
    BY <2>4, ChangeIInv
  <2>5. CASE DeleteGif(r)
    BY <2>5, DeleteGifIInv
  <2>6. CASE DropRequest(r)
    <3>1. /\ pc[r] # "idle" /\ Finish(r)
          /\ UNCHANGED <<gif, uploaded, pending, list, left>>
          /\ newer' \in [Requests -> SUBSET Ids]
      BY <2>6 DEF DropRequest, Forget, IInv, AccessTypeOK
    <3> QED
      BY <3>1, RowsUnchanged, StepGoesOn, ListsUnchanged, StillAllowed
  <2> QED
    BY <1>1, <2>1, <2>2, <2>3, <2>4, <2>5, <2>6 DEF Handle
<1>2. CASE Upload
  BY <1>2, BeginUploadIInv, UploadIInv DEF Upload
<1>3. CASE UNCHANGED accessVars
  BY <1>3
  DEF accessVars, IInv, AccessTypeOK, UploadedInv, Issued, AllowedInv, IdleInv,
      ListsReferToGifs, Live
<1> QED
  BY <1>1, <1>2, <1>3 DEF AccessNext

\* The inductive invariant holds in every state.
THEOREM SpecIInv == AccessSpec => []IInv
  BY InitIInv, NextIInv, PTL DEF AccessSpec

\* Lists refer to gifs that exist, whatever is deleted between the check of an
\* addition and its INSERT (foreign keys with ON DELETE CASCADE).
THEOREM SpecListsReferToGifs == AccessSpec => []ListsReferToGifs
<1>1. IInv => ListsReferToGifs
  BY DEF IInv
<1> QED
  BY <1>1, SpecIInv, PTL

\* A step in which a handler moves is that handler's.
LEMMA MovesItself ==
  ASSUME IInv, AccessNext, NEW r \in Requests, pc'[r] # pc[r]
  PROVE  Handle(r)
<1>1. pc \in [Requests -> {"idle", "act", "second"}]
  BY DEF IInv, AccessTypeOK
<1>2. ~ Upload
  BY DEF Upload, BeginUpload, UploadGif
<1>3. PICK q \in Requests : Handle(q)
  BY <1>2 DEF AccessNext
<1>4. \E label : pc' = [pc EXCEPT ![q] = label]
  <2>1. StartPatch(q) \/ StartOther(q) => pc' = [pc EXCEPT ![q] = "act"]
    BY DEF StartPatch, StartOther, Start
  <2>2. Finish(q) => pc' = [pc EXCEPT ![q] = "idle"]
    BY DEF Finish
  <2>3. Continue(q) => pc' = [pc EXCEPT ![q] = "second"]
    BY DEF Continue
  <2>4. StartPatch(q) \/ StartOther(q) \/ Finish(q) \/ Continue(q)
    BY <1>3
    DEF Handle, AddToList, RemoveFromList, RecordSelection, IncrementUses,
        SetVisibility, SetNsfw, Rewrite, DeleteGif, DropRequest
  <2> QED
    BY <2>1, <2>2, <2>3, <2>4
<1>5. q = r
  BY <1>1, <1>4
<1> QED
  BY <1>3, <1>5

\* Who changes a gif of somebody else is an admin or has selected it, and the
\* gif was shared while the request ran: the check of can_mutate is good for
\* the statement that follows it (auth.rs:43-47, fetch.rs:134-139).
THEOREM SpecPrivateIsUploadersOnly == AccessSpec => PrivateIsUploadersOnly
<1>1. ASSUME IInv, AccessNext, NEW r \in Requests, Changes(r)
      PROVE  \/ gif[job[r].id].uploader = job[r].user
             \/ exposed[r] /\ (job[r].user \in Admins \/ job[r].op = "select")
  <2>1. /\ job[r] \in Jobs /\ pc'[r] # pc[r]
        /\ gif'[job[r].id] # gif[job[r].id]
        /\ Handle(r)
    BY <1>1, MovesItself DEF Changes
  <2>2. pc[r] # "idle" /\ job[r].id \in Ids /\ gif \in [Ids -> Gifs \cup {NoGif}]
    BY <1>1, <2>1, AccessAssumption DEF IInv, IdleInv, Jobs, AccessTypeOK
  <2>3. \/ IncrementUses(r) \/ SetVisibility(r) \/ SetNsfw(r)
        \/ Rewrite(r) \/ DeleteGif(r)
    BY <2>1
    DEF Handle, StartPatch, StartOther, Start, AddToList, RemoveFromList,
        RecordSelection, DropRequest
  <2>4. job[r].op \in {"select", "patch", "replace", "tag", "delete"}
    BY <2>3 DEF IncrementUses, SetVisibility, SetNsfw, Rewrite, DeleteGif, Doing
  <2>5. job[r].id \in Live
    <3>1. SUFFICES ASSUME gif[job[r].id] = NoGif PROVE FALSE
      BY <2>2 DEF Live
    <3>2. gif' = gif \/ gif' = [gif EXCEPT ![job[r].id] = NoGif]
      BY <2>3, <3>1
      DEF IncrementUses, SetVisibility, SetNsfw, Rewrite, DeleteGif, RemoveGif,
          Live
    <3> QED
      BY <2>1, <2>2, <3>1, <3>2
  <2>6. /\ job[r].op \notin Removals
        /\ job[r].op # "select" => job[r].op \in Mutations
    BY <2>4 DEF Removals, Mutations
  <2> QED
    BY <1>1, <2>2, <2>4, <2>5, <2>6 DEF IInv, AllowedInv
<1>2. IInv /\ [AccessNext]_accessVars =>
        [\A r \in Requests : Changes(r) =>
           \/ gif[job[r].id].uploader = job[r].user
           \/ exposed[r] /\ (job[r].user \in Admins \/ job[r].op = "select")
        ]_accessVars
  BY <1>1
<1> QED
  BY <1>2, SpecIInv, PTL DEF AccessSpec, PrivateIsUploadersOnly

\* Who walks through the listings meanwhile changes nothing: the two theorems
\* above are about the program with its listings as well.
THEOREM BrowseIsAccess == AccessStart /\ [][Next]_vars => AccessSpec
<1>1. [Next]_vars => [AccessNext]_accessVars
  BY DEF Next, vars, Walk, StartWalk, QueryPage, QueryNames
<1> QED
  BY <1>1, PTL DEF AccessSpec

-----------------------------------------------------------------------------
(* Sequences of gifs                                                       *)

\* R is a strict order of S in which every two elements are in order.
StrictOrder(S, R) ==
  /\ \A x, y \in S : <<x, y>> \in R => <<y, x>> \notin R
  /\ \A x, y, z \in S : <<x, y>> \in R /\ <<y, z>> \in R => <<x, z>> \in R
  /\ \A x, y \in S : x # y => <<x, y>> \in R \/ <<y, x>> \in R

\* A sequence of all elements of a finite set has each of them at one place.
LEMMA SeqsFacts ==
  ASSUME NEW S, IsFiniteSet(S), NEW s \in SetToSeqs(S)
  PROVE  /\ s \in Seq(S) /\ Len(s) = Cardinality(S) /\ DOMAIN s = 1..Len(s)
         /\ ToSet(s) = S
         /\ \A m, n \in 1..Len(s) : s[m] = s[n] => m = n
<1> DEFINE N == Cardinality(S)
<1>1. N \in Nat /\ IsFiniteSet(1..N) /\ Cardinality(1..N) = N
  BY FS_CardinalityType, FS_Interval
<1>2. /\ s \in [1..N -> S]
      /\ \A m, n \in 1..N : m # n => s[m] # s[n]
  BY DEF SetToSeqs
<1> HIDE DEF N
<1>3. s \in Seq(S) /\ Len(s) = N /\ DOMAIN s = 1..N
  BY <1>1, <1>2
<1>4. s \in Injection(1..N, S)
  BY <1>2 DEF Injection, IsInjective
<1>5. s \in Surjection(1..N, S)
  BY <1>1, <1>4, FS_Injection DEF N
<1>6. ToSet(s) = S
  BY <1>2, <1>3, <1>5 DEF Surjection, ToSet
<1> QED
  BY <1>2, <1>3, <1>6 DEF N

\* A finite set can be sorted: an element's place is one more than the number
\* of elements before it.
LEMMA InOrderFacts ==
  ASSUME NEW S, IsFiniteSet(S), NEW R, StrictOrder(S, R)
  PROVE  /\ InOrder(S, R) \in SetToSeqs(S)
         /\ \A m, n \in 1..Len(InOrder(S, R)) :
              m < n => <<InOrder(S, R)[m], InOrder(S, R)[n]>> \in R
<1> DEFINE N == Cardinality(S)
           Below(x) == {y \in S : <<y, x>> \in R}
           place == [x \in S |-> Cardinality(Below(x)) + 1]
<1>1. N \in Nat /\ IsFiniteSet(1..N) /\ Cardinality(1..N) = N
  BY FS_CardinalityType, FS_Interval
<1>2. ASSUME NEW x \in S
      PROVE  /\ IsFiniteSet(Below(x)) /\ Cardinality(Below(x)) \in Nat
             /\ Cardinality(Below(x)) < N
  <2>1. x \notin Below(x) /\ Below(x) \in SUBSET S
    BY DEF StrictOrder
  <2>2. Below(x) # S
    BY <2>1
  <2> HIDE DEF Below
  <2>3. IsFiniteSet(Below(x)) /\ Cardinality(Below(x)) \in Nat
    BY <2>1, FS_Subset, FS_CardinalityType
  <2>4. Cardinality(Below(x)) <= N /\ Cardinality(Below(x)) # N
    BY <2>1, <2>2, FS_Subset
  <2> QED
    BY <1>1, <2>3, <2>4
<1>3. ASSUME NEW x \in S, NEW y \in S, <<x, y>> \in R
      PROVE  Cardinality(Below(x)) < Cardinality(Below(y))
  <2>1. Below(x) \in SUBSET Below(y)
    BY <1>3 DEF StrictOrder
  <2>2. x \in Below(y) /\ x \notin Below(x)
    BY <1>3 DEF StrictOrder
  <2>3. Below(x) # Below(y)
    BY <2>2
  <2> HIDE DEF Below
  <2> QED
    BY <1>2, <2>1, <2>3, FS_Subset
<1> HIDE DEF N, Below
<1>4. place \in [S -> 1..N]
  BY <1>1, <1>2
<1>5. \A x, y \in S : <<x, y>> \in R => place[x] < place[y]
  BY <1>2, <1>3
<1> HIDE DEF place
<1>6. \A x, y \in S : place[x] = place[y] => x = y
  <2> SUFFICES ASSUME NEW x \in S, NEW y \in S, x # y PROVE place[x] # place[y]
    OBVIOUS
  <2>1. place[x] \in Nat /\ place[y] \in Nat
    BY <1>1, <1>4
  <2>2. <<x, y>> \in R \/ <<y, x>> \in R
    BY DEF StrictOrder
  <2> QED
    BY <1>5, <2>1, <2>2
<1>7. place \in Injection(S, 1..N)
  BY <1>4, <1>6 DEF Injection, IsInjective
<1>8. place \in Surjection(S, 1..N)
  BY <1>1, <1>7, FS_Injection DEF N
<1> DEFINE g == [k \in 1..N |-> CHOOSE x \in S : place[x] = k]
<1>9. \A k \in 1..N : g[k] \in S /\ place[g[k]] = k
  BY <1>8 DEF Surjection
<1>10. g \in [1..N -> S]
  BY <1>9
<1> HIDE DEF g
<1>11. \A m, n \in 1..N : m # n => g[m] # g[n]
  BY <1>9
<1>12. \A m, n \in 1..N : m < n => <<g[m], g[n]>> \in R
  <2> SUFFICES ASSUME NEW m \in 1..N, NEW n \in 1..N, m < n
               PROVE  <<g[m], g[n]>> \in R
    OBVIOUS
  <2>1. g[m] \in S /\ g[n] \in S /\ place[g[m]] = m /\ place[g[n]] = n
    BY <1>9
  <2>2. g[m] # g[n]
    BY <1>11
  <2>3. <<g[n], g[m]>> \notin R
    BY <1>1, <1>5, <2>1
  <2> QED
    BY <2>1, <2>2, <2>3 DEF StrictOrder
<1>13. g \in SetToSeqs(S) /\ DOMAIN g = 1..N
  BY <1>10, <1>11 DEF SetToSeqs, N
<1>14. \E s \in SetToSeqs(S) :
         \A m, n \in DOMAIN s : m < n => <<s[m], s[n]>> \in R
  BY <1>12, <1>13
<1>15. /\ InOrder(S, R) \in SetToSeqs(S)
       /\ \A m, n \in DOMAIN InOrder(S, R) :
            m < n => <<InOrder(S, R)[m], InOrder(S, R)[n]>> \in R
  BY <1>14 DEF InOrder
<1> QED
  BY <1>15, SeqsFacts

\* t has its gifs in the order in which s has them.
Follows(t, s) ==
  \A m, n \in 1..Len(t) : m < n => <<t[m], t[n]>> \in Precedes(s)

\* What it means that a sequence of gifs has none twice.
LEMMA OrderFacts ==
  ASSUME NEW s \in Orders
  PROVE  /\ s \in Seq(Ids) /\ Len(s) \in Nat /\ DOMAIN s = 1..Len(s)
         /\ \A m, n \in 1..Len(s) : s[m] = s[n] => m = n
         /\ \A m \in 1..Len(s) : s[m] \in Ids
         /\ ToSet(s) = {s[m] : m \in 1..Len(s)} /\ ToSet(s) \subseteq Ids
         /\ IsFiniteSet(ToSet(s))
<1>1. /\ s \in Seq(Ids) /\ Len(s) \in Nat /\ DOMAIN s = 1..Len(s)
      /\ \A m, n \in 1..Len(s) : s[m] = s[n] => m = n
      /\ \A m \in 1..Len(s) : s[m] \in Ids
  BY DEF Orders, IsInjective
<1>2. ToSet(s) = {s[m] : m \in 1..Len(s)} /\ ToSet(s) \subseteq Ids
  BY <1>1 DEF ToSet
<1>3. [m \in 1..Len(s) |-> s[m]] \in Surjection(1..Len(s), ToSet(s))
  BY <1>1, <1>2 DEF Surjection
<1>4. IsFiniteSet(1..Len(s))
  BY <1>1, FS_Interval
<1>5. IsFiniteSet(ToSet(s))
  BY <1>3, <1>4, FS_Surjection
<1> QED
  BY <1>1, <1>2, <1>5

\* All gifs of a set, one after the other.
LEMMA SortedIsOrder ==
  ASSUME NEW S \in SUBSET Ids, IsFiniteSet(S), NEW s \in SetToSeqs(S)
  PROVE  s \in Orders /\ ToSet(s) = S
<1>1. /\ s \in Seq(S) /\ DOMAIN s = 1..Len(s) /\ ToSet(s) = S
      /\ \A m, n \in 1..Len(s) : s[m] = s[n] => m = n
  BY SeqsFacts
<1>2. s \in Seq(Ids)
  BY <1>1
<1> QED
  BY <1>1, <1>2 DEF Orders, IsInjective

\* The places in s order its gifs.
LEMMA PrecedesFacts ==
  ASSUME NEW s \in Orders
  PROVE  /\ \A m, n \in 1..Len(s) : <<s[m], s[n]>> \in Precedes(s) <=> m < n
         /\ \A S \in SUBSET ToSet(s) : StrictOrder(S, Precedes(s))
<1>1. \A m, n \in 1..Len(s) : <<s[m], s[n]>> \in Precedes(s) <=> m < n
  <2> SUFFICES ASSUME NEW m \in 1..Len(s), NEW n \in 1..Len(s)
               PROVE  <<s[m], s[n]>> \in Precedes(s) <=> m < n
    OBVIOUS
  <2>1. s[m] \in ToSet(s) /\ s[n] \in ToSet(s)
    BY OrderFacts
  <2> QED
    BY <2>1, OrderFacts DEF Precedes
<1>2. \A x \in ToSet(s) : \E m \in 1..Len(s) : x = s[m]
  BY OrderFacts
<1>3. Len(s) \in Nat
  BY OrderFacts
<1>4. StrictOrder(ToSet(s), Precedes(s))
  BY <1>1, <1>2, <1>3 DEF StrictOrder
<1>5. \A S \in SUBSET ToSet(s) : StrictOrder(S, Precedes(s))
  BY <1>4 DEF StrictOrder
<1> QED
  BY <1>1, <1>5

\* A selection of the rows keeps their order.
LEMMA KeptFacts ==
  ASSUME NEW s \in Orders, NEW T
  PROVE  /\ Kept(s, T) \in Orders
         /\ ToSet(Kept(s, T)) = ToSet(s) \cap T
         /\ Follows(Kept(s, T), s)
<1> DEFINE S == ToSet(s) \cap T
           t == Kept(s, T)
<1>1. S \in SUBSET ToSet(s) /\ IsFiniteSet(S) /\ S \subseteq Ids
  BY OrderFacts, FS_Subset
<1>2. StrictOrder(S, Precedes(s))
  BY <1>1, PrecedesFacts
<1>3. t = InOrder(S, Precedes(s))
  BY DEF Kept
<1> HIDE DEF t, S
<1>4. /\ t \in SetToSeqs(S)
      /\ \A m, n \in 1..Len(t) : m < n => <<t[m], t[n]>> \in Precedes(s)
  BY <1>1, <1>2, <1>3, InOrderFacts
<1>5. /\ t \in Seq(S) /\ Len(t) = Cardinality(S) /\ DOMAIN t = 1..Len(t)
      /\ ToSet(t) = S
      /\ \A m, n \in 1..Len(t) : t[m] = t[n] => m = n
  BY <1>1, <1>4, SeqsFacts
<1>6. t \in Orders
  <2>1. t \in Seq(Ids)
    BY <1>1, <1>5
  <2> QED
    BY <1>5, <2>1 DEF Orders, IsInjective
<1> QED
  BY <1>4, <1>5, <1>6 DEF Follows, t, S

\* Leaving rows out moves none to a later place.
LEMMA NoLater ==
  ASSUME NEW s \in Orders, NEW t \in Orders, ToSet(t) \subseteq ToSet(s),
         Follows(t, s),
         NEW j \in 1..Len(t), NEW k \in 1..Len(s), t[j] = s[k]
  PROVE  j <= k
<1> DEFINE f == [m \in 1..j |-> CHOOSE n \in 1..Len(s) : s[n] = t[m]]
<1>s. Len(s) \in Nat /\ ToSet(s) = {s[n] : n \in 1..Len(s)}
  BY OrderFacts
<1>t. Len(t) \in Nat /\ ToSet(t) = {t[n] : n \in 1..Len(t)}
  BY OrderFacts
<1>1. /\ Len(s) \in Nat /\ Len(t) \in Nat
      /\ \A m \in 1..Len(t) : \E n \in 1..Len(s) : s[n] = t[m]
  BY <1>s, <1>t
<1>2. ASSUME NEW m \in 1..j PROVE f[m] \in 1..Len(s) /\ s[f[m]] = t[m]
  <2>1. m \in 1..Len(t)
    BY <1>1
  <2>2. \E n \in 1..Len(s) : s[n] = t[m]
    BY <1>1, <2>1
  <2>3. f[m] = CHOOSE n \in 1..Len(s) : s[n] = t[m]
    OBVIOUS
  <2> QED
    BY <2>2, <2>3
<1> HIDE DEF f
<1>3. \A m \in 1..j : f[m] <= k
  <2> SUFFICES ASSUME NEW m \in 1..j PROVE f[m] <= k
    OBVIOUS
  <2>1. f[m] \in 1..Len(s) /\ s[f[m]] = t[m]
    BY <1>2
  <2>2. CASE m = j
    BY <2>1, <2>2, OrderFacts
  <2>3. CASE m # j
    <3>1. m \in 1..Len(t) /\ m < j
      BY <1>1, <2>3
    <3>2. <<s[f[m]], s[k]>> \in Precedes(s)
      BY <2>1, <3>1 DEF Follows
    <3>3. f[m] < k
      BY <2>1, <3>2, PrecedesFacts
    <3> QED
      BY <1>1, <2>1, <3>3
  <2> QED
    BY <2>2, <2>3
<1>4. ASSUME NEW m \in 1..j, NEW n \in 1..j, f[m] = f[n] PROVE m = n
  <2>1. t[m] = t[n]
    BY <1>2, <1>4
  <2>2. m \in 1..Len(t) /\ n \in 1..Len(t)
    BY <1>1
  <2> QED
    BY <2>1, <2>2, OrderFacts
<1>5. \A m \in 1..j : f[m] \in 1..k
  BY <1>1, <1>2, <1>3
<1>6. DOMAIN f = 1..j /\ f = [m \in 1..j |-> f[m]]
  BY DEF f
<1>7. f \in Injection(1..j, 1..k)
  BY <1>4, <1>5, <1>6 DEF Injection, IsInjective
<1>8. /\ IsFiniteSet(1..k) /\ Cardinality(1..k) = k /\ Cardinality(1..j) = j
      /\ j \in Nat /\ k \in Nat
  BY <1>1, FS_Interval
<1> QED
  BY <1>7, <1>8, FS_Injection

\* There is one sequence of given gifs in a given order.
LEMMA OneOrder ==
  ASSUME NEW s \in Orders, NEW t \in Orders, ToSet(t) = ToSet(s), Follows(t, s)
  PROVE  t = s
<1>s. /\ Len(s) \in Nat /\ ToSet(s) = {s[n] : n \in 1..Len(s)}
      /\ s \in Seq(Ids)
      /\ \A m, n \in 1..Len(s) : s[m] = s[n] => m = n
  BY OrderFacts
<1>t. /\ Len(t) \in Nat /\ ToSet(t) = {t[n] : n \in 1..Len(t)}
       /\ t \in Seq(Ids)
  BY OrderFacts
<1>1. Follows(s, t)
  <2> SUFFICES ASSUME NEW m \in 1..Len(s), NEW n \in 1..Len(s), m < n
               PROVE  <<s[m], s[n]>> \in Precedes(t)
    BY DEF Follows
  <2>1. PICK a \in 1..Len(t), b \in 1..Len(t) : t[a] = s[m] /\ t[b] = s[n]
    <3>1. s[m] \in ToSet(t) /\ s[n] \in ToSet(t)
      BY <1>s
    <3>2. (\E a \in 1..Len(t) : t[a] = s[m]) /\ \E b \in 1..Len(t) : t[b] = s[n]
      BY <1>t, <3>1
    <3> QED
      BY <3>2
  <2>2. a # b
    BY <1>s, <2>1
  <2>3. ASSUME b < a PROVE FALSE
    <3>1. <<s[n], s[m]>> \in Precedes(s)
      BY <2>1, <2>3 DEF Follows
    <3> QED
      BY <1>s, <3>1, PrecedesFacts
  <2>4. a < b
    BY <1>t, <2>2, <2>3
  <2> QED
    BY <2>1, <2>4, PrecedesFacts
<1>2. \A j \in 1..Len(t), k \in 1..Len(s) : t[j] = s[k] => j = k
  <2> SUFFICES ASSUME NEW j \in 1..Len(t), NEW k \in 1..Len(s), t[j] = s[k]
               PROVE  j = k
    OBVIOUS
  <2>1. j <= k
    BY NoLater
  <2>2. k <= j
    BY <1>1, NoLater
  <2> QED
    BY <1>s, <1>t, <2>1, <2>2
<1>3. ASSUME NEW j \in 1..Len(t) PROVE j \in 1..Len(s) /\ t[j] = s[j]
  <2>1. PICK k \in 1..Len(s) : t[j] = s[k]
    BY <1>s, <1>t
  <2> QED
    BY <1>2, <2>1
<1>4. ASSUME NEW k \in 1..Len(s) PROVE k \in 1..Len(t)
  <2>1. PICK j \in 1..Len(t) : t[j] = s[k]
    BY <1>s, <1>t
  <2> QED
    BY <1>2, <2>1
<1>5. Len(s) = Len(t)
  <2>1. Len(t) <= Len(s)
    BY <1>s, <1>t, <1>3
  <2>2. Len(s) <= Len(t)
    BY <1>s, <1>t, <1>4
  <2> QED
    BY <1>s, <1>t, <2>1, <2>2
<1> QED
  BY <1>s, <1>t, <1>3, <1>5

\* A selection that every row passes changes nothing.
LEMMA KeptAll ==
  ASSUME NEW s \in Orders, NEW T, ToSet(s) \subseteq T
  PROVE  Kept(s, T) = s
<1>1. ToSet(s) \cap T = ToSet(s)
  OBVIOUS
<1> QED
  BY <1>1, KeptFacts, OneOrder

\* What the walk's history says of two listings: if what they have in common
\* comes in the same order, rows that only vanish or only appear do not move
\* the others back and forth.
LEMMA CommonFacts ==
  ASSUME NEW last \in Orders, NEW now \in Orders,
         Common(last, now) = Common(now, last)
  PROVE  /\ ToSet(now) \subseteq ToSet(last) =>
              \A j \in 1..Len(now), k \in 1..Len(last) :
                now[j] = last[k] => j <= k
         /\ ToSet(last) \subseteq ToSet(now) =>
              \A j \in 1..Len(now), k \in 1..Len(last) :
                now[j] = last[k] => k <= j
         /\ ToSet(now) = ToSet(last) => now = last
<1>1. ASSUME ToSet(now) \subseteq ToSet(last)
      PROVE  Follows(now, last)
  <2>1. Kept(now, ToSet(last)) = now
    BY <1>1, KeptAll
  <2> QED
    BY <2>1, KeptFacts DEF Common
<1>2. ASSUME ToSet(last) \subseteq ToSet(now)
      PROVE  Follows(last, now)
  <2>1. Kept(last, ToSet(now)) = last
    BY <1>2, KeptAll
  <2> QED
    BY <2>1, KeptFacts DEF Common
<1>3. ASSUME ToSet(now) \subseteq ToSet(last),
             NEW j \in 1..Len(now), NEW k \in 1..Len(last), now[j] = last[k]
      PROVE  j <= k
  BY <1>1, <1>3, NoLater
<1>4. ASSUME ToSet(last) \subseteq ToSet(now),
             NEW j \in 1..Len(now), NEW k \in 1..Len(last), now[j] = last[k]
      PROVE  k <= j
  BY <1>2, <1>4, NoLater
<1>5. ToSet(now) = ToSet(last) => now = last
  BY <1>1, OneOrder
<1> QED
  BY <1>3, <1>4, <1>5

\* What a comparison of sort keys of one or of two numbers comes to.
LEMMA LexicographicFacts ==
  ASSUME NEW a \in Int, NEW b \in Int, NEW c \in Int, NEW d \in Int
  PROVE  /\ Lexicographic(<<a>>, <<c>>) <=> a > c
         /\ Lexicographic(<<a, b>>, <<c, d>>) <=> a > c \/ (a = c /\ b > d)
<1>1. Lexicographic(<<a>>, <<c>>) <=> a > c
  <2>1. DOMAIN <<a>> = {1}
    OBVIOUS
  <2>2. 1..(1 - 1) = {}
    OBVIOUS
  <2> QED
    BY <2>1, <2>2 DEF Lexicographic
<1>2. Lexicographic(<<a, b>>, <<c, d>>) <=> a > c \/ (a = c /\ b > d)
  <2>1. DOMAIN <<a, b>> = {1, 2}
    OBVIOUS
  <2>2. 1..(1 - 1) = {} /\ 1..(2 - 1) = {1}
    OBVIOUS
  <2>3. /\ <<a, b>>[1] = a /\ <<a, b>>[2] = b
        /\ <<c, d>>[1] = c /\ <<c, d>>[2] = d
    OBVIOUS
  <2> QED
    BY <2>1, <2>2, <2>3 DEF Lexicographic
<1> QED
  BY <1>1, <1>2

\* A walk whose query has a sort key: the shuffle of a random one has a seed.
Ranked(w) ==
  /\ w \in Walks /\ w.kind \notin Lists
  /\ w.kind = "random" => w.seed \in Seeds

\* What Before comes to in each kind of listing.
LEMMA BeforeFacts ==
  ASSUME AccessTypeOK, NEW w, Ranked(w), NEW i \in Live, NEW k \in Live
  PROVE  /\ w.kind = "recent" => (Before(w, i, k) <=> Newer(i, k))
         /\ w.kind = "featured" =>
              (Before(w, i, k) <=> \/ gif[i].uses > gif[k].uses
                                   \/ gif[i].uses = gif[k].uses /\ Newer(i, k))
         /\ w.kind = "random" =>
              (Before(w, i, k) <=>
                 \/ Shuffle[w.seed][i] < Shuffle[w.seed][k]
                 \/ Shuffle[w.seed][i] = Shuffle[w.seed][k] /\ Newer(i, k))
         /\ w.kind = "search" =>
              (Before(w, i, k) <=>
                 \/ TagHits[i] > TagHits[k]
                 \/ TagHits[i] = TagHits[k] /\ gif[i].uses > gif[k].uses
                 \/ /\ TagHits[i] = TagHits[k] /\ gif[i].uses = gif[k].uses
                    /\ Newer(i, k))
<1>1. /\ i \in Ids /\ k \in Ids /\ gif[i].uses \in Int /\ gif[k].uses \in Int
      /\ TagHits[i] \in Int /\ TagHits[k] \in Int
  BY BrowseAssumption DEF AccessTypeOK, Live, Gifs
<1>2. CASE w.kind = "recent"
  <2>1. Key(w, i) = <<>> /\ Key(w, k) = <<>>
    BY <1>2 DEF Key
  <2> QED
    BY <1>2, <2>1 DEF Before
<1>3. CASE w.kind = "featured"
  <2>1. Key(w, i) = <<gif[i].uses>> /\ Key(w, k) = <<gif[k].uses>>
    BY <1>3 DEF Key
  <2>2. Lexicographic(<<gif[i].uses>>, <<gif[k].uses>>)
          <=> gif[i].uses > gif[k].uses
    BY <1>1, LexicographicFacts
  <2> QED
    BY <1>1, <1>3, <2>1, <2>2 DEF Before
<1>4. CASE w.kind = "random"
  <2>1. /\ Key(w, i) = <<-Shuffle[w.seed][i]>>
        /\ Key(w, k) = <<-Shuffle[w.seed][k]>>
    BY <1>4 DEF Key
  <2>2. Shuffle[w.seed][i] \in Nat /\ Shuffle[w.seed][k] \in Nat
    BY <1>1, <1>4, BrowseAssumption DEF Ranked
  <2>3. Lexicographic(<<-Shuffle[w.seed][i]>>, <<-Shuffle[w.seed][k]>>)
          <=> -Shuffle[w.seed][i] > -Shuffle[w.seed][k]
    <3>1. PICK a \in Int, c \in Int :
            a = -Shuffle[w.seed][i] /\ c = -Shuffle[w.seed][k]
      BY <2>2
    <3>2. Lexicographic(<<a>>, <<c>>) <=> a > c
      BY LexicographicFacts
    <3> QED
      BY <3>1, <3>2
  <2> QED
    BY <1>4, <2>1, <2>2, <2>3 DEF Before
<1>5. CASE w.kind = "search"
  <2>1. /\ Key(w, i) = <<TagHits[i], gif[i].uses>>
        /\ Key(w, k) = <<TagHits[k], gif[k].uses>>
    BY <1>5 DEF Key
  <2>2. Lexicographic(<<TagHits[i], gif[i].uses>>, <<TagHits[k], gif[k].uses>>)
          <=> \/ TagHits[i] > TagHits[k]
              \/ TagHits[i] = TagHits[k] /\ gif[i].uses > gif[k].uses
    BY <1>1, LexicographicFacts
  <2> QED
    BY <1>1, <1>5, <2>1, <2>2 DEF Before
<1> QED
  BY <1>2, <1>3, <1>4, <1>5

\* ORDER BY leaves no two rows in doubt: gifs that tie in the key were
\* uploaded one after the other.
LEMMA BeforeIsStrict ==
  ASSUME AccessTypeOK, UploadedInv, NEW w, Ranked(w), NEW S \in SUBSET Live
  PROVE  StrictOrder(S, {p \in S \X S : Before(w, p[1], p[2])})
<1> DEFINE R == {p \in S \X S : Before(w, p[1], p[2])}
<1>1. \A i, k \in S : <<i, k>> \in R <=> Before(w, i, k)
  OBVIOUS
<1>2. StrictOrder(S, Precedes(uploaded))
  BY PrecedesFacts DEF AccessTypeOK, UploadedInv, Issued
<1>3. /\ \A i, k \in S : Newer(i, k) => ~ Newer(k, i)
      /\ \A i, j, k \in S : Newer(i, j) /\ Newer(j, k) => Newer(i, k)
      /\ \A i, k \in S : i # k => Newer(i, k) \/ Newer(k, i)
  BY <1>2 DEF StrictOrder, Newer
<1>4. /\ \A i \in S : i \in Ids /\ gif[i].uses \in Int /\ TagHits[i] \in Int
      /\ w.kind = "random" => \A i \in S : Shuffle[w.seed][i] \in Int
  BY BrowseAssumption DEF AccessTypeOK, Live, Gifs, Ranked
<1>5. w.kind \in {"recent", "featured", "random", "search"}
  BY DEF Ranked, Walks, AllKinds, Lists
<1> DEFINE P(i, k) == Before(w, i, k)
<1>6. /\ \A i, k \in S : P(i, k) => ~ P(k, i)
      /\ \A i, j, k \in S : P(i, j) /\ P(j, k) => P(i, k)
      /\ \A i, k \in S : i # k => P(i, k) \/ P(k, i)
  <2>1. CASE w.kind = "recent"
    <3>1. \A i, k \in S : P(i, k) <=> Newer(i, k)
      BY <2>1, BeforeFacts
    <3> HIDE DEF P
    <3> QED
      BY <1>3, <3>1
  <2>2. CASE w.kind = "featured"
    <3>1. \A i, k \in S : P(i, k) <=>
            \/ gif[i].uses > gif[k].uses
            \/ gif[i].uses = gif[k].uses /\ Newer(i, k)
      BY <2>2, BeforeFacts
    <3> HIDE DEF P
    <3> QED
      BY <1>3, <1>4, <3>1
  <2>3. CASE w.kind = "random"
    <3>1. \A i, k \in S : P(i, k) <=>
            \/ Shuffle[w.seed][i] < Shuffle[w.seed][k]
            \/ Shuffle[w.seed][i] = Shuffle[w.seed][k] /\ Newer(i, k)
      BY <2>3, BeforeFacts
    <3> HIDE DEF P
    <3> QED
      BY <1>3, <1>4, <2>3, <3>1
  <2>4. CASE w.kind = "search"
    <3>1. \A i, k \in S : P(i, k) <=>
            \/ TagHits[i] > TagHits[k]
            \/ TagHits[i] = TagHits[k] /\ gif[i].uses > gif[k].uses
            \/ /\ TagHits[i] = TagHits[k] /\ gif[i].uses = gif[k].uses
               /\ Newer(i, k)
      BY <2>4, BeforeFacts
    <3> HIDE DEF P
    <3> QED
      BY <1>3, <1>4, <3>1
  <2> QED
    BY <1>5, <2>1, <2>2, <2>3, <2>4
<1> HIDE DEF R
<1> QED
  BY <1>1, <1>6 DEF StrictOrder, R

\* The rows of a query: each gif once.
LEMMA ListingOrders ==
  ASSUME AccessTypeOK, UploadedInv, NEW w \in Walks,
         w.kind = "random" => w.seed \in Seeds
  PROVE  Listing(w) \in Orders
<1>1. CASE w.kind \in Lists
  <2>1. list[w.viewer][w.kind] \in Orders
    BY <1>1 DEF AccessTypeOK, Walks
  <2> QED
    BY <1>1, <2>1, KeptFacts DEF Listing
<1>2. CASE w.kind \notin Lists
  <2> DEFINE S == {i \in Listed(w) \cap NotHidden(w) :
                     w.kind = "search" => TagHits[i] > 0}
             R == {p \in S \X S : Before(w, p[1], p[2])}
  <2>1. S \in SUBSET Live
    BY DEF Listed
  <2>2. Listing(w) = InOrder(S, R)
    BY <1>2 DEF Listing, Sorted
  <2> HIDE DEF S
  <2>3. StrictOrder(S, R)
    BY <1>2, <2>1, BeforeIsStrict DEF Ranked
  <2>4. S \in SUBSET Ids /\ IsFiniteSet(S)
    <3>1. uploaded \in Orders /\ S \in SUBSET ToSet(uploaded)
      BY <2>1 DEF AccessTypeOK, UploadedInv, Issued
    <3> QED
      BY <3>1, OrderFacts, FS_Subset
  <2> HIDE DEF R
  <2>5. InOrder(S, R) \in SetToSeqs(S)
    BY <2>3, <2>4, InOrderFacts
  <2> QED
    BY <2>2, <2>4, <2>5, SortedIsOrder
<1> QED
  BY <1>1, <1>2

\* The smaller of two numbers.
LEMMA MinFacts ==
  ASSUME NEW a \in Int, NEW b \in Int
  PROVE  Min({a, b}) = IF a <= b THEN a ELSE b
  BY DEF Min

\* LIMIT and OFFSET.
LEMMA WindowFacts ==
  ASSUME NEW s \in Orders, NEW limit \in Nat, NEW offset \in Nat
  PROVE  /\ Window(s, limit, offset) \in Orders
         /\ Len(Window(s, limit, offset)) \in Nat
         /\ Len(Window(s, limit, offset)) =
              IF offset + limit <= Len(s) THEN limit
              ELSE IF offset <= Len(s) THEN Len(s) - offset ELSE 0
         /\ \A n \in 1..Len(Window(s, limit, offset)) :
              /\ offset + n \in 1..Len(s)
              /\ Window(s, limit, offset)[n] = s[offset + n]
         /\ \A k \in 1..Len(s) :
              s[k] \in ToSet(Window(s, limit, offset))
                <=> offset < k /\ k <= offset + limit
<1>1. /\ s \in Seq(Ids) /\ Len(s) \in Nat
      /\ \A m, n \in 1..Len(s) : s[m] = s[n] => m = n
      /\ \A m \in 1..Len(s) : s[m] \in Ids
  BY OrderFacts
<1>2. PICK z \in Int : /\ z = Min({offset + limit, Len(s)})
                       /\ z = IF offset + limit <= Len(s) THEN offset + limit
                              ELSE Len(s)
  BY <1>1, MinFacts
<1>3. PICK t : t = Window(s, limit, offset)
  OBVIOUS
<1>4. PICK lo \in Int : lo = offset + 1 /\ t = SubSeq(s, lo, z)
  <2>1. t = SubSeq(s, offset + 1, Min({offset + limit, Len(s)}))
    BY <1>3 DEF Window
  <2>2. t = SubSeq(s, offset + 1, z) /\ offset + 1 \in Int
    BY <1>2, <2>1
  <2> QED
    BY <2>2
<1>5. \A i \in lo..z : s[i] \in Ids
  BY <1>1, <1>2, <1>4
<1>6. /\ t \in Seq(Ids) /\ DOMAIN t = 1..Len(t)
      /\ Len(t) = IF lo <= z THEN z - lo + 1 ELSE 0
      /\ \A n \in 1..(z - lo + 1) : t[n] = s[lo + n - 1]
  <2>1. /\ SubSeq(s, lo, z) \in Seq(Ids)
        /\ Len(SubSeq(s, lo, z)) = IF lo <= z THEN z - lo + 1 ELSE 0
        /\ \A n \in 1..(z - lo + 1) : SubSeq(s, lo, z)[n] = s[lo + n - 1]
    BY <1>5, SubSeqProperties
  <2> QED
    BY <1>4, <2>1
<1>7. /\ Len(t) \in Nat
      /\ Len(t) = IF offset + limit <= Len(s) THEN limit
                  ELSE IF offset <= Len(s) THEN Len(s) - offset ELSE 0
  BY <1>1, <1>2, <1>4, <1>6
<1>8. ASSUME NEW n \in 1..Len(t)
      PROVE  offset + n \in 1..Len(s) /\ t[n] = s[offset + n]
  <2>1. n \in 1..(z - lo + 1) /\ lo + n - 1 = offset + n
    BY <1>2, <1>4, <1>6
  <2>2. offset + n \in 1..Len(s)
    BY <1>1, <1>7
  <2> QED
    BY <1>6, <2>1, <2>2
<1>9. \A m, n \in 1..Len(t) : t[m] = t[n] => m = n
  <2> SUFFICES ASSUME NEW m \in 1..Len(t), NEW n \in 1..Len(t), t[m] = t[n]
               PROVE  m = n
    OBVIOUS
  <2>1. offset + m = offset + n
    BY <1>1, <1>8
  <2> QED
    BY <1>7, <2>1
<1>10. t \in Orders
  BY <1>6, <1>9 DEF Orders, IsInjective
<1>11. ASSUME NEW k \in 1..Len(s)
       PROVE  s[k] \in ToSet(t) <=> offset < k /\ k <= offset + limit
  <2>1. ASSUME s[k] \in ToSet(t) PROVE offset < k /\ k <= offset + limit
    <3>1. PICK n \in 1..Len(t) : t[n] = s[k]
      BY <1>10, <2>1, OrderFacts
    <3>2. offset + n = k
      BY <1>1, <1>8, <3>1
    <3> QED
      BY <1>7, <3>2
  <2>2. ASSUME offset < k, k <= offset + limit PROVE s[k] \in ToSet(t)
    <3>1. k - offset \in 1..Len(t)
      BY <1>1, <1>7, <2>2
    <3>2. t[k - offset] = s[offset + (k - offset)]
      BY <1>8, <3>1
    <3>3. offset + (k - offset) = k
      BY <1>1
    <3>4. t[k - offset] \in ToSet(t)
      BY <1>10, <3>1, OrderFacts
    <3> QED
      BY <3>2, <3>3, <3>4
  <2> QED
    BY <2>1, <2>2
<1> QED
  BY <1>3, <1>7, <1>8, <1>10, <1>11

\* The elements of a concatenation.
LEMMA JoinToSet ==
  ASSUME NEW s \in Seq(Ids), NEW t \in Seq(Ids)
  PROVE  ToSet(s \o t) = ToSet(s) \cup ToSet(t)
<1>1. Len(s) \in Nat /\ ToSet(s) = {s[m] : m \in 1..Len(s)}
  BY DEF ToSet
<1>2. Len(t) \in Nat /\ ToSet(t) = {t[m] : m \in 1..Len(t)}
  BY DEF ToSet
<1>3. PICK j : j = s \o t
  OBVIOUS
<1>4. /\ j \in Seq(Ids) /\ Len(j) = Len(s) + Len(t) /\ DOMAIN j = 1..Len(j)
      /\ \A n \in 1..Len(j) :
           j[n] = IF n <= Len(s) THEN s[n] ELSE t[n - Len(s)]
  BY <1>1, <1>2, <1>3, ConcatProperties
<1>5. \A n \in 1..Len(j) : IF n <= Len(s) THEN j[n] \in ToSet(s)
                                          ELSE j[n] \in ToSet(t)
  <2> SUFFICES ASSUME NEW n \in 1..Len(j)
               PROVE  IF n <= Len(s) THEN j[n] \in ToSet(s)
                                     ELSE j[n] \in ToSet(t)
    OBVIOUS
  <2>1. CASE n <= Len(s)
    BY <1>1, <1>4, <2>1
  <2>2. CASE ~ (n <= Len(s))
    <3>1. n - Len(s) \in 1..Len(t) /\ j[n] = t[n - Len(s)]
      BY <1>1, <1>2, <1>4, <2>2
    <3> QED
      BY <1>2, <2>2, <3>1
  <2> QED
    BY <2>1, <2>2
<1>6. ToSet(j) = ToSet(s) \cup ToSet(t)
  <2>1. \A n \in 1..Len(j) : j[n] \in ToSet(s) \cup ToSet(t)
    BY <1>5
  <2>2. ASSUME NEW m \in 1..Len(s) PROVE \E n \in 1..Len(j) : j[n] = s[m]
    <3>1. m \in 1..Len(j) /\ j[m] = s[m]
      BY <1>1, <1>2, <1>4
    <3> QED
      BY <3>1
  <2>3. ASSUME NEW m \in 1..Len(t) PROVE \E n \in 1..Len(j) : j[n] = t[m]
    <3>1. PICK n \in Nat : n = Len(s) + m
      BY <1>1
    <3>2. n \in 1..Len(j) /\ ~ (n <= Len(s)) /\ n - Len(s) = m
      BY <1>1, <1>2, <1>4, <3>1
    <3>3. j[n] = t[m]
      BY <1>4, <3>2
    <3> QED
      BY <3>2, <3>3
  <2>4. ToSet(j) = {j[n] : n \in 1..Len(j)}
    BY <1>4 DEF ToSet
  <2> QED
    <3>1. ToSet(j) \subseteq ToSet(s) \cup ToSet(t)
      BY <2>1, <2>4
    <3>2. ToSet(s) \subseteq ToSet(j)
      BY <1>1, <2>2, <2>4
    <3>3. ToSet(t) \subseteq ToSet(j)
      BY <1>2, <2>3, <2>4
    <3> QED
      BY <3>1, <3>2, <3>3
<1> QED
  BY <1>3, <1>6

\* Gifs that were not there are added behind the others.
LEMMA JoinFacts ==
  ASSUME NEW s \in Orders, NEW t \in Orders, ToSet(s) \cap ToSet(t) = {}
  PROVE  s \o t \in Orders /\ ToSet(s \o t) = ToSet(s) \cup ToSet(t)
<1>1. /\ s \in Seq(Ids) /\ Len(s) \in Nat /\ ToSet(s) = {s[m] : m \in 1..Len(s)}
      /\ \A m, n \in 1..Len(s) : s[m] = s[n] => m = n
  BY OrderFacts
<1>2. /\ t \in Seq(Ids) /\ Len(t) \in Nat /\ ToSet(t) = {t[m] : m \in 1..Len(t)}
      /\ \A m, n \in 1..Len(t) : t[m] = t[n] => m = n
  BY OrderFacts
<1>3. PICK j : j = s \o t
  OBVIOUS
<1>4. /\ j \in Seq(Ids) /\ Len(j) = Len(s) + Len(t) /\ DOMAIN j = 1..Len(j)
      /\ \A n \in 1..Len(j) :
           j[n] = IF n <= Len(s) THEN s[n] ELSE t[n - Len(s)]
  BY <1>1, <1>2, <1>3, ConcatProperties
<1>5. \A n \in 1..Len(j) : IF n <= Len(s) THEN j[n] \in ToSet(s)
                                          ELSE j[n] \in ToSet(t)
  <2> SUFFICES ASSUME NEW n \in 1..Len(j)
               PROVE  IF n <= Len(s) THEN j[n] \in ToSet(s)
                                     ELSE j[n] \in ToSet(t)
    OBVIOUS
  <2>1. CASE n <= Len(s)
    BY <1>1, <1>4, <2>1
  <2>2. CASE ~ (n <= Len(s))
    <3>1. n - Len(s) \in 1..Len(t) /\ j[n] = t[n - Len(s)]
      BY <1>1, <1>2, <1>4, <2>2
    <3> QED
      BY <1>2, <2>2, <3>1
  <2> QED
    BY <2>1, <2>2
<1>6. ASSUME NEW m \in 1..Len(j), NEW n \in 1..Len(j), j[m] = j[n] PROVE m = n
  <2>1. m <= Len(s) <=> n <= Len(s)
    BY <1>5, <1>6
  <2>2. CASE m <= Len(s)
    BY <1>1, <1>4, <1>6, <2>1, <2>2
  <2>3. CASE ~ (m <= Len(s))
    <3>1. m - Len(s) \in 1..Len(t) /\ n - Len(s) \in 1..Len(t)
      BY <1>1, <1>2, <1>4, <2>1, <2>3
    <3>2. t[m - Len(s)] = t[n - Len(s)]
      BY <1>4, <1>6, <2>1, <2>3
    <3>3. m - Len(s) = n - Len(s)
      BY <1>2, <3>1, <3>2
    <3> QED
      BY <1>1, <1>2, <1>4, <3>3
  <2> QED
    BY <2>2, <2>3
<1>7. ToSet(j) = ToSet(s) \cup ToSet(t)
  BY <1>1, <1>2, <1>3, JoinToSet
<1>8. j \in Orders
  BY <1>4, <1>6 DEF Orders, IsInjective
<1> QED
  BY <1>3, <1>7, <1>8

\* Two windows next to each other are one.
LEMMA WindowsJoin ==
  ASSUME NEW s \in Orders, NEW a \in Nat, NEW b \in Nat
  PROVE  Window(s, a, 0) \o Window(s, b, a) = Window(s, a + b, 0)
<1>1. PICK p, q, r : /\ p = Window(s, a, 0) /\ q = Window(s, b, a)
                     /\ r = Window(s, a + b, 0)
  OBVIOUS
<1>2. Len(s) \in Nat
  BY OrderFacts
<1>3. /\ p \in Orders
      /\ Len(p) = IF a <= Len(s) THEN a ELSE Len(s)
      /\ \A n \in 1..Len(p) : p[n] = s[n]
  <2>1. \A n \in 1..Len(p) : p[n] = s[0 + n]
    BY <1>1, WindowFacts
  <2> QED
    BY <1>1, <1>2, <2>1, WindowFacts
<1>4. /\ q \in Orders
      /\ Len(q) = IF a + b <= Len(s) THEN b
                  ELSE IF a <= Len(s) THEN Len(s) - a ELSE 0
      /\ \A n \in 1..Len(q) : q[n] = s[a + n]
  BY <1>1, WindowFacts
<1>5. /\ r \in Orders
      /\ Len(r) = IF a + b <= Len(s) THEN a + b ELSE Len(s)
      /\ \A n \in 1..Len(r) : r[n] = s[n]
  <2>1. \A n \in 1..Len(r) : r[n] = s[0 + n]
    BY <1>1, WindowFacts
  <2> QED
    BY <1>1, <1>2, <2>1, WindowFacts
<1>6. /\ p \in Seq(Ids) /\ q \in Seq(Ids) /\ r \in Seq(Ids)
      /\ Len(p) \in Nat /\ Len(q) \in Nat /\ Len(r) \in Nat
  BY <1>3, <1>4, <1>5 DEF Orders
<1>7. PICK j : j = p \o q
  OBVIOUS
<1>8. /\ j \in Seq(Ids) /\ Len(j) = Len(p) + Len(q)
      /\ \A n \in 1..Len(j) : j[n] = IF n <= Len(p) THEN p[n] ELSE q[n - Len(p)]
  BY <1>6, <1>7, ConcatProperties
<1>9. Len(j) = Len(r) /\ Len(j) \in Nat
  <2>1. Len(p) + Len(q) = Len(r)
    <3>1. /\ Len(p) = IF a <= Len(s) THEN a ELSE Len(s)
          /\ Len(q) = IF a + b <= Len(s) THEN b
                      ELSE IF a <= Len(s) THEN Len(s) - a ELSE 0
          /\ Len(r) = IF a + b <= Len(s) THEN a + b ELSE Len(s)
      BY <1>3, <1>4, <1>5
    <3>2. CASE a <= Len(s)
      <4>1. Len(p) = a
        BY <3>1, <3>2
      <4>2. CASE a + b <= Len(s)
        BY <3>1, <4>1, <4>2
      <4>3. CASE ~ (a + b <= Len(s))
        BY <1>2, <3>1, <3>2, <4>1, <4>3
      <4> QED
        BY <4>2, <4>3
    <3>3. CASE ~ (a <= Len(s))
      <4>1. ~ (a + b <= Len(s))
        BY <1>2, <3>3
      <4> QED
        BY <1>2, <3>1, <3>3, <4>1
    <3> QED
      BY <3>2, <3>3
  <2> QED
    BY <1>6, <1>8, <2>1
<1>10. ASSUME NEW n \in 1..Len(j) PROVE j[n] = r[n]
  <2>1. CASE n <= Len(p)
    <3>1. n \in Nat /\ n \in 1..Len(p) /\ n \in 1..Len(r)
      BY <1>6, <1>9, <2>1
    <3>2. j[n] = p[n]
      BY <1>8, <2>1
    <3>3. p[n] = s[n]
      BY <1>3, <3>1
    <3>4. r[n] = s[n]
      BY <1>5, <3>1
    <3> QED
      BY <3>2, <3>3, <3>4
  <2>2. CASE ~ (n <= Len(p))
    <3>1. Len(p) = a
      <4>1. n <= Len(s)
        BY <1>2, <1>5, <1>9
      <4> QED
        BY <1>2, <1>3, <2>2, <4>1
    <3>2. n - a \in 1..Len(q) /\ a + (n - a) = n
      BY <1>6, <1>8, <2>2, <3>1
    <3>3. j[n] = q[n - a]
      BY <1>8, <2>2, <3>1
    <3> QED
      BY <1>4, <1>5, <1>9, <3>2, <3>3
  <2> QED
    BY <2>1, <2>2
<1>11. j = r
  BY <1>6, <1>8, <1>9, <1>10
<1> QED
  BY <1>1, <1>7, <1>11

\* What a client's walk has asked for: the cursor it holds is the one after the
\* page it was last given, in the shuffle of the first page.
CursorInv(w) ==
  /\ w.at = "first" =>
       /\ w.pos = encode_offset(0) /\ w.shown = <<>> /\ w.page = <<>>
       /\ ~ w.grew /\ ~ w.shrank /\ ~ w.moved
  /\ w.at # "first" =>
       /\ w.first \in Orders /\ w.last \in Orders /\ w.seed = w.shuffle
       /\ IF w.kind = "random" THEN w.seed \in Seeds ELSE w.seed = NoSeed
  /\ w.at \in {"page", "done"} =>
       w.pos = [seed |-> w.seed, offset |-> w.offset + w.limit]
  /\ w.at = "names" => w.kind = "search"

\* How far the walk has come in the listing.
Reached(w) == IF w.at = "names" THEN w.offset ELSE w.offset + w.limit

\* A page is the window of the listing that its cursor asks for, and the walk
\* goes on as long as the windows are full.
PageInv(w) ==
  /\ w.page \in Orders
  /\ \/ w.kind # "search" /\ w.at \in {"page", "done"}
     \/ w.at = "names"
     => w.page = Window(w.last, w.limit, w.offset)
  /\ w.at \in {"names", "done"} => Len(w.last) < w.offset + w.limit

\* As long as no gif appears or changes place, those that the walk has yet to
\* come to are not among those that it has shown.
AheadInv(w) ==
  w.kind # "search" /\ w.at # "first" /\ ~ w.grew /\ ~ w.moved =>
    /\ IsInjective(w.shown)
    /\ \A j \in 1..Len(w.last) :
         j > Reached(w) => w.last[j] \notin ToSet(w.shown)

\* As long as no gif disappears or changes place, those of the first page's
\* listing are where the walk has yet to come to, or it has shown them.
BehindInv(w) ==
  w.at # "first" /\ ~ w.shrank /\ ~ w.moved =>
    /\ ToSet(w.first) \subseteq ToSet(w.last)
    /\ \A j \in 1..Len(w.last) :
         j <= Reached(w) /\ w.last[j] \in ToSet(w.first) =>
           w.last[j] \in ToSet(w.shown)

\* As long as nothing changes, the walk has shown the first rows.
SameInv(w) ==
  w.kind # "search" /\ w.at # "first" /\ ~ w.grew /\ ~ w.shrank /\ ~ w.moved =>
    /\ w.last = w.first
    /\ w.shown = Window(w.first, Reached(w), 0)

WalkInv(w) ==
  CursorInv(w) /\ PageInv(w) /\ AheadInv(w) /\ BehindInv(w) /\ SameInv(w)

\* What a query makes of a walk that is due for its first or its next page.
Queried(w, v) ==
  /\ v.kind = w.kind /\ v.limit = w.limit
  /\ v.first \in Orders /\ v.last \in Orders /\ v.seed = v.shuffle
  /\ IF v.kind = "random" THEN v.seed \in Seeds ELSE v.seed = NoSeed
  /\ v.page = Window(v.last, v.limit, v.offset)
  /\ w.at = "first" =>
       /\ v.offset = 0 /\ v.first = v.last
       /\ ~ v.grew /\ ~ v.shrank /\ ~ v.moved
  /\ w.at = "page" =>
       /\ v.offset = w.offset + w.limit /\ v.first = w.first
       /\ ~ v.grew => ~ w.grew /\ ToSet(v.last) \subseteq ToSet(w.last)
       /\ ~ v.shrank => ~ w.shrank /\ ToSet(w.last) \subseteq ToSet(v.last)
       /\ ~ v.moved =>
            ~ w.moved /\ Common(w.last, v.last) = Common(v.last, w.last)
  /\ IF v.kind = "search" /\ Len(v.page) < v.limit
       THEN v.at = "names" /\ v.shown = w.shown
       ELSE /\ v.at = IF Len(v.page) = v.limit THEN "page" ELSE "done"
            /\ v.shown = w.shown \o v.page
            /\ v.pos = [seed |-> v.seed, offset |-> v.offset + v.limit]

\* What the second query of a search makes of it.
Filled(w, v) ==
  /\ v.kind = w.kind /\ v.limit = w.limit /\ v.offset = w.offset
  /\ v.first = w.first /\ v.last = w.last
  /\ v.seed = w.seed /\ v.shuffle = w.shuffle
  /\ v.grew = w.grew /\ v.shrank = w.shrank /\ v.moved = w.moved
  /\ v.page \in Orders /\ ToSet(w.page) \subseteq ToSet(v.page)
  /\ v.shown = w.shown \o v.page
  /\ v.at \in {"page", "done"}
  /\ v.pos = [seed |-> v.seed, offset |-> v.offset + v.limit]

\* The walk after its first query.
LEMMA FirstPage ==
  ASSUME NEW w \in Walks, NEW v \in Walks, WalkInv(w), Queried(w, v),
         w.at = "first"
  PROVE  WalkInv(v)
<1>1. /\ v.limit \in Nat /\ v.limit > 0 /\ v.offset = 0 /\ w.shown = <<>>
      /\ v.last \in Orders /\ v.first = v.last /\ Len(v.last) \in Nat
      /\ ~ v.grew /\ ~ v.shrank /\ ~ v.moved
  BY OrderFacts DEF Walks, WalkInv, CursorInv, Queried
<1>2. v.page = Window(v.last, v.limit, 0)
  BY <1>1 DEF Queried
<1>3. /\ v.page \in Orders /\ Len(v.page) \in Nat
      /\ Len(v.page) = IF v.limit <= Len(v.last) THEN v.limit ELSE Len(v.last)
      /\ \A k \in 1..Len(v.last) :
           v.last[k] \in ToSet(v.page) <=> 0 < k /\ k <= v.limit
  BY <1>1, <1>2, WindowFacts
<1>4. v.at # "names" => v.shown = v.page
  <2>1. <<>> \o v.page = v.page
    BY <1>3 DEF Orders
  <2> QED
    BY <1>1, <2>1 DEF Queried
<1>5. \/ v.at = "names" /\ v.kind = "search" /\ Len(v.page) < v.limit
      \/ /\ v.at \in {"page", "done"}
         /\ v.at = "done" => Len(v.page) # v.limit
         /\ v.pos = [seed |-> v.seed, offset |-> v.offset + v.limit]
  BY DEF Queried
<1>6. CursorInv(v)
  BY <1>5 DEF CursorInv, Queried
<1>7. PageInv(v)
  BY <1>1, <1>2, <1>3, <1>5 DEF PageInv
<1>8. v.at # "names" => Reached(v) = v.limit
  BY <1>1 DEF Reached
<1>9. AheadInv(v)
  <2>1. IsInjective(v.page)
    BY <1>3 DEF Orders
  <2> QED
    BY <1>1, <1>3, <1>4, <1>5, <1>8, <2>1 DEF AheadInv
<1>10. BehindInv(v)
  <2>1. CASE v.at = "names"
    BY <1>1, <2>1 DEF BehindInv, Reached
  <2>2. CASE v.at # "names"
    BY <1>1, <1>3, <1>4, <1>8, <2>2 DEF BehindInv
  <2> QED
    BY <2>1, <2>2
<1>11. SameInv(v)
  BY <1>1, <1>2, <1>4, <1>5, <1>8 DEF SameInv
<1> QED
  BY <1>6, <1>7, <1>9, <1>10, <1>11 DEF WalkInv

\* The walk after a query for the next page: rows that only vanished come
\* earlier than they did, and were ahead of the cursor; rows that only
\* appeared push the others back, and what is before the cursor was shown.
LEMMA NextPage ==
  ASSUME NEW w \in Walks, NEW v \in Walks, WalkInv(w), Queried(w, v),
         w.at = "page"
  PROVE  WalkInv(v)
<1>1. /\ v.limit \in Nat /\ v.limit > 0 /\ w.limit = v.limit
      /\ w.offset \in Nat /\ v.offset \in Nat /\ v.offset = w.offset + w.limit
      /\ w.shown \in Seq(Ids) /\ v.shown \in Seq(Ids)
  BY DEF Walks, Queried
<1>2. /\ v.last \in Orders /\ w.last \in Orders /\ w.first \in Orders
      /\ v.first = w.first /\ v.kind = w.kind
  BY DEF Queried, WalkInv, CursorInv
<1>3. /\ Len(v.last) \in Nat /\ v.page = Window(v.last, v.limit, v.offset)
      /\ \A m, n \in 1..Len(v.last) : v.last[m] = v.last[n] => m = n
  BY <1>2, OrderFacts DEF Queried
<1>4. /\ v.page \in Orders /\ Len(v.page) \in Nat
      /\ Len(v.page) = IF v.offset + v.limit <= Len(v.last) THEN v.limit
                       ELSE IF v.offset <= Len(v.last)
                              THEN Len(v.last) - v.offset ELSE 0
      /\ \A n \in 1..Len(v.page) : /\ v.offset + n \in 1..Len(v.last)
                                   /\ v.page[n] = v.last[v.offset + n]
      /\ \A k \in 1..Len(v.last) :
           v.last[k] \in ToSet(v.page)
             <=> v.offset < k /\ k <= v.offset + v.limit
  <2>1. PICK s \in Orders, limit \in Nat, offset \in Nat :
          s = v.last /\ limit = v.limit /\ offset = v.offset
    BY <1>1, <1>2
  <2>2. PICK t : t = Window(s, limit, offset)
    OBVIOUS
  <2>3. /\ t \in Orders /\ Len(t) \in Nat
        /\ Len(t) = IF offset + limit <= Len(s) THEN limit
                    ELSE IF offset <= Len(s) THEN Len(s) - offset ELSE 0
        /\ \A n \in 1..Len(t) : offset + n \in 1..Len(s) /\ t[n] = s[offset + n]
        /\ \A k \in 1..Len(s) :
             s[k] \in ToSet(t) <=> offset < k /\ k <= offset + limit
    BY <2>2, WindowFacts
  <2>4. t = v.page
    BY <1>3, <2>1, <2>2
  <2> QED
    BY <2>1, <2>3, <2>4
<1>5. \/ v.at = "names" /\ v.kind = "search" /\ Len(v.page) < v.limit
         /\ v.shown = w.shown
      \/ /\ v.at \in {"page", "done"}
         /\ v.at = "done" => Len(v.page) # v.limit
         /\ v.shown = w.shown \o v.page
         /\ v.pos = [seed |-> v.seed, offset |-> v.offset + v.limit]
  BY DEF Queried
<1>6. CursorInv(v)
  BY <1>5 DEF CursorInv, Queried
<1>7. PageInv(v)
  <2>1. v.at = "done" => Len(v.last) < v.offset + v.limit
    BY <1>1, <1>3, <1>4, <1>5
  <2>2. v.at = "names" => Len(v.last) < v.offset + v.limit
    BY <1>1, <1>3, <1>4, <1>5
  <2> QED
    BY <1>3, <1>4, <2>1, <2>2 DEF PageInv
<1>8. /\ Reached(w) = v.offset
      /\ v.at # "names" => Reached(v) = v.offset + v.limit
      /\ v.at = "names" => Reached(v) = v.offset
  BY <1>1 DEF Reached
<1>9. v.at # "names" => ToSet(v.shown) = ToSet(w.shown) \cup ToSet(v.page)
  <2>1. v.page \in Seq(Ids)
    BY <1>4 DEF Orders
  <2>2. ToSet(w.shown \o v.page) = ToSet(w.shown) \cup ToSet(v.page)
    BY <1>1, <2>1, JoinToSet
  <2> QED
    BY <1>5, <2>2
<1>10. AheadInv(v)
  <2> SUFFICES ASSUME v.kind # "search", ~ v.grew, ~ v.moved
               PROVE  /\ IsInjective(v.shown)
                      /\ \A j \in 1..Len(v.last) :
                           j > Reached(v) => v.last[j] \notin ToSet(v.shown)
    BY DEF AheadInv
  <2>1. /\ ~ w.grew /\ ~ w.moved /\ ToSet(v.last) \subseteq ToSet(w.last)
        /\ Common(w.last, v.last) = Common(v.last, w.last)
    BY DEF Queried
  <2>2. /\ IsInjective(w.shown)
        /\ \A k \in 1..Len(w.last) :
             k > v.offset => w.last[k] \notin ToSet(w.shown)
    BY <1>2, <1>8, <2>1 DEF WalkInv, AheadInv
  <2>3. ASSUME NEW j \in 1..Len(v.last), j > v.offset
        PROVE  v.last[j] \notin ToSet(w.shown)
    <3>1. v.last[j] \in ToSet(v.last) /\ Len(w.last) \in Nat
      BY <1>2, OrderFacts
    <3>2. PICK k \in 1..Len(w.last) : v.last[j] = w.last[k]
      <4>1. v.last[j] \in ToSet(w.last)
        BY <2>1, <3>1
      <4> QED
        BY <1>2, <4>1, OrderFacts
    <3>3. j <= k
      BY <1>2, <2>1, <3>2, CommonFacts
    <3>4. k > v.offset
      BY <1>1, <1>3, <2>3, <3>1, <3>3
    <3> QED
      BY <2>2, <3>2, <3>4
  <2>4. v.at # "names" /\ v.shown = w.shown \o v.page
    BY <1>5
  <2>5. IsInjective(v.shown)
    <3>1. w.shown \in Orders
      BY <1>1, <2>2 DEF Orders
    <3>2. \A n \in 1..Len(v.page) : v.page[n] \notin ToSet(w.shown)
      <4> SUFFICES ASSUME NEW n \in 1..Len(v.page)
                   PROVE  v.page[n] \notin ToSet(w.shown)
        OBVIOUS
      <4>1. v.offset + n \in 1..Len(v.last) /\ v.page[n] = v.last[v.offset + n]
        BY <1>4
      <4>2. v.offset + n > v.offset
        BY <1>1, <1>4
      <4> QED
        BY <2>3, <4>1, <4>2
    <3>3. ToSet(w.shown) \cap ToSet(v.page) = {}
      <4>1. ToSet(v.page) = {v.page[n] : n \in 1..Len(v.page)}
        BY <1>4, OrderFacts
      <4> QED
        BY <3>2, <4>1
    <3> QED
      BY <1>4, <2>4, <3>1, <3>3, JoinFacts DEF Orders
  <2>6. ASSUME NEW j \in 1..Len(v.last), j > Reached(v)
        PROVE  v.last[j] \notin ToSet(v.shown)
    <3>1. j > v.offset + v.limit /\ j > v.offset
      BY <1>1, <1>3, <1>8, <2>4, <2>6
    <3>2. v.last[j] \notin ToSet(v.page)
      BY <1>1, <1>3, <1>4, <3>1
    <3> QED
      BY <1>9, <2>3, <2>4, <3>1, <3>2
  <2> QED
    BY <2>5, <2>6
<1>11. BehindInv(v)
  <2> SUFFICES ASSUME ~ v.shrank, ~ v.moved
               PROVE  /\ ToSet(v.first) \subseteq ToSet(v.last)
                      /\ \A j \in 1..Len(v.last) :
                           j <= Reached(v) /\ v.last[j] \in ToSet(v.first) =>
                             v.last[j] \in ToSet(v.shown)
    BY DEF BehindInv
  <2>1. /\ ~ w.shrank /\ ~ w.moved /\ ToSet(w.last) \subseteq ToSet(v.last)
        /\ Common(w.last, v.last) = Common(v.last, w.last)
    BY DEF Queried
  <2>2. /\ ToSet(w.first) \subseteq ToSet(w.last)
        /\ \A k \in 1..Len(w.last) :
             k <= v.offset /\ w.last[k] \in ToSet(w.first) =>
               w.last[k] \in ToSet(w.shown)
    BY <1>8, <2>1 DEF WalkInv, BehindInv
  <2>3. ASSUME NEW j \in 1..Len(v.last), j <= v.offset,
               v.last[j] \in ToSet(w.first)
        PROVE  v.last[j] \in ToSet(w.shown)
    <3>1. Len(w.last) \in Nat
      BY <1>2, OrderFacts
    <3>2. PICK k \in 1..Len(w.last) : v.last[j] = w.last[k]
      <4>1. v.last[j] \in ToSet(w.last)
        BY <2>2, <2>3
      <4> QED
        BY <1>2, <4>1, OrderFacts
    <3>3. k <= j
      BY <1>2, <2>1, <3>2, CommonFacts
    <3>4. k <= v.offset
      BY <1>1, <1>3, <2>3, <3>1, <3>3
    <3> QED
      BY <2>2, <2>3, <3>2, <3>4
  <2>4. ASSUME NEW j \in 1..Len(v.last), j <= Reached(v),
               v.last[j] \in ToSet(v.first)
        PROVE  v.last[j] \in ToSet(v.shown)
    <3>1. CASE j <= v.offset
      <4>1. v.last[j] \in ToSet(w.shown)
        BY <1>2, <2>3, <2>4, <3>1
      <4> QED
        BY <1>5, <1>9, <4>1
    <3>2. CASE ~ (j <= v.offset)
      <4>1. v.at # "names" /\ j <= v.offset + v.limit /\ v.offset < j
        BY <1>1, <1>3, <1>8, <2>4, <3>2
      <4>2. v.last[j] \in ToSet(v.page)
        BY <1>4, <4>1
      <4> QED
        BY <1>9, <4>1, <4>2
    <3> QED
      BY <3>1, <3>2
  <2>5. ToSet(v.first) \subseteq ToSet(v.last)
    BY <1>2, <2>1, <2>2
  <2> QED
    BY <2>4, <2>5
<1>12. SameInv(v)
  <2> SUFFICES ASSUME v.kind # "search", ~ v.grew, ~ v.shrank, ~ v.moved
               PROVE  /\ v.last = v.first
                      /\ v.shown = Window(v.first, Reached(v), 0)
    BY DEF SameInv
  <2>1. /\ ~ w.grew /\ ~ w.shrank /\ ~ w.moved
        /\ ToSet(w.last) = ToSet(v.last)
        /\ Common(w.last, v.last) = Common(v.last, w.last)
    BY DEF Queried
  <2>2. w.last = w.first /\ w.shown = Window(w.first, v.offset, 0)
    BY <1>2, <1>8, <2>1 DEF WalkInv, SameInv
  <2>3. v.last = w.last
    BY <1>2, <2>1, CommonFacts
  <2>4. v.last = v.first
    BY <1>2, <2>2, <2>3
  <2>5. v.at # "names" /\ v.shown = w.shown \o v.page
    BY <1>5
  <2>6. v.shown = Window(v.last, v.offset, 0)
                    \o Window(v.last, v.limit, v.offset)
    BY <1>3, <2>2, <2>3, <2>5
  <2>7. v.shown = Window(v.last, v.offset + v.limit, 0)
    BY <1>1, <1>2, <2>6, WindowsJoin
  <2> QED
    BY <1>8, <2>4, <2>5, <2>7
<1> QED
  BY <1>6, <1>7, <1>10, <1>11, <1>12 DEF WalkInv

\* The walk after the second query of a search.
LEMMA FilledPage ==
  ASSUME NEW w \in Walks, NEW v \in Walks, WalkInv(w), Filled(w, v),
         w.at = "names"
  PROVE  WalkInv(v)
<1>1. /\ v.limit \in Nat /\ v.limit = w.limit /\ v.offset \in Nat
      /\ v.offset = w.offset /\ v.last = w.last /\ v.first = w.first
      /\ w.shown \in Seq(Ids) /\ v.kind = "search" /\ w.kind = "search"
      /\ w.last \in Orders /\ Len(w.last) \in Nat
      /\ w.page = Window(w.last, w.limit, w.offset)
  BY OrderFacts DEF Walks, WalkInv, CursorInv, PageInv, Filled
<1>2. CursorInv(v)
  BY DEF WalkInv, CursorInv, Filled
<1>3. PageInv(v)
  BY <1>1 DEF WalkInv, PageInv, Filled
<1>4. AheadInv(v) /\ SameInv(v)
  BY <1>1 DEF AheadInv, SameInv
<1>5. BehindInv(v)
  <2> SUFFICES ASSUME ~ v.shrank, ~ v.moved
               PROVE  /\ ToSet(v.first) \subseteq ToSet(v.last)
                      /\ \A j \in 1..Len(v.last) :
                           j <= Reached(v) /\ v.last[j] \in ToSet(v.first) =>
                             v.last[j] \in ToSet(v.shown)
    BY DEF BehindInv
  <2>1. ~ w.shrank /\ ~ w.moved
    BY DEF Filled
  <2>2. /\ ToSet(w.first) \subseteq ToSet(w.last)
        /\ \A j \in 1..Len(w.last) :
             j <= w.offset /\ w.last[j] \in ToSet(w.first) =>
               w.last[j] \in ToSet(w.shown)
    BY <2>1 DEF WalkInv, BehindInv, Reached
  <2>3. Reached(v) = w.offset + w.limit
    BY <1>1 DEF Reached, Filled
  <2>4. ToSet(v.shown) = ToSet(w.shown) \cup ToSet(v.page)
    BY <1>1, JoinToSet DEF Filled, Orders
  <2>5. ASSUME NEW j \in 1..Len(w.last), j <= w.offset + w.limit,
               w.last[j] \in ToSet(w.first)
        PROVE  w.last[j] \in ToSet(v.shown)
    <3>1. CASE j <= w.offset
      BY <2>2, <2>4, <2>5, <3>1
    <3>2. CASE ~ (j <= w.offset)
      <4>1. w.offset < j
        BY <1>1, <3>2
      <4>2. w.last[j] \in ToSet(w.page)
        BY <1>1, <2>5, <4>1, WindowFacts
      <4> QED
        BY <2>4, <4>2 DEF Filled
    <3> QED
      BY <3>1, <3>2
  <2> QED
    BY <1>1, <2>2, <2>3, <2>5
<1> QED
  BY <1>2, <1>3, <1>4, <1>5 DEF WalkInv

\* A cursor leads to the first page, or to where the last one ended, in its
\* shuffle.
LEMMA DecodeFacts ==
  ASSUME NEW w \in Walks, WalkInv(w), w.at \in {"first", "page"},
         NEW d \in Decode(w)
  PROVE  /\ d[1] \in Seeds \cup {NoSeed} /\ d[2] \in Nat
         /\ IF w.kind = "random" THEN d[1] \in Seeds ELSE d[1] = NoSeed
         /\ w.at = "first" => d[2] = 0
         /\ w.at = "page" => d[1] = w.shuffle /\ d[2] = w.offset + w.limit
<1>1. w.offset \in Nat /\ w.limit \in Nat
  BY DEF Walks
<1>2. CASE w.at = "first"
  <2>1. w.pos.seed = NoSeed /\ w.pos.offset = 0
    BY <1>2 DEF WalkInv, CursorInv, encode_offset
  <2> QED
    BY <1>2, <2>1 DEF Decode, decode_offset, decode_seeded_offset
<1>3. CASE w.at = "page"
  <2>1. /\ w.pos.seed = w.seed /\ w.pos.offset = w.offset + w.limit
        /\ w.seed = w.shuffle
        /\ IF w.kind = "random" THEN w.seed \in Seeds ELSE w.seed = NoSeed
    BY <1>3 DEF WalkInv, CursorInv
  <2> QED
    BY <1>1, <1>3, <2>1, BrowseAssumption
       DEF Decode, decode_offset, decode_seeded_offset
<1> QED
  BY <1>2, <1>3

\* What walk w becomes by the answer of a page of rows.
Answered(w, rows, v) ==
  /\ v \in Walks /\ v.kind = w.kind /\ v.limit = w.limit
  /\ v.offset = w.offset /\ v.seed = w.seed /\ v.shuffle = w.shuffle
  /\ v.first = w.first /\ v.last = w.last /\ v.page = rows
  /\ v.grew = w.grew /\ v.shrank = w.shrank /\ v.moved = w.moved
  /\ v.at = IF Len(rows) = w.limit THEN "page" ELSE "done"
  /\ v.shown = w.shown \o rows
  /\ v.pos = [seed |-> w.seed, offset |-> w.offset + w.limit]

\* A page is delivered with the cursor of the next one.
LEMMA DeliverFacts ==
  ASSUME NEW w \in Walks, NEW rows \in Seq(Ids),
         IF w.kind = "random" THEN w.seed \in Seeds ELSE w.seed = NoSeed
  PROVE  Answered(w, rows, Deliver(w, rows))
<1> DEFINE v == Deliver(w, rows)
<1>0. NextCursor(w, w.offset) = [seed |-> w.seed, offset |-> w.offset + w.limit]
  BY DEF NextCursor, encode_offset, encode_seeded_offset
<1>1. /\ w.shown \o rows \in Seq(Ids)
      /\ w.offset + w.limit \in Nat /\ w.seed \in Seeds \cup {NoSeed}
  BY ConcatProperties DEF Walks
<1>2. PICK cursor, all, now :
        /\ cursor = [seed |-> w.seed, offset |-> w.offset + w.limit]
        /\ all = w.shown \o rows
        /\ now = IF Len(rows) = w.limit THEN "page" ELSE "done"
  OBVIOUS
<1>3. v = [w EXCEPT !.page = rows, !.shown = all, !.pos = cursor, !.at = now]
  BY <1>0, <1>2 DEF Deliver, Walks
<1> HIDE DEF v
<1>4. /\ cursor \in [seed : Seeds \cup {NoSeed}, offset : Nat]
      /\ all \in Seq(Ids) /\ now \in {"page", "done"}
  BY <1>1, <1>2
<1>5. v \in Walks
  BY <1>3, <1>4 DEF Walks
<1>6. /\ v.kind = w.kind /\ v.limit = w.limit
      /\ v.offset = w.offset /\ v.seed = w.seed /\ v.shuffle = w.shuffle
      /\ v.first = w.first /\ v.last = w.last /\ v.page = rows
      /\ v.grew = w.grew /\ v.shrank = w.shrank /\ v.moved = w.moved
      /\ v.at = now /\ v.shown = all /\ v.pos = cursor
  BY <1>3 DEF Walks
<1> QED
  BY <1>2, <1>5, <1>6 DEF v, Answered

\* The query of a walk for its next page.
LEMMA QueryStep ==
  ASSUME IInv, walk \in [Walkers -> Walks \cup {NoWalk}], NEW x \in Walkers,
         walk[x] # NoWalk, WalkInv(walk[x]), QueryPage(x)
  PROVE  /\ walk[x].at \in {"first", "page"}
         /\ \E v \in Walks : /\ walk' = [walk EXCEPT ![x] = v]
                             /\ Queried(walk[x], v)
<1> DEFINE Asked(d) == [walk[x] EXCEPT !.seed = d[1], !.offset = d[2]]
           Given(y, rows) ==
             IF y.kind = "search" /\ Len(rows) < y.limit
               THEN [y EXCEPT !.page = rows, !.at = "names"]
               ELSE Deliver(y, rows)
<1>1. PICK w \in Walks : w = walk[x]
  OBVIOUS
<1>2. WalkInv(w) /\ w.at \in {"first", "page"}
  BY <1>1 DEF QueryPage
<1>3. PICK d \in Decode(w) :
        \E asked, all, z, rows, v :
          /\ asked = Asked(d) /\ all = Listing(asked) /\ z = Look(asked, all)
          /\ rows = Window(all, z.limit, z.offset) /\ v = Given(z, rows)
          /\ walk' = [walk EXCEPT ![x] = v]
  <2>1. PICK d \in Decode(walk[x]) :
          walk' = [walk EXCEPT ![x] =
            Given(Look(Asked(d), Listing(Asked(d))),
                  Window(Listing(Asked(d)),
                         Look(Asked(d), Listing(Asked(d))).limit,
                         Look(Asked(d), Listing(Asked(d))).offset))]
    BY DEF QueryPage
  <2> HIDE DEF Asked, Given
  <2> QED
    BY <1>1, <2>1
<1>4. PICK asked, all, z, rows, v :
        /\ asked = Asked(d) /\ all = Listing(asked) /\ z = Look(asked, all)
        /\ rows = Window(all, z.limit, z.offset) /\ v = Given(z, rows)
        /\ walk' = [walk EXCEPT ![x] = v]
  BY <1>3
<1> HIDE DEF Asked, Given
<1>5. /\ d[1] \in Seeds \cup {NoSeed} /\ d[2] \in Nat
      /\ IF w.kind = "random" THEN d[1] \in Seeds ELSE d[1] = NoSeed
      /\ w.at = "first" => d[2] = 0
      /\ w.at = "page" => d[1] = w.shuffle /\ d[2] = w.offset + w.limit
  BY <1>2, DecodeFacts
<1>6. /\ asked \in Walks /\ asked.seed = d[1] /\ asked.offset = d[2]
      /\ asked.kind = w.kind /\ asked.viewer = w.viewer
      /\ asked.limit = w.limit /\ asked.at = w.at /\ asked.shown = w.shown
      /\ asked.first = w.first /\ asked.last = w.last
      /\ asked.shuffle = w.shuffle
      /\ asked.grew = w.grew /\ asked.shrank = w.shrank
      /\ asked.moved = w.moved
  <2>1. asked = [w EXCEPT !.seed = d[1], !.offset = d[2]]
    BY <1>1, <1>4 DEF Asked
  <2> QED
    BY <1>5, <2>1 DEF Walks
<1>7. all \in Orders
  BY <1>4, <1>5, <1>6, ListingOrders DEF IInv
<1>8. /\ z \in Walks /\ z.kind = w.kind /\ z.limit = w.limit
      /\ z.at = w.at /\ z.shown = w.shown /\ z.offset = d[2] /\ z.seed = d[1]
      /\ z.last = all /\ z.first \in Orders /\ z.seed = z.shuffle
      /\ w.at = "first" =>
           /\ z.first = all /\ ~ z.grew /\ ~ z.shrank /\ ~ z.moved
      /\ w.at = "page" =>
           /\ z.first = w.first
           /\ ~ z.grew => ~ w.grew /\ ToSet(all) \subseteq ToSet(w.last)
           /\ ~ z.shrank => ~ w.shrank /\ ToSet(w.last) \subseteq ToSet(all)
           /\ ~ z.moved =>
                ~ w.moved /\ Common(w.last, all) = Common(all, w.last)
  <2>1. all \in Seq(Ids)
    BY <1>7 DEF Orders
  <2>2. CASE w.at = "first"
    <3>1. z = [asked EXCEPT !.shuffle = asked.seed, !.first = all, !.last = all]
      BY <1>4, <1>6, <2>2 DEF Look
    <3>2. ~ w.grew /\ ~ w.shrank /\ ~ w.moved
      BY <1>2, <2>2 DEF WalkInv, CursorInv
    <3> QED
      BY <1>6, <1>7, <2>1, <2>2, <3>1, <3>2 DEF Walks
  <2>3. CASE w.at = "page"
    <3> DEFINE g == ~ ToSet(all) \subseteq ToSet(w.last)
               s == ~ ToSet(w.last) \subseteq ToSet(all)
               m == Common(w.last, all) # Common(all, w.last)
    <3>1. asked.seed = asked.shuffle
      BY <1>5, <1>6, <2>3
    <3>2. z = [asked EXCEPT !.last = all, !.grew = @ \/ g, !.shrank = @ \/ s,
                            !.moved = @ \/ m]
      BY <1>4, <1>6, <2>3, <3>1 DEF Look
    <3> HIDE DEF g, s, m
    <3>3. PICK p \in BOOLEAN, q \in BOOLEAN, r \in BOOLEAN :
            /\ p = (w.grew \/ g) /\ q = (w.shrank \/ s) /\ r = (w.moved \/ m)
      OBVIOUS
    <3>4. z = [asked EXCEPT !.last = all, !.grew = p, !.shrank = q,
                             !.moved = r]
      BY <1>6, <3>2, <3>3 DEF Walks
    <3>5. z \in Walks /\ z.grew = p /\ z.shrank = q /\ z.moved = r
      BY <1>6, <2>1, <3>4 DEF Walks
    <3>6. /\ z.kind = w.kind /\ z.limit = w.limit /\ z.at = w.at
          /\ z.shown = w.shown /\ z.offset = d[2] /\ z.seed = d[1]
          /\ z.last = all /\ z.first = w.first /\ z.shuffle = w.shuffle
      BY <1>5, <1>6, <2>3, <3>4 DEF Walks
    <3>7. w.first \in Orders
      BY <1>2, <2>3 DEF WalkInv, CursorInv
    <3> QED
      BY <1>5, <2>3, <3>3, <3>5, <3>6, <3>7 DEF g, s, m
  <2> QED
    BY <1>2, <2>2, <2>3
<1>9. rows \in Orders /\ rows \in Seq(Ids) /\ Len(rows) \in Nat
  <2>1. z \in Walks
    BY <1>8
  <2>2. z.limit \in Nat /\ z.offset \in Nat
    BY <2>1 DEF Walks
  <2> QED
    BY <1>4, <1>7, <2>2, WindowFacts DEF Orders
<1>10. /\ v \in Walks /\ v.kind = z.kind /\ v.limit = z.limit
       /\ v.offset = z.offset /\ v.seed = z.seed /\ v.shuffle = z.shuffle
       /\ v.first = z.first /\ v.last = z.last /\ v.page = rows
       /\ v.grew = z.grew /\ v.shrank = z.shrank /\ v.moved = z.moved
       /\ IF v.kind = "search" /\ Len(v.page) < v.limit
            THEN v.at = "names" /\ v.shown = w.shown
            ELSE /\ v.at = IF Len(v.page) = v.limit THEN "page" ELSE "done"
                 /\ v.shown = w.shown \o v.page
                 /\ v.pos = [seed |-> v.seed, offset |-> v.offset + v.limit]
  <2>1. CASE z.kind = "search" /\ Len(rows) < z.limit
    <3>1. v = [z EXCEPT !.page = rows, !.at = "names"]
      BY <1>4, <2>1 DEF Given
    <3> QED
      BY <1>8, <1>9, <2>1, <3>1 DEF Walks
  <2>2. CASE ~ (z.kind = "search" /\ Len(rows) < z.limit)
    <3>1. v = Deliver(z, rows)
      BY <1>4, <2>2 DEF Given
    <3>2. /\ z \in Walks /\ z.shown = w.shown
          /\ IF z.kind = "random" THEN z.seed \in Seeds ELSE z.seed = NoSeed
      BY <1>5, <1>8
    <3>3. Answered(z, rows, v)
      BY <1>9, <3>1, <3>2, DeliverFacts
    <3> QED
      BY <2>2, <3>2, <3>3 DEF Answered
  <2> QED
    BY <2>1, <2>2
<1>11. Queried(w, v)
  <2>1. /\ v.kind = w.kind /\ v.limit = w.limit /\ v.seed = v.shuffle
        /\ v.first \in Orders /\ v.last \in Orders
        /\ IF v.kind = "random" THEN v.seed \in Seeds ELSE v.seed = NoSeed
    BY <1>5, <1>7, <1>8, <1>10
  <2>2. v.page = Window(v.last, v.limit, v.offset)
    BY <1>4, <1>8, <1>10
  <2>3. w.at = "first" =>
          /\ v.offset = 0 /\ v.first = v.last
          /\ ~ v.grew /\ ~ v.shrank /\ ~ v.moved
    BY <1>5, <1>8, <1>10
  <2>4. w.at = "page" =>
          /\ v.offset = w.offset + w.limit /\ v.first = w.first
          /\ ~ v.grew => ~ w.grew /\ ToSet(v.last) \subseteq ToSet(w.last)
          /\ ~ v.shrank => ~ w.shrank /\ ToSet(w.last) \subseteq ToSet(v.last)
          /\ ~ v.moved =>
               ~ w.moved /\ Common(w.last, v.last) = Common(v.last, w.last)
    BY <1>5, <1>8, <1>10
  <2> QED
    BY <1>10, <2>1, <2>2, <2>3, <2>4 DEF Queried
<1> QED
  BY <1>1, <1>2, <1>4, <1>10, <1>11

\* The second query of a search adds gifs that the first did not find, and
\* drops none of those that it did.
LEMMA NamesStep ==
  ASSUME IInv, walk \in [Walkers -> Walks \cup {NoWalk}], NEW x \in Walkers,
         walk[x] # NoWalk, WalkInv(walk[x]), QueryNames(x)
  PROVE  /\ walk[x].at = "names"
         /\ \E v \in Walks : /\ walk' = [walk EXCEPT ![x] = v]
                             /\ Filled(walk[x], v)
<1>1. PICK w \in Walks : w = walk[x]
  OBVIOUS
<1>2. /\ WalkInv(w) /\ w.at = "names" /\ w.kind = "search" /\ w.seed = NoSeed
      /\ w.page \in Orders /\ w.last \in Orders
      /\ w.limit \in Nat /\ w.offset \in Nat
  BY <1>1 DEF QueryNames, WalkInv, CursorInv, PageInv, Walks
<1>3. PICK names \in NameListings(w) :
        walk' = [walk EXCEPT ![x] =
          Deliver(w, Window(w.page \o Unseen(w, Window(names, w.limit, w.offset)),
                            w.limit, 0))]
  BY <1>1 DEF QueryNames
<1>4. PICK t, u, all, rows, v :
        /\ t = Window(names, w.limit, w.offset) /\ u = Unseen(w, t)
        /\ all = w.page \o u /\ rows = Window(all, w.limit, 0)
        /\ v = Deliver(w, rows)
        /\ walk' = [walk EXCEPT ![x] = v]
  BY <1>3
<1>5. names \in Orders
  <2> DEFINE S == {i \in Listed(w) \cap NotHidden(w) : NameRank[i] > 0}
  <2>1. names \in SetToSeqs(S)
    BY DEF NameListings
  <2>2. S \subseteq Ids /\ S \subseteq ToSet(uploaded) /\ uploaded \in Orders
    BY DEF Listed, Live, IInv, UploadedInv, Issued, AccessTypeOK
  <2> HIDE DEF S
  <2>3. IsFiniteSet(S)
    BY <2>2, OrderFacts, FS_Subset
  <2> QED
    BY <2>1, <2>2, <2>3, SortedIsOrder
<1>6. t \in Orders
  BY <1>2, <1>4, <1>5, WindowFacts
<1>7. u \in Orders /\ ToSet(u) = ToSet(t) \cap (Ids \ ToSet(w.page))
  BY <1>4, <1>6, KeptFacts DEF Unseen
<1>8. all \in Orders
  BY <1>2, <1>4, <1>7, JoinFacts
<1>9. rows \in Orders
  BY <1>2, <1>4, <1>8, WindowFacts
<1>10. ToSet(w.page) \subseteq ToSet(rows)
  <2>1. Len(w.page) \in Nat /\ Len(w.page) <= w.limit
    <3>1. w.page = Window(w.last, w.limit, w.offset) /\ Len(w.last) \in Nat
      BY <1>2, OrderFacts DEF WalkInv, PageInv
    <3>2. /\ Len(Window(w.last, w.limit, w.offset)) \in Nat
          /\ Len(Window(w.last, w.limit, w.offset)) =
               IF w.offset + w.limit <= Len(w.last) THEN w.limit
               ELSE IF w.offset <= Len(w.last) THEN Len(w.last) - w.offset
               ELSE 0
      BY <1>2, WindowFacts
    <3> QED
      BY <1>2, <3>1, <3>2
  <2>2. ASSUME NEW n \in 1..Len(w.page) PROVE w.page[n] \in ToSet(rows)
    <3>1. w.page \in Seq(Ids) /\ u \in Seq(Ids) /\ Len(u) \in Nat
      BY <1>2, <1>7, OrderFacts
    <3>2. Len(all) = Len(w.page) + Len(u) /\ all[n] = w.page[n]
      <4>1. PICK p \in Seq(Ids), q \in Seq(Ids) : p = w.page /\ q = u
        BY <3>1
      <4>2. /\ Len(p \o q) = Len(p) + Len(q)
            /\ \A i \in 1..(Len(p) + Len(q)) :
                 (p \o q)[i] = IF i <= Len(p) THEN p[i] ELSE q[i - Len(p)]
        BY ConcatProperties
      <4>3. n \in 1..(Len(p) + Len(q)) /\ n <= Len(p)
        BY <2>1, <3>1, <4>1
      <4> QED
        BY <1>4, <4>1, <4>2, <4>3
    <3>3. n \in 1..Len(all) /\ 0 < n /\ n <= 0 + w.limit
      BY <1>2, <2>1, <3>1, <3>2
    <3>4. all[n] \in ToSet(rows)
      BY <1>2, <1>4, <1>8, <3>3, WindowFacts
    <3> QED
      BY <3>2, <3>4
  <2>3. ToSet(w.page) = {w.page[n] : n \in 1..Len(w.page)}
    BY <1>2, OrderFacts
  <2> QED
    BY <2>2, <2>3
<1>11. Answered(w, rows, v)
  BY <1>2, <1>4, <1>9, DeliverFacts DEF Orders
<1>12. v \in Walks /\ Filled(w, v)
  BY <1>9, <1>10, <1>11 DEF Answered, Filled
<1> QED
  BY <1>1, <1>2, <1>4, <1>12

\* The inductive invariant of the listings.
BrowseIInv ==
  /\ IInv /\ walk \in [Walkers -> Walks \cup {NoWalk}]
  /\ \A x \in Walkers : walk[x] # NoWalk => WalkInv(walk[x])

BrowseStart == AccessStart /\ walk = [x \in Walkers |-> NoWalk]

BrowseSpec == BrowseStart /\ [][Next]_vars

\* Before anyone pages, the invariant holds.
THEOREM BrowseInitIInv == BrowseStart => BrowseIInv
<1> SUFFICES ASSUME BrowseStart PROVE BrowseIInv
  OBVIOUS
<1>1. IInv
  BY InitIInv DEF BrowseStart
<1> QED
  BY <1>1 DEF BrowseStart, BrowseIInv

\* A walk that begins has the cursor of the first page.
LEMMA StartWalkInv ==
  ASSUME walk \in [Walkers -> Walks \cup {NoWalk}], NEW x \in Walkers,
         StartWalk(x)
  PROVE  \E v \in Walks : walk' = [walk EXCEPT ![x] = v] /\ WalkInv(v)
<1>1. PICK k \in AllKinds, f \in Filters, n \in Limits :
        walk' = [walk EXCEPT ![x] =
          [kind |-> k, viewer |-> x, filter |-> f, limit |-> Min({n, MaxLimit}),
           seed |-> NoSeed, pos |-> encode_offset(0), at |-> "first",
           page |-> <<>>, offset |-> 0, shown |-> <<>>, shuffle |-> NoSeed,
           first |-> <<>>, last |-> <<>>,
           grew |-> FALSE, shrank |-> FALSE, moved |-> FALSE]]
  BY DEF StartWalk
<1>2. PICK limit : limit = Min({n, MaxLimit})
  OBVIOUS
<1>3. limit \in 1..MaxLimit
  <2>1. n \in Nat /\ n > 0 /\ MaxLimit \in Nat /\ MaxLimit > 0
    BY BrowseAssumption
  <2> QED
    BY <1>2, <2>1, MinFacts
<1>4. PICK v :
        v = [kind |-> k, viewer |-> x, filter |-> f, limit |-> limit,
             seed |-> NoSeed, pos |-> encode_offset(0), at |-> "first",
             page |-> <<>>, offset |-> 0, shown |-> <<>>, shuffle |-> NoSeed,
             first |-> <<>>, last |-> <<>>,
             grew |-> FALSE, shrank |-> FALSE, moved |-> FALSE]
  OBVIOUS
<1>5. v \in Walks
  BY <1>3, <1>4, BrowseAssumption DEF Walks, encode_offset
<1>6. <<>> \in Orders
  BY DEF Orders, IsInjective
<1>7. WalkInv(v)
  BY <1>4, <1>6
     DEF WalkInv, CursorInv, PageInv, AheadInv, BehindInv, SameInv
<1> QED
  BY <1>1, <1>2, <1>4, <1>5, <1>7

\* Requests leave the walks alone, and walks leave the catalogue alone; a walk
\* takes its next page from the catalogue as it is then.
THEOREM BrowseNextIInv == BrowseIInv /\ [Next]_vars => BrowseIInv'
<1> SUFFICES ASSUME BrowseIInv, [Next]_vars PROVE BrowseIInv'
  OBVIOUS
<1>1. [AccessNext]_accessVars
  BY DEF Next, vars, Walk, StartWalk, QueryPage, QueryNames
<1>2. IInv'
  BY <1>1, NextIInv DEF BrowseIInv
<1>3. CASE UNCHANGED walk
  BY <1>2, <1>3 DEF BrowseIInv
<1>4. ASSUME NEW x \in Walkers, Walk(x) PROVE BrowseIInv'
  <2>1. /\ IInv /\ walk \in [Walkers -> Walks \cup {NoWalk}]
        /\ \A y \in Walkers : walk[y] # NoWalk => WalkInv(walk[y])
    BY DEF BrowseIInv
  <2>2. \E v \in Walks : walk' = [walk EXCEPT ![x] = v] /\ WalkInv(v)
    <3>1. CASE StartWalk(x)
      BY <2>1, <3>1, StartWalkInv
    <3>2. CASE QueryPage(x)
      <4>1. walk[x] # NoWalk /\ walk[x] \in Walks /\ WalkInv(walk[x])
        BY <2>1, <3>2 DEF QueryPage
      <4>2. PICK v \in Walks :
              walk' = [walk EXCEPT ![x] = v] /\ Queried(walk[x], v)
        BY <2>1, <3>2, <4>1, QueryStep
      <4>3. walk[x].at \in {"first", "page"}
        BY <3>2 DEF QueryPage
      <4>4. WalkInv(v)
        BY <4>1, <4>2, <4>3, FirstPage, NextPage
      <4> QED
        BY <4>2, <4>4
    <3>3. CASE QueryNames(x)
      <4>1. walk[x] # NoWalk /\ walk[x] \in Walks /\ WalkInv(walk[x])
        BY <2>1, <3>3 DEF QueryNames
      <4>2. PICK v \in Walks :
              walk' = [walk EXCEPT ![x] = v] /\ Filled(walk[x], v)
        BY <2>1, <3>3, <4>1, NamesStep
      <4>3. walk[x].at = "names"
        BY <3>3 DEF QueryNames
      <4>4. WalkInv(v)
        BY <4>1, <4>2, <4>3, FilledPage
      <4> QED
        BY <4>2, <4>4
    <3> QED
      BY <1>4, <3>1, <3>2, <3>3 DEF Walk
  <2>3. PICK v \in Walks : walk' = [walk EXCEPT ![x] = v] /\ WalkInv(v)
    BY <2>2
  <2>4. walk' \in [Walkers -> Walks \cup {NoWalk}]
    BY <2>1, <2>3
  <2>5. \A y \in Walkers : walk'[y] # NoWalk => WalkInv(walk'[y])
    BY <2>1, <2>3
  <2> QED
    BY <1>2, <2>4, <2>5 DEF BrowseIInv
<1> QED
  BY <1>3, <1>4 DEF Next, vars

\* The invariant holds in every state.
THEOREM SpecBrowseIInv == BrowseSpec => []BrowseIInv
  BY BrowseInitIInv, BrowseNextIInv, PTL DEF BrowseSpec

\* The catalogue, the lists, the handlers and the walks have their types.
THEOREM SpecTypeOK == BrowseSpec => []TypeOK
<1>1. BrowseIInv => TypeOK
  BY DEF BrowseIInv, IInv, TypeOK
<1> QED
  BY <1>1, SpecBrowseIInv, PTL

\* No page has a gif twice, the ones of a search either, whatever happens
\* between its two queries (search.rs:70-78).
THEOREM SpecPagesAreSets == BrowseSpec => []PagesAreSets
<1>1. BrowseIInv => PagesAreSets
  BY DEF BrowseIInv, WalkInv, PageInv, PagesAreSets, Walking, Orders
<1> QED
  BY <1>1, SpecBrowseIInv, PTL

\* Gifs that disappear while a client pages never bring one back.
THEOREM SpecNothingTwice == BrowseSpec => []NothingTwice
<1>1. BrowseIInv => NothingTwice
  BY DEF BrowseIInv, WalkInv, AheadInv, NothingTwice, Walking
<1> QED
  BY <1>1, SpecBrowseIInv, PTL

\* Gifs that appear while a client pages never hide one that was there.
THEOREM SpecNothingMissed == BrowseSpec => []NothingMissed
<1>1. ASSUME BrowseIInv PROVE NothingMissed
  <2> SUFFICES ASSUME NEW x \in Walkers, Walking(x), walk[x].at = "done",
                      ~ walk[x].shrank, ~ walk[x].moved
               PROVE  ToSet(walk[x].first) \subseteq ToSet(walk[x].shown)
    BY DEF NothingMissed
  <2>1. PICK w \in Walks : w = walk[x] /\ WalkInv(w)
    BY <1>1 DEF BrowseIInv, Walking
  <2>2. /\ w.last \in Orders /\ Len(w.last) < w.offset + w.limit
        /\ Reached(w) = w.offset + w.limit
        /\ w.offset \in Nat /\ w.limit \in Nat
    BY <2>1 DEF WalkInv, CursorInv, PageInv, Reached, Walks
  <2>3. /\ ToSet(w.first) \subseteq ToSet(w.last)
        /\ \A j \in 1..Len(w.last) :
             j <= w.offset + w.limit /\ w.last[j] \in ToSet(w.first) =>
               w.last[j] \in ToSet(w.shown)
    BY <2>1, <2>2 DEF WalkInv, BehindInv
  <2>4. /\ Len(w.last) \in Nat
        /\ ToSet(w.last) = {w.last[j] : j \in 1..Len(w.last)}
    BY <2>2, OrderFacts
  <2>5. \A j \in 1..Len(w.last) : j <= w.offset + w.limit
    BY <2>2, <2>4
  <2> QED
    BY <2>1, <2>3, <2>4, <2>5
<1> QED
  BY <1>1, SpecBrowseIInv, PTL

\* A walk through a listing that does not change shows it, once and in order:
\* a random one too, because the cursor carries the seed.
THEOREM SpecWalkIsListing == BrowseSpec => []WalkIsListing
<1>1. ASSUME BrowseIInv PROVE WalkIsListing
  <2> SUFFICES ASSUME NEW x \in Walkers, Walking(x), walk[x].kind # "search",
                      walk[x].at = "done",
                      ~ walk[x].grew, ~ walk[x].shrank, ~ walk[x].moved
               PROVE  walk[x].shown = walk[x].first
    BY DEF WalkIsListing
  <2>1. PICK w \in Walks : w = walk[x] /\ WalkInv(w)
    BY <1>1 DEF BrowseIInv, Walking
  <2>2. /\ w.first \in Orders /\ Len(w.last) < w.offset + w.limit
        /\ Reached(w) = w.offset + w.limit
        /\ w.offset \in Nat /\ w.limit \in Nat
    BY <2>1 DEF WalkInv, CursorInv, PageInv, Reached, Walks
  <2>3. /\ w.last = w.first /\ w.shown = Window(w.first, w.offset + w.limit, 0)
    BY <2>1, <2>2 DEF WalkInv, SameInv
  <2>4. /\ w.first \in Seq(Ids) /\ Len(w.first) \in Nat
        /\ w.offset + w.limit \in Nat
    BY <2>2, OrderFacts
  <2>5. ToSet(w.shown) = ToSet(w.first) /\ Follows(w.shown, w.first)
        /\ w.shown \in Orders
    <3>1. PICK s \in Orders, n \in Nat : s = w.first /\ n = w.offset + w.limit
      BY <2>2, <2>4
    <3>2. PICK t : t = Window(s, n, 0)
      OBVIOUS
    <3>3. /\ t \in Orders /\ Len(t) \in Nat
          /\ \A m \in 1..Len(t) : 0 + m \in 1..Len(s) /\ t[m] = s[0 + m]
          /\ \A k \in 1..Len(s) : s[k] \in ToSet(t) <=> 0 < k /\ k <= 0 + n
      <4>1. PICK z \in Nat : z = 0
        OBVIOUS
      <4>2. t = Window(s, n, z)
        BY <3>2, <4>1
      <4>3. /\ t \in Orders /\ Len(t) \in Nat
            /\ \A m \in 1..Len(t) : z + m \in 1..Len(s) /\ t[m] = s[z + m]
            /\ \A k \in 1..Len(s) : s[k] \in ToSet(t) <=> z < k /\ k <= z + n
        BY <4>2, WindowFacts
      <4> QED
        BY <4>1, <4>3
    <3>4. Len(s) \in Nat /\ ToSet(s) = {s[k] : k \in 1..Len(s)} /\ Len(s) < n
      BY <2>2, <2>3, <3>1, OrderFacts
    <3>5. ToSet(t) = {t[m] : m \in 1..Len(t)}
      BY <3>3, OrderFacts
    <3>6. \A m \in 1..Len(t) : m \in 1..Len(s) /\ t[m] = s[m]
      BY <3>3
    <3>7. ToSet(t) = ToSet(s)
      <4>1. \A k \in 1..Len(s) : s[k] \in ToSet(t)
        BY <3>3, <3>4
      <4>2. ToSet(s) \subseteq ToSet(t)
        BY <3>4, <4>1
      <4>3. ToSet(t) \subseteq ToSet(s)
        BY <3>4, <3>5, <3>6
      <4> QED
        BY <4>2, <4>3
    <3>8. Follows(t, s)
      BY <3>3, <3>6, PrecedesFacts DEF Follows
    <3> QED
      BY <2>3, <3>1, <3>2, <3>3, <3>7, <3>8
  <2>6. w.shown = w.first
    BY <2>2, <2>5, OneOrder
  <2> QED
    BY <2>1, <2>6
<1> QED
  BY <1>1, SpecBrowseIInv, PTL
=============================================================================
