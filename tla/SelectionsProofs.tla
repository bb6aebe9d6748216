-------------------------- MODULE SelectionsProofs --------------------------
(***************************************************************************)
(* For any number of users, handlers and selections, two selections of one *)
(* user count at least Day - MaxLag apart, and the ranking's counter is    *)
(* the number of selections that counted, less those in flight or dropped. *)
(***************************************************************************)
EXTENDS Selections, FiniteSetTheorems, TLAPS

\* No one has selected the gif yet (record_selection, db.rs:554).
THEOREM InitSInv == Init => SInv
<1> SUFFICES ASSUME Init PROVE SInv
  OBVIOUS
<1>1. TypeOK
  BY SelectionsAssumption DEF Init, TypeOK, Times, Labels
<1>2. StampInv /\ WindowInv
  BY DEF Init, StampInv, WindowInv, InStatement
<1>3. CountsAreSpaced
  BY DEF Init, CountsAreSpaced, Gaps
<1> QED
  BY <1>1, <1>2, <1>3 DEF SInv

\* Steps that neither write used_at nor count.
LEMMA QuietSInv ==
  ASSUME SInv, TypeOK', StampInv', UNCHANGED <<live, usedAt, counts>>,
         clock <= clock'
  PROVE  SInv'
<1>1. WindowInv'
  <2> SUFFICES ASSUME NEW u \in Users, counts[u] # <<>>
               PROVE  counts[u][Len(counts[u])] <= clock'
    BY DEF SInv, WindowInv
  <2>1. counts[u] \in Seq(Times) /\ clock \in Int /\ clock' \in Int
    BY DEF SInv, TypeOK, Times
  <2>2. counts[u][Len(counts[u])] \in Int
    <3>1. Len(counts[u]) \in 1..Len(counts[u])
      BY <2>1
    <3>2. counts[u][Len(counts[u])] \in Times
      BY <2>1, <3>1
    <3> QED
      BY <3>2 DEF Times
  <2>3. counts[u][Len(counts[u])] <= clock
    BY DEF SInv, WindowInv
  <2> QED
    BY <2>1, <2>2, <2>3
<1>2. CountsAreSpaced'
  BY DEF SInv, CountsAreSpaced, Gaps
<1> QED
  BY <1>1, <1>2 DEF SInv

\* A statement that has locked the row writes its now() and does not count.
LEMMA RefreshSInv ==
  ASSUME SInv, TypeOK', StampInv', UNCHANGED <<live, clock, counts>>,
         NEW r \in Requests, InStatement(r), who[r] \in Users,
         usedAt' = [usedAt EXCEPT ![who[r]] = stamp[r]]
  PROVE  SInv'
<1>1. WindowInv'
  <2> SUFFICES ASSUME NEW u \in Users, counts[u] # <<>>, usedAt'[u] # Never
               PROVE  counts[u][Len(counts[u])] <= usedAt'[u] + MaxLag
    BY SelectionsAssumption DEF SInv, WindowInv, TypeOK
  <2>1. counts[u] \in Seq(Times) /\ clock \in Int /\ stamp[r] \in Int
    BY DEF SInv, TypeOK, Times
  <2>2. counts[u][Len(counts[u])] \in Int
    <3>1. Len(counts[u]) \in 1..Len(counts[u])
      BY <2>1
    <3>2. counts[u][Len(counts[u])] \in Times
      BY <2>1, <3>1
    <3> QED
      BY <3>2 DEF Times
  <2>3. CASE u = who[r]
    <3>1. usedAt'[u] = stamp[r]
      BY <2>3 DEF SInv, TypeOK
    <3>2. counts[u][Len(counts[u])] <= clock /\ clock <= stamp[r] + MaxLag
      BY DEF SInv, WindowInv, StampInv
    <3> QED
      BY <2>1, <2>2, <3>1, <3>2, SelectionsAssumption
  <2>4. CASE u # who[r]
    BY <2>4 DEF SInv, WindowInv, TypeOK
  <2> QED
    BY <2>3, <2>4
<1>2. CountsAreSpaced'
  BY DEF SInv, CountsAreSpaced, Gaps
<1> QED
  BY <1>1, <1>2 DEF SInv

\* A selection counts at least Day - MaxLag after the user's last one that did.
LEMMA CountIsSpaced ==
  ASSUME SInv, NEW r \in Requests, InStatement(r), who[r] \in Users,
         \/ counts[who[r]] = <<>>
         \/ usedAt[who[r]] # Never /\ Stale(r)
  PROVE  LET n == Len(counts[who[r]])
         IN  n > 0 => counts[who[r]][n] + (Day - MaxLag) <= stamp[r]
<1> DEFINE w == who[r]
           n == Len(counts[w])
<1> SUFFICES ASSUME n > 0
             PROVE  counts[w][n] + (Day - MaxLag) <= stamp[r]
  OBVIOUS
<1>1. /\ counts[w] \in Seq(Times) /\ n \in Nat
      /\ stamp[r] \in Int /\ MaxLag \in Nat /\ Day \in Nat
  BY SelectionsAssumption DEF SInv, TypeOK, Times
<1>2. counts[w] # <<>>
  BY <1>1
<1>3. usedAt[w] # Never /\ usedAt[w] <= stamp[r] - Day
  BY <1>2 DEF Stale
<1>4. usedAt[w] \in Int
  BY <1>3 DEF SInv, TypeOK, Times
<1>5. counts[w][n] <= usedAt[w] + MaxLag
  BY <1>2, <1>3 DEF SInv, WindowInv
<1>6. counts[w][n] \in Times
  BY <1>1
<1>7. counts[w][n] \in Int
  BY <1>6 DEF Times
<1> QED
  BY <1>1, <1>3, <1>4, <1>5, <1>7

\* A selection that counts: the first, or one that finds the row stale.
LEMMA CountSInv ==
  ASSUME SInv, TypeOK', StampInv', UNCHANGED <<live, clock>>,
         NEW r \in Requests, InStatement(r), who[r] \in Users,
         usedAt' = [usedAt EXCEPT ![who[r]] = stamp[r]],
         counts' = [counts EXCEPT ![who[r]] = Append(counts[who[r]], stamp[r])],
         \/ counts[who[r]] = <<>>
         \/ usedAt[who[r]] # Never /\ Stale(r)
  PROVE  SInv'
<1> DEFINE w == who[r]
           n == Len(counts[w])
<1>1. /\ counts[w] \in Seq(Times) /\ n \in Nat
      /\ stamp[r] \in Times /\ stamp[r] \in Int /\ clock \in Int
      /\ stamp[r] <= clock
      /\ MaxLag \in Nat /\ Day \in Nat
  BY SelectionsAssumption DEF SInv, TypeOK, Times, StampInv
<1>2. /\ counts'[w] = Append(counts[w], stamp[r])
      /\ usedAt'[w] = stamp[r]
      /\ \A u \in Users \ {w} : counts'[u] = counts[u] /\ usedAt'[u] = usedAt[u]
  BY DEF SInv, TypeOK
<1>3. /\ Len(counts'[w]) = n + 1
      /\ counts'[w][n + 1] = stamp[r]
      /\ \A k \in 1..n : counts'[w][k] = counts[w][k] /\ counts[w][k] \in Times
  BY <1>1, <1>2
<1>4. WindowInv'
  <2> SUFFICES ASSUME NEW u \in Users, counts'[u] # <<>>
               PROVE  /\ counts'[u][Len(counts'[u])] <= clock
                      /\ live => usedAt'[u] # Never
                      /\ usedAt'[u] # Never =>
                           counts'[u][Len(counts'[u])] <= usedAt'[u] + MaxLag
    BY DEF WindowInv
  <2>1. CASE u = w
    <3>1. usedAt'[u] # Never
      BY <1>1, <1>2, <2>1, SelectionsAssumption
    <3> QED
      BY <1>1, <1>2, <1>3, <2>1, <3>1
  <2>2. CASE u # w
    BY <1>2, <2>2 DEF SInv, WindowInv
  <2> QED
    BY <2>1, <2>2
<1>5. n > 0 => counts[w][n] + (Day - MaxLag) <= stamp[r]
  BY CountIsSpaced
<1>6. CountsAreSpaced'
  <2> SUFFICES ASSUME NEW u \in Users, NEW k \in 1..(Len(counts'[u]) - 1)
               PROVE  counts'[u][k] + (Day - MaxLag) <= counts'[u][k + 1]
    BY DEF CountsAreSpaced, Gaps
  <2>1. CASE u # w
    BY <1>2, <2>1 DEF SInv, CountsAreSpaced, Gaps
  <2>2. CASE u = w /\ k = n
    BY <1>1, <1>3, <1>5, <2>2
  <2>3. CASE u = w /\ k # n
    <3>1. k \in 1..(n - 1) /\ k \in 1..n /\ k + 1 \in 1..n
      BY <1>1, <1>3, <2>3
    <3>2. counts[w][k] + (Day - MaxLag) <= counts[w][k + 1]
      BY <3>1 DEF SInv, CountsAreSpaced, Gaps
    <3> QED
      BY <1>3, <2>3, <3>1, <3>2
  <2> QED
    BY <2>1, <2>2, <2>3
<1> QED
  BY <1>4, <1>6 DEF SInv

-----------------------------------------------------------------------------
\* Counting a selection keeps the type of the history.
LEMMA CountType ==
  ASSUME TypeOK, NEW r \in Requests, who[r] \in Users, Count(r)
  PROVE  counts' \in [Users -> Seq(Times)]
<1>1. Append(counts[who[r]], stamp[r]) \in Seq(Times)
  BY DEF TypeOK
<1> QED
  BY <1>1 DEF TypeOK, Count

\* The control state of a handler that returns, or goes on.
LEMMA ControlType ==
  ASSUME TypeOK, NEW r \in Requests, pc[r] # "idle",
         \/ Return(r)
         \/ /\ Goto(r, "refresh") \/ Goto(r, "increment")
            /\ UNCHANGED <<who, stamp>>
  PROVE  /\ pc' \in [Requests -> Labels]
         /\ who' \in [Requests -> Users \cup {NoUser}]
         /\ stamp' \in [Requests -> Times]
         /\ \A q \in Requests : pc'[q] = "idle" <=> who'[q] = NoUser
<1>1. 0 \in Times
  BY SelectionsAssumption DEF Times
<1>2. CASE Return(r)
  BY <1>1, <1>2 DEF TypeOK, Return, Goto, Labels
<1>3. CASE Goto(r, "refresh") /\ UNCHANGED <<who, stamp>>
  BY <1>3 DEF TypeOK, Goto, Labels
<1>4. CASE Goto(r, "increment") /\ UNCHANGED <<who, stamp>>
  BY <1>4 DEF TypeOK, Goto, Labels
<1> QED
  BY <1>2, <1>3, <1>4

\* Every statement and the cascade keep the tables typed (db.rs:554-590).
LEMMA StepTypeOK == SInv /\ [Next]_vars => TypeOK'
<1> SUFFICES ASSUME SInv, [Next]_vars PROVE TypeOK'
  OBVIOUS
<1> USE SelectionsAssumption DEF SInv, TypeOK, Labels, Times
<1>1. ASSUME NEW r \in Requests, Start(r) PROVE TypeOK'
  BY <1>1 DEF Start, Goto
<1>2. ASSUME NEW r \in Requests, BeginStatement(r) PROVE TypeOK'
  BY <1>2 DEF BeginStatement, Goto
<1>3. ASSUME NEW r \in Requests, Insert(r) PROVE TypeOK'
  <2>1. who[r] \in Users /\ stamp[r] \in Times
    BY <1>3 DEF Insert
  <2>2. /\ usedAt' \in [Users -> Times \cup {Never}]
        /\ counts' \in [Users -> Seq(Times)]
    BY <1>3, <2>1, CountType DEF Insert
  <2>3. /\ pc' \in [Requests -> Labels]
        /\ who' \in [Requests -> Users \cup {NoUser}]
        /\ stamp' \in [Requests -> Times]
        /\ \A q \in Requests : pc'[q] = "idle" <=> who'[q] = NoUser
    BY <1>3, ControlType DEF Insert
  <2> QED
    BY <1>3, <2>2, <2>3 DEF Insert
<1>4. ASSUME NEW r \in Requests, Refresh(r) PROVE TypeOK'
  <2>1. who[r] \in Users /\ stamp[r] \in Times
    BY <1>4 DEF Refresh
  <2>2. /\ usedAt' \in [Users -> Times \cup {Never}]
        /\ counts' \in [Users -> Seq(Times)]
    BY <1>4, <2>1, CountType DEF Refresh
  <2>3. /\ pc' \in [Requests -> Labels]
        /\ who' \in [Requests -> Users \cup {NoUser}]
        /\ stamp' \in [Requests -> Times]
        /\ \A q \in Requests : pc'[q] = "idle" <=> who'[q] = NoUser
    BY <1>4, ControlType DEF Refresh
  <2> QED
    BY <1>4, <2>2, <2>3 DEF Refresh
<1>5. ASSUME NEW r \in Requests, Increment(r) PROVE TypeOK'
  BY <1>5 DEF Increment, Goto, Return
<1>6. ASSUME NEW r \in Requests, Drop(r) PROVE TypeOK'
  BY <1>6 DEF Drop, Goto, Return
<1>7. CASE DeleteGif
  BY <1>7 DEF DeleteGif
<1>8. CASE Tick
  BY <1>8 DEF Tick
<1>9. CASE UNCHANGED vars
  BY <1>9 DEF vars
<1> QED
  BY <1>1, <1>2, <1>3, <1>4, <1>5, <1>6, <1>7, <1>8, <1>9 DEF Next, Select

\* Time does not pass a running statement by more than MaxLag (now(), db.rs:579).
LEMMA StepStampInv == SInv /\ [Next]_vars => StampInv'
<1> SUFFICES ASSUME SInv, [Next]_vars PROVE StampInv'
  OBVIOUS
<1>0. MaxLag \in Nat /\ clock \in Int /\ stamp \in [Requests -> Int]
  BY SelectionsAssumption DEF SInv, TypeOK, Times
<1>1. ASSUME NEW r \in Requests, BeginStatement(r) PROVE StampInv'
  BY <1>0, <1>1 DEF BeginStatement, Goto, StampInv, InStatement, SInv, TypeOK
<1>2. ASSUME NEW r \in Requests,
             Start(r) \/ Insert(r) \/ Refresh(r) \/ Increment(r) \/ Drop(r)
      PROVE StampInv'
  BY <1>2 DEF Start, Insert, Refresh, Increment, Drop, Goto, Return, StampInv,
     InStatement, SInv, TypeOK
<1>3. CASE Tick
  BY <1>0, <1>3 DEF Tick, StampInv, InStatement, SInv
<1>4. CASE DeleteGif \/ UNCHANGED vars
  BY <1>4 DEF DeleteGif, vars, StampInv, InStatement, SInv
<1> QED
  BY <1>1, <1>2, <1>3, <1>4 DEF Next, Select

\* Every step of the handlers, of the deletion and of the clock keeps used_at
\* within MaxLag of the last selection that counted (db.rs:554-590).
THEOREM StepSInv == SInv /\ [Next]_vars => SInv'
<1> SUFFICES ASSUME SInv, [Next]_vars PROVE SInv'
  OBVIOUS
<1>0. TypeOK' /\ StampInv' /\ clock \in Int
  BY StepTypeOK, StepStampInv DEF SInv, TypeOK, Times
<1>1. ASSUME NEW r \in Requests,
             Start(r) \/ BeginStatement(r) \/ Increment(r) \/ Drop(r)
      PROVE  SInv'
  BY <1>0, <1>1, QuietSInv DEF Start, BeginStatement, Increment, Drop
<1>2. ASSUME NEW r \in Requests, Insert(r) PROVE SInv'
  <2>1. InStatement(r) /\ who[r] \in Users
    BY <1>2 DEF Insert, InStatement, SInv, TypeOK
  <2>2. CASE live /\ usedAt[who[r]] = Never
    <3>1. counts[who[r]] = <<>>
      BY <2>1, <2>2 DEF SInv, WindowInv
    <3>2. /\ UNCHANGED <<live, clock>>
          /\ usedAt' = [usedAt EXCEPT ![who[r]] = stamp[r]]
          /\ counts' = [counts EXCEPT ![who[r]] = Append(counts[who[r]], stamp[r])]
      BY <1>2, <2>2 DEF Insert, Count
    <3> QED
      BY <1>0, <2>1, <3>1, <3>2, CountSInv
  <2>3. CASE ~ (live /\ usedAt[who[r]] = Never)
    BY <1>0, <1>2, <2>3, QuietSInv DEF Insert
  <2> QED
    BY <2>2, <2>3
<1>3. ASSUME NEW r \in Requests, Refresh(r) PROVE SInv'
  <2>1. InStatement(r) /\ who[r] \in Users
    BY <1>3 DEF Refresh, InStatement, SInv, TypeOK
  <2>2. CASE usedAt[who[r]] = Never
    BY <1>0, <1>3, <2>2, QuietSInv DEF Refresh
  <2>3. CASE usedAt[who[r]] # Never /\ Stale(r)
    <3>1. /\ UNCHANGED <<live, clock>>
          /\ usedAt' = [usedAt EXCEPT ![who[r]] = stamp[r]]
          /\ counts' = [counts EXCEPT ![who[r]] = Append(counts[who[r]], stamp[r])]
      BY <1>3, <2>3 DEF Refresh, Count
    <3> QED
      BY <1>0, <2>1, <2>3, <3>1, CountSInv
  <2>4. CASE usedAt[who[r]] # Never /\ ~ Stale(r)
    <3>1. /\ UNCHANGED <<live, clock, counts>>
          /\ usedAt' = [usedAt EXCEPT ![who[r]] = stamp[r]]
      BY <1>3, <2>4 DEF Refresh
    <3> QED
      BY <1>0, <2>1, <3>1, RefreshSInv
  <2> QED
    BY <2>2, <2>3, <2>4
<1>4. CASE DeleteGif
  <2>1. WindowInv'
    BY <1>4 DEF DeleteGif, SInv, WindowInv
  <2>2. CountsAreSpaced'
    BY <1>4 DEF DeleteGif, SInv, CountsAreSpaced, Gaps
  <2> QED
    BY <1>0, <2>1, <2>2 DEF SInv
<1>5. CASE Tick \/ UNCHANGED vars
  BY <1>0, <1>5, QuietSInv DEF Tick, vars
<1> QED
  BY <1>1, <1>2, <1>3, <1>4, <1>5 DEF Next, Select

\* Selections of one user count at least Day - MaxLag apart: the ranking
\* cannot be inflated by concurrent selects (db.rs:550-553, 575-577).
THEOREM SpecCountsAreSpaced == Spec => []CountsAreSpaced
<1>1. SInv => CountsAreSpaced
  BY DEF SInv
<1> QED
  BY <1>1, InitSInv, StepSInv, PTL DEF Spec
-----------------------------------------------------------------------------
\* No one has selected the gif: uses is 0 and nothing is counted.
THEOREM InitUInv == Init => UInv
<1> SUFFICES ASSUME Init PROVE UInv
  OBVIOUS
<1>1. SInv
  BY InitSInv
<1>2. LengthInv
  BY DEF Init, LengthInv
<1>3. CountedSelections = {}
  BY DEF Init, CountedSelections
<1>4. BeforeIncrement = {}
  BY DEF Init, BeforeIncrement
<1>5. uses = 0 /\ lost = 0
  BY DEF Init
<1>6. Counted = 0 /\ Pending = 0
  BY <1>3, <1>4, FS_EmptySet DEF Counted, Pending
<1> QED
  BY <1>1, <1>2, <1>3, <1>4, <1>5, <1>6, FS_EmptySet DEF UInv, UsesAreCounts

\* The counters of the invariant are natural numbers.
LEMMA CountersAreNat ==
  UInv => uses \in Nat /\ lost \in Nat /\ Counted \in Nat /\ Pending \in Nat
BY FS_CardinalityType DEF UInv, SInv, TypeOK, Counted, Pending

\* Counting adds one pair, that of the user and the new length of its history,
\* which the gaps keep within the bound on the clock.
LEMMA CountAddsOne ==
  ASSUME UInv, NEW r \in Requests, InStatement(r), who[r] \in Users,
         stamp[r] \in Times, Count(r),
         \/ counts[who[r]] = <<>>
         \/ usedAt[who[r]] # Never /\ Stale(r)
  PROVE  /\ LengthInv'
         /\ IsFiniteSet(CountedSelections)'
         /\ Counted' = Counted + 1
<1> DEFINE w == who[r]
           n == Len(counts[w])
<1>1. /\ counts[w] \in Seq(Times) /\ n \in Nat
      /\ stamp[r] \in Int /\ 0 <= stamp[r] /\ stamp[r] <= MaxTime
      /\ MaxLag \in Nat /\ Day \in Nat /\ MaxTime \in Nat /\ MaxLag < Day
  BY SelectionsAssumption DEF UInv, SInv, TypeOK, Times
<1>2. /\ counts'[w] = Append(counts[w], stamp[r])
      /\ \A u \in Users \ {w} : counts'[u] = counts[u]
  BY DEF UInv, SInv, TypeOK, Count
<1>3. Len(counts'[w]) = n + 1 /\ counts'[w][n + 1] = stamp[r]
  BY <1>1, <1>2
<1>4. n <= stamp[r]
  <2>1. CASE n = 0
    BY <1>1, <2>1
  <2>2. CASE n # 0
    <3>1. counts[w][n] + (Day - MaxLag) <= stamp[r]
      BY <1>1, <2>2, CountIsSpaced DEF UInv
    <3>2. n <= counts[w][n] + 1
      BY <1>1, <2>2 DEF UInv, LengthInv
    <3>3. counts[w][n] \in Times
      BY <1>1, <2>2
    <3>4. counts[w][n] \in Int
      BY <3>3 DEF Times
    <3> QED
      BY <1>1, <3>1, <3>2, <3>4
  <2> QED
    BY <2>1, <2>2
<1>5. LengthInv'
  <2> SUFFICES ASSUME NEW u \in Users, counts'[u] # <<>>
               PROVE  Len(counts'[u]) <= counts'[u][Len(counts'[u])] + 1
    BY DEF LengthInv
  <2>1. CASE u = w
    BY <1>1, <1>3, <1>4, <2>1
  <2>2. CASE u # w
    BY <1>2, <2>2 DEF UInv, LengthInv
  <2> QED
    BY <2>1, <2>2
<1>6. <<w, n + 1>> \notin CountedSelections
  BY <1>1 DEF CountedSelections
<1>7. CountedSelections' = CountedSelections \cup {<<w, n + 1>>}
  <2>1. n + 1 \in 1..(MaxTime + 1)
    BY <1>1, <1>4
  <2>2. ASSUME NEW u \in Users, NEW k \in 1..(MaxTime + 1)
        PROVE  k <= Len(counts'[u]) <=> k <= Len(counts[u]) \/ <<u, k>> = <<w, n + 1>>
    <3>1. CASE u = w
      BY <1>1, <1>3, <3>1
    <3>2. CASE u # w
      BY <1>2, <3>2
    <3> QED
      BY <3>1, <3>2
  <2> QED
    BY <2>1, <2>2 DEF CountedSelections
<1> QED
  BY <1>5, <1>6, <1>7, FS_AddElement DEF UInv, Counted

\* A selection counts, and its handler goes on to the increment.
LEMMA CountUInv ==
  ASSUME UInv, SInv', NEW r \in Requests, InStatement(r),
         Count(r), Goto(r, "increment"), UNCHANGED <<live, uses, lost>>,
         \/ counts[who[r]] = <<>>
         \/ usedAt[who[r]] # Never /\ Stale(r)
  PROVE  UInv'
<1>1. who[r] \in Users /\ stamp[r] \in Times
  BY DEF InStatement, UInv, SInv, TypeOK
<1>2. /\ LengthInv' /\ IsFiniteSet(CountedSelections)'
      /\ Counted' = Counted + 1
  BY <1>1, CountAddsOne
<1>3. /\ BeforeIncrement' = BeforeIncrement \cup {r}
      /\ r \notin BeforeIncrement
  BY DEF Goto, BeforeIncrement, InStatement, UInv, SInv, TypeOK
<1>4. IsFiniteSet(BeforeIncrement') /\ Pending' = Pending + 1
  BY <1>3, FS_AddElement DEF UInv, Pending
<1>5. uses' = uses /\ lost' = lost /\ live' = live
  OBVIOUS
<1>6. UsesAreCounts'
  BY <1>2, <1>4, <1>5, CountersAreNat DEF UInv, UsesAreCounts
<1> QED
  BY <1>2, <1>4, <1>6 DEF UInv

\* A handler that was to increment returns: what it adds to uses, or to lost if
\* it is dropped, it takes from the selections in flight.
LEMMA SettleUInv ==
  ASSUME UInv, SInv', NEW r \in Requests, pc[r] = "increment", Return(r),
         UNCHANGED <<live, counts>>,
         live => \/ uses' = uses + 1 /\ lost' = lost
                 \/ uses' = uses /\ lost' = lost + 1
  PROVE  UInv'
<1>1. LengthInv' /\ CountedSelections' = CountedSelections /\ Counted' = Counted
  BY DEF UInv, LengthInv, CountedSelections, Counted
<1>2. /\ BeforeIncrement' = BeforeIncrement \ {r}
      /\ r \in BeforeIncrement
  BY DEF Return, Goto, BeforeIncrement, UInv, SInv, TypeOK
<1>3. IsFiniteSet(BeforeIncrement') /\ Pending' = Pending - 1
  BY <1>2, FS_RemoveElement DEF UInv, Pending
<1>4. UsesAreCounts'
  <2>1. uses \in Nat /\ lost \in Nat /\ Counted \in Nat /\ Pending \in Nat
    BY CountersAreNat
  <2>2. live => uses + Pending + lost = Counted
    BY DEF UInv, UsesAreCounts
  <2>3. live => /\ (uses + 1) + (Pending - 1) + lost = Counted
                /\ uses + (Pending - 1) + (lost + 1) = Counted
    <3> \A u, p, l \in Nat : /\ (u + 1) + (p - 1) + l = u + p + l
                             /\ u + (p - 1) + (l + 1) = u + p + l
      OBVIOUS
    <3> QED
      BY <2>1, <2>2
  <2>4. live => uses' + Pending' + lost' = Counted
    BY <1>3, <2>3
  <2> QED
    BY <1>1, <2>4 DEF UsesAreCounts
<1> QED
  BY <1>1, <1>3, <1>4 DEF UInv

\* A step that neither counts nor moves a handler to or from the increment.
LEMMA QuietUInv ==
  ASSUME UInv, SInv', UNCHANGED <<uses, counts, lost>>, live' => live,
         BeforeIncrement' = BeforeIncrement
  PROVE  UInv'
<1>1. LengthInv' /\ CountedSelections' = CountedSelections /\ Counted' = Counted
  BY DEF UInv, LengthInv, CountedSelections, Counted
<1>2. Pending' = Pending
  BY DEF Pending
<1>3. UsesAreCounts'
  BY <1>1, <1>2 DEF UInv, UsesAreCounts
<1> QED
  BY <1>1, <1>3 DEF UInv

\* Every step keeps the count: the statements of record_selection, the
\* increment (db.rs:554-590), a dropped handler and the gif's deletion.
THEOREM StepUInv == UInv /\ [Next]_vars => UInv'
<1> SUFFICES ASSUME UInv, [Next]_vars PROVE UInv'
  OBVIOUS
<1>0. SInv /\ SInv' /\ TypeOK
  BY StepSInv DEF UInv, SInv
<1>1. ASSUME NEW r \in Requests, Start(r) \/ BeginStatement(r) PROVE UInv'
  <2>1. BeforeIncrement' = BeforeIncrement
    BY <1>0, <1>1 DEF Start, BeginStatement, Goto, BeforeIncrement, TypeOK
  <2> QED
    BY <1>0, <1>1, <2>1, QuietUInv DEF Start, BeginStatement
<1>2. ASSUME NEW r \in Requests, Insert(r) PROVE UInv'
  <2>0. InStatement(r) /\ who[r] \in Users
    BY <1>0, <1>2 DEF Insert, InStatement, TypeOK
  <2>1. CASE live /\ usedAt[who[r]] = Never
    <3>1. counts[who[r]] = <<>>
      BY <1>0, <2>0, <2>1 DEF SInv, WindowInv
    <3>2. Count(r) /\ Goto(r, "increment") /\ UNCHANGED <<live, uses, lost>>
      BY <1>2, <2>1 DEF Insert
    <3> QED
      BY <1>0, <2>0, <3>1, <3>2, CountUInv
  <2>2. CASE ~ (live /\ usedAt[who[r]] = Never)
    <3>1. BeforeIncrement' = BeforeIncrement
      BY <1>0, <1>2, <2>2 DEF Insert, Return, Goto, BeforeIncrement, TypeOK
    <3> QED
      BY <1>0, <1>2, <2>2, <3>1, QuietUInv DEF Insert
  <2> QED
    BY <2>1, <2>2
<1>3. ASSUME NEW r \in Requests, Refresh(r) PROVE UInv'
  <2>0. InStatement(r)
    BY <1>3 DEF Refresh, InStatement
  <2>1. CASE usedAt[who[r]] # Never /\ Stale(r)
    <3>1. Count(r) /\ Goto(r, "increment") /\ UNCHANGED <<live, uses, lost>>
      BY <1>3, <2>1 DEF Refresh
    <3> QED
      BY <1>0, <2>0, <2>1, <3>1, CountUInv
  <2>2. CASE ~ (usedAt[who[r]] # Never /\ Stale(r))
    <3>1. BeforeIncrement' = BeforeIncrement
      BY <1>0, <1>3, <2>2 DEF Refresh, Return, Goto, BeforeIncrement, TypeOK
    <3> QED
      BY <1>0, <1>3, <2>2, <3>1, QuietUInv DEF Refresh
  <2> QED
    BY <2>1, <2>2
<1>4. ASSUME NEW r \in Requests, Increment(r) PROVE UInv'
  <2>1. live => uses' = uses + 1 /\ lost' = lost
    BY <1>4 DEF Increment
  <2> QED
    BY <1>0, <1>4, <2>1, SettleUInv DEF Increment
<1>5. ASSUME NEW r \in Requests, Drop(r) PROVE UInv'
  <2>1. CASE pc[r] = "increment"
    <3>1. live => uses' = uses /\ lost' = lost + 1
      BY <1>5, <2>1 DEF Drop
    <3> QED
      BY <1>0, <1>5, <2>1, <3>1, SettleUInv DEF Drop
  <2>2. CASE pc[r] # "increment"
    <3>1. BeforeIncrement' = BeforeIncrement
      BY <1>0, <1>5, <2>2 DEF Drop, Return, Goto, BeforeIncrement, TypeOK
    <3> QED
      BY <1>0, <1>5, <2>2, <3>1, QuietUInv DEF Drop
  <2> QED
    BY <2>1, <2>2
<1>6. CASE DeleteGif \/ Tick \/ UNCHANGED vars
  <2>1. BeforeIncrement' = BeforeIncrement
    BY <1>6 DEF DeleteGif, Tick, vars, BeforeIncrement
  <2> QED
    BY <1>0, <1>6, <2>1, QuietUInv DEF DeleteGif, Tick, vars
<1> QED
  BY <1>1, <1>2, <1>3, <1>4, <1>5, <1>6 DEF Next, Select

\* The ranking shows every selection that counted, once: uses is their number,
\* less those in flight between the two statements and those whose handler was
\* dropped there, however selections interleave (fetch.rs:269-271).
THEOREM SpecUsesAreCounts == Spec => []UsesAreCounts
<1>1. UInv => UsesAreCounts
  BY DEF UInv
<1> QED
  BY <1>1, InitUInv, StepUInv, PTL DEF Spec
=============================================================================
