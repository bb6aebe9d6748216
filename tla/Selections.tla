----------------------------- MODULE Selections -----------------------------
(***************************************************************************)
(* POST /gifs/:id/select: record_selection and increment_uses of           *)
(* storage/db.rs, for one gif and the users who select it.  Each of the    *)
(* three statements is a transaction of its own, so other selections and   *)
(* the gif's deletion come between them.                                   *)
(*                                                                         *)
(* now() is the time at which a statement started.  A statement that waits *)
(* for the row's lock, or for a processor, writes it later: at most MaxLag *)
(* later, which is what bounds the error of the 24 hour window.            *)
(***************************************************************************)
EXTENDS Integers, Sequences, FiniteSets

CONSTANTS
  Users,        \* Matrix ids that select the gif
  Requests,     \* slots for concurrently running select handlers
  Day,          \* interval '1 day', in ticks
  MaxLag,       \* ticks a statement may take
  MaxTime,      \* bound on the clock
  Faults,       \* "drop": a handler may be dropped or a statement fail
  NoUser,       \* the slot is idle
  Never         \* no selections row

Times == 0..MaxTime

ASSUME SelectionsAssumption ==
  /\ Day \in Nat /\ MaxLag \in Nat /\ MaxTime \in Nat
  /\ MaxLag < Day
  /\ Never \notin Times
  /\ NoUser \notin Users
  /\ Faults \subseteq {"drop"}

VARIABLES
  clock,        \* the database server's clock
  live,         \* the gif's row exists
  uses,         \* gifs.uses
  usedAt,       \* selections.used_at of each user
  pc,           \* next statement of each handler
  who,          \* its user
  stamp,        \* now() of the statement it is in
  counts,       \* history: per user, now() of the selections that counted
  lost          \* history: how many of them were dropped before the increment

vars == <<clock, live, uses, usedAt, pc, who, stamp, counts, lost>>

Labels == {"idle", "insert", "inserting", "refresh", "refreshing", "increment"}

TypeOK ==
  /\ clock \in Times
  /\ live \in BOOLEAN
  /\ uses \in Nat
  /\ usedAt \in [Users -> Times \cup {Never}]
  /\ pc \in [Requests -> Labels]
  /\ who \in [Requests -> Users \cup {NoUser}]
  /\ stamp \in [Requests -> Times]
  /\ counts \in [Users -> Seq(Times)]
  /\ lost \in Nat
  /\ \A r \in Requests : pc[r] = "idle" <=> who[r] = NoUser

Init ==
  /\ clock = 0
  /\ live = TRUE
  /\ uses = 0
  /\ usedAt = [u \in Users |-> Never]
  /\ pc = [r \in Requests |-> "idle"]
  /\ who = [r \in Requests |-> NoUser]
  /\ stamp = [r \in Requests |-> 0]
  /\ counts = [u \in Users |-> <<>>]
  /\ lost = 0

-----------------------------------------------------------------------------
InStatement(r) == pc[r] \in {"inserting", "refreshing"}

\* Time passes, but no statement takes longer than MaxLag.
Tick ==
  /\ clock < MaxTime
  /\ \A r \in Requests : InStatement(r) => clock < stamp[r] + MaxLag
  /\ clock' = clock + 1
  /\ UNCHANGED <<live, uses, usedAt, pc, who, stamp, counts, lost>>

Goto(r, label) == pc' = [pc EXCEPT ![r] = label]

Return(r) ==
  /\ Goto(r, "idle")
  /\ who' = [who EXCEPT ![r] = NoUser]
  /\ stamp' = [stamp EXCEPT ![r] = 0]

\* load_viewable has found the gif.
Start(r) ==
  /\ pc[r] = "idle"
  /\ live
  /\ \E u \in Users : who' = [who EXCEPT ![r] = u]
  /\ Goto(r, "insert")
  /\ UNCHANGED <<clock, live, uses, usedAt, stamp, counts, lost>>

\* Postgres receives a statement of the handler and fixes its now().
BeginStatement(r) ==
  /\ \/ pc[r] = "insert" /\ Goto(r, "inserting")
     \/ pc[r] = "refresh" /\ Goto(r, "refreshing")
  /\ stamp' = [stamp EXCEPT ![r] = clock]
  /\ UNCHANGED <<clock, live, uses, usedAt, who, counts, lost>>

Count(r) == counts' = [counts EXCEPT ![who[r]] = Append(@, stamp[r])]

\* INSERT ... ON CONFLICT DO NOTHING.  Without the gif the foreign key fails.
Insert(r) ==
  /\ pc[r] = "inserting"
  /\ \/ /\ ~ live
        /\ Return(r)
        /\ UNCHANGED <<usedAt, counts>>
     \/ /\ live /\ usedAt[who[r]] = Never
        /\ usedAt' = [usedAt EXCEPT ![who[r]] = stamp[r]]
        /\ Count(r)
        /\ Goto(r, "increment")
        /\ UNCHANGED <<who, stamp>>
     \/ /\ live /\ usedAt[who[r]] # Never
        /\ Goto(r, "refresh")
        /\ UNCHANGED <<usedAt, who, stamp, counts>>
  /\ UNCHANGED <<clock, live, uses, lost>>

Stale(r) == usedAt[who[r]] <= stamp[r] - Day

\* Mutant: the window is checked in a statement before the one that refreshes
\* the row, so that two selections can both find it stale.
RefreshChecksBefore(r) ==
  /\ pc[r] = "refreshing"
  /\ usedAt[who[r]] # Never
  /\ usedAt' = [usedAt EXCEPT ![who[r]] = stamp[r]]
  /\ \/ Count(r) /\ Goto(r, "increment") /\ UNCHANGED <<who, stamp>>
     \/ Return(r) /\ UNCHANGED counts
  /\ UNCHANGED <<clock, live, uses, lost>>

\* WITH cur AS (... FOR UPDATE), upd AS (UPDATE ...) SELECT stale: the row is
\* locked, tested as it is then, and given this statement's now(), which may
\* be earlier than the time it holds.  fetch_one fails if the row is gone.
Refresh(r) ==
  /\ pc[r] = "refreshing"
  /\ \/ /\ usedAt[who[r]] = Never
        /\ Return(r)
        /\ UNCHANGED <<usedAt, counts>>
     \/ /\ usedAt[who[r]] # Never
        /\ usedAt' = [usedAt EXCEPT ![who[r]] = stamp[r]]
        /\ IF Stale(r)
             THEN Count(r) /\ Goto(r, "increment") /\ UNCHANGED <<who, stamp>>
             ELSE Return(r) /\ UNCHANGED counts
  /\ UNCHANGED <<clock, live, uses, lost>>

\* Mutant: the counter is read, and written back by a later statement.
IncrementLosesUpdate(r) ==
  /\ pc[r] = "increment"
  /\ uses' = IF live /\ (\A q \in Requests \ {r} : pc[q] # "increment")
               THEN uses + 1 ELSE uses
  /\ Return(r)
  /\ UNCHANGED <<clock, live, usedAt, counts, lost>>

\* UPDATE gifs SET uses = uses + 1: no row, no effect, no error.
Increment(r) ==
  /\ pc[r] = "increment"
  /\ uses' = IF live THEN uses + 1 ELSE uses
  /\ Return(r)
  /\ UNCHANGED <<clock, live, usedAt, counts, lost>>

\* The client goes away or a statement fails between two commits.
Drop(r) ==
  /\ "drop" \in Faults
  /\ pc[r] # "idle"
  /\ lost' = IF pc[r] = "increment" /\ live THEN lost + 1 ELSE lost
  /\ Return(r)
  /\ UNCHANGED <<clock, live, uses, usedAt, counts>>

\* DELETE FROM gifs: the selections go by cascade.
DeleteGif ==
  /\ live
  /\ live' = FALSE
  /\ usedAt' = [u \in Users |-> Never]
  /\ UNCHANGED <<clock, uses, pc, who, stamp, counts, lost>>

Select(r) ==
  \/ Start(r)
  \/ BeginStatement(r)
  \/ Insert(r)
  \/ Refresh(r)
  \/ Increment(r)

Next ==
  \/ \E r \in Requests : Select(r) \/ Drop(r)
  \/ DeleteGif
  \/ Tick

Spec == Init /\ [][Next]_vars

-----------------------------------------------------------------------------
CountedSelections == \* the n-th selection of u that counted, as <<u, n>>
  {p \in Users \X (1..(MaxTime + 1)) : p[2] <= Len(counts[p[1]])}

Counted == Cardinality(CountedSelections)

BeforeIncrement == {r \in Requests : pc[r] = "increment"}

Pending == Cardinality(BeforeIncrement)

\* The ranking shows every selection that counted, once, as soon as its
\* handler has returned: none is added twice, and none is lost between the two
\* statements but those whose handler was dropped there (fetch.rs:269-271).
UsesAreCounts ==
  live => uses + Pending + lost = Counted

Gaps(gap) ==
  \A u \in Users : \A n \in 1..(Len(counts[u]) - 1) :
    counts[u][n] + gap <= counts[u][n + 1]

\* Two selections of one user count at least a day apart, less the time a
\* statement takes, however their statements interleave.
CountsAreSpaced == Gaps(Day - MaxLag)

-----------------------------------------------------------------------------
(* The inductive invariant behind CountsAreSpaced.                         *)

\* now() of a running statement is at most MaxLag old.
StampInv ==
  \A r \in Requests :
    InStatement(r) => stamp[r] <= clock /\ clock <= stamp[r] + MaxLag

\* used_at may be older than the last selection that counted, but by no more
\* than the lag of the statement that wrote it.
WindowInv ==
  \A u \in Users : counts[u] # <<>> =>
    LET last == counts[u][Len(counts[u])] IN
      /\ last <= clock
      /\ live => usedAt[u] # Never
      /\ usedAt[u] # Never => last <= usedAt[u] + MaxLag

SInv ==
  /\ TypeOK
  /\ StampInv
  /\ WindowInv
  /\ CountsAreSpaced

(* The inductive invariant behind UsesAreCounts: selections that are spaced  *)
(* are few, so that each is one of the pairs CountedSelections is taken from. *)
LengthInv ==
  \A u \in Users : counts[u] # <<>> =>
    Len(counts[u]) <= counts[u][Len(counts[u])] + 1

UInv ==
  /\ SInv
  /\ LengthInv
  /\ IsFiniteSet(CountedSelections) /\ IsFiniteSet(BeforeIncrement)
  /\ UsesAreCounts

=============================================================================
