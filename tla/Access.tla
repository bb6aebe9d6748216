------------------------------- MODULE Access -------------------------------
(***************************************************************************)
(* Who may see and change a gif, and the lists that users keep of gifs:    *)
(* can_view and can_mutate (auth.rs), the handlers that load a gif, check  *)
(* and then act (routes/fetch.rs, routes/favorites.rs), and the rows they  *)
(* write (storage/db.rs).  The check and the act are different statements: *)
(* the gif may have been changed or deleted in between.                    *)
(*                                                                         *)
(* Tags, files and the counting of selections have modules of their own:   *)
(* here a gif has a revision, which counts the changes of its file or tags. *)
(***************************************************************************)
EXTENDS Naturals, Sequences, SequencesExt

CONSTANTS
  Ids,          \* gif ids
  Users,        \* Matrix ids
  Admins,       \* users whose session carries the admin bit
  Requests,     \* slots for concurrently running handlers
  Patches,      \* bodies of PATCH requests
  MaxRequests,  \* bound: requests that the instance handles
  NoGif,        \* an id without a row
  NoJob         \* the slot is idle

Visibilities == {"shared", "private"}
Flags == {"sfw", "nsfw"}

Gifs == [uploader : Users, visibility : Visibilities, flag : Flags, uses : Nat,
         revision : Nat]

Lists == {"favorites", "hidden", "history"}
Additions == {"favorite", "hide", "select"}
Removals == {"unfavorite", "unhide"}
Mutations == {"patch", "delete", "replace", "tag"}

Jobs == [op : Additions \cup Removals \cup Mutations, user : Users, id : Ids,
         visibility : Visibilities \cup {"keep"}, flag : Flags \cup {"keep"}]

\* A body that names neither field is refused.
Bodies ==
  [visibility : Visibilities \cup {"keep"}, flag : Flags \cup {"keep"}]
    \ {[visibility |-> "keep", flag |-> "keep"]}

ASSUME AccessAssumption ==
  /\ Admins \subseteq Users
  /\ Patches \subseteq Bodies
  /\ MaxRequests \in Nat
  /\ NoGif \notin Gifs
  /\ NoJob \notin Jobs

VARIABLES
  gif,          \* rows of gifs
  uploaded,     \* ids in the order of uploaded_at, oldest first
  pending,      \* those whose transaction has not committed
  list,         \* favorites, hidden, selections of a user, newest first
  pc,           \* where each handler is
  job,          \* what it is about
  left,         \* requests that may still come
  newer,        \* gifs that came to the request's list while it ran
  exposed       \* history: the gif was shared while the request ran

accessVars ==
  <<gif, uploaded, pending, list, pc, job, left, newer, exposed>>

\* Sequences of ids without repetition.
Orders == {s \in Seq(Ids) : IsInjective(s)}

AccessTypeOK ==
  /\ gif \in [Ids -> Gifs \cup {NoGif}]
  /\ uploaded \in Orders
  /\ pending \in SUBSET Ids
  /\ list \in [Users -> [Lists -> Orders]]
  /\ pc \in [Requests -> {"idle", "act", "second"}]
  /\ job \in [Requests -> Jobs \cup {NoJob}]
  /\ left \in 0..MaxRequests
  /\ newer \in [Requests -> SUBSET Ids]
  /\ exposed \in [Requests -> BOOLEAN]

Live == {i \in Ids : gif[i] # NoGif}

\* The server finds the catalogue that an earlier run of it left.
AccessInit(catalogue, order, lists) ==
  /\ gif = catalogue
  /\ uploaded = order
  /\ pending = {}
  /\ list = lists
  /\ pc = [r \in Requests |-> "idle"]
  /\ job = [r \in Requests |-> NoJob]
  /\ left = MaxRequests
  /\ newer = [r \in Requests |-> {}]
  /\ exposed = [r \in Requests |-> FALSE]

-----------------------------------------------------------------------------
can_view(u, g) == g.visibility = "shared" \/ g.uploader = u

can_mutate(u, g) ==
  g.uploader = u \/ (u \in Admins /\ g.visibility = "shared")

\* Mutant: the gif is looked up and nothing is checked.
MayStartUnchecked(u, op, i) == op \in Removals \/ i \in Live

\* load_viewable or require_viewable, then can_mutate for a mutation.  A
\* removal from a list is not checked.
MayStart(u, op, i) ==
  \/ op \in Removals
  \/ /\ i \in Live
     /\ can_view(u, gif[i])
     /\ op \in Mutations => can_mutate(u, gif[i])

Start(r, u, op, i, visibility, flag) ==
  /\ pc[r] = "idle" /\ left > 0
  /\ MayStart(u, op, i)
  /\ job' = [job EXCEPT ![r] = [op |-> op, user |-> u, id |-> i,
                                visibility |-> visibility, flag |-> flag]]
  /\ pc' = [pc EXCEPT ![r] = "act"]
  /\ left' = left - 1
  /\ exposed' = [exposed EXCEPT ![r] =
       i \in Live /\ gif[i].visibility = "shared"]
  /\ UNCHANGED <<gif, uploaded, pending, list, newer>>

StartPatch(r) ==
  \E u \in Users, i \in Ids, b \in Patches :
    Start(r, u, "patch", i, b.visibility, b.flag)

StartOther(r) ==
  \E u \in Users, i \in Ids :
    \E op \in Additions \cup Removals \cup (Mutations \ {"patch"}) :
      Start(r, u, op, i, "keep", "keep")

Finish(r) ==
  /\ pc' = [pc EXCEPT ![r] = "idle"]
  /\ job' = [job EXCEPT ![r] = NoJob]
  /\ exposed' = [exposed EXCEPT ![r] = FALSE]

\* The handler has another statement to run.
Continue(r) == pc' = [pc EXCEPT ![r] = "second"] /\ UNCHANGED job

Doing(r, label, ops) == pc[r] = label /\ job[r].op \in ops

ListOf(op) ==
  CASE op \in {"favorite", "unfavorite"} -> "favorites"
    [] op \in {"hide", "unhide"} -> "hidden"
    [] op = "select" -> "history"

SetList(u, which, ids) == list' = [list EXCEPT ![u][which] = ids]

\* Mutant: there is no primary key for the conflict.
AddToListTwice(r) ==
  /\ Doing(r, "act", {"favorite", "hide"})
  /\ LET u == job[r].user IN
     IF job[r].id \in Live
       THEN SetList(u, ListOf(job[r].op),
                    <<job[r].id>> \o list[u][ListOf(job[r].op)])
       ELSE UNCHANGED list
  /\ Finish(r)
  /\ UNCHANGED <<gif, uploaded, pending, left, newer>>

Forget(r) == newer' = [newer EXCEPT ![r] = {}]

\* The time of a row is that of the statement that wrote it: it comes first,
\* but for rows of statements that began later and were quicker.
PutOnList(r, which) ==
  LET u == job[r].user
      i == job[r].id
      rest == RemoveFirst(list[u][which], i) IN
  /\ \E n \in 0..Len(rest) :
       /\ \A m \in 1..n : rest[m] \in newer[r]
       /\ SetList(u, which, InsertAt(rest, n + 1, i))
  /\ newer' = [q \in Requests |->
       IF q = r THEN {}
       ELSE IF /\ Doing(q, "act", Additions)
               /\ job[q].user = u /\ ListOf(job[q].op) = which
              THEN newer[q] \cup {i} ELSE newer[q]]

\* INSERT ... ON CONFLICT DO NOTHING: a row that is there keeps its place, and
\* a gif that is gone fails the foreign key.
AddToList(r) ==
  /\ Doing(r, "act", {"favorite", "hide"})
  /\ LET which == ListOf(job[r].op) IN
     IF job[r].id \in Live \ ToSet(list[job[r].user][which])
       THEN PutOnList(r, which)
       ELSE UNCHANGED list /\ Forget(r)
  /\ Finish(r)
  /\ UNCHANGED <<gif, uploaded, pending, left>>

RemoveFromList(r) ==
  /\ Doing(r, "act", Removals)
  /\ SetList(job[r].user, ListOf(job[r].op),
             RemoveFirst(list[job[r].user][ListOf(job[r].op)], job[r].id))
  /\ Finish(r)
  /\ UNCHANGED <<gif, uploaded, pending, left, newer>>

\* select_gif: record_selection gives the gif a new place in the user's
\* history; a selection that counts goes on to increment_uses.
RecordSelection(r) ==
  /\ Doing(r, "act", {"select"})
  /\ IF job[r].id \in Live
       THEN /\ PutOnList(r, "history")
            /\ \/ Continue(r) /\ UNCHANGED exposed
               \/ Finish(r)
       ELSE Finish(r) /\ UNCHANGED list /\ Forget(r)
  /\ UNCHANGED <<gif, uploaded, pending, left>>

IncrementUses(r) ==
  /\ Doing(r, "second", {"select"})
  /\ gif' = IF job[r].id \in Live
              THEN [gif EXCEPT ![job[r].id].uses = @ + 1] ELSE gif
  /\ Finish(r)
  /\ UNCHANGED <<uploaded, pending, list, left, newer>>

\* patch_gif: set_visibility, then set_nsfw, each if asked for.  The UPDATE of
\* a row that is gone changes nothing.
SetVisibility(r) ==
  /\ Doing(r, "act", {"patch"})
  /\ LET i == job[r].id
         v == job[r].visibility IN
     /\ gif' = IF v # "keep" /\ i \in Live
                 THEN [gif EXCEPT ![i].visibility = v] ELSE gif
     /\ exposed' = [q \in Requests |->
          exposed[q] \/ (v = "shared" /\ pc[q] # "idle" /\ job[q].id = i)]
  /\ Continue(r)
  /\ UNCHANGED <<uploaded, pending, list, left, newer>>

SetNsfw(r) ==
  /\ Doing(r, "second", {"patch"})
  /\ gif' = IF job[r].flag # "keep" /\ job[r].id \in Live
              THEN [gif EXCEPT ![job[r].id].flag = job[r].flag] ELSE gif
  /\ Finish(r)
  /\ UNCHANGED <<uploaded, pending, list, left, newer>>

\* replace_file, set_tags, add_tags and remove_tags: what they commit to the
\* row or its tags, if the row is there.
Rewrite(r) ==
  /\ Doing(r, "act", {"replace", "tag"})
  /\ gif' = IF job[r].id \in Live
              THEN [gif EXCEPT ![job[r].id].revision = @ + 1] ELSE gif
  /\ Finish(r)
  /\ UNCHANGED <<uploaded, pending, list, left, newer>>

\* Mutant: favorites has no ON DELETE CASCADE.
RemoveGifNoCascade(i) ==
  /\ gif' = [gif EXCEPT ![i] = NoGif]
  /\ list' = [u \in Users |->
       [list[u] EXCEPT !["hidden"] = RemoveFirst(@, i),
                       !["history"] = RemoveFirst(@, i)]]

\* The row goes, and by cascade the rows that refer to it.
RemoveGif(i) ==
  /\ gif' = [gif EXCEPT ![i] = NoGif]
  /\ list' = [u \in Users |-> [l \in Lists |-> RemoveFirst(list[u][l], i)]]

DeleteGif(r) ==
  /\ Doing(r, "act", {"delete"})
  /\ RemoveGif(job[r].id)
  /\ Finish(r)
  /\ UNCHANGED <<uploaded, pending, left, newer>>

\* POST /gifs begins its transaction, whose start is the gif's uploaded_at.
BeginUpload(i) ==
  /\ i \notin ToSet(uploaded) /\ left > 0
  /\ uploaded' = Append(uploaded, i)
  /\ pending' = pending \cup {i}
  /\ left' = left - 1
  /\ UNCHANGED <<gif, list, pc, job, newer, exposed>>

\* It commits the new row.
UploadGif(i, u, visibility, flag) ==
  /\ i \in pending
  /\ gif' = [gif EXCEPT ![i] = [uploader |-> u, visibility |-> visibility,
                                flag |-> flag, uses |-> 0, revision |-> 0]]
  /\ pending' = pending \ {i}
  /\ UNCHANGED <<uploaded, list, pc, job, left, newer, exposed>>

\* A handler that fails or is dropped between two statements.
DropRequest(r) ==
  /\ pc[r] # "idle"
  /\ Finish(r)
  /\ Forget(r)
  /\ UNCHANGED <<gif, uploaded, pending, list, left>>

Handle(r) ==
  \/ StartPatch(r)
  \/ StartOther(r)
  \/ AddToList(r)
  \/ RemoveFromList(r)
  \/ RecordSelection(r)
  \/ IncrementUses(r)
  \/ SetVisibility(r)
  \/ SetNsfw(r)
  \/ Rewrite(r)
  \/ DeleteGif(r)
  \/ DropRequest(r)

\* An upload that fails stays pending: its id is never used.
Upload ==
  \E i \in Ids :
    \/ BeginUpload(i)
    \/ \E u \in Users, v \in Visibilities, f \in Flags : UploadGif(i, u, v, f)

AccessNext == (\E r \in Requests : Handle(r)) \/ Upload

-----------------------------------------------------------------------------
\* Request r changes the row of its gif in this step.
Changes(r) ==
  pc'[r] # pc[r] /\ job[r] \in Jobs /\ gif'[job[r].id] # gif[job[r].id]

\* Who changes a gif of somebody else is an admin or has selected it, and the
\* gif was shared at some time while the request ran (auth.rs:43-47,
\* fetch.rs:134-139): a gif that stays private is its uploader's alone.
PrivateIsUploadersOnly ==
  [][\A r \in Requests : Changes(r) =>
       \/ gif[job[r].id].uploader = job[r].user
       \/ exposed[r] /\ (job[r].user \in Admins \/ job[r].op = "select")
     ]_accessVars

\* Lists refer to gifs that exist: a deletion takes its rows along, and an
\* addition that was checked before the deletion does not bring them back.
ListsReferToGifs ==
  \A u \in Users, l \in Lists : ToSet(list[u][l]) \subseteq Live
=============================================================================
