------------------------------- MODULE Browse -------------------------------
(***************************************************************************)
(* The listings (routes/search.rs, routes/favorites.rs, the list_* and     *)
(* search_* queries of storage/db.rs) over the catalogue of module Access. *)
(* A client walks through a listing page by page: every page is a query of *)
(* its own, and what ties them together is the cursor that a page returns  *)
(* as `next` and the client sends back as `pos`.                           *)
(***************************************************************************)
EXTENDS Access, Integers, FiniteSets

CONSTANTS
  Walkers,      \* users who page through a listing
  Limits,       \* values of the limit parameter
  MaxLimit,     \* MAX_LIMIT
  Seeds,        \* values of fresh_seed
  Shuffle,      \* Shuffle[s][i]: md5 of seed and id, as a number
  TagHits,      \* tags of a gif that match the search terms
  NameRank,     \* ts_rank of its file name, 0 if it does not match
  Filters,      \* combinations of mine, grab_nsfw, grab_hidden
  NoSeed,       \* a cursor without a seed
  NoWalk        \* the client does nothing

AllKinds ==
  {"recent", "featured", "random", "search", "favorites", "hidden", "history"}

AllFilters == [mine : BOOLEAN, grab_nsfw : BOOLEAN, grab_hidden : BOOLEAN]

ASSUME BrowseAssumption ==
  /\ Walkers \subseteq Users
  /\ Limits \subseteq Nat \ {0}
  /\ NoSeed \notin Seeds
  /\ MaxLimit \in Nat \ {0}
  /\ Shuffle \in [Seeds -> [Ids -> Nat]]
  /\ TagHits \in [Ids -> Nat]
  /\ NameRank \in [Ids -> Nat]
  /\ Filters \subseteq AllFilters

VARIABLE walk   \* what each walker has asked for and seen

vars == <<accessVars, walk>>

-----------------------------------------------------------------------------
(* The queries                                                             *)

Visible(w, i) ==
  IF w.filter.mine /\ w.kind \notin Lists
    THEN gif[i].uploader = w.viewer
    ELSE can_view(w.viewer, gif[i])

\* list_filters: the visibility clause and the exclusion of NSFW gifs.
Listed(w) ==
  {i \in Live : Visible(w, i) /\ (gif[i].flag = "sfw" \/ w.filter.grab_nsfw)}

\* hidden_clause
NotHidden(w) ==
  IF w.filter.grab_hidden THEN Live ELSE Live \ ToSet(list[w.viewer]["hidden"])

\* The pairs of s of which the first comes before the second.
Precedes(s) ==
  {p \in ToSet(s) \X ToSet(s) :
     \E m, n \in DOMAIN s : m < n /\ s[m] = p[1] /\ s[n] = p[2]}

\* The sequence of the elements of S that follows the order R.
InOrder(S, R) ==
  CHOOSE s \in SetToSeqs(S) :
    \A m, n \in DOMAIN s : m < n => <<s[m], s[n]>> \in R

\* The rows of s that are in T, in the order of s.
Kept(s, T) == InOrder(ToSet(s) \cap T, Precedes(s))

Newer(i, k) == <<k, i>> \in Precedes(uploaded)

\* a before b by the first key in which they differ.
Lexicographic(a, b) ==
  \E n \in DOMAIN a : a[n] > b[n] /\ \A m \in 1..(n - 1) : a[m] = b[m]

Key(w, i) ==
  CASE w.kind = "recent"   -> <<>>
    [] w.kind = "featured" -> <<gif[i].uses>>
    [] w.kind = "random"   -> <<-Shuffle[w.seed][i]>>
    [] w.kind = "search"   -> <<TagHits[i], gif[i].uses>>

\* ORDER BY the key, then uploaded_at.
Before(w, i, k) ==
  IF Key(w, i) = Key(w, k) THEN Newer(i, k)
                           ELSE Lexicographic(Key(w, i), Key(w, k))

\* recent, featured, the shuffle and the matches of the tags.
Sorted(w) ==
  LET S == {i \in Listed(w) \cap NotHidden(w) :
              w.kind = "search" => TagHits[i] > 0} IN
  InOrder(S, {p \in S \X S : Before(w, p[1], p[2])})

\* All rows of the query of walk w, before LIMIT and OFFSET.
Listing(w) ==
  IF w.kind \in Lists
    THEN Kept(list[w.viewer][w.kind], Listed(w))
    ELSE Sorted(w)

\* search_by_filename orders by rank and uses only: gifs that tie come in any
\* order, and not in the same one each time.
NameListings(w) ==
  LET S == {i \in Listed(w) \cap NotHidden(w) : NameRank[i] > 0}
      K(i) == <<NameRank[i], gif[i].uses>> IN
  {s \in SetToSeqs(S) :
     \A m, n \in DOMAIN s : m < n => ~ Lexicographic(K(s[n]), K(s[m]))}

Window(s, limit, offset) ==
  SubSeq(s, offset + 1, Min({offset + limit, Len(s)}))

-----------------------------------------------------------------------------
(* Cursors: an offset, or a seed and an offset.  None is as good as an      *)
(* offset of 0.                                                            *)

encode_offset(n) == [seed |-> NoSeed, offset |-> n]

encode_seeded_offset(s, n) == [seed |-> s, offset |-> n]

\* A seeded cursor does not parse as a number.
decode_offset(pos) == IF pos.seed = NoSeed THEN pos.offset ELSE 0

\* Mutant: every random page is shuffled anew.
decode_seeded_offsetForgetsSeed(pos) == {<<s, pos.offset>> : s \in Seeds}

\* A bare offset, or none: the first page, with a fresh seed.
decode_seeded_offset(pos) ==
  IF pos.seed = NoSeed THEN {<<s, 0>> : s \in Seeds}
                       ELSE {<<pos.seed, pos.offset>>}

Decode(w) ==
  IF w.kind = "random" THEN decode_seeded_offset(w.pos)
                       ELSE {<<NoSeed, decode_offset(w.pos)>>}

\* Mutant: the next page begins with the last row of this one.
NextCursorRepeatsOne(w, offset) ==
  IF w.kind = "random" THEN encode_seeded_offset(w.seed, offset + w.limit - 1)
                       ELSE encode_offset(offset + w.limit - 1)

NextCursor(w, offset) ==
  IF w.kind = "random" THEN encode_seeded_offset(w.seed, offset + w.limit)
                       ELSE encode_offset(offset + w.limit)

-----------------------------------------------------------------------------
(* A walk.  What the listing was on the first page (first) and on the last *)
(* one (last), in the shuffle of the first one, and how it changed from    *)
(* page to page (grew, shrank, moved) are history.                         *)

Walks ==
  [kind : AllKinds, viewer : Users, filter : Filters, limit : 1..MaxLimit,
   seed : Seeds \cup {NoSeed}, pos : [seed : Seeds \cup {NoSeed}, offset : Nat],
   at : {"first", "page", "names", "done"}, page : Seq(Ids), offset : Nat,
   shown : Seq(Ids), shuffle : Seeds \cup {NoSeed},
   first : Seq(Ids), last : Seq(Ids),
   grew : BOOLEAN, shrank : BOOLEAN, moved : BOOLEAN]

TypeOK == AccessTypeOK /\ walk \in [Walkers -> Walks \cup {NoWalk}]

StartWalk(x) ==
  /\ walk[x] = NoWalk
  /\ \E k \in AllKinds, f \in Filters, n \in Limits :
       walk' = [walk EXCEPT ![x] =
         [kind |-> k, viewer |-> x, filter |-> f, limit |-> Min({n, MaxLimit}),
          seed |-> NoSeed, pos |-> encode_offset(0), at |-> "first",
          page |-> <<>>, offset |-> 0, shown |-> <<>>, shuffle |-> NoSeed,
          first |-> <<>>, last |-> <<>>,
          grew |-> FALSE, shrank |-> FALSE, moved |-> FALSE]]
  /\ UNCHANGED accessVars

\* The gifs of s that are also in t, in the order of s.
Common(s, t) == Kept(s, ToSet(t))

\* What walk w, whose query has the given rows, remembers of its listing, in
\* the order of the first page.
Look(w, rows) ==
  IF w.at = "first"
    THEN [w EXCEPT !.shuffle = w.seed, !.first = rows, !.last = rows]
    ELSE LET now == IF w.seed = w.shuffle
                      THEN rows ELSE Listing([w EXCEPT !.seed = w.shuffle]) IN
         [w EXCEPT !.last = now,
            !.grew = @ \/ ~ ToSet(now) \subseteq ToSet(w.last),
            !.shrank = @ \/ ~ ToSet(w.last) \subseteq ToSet(now),
            !.moved = @ \/ Common(w.last, now) # Common(now, w.last)]

\* Mutant: a full page is taken for the last one.
DeliverStopsEarly(w, rows) ==
  [w EXCEPT !.page = rows, !.shown = @ \o rows, !.pos = NextCursor(w, w.offset),
            !.at = IF Len(rows) > w.limit THEN "page" ELSE "done"]

\* The answer: there is a next page if this one is full.
Deliver(w, rows) ==
  [w EXCEPT !.page = rows, !.shown = @ \o rows, !.pos = NextCursor(w, w.offset),
            !.at = IF Len(rows) = w.limit THEN "page" ELSE "done"]

\* recent, featured, list and, of search, the query by tags.
QueryPage(x) ==
  /\ walk[x] # NoWalk /\ walk[x].at \in {"first", "page"}
  /\ \E d \in Decode(walk[x]) :
       LET asked == [walk[x] EXCEPT !.seed = d[1], !.offset = d[2]]
           all == Listing(asked)
           w == Look(asked, all)
           rows == Window(all, w.limit, w.offset) IN
       walk' = [walk EXCEPT ![x] =
         IF w.kind = "search" /\ Len(rows) < w.limit
           THEN [w EXCEPT !.page = rows, !.at = "names"]
           ELSE Deliver(w, rows)]
  /\ UNCHANGED accessVars

\* Mutant: a gif found by tag and by name is listed twice.
UnseenEverything(w, names) == names

\* The rows of the second query that the first did not return.
Unseen(w, names) == Kept(names, Ids \ ToSet(w.page))

\* search: a short page is filled up by file name, with the same offset.
QueryNames(x) ==
  /\ walk[x] # NoWalk /\ walk[x].at = "names"
  /\ \E names \in NameListings(walk[x]) :
       LET w == walk[x]
           rows == w.page \o Unseen(w, Window(names, w.limit, w.offset)) IN
       walk' = [walk EXCEPT ![x] = Deliver(w, Window(rows, w.limit, 0))]
  /\ UNCHANGED accessVars

Walk(x) ==
  \/ StartWalk(x)
  \/ QueryPage(x)
  \/ QueryNames(x)

Next ==
  \/ AccessNext /\ UNCHANGED walk
  \/ \E x \in Walkers : Walk(x)

-----------------------------------------------------------------------------
Walking(x) == walk[x] # NoWalk /\ walk[x].at # "first"

\* A walk through a listing that did not change shows the listing: every gif
\* once, in order, in random order too ("carried in `pos` so paging stays
\* stable", models.rs:86-87).
WalkIsListing ==
  \A x \in Walkers :
    LET w == walk[x] IN
      Walking(x) /\ w.kind # "search" /\ w.at = "done"
          /\ ~ w.grew /\ ~ w.shrank /\ ~ w.moved =>
        w.shown = w.first

\* Gifs that disappear during a walk (deleted, hidden, turned private) never
\* make it show a gif again; only new and reordered ones can.
NothingTwice ==
  \A x \in Walkers :
    LET w == walk[x] IN
      Walking(x) /\ w.kind # "search" /\ ~ w.grew /\ ~ w.moved =>
        IsInjective(w.shown)

\* Gifs that appear during a walk never make it miss one of those that were
\* there; only vanished and reordered ones can.  A search keeps this promise
\* for the gifs that its tags match.
NothingMissed ==
  \A x \in Walkers :
    LET w == walk[x] IN
      Walking(x) /\ w.at = "done" /\ ~ w.shrank /\ ~ w.moved =>
        ToSet(w.first) \subseteq ToSet(w.shown)

\* No page has a gif twice, although a page of search comes from two queries
\* between which anything may happen (search.rs:70-78).
PagesAreSets ==
  \A x \in Walkers : Walking(x) => IsInjective(walk[x].page)
=============================================================================
