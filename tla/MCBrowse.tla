------------------------------ MODULE MCBrowse ------------------------------
(***************************************************************************)
(* A small instance of Browse.  The server is started over one of three    *)
(* catalogues: three gifs of which two tie in the ranking and two are the  *)
(* viewer's; two, and room for an upload, with lists of the viewer;        *)
(* private and NSFW gifs.                                                  *)
(* All gifs have names that match a search, two have tags that do.         *)
(***************************************************************************)
EXTENDS Browse

CONSTANTS g1, g2, g3, u1, u2, s1, s2

Gif(u, v, f, n) == [uploader |-> u, visibility |-> v, flag |-> f, uses |-> n,
                  revision |-> 0]
Shared(n) == Gif(u1, "shared", "sfw", n)
Viewers(n) == Gif(u2, "shared", "sfw", n)

Plain == g1 :> Shared(1) @@ g2 :> Viewers(0) @@ g3 :> Viewers(1)
Two   == g1 :> Shared(0) @@ g2 :> Shared(1) @@ g3 :> NoGif
Mixed == g1 :> Shared(0) @@ g2 :> Gif(u1, "private", "sfw", 1)
           @@ g3 :> Gif(u2, "shared", "nsfw", 0)

NoLists == [u \in Users |-> [l \in Lists |-> <<>>]]
SomeLists == [u \in Users |-> [l \in Lists |->
                IF u = u2 /\ l # "hidden" THEN <<g2, g1>> ELSE <<>>]]

Init ==
  /\ \/ AccessInit(Plain, <<g1, g2, g3>>, NoLists)
     \/ AccessInit(Two, <<g2, g1>>, SomeLists)
     \/ AccessInit(Mixed, <<g1, g2, g3>>, NoLists)
  /\ walk = [x \in Walkers |-> NoWalk]

Spec == Init /\ [][Next]_vars

MCIds == {g1, g2, g3}
MCUsers == {u1, u2}
MCAdmins == {u2}
MCPatches == {[visibility |-> "private", flag |-> "keep"],
              [visibility |-> "keep", flag |-> "nsfw"],
              [visibility |-> "shared", flag |-> "sfw"]}
MCWalkers == {u2}
MCSeeds == {s1, s2}
MCShuffle == s1 :> (g1 :> 1 @@ g2 :> 2 @@ g3 :> 3)
               @@ s2 :> (g1 :> 3 @@ g2 :> 1 @@ g3 :> 2)
MCTagHits == g1 :> 1 @@ g2 :> 2 @@ g3 :> 0
MCNameRank == g1 :> 1 @@ g2 :> 1 @@ g3 :> 1
MCFilters == {[mine |-> FALSE, grab_nsfw |-> FALSE, grab_hidden |-> FALSE],
              [mine |-> TRUE, grab_nsfw |-> TRUE, grab_hidden |-> TRUE]}

SameRequests == Permutations(Requests)
=============================================================================
