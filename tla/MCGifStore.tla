----------------------------- MODULE MCGifStore -----------------------------
(***************************************************************************)
(* Small instances of GifStore: one uploader, whose contents all fit, two  *)
(* renditions per gif.  Refusals by the caps are covered by Refuse.        *)
(***************************************************************************)
EXTENDS GifStore, TLC

MCSize == [c \in Contents |-> NFiles]

NoFaults == {}
DiskBroken == {"write", "unlink"}
Everything == AllFaults

Symmetric == Permutations(Requests) \cup Permutations(Ids)
               \cup Permutations(Contents)
=============================================================================
