------------------------------- MODULE MCTags -------------------------------
(***************************************************************************)
(* Small instances of Tags: two tags that are there or not, and requests   *)
(* that name at most two, so that lists can be empty, repeat a tag, or     *)
(* name the same tags in the opposite order.                               *)
(***************************************************************************)
EXTENDS Tags, TLC

Dropping == {"drop"}
Symmetric == Permutations(Requests) \cup Permutations(TagNames)
=============================================================================
