---------------------------- MODULE MCSelections ----------------------------
(***************************************************************************)
(* Small instances of Selections: a day of three ticks, a statement of at  *)
(* most one, and a clock that runs long enough for three selections of one *)
(* user to count.                                                          *)
(***************************************************************************)
EXTENDS Selections, TLC

Dropping == {"drop"}
Symmetric == Permutations(Requests) \cup Permutations(Users)
=============================================================================
