------------------------------ MODULE MCBackup ------------------------------
(***************************************************************************)
(* A small instance of Backup.                                             *)
(***************************************************************************)
EXTENDS Backup, TLC

MCSize == [c \in Contents |-> NFiles]

Stopping == {"crash"}

Symmetric == Permutations(Requests) \cup Permutations(Contents)
               \cup Permutations(Ids)
=============================================================================
