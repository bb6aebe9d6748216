----------------------------- MODULE MCQuotaTx -----------------------------
(***************************************************************************)
(* A small instance of QuotaTx.  Three contents of 1, 2 and 3 bytes against *)
(* caps of 4 and 3 bytes: two gifs can fill a cap exactly, a replacement   *)
(* can free what it needs, and every check can fail.                       *)
(***************************************************************************)
EXTENDS QuotaTx, TLC

CONSTANTS c1, c2, c3

MCContents == {c1, c2, c3}
MCSize == c1 :> 1 @@ c2 :> 2 @@ c3 :> 3
=============================================================================
