------------------------------ MODULE MCCodec ------------------------------
(***************************************************************************)
(* Small files for Codec: every file of up to three frames, of these, on a *)
(* canvas of two pixels; and files at and beyond each limit, without a     *)
(* pixel, or with frames that are larger than their canvas.                *)
(***************************************************************************)
EXTENDS Codec

CONSTANTS red, blue

Frame(left, w, h, column, dispose) ==
  [left |-> left, top |-> 0, width |-> w, height |-> h, dispose |-> dispose,
   buffer |-> [p \in Grid(w, h) |-> column[p[1] + 1]]]

\* Frames of the whole canvas, of one side of it, and one that overhangs.
Some ==
  UNION {
    {Frame(0, 2, 1, c, d) :
        c \in {<<red, blue>>, <<red, Clear>>, <<Clear, blue>>}}
      \cup {Frame(0, 1, 1, <<c>>, d) : c \in {red, blue, Clear}}
      \cup {Frame(1, 2, 1, <<c, red>>, d) : c \in {blue, Clear}} :
    d \in Disposals}

File(w, h, s) == [width |-> w, height |-> h, frames |-> s]

Whole(w, h) == Frame(0, w, h, [n \in 1..w |-> red], "keep")

Still(w, h, count) == File(w, h, [n \in 1..count |-> Whole(w, h)])

MCGifs ==
  {File(2, 1, s) : s \in UNION {[1..n -> Some] : n \in 1..3}}
    \cup {Still(w, h, n) : w \in 0..4, h \in 0..4, n \in 0..4}
    \cup {File(1, 1, [n \in 1..k |-> Whole(3, 3)]) : k \in 1..4}
    \cup {File(3, 3, <<Frame(1, 1, 2, <<blue>>, "keep"), Whole(3, 3)>>)}
=============================================================================
