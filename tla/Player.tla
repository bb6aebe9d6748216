------------------------------- MODULE Player -------------------------------
(***************************************************************************)
(* What a GIF shows (GIF89a): the frames of a stream are painted one after *)
(* the other over a base picture.  Clear pixels of a frame, and those that *)
(* fall outside the canvas, leave the base as it is.  The frame also says  *)
(* what the next one is painted over.                                      *)
(***************************************************************************)
EXTENDS Naturals, Sequences

CONSTANT Clear  \* the transparent colour

VARIABLES
  stream,       \* the canvas, and frames: coloured pixels and a disposal method
  base,         \* the picture under the next frame
  shown         \* the pictures that have been shown

vars == <<stream, base, shown>>

Blank(s) == [p \in s.canvas |-> Clear]

\* Picture under, with frame f painted over it.
Painted(under, f) ==
  [p \in DOMAIN under |->
     IF p \in DOMAIN f.pixels /\ f.pixels[p] # Clear THEN f.pixels[p]
                                                     ELSE under[p]]

Disposed(under, f) ==
  CASE f.dispose = "previous"   -> under
    [] f.dispose = "background" ->
         [p \in DOMAIN under |-> IF p \in DOMAIN f.pixels THEN Clear
                                                          ELSE under[p]]
    [] OTHER                    -> Painted(under, f)

Init == base = Blank(stream) /\ shown = <<>>

Show ==
  /\ Len(shown) < Len(stream.frames)
  /\ LET f == stream.frames[Len(shown) + 1] IN
     /\ shown' = Append(shown, Painted(base, f))
     /\ base' = Disposed(base, f)
  /\ UNCHANGED stream

Spec == Init /\ [][Show]_vars

\* All pictures of stream s.
Pictures(s) ==
  LET under[n \in 1..(Len(s.frames) + 1)] ==
        IF n = 1 THEN Blank(s) ELSE Disposed(under[n - 1], s.frames[n - 1]) IN
  [n \in 1..Len(s.frames) |-> Painted(under[n], s.frames[n])]
=============================================================================
