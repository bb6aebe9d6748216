---------------------------- MODULE CodecProofs ----------------------------
(***************************************************************************)
(* The preview of a GIF is made within its limits and shows the pictures   *)
(* that a player shows, for any files and any limits.                      *)
(*                                                                         *)
(* The argument: nothing is composited before the totals have been         *)
(* checked, and resize_gif then reads no more frames than were counted;    *)
(* each frame is decoded once by each reader.  The canvas under the next   *)
(* frame is the base picture of the player: the saved one is only ever     *)
(* used after it was saved for the same frame.  The pictures of a stream   *)
(* are a recursive function; each frame that is composited extends by one  *)
(* a function that satisfies its equation, for the file and for the        *)
(* preview, so that both are known when the preview is done.               *)
(***************************************************************************)
EXTENDS Codec, WellFoundedInduction, TLAPS

\* The file is past the check of its dimensions.
InLimits == at \notin {"header", "refused"}

\* Its preview is made.
Encoded == at \in {"thumbnail", "failed", "done"}

LimitInv ==
  /\ InLimits => gif.width <= MaxDimension /\ gif.height <= MaxDimension
  /\ frame_count > 0 =>
       gif.width <= MaxDimension /\ gif.height <= MaxDimension
  /\ Checked => /\ frame_count = Len(gif.frames) /\ frame_count > 0
                /\ TotalPixels <= MaxPixels

FrameInv ==
  /\ frame_count <= Len(gif.frames)
  /\ Len(frames) <= Len(gif.frames)
  /\ ~ Checked => frames = <<>>
  /\ Encoded => /\ Len(frames) = Len(gif.frames)
                /\ preview = Size(gif.width, gif.height)
  /\ at = "done" => thumb = ThumbnailSize
  /\ at = "failed" => 0 \in {ThumbnailSize[1], ThumbnailSize[2]}

IInv == gif \in Gifs /\ TypeOK /\ LimitInv /\ FrameInv

-----------------------------------------------------------------------------
\* A file is a header with a canvas and a sequence of frames.
LEMMA GifFacts ==
  ASSUME gif \in Gifs
  PROVE  /\ gif.width \in Nat /\ gif.height \in Nat
         /\ Len(gif.frames) \in Nat
         /\ DOMAIN gif.frames = 1..Len(gif.frames)
         /\ \A n \in 1..Len(gif.frames) :
              LET f == gif.frames[n] IN
              /\ f.left \in Nat /\ f.top \in Nat
              /\ f.width \in Nat /\ f.height \in Nat
              /\ DOMAIN f.buffer = Grid(f.width, f.height)
              /\ f.dispose \in Disposals
  BY CodecAssumption

\* A frame has a number of pixels.
LEMMA AreaFacts ==
  ASSUME gif \in Gifs, NEW n \in Nat, n < Len(gif.frames)
  PROVE  /\ Area(gif.frames[n + 1]) \in Nat
         /\ FramesFit => Area(gif.frames[n + 1]) <= gif.width * gif.height
<1>1. n + 1 \in 1..Len(gif.frames)
  BY GifFacts
<1>2. gif.frames[n + 1].width \in Nat /\ gif.frames[n + 1].height \in Nat
  BY <1>1, GifFacts
<1>3. n + 1 \in DOMAIN gif.frames
  BY <1>1, GifFacts
<1> QED
  BY <1>2, <1>3 DEF Area, FramesFit

\* Rounding down makes nothing larger.
LEMMA RoundedDown ==
  ASSUME NEW h \in Nat, NEW m \in Nat, NEW w \in Nat \ {0}, m <= w
  PROVE  (h * m) \div w \in Nat /\ (h * m) \div w <= h
<1> DEFINE q == (h * m) \div w
           d == w - m
<1>1. /\ h * m \in Nat /\ h * w \in Nat
      /\ d \in Nat /\ w = m + d
  OBVIOUS
<1>2. q \in Nat /\ q * w <= h * m
  BY <1>1
<1>3. h * m + h * d = h * w /\ h * d \in Nat
  <2> HIDE DEF d
  <2> QED
    BY <1>1
<1> HIDE DEF q, d
<1>4. q * w <= h * w
  BY <1>1, <1>2, <1>3
<1>5. ASSUME q > h PROVE FALSE
  <2>1. PICK e \in Nat : q = h + 1 + e
    <3>1. q - (h + 1) \in Nat /\ q = h + 1 + (q - (h + 1))
      BY <1>2, <1>5
    <3> QED
      BY <3>1
  <2>2. q * w = h * w + w + e * w /\ e * w \in Nat
    BY <2>1
  <2> QED
    BY <1>1, <1>4, <2>2
<1> QED
  BY <1>2, <1>5 DEF q

\* What a file within the limits is resized to is within the limits.
LEMMA SizeInLimits ==
  ASSUME NEW w \in Nat, NEW h \in Nat,
         w <= MaxDimension, h <= MaxDimension
  PROVE  Size(w, h) \in (0..MaxDimension) \X (0..MaxDimension)
<1>1. CASE w <= MaxWidth
  BY <1>1, CodecAssumption DEF Size
<1>2. CASE ~ (w <= MaxWidth)
  <2>1. /\ MaxWidth \in Nat /\ MaxWidth <= w /\ MaxDimension \in Nat
        /\ w \in Nat \ {0}
    BY <1>2, CodecAssumption
  <2>2. (h * MaxWidth) \div w \in Nat /\ (h * MaxWidth) \div w <= h
    BY <2>1, RoundedDown
  <2>3. /\ (h * MaxWidth) \div w \in 0..MaxDimension
        /\ MaxWidth \in 0..MaxDimension
    BY <2>1, <2>2
  <2> QED
    BY <1>2, <2>3 DEF Size
<1> QED
  BY <1>1, <1>2

\* Where a frame covers the canvas, its buffer has a pixel of the file's.
LEMMA SourceIsColour ==
  ASSUME gif \in Gifs, canvas \in Pictures, NEW n \in 1..Len(gif.frames),
         NEW p \in Covered(gif.frames[n])
  PROVE  Source(gif.frames[n], p) \in Colours(gif)
<1> DEFINE f == gif.frames[n]
<1>1. /\ f.left \in Nat /\ f.top \in Nat
      /\ f.width \in Nat /\ f.height \in Nat
      /\ DOMAIN f.buffer = Grid(f.width, f.height)
  BY GifFacts
<1>2. /\ p \in Grid(gif.width, gif.height)
      /\ p[1] \in f.left..(f.left + f.width - 1)
      /\ p[2] \in f.top..(f.top + f.height - 1)
  BY DEF Covered, Pictures
<1>3. /\ p[1] - f.left \in 0..(f.width - 1)
      /\ p[2] - f.top \in 0..(f.height - 1)
  <2>1. \A i, j, k : j \in Nat /\ k \in Nat /\ i \in j..(j + k - 1) =>
          i - j \in 0..(k - 1)
    OBVIOUS
  <2> HIDE DEF f
  <2> QED
    BY <1>1, <1>2, <2>1
<1>4. <<p[1] - f.left, p[2] - f.top>> \in DOMAIN f.buffer
  BY <1>1, <1>3 DEF Grid
<1>5. f \in {gif.frames[m] : m \in 1..Len(gif.frames)}
  OBVIOUS
<1>6. Source(f, p) \in {f.buffer[q] : q \in DOMAIN f.buffer}
  BY <1>4 DEF Source
<1> HIDE DEF f
<1> QED
  BY <1>5, <1>6 DEF Colours, f

\* A blitted frame is a picture, and so is what it leaves behind.
LEMMA PicturesStay ==
  ASSUME gif \in Gifs, canvas \in Pictures, NEW n \in 1..Len(gif.frames)
  PROVE  /\ Blit(gif.frames[n]) \in Pictures
         /\ \A saved \in Pictures :
              Dispose(gif.frames[n], Blit(gif.frames[n]), saved) \in Pictures
<1> DEFINE f == gif.frames[n]
<1>1. Clear \in Colours(gif)
  BY DEF Colours
<1>2. \A p \in DOMAIN canvas : canvas[p] \in Colours(gif)
  BY DEF Pictures
<1>3. \A p \in Covered(f) : Source(f, p) \in Colours(gif)
  BY SourceIsColour
<1>4. DOMAIN canvas = Grid(gif.width, gif.height)
  BY DEF Pictures
<1> HIDE DEF f
<1>5. Blit(f) \in Pictures
  BY <1>2, <1>3, <1>4 DEF Blit, Pictures
<1>6. ASSUME NEW picture \in Pictures
      PROVE  [p \in DOMAIN picture |->
                IF p \in Covered(f) THEN Clear ELSE picture[p]] \in Pictures
  BY <1>1 DEF Pictures
<1>7. \A saved \in Pictures : Dispose(f, Blit(f), saved) \in Pictures
  BY <1>5, <1>6 DEF Dispose
<1> QED
  BY <1>5, <1>7 DEF f

-----------------------------------------------------------------------------
\* An upload starts with the file, and nothing is known of it.
THEOREM InitIInv == Init => IInv
<1> SUFFICES ASSUME Init PROVE IInv
  OBVIOUS
<1>1. /\ gif \in Gifs /\ at = "header" /\ frame_count = 0 /\ decoded = 0
      /\ frames = <<>>
      /\ canvas = Blank /\ prev_canvas = Blank
      /\ preview = <<0, 0>> /\ thumb = <<0, 0>>
  BY DEF Init
<1>2. Blank \in Pictures
  BY DEF Blank, Pictures, Colours
<1>3. TypeOK
  BY <1>1, <1>2, CodecAssumption DEF TypeOK
<1>4. LimitInv /\ FrameInv
  BY <1>1, GifFacts
  DEF LimitInv, FrameInv, InLimits, Checked, Encoded
<1> QED
  BY <1>1, <1>3, <1>4 DEF IInv

\* The file stays what it is while it is processed, and its frames' pictures
\* those of its canvas.
LEMMA SameFile ==
  ASSUME gif' = gif
  PROVE  /\ (gif \in Gifs)' <=> gif \in Gifs
         /\ Pictures' = Pictures
  BY DEF Pictures, Colours

\* parse_gif_info refuses what is larger than the limits.
LEMMA ParseIInv ==
  ASSUME IInv, ReadHeader \/ CountFrame \/ CheckTotals
  PROVE  IInv'
<1>1. /\ gif \in Gifs /\ TypeOK /\ LimitInv /\ FrameInv
      /\ gif' = gif
      /\ UNCHANGED <<canvas, prev_canvas, frames, preview, thumb>>
      /\ at \in {"header", "parse"} /\ decoded' \in Nat
  <2>1. CASE CountFrame
    <3>1. /\ gif \in Gifs /\ frame_count \in Nat /\ decoded \in Nat
          /\ frame_count < Len(gif.frames)
      BY <2>1 DEF IInv, TypeOK, CountFrame
    <3>2. Area(gif.frames[frame_count + 1]) \in Nat
      BY <3>1, AreaFacts
    <3>3. decoded' \in Nat
      BY <2>1, <3>1, <3>2 DEF CountFrame, Decode
    <3> QED
      BY <2>1, <3>3 DEF IInv, CountFrame
  <2>2. CASE ~ CountFrame
    BY <2>2 DEF IInv, TypeOK, ReadHeader, CheckTotals
  <2> QED
    BY <2>1, <2>2
<1>2. /\ frame_count \in Nat /\ MaxFrames \in Nat /\ MaxDimension \in Nat
      /\ MaxPixels \in Nat /\ frame_count <= MaxFrames
      /\ Len(gif.frames) \in Nat
  BY <1>1, CodecAssumption DEF TypeOK
<1>3. frames = <<>> /\ Len(frames) = 0
  BY <1>1 DEF FrameInv, Checked
<1>4. CASE ReadHeader
  <2>1. /\ at = "header" /\ frame_count' = frame_count
        /\ \/ at' = "refused"
           \/ /\ at' = "parse" /\ gif.width <= MaxDimension
              /\ gif.height <= MaxDimension
    BY <1>1, <1>4, GifFacts, CodecAssumption DEF ReadHeader, Refuse
  <2>2. TypeOK'
    BY <1>1, <1>2, <2>1, SameFile DEF TypeOK
  <2>3. LimitInv' /\ FrameInv'
    BY <1>1, <1>3, <2>1
    DEF LimitInv, FrameInv, InLimits, Checked, Encoded
  <2> QED
    BY <1>1, <2>2, <2>3 DEF IInv
<1>5. CASE CountFrame
  <2>1. /\ at = "parse" /\ frame_count < Len(gif.frames)
        /\ frame_count' = frame_count + 1
        /\ \/ at' = "refused"
           \/ at' = "parse" /\ frame_count' <= MaxFrames
    BY <1>2, <1>5 DEF CountFrame
  <2>2. frame_count' > MaxFrames => at' = "refused"
    BY <1>2, <2>1
  <2>3. TypeOK'
    BY <1>1, <1>2, <2>1, <2>2, SameFile DEF TypeOK
  <2>4. LimitInv'
    BY <1>1, <2>1 DEF LimitInv, InLimits, Checked
  <2>5. FrameInv'
    BY <1>1, <1>2, <1>3, <2>1 DEF FrameInv, Checked, Encoded
  <2> QED
    BY <1>1, <2>3, <2>4, <2>5 DEF IInv
<1>6. CASE CheckTotals
  <2>1. /\ at = "parse" /\ frame_count = Len(gif.frames)
        /\ frame_count' = frame_count
        /\ \/ at' = "refused"
           \/ /\ at' = "resize" /\ ~ (TotalPixels > MaxPixels)
              /\ frame_count # 0
    BY <1>6 DEF CheckTotals, Refuse
  <2>2. TotalPixels \in Nat /\ TotalPixels' = TotalPixels
    BY <1>1, <1>2, <2>1, GifFacts DEF TotalPixels
  <2>3. TypeOK'
    BY <1>1, <1>2, <2>1, SameFile DEF TypeOK
  <2>4. LimitInv'
    BY <1>1, <1>2, <2>1, <2>2 DEF LimitInv, InLimits, Checked
  <2>5. FrameInv'
    BY <1>1, <1>3, <2>1 DEF FrameInv, Checked, Encoded
  <2> QED
    BY <1>1, <2>3, <2>4, <2>5 DEF IInv
<1> QED
  BY <1>4, <1>5, <1>6

\* A frame that resize_gif reads is one of those that were counted.
LEMMA ResizeIInv ==
  ASSUME IInv, ResizeFrame
  PROVE  IInv'
<1> DEFINE n == Len(frames) + 1
           f == gif.frames[n]
<1>1. /\ gif \in Gifs /\ TypeOK /\ LimitInv /\ FrameInv
      /\ at = "resize" /\ Len(frames) < Len(gif.frames)
      /\ prev_canvas' = IF f.dispose = "previous" THEN canvas ELSE prev_canvas
      /\ frames' = Append(frames, Blit(f))
      /\ canvas' = Dispose(f, Blit(f), prev_canvas')
      /\ UNCHANGED <<gif, at, frame_count, preview, thumb>>
      /\ decoded' = decoded + Area(f)
  BY DEF IInv, ResizeFrame, Decode
<1>2. /\ canvas \in Pictures /\ prev_canvas \in Pictures
      /\ frames \in Seq(Pictures)
      /\ Len(frames) \in Nat /\ Len(gif.frames) \in Nat
      /\ n \in 1..Len(gif.frames)
      /\ decoded \in Nat
  BY <1>1, GifFacts DEF TypeOK
<1>8. decoded' \in Nat
  <2>1. Area(f) \in Nat
    BY <1>1, <1>2, AreaFacts
  <2> QED
    BY <1>1, <1>2, <2>1
<1>3. /\ Blit(f) \in Pictures
      /\ \A saved \in Pictures : Dispose(f, Blit(f), saved) \in Pictures
  BY <1>1, <1>2, PicturesStay
<1> HIDE DEF f
<1>4. /\ prev_canvas' \in Pictures /\ canvas' \in Pictures
      /\ frames' \in Seq(Pictures) /\ Len(frames') = n
  BY <1>1, <1>2, <1>3
<1>5. TypeOK'
  BY <1>1, <1>4, <1>8, SameFile DEF TypeOK
<1>6. LimitInv'
  BY <1>1 DEF LimitInv, InLimits, Checked, TotalPixels
<1>7. FrameInv'
  BY <1>1, <1>2, <1>4 DEF FrameInv, Checked, Encoded
<1> QED
  BY <1>1, <1>5, <1>6, <1>7 DEF IInv

\* The dimensions of the preview and of the thumbnail are worked out alike.
LEMMA EncodeIInv ==
  ASSUME IInv, EncodePreview \/ ExtractThumbnail
  PROVE  IInv'
<1> DEFINE size == Size(gif.width, gif.height)
<1>1. /\ gif \in Gifs /\ TypeOK /\ LimitInv /\ FrameInv
      /\ UNCHANGED <<gif, frame_count, canvas, prev_canvas, frames>>
      /\ \/ /\ at = "resize" /\ Len(frames) = Len(gif.frames)
            /\ at' = "thumbnail" /\ preview' = size /\ thumb' = thumb
            /\ decoded' = decoded
         \/ /\ at = "thumbnail" /\ preview' = preview
            /\ decoded' = decoded + Area(gif.frames[1])
            /\ \/ /\ at' = "failed" /\ thumb' = thumb
                  /\ 0 \in {ThumbnailSize[1], ThumbnailSize[2]}
               \/ at' = "done" /\ thumb' = ThumbnailSize
  BY DEF IInv, EncodePreview, ExtractThumbnail, Decode
<1>2. size \in (0..MaxDimension) \X (0..MaxDimension)
  BY <1>1, GifFacts, SizeInLimits DEF LimitInv, InLimits
<1>3. /\ size' = size /\ ThumbnailSize = size
      /\ ThumbnailSize' = ThumbnailSize
  BY <1>1 DEF Size, ThumbnailSize
<1>7. decoded' \in Nat
  <2>1. /\ frame_count \in Nat /\ Len(gif.frames) \in Nat /\ decoded \in Nat
        /\ 0 < Len(gif.frames)
    BY <1>1, GifFacts DEF TypeOK, LimitInv, Checked
  <2>2. Area(gif.frames[0 + 1]) \in Nat
    BY <1>1, <2>1, AreaFacts
  <2> QED
    BY <1>1, <2>1, <2>2
<1> HIDE DEF size
<1>4. TypeOK'
  <2>1. /\ at' \in {"thumbnail", "failed", "done"} /\ at # "refused"
        /\ preview' \in {preview, size} /\ thumb' \in {thumb, size}
    BY <1>1, <1>3
  <2> QED
    BY <1>1, <1>2, <1>7, <2>1, SameFile DEF TypeOK
<1>5. LimitInv'
  BY <1>1 DEF LimitInv, InLimits, Checked, TotalPixels
<1>6. FrameInv'
  BY <1>1, <1>3 DEF FrameInv, Checked, Encoded, size
<1> QED
  BY <1>1, <1>4, <1>5, <1>6 DEF IInv

\* Every step of an upload preserves the invariant.
THEOREM NextIInv == IInv /\ [Next]_vars => IInv'
<1> SUFFICES ASSUME IInv, [Next]_vars PROVE IInv'
  OBVIOUS
<1>1. CASE ReadHeader \/ CountFrame \/ CheckTotals
  BY <1>1, ParseIInv
<1>2. CASE ResizeFrame
  BY <1>2, ResizeIInv
<1>3. CASE EncodePreview \/ ExtractThumbnail
  BY <1>3, EncodeIInv
<1>4. CASE UNCHANGED vars
  BY <1>4, SameFile
  DEF vars, IInv, TypeOK, LimitInv, FrameInv, InLimits, Checked, Encoded,
      TotalPixels, Size, ThumbnailSize
<1> QED
  BY <1>1, <1>2, <1>3, <1>4 DEF Next

\* The inductive invariant holds in every state.
THEOREM SpecIInv == Spec => []IInv
  BY InitIInv, NextIInv, PTL DEF Spec

\* Every state has its type: what is blitted is a picture of the canvas in
\* colours of the file, whatever overhangs, and no more than MAX_FRAMES frames
\* are accepted.
THEOREM SpecTypeOK == Spec => []TypeOK
<1>1. IInv => TypeOK
  BY DEF IInv
<1> QED
  BY <1>1, SpecIInv, PTL

\* Multiplication preserves the order.
LEMMA Times ==
  ASSUME NEW x \in Nat, NEW y \in Nat, NEW a \in Nat, x <= y
  PROVE  x * a \in Nat /\ y * a \in Nat /\ x * a <= y * a
<1>1. PICK d \in Nat : y = x + d
  <2>1. y - x \in Nat /\ y = x + (y - x)
    OBVIOUS
  <2> QED
    BY <2>1
<1>2. y * a = x * a + d * a
  BY <1>1
<1>3. x * a \in Nat /\ d * a \in Nat
  BY <1>1
<1> QED
  BY <1>2, <1>3

\* Frames that were decoded so far, by all readers.
Reads ==
  frame_count + Len(frames) + (IF at \in {"failed", "done"} THEN 1 ELSE 0)

DecodeInv == FramesFit => decoded <= Reads * (gif.width * gif.height)

\* One more frame that fits the canvas.
LEMMA OneMore ==
  ASSUME NEW d \in Nat, NEW k \in Nat, NEW a \in Nat, NEW x \in Nat,
         d <= k * a, x <= a
  PROVE  d + x <= (k + 1) * a
<1>1. (k + 1) * a = k * a + a /\ k * a \in Nat
  OBVIOUS
<1> QED
  BY <1>1

\* Each reader decodes a frame in the step in which it goes on to the next.
LEMMA NextDecodeInv == IInv /\ DecodeInv /\ [Next]_vars => DecodeInv'
<1> SUFFICES ASSUME IInv, DecodeInv, [Next]_vars, FramesFit' PROVE DecodeInv'
  BY DEF DecodeInv
<1> DEFINE a == gif.width * gif.height
<1>1. /\ gif \in Gifs /\ gif' = gif /\ TypeOK /\ LimitInv /\ FrameInv
  BY DEF IInv, Next, vars, ReadHeader, CountFrame, CheckTotals,
         ResizeFrame, EncodePreview, ExtractThumbnail
<1>2. /\ frame_count \in Nat /\ decoded \in Nat /\ Len(frames) \in Nat
      /\ Len(gif.frames) \in Nat /\ Reads \in Nat /\ a \in Nat /\ a' = a
  BY <1>1, GifFacts DEF TypeOK, Reads
<1>3. FramesFit /\ decoded <= Reads * a
  BY <1>1 DEF FramesFit, Area, DecodeInv
<1>4. ASSUME NEW n \in Nat, n < Len(gif.frames), Decode(gif.frames[n + 1]),
             Reads' = Reads + 1
      PROVE  DecodeInv'
  <2>1. /\ Area(gif.frames[n + 1]) \in Nat
        /\ Area(gif.frames[n + 1]) <= a
    BY <1>1, <1>3, <1>4, AreaFacts
  <2>2. decoded' = decoded + Area(gif.frames[n + 1])
    BY <1>4 DEF Decode
  <2> HIDE DEF a
  <2>3. decoded' <= (Reads + 1) * a
    BY <1>2, <1>3, <2>1, <2>2, OneMore
  <2>4. decoded' <= Reads' * a'
    BY <1>2, <1>4, <2>3
  <2> QED
    BY <2>4 DEF DecodeInv, a
<1>5. CASE CountFrame
  <2>1. /\ at = "parse" /\ frame_count < Len(gif.frames)
        /\ Decode(gif.frames[frame_count + 1])
        /\ frame_count' = frame_count + 1 /\ frames' = frames
        /\ at' \in {"refused", "parse"}
    BY <1>5 DEF CountFrame
  <2>2. Reads' = Reads + 1
    BY <1>2, <2>1 DEF Reads
  <2> QED
    BY <1>2, <1>4, <2>1, <2>2
<1>6. CASE ResizeFrame
  <2>1. /\ Len(frames) < Len(gif.frames)
        /\ Decode(gif.frames[Len(frames) + 1])
        /\ frames' = Append(frames, Blit(gif.frames[Len(frames) + 1]))
        /\ at' = at /\ frame_count' = frame_count
    BY <1>6 DEF ResizeFrame
  <2>2. Len(frames') = Len(frames) + 1
    BY <1>1, <2>1 DEF TypeOK
  <2>3. Reads' = Reads + 1
    BY <1>2, <2>1, <2>2 DEF Reads
  <2> QED
    BY <1>2, <1>4, <2>1, <2>3
<1>7. CASE ExtractThumbnail
  <2>1. /\ at = "thumbnail" /\ at' \in {"failed", "done"}
        /\ Decode(gif.frames[0 + 1])
        /\ frame_count' = frame_count /\ frames' = frames
    BY <1>7 DEF ExtractThumbnail
  <2>2. 0 < Len(gif.frames)
    BY <1>1, <1>2, <2>1 DEF LimitInv, Checked
  <2>3. Reads' = Reads + 1
    BY <1>2, <2>1 DEF Reads
  <2> QED
    BY <1>4, <2>1, <2>2, <2>3
<1>8. CASE ReadHeader \/ CheckTotals \/ EncodePreview \/ UNCHANGED vars
  <2>1. /\ decoded' = decoded /\ frames' = frames /\ frame_count' = frame_count
        /\ at' = at \/ {at, at'} \cap {"failed", "done"} = {}
    BY <1>8 DEF ReadHeader, Refuse, CheckTotals, EncodePreview, vars
  <2>2. Reads' = Reads
    BY <2>1 DEF Reads
  <2> QED
    BY <1>1, <1>3, <2>1, <2>2 DEF DecodeInv
<1> QED
  BY <1>5, <1>6, <1>7, <1>8 DEF Next

\* The composited frames that resize_gif keeps are within MAX_TOTAL_PIXELS, and
\* so is what each reader decodes if no frame is larger than its canvas.
THEOREM SpecWorkIsBounded == Spec => []WorkIsBounded
<1>1. Init => DecodeInv
  <2> SUFFICES ASSUME Init, FramesFit PROVE DecodeInv
    BY DEF DecodeInv
  <2>1. gif \in Gifs /\ decoded = 0 /\ Reads = 0
    BY DEF Init, Reads
  <2>2. gif.width * gif.height \in Nat
    BY <2>1, GifFacts
  <2> QED
    BY <2>1, <2>2 DEF DecodeInv
<1>2. ASSUME IInv, DecodeInv PROVE WorkIsBounded
  <2> DEFINE a == gif.width * gif.height
             c == frame_count
             n == Len(frames)
  <2>1. /\ gif.width \in Nat /\ gif.height \in Nat
        /\ MaxPixels \in Nat /\ MaxFrames \in Nat /\ MaxDimension \in Nat
        /\ n \in Nat /\ c \in Nat /\ decoded \in Nat
        /\ c <= MaxFrames + 1
        /\ LimitInv /\ FrameInv
    BY <1>2, GifFacts, CodecAssumption DEF IInv, TypeOK
  <2>2. a \in Nat /\ n * gif.width * gif.height = n * a
    BY <2>1
  <2>3. FramesFit => decoded <= Reads * a
    BY <1>2 DEF DecodeInv
  <2>4. CASE Checked
    <3>1. n <= c /\ 0 < c /\ a * c <= MaxPixels /\ a * c = c * a
      BY <2>1, <2>4 DEF LimitInv, FrameInv, TotalPixels
    <3>2. Reads \in Nat /\ Reads <= 3 * c
      BY <2>1, <3>1 DEF Reads
    <3> HIDE DEF a, c, n
    <3>3. /\ n * a \in Nat /\ c * a \in Nat /\ n * a <= c * a
          /\ Reads * a \in Nat /\ (3 * c) * a \in Nat /\ Reads * a <= (3 * c) * a
      BY <2>1, <2>2, <3>1, <3>2, Times
    <3>4. (3 * c) * a = 3 * (c * a)
      BY <2>1, <2>2
    <3>5. n * a <= MaxPixels /\ Reads * a <= 3 * MaxPixels
      BY <2>1, <3>1, <3>3, <3>4
    <3>6. FramesFit => decoded <= 3 * MaxPixels
      BY <2>1, <2>3, <3>3, <3>5
    <3> QED
      BY <2>2, <2>4, <3>5, <3>6 DEF WorkIsBounded, n
  <2>5. CASE ~ Checked
    <3>1. n = 0 /\ Reads = c
      BY <2>1, <2>5 DEF FrameInv, Checked, Reads
    <3>2. n * gif.width * gif.height = 0
      BY <2>1, <3>1
    <3>3. c * a <= (MaxFrames + 1) * MaxDimension * MaxDimension
      <4>1. CASE c = 0
        <5>1. c * a = 0
          BY <2>2, <4>1
        <5>2. (MaxFrames + 1) * MaxDimension * MaxDimension \in Nat
          BY <2>1
        <5> QED
          BY <5>1, <5>2
      <4>2. CASE c # 0
        <5>1. gif.width <= MaxDimension /\ gif.height <= MaxDimension
          BY <2>1, <4>2 DEF LimitInv
        <5>2. /\ gif.width * gif.height <= MaxDimension * gif.height
              /\ gif.height * MaxDimension <= MaxDimension * MaxDimension
          BY <2>1, <5>1, Times
        <5>3. gif.height * MaxDimension = MaxDimension * gif.height
          BY <2>1
        <5>4. a <= MaxDimension * MaxDimension /\ MaxDimension * MaxDimension \in Nat
          BY <2>1, <5>2, <5>3
        <5> HIDE DEF a, c
        <5>5. c * a <= (MaxFrames + 1) * a /\ c * a \in Nat
          BY <2>1, <2>2, Times
        <5>6. a * (MaxFrames + 1)
                <= (MaxDimension * MaxDimension) * (MaxFrames + 1)
          <6> DEFINE m == MaxDimension * MaxDimension
          <6>1. a <= m /\ m \in Nat /\ MaxFrames + 1 \in Nat
            BY <2>1, <5>4
          <6> HIDE DEF m
          <6>2. a * (MaxFrames + 1) <= m * (MaxFrames + 1)
            BY <2>2, <6>1, Times
          <6> QED
            BY <6>2 DEF m
        <5>7. /\ a * (MaxFrames + 1) = (MaxFrames + 1) * a
              /\ (MaxDimension * MaxDimension) * (MaxFrames + 1)
                   = (MaxFrames + 1) * MaxDimension * MaxDimension
              /\ (MaxFrames + 1) * a \in Nat
              /\ (MaxFrames + 1) * MaxDimension * MaxDimension \in Nat
          BY <2>1, <2>2, <5>4
        <5> QED
          BY <5>5, <5>6, <5>7
      <4> QED
        BY <4>1, <4>2
    <3>4. FramesFit =>
            decoded <= (MaxFrames + 1) * MaxDimension * MaxDimension
      <4>1. /\ c * a \in Nat
            /\ (MaxFrames + 1) * MaxDimension * MaxDimension \in Nat
        BY <2>1, <2>2
      <4>2. FramesFit => decoded <= c * a
        BY <2>3, <3>1
      <4> QED
        BY <2>1, <3>3, <4>1, <4>2
    <3> QED
      BY <2>1, <2>5, <3>2, <3>4 DEF WorkIsBounded
  <2> QED
    BY <2>4, <2>5
<1> QED
  BY <1>1, <1>2, SpecIInv, NextDecodeInv, PTL DEF Spec

\* The rows that upload writes agree with the files, of any size.
THEOREM SpecRowsDescribeFiles == Spec => []RowsDescribeFiles
<1>1. /\ Size(gif.width, gif.height) = PreviewRow
      /\ ThumbnailSize = PreviewRow
  BY DEF Size, ThumbnailSize, PreviewRow
<1>2. IInv => RowsDescribeFiles
  BY <1>1
  DEF IInv, LimitInv, FrameInv, Checked, Encoded, RowsDescribeFiles
<1> QED
  BY <1>1, <1>2, SpecIInv, PTL

-----------------------------------------------------------------------------
\* A frame covers the pixels of the canvas that it is placed on.
LEMMA PlacedCovers ==
  ASSUME canvas \in Pictures, NEW f
  PROVE  \A p \in DOMAIN canvas :
           /\ p \in DOMAIN Placed(f).pixels <=> p \in Covered(f)
           /\ p \in Covered(f) => Placed(f).pixels[p] = Source(f, p)
<1>1. \A p \in DOMAIN canvas : p = <<p[1], p[2]>>
  BY DEF Pictures, Grid
<1>2. DOMAIN Placed(f).pixels = (f.left..(f.left + f.width - 1))
                                  \X (f.top..(f.top + f.height - 1))
  BY DEF Placed
<1>3. \A p \in DOMAIN canvas :
        p \in DOMAIN Placed(f).pixels <=> p \in Covered(f)
  BY <1>1, <1>2 DEF Covered
<1>4. \A p \in DOMAIN Placed(f).pixels : Placed(f).pixels[p] = Source(f, p)
  BY <1>2 DEF Placed
<1> QED
  BY <1>3, <1>4

\* A frame is blitted and disposed of as a player paints and disposes of it.
LEMMA BlitPaints ==
  ASSUME canvas \in Pictures, NEW f, NEW saved,
         f.dispose = "previous" => saved = canvas
  PROVE  /\ Blit(f) = Playing!Painted(canvas, Placed(f))
         /\ Dispose(f, Blit(f), saved) = Playing!Disposed(canvas, Placed(f))
<1>1. Blit(f) = Playing!Painted(canvas, Placed(f))
  BY PlacedCovers DEF Blit, Playing!Painted
<1>2. Placed(f).dispose = f.dispose
  BY DEF Placed
<1>3. /\ DOMAIN Blit(f) = DOMAIN canvas
      /\ \A p \in DOMAIN canvas : p \notin Covered(f) => Blit(f)[p] = canvas[p]
  BY DEF Blit
<1>4. [p \in DOMAIN Blit(f) |-> IF p \in Covered(f) THEN Clear
                                                   ELSE Blit(f)[p]]
        = [p \in DOMAIN canvas |-> IF p \in DOMAIN Placed(f).pixels
                                     THEN Clear ELSE canvas[p]]
  BY <1>3, PlacedCovers
<1>5. CASE f.dispose = "background"
  <2>1. Dispose(f, Blit(f), saved) =
          [p \in DOMAIN Blit(f) |-> IF p \in Covered(f) THEN Clear
                                                        ELSE Blit(f)[p]]
    BY <1>5 DEF Dispose
  <2>2. Playing!Disposed(canvas, Placed(f)) =
          [p \in DOMAIN canvas |-> IF p \in DOMAIN Placed(f).pixels
                                     THEN Clear ELSE canvas[p]]
    BY <1>2, <1>5 DEF Playing!Disposed
  <2> QED
    BY <1>1, <1>4, <2>1, <2>2
<1>6. CASE f.dispose = "previous"
  <2>1. Dispose(f, Blit(f), saved) = saved
    BY <1>6 DEF Dispose
  <2>2. Playing!Disposed(canvas, Placed(f)) = canvas
    BY <1>2, <1>6 DEF Playing!Disposed
  <2> QED
    BY <1>1, <1>6, <2>1, <2>2
<1>7. CASE f.dispose \notin {"background", "previous"}
  BY <1>1, <1>2, <1>7 DEF Dispose, Playing!Disposed
<1> QED
  BY <1>1, <1>5, <1>6, <1>7

\* resize_gif shows the pictures of the file as a player of it does, "using
\* each frame's offset and disposal method" (mod.rs:70).
THEOREM SpecShowsEveryPicture == Spec => ShowsEveryPicture
<1>1. Init => Playing!Init
  <2> SUFFICES ASSUME Init PROVE Playing!Init
    OBVIOUS
  <2>1. canvas = Blank /\ frames = <<>> /\ Stream.canvas = DOMAIN canvas
    BY DEF Init, Stream
  <2>2. Playing!Blank(Stream) = Blank
    BY <2>1 DEF Blank, Playing!Blank
  <2> QED
    BY <2>1, <2>2 DEF Playing!Init
<1>2. IInv /\ IInv' /\ [Next]_vars => [Playing!Show]_(Playing!vars)
  <2> SUFFICES ASSUME IInv, IInv', [Next]_vars
               PROVE  Playing!Show \/ UNCHANGED Playing!vars
    OBVIOUS
  <2>1. /\ gif \in Gifs /\ canvas \in Pictures /\ canvas' \in Pictures'
        /\ frames \in Seq(Pictures)
    BY DEF IInv, TypeOK
  <2>2. gif' = gif
    BY DEF Next, vars, ReadHeader, CountFrame, CheckTotals, ResizeFrame,
           EncodePreview, ExtractThumbnail
  <2>3. DOMAIN canvas' = DOMAIN canvas
    BY <2>1, <2>2 DEF Pictures
  <2>4. Stream' = Stream
    BY <2>2, <2>3 DEF Stream, Placed, Source
  <2>5. CASE ResizeFrame
    <3> DEFINE f == gif.frames[Len(frames) + 1]
    <3>1. /\ Len(frames) < Len(gif.frames)
          /\ prev_canvas' = IF f.dispose = "previous" THEN canvas
                                                      ELSE prev_canvas
          /\ frames' = Append(frames, Blit(f))
          /\ canvas' = Dispose(f, Blit(f), prev_canvas')
      BY <2>5 DEF ResizeFrame
    <3>2. /\ Len(gif.frames) \in Nat
          /\ DOMAIN gif.frames = 1..Len(gif.frames)
          /\ Len(frames) + 1 \in 1..Len(gif.frames)
      BY <2>1, <3>1, GifFacts
    <3>3. /\ Len(Stream.frames) = Len(gif.frames)
          /\ Stream.frames[Len(frames) + 1] = Placed(f)
      BY <3>2 DEF Stream
    <3> HIDE DEF f
    <3>4. /\ Blit(f) = Playing!Painted(canvas, Placed(f))
          /\ canvas' = Playing!Disposed(canvas, Placed(f))
      BY <2>1, <3>1, BlitPaints
    <3>5. Playing!Show
      BY <2>4, <3>1, <3>3, <3>4 DEF Playing!Show
    <3> QED
      BY <3>5
  <2>6. CASE ~ ResizeFrame
    <3>1. UNCHANGED <<canvas, frames>>
      BY <2>6 DEF Next, vars, ReadHeader, CountFrame, CheckTotals,
                  EncodePreview, ExtractThumbnail
    <3> QED
      BY <2>4, <3>1 DEF Playing!vars
  <2> QED
    BY <2>5, <2>6
<1> QED
  BY <1>1, <1>2, SpecIInv, PTL DEF Spec, ShowsEveryPicture, Playing!Spec

-----------------------------------------------------------------------------
\* A set of numbers has a least one.
LEMMA Least ==
  ASSUME NEW T \in SUBSET Nat, T # {}
  PROVE  \E n \in T : \A m \in T : n <= m
<1> DEFINE R == OpToRel(<, Nat)
<1>1. \A m, n \in Nat : <<m, n>> \in R <=> m < n
  BY DEF OpToRel
<1>2. IsWellFoundedOn(R, Nat)
  BY NatLessThanWellFounded
<1> HIDE DEF R
<1>3. PICK n \in T : \A m \in T : ~ (<<m, n>> \in R)
  BY <1>2, WFMin
<1>4. ASSUME NEW m \in T PROVE n <= m
  <2>1. m \in Nat /\ n \in Nat
    OBVIOUS
  <2>2. ~ (m < n)
    BY <1>1, <1>3, <2>1
  <2> QED
    BY <2>1, <2>2
<1> QED
  BY <1>4

\* What a player shows, if g has the picture under each frame.
LEMMA PicturesOf ==
  ASSUME NEW s, Len(s.frames) \in Nat, NEW g,
         g = [n \in 1..(Len(s.frames) + 1) |->
                IF n = 1 THEN Playing!Blank(s)
                         ELSE Playing!Disposed(g[n - 1], s.frames[n - 1])]
  PROVE  Playing!Pictures(s)
           = [n \in 1..Len(s.frames) |-> Playing!Painted(g[n], s.frames[n])]
<1> DEFINE F(u) == [n \in 1..(Len(s.frames) + 1) |->
                      IF n = 1
                        THEN Playing!Blank(s)
                        ELSE Playing!Disposed(u[n - 1], s.frames[n - 1])]
           f == CHOOSE u : u = F(u)
           T == {n \in 1..(Len(s.frames) + 1) : f[n] # g[n]}
<1>1. f = F(f)
  OBVIOUS
<1>2. Playing!Pictures(s)
        = [n \in 1..Len(s.frames) |-> Playing!Painted(f[n], s.frames[n])]
  BY DEF Playing!Pictures
<1> HIDE DEF f
<1>3. ASSUME T # {} PROVE FALSE
  <2>1. T \in SUBSET Nat
    OBVIOUS
  <2> HIDE DEF T
  <2>2. PICK n \in T : \A m \in T : n <= m
    BY <1>3, <2>1, Least
  <2>3. n \in 1..(Len(s.frames) + 1) /\ f[n] # g[n]
    BY DEF T
  <2>4. n # 1
    BY <1>1, <2>3
  <2>5. n - 1 \in 1..(Len(s.frames) + 1) /\ ~ (n <= n - 1)
    BY <2>3, <2>4
  <2>6. n - 1 \notin T
    BY <2>2, <2>5
  <2>7. f[n - 1] = g[n - 1]
    BY <2>5, <2>6 DEF T
  <2>8. /\ f[n] = Playing!Disposed(f[n - 1], s.frames[n - 1])
        /\ g[n] = Playing!Disposed(g[n - 1], s.frames[n - 1])
    BY <1>1, <2>3, <2>4
  <2> QED
    BY <2>3, <2>7, <2>8
<1>4. \A n \in 1..(Len(s.frames) + 1) : f[n] = g[n]
  BY <1>3
<1>5. \A n \in 1..Len(s.frames) : f[n] = g[n]
  BY <1>4
<1> QED
  BY <1>2, <1>5

-----------------------------------------------------------------------------
\* g has the picture under each of the first N frames s of a stream, and the
\* one that the last of them leaves behind.
Chain(g, s, N) ==
  g = [n \in 1..(N + 1) |-> IF n = 1 THEN Blank
                                     ELSE Playing!Disposed(g[n - 1], s[n - 1])]

\* One more frame makes the chain longer by one.
LEMMA ChainGrows ==
  ASSUME NEW N \in Nat, NEW g, NEW s, NEW t, Chain(g, s, N),
         \A n \in 1..N : t[n] = s[n]
  PROVE  \E k : /\ Chain(k, t, N + 1)
                /\ \A n \in 1..(N + 1) : k[n] = g[n]
                /\ k[N + 2] = Playing!Disposed(g[N + 1], t[N + 1])
<1> DEFINE k == [n \in 1..(N + 2) |->
                   IF n = N + 2 THEN Playing!Disposed(g[N + 1], t[N + 1])
                                ELSE g[n]]
<1>1. /\ \A n \in 1..(N + 1) : k[n] = g[n]
      /\ k[N + 2] = Playing!Disposed(g[N + 1], t[N + 1])
  OBVIOUS
<1>2. ASSUME NEW n \in 1..(N + 2)
      PROVE  k[n] = IF n = 1 THEN Blank
                             ELSE Playing!Disposed(k[n - 1], t[n - 1])
  <2>1. CASE n = N + 2
    <3>1. n # 1 /\ n - 1 = N + 1 /\ N + 1 \in 1..(N + 1)
      BY <2>1
    <3>2. k[n - 1] = g[N + 1] /\ t[n - 1] = t[N + 1]
      BY <1>1, <3>1
    <3> HIDE DEF k
    <3> QED
      BY <1>1, <2>1, <3>1, <3>2
  <2>2. CASE n = 1
    <3>1. g[1] = Blank
      BY DEF Chain
    <3>2. 1 \in 1..(N + 1)
      OBVIOUS
    <3> HIDE DEF k
    <3> QED
      BY <1>1, <2>2, <3>1, <3>2
  <2>3. CASE n # 1 /\ n # N + 2
    <3>1. n \in 1..(N + 1) /\ n - 1 \in 1..N /\ n - 1 \in 1..(N + 1)
      BY <2>3
    <3>2. g[n] = Playing!Disposed(g[n - 1], s[n - 1])
      BY <2>3, <3>1 DEF Chain
    <3>3. k[n] = g[n] /\ k[n - 1] = g[n - 1] /\ t[n - 1] = s[n - 1]
      BY <1>1, <3>1
    <3> HIDE DEF k
    <3> QED
      BY <2>3, <3>2, <3>3
  <2> QED
    BY <2>1, <2>2, <2>3
<1>3. k = [n \in 1..(N + 2) |-> k[n]]
  OBVIOUS
<1>4. (N + 1) + 1 = N + 2
  OBVIOUS
<1> HIDE DEF k
<1>5. Chain(k, t, N + 1)
  BY <1>2, <1>3, <1>4 DEF Chain
<1> QED
  BY <1>1, <1>5

\* The frames that the preview has so far.
Shown == [n \in DOMAIN frames |-> PreviewFrame(gif.frames[n], frames[n])]

\* The frames of the preview are what a player shows of the file, and what it
\* shows of the preview is known.
FileChain(g) ==
  /\ Chain(g, Stream.frames, Len(frames))
  /\ canvas = g[Len(frames) + 1]
  /\ \A n \in 1..Len(frames) :
       frames[n] = Playing!Painted(g[n], Stream.frames[n])

ChainInv ==
  /\ \E g : FileChain(g)
  /\ \E h : Chain(h, Shown, Len(frames))

\* Before the first frame, there is the blank picture.
LEMMA InitChainInv == Init => ChainInv
<1> SUFFICES ASSUME Init PROVE ChainInv
  OBVIOUS
<1>1. Len(frames) = 0 /\ canvas = Blank
  BY DEF Init
<1> DEFINE g == [n \in 1..1 |-> Blank]
<1>2. \A s : Chain(g, s, 0)
  BY DEF Chain
<1>3. FileChain(g)
  BY <1>1, <1>2 DEF FileChain
<1> QED
  BY <1>1, <1>2, <1>3 DEF ChainInv

\* A frame that is composited is painted over the last of the chain.
LEMMA NextChainInv == IInv /\ ChainInv /\ [Next]_vars => ChainInv'
<1> SUFFICES ASSUME IInv, ChainInv, [Next]_vars PROVE ChainInv'
  OBVIOUS
<1> DEFINE N == Len(frames)
<1>1. /\ gif \in Gifs /\ canvas \in Pictures /\ frames \in Seq(Pictures)
      /\ gif' = gif /\ N \in Nat
  BY DEF IInv, TypeOK, Next, vars, ReadHeader, CountFrame, CheckTotals,
         ResizeFrame, EncodePreview, ExtractThumbnail
<1>2. /\ Blank' = Blank /\ DOMAIN frames = 1..N
      /\ Stream.frames = [n \in DOMAIN gif.frames |-> Placed(gif.frames[n])]
      /\ Stream'.frames = Stream.frames
  BY <1>1 DEF Blank, Stream, Placed, Source
<1>3. PICK g : FileChain(g)
  BY DEF ChainInv
<1>4. PICK h : Chain(h, Shown, N)
  BY DEF ChainInv
<1>5. CASE ResizeFrame
  <2> DEFINE f == gif.frames[N + 1]
             picture == Blit(f)
             t == Stream.frames
  <2>1. /\ N < Len(gif.frames) /\ frames' = Append(frames, picture)
        /\ canvas' = Dispose(f, picture, prev_canvas')
        /\ f.dispose = "previous" => prev_canvas' = canvas
    BY <1>5 DEF ResizeFrame
  <2>2. /\ N + 1 \in DOMAIN gif.frames /\ t[N + 1] = Placed(f)
    BY <1>1, <1>2, <2>1, GifFacts
  <2> HIDE DEF f
  <2>3. /\ picture = Playing!Painted(canvas, t[N + 1])
        /\ canvas' = Playing!Disposed(canvas, t[N + 1])
    BY <1>1, <2>1, <2>2, BlitPaints
  <2> HIDE DEF picture, t
  <2>4. /\ Len(frames') = N + 1 /\ frames'[N + 1] = picture
        /\ \A n \in 1..N : frames'[n] = frames[n]
        /\ DOMAIN frames' = 1..(N + 1)
    BY <1>1, <2>1
  <2>5. PICK k : /\ Chain(k, t, N + 1)
                 /\ \A n \in 1..(N + 1) : k[n] = g[n]
                 /\ k[N + 2] = Playing!Disposed(g[N + 1], t[N + 1])
    <3>1. Chain(g, t, N)
      BY <1>3 DEF FileChain, t
    <3> QED
      BY <1>1, <3>1, ChainGrows
  <2>6. canvas = g[N + 1]
    BY <1>3 DEF FileChain
  <2>7. FileChain(k)'
    <3>2. canvas' = k[Len(frames') + 1]
      BY <1>1, <2>3, <2>4, <2>5, <2>6
    <3>3. ASSUME NEW n \in 1..(N + 1)
          PROVE  frames'[n] = Playing!Painted(k[n], t[n])
      <4>1. CASE n = N + 1
        BY <1>1, <2>3, <2>4, <2>5, <2>6, <4>1
      <4>2. CASE n # N + 1
        <5>1. n \in 1..N
          BY <1>1, <4>2
        <5> QED
          BY <1>3, <2>4, <2>5, <5>1 DEF FileChain, t
      <4> QED
        BY <4>1, <4>2
    <3>4. Chain(k, Stream.frames, Len(frames))'
      BY <1>2, <2>4, <2>5 DEF Chain, t
    <3> QED
      BY <1>2, <2>4, <3>2, <3>3, <3>4 DEF FileChain, t
  <2>8. \E k2 : Chain(k2, Shown, Len(frames))'
    <3> DEFINE u == Shown'
    <3>1. \A n \in 1..N : u[n] = Shown[n]
      BY <1>1, <1>2, <2>4 DEF Shown, PreviewFrame
    <3> HIDE DEF u
    <3>2. PICK k2 : Chain(k2, u, N + 1)
      BY <1>1, <1>4, <3>1, ChainGrows
    <3>3. Chain(k2, Shown, Len(frames))'
      BY <1>2, <2>4, <3>2 DEF Chain, u
    <3> QED
      BY <3>3
  <2> QED
    BY <2>7, <2>8 DEF ChainInv
<1>6. CASE ~ ResizeFrame
  <2>1. UNCHANGED <<canvas, frames>>
    BY <1>6 DEF Next, vars, ReadHeader, CountFrame, CheckTotals,
                EncodePreview, ExtractThumbnail
  <2>2. Shown' = Shown
    BY <1>1, <2>1 DEF Shown, PreviewFrame
  <2>3. FileChain(g)'
    BY <1>2, <1>3, <2>1 DEF FileChain, Chain
  <2>4. Chain(h, Shown, Len(frames))'
    BY <1>2, <1>4, <2>1, <2>2 DEF Chain
  <2> QED
    BY <2>3, <2>4 DEF ChainInv
<1> QED
  BY <1>5, <1>6

\* The preview plays what the gif plays exactly if no picture is clear where
\* the one before it was not (mod.rs:101-103, 131-152).
THEOREM SpecPlaysTheSameUnlessUncovered ==
  Spec => []PlaysTheSameUnlessUncovered
<1>1. ASSUME IInv, ChainInv PROVE PlaysTheSameUnlessUncovered
  <2> SUFFICES ASSUME at = "done"
               PROVE  Replayed = Playing!Pictures(Stream) <=> NothingUncovered
    BY DEF PlaysTheSameUnlessUncovered
  <2> DEFINE N == Len(frames)
             copy == [canvas |-> DOMAIN canvas, frames |-> Shown]
  <2>1. /\ gif \in Gifs /\ canvas \in Pictures /\ frames \in Seq(Pictures)
        /\ N \in Nat /\ DOMAIN frames = 1..N /\ N = Len(gif.frames)
        /\ DOMAIN gif.frames = 1..N
    BY <1>1, GifFacts DEF IInv, TypeOK, FrameInv, Encoded
  <2>2. /\ Playing!Blank(Stream) = Blank /\ Playing!Blank(copy) = Blank
    BY <2>1 DEF Stream, Playing!Blank, Blank, Pictures
  <2>3. Len(Stream.frames) = N
    BY <2>1 DEF Stream
  <2>4. /\ copy.frames = Shown /\ Len(Shown) = N
        /\ \A n \in 1..N :
             Shown[n] = [pixels |-> frames[n], dispose |-> "keep"]
    BY <2>1 DEF Shown, PreviewFrame
  <2>5. /\ frames = [n \in 1..N |-> frames[n]]
        /\ DOMAIN Blank = DOMAIN canvas
        /\ \A p \in DOMAIN canvas : Blank[p] = Clear
        /\ \A n \in 1..N :
             /\ frames[n] = [p \in DOMAIN canvas |-> frames[n][p]]
             /\ DOMAIN frames[n] = DOMAIN canvas
    BY <2>1 DEF Pictures, Blank
  <2>6. Replayed = Playing!Pictures(copy)
    BY DEF Replayed, Shown
  <2> HIDE DEF N, copy
  <2>7. Playing!Pictures(Stream) = frames
    <3>1. PICK g : FileChain(g)
      BY <1>1 DEF ChainInv
    <3>2. PICK s, h : s = Stream /\ h = g
      OBVIOUS
    <3>3. /\ Len(s.frames) = N /\ Len(s.frames) \in Nat
          /\ Playing!Blank(s) = Blank
      BY <2>1, <2>2, <2>3, <3>2
    <3>4. h = [n \in 1..(Len(s.frames) + 1) |->
                 IF n = 1 THEN Playing!Blank(s)
                          ELSE Playing!Disposed(h[n - 1], s.frames[n - 1])]
      BY <3>1, <3>2, <3>3 DEF FileChain, Chain, N
    <3>5. Playing!Pictures(s)
            = [n \in 1..Len(s.frames) |-> Playing!Painted(h[n], s.frames[n])]
      BY <3>3, <3>4, PicturesOf
    <3>6. \A n \in 1..N : frames[n] = Playing!Painted(h[n], s.frames[n])
      BY <3>1, <3>2 DEF FileChain, N
    <3> QED
      BY <2>5, <3>2, <3>3, <3>5, <3>6
  <2>8. ASSUME NEW h, Chain(h, Shown, N)
        PROVE  Replayed = [n \in 1..N |-> Playing!Painted(h[n], Shown[n])]
    <3>1. PICK s : s = copy
      OBVIOUS
    <3>2. /\ Len(s.frames) = N /\ Len(s.frames) \in Nat /\ s.frames = Shown
          /\ Playing!Blank(s) = Blank
      BY <2>1, <2>2, <2>4, <3>1
    <3>3. h = [n \in 1..(Len(s.frames) + 1) |->
                 IF n = 1 THEN Playing!Blank(s)
                          ELSE Playing!Disposed(h[n - 1], s.frames[n - 1])]
      BY <2>8, <3>2 DEF Chain
    <3>4. Playing!Pictures(s)
            = [n \in 1..Len(s.frames) |-> Playing!Painted(h[n], s.frames[n])]
      BY <3>2, <3>3, PicturesOf
    <3> QED
      BY <2>6, <3>1, <3>2, <3>4
  <2>9. \A n \in 1..N : \A under :
          Playing!Painted(under, Shown[n]) =
            [p \in DOMAIN under |->
               IF p \in DOMAIN canvas /\ frames[n][p] # Clear
                 THEN frames[n][p] ELSE under[p]]
    BY <2>4, <2>5 DEF Playing!Painted
  <2>10. \A n \in 1..N : \A under :
           Playing!Disposed(under, Shown[n]) = Playing!Painted(under, Shown[n])
    BY <2>4 DEF Playing!Disposed
  <2>11. ASSUME NothingUncovered PROVE Replayed = frames
    <3> DEFINE Under(n) == IF n = 1 THEN Blank ELSE frames[n - 1]
               h == [n \in 1..(N + 1) |-> Under(n)]
    <3>1. ASSUME NEW n \in 1..N
          PROVE  Playing!Painted(Under(n), Shown[n]) = frames[n]
      <4>1. /\ DOMAIN Under(n) = DOMAIN canvas
            /\ \A p \in DOMAIN canvas :
                 frames[n][p] = Clear => Under(n)[p] = Clear
        <5>1. CASE n = 1
          BY <2>5, <5>1
        <5>2. CASE n # 1
          <6>1. n - 1 \in 1..N /\ n \in DOMAIN frames \ {1}
            BY <2>1, <5>2
          <6> QED
            BY <2>5, <2>11, <5>2, <6>1 DEF NothingUncovered
        <5> QED
          BY <5>1, <5>2
      <4> HIDE DEF Under
      <4>2. \A p \in DOMAIN canvas :
              (IF p \in DOMAIN canvas /\ frames[n][p] # Clear
                 THEN frames[n][p] ELSE Under(n)[p]) = frames[n][p]
        BY <4>1
      <4>3. Playing!Painted(Under(n), Shown[n])
              = [p \in DOMAIN canvas |-> frames[n][p]]
        BY <2>9, <4>1, <4>2
      <4> QED
        BY <2>5, <4>3
    <3>2. ASSUME NEW n \in 1..(N + 1)
          PROVE  h[n] = IF n = 1 THEN Blank
                                 ELSE Playing!Disposed(h[n - 1], Shown[n - 1])
      <4>1. CASE n = 1
        BY <4>1
      <4>2. CASE n # 1
        <5>1. n - 1 \in 1..N /\ n - 1 \in 1..(N + 1)
          BY <2>1, <4>2
        <5>2. h[n - 1] = Under(n - 1) /\ h[n] = frames[n - 1]
          BY <4>2, <5>1
        <5> HIDE DEF h, Under
        <5> QED
          BY <2>10, <3>1, <4>2, <5>1, <5>2
      <4> QED
        BY <4>1, <4>2
    <3>3. h = [n \in 1..(N + 1) |-> h[n]] /\ \A n \in 1..N : h[n] = Under(n)
      BY <2>1
    <3> HIDE DEF h, Under
    <3>4. Chain(h, Shown, N)
      BY <3>2, <3>3 DEF Chain
    <3>5. Replayed = [n \in 1..N |-> Playing!Painted(h[n], Shown[n])]
      BY <2>8, <3>4
    <3>6. \A n \in 1..N : Playing!Painted(h[n], Shown[n]) = frames[n]
      BY <3>1, <3>3
    <3> QED
      BY <2>5, <3>5, <3>6
  <2>12. ASSUME Replayed = frames PROVE NothingUncovered
    <3>1. PICK h : Chain(h, Shown, N)
      BY <1>1 DEF ChainInv, N
    <3>2. \A n \in 1..N : Playing!Painted(h[n], Shown[n]) = frames[n]
      BY <2>8, <2>12, <3>1
    <3> SUFFICES ASSUME NEW n \in DOMAIN frames \ {1}, NEW p \in DOMAIN frames[n],
                        frames[n][p] = Clear
                 PROVE  frames[n - 1][p] = Clear
      BY DEF NothingUncovered
    <3>3. n \in 1..N /\ n - 1 \in 1..N /\ n \in 1..(N + 1) /\ n # 1
      BY <2>1
    <3>4. h[n] = frames[n - 1]
      <4>1. h[n] = Playing!Disposed(h[n - 1], Shown[n - 1])
        BY <3>1, <3>3 DEF Chain
      <4> QED
        BY <2>10, <3>2, <3>3, <4>1
    <3>5. frames[n] = [q \in DOMAIN frames[n - 1] |->
                         IF q \in DOMAIN canvas /\ frames[n][q] # Clear
                           THEN frames[n][q] ELSE frames[n - 1][q]]
      <4>1. Playing!Painted(frames[n - 1], Shown[n]) = frames[n]
        BY <3>2, <3>3, <3>4
      <4>2. Playing!Painted(frames[n - 1], Shown[n])
              = [q \in DOMAIN frames[n - 1] |->
                   IF q \in DOMAIN canvas /\ frames[n][q] # Clear
                     THEN frames[n][q] ELSE frames[n - 1][q]]
        BY <2>9, <3>3
      <4> QED
        BY <4>1, <4>2
    <3>6. p \in DOMAIN frames[n - 1]
      BY <2>5, <3>3
    <3> QED
      BY <3>5, <3>6
  <2> QED
    BY <2>7, <2>11, <2>12
<1> QED
  BY <1>1, SpecIInv, InitChainInv, NextChainInv, PTL DEF Spec
=============================================================================
