------------------------------- MODULE Codec -------------------------------
(***************************************************************************)
(* What an upload does to a GIF (storage/mod.rs): parse_gif_info checks    *)
(* its limits, resize_gif makes the preview, extract_thumbnail the         *)
(* thumbnail, and upload (routes/upload.rs) records what it takes their    *)
(* dimensions to be.  Each of the three reads the file from the start and  *)
(* stops at its end or at the first frame that cannot be decoded: a file   *)
(* is its header and the frames before that.                               *)
(*                                                                         *)
(* A picture is a function from the pixels of its canvas.  Resampling and  *)
(* palettes are left out: a resized picture is the picture and the         *)
(* dimensions it is resized to.                                            *)
(***************************************************************************)
EXTENDS Naturals, Sequences

CONSTANTS
  Gifs,          \* the files that are uploaded
  MaxDimension,  \* MAX_DIMENSION
  MaxFrames,     \* MAX_FRAMES
  MaxPixels,     \* MAX_TOTAL_PIXELS
  MaxWidth,      \* of preview and thumbnail
  Clear          \* a pixel with alpha 0

Grid(w, h) == (0..(w - 1)) \X (0..(h - 1))

Disposals == {"keep", "background", "previous"}

ASSUME CodecAssumption ==
  /\ MaxDimension \in Nat /\ MaxFrames \in Nat /\ MaxPixels \in Nat
  /\ MaxWidth \in Nat \ {0}
  /\ \A g \in Gifs :
       /\ g.width \in Nat /\ g.height \in Nat
       /\ Len(g.frames) \in Nat /\ DOMAIN g.frames = 1..Len(g.frames)
       /\ \A n \in 1..Len(g.frames) :
            LET f == g.frames[n] IN
            /\ {f.left, f.top, f.width, f.height} \subseteq Nat
            /\ DOMAIN f.buffer = Grid(f.width, f.height)
            /\ f.dispose \in Disposals

VARIABLES
  gif,          \* the file
  at,           \* where its processing is
  frame_count,
  decoded,      \* history: pixels of all frames that were read so far
  canvas,       \* the composited picture
  prev_canvas,
  frames,       \* the frames of the preview
  preview,      \* dimensions they are encoded with
  thumb         \* dimensions of the thumbnail

vars == <<gif, at, frame_count, decoded, canvas, prev_canvas, frames, preview,
          thumb>>

Blank == [p \in Grid(gif.width, gif.height) |-> Clear]

Init ==
  /\ gif \in Gifs
  /\ at = "header"
  /\ frame_count = 0
  /\ decoded = 0
  /\ canvas = Blank
  /\ prev_canvas = Blank
  /\ frames = <<>>
  /\ preview = <<0, 0>>
  /\ thumb = <<0, 0>>

Area(f) == f.width * f.height

\* read_next_frame of each of the three readers decodes the whole frame, also
\* what lies outside the canvas.
Decode(f) == decoded' = decoded + Area(f)

-----------------------------------------------------------------------------
(* parse_gif_info                                                          *)

Refuse == at' = "refused" /\ UNCHANGED frame_count

ReadHeader ==
  /\ at = "header"
  /\ IF gif.width > MaxDimension \/ gif.height > MaxDimension
       THEN Refuse ELSE at' = "parse" /\ UNCHANGED frame_count
  /\ UNCHANGED <<gif, decoded, canvas, prev_canvas, frames, preview, thumb>>

\* Mutant: the frames are counted and that is all.
CountFrameUnlimited ==
  /\ at = "parse" /\ frame_count < Len(gif.frames)
  /\ Decode(gif.frames[frame_count + 1])
  /\ frame_count' = frame_count + 1
  /\ UNCHANGED <<gif, at, canvas, prev_canvas, frames, preview, thumb>>

\* The frame is decoded before it is counted.
CountFrame ==
  /\ at = "parse" /\ frame_count < Len(gif.frames)
  /\ Decode(gif.frames[frame_count + 1])
  /\ frame_count' = frame_count + 1
  /\ at' = IF frame_count' > MaxFrames THEN "refused" ELSE at
  /\ UNCHANGED <<gif, canvas, prev_canvas, frames, preview, thumb>>

TotalPixels == gif.width * gif.height * frame_count

\* Mutant: the area of one frame is compared, not that of all frames.
CheckTotalsOfOneFrame ==
  /\ at = "parse" /\ frame_count = Len(gif.frames)
  /\ IF frame_count = 0 \/ gif.width * gif.height > MaxPixels
       THEN Refuse ELSE at' = "resize" /\ UNCHANGED frame_count
  /\ UNCHANGED <<gif, decoded, canvas, prev_canvas, frames, preview, thumb>>

CheckTotals ==
  /\ at = "parse" /\ frame_count = Len(gif.frames)
  /\ IF frame_count = 0 \/ TotalPixels > MaxPixels
       THEN Refuse ELSE at' = "resize" /\ UNCHANGED frame_count
  /\ UNCHANGED <<gif, decoded, canvas, prev_canvas, frames, preview, thumb>>

-----------------------------------------------------------------------------
(* resize_gif                                                              *)

\* Mutant: the height is rounded up.
SizeRoundedUp(w, h) ==
  IF w <= MaxWidth THEN <<w, h>>
                   ELSE <<MaxWidth, (h * MaxWidth + w - 1) \div w>>

\* src_height * (max_width / src_width), rounded down.
Size(w, h) ==
  IF w <= MaxWidth THEN <<w, h>> ELSE <<MaxWidth, (h * MaxWidth) \div w>>

\* The pixels of the canvas that frame f covers, whatever overhangs.
Covered(f) ==
  {p \in DOMAIN canvas : /\ p[1] \in f.left..(f.left + f.width - 1)
                         /\ p[2] \in f.top..(f.top + f.height - 1)}

Source(f, p) == f.buffer[<<p[1] - f.left, p[2] - f.top>>]

\* Mutant: transparent pixels are copied too.
BlitOpaque(f) ==
  [p \in DOMAIN canvas |-> IF p \in Covered(f) THEN Source(f, p)
                                               ELSE canvas[p]]

Blit(f) ==
  [p \in DOMAIN canvas |->
     IF p \in Covered(f) /\ Source(f, p) # Clear THEN Source(f, p)
                                                 ELSE canvas[p]]

\* What is left of the composited picture for the next frame.
Dispose(f, picture, saved) ==
  CASE f.dispose = "background" ->
         [p \in DOMAIN picture |-> IF p \in Covered(f) THEN Clear
                                                       ELSE picture[p]]
    [] f.dispose = "previous" -> saved
    [] OTHER -> picture

\* One frame is read, composited, resized and kept for the preview.
ResizeFrame ==
  /\ at = "resize" /\ Len(frames) < Len(gif.frames)
  /\ LET f == gif.frames[Len(frames) + 1] IN
     /\ Decode(f)
     /\ prev_canvas' = IF f.dispose = "previous" THEN canvas ELSE prev_canvas
     /\ frames' = Append(frames, Blit(f))
     /\ canvas' = Dispose(f, Blit(f), prev_canvas')
  /\ UNCHANGED <<gif, at, frame_count, preview, thumb>>

EncodePreview ==
  /\ at = "resize" /\ Len(frames) = Len(gif.frames)
  /\ at' = "thumbnail"
  /\ preview' = Size(gif.width, gif.height)
  /\ UNCHANGED <<gif, frame_count, decoded, canvas, prev_canvas, frames, thumb>>

\* Mutant: the preview's frame is disposed of like the file's.
PreviewFrameDisposed(f, picture) == [pixels |-> picture, dispose |-> f.dispose]

\* How a frame is put into the preview: as a picture that stays.
PreviewFrame(f, picture) == [pixels |-> picture, dispose |-> "keep"]

\* extract_thumbnail works out the dimensions once more.
ThumbnailSize ==
  IF gif.width <= MaxWidth
    THEN <<gif.width, gif.height>>
    ELSE <<MaxWidth, (gif.height * MaxWidth) \div gif.width>>

\* extract_thumbnail: the first frame, as large as it is, stretched to what
\* the canvas would be resized to.  A PNG has at least one pixel.
ExtractThumbnail ==
  /\ at = "thumbnail"
  /\ Decode(gif.frames[1])
  /\ IF 0 \in {ThumbnailSize[1], ThumbnailSize[2]}
       THEN at' = "failed" /\ UNCHANGED thumb
       ELSE at' = "done" /\ thumb' = ThumbnailSize
  /\ UNCHANGED <<gif, frame_count, canvas, prev_canvas, frames, preview>>

\* upload (and replace_file) work out the dimensions of the preview's row.
PreviewRow ==
  IF gif.width <= MaxWidth
    THEN <<gif.width, gif.height>>
    ELSE <<MaxWidth, (gif.height * MaxWidth) \div gif.width>>

Next ==
  \/ ReadHeader
  \/ CountFrame
  \/ CheckTotals
  \/ ResizeFrame
  \/ EncodePreview
  \/ ExtractThumbnail

Spec == Init /\ [][Next]_vars

-----------------------------------------------------------------------------
Colours(g) ==
  {Clear} \cup UNION {{f.buffer[p] : p \in DOMAIN f.buffer} :
                       f \in {g.frames[n] : n \in 1..Len(g.frames)}}

Pictures == [Grid(gif.width, gif.height) -> Colours(gif)]

TypeOK ==
  /\ at \in {"header", "refused", "parse", "resize", "thumbnail", "failed",
            "done"}
  /\ frame_count \in 0..(MaxFrames + 1)
  /\ frame_count > MaxFrames => at = "refused"
  /\ decoded \in Nat
  /\ {canvas, prev_canvas} \subseteq Pictures
  /\ frames \in Seq(Pictures)
  /\ {preview, thumb} \subseteq (0..MaxDimension) \X (0..MaxDimension)

\* The file has passed the limits on its totals.
Checked == at \in {"resize", "thumbnail", "failed", "done"}

\* No frame has more pixels than the canvas, which nothing checks.
FramesFit ==
  \A n \in DOMAIN gif.frames : Area(gif.frames[n]) <= gif.width * gif.height

\* What the caps bound (mod.rs:14-19): the composited frames that resize_gif
\* holds; and for a file whose frames fit its canvas all that is decoded, by
\* each of three readers once the totals are checked, and before that by the
\* one that counts, up to one frame beyond the limit.  A frame larger than the
\* canvas is decoded, walked and, if it is the first, resampled at its own
\* size: there the caps bound the number of frames only.
WorkIsBounded ==
  /\ Len(frames) * gif.width * gif.height <= MaxPixels
  /\ FramesFit =>
       decoded <= IF Checked
                    THEN 3 * MaxPixels
                    ELSE (MaxFrames + 1) * MaxDimension * MaxDimension

\* The rows that upload writes describe the files: as many frames in the
\* preview as were counted by another reader of the same bytes, and the
\* dimensions that were worked out in three places.  A file that passes the
\* limits gets there, unless its preview would have no pixel, being too flat or
\* of a canvas without any: then the answer is 500, not 400 (upload.rs:106-111,
\* mod.rs:31-36, 81-86, 195-200).
RowsDescribeFiles ==
  /\ at = "done" =>
       /\ Len(frames) = frame_count
       /\ preview = PreviewRow
       /\ thumb = PreviewRow
  /\ at = "failed" => 0 \in {PreviewRow[1], PreviewRow[2]}

\* A frame as a picture in the coordinates of the canvas.
Placed(f) ==
  [dispose |-> f.dispose,
   pixels |-> [p \in (f.left..(f.left + f.width - 1))
                       \X (f.top..(f.top + f.height - 1)) |-> Source(f, p)]]

Stream == [canvas |-> DOMAIN canvas,
           frames |-> [n \in DOMAIN gif.frames |-> Placed(gif.frames[n])]]

Playing == INSTANCE Player WITH
  Clear <- Clear, stream <- Stream, base <- canvas, shown <- frames

\* The frames of the preview are the pictures that a player shows, "using each
\* frame's offset and disposal method" (mod.rs:70).
ShowsEveryPicture == Playing!Spec

\* What a player shows of the preview.
Replayed ==
  Playing!Pictures([canvas |-> DOMAIN canvas,
                    frames |-> [n \in DOMAIN frames |->
                                  PreviewFrame(gif.frames[n], frames[n])]])

\* "Correctly composites partial frames using each frame's offset and disposal
\* method" (mod.rs:70): the preview of a gif shows what the gif shows.
PreviewPlaysTheSame ==
  at = "done" => Replayed = Playing!Pictures(Stream)

\* Where a picture is clear, the one before it was clear: no disposal uncovers
\* the background.
NothingUncovered ==
  \A n \in DOMAIN frames \ {1} : \A p \in DOMAIN frames[n] :
    frames[n][p] = Clear => frames[n - 1][p] = Clear

\* ... which holds exactly for the gifs that uncover nothing, whatever their
\* disposal methods: what a frame restores or clears has to be painted over by
\* the next one, because the preview's frames stay (mod.rs:101-103, 131-152).
PlaysTheSameUnlessUncovered ==
  at = "done" => (Replayed = Playing!Pictures(Stream) <=> NothingUncovered)
=============================================================================
