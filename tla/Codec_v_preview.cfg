SPECIFICATION Spec
CONSTANTS
  red = red
  blue = blue
  Clear = Clear
  Gifs <- MCGifs
  MaxDimension = 3
  MaxFrames = 3
  MaxPixels = 18
  MaxWidth = 2
CHECK_DEADLOCK FALSE
INVARIANT
  PreviewPlaysTheSame
