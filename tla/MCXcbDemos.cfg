CONSTANTS
  n1 = n1
  n2 = n2
  Programs = {"display", "gradients"}
  StartSize <- MCStartSize
  Sizes <- MCSizes
  Names = {n1, n2}
  TileWidth = 2
  TileHeight = 3
  MaxEvents = 3
  MaxWidth = 3
  MaxHeight = 2
  Stripes = 3
  Colours = 4
SPECIFICATION FairSpec
INVARIANTS TypeOK FrameIsShown PixelsDefined PixelsPlaced AbortsOnlyUnreported
PROPERTIES ClosedEnds PictureSettles
\* The demo ends.
CHECK_DEADLOCK FALSE
