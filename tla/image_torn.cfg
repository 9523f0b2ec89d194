\* image_torn
CONSTANTS
  NumBuffers = 2
  FrameLen = 2
  ReadyLen = 1
  HeaderSends = {1}
  Window = 3
  Photos = {p1, p2}
  NULL = NULL
SPECIFICATION SafeSpec
INVARIANTS WholePhoto
\* The threads end on errors, so the node may stop.
CHECK_DEADLOCK FALSE
