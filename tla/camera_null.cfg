\* camera_null
CONSTANTS
  NumBuffers = 2
  FrameLen = 2
  ReadyLen = 1
  HeaderSends = {1}
  Window = 2
  Photos = {p1}
  NULL = NULL
SPECIFICATION Spec
INVARIANTS NeverFaults
\* The threads end on errors, so the node may stop.
CHECK_DEADLOCK FALSE
