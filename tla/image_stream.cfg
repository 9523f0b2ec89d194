\* image_stream
CONSTANTS
  NumBuffers = 2
  FrameLen = 2
  ReadyLen = 2
  HeaderSends = {2}
  Window = 3
  Photos = {p1}
  NULL = NULL
SPECIFICATION FairSpec
INVARIANTS TypeOK ViewTypeOK WarmStreamInStep BuffersOwnedOnce WarmStartNeverFaults
PROPERTIES PublishedOnRequest ImplementsChannel PhotoRefreshed FramesKeepComing GoneClientReleased
\* The threads end on errors, so the node may stop.
CHECK_DEADLOCK FALSE
