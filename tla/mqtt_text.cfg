\* mqtt_text
CONSTANTS
  RxLen = 4
  Wrap = 6
  HeaderLen = 2
  Payloads = {0, 3, 4, 7}
  MaySplit = FALSE
  MaxQueued = 2
SPECIFICATION FairSpec
INVARIANTS PrintedFaithfully FittingKeepsHandling LossInSocket
PROPERTIES GetsOnline LossNoticed
\* main ends on errors, and waits for ever on some.
CHECK_DEADLOCK FALSE
