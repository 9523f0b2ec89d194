\* mqtt_connack
CONSTANTS
  RxLen = 4
  Wrap = 6
  HeaderLen = 2
  Payloads = {0, 2}
  MaySplit = FALSE
  MaxQueued = 1
SPECIFICATION FairSpec
PROPERTIES ConnackWaitEnds
\* main ends on errors, and waits for ever on some.
CHECK_DEADLOCK FALSE
