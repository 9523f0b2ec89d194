\* mqtt_node
CONSTANTS
  RxLen = 4
  Wrap = 6
  HeaderLen = 2
  Payloads = {0, 2, 4, 6, 7}
  MaySplit = TRUE
  MaxQueued = 2
SPECIFICATION Spec
INVARIANTS TypeOK RxInBounds AnnouncedConnected WifiTokenFresh NoWakeupLost
\* main ends on errors, and waits for ever on some.
CHECK_DEADLOCK FALSE
