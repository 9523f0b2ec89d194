\* mqtt_keepalive
CONSTANTS
  Subscribers = {m5}
  Publishers = {dk}
  CLIENT_ID = id
  Patience = 3
  MaxQueued = 2
  MaxRestarts = 2
SPECIFICATION Spec
INVARIANTS KeptAlive
\* main ends on errors, and waits for ever on some.
CHECK_DEADLOCK FALSE
