\* mqtt_session
CONSTANTS
  Subscribers = {m5}
  Publishers = {dk}
  CLIENT_ID = id
  Patience = 1
  MaxQueued = 1
  MaxRestarts = 1
SPECIFICATION FairSpec
INVARIANTS TypeOK NoGreetingLive HolderAnswered
PROPERTIES GreetingReturns LoserStops SessionUsed
\* main ends on errors, and waits for ever on some.
CHECK_DEADLOCK FALSE
