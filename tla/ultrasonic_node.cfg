\* ultrasonic_node
CONSTANTS
  Wrap = 10
  EchoTimeout = 2
  MaxRange = 7
  Lag = 1
  MinEcho = 5
  MaxEcho = 8
SPECIFICATION Spec
INVARIANTS TypeOK Accurate PollingBounded NoSocketLeft
\* main ends when a pin cannot be configured.
CHECK_DEADLOCK FALSE
