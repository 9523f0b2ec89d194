\* beacon_link
CONSTANTS
  BLOCK_COUNT = 4
  Byte = 2
  Temps = {3}
  Lights = {1}
  Louds = {0, 1}
  NULL = NULL
SPECIFICATION FairSpecL
INVARIANTS TypeOK NeverStarved OneBlockStale
PROPERTIES  RoundsRepeat
\* Both mains end on errors.
CHECK_DEADLOCK FALSE
