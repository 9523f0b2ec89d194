\* beacon_meaning
CONSTANTS
  BLOCK_COUNT = 4
  Byte = 2
  Temps = {3}
  Lights = {1}
  Louds = {0, 1}
  NULL = NULL
SPECIFICATION SpecL
PROPERTIES TemperatureMeansTemperature
\* Both mains end on errors.
CHECK_DEADLOCK FALSE
