\* base_node
CONSTANTS
  Values = {0, 3, 4}
SPECIFICATION FairSpec
INVARIANTS TypeOK ReadingsFlagged ClapPrintedOnce
PROPERTIES Reported
\* main ends when Bluetooth cannot be set up.
CHECK_DEADLOCK FALSE
