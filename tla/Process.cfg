SPECIFICATION ProcessSpec
CONSTANTS
  MaxDevices = 3
  MaxStarts = 3
INVARIANTS
  EndedOutsideDriver
  NeverGoesBack
PROPERTIES
  ClosedInOrder
  StopEnds
CHECK_DEADLOCK FALSE
