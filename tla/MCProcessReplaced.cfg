SPECIFICATION HistSpec
CONSTANTS
  MaxDevices = 3
  MaxStarts = 3
PROPERTIES
  ReplacedSparingly
CHECK_DEADLOCK FALSE
