\* Three processes of two runs each, with failures, deaths and reboots.
SPECIFICATION FairSpec
CONSTANTS
  NumRuns = 2
  MaxStarts = 3
INVARIANTS TypeOK DeviceIsFresh TeardownComplete
PROPERTIES OffOnlyUnmounted EveryProcessEnds
CHECK_DEADLOCK FALSE
