\* The loop device when the file system under it is unmounted.
SPECIFICATION Spec
CONSTANTS
  NumRuns = 1
  MaxStarts = 1
INVARIANT LoopReleased
CHECK_DEADLOCK FALSE
