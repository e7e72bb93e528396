\* Dumps of two block groups, with lines in any order.
SPECIFICATION Spec
CONSTANTS
  GroupLines <- Lines_Group
  ExtentLines <- Lines_Extent
  Deletable = {0, 1, 5}
  ImageBlocks = 4
INVARIANTS TypeOK NeverTooMuchFree FreeSpaceFound PercentageInRange EveryGroupScanned
CHECK_DEADLOCK FALSE
