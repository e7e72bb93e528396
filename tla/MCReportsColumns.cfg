\* The columns of a page against their headings.
SPECIFICATION Spec
CONSTANTS
  Keys = {"elapsed", "iops"}
  Words <- WordsOf
  HigherKeys = {}
  test_regression_keys = {"elapsed"}
  Configs = {"btrfs"}
  Tests = {"untar"}
  Runs <- RunsOf
  Windows <- WindowsOf
  CompareDays = 2
  MaxRows = 3
  MaxDay = 2
  MaxEvents = 0
  MaxSetbacks = 0
INVARIANT ColumnsMatchHeader
CHECK_DEADLOCK FALSE
