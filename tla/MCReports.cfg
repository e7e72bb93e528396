\* Pages, graphs and tables, with runs committed and deleted between the queries.
SPECIFICATION Spec
CONSTANTS
  Keys = {"elapsed", "iops"}
  Words <- WordsOf
  HigherKeys = {}
  test_regression_keys = {"elapsed"}
  Configs = {"btrfs"}
  Tests = {"untar"}
  Runs <- RunsOf
  Windows <- WindowsOf
  CompareDays = 2
  MaxRows = 3
  MaxDay = 2
  MaxEvents = 1
  MaxSetbacks = 1
INVARIANTS TypeOK FailedIffRegressed FailedIsWorse FailureShown ShownIsJudged NotItsOwnBaseline SameMetricsComplete GraphsDrawn NeverBetterBothWays TableAgreesWithPage
CHECK_DEADLOCK FALSE
