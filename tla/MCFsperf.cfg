\* Baselines, test-only runs and deaths of fsperf, over several days.
SPECIFICATION Spec
CONSTANTS
  Sections = {"btrfs", "xfs"}
  Tests = {"small", "four"}
  ClassOf <- Class
  Oneoff = {}
  Frag = {"four"}
  Disabled = {}
  Purposes = {"continuous"}
  TestOnly = "TMP-TEST-ONLY"
  None = None
  Invocations <- CommandLines
  CleanDays = 2
  WeekDays = 1
  SessionDays = 1
  MaxDay = 3
  MaxStarts = 3
INVARIANTS TypeOK ReportIsOwn OnlyDiedLeaveRows
PROPERTY BaselinesKept
CHECK_DEADLOCK FALSE
