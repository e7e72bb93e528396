\* The rows of a oneoff outlive the -t run that made them.
SPECIFICATION Spec
CONSTANTS
  Sections = {"btrfs"}
  Tests = {"small", "bgscal"}
  ClassOf <- Class
  Oneoff = {"bgscal"}
  Frag = {}
  Disabled = {}
  Purposes = {"ab"}
  TestOnly = "TMP-TEST-ONLY"
  None = None
  Invocations <- OneoffLines
  CleanDays = 1
  WeekDays = 1
  SessionDays = 1
  MaxDay = 1
  MaxStarts = 2
INVARIANT CurrentRunDiscarded
CHECK_DEADLOCK FALSE
