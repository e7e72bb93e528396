\* A test that does not run leaves its file system mounted.
SPECIFICATION Spec
CONSTANTS
  d1 = d1
  d2 = d2
  d3 = d3
  f1 = f1
  f2 = f2
  None = None
  NSections = 2
  NTests = 2
  NumRuns = 1
  Devices = {d1}
  Device <- FullDevice
  WithMkfs = {1, 2}
  WithMount = {1, 2}
  WithBefore = {1}
  WithAfter = {1}
  Remounting = {1}
  MayNotRun = {2}
  Fns = {f1, f2}
  TestFns <- FullTestFns
  SectionFns <- FullSectionFns
  MaxStarts = 1
INVARIANT UnmountedBetweenTests
CHECK_DEADLOCK FALSE
