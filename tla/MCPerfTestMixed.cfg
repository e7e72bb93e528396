\* Sections that lack mkfs or mount, and several runs of one test.
SPECIFICATION FairSpec
CONSTANTS
  d1 = d1
  d2 = d2
  d3 = d3
  f1 = f1
  f2 = f2
  None = None
  NSections = 3
  NTests = 2
  NumRuns = 2
  Devices = {d1, d2, d3}
  Device <- MixedDevice
  WithMkfs = {1, 2}
  WithMount = {1, 3}
  WithBefore = {1, 2}
  WithAfter = {1}
  Remounting = {1}
  MayNotRun = {1}
  Fns = {f1, f2}
  TestFns <- MixedTestFns
  SectionFns <- MixedSectionFns
  MaxStarts = 2
INVARIANTS MountTracked StaleMountLeft NoStaleResults
PROPERTIES ImplementsSuite
CHECK_DEADLOCK FALSE
