\* Sections with all options: the whole life cycle, twice started.
SPECIFICATION FairSpec
CONSTANTS
  d1 = d1
  d2 = d2
  d3 = d3
  f1 = f1
  f2 = f2
  None = None
  NSections = 2
  NTests = 2
  NumRuns = 1
  Devices = {d1}
  Device <- FullDevice
  WithMkfs = {1, 2}
  WithMount = {1, 2}
  WithBefore = {1}
  WithAfter = {1}
  Remounting = {1}
  MayNotRun = {2}
  Fns = {f1, f2}
  TestFns <- FullTestFns
  SectionFns <- FullSectionFns
  MaxStarts = 2
INVARIANTS TypeOK IndInv MountTracked TestSeesFreshFs CleanHandover BeforeKilled NoStaleResults RowsInOrder DoneIsComplete
PROPERTIES ImplementsSuite ExceptionEndsSuite EveryStartEnds
CHECK_DEADLOCK FALSE
