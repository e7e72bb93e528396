------------------------------ MODULE MCFsperf ------------------------------
(* Instances of Fsperf for TLC: the tests and the command lines.            *)
EXTENDS Fsperf

Class == [t \in Tests |-> IF t = "small" THEN "Small" ELSE "Other"]

CommandLine(testonly, purpose, sections, compare, fragmentation, tests) ==
  [testonly |-> testonly, purpose |-> purpose, sections |-> sections, compare |-> compare,
   fragmentation |-> fragmentation, tests |-> tests, numruns |-> 1]

\* A baseline and a test of it, in one section compared with the other, and
\* with the tests of frag_tests.
CommandLines == {
  CommandLine(FALSE, "continuous", Sections, None, FALSE, {}),
  CommandLine(TRUE, "continuous", {"xfs"}, "btrfs", FALSE, {"Small"}),
  CommandLine(TRUE, "continuous", {"btrfs"}, None, TRUE, {}) }

\* A label, stored and tested twice over, with a oneoff.
OneoffLines == {
  [CommandLine(FALSE, "ab", {"btrfs"}, None, FALSE, {}) EXCEPT !.numruns = 2],
  CommandLine(TRUE, "ab", {"btrfs"}, None, FALSE, {}) }
=============================================================================
