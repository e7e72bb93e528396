----------------------------- MODULE MCPerfTest -----------------------------
(* Instances of PerfTest for TLC: the options of the sections and tests.    *)
EXTENDS PerfTest

CONSTANTS d1, d2, d3, f1, f2

\* Two sections on one device; the first test names two functions to trace,
\* the second leaves the choice to the section.
FullDevice == <<d1, d1>>
FullTestFns == <<{f1, f2}, {}>>
FullSectionFns == <<{f1}, {}>>

\* Three sections that lack one option or another, and two tests.
MixedDevice == <<d1, d2, d3>>
MixedTestFns == <<{}, {}>>
MixedSectionFns == <<{f1}, {}, {}>>
=============================================================================
