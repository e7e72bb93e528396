----------------------------- MODULE MCFragView -----------------------------
(* An instance of FragView for TLC.                                         *)
EXTENDS FragView

\* A group that shrinks when it is inserted again, and its neighbour.
Lines_Group == {[offset |-> 0, len |-> 5], [offset |-> 0, len |-> 2], [offset |-> 5, len |-> 3]}

\* Data extents at every offset, some of them across a boundary, an empty one,
\* and one extent of metadata.
Lines_Extent ==
  [type : {"Data"}, offset : 0..6, len : {1, 2}] \cup
  {[type |-> "Data", offset |-> 2, len |-> 0], [type |-> "Metadata", offset |-> 5, len |-> 1]}
=============================================================================
