------------------------------ MODULE FragView ------------------------------
(***************************************************************************)
(* btrfs-frag-view (src/frag/src/main.rs): it reads a dump of block groups *)
(* and extents line by line into a SpaceInfo, then scans every data block  *)
(* group for its free space and reports how fragmented it is.              *)
(*                                                                         *)
(* The lines of the dump are not constrained: the file system is live      *)
(* while btrd walks it (bg-dump.jinja searches each block group anew), so  *)
(* extents may overlap, be repeated or belong to a group that is gone.     *)
(* The scan of a group is one step per extent, as in its loop.  Offsets    *)
(* are abstract units of BLOCK; images are reduced to the bound of the     *)
(* picture every extent is drawn into.                                     *)
(***************************************************************************)
EXTENDS Naturals, FiniteSets

CONSTANTS
  GroupLines,  \* "INS BLOCK-GROUP": [offset, len]
  ExtentLines, \* "INS <type>": [type, offset, len], the type Data or Metadata
  Deletable,   \* offsets of "DEL BLOCK-GROUP" and "DEL <type>" lines
  ImageBlocks  \* the pixels of BlockGroup.img: 512 * 512

Types == {"Data", "Metadata"}
Extents == [offset : Nat, len : Nat]
Groups == [offset : Nat, len : Nat, extents : SUBSET Extents, types : SUBSET Types]

ASSUME LinesAssumption ==
  /\ GroupLines \subseteq Extents /\ Deletable \subseteq Nat /\ ImageBlocks \in Nat
  /\ ExtentLines \subseteq [type : Types, offset : Nat, len : Nat]

VARIABLES
  pc,           \* "read", "stats", "scan"; "done", or "failed" with an error
  error,        \* the FragViewError, "panic", or "none"
  block_groups, \* SpaceInfo.block_groups
  todo,         \* groups dump_stats has yet to look at
  bg,           \* the group whose fragmentation() is being computed
  rest,         \* its extents that are still to be visited
  last_extent_end, total_free, max_free, \* locals of fragmentation()
  frags         \* results of fragmentation(): the group, total_free, max_free

scan == <<bg, rest, last_extent_end, total_free, max_free>>
vars == <<pc, error, block_groups, todo, scan, frags>>

NoGroup == [offset |-> 0, len |-> 0, extents |-> {}, types |-> {}]
Frags == [bg : Groups, total_free : Nat, max_free : Nat]
Errors == {"MissingBg", "MissingExtent", "BeforeStart", "PastEnd", "Parse", "TooMuchFree", "panic"}

TypeOK ==
  /\ pc \in {"read", "stats", "scan", "done", "failed"} /\ error \in Errors \cup {"none"}
  /\ block_groups \subseteq Groups /\ todo \subseteq block_groups /\ bg \in Groups
  /\ rest \subseteq bg.extents
  /\ last_extent_end \in Nat /\ total_free \in Nat /\ max_free \in Nat /\ frags \subseteq Frags

Init ==
  /\ pc = "read" /\ error = "none" /\ block_groups = {} /\ todo = {}
  /\ bg = NoGroup /\ rest = {} /\ last_extent_end = 0 /\ total_free = 0 /\ max_free = 0
  /\ frags = {}

Fail(e) == pc' = "failed" /\ error' = e

-----------------------------------------------------------------------------
(* handle_file: one line after the other, until one of them is an error.    *)

End(x) == x.offset + x.len

\* The BTreeMap entry of an offset is replaced.
Replace(S, x) == {y \in S : y.offset # x.offset} \cup {x}

Group(offset, len, extents, types) ==
  [offset |-> offset, len |-> len, extents |-> extents, types |-> types]

\* Mutation: the extents of a group that is inserted again are kept.
ins_block_group_Keeps(l) ==
  LET old == UNION {g.extents : g \in {g \in block_groups : g.offset = l.offset}} IN
  block_groups' = Replace(block_groups, Group(l.offset, l.len, old, {}))

ins_block_group(l) ==
  block_groups' = Replace(block_groups, Group(l.offset, l.len, {}, {}))

\* The group with the greatest offset up to this one: none, or one.
find_block_group(offset) ==
  {g \in block_groups : /\ g.offset <= offset
                        /\ \A h \in block_groups : h.offset <= offset => h.offset <= g.offset}

\* draw_extent puts one pixel per block of the extent.
Drawable(g, x) == x.len = 0 \/ End(x) - g.offset <= ImageBlocks

BlockGroup_ins_extent(g, l) ==
  IF l.offset < g.offset THEN Fail("BeforeStart") /\ UNCHANGED block_groups
  ELSE IF End(l) > End(g) THEN Fail("PastEnd") /\ UNCHANGED block_groups
  ELSE IF ~Drawable(g, l) THEN Fail("panic") /\ UNCHANGED block_groups
  ELSE /\ block_groups' = Replace(block_groups,
            Group(g.offset, g.len, Replace(g.extents, [offset |-> l.offset, len |-> l.len]),
                  g.types \cup {l.type}))
       /\ UNCHANGED <<pc, error>>

InsGroup ==
  /\ pc = "read" /\ \E l \in GroupLines : ins_block_group(l)
  /\ UNCHANGED <<pc, error, todo, scan, frags>>

DelGroup ==
  /\ pc = "read"
  /\ \E o \in Deletable : block_groups' = {g \in block_groups : g.offset # o}
  /\ UNCHANGED <<pc, error, todo, scan, frags>>

InsExtent ==
  /\ pc = "read"
  /\ \E l \in ExtentLines :
       \/ find_block_group(l.offset) = {} /\ Fail("MissingBg") /\ UNCHANGED block_groups
       \/ \E g \in find_block_group(l.offset) : BlockGroup_ins_extent(g, l)
  /\ UNCHANGED <<todo, scan, frags>>

DelExtent ==
  /\ pc = "read"
  /\ \E o \in Deletable :
       \/ find_block_group(o) = {} /\ Fail("MissingBg") /\ UNCHANGED block_groups
       \/ \E g \in find_block_group(o) :
            IF \E x \in g.extents : x.offset = o
            THEN /\ block_groups' = Replace(block_groups,
                      Group(g.offset, g.len, {x \in g.extents : x.offset # o}, g.types))
                 /\ UNCHANGED <<pc, error>>
            ELSE Fail("MissingExtent") /\ UNCHANGED block_groups
  /\ UNCHANGED <<todo, scan, frags>>

\* Anything else, such as a message of btrd among its output: an unknown word
\* is an error, a missing or malformed number a panic.
BadLine ==
  /\ pc = "read" /\ (Fail("Parse") \/ Fail("panic"))
  /\ UNCHANGED <<block_groups, todo, scan, frags>>

EndOfFile ==
  /\ pc = "read" /\ pc' = "stats" /\ todo' = block_groups
  /\ UNCHANGED <<error, block_groups, scan, frags>>

-----------------------------------------------------------------------------
(* dump_stats: the groups in the order of their offsets, and fragmentation  *)
(* of each that holds data, its extents in the order of theirs.             *)

IsFirst(x, S) == x \in S /\ \A y \in S : x.offset <= y.offset

StartScan(g, extents, max) ==
  /\ pc' = "scan" /\ bg' = g /\ rest' = extents
  /\ last_extent_end' = g.offset /\ total_free' = 0 /\ max_free' = max

\* Mutation: the largest free extent is carried over to the next group.
NextGroup_KeepsMax ==
  /\ pc = "stats"
  /\ \E g \in todo :
       /\ IsFirst(g, todo) /\ todo' = todo \ {g}
       /\ IF "Data" \in g.types THEN StartScan(g, g.extents, max_free) ELSE UNCHANGED <<pc, scan>>
  /\ UNCHANGED <<error, block_groups, frags>>

\* Mutation: a group that also holds metadata is passed over.
NextGroup_PureData ==
  /\ pc = "stats"
  /\ \E g \in todo :
       /\ IsFirst(g, todo) /\ todo' = todo \ {g}
       /\ IF g.types = {"Data"} THEN StartScan(g, g.extents, 0) ELSE UNCHANGED <<pc, scan>>
  /\ UNCHANGED <<error, block_groups, frags>>

\* Mutation: the extents of all groups are visited.
NextGroup_AllExtents ==
  /\ pc = "stats"
  /\ \E g \in todo :
       /\ IsFirst(g, todo) /\ todo' = todo \ {g}
       /\ IF "Data" \in g.types THEN StartScan(g, UNION {h.extents : h \in block_groups}, 0) ELSE UNCHANGED <<pc, scan>>
  /\ UNCHANGED <<error, block_groups, frags>>

NextGroup ==
  /\ pc = "stats"
  /\ \E g \in todo :
       /\ IsFirst(g, todo) /\ todo' = todo \ {g}
       /\ IF "Data" \in g.types THEN StartScan(g, g.extents, 0) ELSE UNCHANGED <<pc, scan>>
  /\ UNCHANGED <<error, block_groups, frags>>

\* BlockGroupFragmentation.add_free, going on at next.
add_free(len, next) ==
  /\ total_free' = total_free + len
  /\ IF total_free' > bg.len THEN Fail("TooMuchFree") /\ UNCHANGED max_free
     ELSE /\ max_free' = IF len > max_free THEN len ELSE max_free
          /\ pc' = next /\ UNCHANGED error

\* Mutation: the end is only noted of an extent that follows free space.
ScanExtent_Skips ==
  /\ pc = "scan"
  /\ \E x \in rest :
       /\ IsFirst(x, rest) /\ rest' = rest \ {x}
       /\ IF x.offset > last_extent_end
          THEN add_free(x.offset - last_extent_end, "scan") /\ last_extent_end' = End(x)
          ELSE UNCHANGED <<pc, error, total_free, max_free, last_extent_end>>
  /\ UNCHANGED <<block_groups, todo, bg, frags>>

ScanExtent ==
  /\ pc = "scan"
  /\ \E x \in rest :
       /\ IsFirst(x, rest) /\ rest' = rest \ {x} /\ last_extent_end' = End(x)
       /\ IF x.offset > last_extent_end
          THEN add_free(x.offset - last_extent_end, "scan")
          ELSE UNCHANGED <<pc, error, total_free, max_free>>
  /\ UNCHANGED <<block_groups, todo, bg, frags>>

ScanEnd ==
  /\ pc = "scan" /\ rest = {}
  /\ IF last_extent_end < End(bg)
     THEN add_free(End(bg) - last_extent_end, "stats")
     ELSE pc' = "stats" /\ UNCHANGED <<error, total_free, max_free>>
  /\ frags' = IF pc' = "failed" THEN frags
              ELSE frags \cup {[bg |-> bg, total_free |-> total_free', max_free |-> max_free']}
  /\ UNCHANGED <<block_groups, todo, bg, rest, last_extent_end>>

PrintStats ==
  /\ pc = "stats" /\ todo = {} /\ pc' = "done"
  /\ UNCHANGED <<error, block_groups, todo, scan, frags>>

Next ==
  \/ InsGroup \/ DelGroup \/ InsExtent \/ DelExtent \/ BadLine \/ EndOfFile
  \/ NextGroup \/ ScanExtent \/ ScanEnd \/ PrintStats

Spec == Init /\ [][Next]_vars

-----------------------------------------------------------------------------
(* Properties.                                                              *)

\* Two errors are defensive: an extent is never before the group it is looked
\* up in, and whatever the dump says, overlapping extents or groups inserted
\* twice, the free space found in a group is never more than the group.
NeverTooMuchFree == error \notin {"BeforeStart", "TooMuchFree"}

\* The units of a group that no extent covers, and the lengths of their runs.
FreeUnits(g) ==
  {u \in g.offset .. End(g) - 1 : \A x \in g.extents : u < x.offset \/ u >= End(x)}
RunLengths(g) ==
  {n \in 0..g.len : \E u \in g.offset..End(g) : u .. u + n - 1 \subseteq FreeUnits(g)}

NoOverlap(g) ==
  \A x, y \in g.extents : x.offset < y.offset => End(x) <= y.offset

NoneEmpty(g) == \A x \in g.extents : x.len > 0

\* fragmentation() misses no free space, whatever the dump, and no run of it but
\* one that an extent of length 0 splits in two; and of extents that do not
\* overlap it finds the free space exactly, and a run as long as the longest.
FreeSpaceFound ==
  \A f \in frags :
    /\ Cardinality(FreeUnits(f.bg)) <= f.total_free
    /\ NoneEmpty(f.bg) => \A n \in RunLengths(f.bg) : n <= f.max_free
    /\ NoOverlap(f.bg) => /\ f.total_free = Cardinality(FreeUnits(f.bg))
                          /\ f.max_free \in RunLengths(f.bg)

\* What is printed is a percentage: the largest free extent is part of the free
\* space, and the free space part of the group.
PercentageInRange ==
  \A f \in frags : f.max_free <= f.total_free /\ f.total_free <= f.bg.len
                   /\ (f.max_free = 0 => f.total_free = 0)

\* One scan per data group, of the group as the dump left it.
EveryGroupScanned ==
  pc = "done" => {f.bg : f \in frags} = {g \in block_groups : "Data" \in g.types}

-----------------------------------------------------------------------------
(* The inductive invariant behind them.                                     *)

\* Extents do not stick out of their group.
Contained(g) == \A x \in g.extents : g.offset <= x.offset /\ End(x) <= End(g)
GroupsInv == Contained(bg) /\ \A g \in block_groups : Contained(g)

\* The free space counted so far lies before everything that is still to be
\* visited, even if the extents visited so far overlap.
ScanInv ==
  /\ pc # "failed" => error = "none"
  /\ pc = "scan" =>
       /\ bg.offset + total_free <= last_extent_end
       /\ \A x \in rest : bg.offset + total_free <= x.offset
       /\ bg.offset + total_free <= End(bg)
       /\ max_free <= total_free /\ (max_free = 0 => total_free = 0)

\* Every data group is still to be scanned, being scanned, or has a result.
ProgressInv ==
  /\ pc = "read" => frags = {} /\ todo = {}
  /\ pc = "scan" => bg \in block_groups /\ "Data" \in bg.types
  /\ \A f \in frags : f.bg \in block_groups /\ "Data" \in f.bg.types
  /\ pc \in {"stats", "scan", "done"} => \A g \in block_groups : "Data" \in g.types =>
       g \in todo \/ (pc = "scan" /\ g = bg) \/ \E f \in frags : f.bg = g
  /\ pc = "done" => todo = {}

\* An extent is keyed by its offset.
Keyed(g) == \A x, y \in g.extents : x.offset = y.offset => x = y

FreeBefore(g, p) == {u \in FreeUnits(g) : u < p}

\* A run of free units that ends at p or before.
RunBefore(g, p, u, n) == u + n <= p /\ u .. u + n - 1 \subseteq FreeUnits(g)

\* What the scan found up to the end of the last extent: at least what is free
\* before it, and of extents that do not overlap exactly that.
FoundInv ==
  pc = "scan" =>
    LET seen == bg.extents \ rest IN
    /\ \A x \in rest : \A y \in seen : y.offset < x.offset
    /\ last_extent_end = bg.offset \/ \E y \in seen : last_extent_end = End(y)
    /\ Cardinality(FreeBefore(bg, last_extent_end)) <= total_free
    /\ NoneEmpty(bg) => \A u \in bg.offset .. End(bg) : \A n \in 0..bg.len :
         RunBefore(bg, last_extent_end, u, n) => n <= max_free
    /\ NoOverlap(bg) => /\ \A y \in seen : End(y) <= last_extent_end
                        /\ total_free = Cardinality(FreeBefore(bg, last_extent_end))
                        /\ max_free \in RunLengths(bg)

\* The part of the invariant that FreeSpaceFound needs.
FreeInv == FreeSpaceFound /\ FoundInv /\ \A g \in block_groups : Keyed(g)

IndInv == /\ TypeOK /\ NeverTooMuchFree /\ PercentageInRange /\ EveryGroupScanned
          /\ GroupsInv /\ ScanInv /\ ProgressInv
=============================================================================
