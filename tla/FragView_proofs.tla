-------------------------- MODULE FragView_proofs --------------------------
(* The scan of a block group, proved for every dump: any groups and extents, *)
(* in any order, overlapping or not.                                         *)
EXTENDS FragView, FiniteSetTheorems, TLAPS

USE LinesAssumption DEF Errors, Types, Extents, Groups, Frags

LEMMA EndType == \A x \in Extents \cup Groups : End(x) \in Nat /\ x.offset \in Nat /\ x.offset <= End(x)
  BY DEF End

\* Replacing an entry of a BTreeMap adds nothing but the entry.
LEMMA ReplaceType == \A S, x : \A y \in Replace(S, x) : y \in S \/ y = x
  BY DEF Replace

LEMMA FoundIsGroup ==
  \A o : \A g \in find_block_group(o) : g \in block_groups /\ g.offset <= o
  BY DEF find_block_group

LEMMA InitInv == Init => IndInv
  BY DEF Init, IndInv, TypeOK, NeverTooMuchFree, PercentageInRange, EveryGroupScanned, GroupsInv,
         ScanInv, ProgressInv, Contained, NoGroup

-----------------------------------------------------------------------------
(* Reading the dump.                                                        *)

\* While lines are read, only the groups, pc and error change.
LEMMA ReadInv ==
  ASSUME IndInv, pc = "read", block_groups' \subseteq Groups, UNCHANGED <<todo, scan, frags>>,
         \A g \in block_groups' : Contained(g),
         \/ UNCHANGED <<pc, error>>
         \/ pc' = "failed" /\ error' \in Errors \ {"BeforeStart", "TooMuchFree"}
  PROVE  IndInv'
<1>. USE DEF IndInv, scan
<1>1. TypeOK' /\ NeverTooMuchFree' /\ PercentageInRange' /\ EveryGroupScanned'
  BY DEF TypeOK, NeverTooMuchFree, PercentageInRange, EveryGroupScanned, ProgressInv
<1>2. GroupsInv' /\ ScanInv'
  BY DEF GroupsInv, ScanInv, Contained, End
<1>3. ProgressInv'
  BY DEF ProgressInv
<1>. QED  BY <1>1, <1>2, <1>3

LEMMA InsGroupInv == IndInv /\ InsGroup => IndInv'
<1>. SUFFICES ASSUME IndInv, InsGroup PROVE IndInv'
  OBVIOUS
<1>1. PICK l \in GroupLines : block_groups' = Replace(block_groups, Group(l.offset, l.len, {}, {}))
  BY DEF InsGroup, ins_block_group
<1>. DEFINE g == Group(l.offset, l.len, {}, {})
<1>2. g \in Groups /\ Contained(g)
  BY DEF Group, Contained
<1>3. \A h \in block_groups' : h \in block_groups \/ h = g
  BY <1>1, ReplaceType
<1>. HIDE DEF g
<1>4. \A h \in block_groups' : h \in Groups /\ Contained(h)
  BY <1>2, <1>3 DEF IndInv, TypeOK, GroupsInv
<1>. QED  BY <1>4, ReadInv DEF InsGroup

LEMMA DelGroupInv == IndInv /\ DelGroup => IndInv'
<1>. SUFFICES ASSUME IndInv, DelGroup PROVE IndInv'
  OBVIOUS
<1>1. \A h \in block_groups' : h \in Groups /\ Contained(h)
  BY DEF DelGroup, IndInv, TypeOK, GroupsInv
<1>. QED  BY <1>1, ReadInv DEF DelGroup

LEMMA InsExtentInv == IndInv /\ InsExtent => IndInv'
<1>. SUFFICES ASSUME IndInv, InsExtent PROVE IndInv'
  OBVIOUS
<1>1. PICK l \in ExtentLines :
        \/ Fail("MissingBg") /\ UNCHANGED block_groups
        \/ \E g \in find_block_group(l.offset) : BlockGroup_ins_extent(g, l)
  BY DEF InsExtent
<1>2. CASE Fail("MissingBg") /\ UNCHANGED block_groups
  BY <1>2, ReadInv DEF InsExtent, Fail, IndInv, TypeOK, GroupsInv, Contained, End
<1>3. CASE \E g \in find_block_group(l.offset) : BlockGroup_ins_extent(g, l)
  <2>1. PICK g \in find_block_group(l.offset) : BlockGroup_ins_extent(g, l)
    BY <1>3
  <2>2. g \in block_groups /\ g \in Groups /\ Contained(g) /\ g.offset <= l.offset
    BY FoundIsGroup DEF IndInv, TypeOK, GroupsInv
  <2>3. l.offset \in Nat /\ l.len \in Nat /\ l.type \in Types
    OBVIOUS
  <2>. DEFINE x == [offset |-> l.offset, len |-> l.len]
              new == Group(g.offset, g.len, Replace(g.extents, x), g.types \cup {l.type})
  <2>4. CASE /\ UNCHANGED <<pc, error>> /\ block_groups' = Replace(block_groups, new)
             /\ ~(End(l) > End(g))
    <3>1. \A y \in Replace(g.extents, x) :
            y \in Extents /\ g.offset <= y.offset /\ End(y) <= End(g)
      <4>1. \A y \in g.extents : y \in Extents /\ g.offset <= y.offset /\ End(y) <= End(g)
        BY <2>2 DEF Contained
      <4>2. x \in Extents /\ g.offset <= x.offset /\ End(x) <= End(g)
        <5>1. End(x) = End(l) /\ End(l) \in Nat /\ End(g) \in Nat
          BY <2>2, <2>3 DEF End
        <5>. QED  BY <2>2, <2>3, <2>4, <5>1
      <4>. QED  BY <4>1, <4>2, ReplaceType
    <3>2. new.extents = Replace(g.extents, x) /\ new.offset = g.offset /\ End(new) = End(g)
      BY DEF Group, End
    <3>3. new \in Groups
      BY <2>2, <3>1 DEF Group
    <3>4. Contained(new)
      BY <3>1, <3>2 DEF Contained
    <3>. HIDE DEF new
    <3>5. \A h \in block_groups' : h \in Groups /\ Contained(h)
      BY <2>4, <3>3, <3>4, ReplaceType DEF IndInv, TypeOK, GroupsInv
    <3>. QED  BY <2>4, <3>5, ReadInv DEF InsExtent
  <2>5. CASE UNCHANGED block_groups /\ (Fail("PastEnd") \/ Fail("panic"))
    BY <2>5, ReadInv DEF InsExtent, Fail, IndInv, TypeOK, GroupsInv, Contained, End
  <2>6. ~(l.offset < g.offset)
    BY <2>2, <2>3
  <2>. QED  BY <2>1, <2>4, <2>5, <2>6 DEF BlockGroup_ins_extent
<1>. QED  BY <1>1, <1>2, <1>3

LEMMA DelExtentInv == IndInv /\ DelExtent => IndInv'
<1>. SUFFICES ASSUME IndInv, DelExtent PROVE IndInv'
  OBVIOUS
<1>1. PICK o \in Deletable :
        \/ Fail("MissingBg") /\ UNCHANGED block_groups
        \/ Fail("MissingExtent") /\ UNCHANGED block_groups
        \/ \E g \in find_block_group(o) :
             /\ block_groups' = Replace(block_groups,
                  Group(g.offset, g.len, {x \in g.extents : x.offset # o}, g.types))
             /\ UNCHANGED <<pc, error>>
  BY DEF DelExtent
<1>2. CASE (Fail("MissingBg") \/ Fail("MissingExtent")) /\ UNCHANGED block_groups
  BY <1>2, ReadInv DEF DelExtent, Fail, IndInv, TypeOK, GroupsInv, Contained, End
<1>3. ASSUME NEW g \in find_block_group(o),
             block_groups' = Replace(block_groups,
                  Group(g.offset, g.len, {x \in g.extents : x.offset # o}, g.types)),
             UNCHANGED <<pc, error>>
      PROVE  IndInv'
  <2>. DEFINE new == Group(g.offset, g.len, {x \in g.extents : x.offset # o}, g.types)
  <2>1. g \in Groups /\ Contained(g)
    BY FoundIsGroup DEF IndInv, TypeOK, GroupsInv
  <2>2. new \in Groups /\ Contained(new)
    BY <2>1 DEF Group, Contained, End
  <2>. HIDE DEF new
  <2>3. \A h \in block_groups' : h \in Groups /\ Contained(h)
    BY <1>3, <2>2, ReplaceType DEF IndInv, TypeOK, GroupsInv, new
  <2>. QED  BY <1>3, <2>3, ReadInv DEF DelExtent
<1>. QED  BY <1>1, <1>2, <1>3

LEMMA BadLineInv == IndInv /\ BadLine => IndInv'
  BY ReadInv DEF BadLine, Fail, IndInv, TypeOK, GroupsInv, Contained, End

LEMMA EndOfFileInv == IndInv /\ EndOfFile => IndInv'
<1>. SUFFICES ASSUME IndInv, EndOfFile PROVE IndInv'
  OBVIOUS
<1>. USE DEF IndInv, EndOfFile, scan
<1>1. TypeOK' /\ NeverTooMuchFree' /\ PercentageInRange' /\ EveryGroupScanned'
  BY DEF TypeOK, NeverTooMuchFree, PercentageInRange, EveryGroupScanned
<1>2. error = "none"
  BY DEF ProgressInv, ScanInv
<1>3. GroupsInv' /\ ScanInv'
  BY <1>2 DEF GroupsInv, ScanInv, Contained, End
<1>4. ProgressInv'
  BY DEF ProgressInv
<1>. QED  BY <1>1, <1>3, <1>4

-----------------------------------------------------------------------------
(* The scan.                                                                *)

LEMMA NextGroupInv == IndInv /\ NextGroup => IndInv'
<1>. SUFFICES ASSUME IndInv, NextGroup PROVE IndInv'
  OBVIOUS
<1>. USE DEF IndInv
<1>1. PICK g \in todo :
        /\ todo' = todo \ {g}
        /\ IF "Data" \in g.types THEN StartScan(g, g.extents, 0) ELSE UNCHANGED <<pc, scan>>
  BY DEF NextGroup
<1>2. /\ pc = "stats" /\ error = "none" /\ UNCHANGED <<error, block_groups, frags>>
      /\ g \in block_groups /\ g \in Groups /\ Contained(g)
  BY DEF NextGroup, ScanInv, TypeOK, GroupsInv
<1>3. CASE ~("Data" \in g.types)
  <2>1. TypeOK' /\ NeverTooMuchFree' /\ PercentageInRange' /\ EveryGroupScanned' /\ ScanInv'
    BY <1>1, <1>2, <1>3 DEF TypeOK, NeverTooMuchFree, PercentageInRange, EveryGroupScanned, ScanInv, scan
  <2>2. GroupsInv' /\ ProgressInv'
    BY <1>1, <1>2, <1>3 DEF GroupsInv, Contained, End, ProgressInv, scan
  <2>. QED  BY <2>1, <2>2
<1>4. CASE "Data" \in g.types
  <2>1. /\ pc' = "scan" /\ bg' = g /\ rest' = g.extents
        /\ last_extent_end' = g.offset /\ total_free' = 0 /\ max_free' = 0
    BY <1>1, <1>4 DEF StartScan
  <2>2. TypeOK' /\ NeverTooMuchFree' /\ PercentageInRange' /\ EveryGroupScanned'
    BY <1>1, <1>2, <2>1 DEF TypeOK, NeverTooMuchFree, PercentageInRange, EveryGroupScanned
  <2>3. GroupsInv'
    BY <1>2, <2>1 DEF GroupsInv, Contained, End
  <2>4. ScanInv'
    BY <1>2, <2>1 DEF ScanInv, Contained, End
  <2>5. ProgressInv'
    BY <1>1, <1>2, <1>4, <2>1 DEF ProgressInv
  <2>. QED  BY <2>2, <2>3, <2>4, <2>5
<1>. QED  BY <1>3, <1>4

\* The sums of one call of add_free that stays within the group.
LEMMA AddFree ==
  ASSUME TypeOK, pc = "scan", ScanInv, NEW len \in Nat, NEW next \in {"scan", "stats"},
         len > 0, bg.offset + total_free + len <= End(bg), add_free(len, next)
  PROVE  /\ total_free' = total_free + len /\ max_free' \in Nat /\ total_free' <= bg.len
         /\ max_free' <= total_free' /\ max_free' # 0
         /\ pc' = next /\ UNCHANGED error
<1>1. bg.offset \in Nat /\ bg.len \in Nat /\ total_free \in Nat /\ max_free \in Nat
  BY DEF TypeOK
<1>2. total_free + len <= bg.len
  BY <1>1 DEF End
<1>3. max_free <= total_free
  BY DEF ScanInv
<1>. QED  BY <1>1, <1>2, <1>3 DEF add_free

LEMMA ScanExtentInv == IndInv /\ ScanExtent => IndInv'
<1>. SUFFICES ASSUME IndInv, ScanExtent PROVE IndInv'
  OBVIOUS
<1>. USE DEF IndInv
<1>1. PICK x \in rest :
        /\ IsFirst(x, rest) /\ rest' = rest \ {x} /\ last_extent_end' = End(x)
        /\ IF x.offset > last_extent_end
           THEN add_free(x.offset - last_extent_end, "scan")
           ELSE UNCHANGED <<pc, error, total_free, max_free>>
  BY DEF ScanExtent
<1>2. /\ pc = "scan" /\ error = "none" /\ UNCHANGED <<block_groups, todo, bg, frags>>
      /\ bg \in Groups /\ rest \subseteq bg.extents /\ x \in Extents /\ Contained(bg)
      /\ last_extent_end \in Nat /\ total_free \in Nat /\ max_free \in Nat
  BY DEF ScanExtent, ScanInv, TypeOK, GroupsInv
<1>3. /\ bg.offset <= x.offset /\ End(x) <= End(bg) /\ End(x) \in Nat /\ x.offset <= End(x)
      /\ bg.offset + total_free <= last_extent_end /\ bg.offset + total_free <= x.offset
      /\ x.offset \in Nat /\ bg.offset \in Nat /\ bg.len \in Nat /\ End(bg) \in Nat
  BY <1>2, EndType DEF Contained, ScanInv
<1>4. \A y \in rest' : y \in Extents /\ x.offset <= y.offset
  BY <1>1, <1>2 DEF IsFirst
<1>5. /\ pc' = "scan" /\ error' = "none" /\ total_free' \in Nat /\ max_free' \in Nat
      /\ max_free' <= total_free' /\ (max_free' = 0 => total_free' = 0)
      /\ bg.offset + total_free' <= x.offset
  <2>1. CASE x.offset > last_extent_end
    <3>1. /\ x.offset - last_extent_end \in Nat /\ x.offset - last_extent_end > 0
          /\ bg.offset + total_free + (x.offset - last_extent_end) <= x.offset
      BY <1>2, <1>3, <2>1
    <3>2. bg.offset + total_free + (x.offset - last_extent_end) <= End(bg)
      BY <1>2, <1>3, <3>1
    <3>. HIDE DEF IndInv
    <3>. QED  BY <1>1, <1>2, <1>3, <2>1, <3>1, <3>2, AddFree DEF IndInv
  <2>2. CASE ~(x.offset > last_extent_end)
    BY <1>1, <1>2, <1>3, <2>2 DEF ScanInv
  <2>. QED  BY <2>1, <2>2
<1>6. TypeOK'
  BY <1>1, <1>2, <1>3, <1>5 DEF TypeOK
<1>7. NeverTooMuchFree' /\ PercentageInRange' /\ EveryGroupScanned'
  BY <1>2, <1>5 DEF NeverTooMuchFree, PercentageInRange, EveryGroupScanned
<1>8. GroupsInv' /\ ProgressInv'
  BY <1>2, <1>5 DEF GroupsInv, ProgressInv, Contained, End
<1>9. ScanInv'
  <2>1. End(bg)' = End(bg) /\ last_extent_end' = End(x)
    BY <1>1, <1>2 DEF End
  <2>. QED  BY <1>2, <1>3, <1>4, <1>5, <2>1 DEF ScanInv
<1>. QED  BY <1>6, <1>7, <1>8, <1>9

LEMMA ScanEndInv == IndInv /\ ScanEnd => IndInv'
<1>. SUFFICES ASSUME IndInv, ScanEnd PROVE IndInv'
  OBVIOUS
<1>. USE DEF IndInv
<1>1. /\ pc = "scan" /\ error = "none" /\ UNCHANGED <<block_groups, todo, bg, rest, last_extent_end>>
      /\ bg \in Groups /\ bg.offset \in Nat /\ bg.len \in Nat /\ End(bg) = bg.offset + bg.len
      /\ last_extent_end \in Nat /\ total_free \in Nat /\ max_free \in Nat
      /\ bg.offset + total_free <= last_extent_end /\ bg.offset + total_free <= End(bg)
      /\ max_free <= total_free /\ (max_free = 0 => total_free = 0)
  BY DEF ScanEnd, ScanInv, TypeOK, End
<1>2. /\ pc' = "stats" /\ error' = "none" /\ total_free' \in Nat /\ max_free' \in Nat
      /\ total_free' <= bg.len /\ max_free' <= total_free' /\ (max_free' = 0 => total_free' = 0)
  <2>1. CASE last_extent_end < End(bg)
    <3>1. /\ End(bg) - last_extent_end \in Nat /\ End(bg) - last_extent_end > 0
          /\ bg.offset + total_free + (End(bg) - last_extent_end) <= End(bg)
      BY <1>1, <2>1
    <3>2. add_free(End(bg) - last_extent_end, "stats")
      BY <2>1 DEF ScanEnd
    <3>. QED  BY <1>1, <3>1, <3>2, AddFree
  <2>2. CASE ~(last_extent_end < End(bg))
    BY <1>1, <2>2 DEF ScanEnd
  <2>. QED  BY <2>1, <2>2
<1>. DEFINE f == [bg |-> bg, total_free |-> total_free', max_free |-> max_free']
<1>3. frags' = frags \cup {f}
  BY <1>2 DEF ScanEnd
<1>4. /\ f \in Frags /\ f.bg = bg /\ f.max_free <= f.total_free /\ f.total_free <= f.bg.len
      /\ f.max_free = 0 => f.total_free = 0
  BY <1>1, <1>2
<1>. HIDE DEF f
<1>5. TypeOK'
  BY <1>1, <1>2, <1>3, <1>4 DEF TypeOK
<1>6. NeverTooMuchFree' /\ PercentageInRange' /\ EveryGroupScanned'
  BY <1>2, <1>3, <1>4 DEF NeverTooMuchFree, PercentageInRange, EveryGroupScanned
<1>7. GroupsInv' /\ ScanInv'
  BY <1>1, <1>2 DEF GroupsInv, ScanInv, Contained, End
<1>8. ProgressInv'
  BY <1>1, <1>2, <1>3, <1>4 DEF ProgressInv
<1>. QED  BY <1>5, <1>6, <1>7, <1>8

LEMMA PrintInv == IndInv /\ PrintStats => IndInv'
<1>. SUFFICES ASSUME IndInv, PrintStats PROVE IndInv'
  OBVIOUS
<1>. USE DEF IndInv, PrintStats, scan
<1>1. TypeOK' /\ NeverTooMuchFree' /\ PercentageInRange' /\ GroupsInv' /\ ScanInv'
  BY DEF TypeOK, NeverTooMuchFree, PercentageInRange, GroupsInv, ScanInv, Contained, End
<1>2. EveryGroupScanned' /\ ProgressInv'
  BY DEF EveryGroupScanned, ProgressInv
<1>. QED  BY <1>1, <1>2

-----------------------------------------------------------------------------
(* What the scan finds, against the units no extent covers.                 *)

LEMMA FreeFinite ==
  \A g \in Groups, p \in Nat :
    /\ IsFiniteSet(FreeUnits(g)) /\ IsFiniteSet(FreeBefore(g, p))
    /\ Cardinality(FreeBefore(g, p)) \in Nat
<1>. SUFFICES ASSUME NEW g \in Groups, NEW p \in Nat
              PROVE  /\ IsFiniteSet(FreeUnits(g)) /\ IsFiniteSet(FreeBefore(g, p))
                     /\ Cardinality(FreeBefore(g, p)) \in Nat
  OBVIOUS
<1>. DEFINE units == g.offset .. End(g) - 1
<1>1. g.offset \in Int /\ End(g) - 1 \in Int
  BY DEF End
<1>2. IsFiniteSet(units)
  BY <1>1, FS_Interval
<1>3. FreeUnits(g) \in SUBSET units /\ FreeBefore(g, p) \in SUBSET FreeUnits(g)
  BY DEF FreeUnits, FreeBefore
<1>. HIDE DEF units
<1>4. IsFiniteSet(FreeUnits(g))
  BY <1>2, <1>3, FS_Subset
<1>5. IsFiniteSet(FreeBefore(g, p))
  BY <1>3, <1>4, FS_Subset
<1>. QED  BY <1>4, <1>5, FS_CardinalityType

\* The units between the end of the last extent and a position p before which
\* no other extent begins are counted as free: all that is free there, and
\* nothing else if the extents do not overlap.
LEMMA GapCounted ==
  ASSUME IndInv, FoundInv, pc = "scan", NEW p \in Nat, bg.offset <= p, p <= End(bg),
         \A y \in rest : p <= y.offset,
         NoOverlap(bg) => last_extent_end <= p,
         NEW free \in Nat,
         free = IF p > last_extent_end THEN total_free + (p - last_extent_end) ELSE total_free
  PROVE  /\ Cardinality(FreeBefore(bg, p)) <= free
         /\ NoOverlap(bg) => free = Cardinality(FreeBefore(bg, p))
<1>. DEFINE L == last_extent_end
            old == FreeBefore(bg, L)
            gap == L .. p - 1
<1>1. /\ bg \in Groups /\ bg.offset \in Nat /\ End(bg) \in Nat /\ L \in Nat /\ total_free \in Nat
      /\ rest \subseteq bg.extents /\ \A y \in bg.extents : y \in Extents /\ End(y) \in Nat
      /\ bg.offset <= L
  BY EndType DEF IndInv, TypeOK, ScanInv
<1>2. IsFiniteSet(old) /\ Cardinality(old) \in Nat /\ IsFiniteSet(gap)
      /\ Cardinality(gap) = (IF p > L THEN p - L ELSE 0)
  <2>1. IsFiniteSet(gap) /\ Cardinality(gap) = IF L > p - 1 THEN 0 ELSE (p - 1) - L + 1
    <3>1. L \in Int /\ p - 1 \in Int
      BY <1>1
    <3>. QED  BY <3>1, FS_Interval
  <2>2. IsFiniteSet(old) /\ Cardinality(old) \in Nat
    BY <1>1, FreeFinite
  <2>. QED  BY <1>1, <2>1, <2>2
<1>3. free = total_free + Cardinality(gap)
  BY <1>1, <1>2
<1>4. FreeBefore(bg, p) \in SUBSET (old \cup gap)
  BY <1>1 DEF FreeBefore, FreeUnits
<1>5. /\ IsFiniteSet(old \cup gap) /\ IsFiniteSet(old \cap gap)
      /\ Cardinality(old \cup gap) = Cardinality(old) + Cardinality(gap) - Cardinality(old \cap gap)
  BY <1>2, FS_Union, FS_Intersection
<1>6. old \cap gap = {}
  BY <1>1 DEF FreeBefore, FreeUnits
<1>7. Cardinality(old \cup gap) = Cardinality(old) + Cardinality(gap)
  <2>1. Cardinality(old \cap gap) = 0
    BY <1>6, FS_EmptySet
  <2>. HIDE DEF old, gap
  <2>2. Cardinality(gap) \in Nat
    BY <1>2, FS_CardinalityType
  <2>. QED  BY <1>2, <1>5, <2>1, <2>2
<1>8. Cardinality(FreeBefore(bg, p)) <= Cardinality(old) + Cardinality(gap)
  BY <1>4, <1>5, <1>7, FS_Subset
<1>9. Cardinality(FreeBefore(bg, p)) <= free
  <2>1. Cardinality(old) <= total_free /\ Cardinality(FreeBefore(bg, p)) \in Nat
    BY <1>1, FreeFinite DEF FoundInv
  <2>. QED  BY <1>1, <1>2, <1>3, <1>8, <2>1
<1>10. ASSUME NoOverlap(bg) PROVE free = Cardinality(FreeBefore(bg, p))
  <2>1. \A u \in gap : u \in FreeUnits(bg)
    <3>. SUFFICES ASSUME NEW u \in gap, NEW y \in bg.extents PROVE u < y.offset \/ u >= End(y)
      BY <1>1 DEF FreeUnits
    <3>1. CASE y \in rest
      BY <1>1, <3>1
    <3>2. CASE y \notin rest
      BY <1>1, <1>10, <3>2 DEF FoundInv
    <3>. QED  BY <3>1, <3>2
  <2>2. FreeBefore(bg, p) = old \cup gap
    BY <1>1, <1>4, <1>10, <2>1 DEF FreeBefore, FreeUnits
  <2>3. total_free = Cardinality(old)
    BY <1>10 DEF FoundInv
  <2>. QED  BY <1>3, <1>7, <2>2, <2>3
<1>. QED  BY <1>9, <1>10

\* And the longest run of free units before p is noted.
LEMMA RunNoted ==
  ASSUME IndInv, FoundInv, pc = "scan", NEW p \in Nat, bg.offset <= p, p <= End(bg),
         \A y \in rest : p <= y.offset,
         NoOverlap(bg) => last_extent_end <= p,
         NEW max \in Nat,
         max = IF p > last_extent_end /\ p - last_extent_end > max_free
               THEN p - last_extent_end ELSE max_free
  PROVE  /\ NoneEmpty(bg) => \A u \in bg.offset .. End(bg) : \A n \in 0..bg.len :
              RunBefore(bg, p, u, n) => n <= max
         /\ NoOverlap(bg) => max \in RunLengths(bg)
<1>. DEFINE L == last_extent_end
<1>1. /\ bg \in Groups /\ bg.offset \in Nat /\ bg.len \in Nat /\ End(bg) = bg.offset + bg.len
      /\ L \in Nat /\ max_free \in Nat
      /\ rest \subseteq bg.extents /\ \A y \in bg.extents : y \in Extents /\ End(y) \in Nat
      /\ bg.offset <= L
  BY EndType DEF IndInv, TypeOK, ScanInv, End
<1>2. ASSUME NoneEmpty(bg), NEW u \in bg.offset .. End(bg), NEW n \in 0..bg.len, RunBefore(bg, p, u, n)
      PROVE  n <= max
  <2>1. CASE u + n <= L
    BY <1>1, <1>2, <2>1 DEF FoundInv, RunBefore
  <2>2. CASE u + n > L
    <3>1. u >= L
      <4>1. CASE L = bg.offset
        BY <1>1, <4>1
      <4>2. ASSUME NEW y \in bg.extents \ rest, L = End(y) PROVE u >= L
        <5>1. L - 1 \notin FreeUnits(bg)
          BY <1>1, <1>2, <4>2 DEF FreeUnits, NoneEmpty, End
        <5>. QED  BY <1>1, <1>2, <2>2, <5>1 DEF RunBefore
      <4>. QED  BY <4>1, <4>2 DEF FoundInv
    <3>. QED  BY <1>1, <1>2, <2>2, <3>1 DEF RunBefore
  <2>. QED  BY <1>1, <2>1, <2>2
<1>3. ASSUME NoOverlap(bg) PROVE max \in RunLengths(bg)
  <2>1. CASE p > L /\ p - L > max_free
    <3>1. L .. L + max - 1 \subseteq FreeUnits(bg)
      <4>. SUFFICES ASSUME NEW u \in L .. p - 1, NEW y \in bg.extents PROVE u < y.offset \/ u >= End(y)
        BY <1>1, <2>1 DEF FreeUnits
      <4>1. CASE y \in rest
        BY <1>1, <4>1
      <4>2. CASE y \notin rest
        BY <1>1, <1>3, <4>2 DEF FoundInv
      <4>. QED  BY <4>1, <4>2
    <3>2. max \in 0..bg.len /\ L \in bg.offset .. End(bg)
      BY <1>1, <2>1
    <3>. QED  BY <3>1, <3>2 DEF RunLengths
  <2>2. CASE ~(p > L /\ p - L > max_free)
    BY <1>3, <2>2 DEF FoundInv
  <2>. QED  BY <2>1, <2>2
<1>. QED  BY <1>2, <1>3

-----------------------------------------------------------------------------
(* The theorems.                                                            *)

LEMMA StutterInv == IndInv /\ UNCHANGED vars => IndInv'
  BY DEF IndInv, vars, scan, TypeOK, NeverTooMuchFree, PercentageInRange, EveryGroupScanned,
         GroupsInv, ScanInv, ProgressInv, Contained, End

\* IndInv is an invariant, for every set of lines a dump can consist of.
THEOREM Invariance == Spec => []IndInv
<1>1. IndInv /\ [Next]_vars => IndInv'
  BY InsGroupInv, DelGroupInv, InsExtentInv, DelExtentInv, BadLineInv, EndOfFileInv, NextGroupInv,
     ScanExtentInv, ScanEndInv, PrintInv, StutterInv DEF Next
<1>. QED  BY <1>1, InitInv, PTL DEF Spec

\* Every variable keeps its type.
THEOREM TypeCorrect == Spec => []TypeOK
  BY Invariance, PTL DEF IndInv

\* The sum of the free extents never exceeds the group, whatever the dump.
THEOREM FreeFitsInGroup == Spec => []NeverTooMuchFree
  BY Invariance, PTL DEF IndInv

\* What is reported of a group is a percentage, for groups of every size.
THEOREM Percentages == Spec => []PercentageInRange
  BY Invariance, PTL DEF IndInv

\* Every data group is scanned.
THEOREM AllGroupsScanned == Spec => []EveryGroupScanned
  BY Invariance, PTL DEF IndInv

\* Outside of the scan, only the groups and the results matter.
LEMMA FreeOther ==
  ASSUME FreeInv, UNCHANGED frags, pc' # "scan", \A g \in block_groups' : Keyed(g)
  PROVE  FreeInv'
<1>1. FreeSpaceFound' /\ FoundInv'
  BY DEF FreeInv, FreeSpaceFound, FoundInv, FreeUnits, RunLengths, NoOverlap, NoneEmpty, End
<1>2. \A g \in block_groups' : Keyed(g)'
  BY DEF Keyed
<1>. QED  BY <1>1, <1>2 DEF FreeInv

LEMMA ReplaceKeyed ==
  ASSUME NEW g \in Groups, Keyed(g), NEW x, NEW h, h.extents = Replace(g.extents, x)
  PROVE  Keyed(h)
  BY DEF Keyed, Replace

LEMMA ReadFree ==
  IndInv /\ FreeInv /\ (InsGroup \/ DelGroup \/ InsExtent \/ DelExtent \/ BadLine \/ EndOfFile)
    => FreeInv'
<1>. SUFFICES ASSUME IndInv, FreeInv,
                     InsGroup \/ DelGroup \/ InsExtent \/ DelExtent \/ BadLine \/ EndOfFile
              PROVE  FreeInv'
  OBVIOUS
<1>1. \A g \in block_groups : g \in Groups /\ Keyed(g)
  BY DEF FreeInv, IndInv, TypeOK
<1>2. CASE InsGroup
  <2>1. PICK l \in GroupLines : block_groups' = Replace(block_groups, Group(l.offset, l.len, {}, {}))
    BY <1>2 DEF InsGroup, ins_block_group
  <2>2. Keyed(Group(l.offset, l.len, {}, {}))
    BY DEF Keyed, Group
  <2>3. \A g \in block_groups' : Keyed(g)
    BY <1>1, <2>1, <2>2, ReplaceType
  <2>. QED  BY <1>2, <2>3, FreeOther DEF InsGroup
<1>3. CASE InsExtent
  <2>1. PICK l \in ExtentLines :
          \/ Fail("MissingBg") /\ UNCHANGED block_groups
          \/ \E g \in find_block_group(l.offset) : BlockGroup_ins_extent(g, l)
    BY <1>3 DEF InsExtent
  <2>2. CASE UNCHANGED block_groups
    BY <1>1, <1>3, <2>1, <2>2, FreeOther DEF InsExtent, Fail, BlockGroup_ins_extent
  <2>3. ASSUME ~UNCHANGED block_groups PROVE FreeInv'
    <3>1. PICK g \in find_block_group(l.offset) : BlockGroup_ins_extent(g, l)
      BY <2>1, <2>3
    <3>. DEFINE new == Group(g.offset, g.len, Replace(g.extents, [offset |-> l.offset, len |-> l.len]),
                             g.types \cup {l.type})
    <3>2. block_groups' = Replace(block_groups, new) /\ UNCHANGED pc
      BY <2>3, <3>1 DEF BlockGroup_ins_extent
    <3>3. g \in Groups /\ Keyed(g)
      BY <1>1, FoundIsGroup
    <3>4. Keyed(new)
      <4>1. new.extents = Replace(g.extents, [offset |-> l.offset, len |-> l.len])
        BY DEF Group
      <4>. HIDE DEF new
      <4>. QED  BY <3>3, <4>1, ReplaceKeyed
    <3>. HIDE DEF new
    <3>5. \A h \in block_groups' : Keyed(h)
      BY <1>1, <3>2, <3>4, ReplaceType
    <3>. QED  BY <1>3, <3>2, <3>5, FreeOther DEF InsExtent
  <2>. QED  BY <2>2, <2>3
<1>4. CASE DelExtent
  <2>1. PICK o \in Deletable :
          \/ pc' = "failed" /\ UNCHANGED block_groups
          \/ \E g \in find_block_group(o) :
               /\ block_groups' = Replace(block_groups,
                    Group(g.offset, g.len, {x \in g.extents : x.offset # o}, g.types))
               /\ UNCHANGED <<pc, error>>
    BY <1>4 DEF DelExtent, Fail
  <2>2. CASE pc' = "failed" /\ UNCHANGED block_groups
    BY <1>1, <1>4, <2>2, FreeOther DEF DelExtent
  <2>3. ASSUME NEW g \in find_block_group(o),
               block_groups' = Replace(block_groups,
                 Group(g.offset, g.len, {x \in g.extents : x.offset # o}, g.types)),
               UNCHANGED <<pc, error>>
        PROVE  FreeInv'
    <3>. DEFINE new == Group(g.offset, g.len, {x \in g.extents : x.offset # o}, g.types)
    <3>1. Keyed(new)
      BY <1>1, FoundIsGroup DEF Keyed, Group
    <3>. HIDE DEF new
    <3>2. \A h \in block_groups' : Keyed(h)
      BY <1>1, <2>3, <3>1, ReplaceType DEF new
    <3>. QED  BY <1>4, <2>3, <3>2, FreeOther DEF DelExtent
  <2>. QED  BY <2>1, <2>2, <2>3
<1>5. CASE DelGroup \/ BadLine \/ EndOfFile
  <2>1. UNCHANGED frags /\ pc' # "scan" /\ \A g \in block_groups' : g \in block_groups
    BY <1>5 DEF DelGroup, BadLine, Fail, EndOfFile
  <2>. QED  BY <1>1, <2>1, FreeOther
<1>. QED  BY <1>2, <1>3, <1>4, <1>5

\* Nothing lies before the offset of a group.
LEMMA NextGroupFree == IndInv /\ FreeInv /\ NextGroup => FreeInv'
<1>. SUFFICES ASSUME IndInv, FreeInv, NextGroup PROVE FreeInv'
  OBVIOUS
<1>1. PICK g \in todo :
        IF "Data" \in g.types THEN StartScan(g, g.extents, 0) ELSE UNCHANGED <<pc, scan>>
  BY DEF NextGroup
<1>2. /\ pc = "stats" /\ UNCHANGED <<block_groups, frags>> /\ g \in Groups
      /\ \A h \in block_groups : Keyed(h)
  BY DEF NextGroup, IndInv, TypeOK, FreeInv
<1>3. CASE "Data" \notin g.types
  BY <1>1, <1>2, <1>3, FreeOther
<1>4. CASE "Data" \in g.types
  <2>1. /\ bg' = g /\ rest' = g.extents /\ last_extent_end' = g.offset
        /\ total_free' = 0 /\ max_free' = 0
    BY <1>1, <1>4 DEF StartScan
  <2>2. g.offset \in Nat /\ g.len \in Nat /\ End(g) = g.offset + g.len
    BY <1>2 DEF End
  <2>3. FreeBefore(g, g.offset) = {}
    BY <2>2 DEF FreeBefore, FreeUnits
  <2>4. Cardinality(FreeBefore(g, g.offset)) = 0
    BY <2>3, FS_EmptySet
  <2>5. \A u \in g.offset .. End(g) : \A n \in 0..g.len : RunBefore(g, g.offset, u, n) => n <= 0
    BY <2>2 DEF RunBefore
  <2>6. 0 \in RunLengths(g)
    <3>1. g.offset .. g.offset + 0 - 1 \subseteq FreeUnits(g)
      BY <2>2
    <3>2. 0 \in 0..g.len /\ g.offset \in g.offset .. End(g)
      BY <2>2
    <3>. QED  BY <3>1, <3>2 DEF RunLengths
  <2>7. /\ FreeBefore(g, g.offset)' = FreeBefore(g, g.offset) /\ RunLengths(g)' = RunLengths(g)
    BY DEF FreeBefore, RunLengths, FreeUnits, End
  <2>8. FoundInv'
    BY <2>1, <2>4, <2>5, <2>6 DEF FoundInv, FreeBefore, FreeUnits, RunLengths, RunBefore, NoOverlap, NoneEmpty, End
  <2>9. FreeSpaceFound' /\ \A h \in block_groups' : Keyed(h)'
    BY <1>2 DEF FreeInv, FreeSpaceFound, FreeUnits, RunLengths, NoOverlap, NoneEmpty, End, Keyed
  <2>. QED  BY <2>8, <2>9 DEF FreeInv
<1>. QED  BY <1>3, <1>4

\* The sums of add_free, which by the invariant never exceed the group.
LEMMA AddFreeSums ==
  ASSUME IndInv, pc = "scan", NEW len \in Nat, NEW next \in {"scan", "stats"},
         len > 0, bg.offset + total_free + len <= End(bg), add_free(len, next)
  PROVE  /\ total_free' = total_free + len
         /\ max_free' = IF len > max_free THEN len ELSE max_free
         /\ pc' = next
<1>1. bg.len \in Nat /\ total_free' = total_free + len /\ total_free' <= bg.len /\ total_free' \in Nat
      /\ pc' = next
  BY AddFree DEF IndInv, TypeOK
<1>. QED  BY <1>1 DEF add_free

LEMMA ScanExtentFree == IndInv /\ FreeInv /\ ScanExtent => FreeInv'
<1>. SUFFICES ASSUME IndInv, FreeInv, ScanExtent PROVE FreeInv'
  OBVIOUS
<1>1. PICK x \in rest :
        /\ IsFirst(x, rest) /\ rest' = rest \ {x} /\ last_extent_end' = End(x)
        /\ IF x.offset > last_extent_end
           THEN add_free(x.offset - last_extent_end, "scan")
           ELSE UNCHANGED <<pc, error, total_free, max_free>>
  BY DEF ScanExtent
<1>. DEFINE L == last_extent_end
<1>2. /\ pc = "scan" /\ UNCHANGED <<block_groups, bg, frags>> /\ FoundInv
      /\ bg \in Groups /\ rest \subseteq bg.extents /\ \A y \in bg.extents : y \in Extents
      /\ L \in Nat /\ total_free \in Nat /\ max_free \in Nat
      /\ bg.offset + total_free <= L /\ bg.offset + total_free <= x.offset
      /\ \A h \in block_groups : Keyed(h)
      /\ bg \in block_groups
  BY DEF ScanExtent, ScanInv, ProgressInv, IndInv, TypeOK, FreeInv
<1>3. /\ bg.offset <= x.offset /\ End(x) <= End(bg) /\ End(x) \in Nat /\ x.offset <= End(x)
      /\ x.offset \in Nat /\ bg.offset \in Nat /\ bg.len \in Nat /\ End(bg) \in Nat
  BY <1>2, EndType DEF IndInv, GroupsInv, Contained
<1>4. \A y \in rest : x.offset <= y.offset /\ (y # x => x.offset < y.offset)
  BY <1>1, <1>2 DEF IsFirst, Keyed
<1>5. /\ total_free' = IF x.offset > L THEN total_free + (x.offset - L) ELSE total_free
      /\ max_free' = IF x.offset > L /\ x.offset - L > max_free THEN x.offset - L ELSE max_free
  <2>1. CASE x.offset > L
    <3>1. /\ x.offset - L \in Nat /\ x.offset - L > 0
          /\ bg.offset + total_free + (x.offset - L) <= End(bg)
      BY <1>2, <1>3, <2>1
    <3>. QED  BY <1>1, <1>2, <2>1, <3>1, AddFreeSums
  <2>2. CASE ~(x.offset > L)
    BY <1>1, <2>2
  <2>. QED  BY <2>1, <2>2
<1>6. total_free' \in Nat /\ max_free' \in Nat
  BY <1>2, <1>3, <1>5
<1>7. NoOverlap(bg) => L <= x.offset
  BY <1>2, <1>3 DEF FoundInv, NoOverlap
<1>8. /\ Cardinality(FreeBefore(bg, x.offset)) <= total_free'
      /\ NoOverlap(bg) => total_free' = Cardinality(FreeBefore(bg, x.offset))
  BY <1>2, <1>3, <1>4, <1>5, <1>6, <1>7, GapCounted
<1>9. /\ NoneEmpty(bg) => \A u \in bg.offset .. End(bg) : \A n \in 0..bg.len :
           RunBefore(bg, x.offset, u, n) => n <= max_free'
      /\ NoOverlap(bg) => max_free' \in RunLengths(bg)
  BY <1>2, <1>3, <1>4, <1>5, <1>6, <1>7, RunNoted
\* No unit of x itself is free.
<1>10. FreeBefore(bg, End(x)) = FreeBefore(bg, x.offset)
  BY <1>2, <1>3 DEF FreeBefore, FreeUnits
<1>11. ASSUME NEW u \in bg.offset .. End(bg), NEW n \in 0..bg.len, RunBefore(bg, End(x), u, n), n > 0
       PROVE  RunBefore(bg, x.offset, u, n)
  <2>1. u + n - 1 \in FreeUnits(bg) /\ u + n - 1 < End(x) /\ u \in Nat /\ n \in Nat
    BY <1>3, <1>11 DEF RunBefore
  <2>2. u + n - 1 < x.offset
    BY <1>2, <1>3, <2>1 DEF FreeUnits
  <2>. QED  BY <1>3, <1>11, <2>1, <2>2 DEF RunBefore
<1>12. FoundInv'
  <2>. DEFINE seen == bg.extents \ rest'
  <2>1. seen = (bg.extents \ rest) \cup {x}
    BY <1>1, <1>2
  <2>2. \A z \in rest' : \A y \in seen : y.offset < z.offset
    BY <1>1, <1>2, <1>4, <2>1 DEF FoundInv
  <2>3. \E y \in seen : End(x) = End(y)
    BY <2>1
  <2>4. NoneEmpty(bg) => \A u \in bg.offset .. End(bg) : \A n \in 0..bg.len :
          RunBefore(bg, End(x), u, n) => n <= max_free'
    BY <1>3, <1>6, <1>9, <1>11
  <2>5. NoOverlap(bg) => \A y \in seen : End(y) <= End(x)
    <3>. SUFFICES ASSUME NoOverlap(bg), NEW y \in seen PROVE End(y) <= End(x)
      OBVIOUS
    <3>1. y = x \/ (End(y) <= L /\ y \in Extents)
      BY <1>2, <2>1 DEF FoundInv
    <3>. QED  BY <1>2, <1>3, <1>7, <3>1, EndType
  <2>. HIDE DEF seen
  <2>6. /\ FreeBefore(bg, End(x))' = FreeBefore(bg, End(x)) /\ RunLengths(bg)' = RunLengths(bg)
        /\ NoneEmpty(bg)' = NoneEmpty(bg) /\ NoOverlap(bg)' = NoOverlap(bg)
    BY <1>2 DEF FreeBefore, FreeUnits, RunLengths, NoneEmpty, NoOverlap, End
  <2>. QED
    BY <1>1, <1>2, <1>8, <1>9, <1>10, <2>2, <2>3, <2>4, <2>5, <2>6
    DEF FoundInv, seen, FreeBefore, FreeUnits, RunLengths, RunBefore, NoneEmpty, NoOverlap, End
<1>13. FreeSpaceFound' /\ \A h \in block_groups' : Keyed(h)'
  BY <1>2 DEF FreeInv, FreeSpaceFound, FreeUnits, RunLengths, NoOverlap, NoneEmpty, End, Keyed
<1>. QED  BY <1>12, <1>13 DEF FreeInv

LEMMA ScanEndFree == IndInv /\ FreeInv /\ ScanEnd => FreeInv'
<1>. SUFFICES ASSUME IndInv, FreeInv, ScanEnd PROVE FreeInv'
  OBVIOUS
<1>. DEFINE L == last_extent_end
            f == [bg |-> bg, total_free |-> total_free', max_free |-> max_free']
<1>1. /\ pc = "scan" /\ rest = {} /\ UNCHANGED <<block_groups, bg>> /\ FoundInv
      /\ bg \in Groups /\ bg.offset \in Nat /\ bg.len \in Nat /\ End(bg) = bg.offset + bg.len
      /\ End(bg) \in Nat /\ L \in Nat /\ total_free \in Nat /\ max_free \in Nat
      /\ bg.offset + total_free <= L /\ bg.offset + total_free <= End(bg)
      /\ \A y \in bg.extents : y \in Extents /\ End(y) <= End(bg)
      /\ \A h \in block_groups : Keyed(h)
  BY DEF ScanEnd, ScanInv, IndInv, TypeOK, FreeInv, End, GroupsInv, Contained
<1>2. /\ pc' = "stats"
      /\ total_free' = IF End(bg) > L THEN total_free + (End(bg) - L) ELSE total_free
      /\ max_free' = IF End(bg) > L /\ End(bg) - L > max_free THEN End(bg) - L ELSE max_free
  <2>1. CASE L < End(bg)
    <3>1. /\ End(bg) - L \in Nat /\ End(bg) - L > 0
          /\ bg.offset + total_free + (End(bg) - L) <= End(bg)
      BY <1>1, <2>1
    <3>2. add_free(End(bg) - L, "stats")
      BY <2>1 DEF ScanEnd
    <3>. QED  BY <1>1, <2>1, <3>1, <3>2, AddFreeSums
  <2>2. CASE ~(L < End(bg))
    BY <1>1, <2>2 DEF ScanEnd
  <2>. QED  BY <2>1, <2>2
<1>3. total_free' \in Nat /\ max_free' \in Nat /\ frags' = frags \cup {f}
  BY <1>1, <1>2 DEF ScanEnd
<1>4. L <= End(bg)
  BY <1>1 DEF FoundInv
<1>5. /\ Cardinality(FreeBefore(bg, End(bg))) <= total_free'
      /\ NoOverlap(bg) => total_free' = Cardinality(FreeBefore(bg, End(bg)))
  BY <1>1, <1>2, <1>3, <1>4, GapCounted
<1>6. /\ NoneEmpty(bg) => \A u \in bg.offset .. End(bg) : \A n \in 0..bg.len :
           RunBefore(bg, End(bg), u, n) => n <= max_free'
      /\ NoOverlap(bg) => max_free' \in RunLengths(bg)
  BY <1>1, <1>2, <1>3, <1>4, RunNoted
<1>7. FreeBefore(bg, End(bg)) = FreeUnits(bg)
  BY <1>1 DEF FreeBefore, FreeUnits
<1>8. NoneEmpty(bg) => \A n \in RunLengths(bg) : n <= max_free'
  <2>. SUFFICES ASSUME NoneEmpty(bg), NEW n \in 0..bg.len, NEW u \in bg.offset .. End(bg),
                       u .. u + n - 1 \subseteq FreeUnits(bg)
                PROVE  n <= max_free'
    BY DEF RunLengths
  <2>1. CASE n = 0
    BY <1>3, <2>1
  <2>2. CASE n > 0
    <3>1. u + n - 1 \in FreeUnits(bg)
      BY <1>1, <2>2
    <3>2. RunBefore(bg, End(bg), u, n)
      BY <1>1, <3>1 DEF RunBefore, FreeUnits
    <3>. QED  BY <1>6, <3>2
  <2>. QED  BY <2>1, <2>2
<1>9. ASSUME NEW h \in frags'
      PROVE  /\ Cardinality(FreeUnits(h.bg)) <= h.total_free
             /\ NoneEmpty(h.bg) => \A n \in RunLengths(h.bg) : n <= h.max_free
             /\ NoOverlap(h.bg) => /\ h.total_free = Cardinality(FreeUnits(h.bg))
                                   /\ h.max_free \in RunLengths(h.bg)
  <2>1. CASE h \in frags
    BY <2>1 DEF FreeInv, FreeSpaceFound
  <2>2. CASE h = f
    <3>1. h.bg = bg /\ h.total_free = total_free' /\ h.max_free = max_free'
      BY <2>2
    <3>. QED  BY <1>5, <1>6, <1>7, <1>8, <3>1
  <2>. QED  BY <1>3, <2>1, <2>2
<1>10. FreeSpaceFound'
  BY <1>9 DEF FreeSpaceFound, FreeUnits, RunLengths, NoOverlap, NoneEmpty, End
<1>11. FoundInv' /\ \A h \in block_groups' : Keyed(h)'
  BY <1>1, <1>2 DEF FoundInv, Keyed
<1>. QED  BY <1>10, <1>11 DEF FreeInv

LEMMA FreeInvariance == Spec => []FreeInv
<1>1. Init => FreeInv
  BY DEF Init, FreeInv, FreeSpaceFound, FoundInv
<1>2. IndInv /\ FreeInv /\ [Next]_vars => FreeInv'
  <2>1. IndInv /\ FreeInv /\ PrintStats => FreeInv'
    BY FreeOther DEF PrintStats, FreeInv
  <2>2. FreeInv /\ UNCHANGED vars => FreeInv'
    BY DEF FreeInv, FreeSpaceFound, FoundInv, FreeBefore, FreeUnits, RunLengths, RunBefore,
           NoOverlap, NoneEmpty, End, Keyed, vars, scan
  <2>. QED
    BY <2>1, <2>2, ReadFree, NextGroupFree, ScanExtentFree, ScanEndFree DEF Next
<1>. QED  BY <1>1, <1>2, Invariance, PTL DEF Spec

\* The scan finds all free space, every run of it, and nothing else unless
\* extents overlap, for groups of every size and dumps of every length.
THEOREM FreeSpace == Spec => []FreeSpaceFound
  BY FreeInvariance, PTL DEF FreeInv
=============================================================================
