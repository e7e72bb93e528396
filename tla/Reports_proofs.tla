--------------------------- MODULE Reports_proofs ---------------------------
(* The results page, proved for any database and any order of queries,      *)
(* commits and deletions.                                                   *)
EXTENDS Reports, Metrics_proofs

USE ReportsAssumption DEF Weeks

-----------------------------------------------------------------------------
(* The inductive invariant.                                                 *)

LEMMA ColumnKeys ==
  ASSUME NEW e \in Entries, NEW i \in Weeks
  PROVE  DOMAIN Columns(e)[i] \subseteq Keys /\ Columns(e)[i] = get_avgs(e.window[i])
<1>1. e.window[i] \subseteq Rows
  BY DEF Entries
<1>2. \A r \in Rows : DOMAIN r.values \subseteq Keys
  BY DEF Rows
<1>. QED  BY <1>1, <1>2 DEF Columns, get_avgs

LEMMA EntryType == \A c \in Configs, t \in Tests : Entry(c, t) \in Entries
<1>1. [k \in {} |-> TRUE] \in [{} -> BOOLEAN] /\ {} \in SUBSET Keys
  OBVIOUS
<1>2. [k \in {} |-> TRUE] \in UNION {[D -> BOOLEAN] : D \in SUBSET Keys}
  BY <1>1, Zenon
<1>. HIDE DEF Weeks
<1>. QED  BY <1>2 DEF Entry, Entries

LEMMA InitInv == Init => IndInv
<1>. SUFFICES ASSUME Init PROVE IndInv
  OBVIOUS
<1>. USE DEF Init
<1>1. TypeOK
  BY DEF TypeOK
<1>2. EntryInv /\ PagesInv /\ OrderInv
  BY DEF EntryInv, PagesInv, OrderInv, Ordered
<1>. QED  BY <1>1, <1>2 DEF IndInv

\* What an entry is worth depends on its own fields only.
LEMMA EntryState == \A e, n : UNCHANGED e => Failed(e)' = Failed(e) /\ Passed(e, n)' = Passed(e, n)
  BY DEF Failed, Passed, Judged, NoneMissing, Failing, Columns

\* Steps that leave the entries judged so far, the pages and the world alone.
LEMMA QueryInv ==
  ASSUME IndInv, UNCHANGED <<recent, pages, drawing, world>>, TypeOK',
         pc \notin {"pages", "graphs", "done", "died"},
         pc' \in {"last", "avgs", "check", "old", "new"} => entry' \in Entries,
         pc' \in {"last", "avgs"} => entry'.regression = FALSE,
         pc' = "check" => entry'.regression = FALSE /\ entry'.last \in Rows /\ w' = 1,
         pc' \in {"last", "avgs", "check"} => \A i \in Weeks : Ordered(entry'.window[i])
  PROVE  IndInv'
<1>. USE DEF IndInv, world
<1>1. EntryInv'
  <2>1. \A e \in recent' : IF e.regression THEN Failed(e)' ELSE Passed(e, 4)'
    BY EntryState DEF EntryInv
  <2>2. pc' = "check" => Passed(entry', w' - 1)
    BY DEF Passed
  <2>. QED  BY <2>1, <2>2 DEF EntryInv, Passed, Judged, NoneMissing, Failing, Columns
<1>2. PagesInv'
  BY DEF PagesInv
<1>3. OrderInv'
  BY DEF OrderInv, Ordered
<1>. QED  BY <1>1, <1>2, <1>3

LEMMA StartPageInv == IndInv /\ StartPage => IndInv'
<1>. SUFFICES ASSUME IndInv, StartPage PROVE IndInv'
  OBVIOUS
<1>. USE DEF IndInv, StartPage
<1>1. pages = {} /\ \A r \in db : r.name \in Tests
  BY DEF PagesInv, TypeOK, Rows
<1>2. TypeOK'
  BY <1>1 DEF TypeOK, drawn
<1>3. EntryInv'
  BY DEF EntryInv, Failed, Passed, Judged, NoneMissing, Failing, Columns
<1>4. PagesInv' /\ OrderInv'
  BY DEF PagesInv, drawn, OrderInv, Ordered, Renders, Columns
<1>. QED  BY <1>2, <1>3, <1>4

LEMMA ReadConfigsInv == IndInv /\ ReadConfigs => IndInv'
<1>. SUFFICES ASSUME IndInv, ReadConfigs PROVE IndInv'
  OBVIOUS
<1>1. drawing = {}
  BY DEF ReadConfigs, IndInv, PagesInv
<1>2. pairs' \subseteq Configs \X Tests
  BY DEF ReadConfigs, IndInv, TypeOK, Rows
<1>3. TypeOK'
  BY <1>1, <1>2 DEF IndInv, ReadConfigs, TypeOK, world
<1>. QED  BY <1>3, QueryInv DEF ReadConfigs

LEMMA FirstQueryInv == IndInv /\ FirstQuery => IndInv'
<1>. SUFFICES ASSUME IndInv, FirstQuery PROVE IndInv'
  OBVIOUS
<1>1. PICK p \in todo : /\ todo' = todo \ {p}
                        /\ \/ UNCHANGED <<pc, entry>>
                           \/ pc' = "last" /\ entry' = Entry(p[1], p[2])
  BY DEF FirstQuery
<1>2. p[1] \in Configs /\ p[2] \in Tests
  BY DEF IndInv, TypeOK
<1>3. Entry(p[1], p[2]) \in Entries
  BY <1>2, EntryType
<1>4. TypeOK'
  BY <1>1, <1>3 DEF IndInv, FirstQuery, TypeOK, drawn, world
<1>5. pc = "first" /\ UNCHANGED <<recent, pages, drawing, world>>
  BY DEF FirstQuery, drawn
<1>6. \A i \in Weeks : Ordered(Entry(p[1], p[2]).window[i])
  BY DEF Ordered, Entry
<1>7. Entry(p[1], p[2]).regression = FALSE
  BY DEF Entry
<1>. QED  BY <1>1, <1>3, <1>4, <1>5, <1>6, <1>7, QueryInv

LEMMA LastQueryInv == IndInv /\ LastQuery => IndInv'
<1>. SUFFICES ASSUME IndInv, LastQuery PROVE IndInv'
  OBVIOUS
<1>1. PICK r : r \in Rows \cup {NoRow} /\ entry' = [entry EXCEPT !.last = r]
  BY DEF LastQuery, get_last, Continuous, IndInv, TypeOK
<1>2. entry \in Entries
  BY DEF LastQuery, IndInv, EntryInv
<1>3. entry' \in Entries /\ entry'.window = entry.window /\ entry'.regression = entry.regression
  BY <1>1, <1>2 DEF Entries
<1>4. TypeOK'
  BY <1>3 DEF IndInv, LastQuery, TypeOK, drawn, world
<1>. QED  BY <1>3, <1>4, QueryInv DEF drawn, LastQuery, IndInv, EntryInv, OrderInv

LEMMA WindowQueryInv == IndInv /\ WindowQuery => IndInv'
<1>. SUFFICES ASSUME IndInv, WindowQuery PROVE IndInv'
  OBVIOUS
<1>. DEFINE R == InWindow(entry.config, entry.test, Windows[w])
<1>1. entry \in Entries /\ entry.regression = FALSE /\ w \in Weeks /\ pc = "avgs"
  BY DEF WindowQuery, IndInv, TypeOK, EntryInv
<1>2. R \subseteq db /\ db \subseteq Rows
  BY DEF InWindow, Continuous, IndInv, TypeOK
<1>. HIDE DEF R
<1>3. entry' = [entry EXCEPT !.window = [entry.window EXCEPT ![w] = R]]
  BY <1>1 DEF WindowQuery, R, Entries
<1>4. /\ entry' \in Entries /\ entry'.last = entry.last /\ entry'.regression = FALSE
      /\ entry'.window = [entry.window EXCEPT ![w] = R] /\ entry.window \in [Weeks -> SUBSET Rows]
  BY <1>1, <1>2, <1>3 DEF Entries
<1>5. w' \in Weeks /\ (w = 4 => w' = 1) /\ (w < 4 => pc' = "avgs")
  BY <1>1 DEF WindowQuery
<1>6. pc' \in {"avgs", "died", "check"} /\ (pc' = "check" => w = 4 /\ entry.last # NoRow)
  BY <1>1 DEF WindowQuery
<1>7. TypeOK'
  BY <1>4, <1>5, <1>6 DEF WindowQuery, IndInv, TypeOK, drawn, world
<1>8. pc' = "check" => entry'.last \in Rows /\ w' = 1
  BY <1>1, <1>4, <1>5, <1>6 DEF Entries
<1>9. Ordered(R) /\ \A i \in Weeks : Ordered(entry.window[i])
  BY <1>1, <1>2 DEF IndInv, OrderInv, Ordered
<1>10. \A i \in Weeks : entry'.window[i] = IF i = w THEN R ELSE entry.window[i]
  BY <1>1, <1>4
<1>11. \A i \in Weeks : Ordered(entry'.window[i])
  BY <1>9, <1>10
<1>. QED  BY <1>1, <1>4, <1>6, <1>7, <1>8, <1>11, QueryInv DEF drawn, WindowQuery

\* What one check makes of the entry.
LEMMA CheckedEntry ==
  ASSUME NEW seen, seen \in Examined(get_avgs(entry.window[w]), entry.last.values),
         entry \in Entries, w \in Weeks, entry.regression = FALSE, Passed(entry, w - 1)
  PROVE  /\ Checked(seen) \in Entries
         /\ Checked(seen).last = entry.last /\ Checked(seen).window = entry.window
         /\ IF Checked(seen).regression THEN Failed(Checked(seen)) ELSE Passed(Checked(seen), w)
<1>. DEFINE b == get_avgs(entry.window[w])
            v == entry.last.values
            e == Checked(seen)
            D == DOMAIN entry.verdict \cup seen
            f == [k \in D |-> IF k \in seen THEN Regresses(b[k], v[k], k) ELSE entry.verdict[k]]
<1>1. b = Columns(entry)[w] /\ DOMAIN b \subseteq Keys
  BY ColumnKeys
<1>2. seen \subseteq DOMAIN b /\ (DOMAIN b \subseteq DOMAIN v => seen = DOMAIN b)
  BY SeenTwice
<1>3. PICK C \in SUBSET Keys : entry.verdict \in [C -> BOOLEAN]
  BY DEF Entries
<1>4. D \in SUBSET Keys /\ f \in [D -> BOOLEAN]
  BY <1>1, <1>2, <1>3 DEF Regresses, Beyond
<1>5. check_regression(b, v, seen) \in BOOLEAN
  BY DEF check_regression
<1>6. e = [entry EXCEPT !.regression = check_regression(b, v, seen), !.verdict = f]
  BY DEF Checked
<1>. HIDE DEF b, v, f, e
<1>7. /\ e.regression = check_regression(b, v, seen) /\ e.verdict = f /\ e.last = entry.last
      /\ e.window = entry.window
  BY <1>6 DEF Entries
<1>8. e \in Entries
  <2>1. f \in UNION {[E -> BOOLEAN] : E \in SUBSET Keys}
    BY <1>4, Zenon
  <2>. HIDE DEF D
  <2>. QED  BY <1>5, <1>6, <2>1 DEF Entries
<1>9. /\ Columns(e) = Columns(entry) /\ \A i \in Weeks : Failing(e, i) = Failing(entry, i)
      /\ \A i \in Weeks : NoneMissing(e, i) = NoneMissing(entry, i)
  BY <1>7 DEF Columns, Failing, NoneMissing
<1>10. e.last \in Rows /\ v = e.last.values
  BY <1>7 DEF Passed, v
<1>11. Judged(e)
  <2>1. CASE w = 1
    BY <1>1, <1>2, <1>7, <1>9, <1>10, <2>1 DEF Judged, NoneMissing, f
  <2>2. CASE w # 1
    BY <1>7, <1>9, <2>2 DEF Judged, Passed, f
  <2>. QED  BY <2>1, <2>2
<1>12. CASE e.regression
  <2>1. PICK k \in seen \cap test_regression_keys : Regresses(b[k], v[k], k)
    BY <1>7, <1>12, CheckSound
  <2>2. k \in DOMAIN b /\ k \in DOMAIN v
    BY <1>2, SeenTwice DEF b, v
  <2>3. k \in Failing(e, w)
    BY <1>1, <1>9, <1>10, <2>1, <2>2 DEF Failing
  <2>4. k \in DOMAIN e.verdict /\ e.verdict[k]
    BY <1>7, <2>1 DEF f
  <2>. QED  BY <1>7, <1>8, <1>10, <1>11, <1>12, <2>3, <2>4 DEF Failed, e
<1>13. CASE ~e.regression
  <2>1. NoneMissing(e, w) => Failing(e, w) = {}
    <3>1. SUFFICES ASSUME NoneMissing(e, w) PROVE Failing(e, w) = {}
      OBVIOUS
    <3>2. seen = DOMAIN b
      BY <1>1, <1>2, <1>9, <1>10, <3>1 DEF NoneMissing
    <3>3. \A k \in DOMAIN b \cap test_regression_keys : ~Regresses(b[k], v[k], k)
      BY <1>7, <1>13, <3>2, CheckComplete
    <3>. QED  BY <1>1, <1>9, <1>10, <3>3 DEF Failing
  <2>2. \A i \in Weeks : i <= w /\ NoneMissing(e, i) => Failing(e, i) = {}
    BY <1>9, <2>1 DEF Passed
  <2>. QED  BY <1>7, <1>8, <1>10, <1>11, <1>13, <2>2 DEF Passed, e
<1>. QED  BY <1>7, <1>8, <1>12, <1>13 DEF e

LEMMA CheckWindowInv == IndInv /\ CheckWindow => IndInv'
<1>. SUFFICES ASSUME IndInv, CheckWindow PROVE IndInv'
  OBVIOUS
<1>1. PICK seen \in Examined(get_avgs(entry.window[w]), entry.last.values) :
        /\ entry' = Checked(seen)
        /\ IF entry'.regression \/ w = 4 THEN pc' = "first" /\ recent' = recent \cup {entry'} /\ w' = 1
           ELSE w' = w + 1 /\ UNCHANGED <<pc, recent>>
  BY DEF CheckWindow
<1>2. /\ pc = "check" /\ UNCHANGED <<tests, todo, pages, drawn, sides, world>>
      /\ entry \in Entries /\ w \in Weeks /\ entry.regression = FALSE /\ Passed(entry, w - 1)
  BY DEF CheckWindow, IndInv, TypeOK, EntryInv
<1>3. /\ entry' \in Entries /\ entry'.window = entry.window
      /\ IF entry'.regression THEN Failed(entry') ELSE Passed(entry', w)
  BY <1>1, <1>2, CheckedEntry
<1>4. entry'.regression \in BOOLEAN
  BY <1>3 DEF Entries
<1>5. CASE entry'.regression \/ w = 4
  <2>1. pc' = "first" /\ recent' = recent \cup {entry'} /\ w' = 1
    BY <1>1, <1>5
  <2>2. TypeOK'
    BY <1>2, <1>3, <2>1 DEF IndInv, TypeOK, drawn, world
  <2>3. \A e \in recent : IF e.regression THEN Failed(e)' ELSE Passed(e, 4)'
    BY EntryState DEF IndInv, EntryInv
  <2>4. IF entry'.regression THEN Failed(entry') ELSE Passed(entry', 4)
    BY <1>3, <1>5
  <2>5. EntryInv'
    BY <2>1, <2>3, <2>4 DEF EntryInv, Failed, Passed, Judged, NoneMissing, Failing, Columns
  <2>6. PagesInv' /\ OrderInv'
    BY <1>2, <1>3, <2>1 DEF IndInv, PagesInv, drawn, OrderInv, Ordered, world
  <2>. QED  BY <2>2, <2>5, <2>6 DEF IndInv
<1>6. CASE ~(entry'.regression \/ w = 4)
  <2>1. w' = w + 1 /\ UNCHANGED <<pc, recent>> /\ entry'.regression = FALSE /\ w' \in Weeks
    BY <1>1, <1>2, <1>4, <1>6
  <2>2. TypeOK'
    BY <1>2, <1>3, <2>1 DEF IndInv, TypeOK, drawn, world
  <2>3. \A e \in recent : IF e.regression THEN Failed(e)' ELSE Passed(e, 4)'
    BY EntryState DEF IndInv, EntryInv
  <2>4. Passed(entry', w' - 1)
    BY <1>2, <1>3, <2>1
  <2>5. EntryInv'
    BY <1>2, <1>3, <2>1, <2>3, <2>4 DEF EntryInv, Failed, Passed, Judged, NoneMissing, Failing, Columns
  <2>6. PagesInv' /\ OrderInv'
    BY <1>2, <1>3, <2>1 DEF IndInv, PagesInv, drawn, OrderInv, Ordered, Renders, Columns, world
  <2>. QED  BY <2>2, <2>5, <2>6 DEF IndInv
<1>. QED  BY <1>5, <1>6

LEMMA AllJudgedInv == IndInv /\ AllJudged => IndInv'
<1>. SUFFICES ASSUME IndInv, AllJudged PROVE IndInv'
  OBVIOUS
<1>. USE DEF IndInv, AllJudged, world
<1>1. TypeOK' /\ OrderInv' /\ PagesInv'
  BY DEF TypeOK, drawn, OrderInv, Ordered, PagesInv, Renders, Columns
<1>2. \A e \in recent : IF e.regression THEN Failed(e)' ELSE Passed(e, 4)'
  BY EntryState DEF EntryInv
<1>. QED  BY <1>1, <1>2 DEF EntryInv

LEMMA WritePageInv == IndInv /\ WritePage => IndInv'
<1>. SUFFICES ASSUME IndInv, WritePage PROVE IndInv'
  OBVIOUS
<1>. USE DEF IndInv, world
<1>1. PICK t \in tests \ pages :
        \/ /\ pages' = pages \cup {t} /\ UNCHANGED pc
           /\ \A e \in recent : e.test = t => Renders(e)
        \/ pc' = "died" /\ UNCHANGED pages
  BY DEF WritePage
<1>2. pc = "pages" /\ UNCHANGED <<tests, todo, entry, w, recent, drawn, sides, world>>
  BY DEF WritePage
<1>3. TypeOK' /\ OrderInv'
  BY <1>1, <1>2 DEF TypeOK, drawn, OrderInv, Ordered
<1>4. \A e \in recent : IF e.regression THEN Failed(e)' ELSE Passed(e, 4)'
  BY EntryState DEF EntryInv
<1>5. EntryInv'
  BY <1>1, <1>2, <1>4 DEF EntryInv
<1>6. PagesInv'
  BY <1>1, <1>2 DEF PagesInv, drawn, Renders, Columns
<1>. QED  BY <1>3, <1>5, <1>6

\* Steps after the pages leave what is proved of them alone.
LEMMA AfterPagesInv ==
  ASSUME IndInv, UNCHANGED <<recent, pages, world>>, TypeOK',
         pc \in {"pages", "graphs"}, pc' \in {"graphs", "done"}
  PROVE  IndInv'
<1>. USE DEF IndInv, world
<1>1. \A e \in recent' : IF e.regression THEN Failed(e)' ELSE Passed(e, 4)'
  BY EntryState DEF EntryInv
<1>2. EntryInv'
  BY <1>1 DEF EntryInv
<1>3. PagesInv' /\ OrderInv'
  BY DEF PagesInv, OrderInv, Ordered
<1>. QED  BY <1>2, <1>3

LEMMA WriteIndexInv == IndInv /\ WriteIndex => IndInv'
<1>. SUFFICES ASSUME IndInv, WriteIndex PROVE IndInv'
  OBVIOUS
<1>1. drawing' \subseteq [pair : pairs, read : BOOLEAN, keys : SUBSET Keys]
  <2>1. \A p \in pairs : [pair |-> p, read |-> FALSE, keys |-> {}]
                           \in [pair : pairs, read : BOOLEAN, keys : SUBSET Keys]
    OBVIOUS
  <2>. QED  BY <2>1 DEF WriteIndex
<1>2. TypeOK'
  BY <1>1 DEF WriteIndex, IndInv, TypeOK, world
<1>. QED  BY <1>2, AfterPagesInv DEF WriteIndex

LEMMA GraphLastInv == IndInv /\ GraphLast => IndInv'
<1>. SUFFICES ASSUME IndInv, GraphLast PROVE IndInv'
  OBVIOUS
<1>1. PICK d \in drawing :
        drawing' = (drawing \ {d}) \cup
          {[d EXCEPT !.read = TRUE, !.keys = NonZero(r)] : r \in get_last_test(d.pair[2])}
  BY DEF GraphLast
<1>2. d \in [pair : pairs, read : BOOLEAN, keys : SUBSET Keys]
  BY DEF IndInv, TypeOK
<1>3. \A r \in get_last_test(d.pair[2]) : NonZero(r) \in SUBSET Keys
  <2>1. \A r \in get_last_test(d.pair[2]) : r \in Rows
    BY DEF get_last_test, IndInv, TypeOK
  <2>2. \A r \in Rows : DOMAIN r.values \subseteq Keys
    BY DEF Rows
  <2>. QED  BY <2>1, <2>2 DEF NonZero
<1>4. drawing' \subseteq [pair : pairs, read : BOOLEAN, keys : SUBSET Keys]
  <2>1. \A r \in get_last_test(d.pair[2]) :
          [d EXCEPT !.read = TRUE, !.keys = NonZero(r)] \in [pair : pairs, read : BOOLEAN, keys : SUBSET Keys]
    BY <1>2, <1>3
  <2>2. drawing \subseteq [pair : pairs, read : BOOLEAN, keys : SUBSET Keys]
    BY DEF IndInv, TypeOK
  <2>. QED  BY <1>1, <2>1, <2>2
<1>5. TypeOK'
  BY <1>4 DEF GraphLast, IndInv, TypeOK, world
<1>. QED  BY <1>5, AfterPagesInv DEF GraphLast

LEMMA GraphAllInv == IndInv /\ GraphAll => IndInv'
<1>. SUFFICES ASSUME IndInv, GraphAll PROVE IndInv'
  OBVIOUS
<1>1. PICK d \in drawing :
        /\ drawing' = drawing \ {d}
        /\ graphs' = graphs \cup {<<d.pair[1], d.pair[2], k>> :
                        k \in Plotted(Continuous(d.pair[1], d.pair[2]), d.keys)}
  BY DEF GraphAll
<1>2. d.pair \in Configs \X Tests /\ d.keys \subseteq Keys
  BY DEF IndInv, TypeOK
<1>3. \A R : Plotted(R, d.keys) \subseteq Keys
  BY <1>2 DEF Plotted
<1>4. graphs' \subseteq Configs \X Tests \X Keys
  BY <1>1, <1>2, <1>3 DEF IndInv, TypeOK
<1>5. TypeOK'
  BY <1>1, <1>4 DEF GraphAll, IndInv, TypeOK, world
<1>. QED  BY <1>5, AfterPagesInv DEF GraphAll

LEMMA JoinGraphsInv == IndInv /\ JoinGraphs => IndInv'
<1>. SUFFICES ASSUME IndInv, JoinGraphs PROVE IndInv'
  OBVIOUS
<1>1. TypeOK'
  BY DEF JoinGraphs, IndInv, TypeOK, drawn, world
<1>. QED  BY <1>1, AfterPagesInv DEF JoinGraphs

LEMMA StartCompareInv == IndInv /\ StartCompare => IndInv'
<1>. SUFFICES ASSUME IndInv, StartCompare PROVE IndInv'
  OBVIOUS
<1>. USE DEF IndInv, StartCompare
<1>1. entry' \in Entries
  BY EntryType
<1>2. TypeOK' /\ OrderInv' /\ PagesInv'
  BY <1>1 DEF TypeOK, drawn, OrderInv, Ordered, PagesInv, Renders, Columns
<1>3. \A e \in recent : IF e.regression THEN Failed(e)' ELSE Passed(e, 4)'
  BY EntryState DEF EntryInv
<1>. QED  BY <1>1, <1>2, <1>3 DEF EntryInv

LEMMA CompareQueryInv == IndInv /\ (QueryOld \/ QueryNew) => IndInv'
<1>. SUFFICES ASSUME IndInv, QueryOld \/ QueryNew PROVE IndInv'
  OBVIOUS
<1>1. /\ pc \in {"old", "new"} /\ pc' \in {"new", "done"} /\ entry \in Entries
      /\ UNCHANGED <<tests, todo, entry, w, recent, pages, drawn, world>>
  BY DEF QueryOld, QueryNew, Query, IndInv, EntryInv
<1>2. \A p : \A s \in {"A", "B"} : [sides EXCEPT ![s] = get_results(entry.config, entry.test, p)]
            \in [{"A", "B"} -> SUBSET Rows]
  BY DEF IndInv, TypeOK, get_results
<1>3. TypeOK'
  BY <1>1, <1>2 DEF QueryOld, QueryNew, Query, IndInv, TypeOK, drawn, world
<1>. QED  BY <1>1, <1>3, QueryInv DEF drawn

LEMMA StartGraphInv == IndInv /\ StartGraph => IndInv'
<1>. SUFFICES ASSUME IndInv, StartGraph PROVE IndInv'
  OBVIOUS
<1>. USE DEF IndInv, StartGraph
<1>1. \A r \in db : r.config \in Configs /\ r.name \in Tests
  BY DEF TypeOK, Rows
<1>2. entry' \in Entries
  BY <1>1, EntryType
<1>3. TypeOK'
  BY <1>2 DEF TypeOK, drawnPages
<1>4. OrderInv' /\ PagesInv'
  BY DEF OrderInv, Ordered, PagesInv, drawnPages, Renders, Columns
<1>5. \A e \in recent : IF e.regression THEN Failed(e)' ELSE Passed(e, 4)'
  BY EntryState DEF EntryInv
<1>. QED  BY <1>3, <1>4, <1>5 DEF EntryInv

LEMMA GraphQueryInv == IndInv /\ (get_all_purposes \/ QueryNewest \/ Plot \/ GraphDone) => IndInv'
<1>. SUFFICES ASSUME IndInv, get_all_purposes \/ QueryNewest \/ Plot \/ GraphDone PROVE IndInv'
  OBVIOUS
<1>1. /\ pc \in {"purposes", "newest", "graph"} /\ pc' \in {"newest", "graph", "done", "died"}
      /\ UNCHANGED <<tests, todo, entry, w, recent, pages, drawnPages, sides, world>>
  BY DEF get_all_purposes, QueryNewest, Plot, GraphDone, drawn, drawnPages
<1>2. labels' \subseteq labels
  BY DEF get_all_purposes, QueryNewest, Plot, GraphDone, drawn
<1>3. plots' \subseteq Keys \X Purposes
  <2>1. \A r \in db : DOMAIN r.values \subseteq Keys
    BY DEF IndInv, TypeOK, Rows
  <2>2. \A r \in get_last_test(entry.test) : NonZero(r) \X labels \subseteq Keys \X Purposes
    BY <2>1 DEF get_last_test, NonZero, IndInv, TypeOK
  <2>3. plots' \subseteq plots \/ \E r \in get_last_test(entry.test) : plots' = NonZero(r) \X labels
    BY DEF get_all_purposes, QueryNewest, Plot, GraphDone, drawn
  <2>. QED  BY <2>2, <2>3 DEF IndInv, TypeOK
<1>4. TypeOK'
  BY <1>1, <1>2, <1>3 DEF IndInv, TypeOK, drawnPages, world
<1>. QED  BY <1>1, <1>4, QueryInv DEF drawnPages

\* What happens around the programs keeps the rows in order.
LEMMA WorldInv ==
  ASSUME IndInv, UNCHANGED program, TypeOK', setbacks' = 0 => setbacks = 0,
         Ordered(db)', (setbacks = 0 => \A r \in db : r.day <= day)'
  PROVE  IndInv'
<1>. USE DEF IndInv, program
<1>1. \A e : Failed(e)' = Failed(e) /\ \A n : Passed(e, n)' = Passed(e, n)
  BY DEF Failed, Passed, Judged, NoneMissing, Failing, Columns
<1>2. EntryInv'
  BY <1>1 DEF EntryInv, Failed, Passed, Judged, NoneMissing, Failing, Columns
<1>3. PagesInv'
  BY DEF PagesInv, drawn, Renders, Columns
<1>4. OrderInv'
  BY DEF OrderInv, Ordered
<1>. QED  BY <1>2, <1>3, <1>4

LEMMA CommitInv == IndInv /\ Commit => IndInv'
<1>. SUFFICES ASSUME IndInv, Commit PROVE IndInv'
  OBVIOUS
<1>1. PICK c \in Configs, t \in Tests, r \in Runs, i \in {1} \cup {q.id + 1 : q \in db} :
        /\ \A q \in db : q.id < i
        /\ db' = db \cup {[id |-> i, config |-> c, name |-> t, purpose |-> r.purpose,
                           day |-> day, values |-> r.values]}
  BY DEF Commit
<1>. DEFINE new == [id |-> i, config |-> c, name |-> t, purpose |-> r.purpose,
                    day |-> day, values |-> r.values]
<1>2. /\ db \subseteq Rows /\ day \in Int /\ UNCHANGED <<program, began, day, deletes, setbacks>>
      /\ events' \in Nat
  BY DEF Commit, Meanwhile, IndInv, TypeOK
<1>3. i \in Nat
  BY <1>2 DEF Rows
<1>4. new \in Rows /\ new.id = i /\ new.day = day
  BY <1>2, <1>3 DEF Rows, Purposes
<1>. HIDE DEF new
<1>5. db' = db \cup {new}
  BY <1>1 DEF new
<1>6. TypeOK'
  BY <1>2, <1>4, <1>5 DEF program, drawn, IndInv, TypeOK
<1>7. \A q \in db : q.id \in Nat /\ q.id < i
  BY <1>1, <1>2 DEF Rows
<1>8. Ordered(db)' /\ (setbacks = 0 => \A q \in db : q.day <= day)'
  BY <1>2, <1>3, <1>4, <1>5, <1>7 DEF IndInv, OrderInv, Ordered
<1>. QED  BY <1>2, <1>6, <1>8, WorldInv

LEMMA CleanResultsInv == IndInv /\ CleanResults => IndInv'
<1>. SUFFICES ASSUME IndInv, CleanResults PROVE IndInv'
  OBVIOUS
<1>1. db' \subseteq db /\ UNCHANGED <<program, began, day, setbacks>> /\ deletes' = deletes + 1
      /\ events' \in Nat
  BY DEF CleanResults, Meanwhile, IndInv, TypeOK
<1>2. TypeOK'
  BY <1>1 DEF program, drawn, IndInv, TypeOK
<1>. QED  BY <1>1, <1>2, WorldInv DEF IndInv, OrderInv, Ordered

LEMMA ClockInv == IndInv /\ (NewDay \/ SetClockBack) => IndInv'
<1>. SUFFICES ASSUME IndInv, NewDay \/ SetClockBack PROVE IndInv'
  OBVIOUS
<1>1. /\ UNCHANGED <<program, began, db, deletes>> /\ events' \in Nat /\ day \in Int
      /\ setbacks \in Nat /\ db \subseteq Rows
      /\ \/ day' = day + 1 /\ setbacks' = setbacks
         \/ day' = day - 1 /\ setbacks' = setbacks + 1
  BY DEF NewDay, SetClockBack, Meanwhile, IndInv, TypeOK
<1>2. TypeOK'
  BY <1>1 DEF program, drawn, IndInv, TypeOK
<1>3. \A r \in db : r.day \in Int
  BY <1>1 DEF Rows
<1>. QED  BY <1>1, <1>2, <1>3, WorldInv DEF IndInv, OrderInv, Ordered

LEMMA StutterInv == IndInv /\ UNCHANGED vars => IndInv'
<1>. SUFFICES ASSUME IndInv, UNCHANGED vars PROVE IndInv'
  OBVIOUS
<1>1. TypeOK' /\ UNCHANGED <<program, db, day, setbacks>>
  BY DEF IndInv, vars, program, drawn, TypeOK
<1>. QED  BY <1>1, WorldInv DEF IndInv, OrderInv, Ordered

-----------------------------------------------------------------------------
(* What pages, graphs and tables are complete by: the second part of the    *)
(* invariant.                                                               *)

LEMMA NoRowIsNone == NoRow \notin Rows
  BY DEF NoRow, Rows

\* Of finitely many rows one has the greatest id: otherwise the rows above one
\* of them would be fewer and fewer.
LEMMA GreatestId ==
  ASSUME NEW R, IsFiniteSet(R), R # {}, \A r \in R : r.id \in Nat
  PROVE  \E r \in R : \A q \in R : q.id <= r.id
<1>. DEFINE above(r) == {q \in R : q.id > r.id}
            T == {above(r) : r \in R}
<1>1. PICK t \in T : \A u \in T : u \subseteq t => u = t
  <2>1. \A r \in R : above(r) \in SUBSET R
    OBVIOUS
  <2>2. T \in SUBSET (SUBSET R)
    BY <2>1
  <2>3. T # {}
    <3>. HIDE DEF above
    <3>. QED  OBVIOUS
  <2>. HIDE DEF T
  <2>. QED  BY <2>2, <2>3, LeastSubset
<1>2. PICK r \in R : t = above(r)
  OBVIOUS
<1>3. ASSUME NEW q \in R, q.id > r.id PROVE FALSE
  <2>1. above(q) \subseteq above(r) /\ q \in above(r) /\ q \notin above(q)
    BY <1>3
  <2>. QED  BY <1>1, <1>2, <2>1
<1>. QED  BY <1>3

\* Three kinds of steps: what happens around the programs, the start of one,
\* and what it does with the world standing still.
Around == Commit \/ CleanResults \/ NewDay \/ SetClockBack
Start == StartPage \/ StartCompare \/ StartGraph

LEMMA AroundStep ==
  IndInv /\ Around =>
    /\ UNCHANGED <<program, began>> /\ pc \notin {"check", "pages", "done", "died"}
    /\ \/ UNCHANGED db \/ db' \subseteq db \/ \E r \in Rows : r \notin db /\ db' = db \cup {r}
    /\ deletes' \in Nat /\ (deletes' = 0 => deletes = 0 /\ db \subseteq db')
<1>. SUFFICES ASSUME IndInv, Around
              PROVE  /\ UNCHANGED <<program, began>> /\ pc \notin {"check", "pages", "done", "died"}
                     /\ \/ UNCHANGED db \/ db' \subseteq db
                        \/ \E r \in Rows : r \notin db /\ db' = db \cup {r}
                     /\ deletes' \in Nat /\ (deletes' = 0 => deletes = 0 /\ db \subseteq db')
  OBVIOUS
<1>1. Meanwhile /\ db \subseteq Rows /\ deletes \in Nat /\ day \in Int
  BY DEF Around, Commit, CleanResults, NewDay, SetClockBack, IndInv, TypeOK
<1>2. CASE Commit
  <2>1. PICK c \in Configs, t \in Tests, r \in Runs, i \in {1} \cup {q.id + 1 : q \in db} :
          /\ \A q \in db : q.id < i
          /\ db' = db \cup {[id |-> i, config |-> c, name |-> t, purpose |-> r.purpose,
                             day |-> day, values |-> r.values]}
    BY <1>2 DEF Commit
  <2>. DEFINE new == [id |-> i, config |-> c, name |-> t, purpose |-> r.purpose,
                      day |-> day, values |-> r.values]
  <2>2. i \in Nat
    BY <1>1 DEF Rows
  <2>3. new \in Rows /\ new.id = i
    BY <1>1, <2>2 DEF Rows, Purposes
  <2>. HIDE DEF new
  <2>4. new \notin db
    BY <2>1, <2>2, <2>3
  <2>5. db' = db \cup {new}
    BY <2>1 DEF new
  <2>. QED  BY <1>1, <1>2, <2>3, <2>4, <2>5 DEF Commit, Meanwhile
<1>3. CASE CleanResults \/ NewDay \/ SetClockBack
  BY <1>1, <1>3 DEF CleanResults, NewDay, SetClockBack, Meanwhile
<1>. QED  BY <1>2, <1>3 DEF Around

LEMMA StartStep ==
  Start => /\ pc = "idle" /\ pc' \in {"configs", "old", "purposes"} /\ began' = day
           /\ UNCHANGED <<todo, w, recent, pages, pairs, drawing, graphs, plots, sides>>
           /\ UNCHANGED <<db, day, events, deletes, setbacks>>
  BY DEF Start, StartPage, StartCompare, StartGraph, drawn, drawnPages

LEMMA OtherStep == Next /\ ~Around /\ ~Start => UNCHANGED world /\ pc # "idle"
  BY DEF Next, Around, Start, ReadConfigs, FirstQuery, LastQuery, WindowQuery, CheckWindow,
         AllJudged, WritePage, WriteIndex, GraphLast, GraphAll, JoinGraphs, QueryOld, QueryNew, Query,
         get_all_purposes, QueryNewest, Plot, GraphDone

\* What a program's step may do to the entry it works on.
EntrySteps == FirstQuery \/ LastQuery \/ WindowQuery \/ CheckWindow

LEMMA RestStep ==
  Next /\ ~Around /\ ~Start /\ ~EntrySteps =>
    /\ UNCHANGED <<entry, w, recent>> /\ pc' \notin {"last", "avgs", "check", "purposes", "idle"}
    /\ pc \notin {"last", "avgs", "check"}
  BY DEF Next, Around, Start, EntrySteps, ReadConfigs, AllJudged, WritePage, WriteIndex, GraphLast,
         GraphAll, JoinGraphs, QueryOld, QueryNew, Query, get_all_purposes, QueryNewest, Plot, GraphDone

\* What a query of a window makes of the entry.
LEMMA WindowStep ==
  ASSUME IndInv, WindowQuery
  PROVE  LET R == InWindow(entry.config, entry.test, Windows[w]) IN
         /\ pc = "avgs" /\ w \in Weeks /\ entry \in Entries /\ R \subseteq db /\ db \subseteq Rows
         /\ entry'.last = entry.last /\ entry'.config = entry.config /\ entry'.test = entry.test
         /\ \A i \in Weeks : entry'.window[i] = IF i = w THEN R ELSE entry.window[i]
         /\ IF w = 4 THEN w' = 1 /\ pc' = (IF entry.last = NoRow THEN "died" ELSE "check")
                     ELSE w' = w + 1 /\ pc' = "avgs"
         /\ UNCHANGED recent
<1>. DEFINE R == InWindow(entry.config, entry.test, Windows[w])
<1>1. entry \in Entries /\ w \in Weeks /\ pc = "avgs" /\ UNCHANGED recent
  BY DEF WindowQuery, IndInv, TypeOK, EntryInv
<1>2. R \subseteq db /\ db \subseteq Rows
  BY DEF InWindow, Continuous, IndInv, TypeOK
<1>3. IF w = 4 THEN w' = 1 /\ pc' = (IF entry.last = NoRow THEN "died" ELSE "check")
               ELSE w' = w + 1 /\ pc' = "avgs"
  BY <1>1 DEF WindowQuery
<1>. HIDE DEF R
<1>4. entry' = [entry EXCEPT !.window = [entry.window EXCEPT ![w] = R]]
  BY <1>1 DEF WindowQuery, R, Entries
<1>5. /\ entry'.last = entry.last /\ entry'.config = entry.config /\ entry'.test = entry.test
      /\ entry'.window = [entry.window EXCEPT ![w] = R] /\ entry.window \in [Weeks -> SUBSET Rows]
  BY <1>1, <1>4 DEF Entries
<1>6. \A i \in Weeks : entry'.window[i] = IF i = w THEN R ELSE entry.window[i]
  BY <1>1, <1>5
<1>. QED  BY <1>1, <1>2, <1>3, <1>5, <1>6 DEF R

\* And the check of one.
LEMMA CheckStep ==
  ASSUME IndInv, CheckWindow
  PROVE  /\ pc = "check" /\ pc' \in {"first", "check"} /\ UNCHANGED pairs
         /\ entry \in Entries /\ entry'.last = entry.last /\ entry'.window = entry.window
         /\ entry'.config = entry.config /\ entry'.test = entry.test
         /\ UNCHANGED recent \/ (pc' = "first" /\ recent' = recent \cup {entry'})
<1>1. PICK seen \in Examined(get_avgs(entry.window[w]), entry.last.values) :
        /\ entry' = Checked(seen)
        /\ IF entry'.regression \/ w = 4 THEN pc' = "first" /\ recent' = recent \cup {entry'} /\ w' = 1
           ELSE w' = w + 1 /\ UNCHANGED <<pc, recent>>
  BY DEF CheckWindow
<1>2. pc = "check" /\ entry \in Entries /\ UNCHANGED pairs
  BY DEF CheckWindow, IndInv, EntryInv, drawn
<1>3. /\ entry'.last = entry.last /\ entry'.window = entry.window
      /\ entry'.config = entry.config /\ entry'.test = entry.test
  BY <1>1, <1>2 DEF Checked, Entries
<1>. QED  BY <1>1, <1>2, <1>3

LEMMA FiniteStep == IndInv /\ FiniteInv /\ [Next]_vars => FiniteInv'
<1>. SUFFICES ASSUME IndInv, FiniteInv, [Next]_vars PROVE FiniteInv'
  OBVIOUS
<1>1. UNCHANGED db \/ db' \subseteq db \/ \E r \in Rows : r \notin db /\ db' = db \cup {r}
  BY AroundStep, StartStep, OtherStep DEF vars, world
<1>2. IsFiniteSet(db')
  BY <1>1, FS_Subset, FS_AddElement DEF FiniteInv
<1>3. \A R : R \subseteq db => IsFiniteSet(R)
  <2>. SUFFICES ASSUME NEW R, R \subseteq db PROVE IsFiniteSet(R)
    OBVIOUS
  <2>1. R \in SUBSET db
    OBVIOUS
  <2>. QED  BY <2>1, FS_Subset DEF FiniteInv
<1>4. \/ UNCHANGED sides
      \/ \E s \in {"A", "B"} : \E p \in Purposes :
           sides' = [sides EXCEPT ![s] = get_results(entry.config, entry.test, p)]
  <2>1. CASE Around
    BY <2>1, AroundStep DEF program
  <2>2. CASE Start
    BY <2>2, StartStep
  <2>3. CASE UNCHANGED vars
    BY <2>3 DEF vars, program
  <2>4. CASE QueryOld \/ QueryNew
    BY <2>4 DEF QueryOld, QueryNew, Query
  <2>5. CASE Next /\ ~Around /\ ~Start /\ ~(QueryOld \/ QueryNew)
    BY <2>5 DEF Next, Around, Start, ReadConfigs, FirstQuery, LastQuery, WindowQuery, CheckWindow,
         AllJudged, WritePage, WriteIndex, GraphLast, GraphAll, JoinGraphs,
         get_all_purposes, QueryNewest, Plot, GraphDone
  <2>. QED  BY <2>1, <2>2, <2>3, <2>4, <2>5
<1>5. sides \in [{"A", "B"} -> SUBSET Rows]
  BY DEF IndInv, TypeOK
<1>6. IsFiniteSet(sides'["A"]) /\ IsFiniteSet(sides'["B"])
  <2>1. \A c, t, p : get_results(c, t, p) \subseteq db
    BY DEF get_results
  <2>. QED  BY <1>3, <1>4, <1>5, <2>1 DEF FiniteInv
<1>. DEFINE Fin(e) == \A i \in Weeks : IsFiniteSet(e.window[i])
<1>7. /\ \A e \in recent' : e \in recent \/ (e = entry' /\ Fin(entry'))
      /\ pc' \in {"last", "avgs", "check"} => Fin(entry')
  <2>1. CASE Around \/ UNCHANGED vars
    BY <2>1, AroundStep DEF FiniteInv, program, vars
  <2>2. CASE Start
    BY <2>2, StartStep
  <2>3. CASE Next /\ ~Around /\ ~Start /\ ~EntrySteps
    BY <2>3, RestStep
  <2>4. CASE FirstQuery
    <3>1. \A c, t : Fin(Entry(c, t))
      BY FS_EmptySet DEF Entry
    <3>2. UNCHANGED recent /\ (pc' \in {"last", "avgs", "check"} => \E c, t : entry' = Entry(c, t))
      BY <2>4 DEF FirstQuery
    <3>. HIDE DEF Fin
    <3>. QED  BY <3>1, <3>2
  <2>5. CASE LastQuery
    BY <2>5 DEF LastQuery, FiniteInv, IndInv, EntryInv, Entries
  <2>6. CASE WindowQuery
    <3>1. IsFiniteSet(InWindow(entry.config, entry.test, Windows[w]))
      BY <1>3, <2>6, WindowStep
    <3>. QED  BY <2>6, <3>1, WindowStep DEF FiniteInv
  <2>7. CASE CheckWindow
    <3>1. Fin(entry) /\ entry'.window = entry.window
      BY <2>7, CheckStep DEF FiniteInv
    <3>. QED  BY <2>7, <3>1, CheckStep
  <2>. QED  BY <2>1, <2>2, <2>3, <2>4, <2>5, <2>6, <2>7 DEF EntrySteps
<1>. QED  BY <1>2, <1>6, <1>7 DEF FiniteInv

\* The newest row, if there is one.
LEMMA LastStep ==
  ASSUME IndInv, FiniteInv, LastQuery
  PROVE  /\ pc = "last" /\ pc' = "avgs" /\ w' = 1 /\ UNCHANGED recent
         /\ entry'.config = entry.config /\ entry'.test = entry.test
         /\ Continuous(entry.config, entry.test) # {} => entry'.last \in db
<1>1. entry \in Entries /\ pc = "last"
  BY DEF LastQuery, IndInv, EntryInv
<1>. DEFINE R == Continuous(entry.config, entry.test)
<1>2. R \in SUBSET db /\ \A r \in R : r.id \in Nat
  BY DEF Continuous, IndInv, TypeOK, Rows
<1>3. ASSUME R # {} PROVE get_last(entry.config, entry.test) # {}
  <2>1. IsFiniteSet(R)
    BY <1>2, FS_Subset DEF FiniteInv
  <2>. HIDE DEF R
  <2>2. PICK r \in R : \A q \in R : q.id <= r.id
    BY <1>2, <1>3, <2>1, GreatestId
  <2>. QED  BY <2>2 DEF get_last, R
<1>4. PICK r : /\ entry' = [entry EXCEPT !.last = r]
               /\ R # {} => r \in R
  BY <1>3 DEF LastQuery, get_last
<1>. QED  BY <1>1, <1>2, <1>4 DEF LastQuery, Entries

LEMMA NewestStep ==
  ASSUME IndInv, FiniteInv, NEW t, \E r \in db : r.name = t
  PROVE  get_last_test(t) # {} /\ \A r \in get_last_test(t) : r \in db /\ r.name = t
<1>. DEFINE R == {r \in db : r.name = t}
<1>1. R \in SUBSET db /\ R # {} /\ \A r \in R : r.id \in Nat
  BY DEF IndInv, TypeOK, Rows
<1>2. IsFiniteSet(R)
  BY <1>1, FS_Subset DEF FiniteInv
<1>3. \E r \in R : \A q \in R : q.id <= r.id
  <2>. HIDE DEF R
  <2>. QED  BY <1>1, <1>2, GreatestId
<1>. QED  BY <1>3 DEF get_last_test

LEMMA DaysStep == IndInv /\ DaysInv /\ [Next]_vars => DaysInv'
<1>. SUFFICES ASSUME IndInv, DaysInv, [Next]_vars PROVE DaysInv'
  OBVIOUS
<1>1. /\ db \subseteq Rows /\ day \in Int /\ began \in Int /\ events \in Nat /\ setbacks \in Nat
      /\ w \in Weeks /\ MaxEvents \in Nat /\ MaxSetbacks \in Nat
      /\ \A i \in Weeks : Windows[i] \in Nat
  BY DEF IndInv, TypeOK
<1>2. \A r \in Rows : r.day \in Int
  BY DEF Rows
<1>3. pc = "avgs" => \A r \in entry.window[1] : r.day \in Int
  BY <1>2 DEF IndInv, EntryInv, Entries
<1>4. CASE Around
  <2>1. /\ UNCHANGED <<pc, entry, w, began>>
        /\ events' = (IF pc = "idle" THEN events ELSE events + 1)
        /\ pc # "idle" => events < MaxEvents
        /\ \/ UNCHANGED <<day, setbacks>>
           \/ (pc # "idle" => day <= began) /\ day' = day + 1 /\ UNCHANGED setbacks
           \/ setbacks < MaxSetbacks /\ day' = day - 1 /\ setbacks' = setbacks + 1
    BY <1>4 DEF Around, Commit, CleanResults, NewDay, SetClockBack, Meanwhile, program
  <2>2. events' <= MaxEvents /\ setbacks' <= MaxSetbacks
    BY <1>1, <2>1 DEF DaysInv
  <2>3. pc' # "idle" => day' <= began' + 1 /\ began' <= day' + setbacks'
    BY <1>1, <2>1 DEF DaysInv
  <2>4. ASSUME pc' = "avgs", w' > 1, NEW r \in entry'.window[1]
        PROVE  day' <= r.day + Windows[1] + events' /\ began' <= r.day + Windows[1] + setbacks'
    <3>1. /\ day <= r.day + Windows[1] + events /\ began <= r.day + Windows[1] + setbacks
          /\ r.day \in Int /\ events' = events + 1
      BY <1>3, <2>1, <2>4 DEF DaysInv
    <3>. QED  BY <1>1, <2>1, <3>1
  <2>. QED  BY <2>2, <2>3, <2>4 DEF DaysInv
<1>5. CASE Start
  BY <1>1, <1>5, StartStep DEF DaysInv
<1>6. CASE UNCHANGED vars
  BY <1>6 DEF DaysInv, vars, program
<1>7. CASE Next /\ ~Around /\ ~Start
  <2>1. /\ UNCHANGED <<db, day, began, events, deletes, setbacks>> /\ pc # "idle"
    BY <1>7, OtherStep DEF world
  <2>2. CASE WindowQuery
    <3>1. CASE w = 1
      <4>1. \A r \in entry'.window[1] : r \in Rows /\ day <= r.day + Windows[1]
        BY <1>1, <1>2, <2>2, <3>1, WindowStep DEF InWindow
      <4>2. began <= day + setbacks
        BY <2>1 DEF DaysInv
      <4>3. ASSUME NEW r \in entry'.window[1]
            PROVE  day <= r.day + Windows[1] + events /\ began <= r.day + Windows[1] + setbacks
        BY <1>1, <1>2, <4>1, <4>2
      <4>. QED  BY <2>1, <4>3 DEF DaysInv
    <3>2. CASE w # 1
      <4>1. pc = "avgs" /\ w > 1 /\ entry'.window[1] = entry.window[1]
        BY <1>1, <2>2, <3>2, WindowStep
      <4>. QED  BY <2>1, <4>1 DEF DaysInv
    <3>. QED  BY <3>1, <3>2
  <2>3. CASE FirstQuery \/ LastQuery
    BY <2>1, <2>3 DEF FirstQuery, LastQuery, DaysInv
  <2>4. CASE CheckWindow
    BY <2>1, <2>4, CheckStep DEF DaysInv
  <2>5. CASE ~EntrySteps
    BY <1>7, <2>1, <2>5, RestStep DEF DaysInv
  <2>. QED  BY <2>2, <2>3, <2>4, <2>5 DEF EntrySteps
<1>. QED  BY <1>4, <1>5, <1>6, <1>7

\* Later windows reach back to the days of the first, however the clock is
\* set, so none of them is empty if the first is not.
LEMMA LaterWindow ==
  ASSUME IndInv, DaysInv, pc = "avgs", w > 1, NEW r \in entry.window[1], r \in db,
         r.config = entry.config, r.name = entry.test, r.purpose = "continuous"
  PROVE  r \in InWindow(entry.config, entry.test, Windows[w])
<1>1. /\ r.day \in Int /\ day \in Int /\ began \in Int /\ events \in Nat /\ setbacks \in Nat
      /\ w \in 2..4 /\ Windows[1] \in Nat /\ Windows[w] \in Nat
      /\ MaxEvents \in Nat /\ MaxSetbacks \in Nat
  BY DEF IndInv, TypeOK, Rows
<1>2. /\ events <= MaxEvents /\ setbacks <= MaxSetbacks /\ day <= began + 1
      /\ day <= r.day + Windows[1] + events /\ began <= r.day + Windows[1] + setbacks
  BY DEF DaysInv
<1>3. \/ Windows[1] + MaxSetbacks + 1 <= Windows[w]
      \/ Windows[1] + MaxEvents <= Windows[w]
  BY <1>1, WindowsAssumption
<1>4. day - Windows[w] <= r.day
  BY <1>1, <1>2, <1>3
<1>. QED  BY <1>1, <1>4 DEF InWindow, Continuous

LEMMA KeptStep ==
  IndInv /\ FiniteInv /\ DaysInv /\ KeptInv /\ [Next]_vars => KeptInv'
<1>. SUFFICES ASSUME IndInv, FiniteInv, DaysInv, KeptInv, [Next]_vars, deletes' = 0 PROVE KeptInv'
  BY DEF KeptInv
<1>1. CASE Around
  <2>1. UNCHANGED <<pc, entry, w, recent, plots>> /\ db \subseteq db' /\ deletes = 0
    BY <1>1, AroundStep DEF program, drawn
  <2>2. \A c, t : Continuous(c, t) \subseteq Continuous(c, t)'
    BY <2>1 DEF Continuous
  <2>3. \A e, n : UNCHANGED <<e, n>> => (Kept(e, n) => Kept(e, n)')
    BY <2>2 DEF Kept
  <2>. QED  BY <2>1, <2>2, <2>3 DEF KeptInv
<1>2. CASE Start
  <2>1. /\ pc' \in {"configs", "old", "purposes"} /\ UNCHANGED <<recent, db, deletes>>
        /\ pc' = "purposes" => \E r \in db : entry' = Entry(r.config, r.name)
    BY <1>2, StartStep DEF Start, StartPage, StartCompare, StartGraph
  <2>2. pc' = "purposes" => \E r \in db : r.name = entry'.test
    BY <2>1 DEF Entry
  <2>. QED  BY <2>1, <2>2 DEF KeptInv, Kept, Continuous
<1>3. CASE UNCHANGED vars
  BY <1>3 DEF KeptInv, Kept, Continuous, vars, program, drawn
<1>4. CASE Next /\ ~Around /\ ~Start
  <2>1. UNCHANGED <<db, deletes>> /\ deletes = 0
    BY <1>4, OtherStep DEF world
  <2>2. \A e \in recent : e.last \in db /\ Kept(e, 4)
    BY <2>1 DEF KeptInv
  <2>3. CASE FirstQuery
    <3>1. PICK p \in todo : \/ UNCHANGED <<pc, entry>>
                            \/ /\ get_last(p[1], p[2]) # {}
                               /\ pc' = "last" /\ entry' = Entry(p[1], p[2])
      BY <2>3 DEF FirstQuery
    <3>2. pc' = "last" => Continuous(entry'.config, entry'.test) # {}
      BY <2>3, <3>1 DEF FirstQuery, get_last, Entry
    <3>3. pc' \in {"first", "last"} /\ UNCHANGED recent
      BY <2>3, <3>1 DEF FirstQuery
    <3>. QED  BY <2>1, <2>2, <3>2, <3>3 DEF KeptInv, Kept, Continuous
  <2>4. CASE LastQuery
    <3>1. /\ pc' = "avgs" /\ w' = 1 /\ UNCHANGED recent /\ entry'.last \in db
      BY <2>1, <2>4, LastStep DEF KeptInv
    <3>. QED  BY <2>1, <2>2, <3>1 DEF KeptInv, Kept, Continuous
  <2>5. CASE WindowQuery
    <3>. DEFINE R == InWindow(entry.config, entry.test, Windows[w])
    <3>1. /\ pc = "avgs" /\ w \in Weeks /\ R \subseteq Continuous(entry.config, entry.test)
          /\ UNCHANGED recent /\ entry'.config = entry.config /\ entry'.test = entry.test
          /\ entry'.last = entry.last /\ entry.last \in db
          /\ \A i \in Weeks : entry'.window[i] = IF i = w THEN R ELSE entry.window[i]
          /\ pc' \in {"avgs", "check", "died"} /\ (pc' = "check" => w = 4)
          /\ pc' = "avgs" => w' = w + 1
      BY <2>1, <2>5, WindowStep DEF KeptInv, InWindow
    <3>2. \A i \in Weeks : i < w =>
             /\ entry.window[i] \subseteq Continuous(entry.config, entry.test)
             /\ entry.window[1] # {} => entry.window[i] # {}
      <4>1. Kept(entry, w - 1)
        BY <2>1, <3>1 DEF KeptInv
      <4>2. \A i \in Weeks : i < w => i <= w - 1
        BY <3>1
      <4>3. \A i \in Weeks : i <= w - 1 =>
               /\ entry.window[i] \subseteq Continuous(entry.config, entry.test)
               /\ entry.window[1] # {} => entry.window[i] # {}
        BY <4>1, Zenon DEF Kept
      <4>. QED  BY <4>2, <4>3, Zenon
    <3>3. ASSUME w > 1, entry.window[1] # {} PROVE R # {}
      <4>1. 1 \in Weeks /\ 1 < w
        BY <3>1, <3>3
      <4>2. PICK r \in entry.window[1] : r \in Continuous(entry.config, entry.test)
        BY <3>2, <3>3, <4>1
      <4>3. r \in db /\ r.config = entry.config /\ r.name = entry.test /\ r.purpose = "continuous"
        BY <4>2 DEF Continuous
      <4>4. r \in R
        BY <3>1, <3>3, <4>3, LaterWindow
      <4>. QED  BY <4>4
    <3>. HIDE DEF R
    <3>4. ASSUME NEW i \in Weeks, i <= w
          PROVE  /\ entry'.window[i] \subseteq Continuous(entry.config, entry.test)
                 /\ entry'.window[1] # {} => entry'.window[i] # {}
      <4>1. CASE w = 1
        BY <3>1, <3>4, <4>1
      <4>2. CASE w > 1
        BY <3>1, <3>2, <3>3, <3>4, <4>2
      <4>. QED  BY <3>1, <4>1, <4>2
    <3>. QED  BY <2>1, <2>2, <3>1, <3>4 DEF KeptInv, Kept, Continuous
  <2>6. CASE CheckWindow
    <3>1. /\ pc = "check" /\ pc' \in {"first", "check"}
          /\ entry'.last = entry.last /\ entry'.window = entry.window
          /\ entry'.config = entry.config /\ entry'.test = entry.test
          /\ UNCHANGED recent \/ recent' = recent \cup {entry'}
      BY <2>6, CheckStep
    <3>2. entry.last \in db /\ Kept(entry, 4)
      BY <2>1, <3>1 DEF KeptInv
    <3>. QED  BY <2>1, <2>2, <3>1, <3>2 DEF KeptInv, Kept, Continuous
  <2>7. CASE ~EntrySteps
    <3>1. /\ UNCHANGED <<entry, w, recent>>
          /\ pc' \notin {"last", "avgs", "check", "purposes"}
      BY <1>4, <2>7, RestStep
    <3>2. pc' = "newest" => \E r \in db : r.name = entry.test
      BY <1>4, <2>1, <2>7 DEF Next, Around, Start, EntrySteps, ReadConfigs, AllJudged, WritePage,
         WriteIndex, GraphLast, GraphAll, JoinGraphs, QueryOld, QueryNew, Query, get_all_purposes,
         QueryNewest, Plot, GraphDone, KeptInv
    <3>3. pc' = "graph" => \A p \in plots' : \E r \in db : p[1] \in DOMAIN r.values
      <4>1. SUFFICES ASSUME pc' = "graph" PROVE \A p \in plots' : \E r \in db : p[1] \in DOMAIN r.values
        OBVIOUS
      <4>2. QueryNewest \/ Plot
        BY <1>4, <2>7, <4>1 DEF Next, Around, Start, EntrySteps, ReadConfigs, AllJudged, WritePage,
           WriteIndex, GraphLast, GraphAll, JoinGraphs, QueryOld, QueryNew, Query, get_all_purposes,
           GraphDone
      <4>3. CASE Plot
        BY <2>1, <4>3 DEF Plot, KeptInv
      <4>4. CASE QueryNewest
        <5>1. PICK r \in get_last_test(entry.test) : plots' = NonZero(r) \X labels
          BY <4>1, <4>4 DEF QueryNewest
        <5>. QED  BY <5>1 DEF get_last_test, NonZero
      <4>. QED  BY <4>2, <4>3, <4>4
    <3>. QED  BY <2>1, <2>2, <3>1, <3>2, <3>3 DEF KeptInv, Kept, Continuous
  <2>. QED  BY <2>3, <2>4, <2>5, <2>6, <2>7 DEF EntrySteps
<1>. QED  BY <1>1, <1>2, <1>3, <1>4

\* Runs that measure the same make pages that render and graphs that are drawn.
LEMMA SameStep ==
  IndInv /\ FiniteInv /\ KeptInv /\ SameMetricsComplete /\ [Next]_vars => SameMetricsComplete'
<1>. SUFFICES ASSUME IndInv, FiniteInv, KeptInv, SameMetricsComplete, [Next]_vars, pc' = "died",
                     ~(deletes' > 0), \A r, s \in db' : DOMAIN r.values = DOMAIN s.values
              PROVE  FALSE
  BY DEF SameMetricsComplete
<1>. deletes' = 0
  BY AroundStep, StartStep, OtherStep DEF IndInv, TypeOK, vars, world
<1>1. CASE UNCHANGED vars
  BY <1>1 DEF SameMetricsComplete, vars, program
<1>2. CASE Around
  BY <1>2 DEF Around, Commit, CleanResults, NewDay, SetClockBack, Meanwhile, program
<1>3. CASE Start
  BY <1>3, StartStep
<1>4. CASE Next /\ ~Around /\ ~Start
  <2>1. UNCHANGED <<db, deletes>> /\ db \subseteq Rows
    BY <1>4, OtherStep DEF world, IndInv, TypeOK
  <2>2. \A r, s \in db : DOMAIN r.values = DOMAIN s.values
    BY <2>1
  <2>3. CASE WindowQuery
    BY <2>1, <2>3, WindowStep, NoRowIsNone DEF KeptInv
  <2>4. CASE WritePage
    <3>1. PICK e \in recent : ~Renders(e)
      BY <2>4 DEF WritePage
    <3>2. /\ e.last \in db
          /\ \A i \in Weeks : e.window[i] \subseteq db /\ (e.window[1] # {} => e.window[i] # {})
      BY <2>1 DEF KeptInv, Kept, Continuous
    <3>3. \A i \in Weeks : DOMAIN Columns(e)[i] = UNION {DOMAIN r.values : r \in e.window[i]}
      BY DEF Columns, get_avgs
    <3>4. 1 \in Weeks /\ DOMAIN Columns(e)[1] \subseteq DOMAIN e.last.values
      BY <2>2, <3>2, <3>3
    <3>5. ASSUME NEW i \in Weeks PROVE DOMAIN Columns(e)[1] \subseteq DOMAIN Columns(e)[i]
      BY <2>2, <3>2, <3>3, <3>4
    <3>. QED  BY <3>1, <3>4, <3>5 DEF Renders
  <2>5. CASE QueryNewest
    BY <2>1, <2>5, NewestStep DEF QueryNewest, KeptInv
  <2>6. CASE Plot
    <3>1. PICK p \in plots : ~\A r \in db : r.name = entry.test /\ r.purpose = p[2] => p[1] \in DOMAIN r.values
      BY <2>6 DEF Plot
    <3>. QED  BY <2>1, <2>2, <2>6, <3>1 DEF Plot, KeptInv
  <2>7. CASE FirstQuery \/ LastQuery \/ CheckWindow
    BY <2>7, LastStep, CheckStep DEF FirstQuery
  <2>. QED
    BY <1>4, <2>3, <2>4, <2>5, <2>6, <2>7 DEF Next, Around, Start, ReadConfigs, AllJudged,
       WriteIndex, GraphLast, GraphAll, JoinGraphs, QueryOld, QueryNew, Query,
       get_all_purposes, GraphDone
<1>. QED  BY <1>1, <1>2, <1>3, <1>4

LEMMA PairsStep == IndInv /\ PairsInv /\ [Next]_vars => PairsInv'
<1>. SUFFICES ASSUME IndInv, PairsInv, [Next]_vars PROVE PairsInv'
  OBVIOUS
<1>1. CASE Around \/ UNCHANGED vars
  BY <1>1, AroundStep DEF PairsInv, vars, program, drawn
<1>2. CASE Start
  BY <1>2, StartStep DEF PairsInv
<1>3. CASE ReadConfigs
  BY <1>3 DEF ReadConfigs, PairsInv
<1>4. CASE FirstQuery
  <2>1. PICK p \in todo : /\ todo' = todo \ {p}
                         /\ \/ UNCHANGED <<pc, entry>>
                            \/ pc' = "last" /\ entry' = Entry(p[1], p[2])
    BY <1>4 DEF FirstQuery
  <2>2. p \in pairs /\ p \in Configs \X Tests
    BY DEF IndInv, TypeOK, PairsInv
  <2>3. <<p[1], p[2]>> \in pairs
    BY <2>2
  <2>4. pc = "first" /\ UNCHANGED <<pairs, recent>>
    BY <1>4 DEF FirstQuery, drawn
  <2>. QED  BY <2>1, <2>3, <2>4 DEF PairsInv, Entry
<1>5. CASE LastQuery
  <2>1. /\ entry'.config = entry.config /\ entry'.test = entry.test
        /\ pc = "last" /\ pc' = "avgs" /\ UNCHANGED <<todo, recent, pairs>>
    BY <1>5 DEF LastQuery, drawn, IndInv, EntryInv, Entries
  <2>. QED  BY <2>1 DEF PairsInv
<1>6. CASE WindowQuery
  <2>1. /\ entry'.config = entry.config /\ entry'.test = entry.test
        /\ pc = "avgs" /\ pc' \in {"avgs", "check", "died"} /\ UNCHANGED <<todo, recent, pairs>>
    BY <1>6, WindowStep DEF WindowQuery, drawn
  <2>. QED  BY <2>1 DEF PairsInv
<1>7. CASE CheckWindow
  <2>1. /\ entry'.config = entry.config /\ entry'.test = entry.test
        /\ pc = "check" /\ pc' \in {"first", "check"} /\ UNCHANGED <<todo, pairs>>
        /\ UNCHANGED recent \/ recent' = recent \cup {entry'}
    BY <1>7, CheckStep DEF CheckWindow, drawn
  <2>. QED  BY <2>1 DEF PairsInv
<1>8. CASE Next /\ ~Around /\ ~Start /\ ~ReadConfigs /\ ~EntrySteps
  <2>1. /\ UNCHANGED <<todo, pairs, recent>>
        /\ pc' \notin {"last", "avgs", "check", "idle", "configs"}
        /\ pc' \in {"old", "new", "purposes", "newest", "graph"} => pc \in {"old", "new", "purposes", "newest", "graph"}
        /\ pc' = "done" => \/ drawing' = {}
                           \/ pc \in {"new", "graph"}
    BY <1>8, RestStep DEF Next, Around, Start, EntrySteps, AllJudged, WritePage, WriteIndex, GraphLast,
         GraphAll, JoinGraphs, QueryOld, QueryNew, Query, get_all_purposes, QueryNewest, Plot,
         GraphDone, drawn, drawnPages
  <2>. QED  BY <2>1 DEF PairsInv
<1>. QED  BY <1>1, <1>2, <1>3, <1>4, <1>5, <1>6, <1>7, <1>8 DEF EntrySteps

\* At most one run is committed in a step.
LEMMA RunsStep ==
  ASSUME IndInv, FiniteInv, Around, deletes' = 0, NEW c, NEW t
  PROVE  /\ db \subseteq db' /\ Cardinality(Continuous(c, t)) \in Nat /\ Cardinality(Continuous(c, t))' \in Nat
         /\ Cardinality(Continuous(c, t))' <= Cardinality(Continuous(c, t)) + 1
<1>1. db \subseteq db' /\ (UNCHANGED db \/ \E r \in Rows : db' = db \cup {r})
  BY AroundStep
<1>. DEFINE R == Continuous(c, t)
<1>2. R \in SUBSET db
  BY DEF Continuous
<1>3. IsFiniteSet(R) /\ Cardinality(R) \in Nat
  BY <1>2, FS_Subset, FS_CardinalityType DEF FiniteInv
<1>4. UNCHANGED R \/ \E r \in Rows : R' = R \cup {r}
  BY <1>1 DEF Continuous
<1>. HIDE DEF R
<1>5. ASSUME NEW r PROVE Cardinality(R \cup {r}) \in Nat /\ Cardinality(R \cup {r}) <= Cardinality(R) + 1
  <2>1. Cardinality(R \cup {r}) = IF r \in R THEN Cardinality(R) ELSE Cardinality(R) + 1
    BY <1>3, FS_AddElement, Zenon
  <2>. QED  BY <1>3, <2>1
<1>6. Cardinality(R') \in Nat /\ Cardinality(R') <= Cardinality(R) + 1
  <2>1. CASE UNCHANGED R
    BY <1>3, <2>1
  <2>2. CASE \E r \in Rows : R' = R \cup {r}
    <3>1. PICK r \in Rows : R' = R \cup {r}
      BY <2>2
    <3>2. Cardinality(R') = Cardinality(R \cup {r})
      BY <3>1, Zenon
    <3>. QED  BY <1>5, <3>2
  <2>. QED  BY <1>4, <2>1, <2>2
<1>. QED  BY <1>1, <1>3, <1>6 DEF R

LEMMA GraphStep == IndInv /\ FiniteInv /\ PairsInv /\ GraphInv /\ [Next]_vars => GraphInv'
<1>. SUFFICES ASSUME IndInv, FiniteInv, PairsInv, GraphInv, [Next]_vars, deletes' = 0, pc' \in {"graphs", "done"},
                     NEW e \in recent', NEW k \in Keys,
                     Cardinality(Continuous(e.config, e.test)') > 1 + events',
                     \A r \in db' : r.name = e.test => k \in NonZero(r)
              PROVE  \/ <<e.config, e.test, k>> \in graphs'
                     \/ \E d \in drawing' : d.pair = <<e.config, e.test>> /\ (d.read => k \in d.keys)
  BY DEF GraphInv, Drawing
<1>. DEFINE p == <<e.config, e.test>>
            R == Continuous(e.config, e.test)
            Sought == \E d \in drawing : d.pair = p /\ (d.read => k \in d.keys)
<1>0. events \in Nat /\ IsFiniteSet(R) /\ Cardinality(R) \in Nat
  <2>1. R \in SUBSET db
    BY DEF Continuous
  <2>. QED  BY <2>1, FS_Subset, FS_CardinalityType DEF FiniteInv, IndInv, TypeOK
<1>1. CASE UNCHANGED vars
  BY <1>1 DEF vars, program, drawn, GraphInv, Drawing, Continuous
<1>2. CASE Around
  <2>1. UNCHANGED <<pc, recent, drawing, graphs>> /\ deletes = 0 /\ pc = "graphs" /\ db \subseteq db'
    BY <1>2, AroundStep DEF program, drawn
  <2>2. events' = events + 1
    BY <1>2, <2>1 DEF Around, Commit, CleanResults, NewDay, SetClockBack, Meanwhile
  <2>3. Cardinality(R') \in Nat /\ Cardinality(R') <= Cardinality(R) + 1
    BY <1>2, RunsStep, Zenon
  <2>4. Cardinality(R) > 1 + events
    <3>1. Cardinality(R') > 1 + events'
      OBVIOUS
    <3>. HIDE DEF R
    <3>. QED  BY <1>0, <2>2, <2>3, <3>1
  <2>. QED  BY <2>1, <2>4 DEF GraphInv, Drawing
<1>3. CASE Start
  BY <1>3, StartStep
<1>4. CASE Next /\ ~Around /\ ~Start
  <2>1. UNCHANGED <<db, events, deletes>> /\ R' = R
    BY <1>4, OtherStep DEF world, Continuous
  <2>2. Cardinality(R) > 1 + events
    BY <2>1
  <2>3. pc = "graphs" /\ UNCHANGED recent => <<e.config, e.test, k>> \in graphs \/ Sought
    BY <2>1, <2>2 DEF GraphInv, Drawing
  <2>4. R # {}
    <3>. HIDE DEF R
    <3>1. Cardinality(R) # 0
      BY <1>0, <2>2
    <3>. QED  BY <1>0, <3>1, FS_EmptySet, Zenon
  <2>5. CASE WriteIndex
    <3>1. p \in pairs
      BY <2>5 DEF WriteIndex, PairsInv
    <3>. DEFINE new == [pair |-> p, read |-> FALSE, keys |-> {}]
    <3>2. new \in drawing'
      BY <2>5, <3>1 DEF WriteIndex
    <3>3. new.pair = p /\ ~new.read
      OBVIOUS
    <3>. HIDE DEF new
    <3>. QED  BY <3>2, <3>3
  <2>6. CASE GraphLast
    <3>1. PICK d \in drawing :
            /\ ~d.read
            /\ drawing' = (drawing \ {d}) \cup
                 {[d EXCEPT !.read = TRUE, !.keys = NonZero(r)] : r \in get_last_test(d.pair[2])}
      BY <2>6 DEF GraphLast
    <3>2. pc = "graphs" /\ UNCHANGED <<graphs, recent>>
      BY <2>6 DEF GraphLast
    <3>3. CASE d.pair = p
      <4>1. \E r \in db : r.name = e.test
        BY <2>4 DEF Continuous
      <4>2. PICK r \in get_last_test(e.test) : r \in db /\ r.name = e.test
        BY <4>1, NewestStep
      <4>. DEFINE new == [d EXCEPT !.read = TRUE, !.keys = NonZero(r)]
      <4>3. d.pair[2] = e.test
        BY <3>3
      <4>4. new \in drawing'
        BY <3>1, <4>2, <4>3
      <4>5. d \in [pair : pairs, read : BOOLEAN, keys : SUBSET Keys]
        BY DEF IndInv, TypeOK
      <4>6. new.pair = p /\ new.keys = NonZero(r)
        BY <3>3, <4>5
      <4>7. k \in NonZero(r)
        BY <2>1, <4>2
      <4>. HIDE DEF new
      <4>. QED  BY <4>4, <4>6, <4>7
    <3>4. CASE d.pair # p
      BY <2>3, <3>1, <3>2, <3>4
    <3>. QED  BY <3>3, <3>4
  <2>7. CASE GraphAll
    <3>1. PICK d \in drawing :
            /\ d.read
            /\ drawing' = drawing \ {d}
            /\ graphs' = graphs \cup {<<d.pair[1], d.pair[2], q>> :
                                      q \in Plotted(Continuous(d.pair[1], d.pair[2]), d.keys)}
      BY <2>7 DEF GraphAll
    <3>2. pc = "graphs" /\ UNCHANGED recent
      BY <2>7 DEF GraphAll
    <3>3. CASE d.pair = p /\ k \in d.keys
      <4>1. d.pair[1] = e.config /\ d.pair[2] = e.test
        BY <3>3
      <4>2. Cardinality(R) # 1
        BY <1>0, <2>2
      <4>3. \E r \in R : k \in NonZero(r)
        BY <2>1, <2>4 DEF Continuous
      <4>4. k \in Plotted(R, d.keys)
        BY <3>3, <4>2, <4>3 DEF Plotted
      <4>. QED  BY <3>1, <4>1, <4>4
    <3>4. CASE ~(d.pair = p /\ k \in d.keys)
      BY <2>3, <3>1, <3>2, <3>4
    <3>. QED  BY <3>3, <3>4
  <2>8. CASE JoinGraphs
    BY <2>3, <2>8 DEF JoinGraphs, drawn
  <2>9. CASE EntrySteps
    BY <2>9, WindowStep, CheckStep DEF EntrySteps, FirstQuery, LastQuery
  <2>10. CASE ~EntrySteps /\ ~(WriteIndex \/ GraphLast \/ GraphAll \/ JoinGraphs)
    <3>1. recent' = recent /\ pc \in {"new", "graph"}
      BY <1>4, <2>10 DEF Next, Around, Start, EntrySteps, ReadConfigs, AllJudged, WritePage, QueryOld, QueryNew,
         Query, get_all_purposes, QueryNewest, Plot, GraphDone
    <3>. QED  BY <3>1 DEF PairsInv
  <2>. QED  BY <2>5, <2>6, <2>7, <2>8, <2>9, <2>10
<1>. QED  BY <1>1, <1>2, <1>3, <1>4

-----------------------------------------------------------------------------
(* The theorems.                                                            *)

\* IndInv is an invariant, for any metrics, runs, windows and events.
THEOREM Invariance == Spec => []IndInv
<1>1. IndInv /\ [Next]_vars => IndInv'
  BY StartPageInv, ReadConfigsInv, FirstQueryInv, LastQueryInv, WindowQueryInv, CheckWindowInv,
     AllJudgedInv, WritePageInv, WriteIndexInv, GraphLastInv, GraphAllInv, JoinGraphsInv,
     StartCompareInv, CompareQueryInv, StartGraphInv, GraphQueryInv, CommitInv,
     CleanResultsInv, ClockInv, StutterInv DEF Next
<1>. QED  BY <1>1, InitInv, PTL DEF Spec

\* Every variable keeps its type.
THEOREM TypeCorrect == Spec => []TypeOK
  BY Invariance, PTL DEF IndInv

\* What the index says of a test is what the averages say of its headline
\* metrics, in whatever order they are looked at, unless some are missing.
THEOREM VerdictRight == Spec => []FailedIffRegressed
<1>1. IndInv => FailedIffRegressed
  <2>. SUFFICES ASSUME IndInv, NEW e \in recent
                PROVE  /\ e.regression => \E i \in Weeks : Failing(e, i) # {}
                       /\ (\A i \in Weeks : DOMAIN Columns(e)[i] \subseteq DOMAIN e.last.values) =>
                            (e.regression <=> \E i \in Weeks : Failing(e, i) # {})
    BY DEF FailedIffRegressed
  <2>1. IF e.regression THEN Failed(e) ELSE Passed(e, 4)
    BY DEF IndInv, EntryInv
  <2>2. e.regression => \E i \in Weeks : Failing(e, i) # {}
    BY <2>1 DEF Failed
  <2>3. ~e.regression => \A i \in Weeks : NoneMissing(e, i) => Failing(e, i) = {}
    BY <2>1 DEF Passed
  <2>. QED  BY <2>2, <2>3 DEF NoneMissing
<1>. QED  BY <1>1, Invariance, PTL

\* A test that failed has a headline metric marked, and on its page, unless the
\* newest run is not in the first window.
THEOREM FailureIsShown == Spec => []FailureShown
<1>1. IndInv => FailureShown
  <2>. SUFFICES ASSUME IndInv, NEW e \in recent, e.regression
                PROVE  \E k \in test_regression_keys :
                         /\ k \in DOMAIN e.verdict /\ e.verdict[k]
                         /\ k \in DOMAIN Columns(e)[1] \/ e.last \notin e.window[1]
    BY DEF FailureShown
  <2>1. Failed(e)
    BY DEF IndInv, EntryInv
  <2>2. PICK i \in Weeks : \E k \in Failing(e, i) : k \in DOMAIN e.verdict /\ e.verdict[k]
    BY <2>1 DEF Failed
  <2>3. PICK k \in Failing(e, i) : k \in DOMAIN e.verdict /\ e.verdict[k]
    BY <2>2
  <2>4. k \in test_regression_keys /\ k \in DOMAIN e.last.values
    BY <2>3 DEF Failing
  <2>5. ASSUME e.last \in e.window[1]
        PROVE  k \in DOMAIN Columns(e)[1]
    <3>1. Columns(e)[1] = get_avgs(e.window[1])
      BY DEF Columns, Weeks
    <3>2. DOMAIN get_avgs(e.window[1]) = UNION {DOMAIN r.values : r \in e.window[1]}
      BY DEF get_avgs
    <3>. QED  BY <2>4, <2>5, <3>1, <3>2
  <2>. QED  BY <2>3, <2>4, <2>5
<1>. QED  BY <1>1, Invariance, PTL

\* No metric is shown as passing that was not judged.
THEOREM AllShownJudged == Spec => []ShownIsJudged
<1>1. IndInv => ShownIsJudged
  <2>. SUFFICES ASSUME IndInv, NEW e \in recent, e.test \in pages
                PROVE  DOMAIN Columns(e)[1] \subseteq DOMAIN e.verdict
    BY DEF ShownIsJudged
  <2>1. Judged(e)
    BY DEF IndInv, EntryInv, Failed, Passed
  <2>2. Renders(e)
    BY DEF IndInv, PagesInv
  <2>. QED  BY <2>1, <2>2 DEF Judged, NoneMissing, Renders
<1>. QED  BY <1>1, Invariance, PTL

\* A run is not compared with itself while the clock and the database stand.
THEOREM BaselineIsOthers == Spec => []NotItsOwnBaseline
<1>1. IndInv => NotItsOwnBaseline
  <2>. SUFFICES ASSUME IndInv, NEW e \in recent, NEW i \in Weeks,
                       Cardinality(e.window[i]) > 1, setbacks = 0,
                       \A r \in e.window[i] : r.id <= e.last.id
                PROVE  e.last \notin Averaged(e.window[i])
    BY DEF NotItsOwnBaseline
  <2>. DEFINE R == e.window[i]
  <2>1. Ordered(R) /\ e \in Entries
    BY DEF IndInv, OrderInv, EntryInv, Failed, Passed
  <2>2. R \subseteq Rows /\ \A r \in R : r.id \in Nat /\ r.day \in Int
    BY <2>1 DEF Entries, Rows
  <2>3. CASE e.last \in R
    <3>1. \A q \in R \ {e.last} : Later(e.last, q)
      BY <2>1, <2>2, <2>3 DEF Ordered, Later
    <3>. QED  BY <2>3, <3>1 DEF Averaged, Newest
  <2>. QED  BY <2>3 DEF Averaged
<1>. QED  BY <1>1, Invariance, PTL

\* What is known of the rows that were read, with their number, their days and
\* that they are still there: what pages and graphs need to be complete.
THEOREM CompleteInvariance == Spec => []CompleteInv
<1>1. Init => CompleteInv
  BY FS_EmptySet DEF Init, CompleteInv, SameMetricsComplete, FiniteInv, DaysInv, KeptInv, PairsInv, GraphInv
<1>2. IndInv /\ CompleteInv /\ [Next]_vars => CompleteInv'
  BY SameStep, FiniteStep, DaysStep, KeptStep, PairsStep, GraphStep DEF CompleteInv
<1>. QED  BY <1>1, <1>2, Invariance, PTL DEF Spec

\* While nothing is deleted and all runs measure the same, neither the page nor
\* the graph of a test dies: every metric of the first window is in the others
\* and in the newest run, whatever is committed and however the clock is set.
THEOREM PagesComplete == Spec => []SameMetricsComplete
  BY CompleteInvariance, PTL DEF CompleteInv

\* No process that draws graphs misses a metric that all runs have, if there
\* were runs enough to begin with: a run that is committed between the query
\* for the metrics and that for the runs takes none away.
THEOREM GraphsAreDrawn == Spec => []GraphsDrawn
<1>1. IndInv /\ CompleteInv => GraphsDrawn
  <2>. SUFFICES ASSUME IndInv, CompleteInv, pc = "done", deletes = 0, NEW e \in recent, NEW k \in Keys,
                       Cardinality(Continuous(e.config, e.test)) > 1 + events,
                       \A r \in db : r.name = e.test => k \in NonZero(r)
                PROVE  <<e.config, e.test, k>> \in graphs
    BY DEF GraphsDrawn
  <2>1. Drawing(e, k) /\ drawing = {}
    BY DEF CompleteInv, GraphInv, PairsInv
  <2>. QED  BY <2>1 DEF Drawing
<1>. QED  BY <1>1, Invariance, CompleteInvariance, PTL

\* What compare.py read can be averaged, and its table is of these averages.
LEMMA TableOf ==
  ASSUME IndInv, FiniteInv, NEW k \in DOMAIN Table
  PROVE  /\ Measured(sides["A"]) /\ Measured(sides["B"])
         /\ k \in DOMAIN avg_results(sides["A"]) /\ k \in DOMAIN avg_results(sides["B"])
         /\ Table[k] = diff_string(avg_results(sides["A"])[k], avg_results(sides["B"])[k], k)
<1>1. sides["A"] \subseteq Rows /\ sides["B"] \subseteq Rows
  BY DEF IndInv, TypeOK
<1>2. \A r \in Rows : r.values \in [DOMAIN r.values -> Nat]
  BY DEF Rows
<1>3. Measured(sides["A"]) /\ Measured(sides["B"])
  BY <1>1, <1>2 DEF Measured, FiniteInv
<1>4. ~(sides["A"] = {} \/ sides["B"] = {})
  BY DEF Table
<1>5. Table = comparison_table(avg_results(sides["A"]), avg_results(sides["B"]))
  BY <1>4 DEF Table
<1>. QED  BY <1>3, <1>5 DEF comparison_table

\* compare.py calls no metric better both ways, whatever the runs of the labels.
THEOREM TableOneWay == Spec => []NeverBetterBothWays
<1>1. IndInv /\ CompleteInv => NeverBetterBothWays
  <2>. SUFFICES ASSUME IndInv, CompleteInv, NEW k \in DOMAIN Table, Table[k] = "green"
                PROVE  diff_string(avg_results(sides["B"])[k], avg_results(sides["A"])[k], k) # "green"
    BY DEF NeverBetterBothWays
  <2>1. /\ avg_results(sides["A"])[k] \in Averages /\ avg_results(sides["B"])[k] \in Averages
        /\ diff_string(avg_results(sides["A"])[k], avg_results(sides["B"])[k], k) = "green"
    BY TableOf, ResultsType DEF CompleteInv
  <2>. QED  BY <2>1, BetterOneWay
<1>. QED  BY <1>1, Invariance, CompleteInvariance, PTL

\* A single run of label B is red in the table exactly where the page would
\* fail it: its average is itself.
THEOREM TableLikePage == Spec => []TableAgreesWithPage
<1>1. IndInv /\ CompleteInv => TableAgreesWithPage
  <2>. SUFFICES ASSUME IndInv, CompleteInv, Cardinality(sides["B"]) = 1,
                       NEW r \in sides["B"], NEW k \in DOMAIN Table
                PROVE  Table[k] = "red" <=> Regresses(avg_results(sides["A"])[k], r.values[k], k)
    BY DEF TableAgreesWithPage
  <2>1. /\ Measured(sides["B"]) /\ k \in DOMAIN avg_results(sides["B"])
        /\ Table[k] = diff_string(avg_results(sides["A"])[k], avg_results(sides["B"])[k], k)
    BY TableOf DEF CompleteInv
  <2>2. sides["B"] = {r}
    BY <2>1, FS_Singleton DEF Measured
  <2>3. avg_results(sides["B"])[k] = Single(r.values[k])
    BY <2>1, <2>2, ResultsType
  <2>4. avg_results(sides["A"])[k] \in Averages
    BY TableOf, ResultsType DEF CompleteInv
  <2>5. r.values[k] \in Nat
    <3>1. k \in DOMAIN r.values
      BY <2>1, <2>2 DEF avg_results
    <3>. QED  BY <2>1, <3>1 DEF Measured
  <2>. QED  BY <2>1, <2>3, <2>4, <2>5, SameThreshold
<1>. QED  BY <1>1, Invariance, CompleteInvariance, PTL

\* A test that is marked as failed did worse in a headline metric it failed on
\* than one of the runs of that average, or none of those has the metric and it is
\* one of which less is better.
THEOREM FailedForAReason == Spec => []FailedIsWorse
<1>1. IndInv /\ CompleteInv => FailedIsWorse
  <2>. SUFFICES ASSUME IndInv, CompleteInv, NEW e \in recent, e.regression
                PROVE  \E i \in Weeks : \E k \in Failing(e, i) :
                         LET had == {r \in Averaged(e.window[i]) : k \in DOMAIN r.values} IN
                         \/ \E r \in had : IF HigherIsBetter(k) THEN e.last.values[k] < r.values[k]
                                                               ELSE e.last.values[k] > r.values[k]
                         \/ had = {} /\ ~HigherIsBetter(k) /\ e.last.values[k] > 0
    BY DEF FailedIsWorse
  <2>1. Failed(e)
    BY DEF IndInv, EntryInv
  <2>2. PICK i \in Weeks : \E k \in Failing(e, i) : TRUE
    BY <2>1 DEF Failed
  <2>3. PICK k \in Failing(e, i) : TRUE
    BY <2>2
  <2>. DEFINE A == Averaged(e.window[i])
              v == e.last.values[k]
              had == {r \in A : k \in DOMAIN r.values}
  <2>4. /\ k \in test_regression_keys \cap DOMAIN e.last.values /\ k \in DOMAIN Columns(e)[i]
        /\ Regresses(Columns(e)[i][k], v, k)
    BY <2>3 DEF Failing
  <2>5. /\ \A r \in Rows : r.values \in [DOMAIN r.values -> Nat]
        /\ e.last \in Rows /\ e.window[i] \subseteq Rows /\ A \subseteq e.window[i]
    BY <2>1 DEF Failed, Entries, Rows, Averaged
  <2>6. v \in Nat
    BY <2>4, <2>5
  <2>7. Measured(A)
    <3>1. A \in SUBSET e.window[i] /\ IsFiniteSet(e.window[i])
      BY <2>5 DEF CompleteInv, FiniteInv
    <3>. QED  BY <2>5, <3>1, FS_Subset DEF Measured
  <2>8. ASSUME had # {}
        PROVE  \E r \in had : IF HigherIsBetter(k) THEN v < r.values[k] ELSE v > r.values[k]
    <3>1. k \in DOMAIN avg_results(A)
      BY <2>8 DEF avg_results
    <3>2. Columns(e)[i][k] = avg_results(A)[k]
      BY <2>4, <3>1 DEF Columns, get_avgs
    <3>3. Regresses(avg_results(A)[k], v, k)
      BY <2>4, <3>2
    <3>. HIDE DEF A, v
    <3>4. \E r \in A : k \in DOMAIN r.values /\
                       IF HigherIsBetter(k) THEN v < r.values[k] ELSE v > r.values[k]
      BY <2>6, <2>7, <3>1, <3>3, WorseThanOne
    <3>. QED  BY <3>4
  <2>9. ASSUME had = {}
        PROVE  ~HigherIsBetter(k) /\ v > 0
    <3>1. k \notin DOMAIN avg_results(A)
      BY <2>9 DEF avg_results
    <3>2. Columns(e)[i][k] = Single(0)
      BY <2>4, <3>1 DEF Columns, get_avgs
    <3>3. Regresses(Single(0), v, k)
      BY <2>4, <3>2
    <3>4. Single(0).n = 1 /\ Single(0).sum = 0
      BY DEF Single
    <3>. HIDE DEF v
    <3>5. v * 1 - 0 = v /\ ~(v < 0)
      BY <2>6
    <3>. QED  BY <3>3, <3>4, <3>5 DEF Regresses
  <2>. QED  BY <2>3, <2>8, <2>9
<1>. QED  BY <1>1, Invariance, CompleteInvariance, PTL
=============================================================================
