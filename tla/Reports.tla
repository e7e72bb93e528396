------------------------------- MODULE Reports -------------------------------
(***************************************************************************)
(* The programs that read the results database: generate-results-page.py   *)
(* judges the newest run of every test in every configuration against the  *)
(* averages of four windows, writes the pages and has the graphs drawn by  *)
(* processes of their own; compare.py tabulates two labels;                *)
(* generate-graph.py draws one test.  Every query, with the sub-results    *)
(* read for it, is a step of its own: fsperf may commit a run, or          *)
(* clean-results delete some, between two of them, and a day may end.      *)
(*                                                                         *)
(* One of them runs at a time; they share nothing but the database, which  *)
(* none of them changes.                                                   *)
(***************************************************************************)
EXTENDS Metrics

CONSTANTS
  Configs, Tests,
  Runs,        \* what a run may store: [purpose, values]; "continuous" is a purpose
  Windows,     \* days of the four windows: 7, 14, 21, 28
  CompareDays, \* the window of compare.py: 365
  MaxRows, MaxDay, MaxSetbacks, \* bounds
  MaxEvents    \* bound on what happens around a program while it runs

Weeks == 1..4
Purposes == {r.purpose : r \in Runs}

ASSUME ReportsAssumption ==
  /\ \A r \in Runs : DOMAIN r.values \subseteq Keys /\ r.values \in [DOMAIN r.values -> Nat]
  /\ Windows \in [Weeks -> Nat] /\ \A i, j \in Weeks : i < j => Windows[i] < Windows[j]
  /\ {CompareDays, MaxRows, MaxDay, MaxSetbacks, MaxEvents} \subseteq Nat

\* The windows differ by a week.  While a program runs the day gets no further
\* than this: it takes a day at most, or longer by what the clock is set back,
\* and no more than MaxEvents things happen.
ASSUME WindowsAssumption ==
  \A i \in 2..4 : \/ Windows[1] + MaxSetbacks + 1 <= Windows[i]
                  \/ Windows[1] + MaxEvents <= Windows[i]

VARIABLES
  pc,      \* "idle"; the page: "configs", "first", "last", "avgs", "check",
           \* "pages", "graphs"; the table: "old", "new"; the graph of a test:
           \* "purposes", "newest", "graph"; then "done" or "died"
  tests,   \* names found in the database
  todo,    \* pairs of a configuration and a test that are still to be judged
  entry,   \* the pair being judged
  w,       \* its window being queried or checked
  recent,  \* the entries of the pairs done
  pages,   \* tests whose page is written
  pairs,   \* configurations and tests
  drawing, \* processes that draw graphs: their pair, and the metrics once they are read
  graphs,  \* the graphs drawn: <<configuration, test, metric>>
  labels,  \* generate-graph.py: its labels, and the pairs of a metric and a label
  plots,   \* that are still to be plotted
  sides,   \* compare.py: the rows of label A and of label B
  db, day, \* rows of the runs table, and today
  began,   \* the day the program started
  events, deletes, setbacks \* what happened since, rows that went, the clock set back

drawn == <<pairs, drawing, graphs, labels, plots>>
program == <<pc, tests, todo, entry, w, recent, pages, drawn, sides>>
vars == <<program, db, day, began, events, deletes, setbacks>>

Rows == [id : Nat, config : Configs, name : Tests, purpose : Purposes, day : Int, values : {r.values : r \in Runs}]
NoRow == [id |-> 0]

\* recent[c][t] with what it was made from: the newest run, the rows of each
\* window, the verdict per metric and on the whole test.
Entry(c, t) == [config |-> c, test |-> t, last |-> NoRow, window |-> [i \in Weeks |-> {}],
                verdict |-> [k \in {} |-> TRUE], regression |-> FALSE]
Entries == [config : Configs, test : Tests, last : Rows \cup {NoRow}, window : [Weeks -> SUBSET Rows],
            verdict : UNION {[D -> BOOLEAN] : D \in SUBSET Keys}, regression : BOOLEAN]

TypeOK ==
  /\ pc \in {"idle", "configs", "first", "last", "avgs", "check", "pages", "graphs",
             "old", "new", "purposes", "newest", "graph", "done", "died"}
  /\ tests \subseteq Tests /\ pages \subseteq tests 
  /\ todo \subseteq Configs \X Tests /\ labels \subseteq Purposes /\ plots \subseteq Keys \X Purposes
  /\ pairs \subseteq Configs \X Tests /\ graphs \subseteq Configs \X Tests \X Keys
  /\ drawing \subseteq [pair : pairs, read : BOOLEAN, keys : SUBSET Keys]
  /\ entry \in Entries \cup {NoRow} /\ recent \subseteq Entries /\ w \in Weeks
  /\ sides \in [{"A", "B"} -> SUBSET Rows] /\ db \subseteq Rows
  /\ {day, began} \subseteq Int /\ {events, deletes, setbacks} \subseteq Nat

-----------------------------------------------------------------------------
(* Queries.                                                                 *)

Continuous(c, t) == {r \in db : r.config = c /\ r.name = t /\ r.purpose = "continuous"}

\* The run of the greatest id, if any.
get_last(c, t) ==
  {r \in Continuous(c, t) : \A q \in Continuous(c, t) : q.id <= r.id}

InWindow(c, t, days) == {r \in Continuous(c, t) : r.day >= day - days}

\* The order of Run.time; runs of one day are committed in the order of their ids.
Later(r, q) == r.day > q.day \/ (r.day = q.day /\ r.id > q.id)
Newest(R) == {r \in R : \A q \in R \ {r} : Later(r, q)}

\* Mutation: the oldest run is taken out of the average.
Averaged_AllButOldest(R) == IF Cardinality(R) > 1 THEN {r \in R : \E q \in R : Later(r, q)} ELSE R

\* The runs of a window that make up its average: all but the newest, unless
\* there is no other.
Averaged(R) == IF Cardinality(R) > 1 THEN R \ Newest(R) ELSE R

\* Metrics that only the newest run has count as 0.
get_avgs(R) ==
  LET avgs == avg_results(Averaged(R)) IN
  [k \in UNION {DOMAIN r.values : r \in R} |-> IF k \in DOMAIN avgs THEN avgs[k] ELSE Single(0)]

get_results(c, t, purpose) ==
  {r \in db : r.config = c /\ r.name = t /\ r.purpose = purpose /\ r.day >= began - CompareDays}

-----------------------------------------------------------------------------
(* generate-results-page.py.                                                *)

Init ==
  /\ pc = "idle" /\ tests = {} /\ todo = {} /\ entry = NoRow /\ w = 1 /\ recent = {} /\ pages = {}
  /\ pairs = {} /\ drawing = {} /\ graphs = {} /\ labels = {} /\ plots = {}
  /\ sides = [s \in {"A", "B"} |-> {}] /\ db = {} /\ day = 0 /\ began = 0
  /\ events = 0 /\ deletes = 0 /\ setbacks = 0

world == <<db, day, began, events, deletes, setbacks>>

StartPage ==
  /\ pc = "idle" /\ pc' = "configs" /\ tests' = {r.name : r \in db} /\ began' = day
  /\ UNCHANGED <<todo, entry, w, recent, pages, drawn, sides, db, day, events, deletes, setbacks>>

ReadConfigs ==
  /\ pc = "configs" /\ pc' = "first"
  /\ pairs' = {r.config : r \in db} \X tests /\ todo' = pairs'
  /\ UNCHANGED <<tests, entry, w, recent, pages, drawing, graphs, labels, plots, sides, world>>

\* Mutation: pairs without a continuous run are not left out.
FirstQuery_NoSkip ==
  /\ pc = "first"
  /\ \E p \in todo : todo' = todo \ {p} /\ pc' = "last" /\ entry' = Entry(p[1], p[2])
  /\ UNCHANGED <<tests, w, recent, pages, drawn, sides, world>>

\* A test without a continuous run in this configuration is left out.
FirstQuery ==
  /\ pc = "first"
  /\ \E p \in todo :
       /\ todo' = todo \ {p}
       /\ IF get_last(p[1], p[2]) = {} THEN UNCHANGED <<pc, entry>>
          ELSE pc' = "last" /\ entry' = Entry(p[1], p[2])
  /\ UNCHANGED <<tests, w, recent, pages, drawn, sides, world>>

\* The same query again: by now the run may be gone.
LastQuery ==
  /\ pc = "last" /\ pc' = "avgs" /\ w' = 1
  /\ \E r \in (IF get_last(entry.config, entry.test) = {} THEN {NoRow}
               ELSE get_last(entry.config, entry.test)) : entry' = [entry EXCEPT !.last = r]
  /\ UNCHANGED <<tests, todo, recent, pages, drawn, sides, world>>

\* Mutation: there is a window after the last.
WindowQuery_OneMore ==
  /\ pc = "avgs"
  /\ entry' = [entry EXCEPT !.window[w] = InWindow(entry.config, entry.test, Windows[w])]
  /\ w' = w + 1
  /\ pc' = IF w < 4 THEN "avgs" ELSE IF entry.last = NoRow THEN "died" ELSE "check"
  /\ UNCHANGED <<tests, todo, recent, pages, drawn, sides, world>>

\* Without a newest run, setting its verdict is a TypeError.
WindowQuery ==
  /\ pc = "avgs"
  /\ entry' = [entry EXCEPT !.window[w] = InWindow(entry.config, entry.test, Windows[w])]
  /\ w' = (w % 4) + 1
  /\ pc' = IF w < 4 THEN "avgs" ELSE IF entry.last = NoRow THEN "died" ELSE "check"
  /\ UNCHANGED <<tests, todo, recent, pages, drawn, sides, world>>

Checked(seen) ==
  [entry EXCEPT
     !.regression = check_regression(get_avgs(entry.window[w]), entry.last.values, seen),
     !.verdict = [k \in DOMAIN @ \cup seen |->
       IF k \in seen THEN Regresses(get_avgs(entry.window[w])[k], entry.last.values[k], k) ELSE @[k]]]

\* Mutation: the verdicts of the windows are "or"ed without short-circuit.
CheckWindow_All ==
  /\ pc = "check"
  /\ \E seen \in Examined(get_avgs(entry.window[w]), entry.last.values) :
       /\ entry' = [Checked(seen) EXCEPT !.regression = @ \/ entry.regression]
       /\ IF w = 4 THEN pc' = "first" /\ recent' = recent \cup {entry'} /\ w' = 1
          ELSE w' = w + 1 /\ UNCHANGED <<pc, recent>>
  /\ UNCHANGED <<tests, todo, pages, drawn, sides, world>>

\* check_regression on one window after the other, up to the first that fails.
CheckWindow ==
  /\ pc = "check"
  /\ \E seen \in Examined(get_avgs(entry.window[w]), entry.last.values) :
       /\ entry' = Checked(seen)
       /\ IF entry'.regression \/ w = 4 THEN pc' = "first" /\ recent' = recent \cup {entry'} /\ w' = 1
          ELSE w' = w + 1 /\ UNCHANGED <<pc, recent>>
  /\ UNCHANGED <<tests, todo, pages, drawn, sides, world>>

AllJudged ==
  /\ pc = "first" /\ todo = {} /\ pc' = "pages"
  /\ UNCHANGED <<tests, todo, entry, w, recent, pages, drawn, sides, world>>

Columns(e) == [i \in Weeks |-> get_avgs(e.window[i])]

\* Mutation: metrics that the newest run lacks are rendered without a value.
Renders_Undefined(e) ==
  \A i \in Weeks : DOMAIN Columns(e)[1] \subseteq DOMAIN Columns(e)[i]

\* The template has a row for every metric of the first average, and looks it
\* up in the other averages and in the newest run.
Renders(e) ==
  /\ \A i \in Weeks : DOMAIN Columns(e)[1] \subseteq DOMAIN Columns(e)[i]
  /\ DOMAIN Columns(e)[1] \subseteq DOMAIN e.last.values

WritePage ==
  /\ pc = "pages"
  /\ \E t \in tests \ pages :
       IF \A e \in recent : e.test = t => Renders(e)
       THEN pages' = pages \cup {t} /\ UNCHANGED pc
       ELSE pc' = "died" /\ UNCHANGED pages
  /\ UNCHANGED <<tests, todo, entry, w, recent, drawn, sides, world>>

\* Then a process is started for every pair.
WriteIndex ==
  /\ pc = "pages" /\ pages = tests /\ pc' = "graphs"
  /\ drawing' = {[pair |-> p, read |-> FALSE, keys |-> {}] : p \in pairs}
  /\ UNCHANGED <<tests, todo, entry, w, recent, pages, pairs, graphs, labels, plots, sides, world>>

\* The newest run of a test, in any configuration and of any label.
get_last_test(t) ==
  {r \in db : r.name = t /\ \A q \in db : q.name = t => q.id <= r.id}

\* The metrics that are drawn: "id" marks a column that is not one.
NonZero(r) == {k \in DOMAIN r.values : r.values[k] # 0 /\ "id" \notin Words[k]}

\* One of the processes reads which metrics to draw, or dies as there is no run.
GraphLast ==
  /\ pc = "graphs"
  /\ \E d \in {d \in drawing : ~d.read} :
       drawing' = (drawing \ {d}) \cup
         {[d EXCEPT !.read = TRUE, !.keys = NonZero(r)] : r \in get_last_test(d.pair[2])}
  /\ UNCHANGED <<pc, tests, todo, entry, w, recent, pages, pairs, graphs, labels, plots, sides, world>>

\* Mutation: two runs are too few as well.
Plotted_OneMore(R, keys) ==
  IF Cardinality(R) <= 2 THEN {} ELSE {k \in keys : \E r \in R : k \in NonZero(r)}

\* A single run has no standard deviation: the first metric that is not 0 in it
\* ends the process.  Of several the outliers are taken out, never all of them.
Plotted(R, keys) ==
  IF Cardinality(R) = 1 THEN {} ELSE {k \in keys : \E r \in R : k \in NonZero(r)}

\* One of the processes reads the runs, and draws all its graphs.
GraphAll ==
  /\ pc = "graphs"
  /\ \E d \in {d \in drawing : d.read} :
       /\ drawing' = drawing \ {d}
       /\ graphs' = graphs \cup
            {<<d.pair[1], d.pair[2], k>> : k \in Plotted(Continuous(d.pair[1], d.pair[2]), d.keys)}
  /\ UNCHANGED <<pc, tests, todo, entry, w, recent, pages, pairs, labels, plots, sides, world>>

JoinGraphs ==
  /\ pc = "graphs" /\ drawing = {} /\ pc' = "done"
  /\ UNCHANGED <<tests, todo, entry, w, recent, pages, drawn, sides, world>>

-----------------------------------------------------------------------------
(* compare.py, for one test in one section.                                 *)

StartCompare ==
  /\ pc = "idle" /\ pc' = "old" /\ began' = day
  /\ \E c \in Configs, t \in Tests : entry' = Entry(c, t)
  /\ UNCHANGED <<tests, todo, w, recent, pages, drawn, sides, db, day, events, deletes, setbacks>>

Query(s, next) ==
  /\ \E p \in Purposes : sides' = [sides EXCEPT ![s] = get_results(entry.config, entry.test, p)]
  /\ pc' = next /\ UNCHANGED <<tests, todo, entry, w, recent, pages, drawn, world>>

QueryOld == pc = "old" /\ Query("A", "new")
QueryNew == pc = "new" /\ Query("B", "done")

\* Nothing is printed unless both labels have runs.
Table ==
  IF sides["A"] = {} \/ sides["B"] = {} THEN [k \in {} |-> "default"]
  ELSE comparison_table(avg_results(sides["A"]), avg_results(sides["B"]))

-----------------------------------------------------------------------------
(* generate-graph.py, for a test that has runs and some labels, or all.     *)

drawnPages == <<pairs, drawing, graphs>>

StartGraph ==
  /\ pc = "idle" /\ pc' = "purposes" /\ began' = day
  /\ \E r \in db : entry' = Entry(r.config, r.name)
  /\ labels' \in (SUBSET Purposes) \ {{}}
  /\ UNCHANGED <<tests, todo, w, recent, pages, drawnPages, plots, sides,
                 db, day, events, deletes, setbacks>>

get_all_purposes ==
  /\ pc = "purposes" /\ pc' = "newest" /\ labels' = {r.purpose : r \in db} \cap labels
  /\ UNCHANGED <<tests, todo, entry, w, recent, pages, drawnPages, plots, sides, world>>

QueryNewest ==
  /\ pc = "newest"
  /\ \/ get_last_test(entry.test) = {} /\ pc' = "died" /\ UNCHANGED plots
     \/ \E r \in get_last_test(entry.test) : pc' = "graph" /\ plots' = NonZero(r) \X labels
  /\ UNCHANGED <<tests, todo, entry, w, recent, pages, drawnPages, labels, sides, world>>

\* The runs are read again for every metric and label, and each must have it.
Plot ==
  /\ pc = "graph"
  /\ \E p \in plots :
       IF \A r \in db : r.name = entry.test /\ r.purpose = p[2] => p[1] \in DOMAIN r.values
       THEN plots' = plots \ {p} /\ UNCHANGED pc
       ELSE pc' = "died" /\ UNCHANGED plots
  /\ UNCHANGED <<tests, todo, entry, w, recent, pages, drawnPages, labels, sides, world>>

GraphDone ==
  /\ pc = "graph" /\ plots = {} /\ pc' = "done"
  /\ UNCHANGED <<tests, todo, entry, w, recent, pages, drawn, sides, world>>

-----------------------------------------------------------------------------
(* Around them, as long as a query is still to come: later steps only work  *)
(* on what was read.                                                        *)

Meanwhile ==
  /\ pc \in {"idle", "configs", "first", "last", "avgs", "graphs", "old", "new",
            "purposes", "newest", "graph"}
  /\ pc # "idle" => events < MaxEvents
  /\ events' = IF pc = "idle" THEN events ELSE events + 1
  /\ UNCHANGED <<program, began>>

\* The id of a new row is the greatest in use and 1: sqlite uses the ids of
\* rows that were last and went again.
Commit ==
  /\ Meanwhile /\ Cardinality(db) < MaxRows
  /\ \E c \in Configs, t \in Tests, r \in Runs, i \in {1} \cup {q.id + 1 : q \in db} :
       /\ \A q \in db : q.id < i
       /\ db' = db \cup {[id |-> i, config |-> c, name |-> t, purpose |-> r.purpose,
                          day |-> day, values |-> r.values]}
  /\ UNCHANGED <<day, deletes, setbacks>>

\* clean-results: the rows of a label, a test or a configuration.
CleanResults ==
  /\ Meanwhile /\ pc # "idle" /\ deletes' = deletes + 1
  /\ \/ \E p \in Purposes : db' = {r \in db : r.purpose # p}
     \/ \E t \in Tests : db' = {r \in db : r.name # t}
     \/ \E c \in Configs : db' = {r \in db : r.config # c}
  /\ UNCHANGED <<day, setbacks>>

\* The programs take no longer than a day.
NewDay ==
  /\ Meanwhile /\ day < MaxDay /\ (pc # "idle" => day <= began)
  /\ day' = day + 1 /\ UNCHANGED <<db, deletes, setbacks>>

\* The clock of the machine is corrected.
SetClockBack ==
  /\ Meanwhile /\ setbacks < MaxSetbacks /\ setbacks' = setbacks + 1 /\ day' = day - 1
  /\ UNCHANGED <<db, deletes>>

Next ==
  \/ StartPage \/ ReadConfigs \/ FirstQuery \/ LastQuery \/ WindowQuery \/ CheckWindow
  \/ AllJudged \/ WritePage \/ WriteIndex \/ GraphLast \/ GraphAll \/ JoinGraphs
  \/ StartCompare \/ QueryOld \/ QueryNew
  \/ StartGraph \/ get_all_purposes \/ QueryNewest \/ Plot \/ GraphDone
  \/ Commit \/ CleanResults \/ NewDay \/ SetClockBack

Spec == Init /\ [][Next]_vars

-----------------------------------------------------------------------------
(* Properties.                                                              *)

\* The headline metrics of an entry that regress against the average of window i.
Failing(e, i) ==
  {k \in DOMAIN Columns(e)[i] \cap DOMAIN e.last.values \cap test_regression_keys :
     Regresses(Columns(e)[i][k], e.last.values[k], k)}

\* A test is marked as failed if one of the headline metrics regresses against
\* one of the averages (utils.py:64), whatever stopped the search on the way;
\* and only missing metrics make the page overlook one.
FailedIffRegressed ==
  \A e \in recent :
    /\ e.regression => \E i \in Weeks : Failing(e, i) # {}
    /\ (\A i \in Weeks : DOMAIN Columns(e)[i] \subseteq DOMAIN e.last.values) =>
         (e.regression <=> \E i \in Weeks : Failing(e, i) # {})

\* A test fails for a reason: in a headline metric it failed on, its newest run did
\* worse than one of the runs of that very average; or none of them has the metric,
\* the average then being 0, less of it is better, and it is not 0.
FailedIsWorse ==
  \A e \in recent : e.regression =>
    \E i \in Weeks : \E k \in Failing(e, i) :
      LET had == {r \in Averaged(e.window[i]) : k \in DOMAIN r.values} IN
      \/ \E r \in had : IF HigherIsBetter(k) THEN e.last.values[k] < r.values[k]
                                            ELSE e.last.values[k] > r.values[k]
      \/ had = {} /\ ~HigherIsBetter(k) /\ e.last.values[k] > 0

\* A test that failed has a headline metric whose verdict says so, although later
\* windows overwrite the verdicts of earlier ones; and its page shows it, unless
\* the newest run is not in the first window, being older or deleted since: then
\* the page need have no row for the metric, although the index says "failed".
FailureShown ==
  \A e \in recent : e.regression =>
    \E k \in test_regression_keys :
      /\ k \in DOMAIN e.verdict /\ e.verdict[k]
      /\ k \in DOMAIN Columns(e)[1] \/ e.last \notin e.window[1]

\* What is shown as passing has been judged: no metric on a page written was
\* passed over when check_regression gave up.
ShownIsJudged ==
  \A e \in recent : e.test \in pages => DOMAIN Columns(e)[1] \subseteq DOMAIN e.verdict

\* The run that is judged is not in the average it is judged against, if there
\* are other runs, the clock never went back, and no run was committed between
\* the queries.
NotItsOwnBaseline ==
  \A e \in recent : \A i \in Weeks :
    /\ Cardinality(e.window[i]) > 1 /\ setbacks = 0 /\ \A r \in e.window[i] : r.id <= e.last.id
    => e.last \notin Averaged(e.window[i])

\* A graph is there for every metric that no run of the test lacks or has as 0, and
\* whose name has no "id" in it, in every configuration that had two runs before
\* the events around the program, if nothing is deleted: whatever is committed
\* meanwhile, and whichever run is the newest.
GraphsDrawn ==
  pc = "done" /\ deletes = 0 =>
    \A e \in recent : \A k \in Keys :
      /\ Cardinality(Continuous(e.config, e.test)) > 1 + events
      /\ \A r \in db : r.name = e.test => k \in NonZero(r)
      => <<e.config, e.test, k>> \in graphs

\* Pages and graphs are finished whatever is committed meanwhile, if all runs
\* measure the same and none is deleted.  (A process of the page that ends over a
\* single run only leaves its graphs out: see GraphsDrawn.)
SameMetricsComplete ==
  pc = "died" => deletes > 0 \/ \E r, s \in db : DOMAIN r.values # DOMAIN s.values

\* The comparison of two labels never calls a metric better both ways.
NeverBetterBothWays ==
  \A k \in {k \in DOMAIN Table : Table[k] = "green"} :
    diff_string(avg_results(sides["B"])[k], avg_results(sides["A"])[k], k) # "green"

\* A single run compared with the average of label A is red in the table where
\* the results page would fail it: diff_string and check_regression, which compute
\* their thresholds apart, agree.
TableAgreesWithPage ==
  Cardinality(sides["B"]) = 1 => \A r \in sides["B"] : \A k \in DOMAIN Table :
    Table[k] = "red" <=> Regresses(avg_results(sides["A"])[k], r.values[k], k)

\* test.jinja:12-15 heads its columns "4 week avg" to "1 week avg".
HeaderWeeks == <<4, 3, 2, 1>>
ColumnsMatchHeader ==
  \A e \in recent : e.test \in pages => \A j \in Weeks : Columns(e)[j] = get_avgs(e.window[HeaderWeeks[j]])

-----------------------------------------------------------------------------
(* The inductive invariant behind them.                                     *)

NoneMissing(e, i) == DOMAIN Columns(e)[i] \subseteq DOMAIN e.last.values
Judged(e) == NoneMissing(e, 1) => DOMAIN Columns(e)[1] \subseteq DOMAIN e.verdict

\* What is known of an entry when its first n windows have been checked.
Passed(e, n) ==
  /\ e \in Entries /\ e.last \in Rows
  /\ \A i \in Weeks : i <= n /\ NoneMissing(e, i) => Failing(e, i) = {}
  /\ n > 0 => Judged(e)

\* A failing entry has the verdicts of the window it fails on.
Failed(e) ==
  /\ e \in Entries /\ e.last \in Rows /\ Judged(e)
  /\ \E i \in Weeks : \E k \in Failing(e, i) : k \in DOMAIN e.verdict /\ e.verdict[k]

EntryInv ==
  /\ pc \in {"last", "avgs", "check", "old", "new"} => entry \in Entries
  /\ pc \in {"last", "avgs"} => entry.regression = FALSE
  /\ pc = "check" => entry.regression = FALSE /\ Passed(entry, w - 1)
  /\ \A e \in recent : IF e.regression THEN Failed(e) ELSE Passed(e, 4)

PagesInv ==
  /\ pc \notin {"pages", "graphs", "done", "died"} => pages = {}
  /\ pc \notin {"graphs", "done", "died"} => drawing = {}
  /\ \A e \in recent : e.test \in pages => Renders(e)

\* Ids are unique, and days follow them unless the clock went back.
Ordered(R) ==
  /\ \A r, q \in R : r.id = q.id => r = q
  /\ setbacks = 0 => \A r, q \in R : r.id < q.id => r.day <= q.day

OrderInv ==
  /\ Ordered(db) /\ (setbacks = 0 => \A r \in db : r.day <= day)
  /\ pc \in {"last", "avgs", "check"} => \A i \in Weeks : Ordered(entry.window[i])
  /\ \A e \in recent : \A i \in Weeks : Ordered(e.window[i])

IndInv == TypeOK /\ EntryInv /\ PagesInv /\ OrderInv

\* Sums and greatest ids are those of finitely many rows.
FiniteInv ==
  /\ IsFiniteSet(db) /\ IsFiniteSet(sides["A"]) /\ IsFiniteSet(sides["B"])
  /\ pc \in {"last", "avgs", "check"} => \A i \in Weeks : IsFiniteSet(entry.window[i])
  /\ \A e \in recent : \A i \in Weeks : IsFiniteSet(e.window[i])

\* The days of the first window, when later ones are queried: they are in each.
DaysInv ==
  /\ events <= MaxEvents /\ setbacks <= MaxSetbacks
  /\ pc # "idle" => day <= began + 1 /\ began <= day + setbacks
  /\ pc = "avgs" /\ w > 1 => \A r \in entry.window[1] :
       day <= r.day + Windows[1] + events /\ began <= r.day + Windows[1] + setbacks

\* The first n windows of an entry hold rows that are still there, and none is
\* empty if the first is not.
Kept(e, n) ==
  \A i \in Weeks : i <= n =>
    /\ e.window[i] \subseteq Continuous(e.config, e.test)
    /\ e.window[1] # {} => e.window[i] # {}

\* What was read is still there as long as nothing is deleted.
KeptInv ==
  deletes = 0 =>
    /\ pc = "last" => Continuous(entry.config, entry.test) # {}
    /\ pc \in {"avgs", "check"} => entry.last \in db
    /\ pc = "avgs" => Kept(entry, w - 1)
    /\ pc = "check" => Kept(entry, 4)
    /\ \A e \in recent : e.last \in db /\ Kept(e, 4)
    /\ pc \in {"purposes", "newest"} => \E r \in db : r.name = entry.test
    /\ pc = "graph" => \A p \in plots : \E r \in db : p[1] \in DOMAIN r.values

\* Entries are of pairs that graphs are drawn for.
PairsInv ==
  /\ todo \subseteq pairs
  /\ pc \in {"last", "avgs", "check"} => <<entry.config, entry.test>> \in pairs
  /\ \A e \in recent : <<e.config, e.test>> \in pairs
  /\ pc \in {"idle", "configs", "old", "new", "purposes", "newest", "graph"} => recent = {}
  /\ pc = "done" /\ recent # {} => drawing = {}

\* A graph that the page shows is drawn, or its process is on its way to it:
\* every run committed since it looked is an event.
Drawing(e, k) ==
  /\ Cardinality(Continuous(e.config, e.test)) > 1 + events
  /\ \A r \in db : r.name = e.test => k \in NonZero(r)
  => \/ <<e.config, e.test, k>> \in graphs
     \/ \E d \in drawing : d.pair = <<e.config, e.test>> /\ (d.read => k \in d.keys)

GraphInv ==
  deletes = 0 /\ pc \in {"graphs", "done"} => \A e \in recent : \A k \in Keys : Drawing(e, k)

\* The part of the invariant that complete pages, graphs and tables need.
CompleteInv == SameMetricsComplete /\ FiniteInv /\ DaysInv /\ KeptInv /\ PairsInv /\ GraphInv
=============================================================================
