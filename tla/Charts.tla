------------------------------- MODULE Charts -------------------------------
(***************************************************************************)
(* The symbols and the charts of a session.  A source reads the symbols    *)
(* that every system runs on from a file, and the chart manager reads      *)
(* those that get a chart from another.  A worker per system goes through  *)
(* the symbols: it takes the chart of its symbol, gives it the bars and    *)
(* the positions, and the system draws on it, before, after or between the *)
(* drawings of others.  A symbol without a chart gets one that draws       *)
(* nothing.  When all have ended the charts are written.                   *)
(***************************************************************************)
EXTENDS Integers, FiniteSets, Sequences, SequencesExt

CONSTANTS
  ChartSessions, \* how many systems, the file of the symbols to run on, and that of
                 \* the symbols to chart: a file is a sequence of lines
  NoFile,        \* a file that is not there
  NoName,        \* no file is asked for: there are no charts
  LowerCase,     \* the symbols in lower case: a function
  Drawings       \* what a system may do on a symbol: sequences of Calls

Calls == {"default", "pane", "line", "error", "exit"}

\* At most so many panes on a chart, or parts on a pane, when one more is added.
MaxPanes == 10
MaxParts == 5

VARIABLES
  source,        \* the file of the symbols to run on
  toChart,       \* the file of the symbols to chart
  describedIn,   \* where the charts are listed: a "file", one that is "closed",
                 \* or the "directory" of the session, when no name is given
  charts,        \* ChartManager::_charts: from a symbol to its chart
  runs,          \* of each system: its runs, the last may be under way
  drawn,         \* "no", "all", or "failed": the end of the session
  written        \* from a symbol to what is in the file of its chart

chartVars == <<source, toChart, describedIn, charts, runs, drawn, written>>

-----------------------------------------------------------------------------
\* parse, parseLine: lines of symbols, some of them comments
Parsed(file) ==
  FlattenSeq([n \in DOMAIN file |-> IF file[n].comment THEN <<>> ELSE file[n].symbols])

\* Of symbols that differ only in case the first is kept, as it is written.
Unique(symbols) ==
  LET New(n) == \A k \in 1 .. n - 1 : LowerCase[symbols[k]] # LowerCase[symbols[n]]
      Kept == SelectSeq([n \in DOMAIN symbols |-> n], New)
  IN  [k \in DOMAIN Kept |-> symbols[Kept[k]]]

\* FileSymbolsList: there is no session without its symbols, nor without its charts.
CannotOpen == source = NoFile \/ toChart = NoFile

\* FileSymbolsSource: as they are in the file, the same symbol again and again.
SymbolsToRun == Parsed(source)

\* WebChartManager
SymbolsToChart == IF toChart = NoName THEN <<>> ELSE Unique(Parsed(toChart))

-----------------------------------------------------------------------------
Component(what, run, call) == [what |-> what, by |-> run, call |-> call]
BarsPart == Component("bars", <<0, 0>>, 0)
PositionsPart == Component("positions", <<0, 0>>, 0)

\* A pane belongs to the run that made it; the default one has the bars and the
\* positions already.
NewPane(run) == [by |-> run, lines |-> <<>>]
IsDefault(pane) == pane.by = <<0, 0>>
Parts(pane) == Len(pane.lines) + (IF IsDefault(pane) THEN 2 ELSE 0)

WebChart ==
  [enabled |-> TRUE, error |-> FALSE, data |-> FALSE, positions |-> {},
   panes |-> <<NewPane(<<0, 0>>)>>]
NullChart ==
  [enabled |-> FALSE, error |-> FALSE, data |-> FALSE, positions |-> {}, panes |-> <<>>]

Workers == DOMAIN runs
reduced == Len(runs) > 1

GetChart(s) == IF s \in DOMAIN charts THEN charts[s] ELSE NullChart
SetChart(s, c) == charts' = [t \in DOMAIN charts \cup {s} |-> IF t = s THEN c ELSE charts[t]]

\* Chart::init: the first data stay, the positions of all runs are kept.
InitChart(c, run) == [c EXCEPT !.data = TRUE, !.positions = @ \cup {run}]

\* createPane; a chart that is not drawn has none.
TooManyPanes(c) == c.enabled /\ Len(c.panes) > MaxPanes
CreatePane(c, run) ==
  IF c.enabled THEN [c EXCEPT !.panes = Append(@, NewPane(run))] ELSE c

\* drawSeries on a pane: the default one, or the last that the run made.  With more
\* than one system there are no lines.
PaneFor(c, run, call) ==
  IF call = "default" THEN SelectInSeq(c.panes, IsDefault)
  ELSE SelectLastInSeq(c.panes, LAMBDA p : p.by = run)
TooManyParts(c, pane) == ~reduced /\ pane # 0 /\ Parts(c.panes[pane]) > MaxParts
DrawSeries(c, pane, line) ==
  IF reduced \/ pane = 0 THEN c ELSE [c EXCEPT !.panes[pane].lines = Append(@, line)]

-----------------------------------------------------------------------------
NewRun(s, drawing, traded) ==
  [symbol |-> s, drawing |-> drawing, traded |-> traded, at |-> 0, outcome |-> "runs"]

Current(w) == runs[w][Len(runs[w])]
Number(w) == <<w, Len(runs[w])>>
Between(w) == runs[w] # <<>> => Current(w).outcome \in {"done", "failed", "no data"}
Stopped(w) ==
  \/ runs[w] # <<>> /\ Current(w).outcome = "exit"
  \/ Between(w) /\ Len(runs[w]) = Len(SymbolsToRun)

Set(w, run) == runs' = [runs EXCEPT ![w] = [@ EXCEPT ![Len(@)] = run]]
Failed(w) ==
  /\ Set(w, [Current(w) EXCEPT !.outcome = "failed"])
  /\ SetChart(Current(w).symbol, [GetChart(Current(w).symbol) EXCEPT !.error = TRUE])

ChartsInit ==
  /\ \E s \in ChartSessions :
       source = s.source /\ toChart = s.toChart /\ runs = [w \in 1 .. s.systems |-> <<>>]
  /\ describedIn \in {"file", "closed", "directory"}
  /\ drawn = IF CannotOpen THEN "failed" ELSE "no"
  /\ charts = IF drawn = "failed" THEN <<>>
              ELSE [s \in ToSet(SymbolsToChart) |-> WebChart]
  /\ written = <<>>

\* The bars of a symbol may be missing: then the system does not run.
StartRun(w) ==
  /\ drawn = "no" /\ Between(w) /\ ~Stopped(w)
  /\ LET s == SymbolsToRun[Len(runs[w]) + 1]
         run == <<w, Len(runs[w]) + 1>>
     IN  \E drawing \in Drawings, traded \in BOOLEAN, loaded \in BOOLEAN :
           LET new == NewRun(s, drawing, traded) IN
           /\ loaded \/ (drawing = <<>> /\ ~traded)
           /\ runs' = [runs EXCEPT ![w] =
                         Append(@, IF loaded THEN new ELSE [new EXCEPT !.outcome = "no data"])]
           /\ IF loaded THEN SetChart(s, InitChart(GetChart(s), run)) ELSE UNCHANGED charts
  /\ UNCHANGED <<source, toChart, describedIn, drawn, written>>

\* The next call of the system.  An exception marks the chart, the statement that
\* ends the system does not.
Draw(w) ==
  /\ drawn = "no" /\ runs[w] # <<>> /\ Current(w).outcome = "runs"
  /\ Current(w).at < Len(Current(w).drawing)
  /\ LET run  == Current(w)
         call == run.drawing[run.at + 1]
         c    == charts[run.symbol]
         pane == PaneFor(c, Number(w), call)
     IN  CASE call = "exit" -> Set(w, [run EXCEPT !.outcome = "exit"]) /\ UNCHANGED charts
           [] call = "error" -> Failed(w)
           [] call = "pane" ->
                IF TooManyPanes(c) THEN Failed(w)
                ELSE Set(w, [run EXCEPT !.at = @ + 1]) /\ SetChart(run.symbol, CreatePane(c, Number(w)))
           [] OTHER ->
                IF TooManyParts(c, pane) THEN Failed(w)
                ELSE /\ Set(w, [run EXCEPT !.at = @ + 1])
                     /\ SetChart(run.symbol, DrawSeries(c, pane, Component("line", Number(w), run.at + 1)))
  /\ UNCHANGED <<source, toChart, describedIn, drawn, written>>

Finish(w) ==
  /\ drawn = "no" /\ runs[w] # <<>> /\ Current(w).outcome = "runs"
  /\ Current(w).at = Len(Current(w).drawing)
  /\ Set(w, [Current(w) EXCEPT !.outcome = "done"])
  /\ UNCHANGED <<source, toChart, describedIn, charts, drawn, written>>

-----------------------------------------------------------------------------
\* hasEnablePositions
HasPositions(c) == \E r \in c.positions : runs[r[1]][r[2]].traded

\* The components of a pane: the bars, the positions if there are any, the lines.
Components(c, pane) ==
  (IF ~IsDefault(pane) THEN <<>>
   ELSE IF HasPositions(c) THEN <<BarsPart, PositionsPart>> ELSE <<BarsPart>>) \o pane.lines

\* WebPane::serialize: with more than one system only the default pane is an element
\* of its own, and what the others have would stand beside it.
IsElement(pane) == ~reduced \/ IsDefault(pane)

\* WebBarsChart::serialize
Serialize(c) ==
  IF ~c.data THEN [error |-> "no data", panes |-> <<>>, beside |-> <<>>]
  ELSE LET Elements == SelectSeq(c.panes, IsElement)
           Others == SelectSeq(c.panes, LAMBDA p : ~IsElement(p))
       IN  [error |-> IF c.error THEN "run" ELSE "none",
            panes |-> [n \in DOMAIN Elements |-> Components(c, Elements[n])],
            beside |-> FlattenSeq([n \in DOMAIN Others |-> Components(c, Others[n])])]

\* WebChartManager::serialize.  The file of a chart may not open: it is left out.
Save ==
  /\ drawn = "no" /\ \A w \in Workers : Stopped(w)
  /\ IF describedIn # "file" THEN drawn' = "failed" /\ UNCHANGED written
     ELSE /\ drawn' = "all"
          /\ \E closed \in SUBSET {s \in DOMAIN charts : charts[s].enabled} :
               written' = [s \in {t \in DOMAIN charts : charts[t].enabled} \ closed |->
                             Serialize(charts[s])]
  /\ UNCHANGED <<source, toChart, describedIn, charts, runs>>

ChartsNext ==
  \/ \E w \in Workers : StartRun(w) \/ Draw(w) \/ Finish(w)
  \/ Save

-----------------------------------------------------------------------------
\* The runs on a symbol that took its chart, and what a run drew on the default pane
\* or on a pane of its own.
RunsOn(s) ==
  {r \in UNION {{w} \X DOMAIN runs[w] : w \in Workers} :
     runs[r[1]][r[2]].symbol = s /\ runs[r[1]][r[2]].outcome # "no data"}
DrewOn(r, p) ==
  LET run == runs[r[1]][r[2]]
      Before(n) == Cardinality({k \in 1 .. n : run.drawing[k] = "pane"})
      On(n) == IF p = 0 THEN run.drawing[n] = "default"
               ELSE run.drawing[n] = "line" /\ Before(n) = p
      Made == SelectSeq([n \in 1 .. run.at |-> n], On)
  IN  [k \in DOMAIN Made |-> Component("line", r, Made[k])]
PanesOf(r) ==
  LET run == runs[r[1]][r[2]] IN
  Cardinality({k \in 1 .. run.at : run.drawing[k] = "pane"})

\* What is written of the session is what its systems drew.  Only the symbols of the
\* file have charts.  A chart says that there are no data if no run got so far as to
\* take it, that a run failed if one did, and has positions if one traded.  With one
\* system, each line is on the pane it was drawn on, in the order in which it was
\* drawn, the lines of a failed run up to its failure; with more there is one pane
\* and no line, whatever the systems draw.  No chart grows without a limit.
ChartsShowTheRuns ==
  /\ \A s \in DOMAIN charts :
       /\ charts[s].enabled <=> s \in ToSet(SymbolsToChart)
       /\ Len(charts[s].panes) <= MaxPanes + 1
       /\ \A n \in DOMAIN charts[s].panes : Parts(charts[s].panes[n]) <= MaxParts + 1
  /\ \A s \in DOMAIN written :
       LET w == written[s]
           here == RunsOn(s)
           shown == UNION {ToSet(w.panes[n]) : n \in DOMAIN w.panes}
       IN  /\ w.error = "no data" <=> here = {}
           /\ w.error = "run" <=> \E r \in here : runs[r[1]][r[2]].outcome = "failed"
           /\ PositionsPart \in shown <=> \E r \in here : runs[r[1]][r[2]].traded
           /\ reduced /\ here # {} => Len(w.panes) = 1 /\ shown \subseteq {BarsPart, PositionsPart}
           /\ w.beside = <<>>
           /\ ~reduced => \A r \in here : \A p \in 0 .. PanesOf(r) :
                DrewOn(r, p) # <<>> =>
                  \E n \in DOMAIN w.panes :
                    /\ DrewOn(r, p) = SelectSeq(w.panes[n], LAMBDA x : x.by = r)
                    /\ BarsPart \in ToSet(w.panes[n]) <=> p = 0
=============================================================================
