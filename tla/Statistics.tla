----------------------------- MODULE Statistics -----------------------------
(***************************************************************************)
(* How far a session has come, and what FileStatsHandler makes of it when  *)
(* it has ended: the range of dates, the curves, the tables of statistics  *)
(* and the files with them.                                                *)
(*                                                                         *)
(* Equity is about the values of the curves.  Here they are there or not.  *)
(* Positions have one share, percentages of gains and what is derived from *)
(* them are left out.                                                      *)
(***************************************************************************)
EXTENDS Integers, Sequences, SequencesExt, FiniteSetsExt

CONSTANTS Missing,       \* no data
          DataOfSymbol,  \* what a symbol may have: sequences of bars, or Missing
          SymbolCount,
          Deals,         \* the positions that a session may have made
          Capital        \* to begin with

VARIABLES wanted,   \* what is to be made: "stats", "equity", and "csv" if that file is named
          edr,    \* the range of the session
          data,     \* the data of each symbol, when the session has ended
          dealt,    \* the positions
          progress, \* RuntimeStatsImpl
          moment,     \* how far the handler is
          equity,   \* whether there are curves
          held,     \* the positions bought and held for comparison
          tables,   \* StatsCalculator for all, longs, shorts, and those held
          outcome   \* "no", "assert", "thrown", "silent", "printed"

statsVars == <<wanted, edr, data, dealt, progress, moment, equity, held, tables, outcome>>

\* Trades want what equity wants.
Outputs == {"stats", "equity", "csv"}
Calculations == wanted \ {"csv"}
NegInf == 0
PosInf == 100
DefaultFrom == 1    \* 01/01/1960
Today == 9

HasData(s) == data[s] # Missing
Bars(s) == IF HasData(s) THEN data[s] ELSE <<>>   \* of day, open, close

-----------------------------------------------------------------------------
(* Progress *)

\* A percentage counts 100.  A division by zero makes it infinite for good.
NoProgress == [extra |-> 0, done |-> 0, endless |-> FALSE, total |-> 0, runs |-> 0]

AddPct(p, pct) == [p EXCEPT !.extra = @ + pct]
Step(p, pct) == [p EXCEPT !.done = @ + pct]

IncTotalRuns(p) ==
  IF p.total = 0 THEN [p EXCEPT !.runs = @ + 1, !.endless = TRUE]
  ELSE [p EXCEPT !.runs = @ + 1, !.done = @ + (10000 - p.extra) \div p.total]

EqPct == 1600
StatsPct == 400
DateRangeStep == EqPct \div 8
EqStep == (EqPct * 5) \div 16
DDStep == EqPct \div 16
StatsStep == StatsPct \div 4

-----------------------------------------------------------------------------
(* The statistics of positions *)

NoStats ==
  [count |-> 0, winning |-> 0, losing |-> 0, neutral |-> 0, gain |-> 0,
   maxGain |-> 0, maxLoss |-> 0, totalGain |-> 0, totalLoss |-> 0,
   openCost |-> 0, closeCost |-> 0, openSlippage |-> 0, closeSlippage |-> 0,
   openCommission |-> 0, closeCommission |-> 0]

\* Neither capital has a value before it is set.
EmptyTable ==
  [open |-> NoStats, closed |-> NoStats, all |-> NoStats, initial |-> FALSE, ending |-> FALSE]

Sums == DOMAIN NoStats \ {"maxGain", "maxLoss"}

\* MUTANT: the losses are not added.
PlusWithoutLoss(s, t) ==
  [f \in DOMAIN s |-> CASE f = "maxGain" -> Max({s[f], t[f]})
                        [] f = "maxLoss" -> Min({s[f], t[f]})
                        [] f = "totalLoss" -> 0
                        [] OTHER -> s[f] + t[f]]
Plus(s, t) ==
  [f \in DOMAIN s |-> CASE f = "maxGain" -> Max({s[f], t[f]})
                        [] f = "maxLoss" -> Min({s[f], t[f]})
                        [] OTHER -> s[f] + t[f]]

\* What the tables show of a sum.
Average(sum, count) == IF count > 0 THEN sum \div count ELSE 0

IsClosed(p) == p.exit # 0
Toward(p, amount) == IF p.long THEN amount ELSE -amount
EntryCost(p) == p.entry + Toward(p, p.commission)
CloseIncome(p) == p.exit - Toward(p, p.commission)
Gain(p, income) == Toward(p, income - EntryCost(p))

\* The gain of an open position is up to the last close of its symbol.  Without
\* data it has none; for data without bars a bar is asked for that is not there.
LastClose(s) == Bars(s)[Len(Bars(s))].close
GainSoFar(p) == IF HasData(p.symbol) THEN Gain(p, LastClose(p.symbol)) ELSE 0

\* calc, and what the handlers of slippage and commission add
OfPosition(p, gain) ==
  [NoStats EXCEPT !.count = 1, !.gain = gain,
     !.winning = IF gain > 0 THEN 1 ELSE 0, !.losing = IF gain < 0 THEN 1 ELSE 0,
     !.neutral = IF gain = 0 THEN 1 ELSE 0,
     !.totalGain = Max({gain, 0}), !.totalLoss = Min({gain, 0}),
     !.maxGain = Max({gain, 0}), !.maxLoss = Min({gain, 0}),
     !.openCost = EntryCost(p), !.closeCost = IF IsClosed(p) THEN CloseIncome(p) ELSE 0,
     !.openSlippage = p.slippage, !.closeSlippage = IF IsClosed(p) THEN p.slippage ELSE 0,
     !.openCommission = p.commission,
     !.closeCommission = IF IsClosed(p) THEN p.commission ELSE 0]

OnPosition(t, p) ==
  LET u == IF IsClosed(p)
           THEN [t EXCEPT !.closed = Plus(@, OfPosition(p, Gain(p, CloseIncome(p))))]
           ELSE [t EXCEPT !.open = Plus(@, OfPosition(p, GainSoFar(p)))]
  IN [u EXCEPT !.all = Plus(u.open, u.closed)]

\* setDateRange, setInitialCapital, calculate, setEndingCapital
Calculated(positions) ==
  [FoldLeft(OnPosition, EmptyTable, SelectSeq(positions, LAMBDA p : p.enabled)) EXCEPT
     !.initial = TRUE, !.ending = TRUE]

-----------------------------------------------------------------------------
(* Buy and hold *)

\* CHECK_TRADE_RANGE: an end that is not a date, which is what the manager of these
\* positions is made with, lets no bar through.
NotADateTime == 0
AfterEnd(end) == end = NotADateTime

\* The capital is divided among all symbols.
SharesToHold(s) == Capital \div (SymbolCount * Bars(s)[1].open)

\* Bought at the first open, sold at the last close, whatever fails is left.
HoldSymbol(s) ==
  IF Bars(s) = <<>> \/ AfterEnd(NotADateTime) THEN <<>>
  ELSE <<[symbol |-> s, long |-> TRUE, entry |-> SharesToHold(s) * Bars(s)[1].open,
          exit |-> SharesToHold(s) * LastClose(s), enabled |-> TRUE, commission |-> 0,
          slippage |-> 0]>>

MakeBHPositions == FlattenSeq([s \in 1 .. SymbolCount |-> HoldSymbol(s)])

-----------------------------------------------------------------------------
(* The session *)

StatisticsInit ==
  /\ wanted \in SUBSET Outputs
  /\ edr \in {[from |-> f, to |-> t] : f \in {NegInf, 3}, t \in {3, PosInf}}
  /\ data \in [1 .. SymbolCount -> DataOfSymbol]
  /\ dealt \in Deals
  /\ progress = NoProgress
  /\ moment = "start" /\ equity = FALSE /\ held = <<>> /\ outcome = "no"
  /\ tables = [t \in {"all", "long", "short", "held"} |-> EmptyTable]

SessionStarted ==
  /\ moment = "start"
  /\ progress' = IF "stats" \in wanted THEN AddPct(progress, EqPct + StatsPct)
                 ELSE IF Calculations # {} THEN AddPct(progress, EqPct) ELSE progress
  /\ moment' = "running"
  /\ UNCHANGED <<wanted, edr, data, dealt, equity, held, tables, outcome>>

\* The main thread has started the session and counts the symbols, while workers run
\* on them.
SetTotalSymbols ==
  /\ moment # "start" /\ progress.total = 0
  /\ progress' = [progress EXCEPT !.total = SymbolCount]
  /\ UNCHANGED <<wanted, edr, data, dealt, moment, equity, held, tables, outcome>>

RunEnded ==
  /\ moment = "running" /\ progress.runs < SymbolCount
  /\ progress' = IncTotalRuns(progress)
  /\ UNCHANGED <<wanted, edr, data, dealt, moment, equity, held, tables, outcome>>

\* EquityDateRange
BarDays == {b.day : b \in UNION {ToSet(Bars(s)) : s \in 1 .. SymbolCount}}
EquityDates ==
  [from |-> IF edr.from = NegInf
            THEN (IF BarDays = {} THEN DefaultFrom ELSE Min(BarDays))
            ELSE Min(BarDays \cup {edr.from}),
   to |-> IF edr.to = PosInf
          THEN (IF BarDays = {} THEN Today ELSE Max(BarDays))
          ELSE Max(BarDays \cup {edr.to})]

DateRange ==
  /\ moment = "running" /\ progress.runs = SymbolCount
  /\ edr' = EquityDates
  /\ progress' = Step(progress, DateRangeStep)
  /\ moment' = "curves"
  /\ UNCHANGED <<wanted, data, dealt, equity, held, tables, outcome>>

\* The sizing of the positions may disable any of them.
CalcEqCurve ==
  /\ moment = "curves"
  /\ IF Calculations = {} THEN UNCHANGED <<dealt, progress, equity, held>>
     ELSE /\ \E disabled \in SUBSET DOMAIN dealt :
               dealt' = [n \in DOMAIN dealt |-> [dealt[n] EXCEPT !.enabled = n \notin disabled]]
          /\ held' = MakeBHPositions
          /\ equity' = TRUE
          /\ progress' = Step(progress, 2 * EqStep + 4 * DDStep)
  /\ moment' = "charts"
  /\ UNCHANGED <<wanted, edr, data, tables, outcome>>

\* The base name of the files with the curve is a path, which is never empty.
EqCurveToFiles ==
  /\ moment = "charts"
  /\ IF equity THEN moment' = "stats" /\ UNCHANGED outcome
     ELSE moment' = "ended" /\ outcome' = "assert"
  /\ UNCHANGED <<wanted, edr, data, dealt, progress, equity, held, tables>>

NoBarsFor(positions) ==
  \E p \in ToSet(positions) : p.enabled /\ ~IsClosed(p) /\ data[p.symbol] = <<>>

CalcStats ==
  /\ moment = "stats"
  /\ IF "stats" \notin wanted THEN moment' = "files" /\ UNCHANGED <<progress, tables, outcome>>
     ELSE IF NoBarsFor(dealt)
     THEN moment' = "ended" /\ outcome' = "thrown" /\ UNCHANGED <<progress, tables>>
     ELSE /\ tables' = [all |-> Calculated(dealt),
                        long |-> Calculated(SelectSeq(dealt, LAMBDA p : p.long)),
                        short |-> Calculated(SelectSeq(dealt, LAMBDA p : ~p.long)),
                        held |-> Calculated(held)]
          /\ progress' = Step(progress, 4 * StatsStep)
          /\ moment' = "files" /\ UNCHANGED outcome
  /\ UNCHANGED <<wanted, edr, data, dealt, equity, held>>

\* The gain is shown as a percentage of the capital, which is there to be divided by
\* only after the calculation.
Formatted == IF \A t \in DOMAIN tables : tables[t].initial THEN "printed" ELSE "assert"

\* toHTML, toCSV: a path without a name is no file that can be opened.
ToFormat ==
  /\ moment = "files"
  /\ moment' = "ended"
  /\ outcome' = IF wanted \cap {"stats", "csv"} = {} THEN "silent" ELSE Formatted
  /\ UNCHANGED <<wanted, edr, data, dealt, progress, equity, held, tables>>

StatisticsNext ==
  \/ SessionStarted \/ SetTotalSymbols \/ RunEnded \/ DateRange \/ CalcEqCurve
  \/ EqCurveToFiles \/ CalcStats \/ ToFormat

-----------------------------------------------------------------------------
\* What is printed adds up: a table counts exactly the positions that the sizing has
\* left, longs and shorts make up the whole, so do open and closed positions, wins and
\* losses make up the gain, and no average is outside of its extremes.  The range of
\* dates has all bars.  If the symbols were counted in time, all parts of the progress
\* make 100 percent.
Left(Pred(_)) == {n \in DOMAIN dealt : dealt[n].enabled /\ Pred(dealt[n])}
StatisticsAddUp ==
  /\ outcome = "printed" =>
       /\ \A f \in Sums : /\ tables.all.all[f] = tables.long.all[f] + tables.short.all[f]
                          /\ \A t \in DOMAIN tables :
                               tables[t].all[f] = tables[t].open[f] + tables[t].closed[f]
       /\ tables.all.closed.count = Cardinality(Left(IsClosed))
       /\ tables.long.all.count = Cardinality(Left(LAMBDA p : p.long))
       /\ \A t \in DOMAIN tables : LET s == tables[t].all IN
            /\ s.count = s.winning + s.losing + s.neutral
            /\ s.gain = s.totalGain + s.totalLoss
            /\ s.maxLoss <= Average(s.totalLoss, s.losing)
            /\ Average(s.totalGain, s.winning) <= s.maxGain
            /\ Average(s.gain, s.count) \in s.maxLoss .. s.maxGain
  /\ outcome \in {"silent", "printed"} /\ ~progress.endless => progress.done = 10000
  /\ moment \notin {"start", "running"} =>
       /\ BarDays \subseteq edr.from .. edr.to
       /\ {edr.from, edr.to} \cap {NegInf, PosInf} = {}

\* "only do transformations if the eq curve is enabled" (fileplugins.h:384) and
\* "assert(_ec.get() != 0)" (StatsHandler.h:298): the curve of a chart is there.
CurveOfChartIsThere == moment = "charts" => equity

\* "they will contain positions that will correspond to buy and hold for the whole
\* back-testing period" (StatsHandler.h:216): for each symbol that has bars.
HeldForComparison ==
  equity => \A s \in 1 .. SymbolCount : Bars(s) # <<>> => \E p \in ToSet(held) : p.symbol = s
=============================================================================
