---------------------------- MODULE MCSymbolRun ----------------------------
(***************************************************************************)
(* The parts that the run of a system on one symbol is made of and that    *)
(* nothing interleaves with, for TLC: the file of its bars, explicit       *)
(* trades, series on a common time axis and the handles of them,           *)
(* indicators, the orders of a system.  A behaviour is one of one part;    *)
(* the other parts stay as they are.                                       *)
(***************************************************************************)
EXTENDS BarFile, ExplicitTrades, SeriesHandles, Indicators, SystemOrders

CONSTANTS Sizes,      \* sizes of a series
          Values,     \* values of its elements
          MaxValues   \* bound: elements of a series that is calculated with

VARIABLES part,      \* the part that runs
          builder,   \* an indicator
          size,      \* the size of its series
          values,    \* the elements of a series
          period     \* a period to calculate with

indicatorVars == <<builder, size, values, period>>
vars == <<part, fileVars, explicitVars, syncVars, handleVars, indicatorVars,
          orderVars>>

Asked == OfSeries("s") \cup OfSeries("t") \cup OfBars("b", "s")

NoOrders ==
  /\ setup = [given |-> FALSE, filter |-> "none", handled |-> FALSE]
  /\ stage = "trading" /\ calls = 0 /\ sweep = NoSweep /\ processed = 0
  /\ book = EmptyBook /\ written = [raw |-> 0, final |-> 0]

Idle(p) ==
  /\ p # "file" => file = <<[kind |-> "other", len |-> 2]>> /\ ended = TRUE
                     /\ range = NoRange /\ pc = "open" /\ begin = 0 /\ end = 0
                     /\ crt = 1 /\ bars = <<>> /\ startPos = 0 /\ endPos = 0
  /\ p # "explicit" => start = 1 /\ phase = "file" /\ lines = 0 /\ format = "csv"
                         /\ trades = <<>> /\ bar = 0 /\ todo = {} /\ pos = <<>>
  /\ p \notin {"synchronizer", "handles"} =>
       /\ times = [s \in Symbols |-> <<1>>] /\ made = {}
       /\ sync = [s \in Symbols |-> None]
       /\ count = [s \in Symbols |-> 0]
  /\ p # "handles" => store = <<>> /\ handle = <<>> /\ meant = <<>>
                        /\ disturbed = Handles /\ handleCalls = 0
  /\ p # "orders" => NoOrders

NoSeries == values = <<>> /\ period = 1
NoBuilder == builder = TR("b") /\ size = 0

Init ==
  \/ part = "file" /\ FileInit /\ Idle(part) /\ NoBuilder /\ NoSeries
  \/ part = "explicit" /\ ExplicitInit /\ Idle(part) /\ NoBuilder /\ NoSeries
  \/ part = "synchronizer" /\ SyncInit /\ Idle(part) /\ NoBuilder /\ NoSeries
  \/ part = "handles" /\ HandlesInit /\ Idle(part) /\ NoBuilder /\ NoSeries
  \/ part = "orders" /\ OrdersInit /\ Idle(part) /\ NoBuilder /\ NoSeries
  \/ part = "builders" /\ Idle(part) /\ NoSeries /\ builder \in Asked /\ size = 0
  \/ part = "averages" /\ Idle(part) /\ NoBuilder /\ values = <<>> /\ period \in 1 .. 3

\* The series of the next size.
Larger1 == {n \in Sizes : n > size}
NextSize ==
  /\ part = "builders" /\ Larger1 # {}
  /\ size' = Min(Larger1)
  /\ UNCHANGED <<builder, values, period>>

NextValue ==
  /\ part = "averages" /\ Len(values) < MaxValues
  /\ \E x \in Values : values' = Append(values, x)
  /\ UNCHANGED <<builder, size, period>>

FileStep ==
  /\ part = "file" /\ FileNext
  /\ UNCHANGED <<part, explicitVars, syncVars, handleVars, indicatorVars,
                 orderVars>>

Next ==
  /\ UNCHANGED part
  /\ \/ FileStep
     \/ part = "explicit" /\ ExplicitNext
          /\ UNCHANGED <<fileVars, syncVars, handleVars, indicatorVars, orderVars>>
     \/ part = "synchronizer" /\ SyncNext
          /\ UNCHANGED <<fileVars, explicitVars, indicatorVars, handleVars, orderVars>>
     \/ part = "handles" /\ HandlesNext
          /\ UNCHANGED <<fileVars, explicitVars, indicatorVars, orderVars>>
     \/ part = "orders" /\ OrdersNext
          /\ UNCHANGED <<fileVars, explicitVars, syncVars, handleVars,
                         indicatorVars>>
     \/ (NextSize \/ NextValue)
          /\ UNCHANGED <<fileVars, explicitVars, syncVars, handleVars, orderVars>>

\* The thread that loads the bars goes on.
Spec == Init /\ [][Next]_vars /\ WF_vars(FileStep)

\* The elements are counted from zero.
V == [n \in 0 .. Len(values) - 1 |-> values[n + 1]]

\* Every indicator that a system may ask for puts its values where they belong,
\* at every size, and has an id of its own, but for the ones named in Indicators.
IndicatorsInPlace == part = "builders" =>
  BuilderIsCausal(builder, size) /\ IdIsUnique(builder, Asked)

\* What is calculated here is what its definition says, on all short series.
CalculatedRight == part = "averages" =>
  /\ AveragesAreMeans(V, period) /\ AroonLooksBack(V, period)
  /\ TrueRangeIsRange(V, period)
  /\ ShiftsUndo(V, period) /\ ArithmeticUndoes(V, period)

\* Every element of a series is the value of its bar: on the common time axis, and
\* after what it is calculated from.
SeriesAreRight ==
  SeriesAreOfTheirTime /\ HandlesReadAsMeant /\ IndicatorsInPlace /\ CalculatedRight
=============================================================================
