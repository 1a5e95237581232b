--------------------------- MODULE SampleSystems ---------------------------
(***************************************************************************)
(* The example systems of the repository (systemsplugin1) and its test     *)
(* systems (systemsplugin2), run on the bars of one symbol.                *)
(*                                                                         *)
(* A system is here the order of what it does on a bar: which bars it      *)
(* reads, which position it turns to, what it then may do, and what state  *)
(* of its own that leaves.  Prices are left out: a condition may hold or   *)
(* not, an order may be filled or not.  A series is taken to have the      *)
(* values of the bars up to its index, from its lookback on, which is what *)
(* Indicators is about.                                                    *)
(***************************************************************************)
EXTENDS Integers, Sequences, FiniteSets, SequencesExt

CONSTANTS Extra,      \* bound: sizes go up to so many bars more than a system skips
          SeriesSizes \* the sizes for the systems that only make a series

I == INSTANCE Indicators

VARIABLES system,   \* the one that runs
          size,     \* bars of its symbol
          handled,  \* whether signal handlers are registered
          sink,     \* whether the class of the system has an output sink already
          stage,    \* "init", "run", "done"
          bar,      \* the bar it is at
          run       \* positions, state of its own, what it read, orders, what it threw

systemVars == <<system, size, handled, sink, stage, bar, run>>

Many == 100   \* more positions than there can be
AnyCount == 0 .. Many
NoneOpen == {0}
SomeOpen == 1 .. Many
States == {"neutral", "overbought", "oversold", "above", "below", "bullish", "bearish"}

-----------------------------------------------------------------------------
(* What systems are made of *)

\* Something that a system does when it is in some state and has so many open
\* positions: orders, one after the other, and the next state.
Option(verbs) == [verbs |-> verbs, from |-> States, to |-> "same", counts |-> AnyCount]
Skip == Option(<<>>)
Turn(from, verbs, to) == [Option(verbs) EXCEPT !.from = {from}, !.to = to]
With(counts, option) == [option EXCEPT !.counts = counts]

\* A part of what is done on a bar.  What is read is given as pairs of a lookback,
\* how many bars the values need, and a distance to the bar.
Part(over, reads, options) ==
  [over |-> over, reads |-> reads, options |-> options, crossing |-> FALSE, since |-> 0]
Now == {<<0, 0>>}
Cross(lookback) == {<<lookback, -1>>, <<lookback, 0>>}

Do(verbs, reads) == Part("bar", reads, {Option(verbs)})
ForEachOpen(verbs, reads) == Part("open", reads, {Option(verbs)})
\* crossOver and crossUnder
WhenCrossing(part) == [part EXCEPT !.crossing = TRUE, !.options = @ \cup {Skip}]
ApplyAutoStops == Part("open", {}, {Option(<<"stop">>), Skip})

\* loop: forEachBar, a loop of its own, or none.  needs: the bars that its
\* initialization addresses.  prints: how init prints, if it replaces the method of
\* BarSystem that sets the output sink of the class.
System(name, loop, first, body) ==
  [name |-> name, loop |-> loop, first |-> first, body |-> body, needs |-> 0,
   filter |-> {}, prints |-> "no", begins |-> "neutral", makes |-> {}, always |-> "no"]

-----------------------------------------------------------------------------
(* systemsplugin2 *)

\* The order filter is asked with the bar of the order, the one after.
OwnFilter == {<<0, -1>>, <<0, -2>>, <<0, -3>>, <<9, -1>>}

SystemTest0 ==
  [System("SystemTest0", "each", 10,
          <<ApplyAutoStops, Do(<<"buy">>, {<<3, 0>>})>>)
   EXCEPT !.needs = 4, !.filter = OwnFilter]

SystemTest1 == System("SystemTest1", "each", 0,
                      <<ForEachOpen(<<"sell">>, {}), Do(<<"buy">>, Now)>>)
Covering(name) == System(name, "each", 0,
                         <<ForEachOpen(<<"cover">>, {}), Do(<<"short">>, Now)>>)
SystemTest2 == Covering("SystemTest2")
SystemTest3 == Covering("SystemTest3")

Stopping(name, verbs, reads) ==
  System(name, "each", 0, <<ApplyAutoStops, Do(verbs, reads)>>)
SystemTest4 == Stopping("SystemTest4", <<"short">>, {})
SystemTests5To7 == {Stopping(n, <<"short">>, Now) :
                      n \in {"SystemTest5", "SystemTest6", "SystemTest7"}}
SystemTests8To9 == {Stopping("SystemTest8", <<"buy">>, Now),
                    Stopping("SystemTest9", <<"short">>, Now)}
\* SystemTest11 is registered as filter, but what it defines is not a method of a
\* filter.
SystemTests10To12 == {Stopping(n, <<"short">>, Now) :
                        n \in {"SystemTest10", "SystemTest11", "SystemTest12"}}

SystemTest13 == System("SystemTest13", "each", 0,
  <<ForEachOpen(<<"sell">>, {}),
    [WhenCrossing(Do(<<"buy">>, Cross(0))) EXCEPT !.since = 1]>>)

SystemTest25 == System("SystemTest25", "each", 0,
                       <<ForEachOpen(<<"cover">>, Now), Do(<<"short">>, {})>>)

\* Systems that only make a series.
SeriesSystemTest(name, b) == [System(name, "none", 0, <<>>) EXCEPT !.makes = {b}]

SystemTests14To17 ==
  {SeriesSystemTest("SystemTest14", I!SeriesOperation("v", "+", 10000)),
   SeriesSystemTest("SystemTest15", I!SeriesOperation("v", "-", 10000)),
   SeriesSystemTest("SystemTest16", I!SeriesOperation("v", "*", 1)),
   SeriesSystemTest("SystemTest17", I!SeriesOperation("v", "/", 1000))}

\* EMA, SMA and WMA are written out in the repository: any size will do.
SystemTests18To20 ==
  {SeriesSystemTest("SystemTest18", I!Usual("v", "EMA", <<10>>, 0)),
   SeriesSystemTest("SystemTest19", I!Usual("v", "SMA", <<10>>, 0)),
   SeriesSystemTest("SystemTest20", I!Usual("v", "WMA", <<10>>, 0))}
SystemTests21To24 ==
  {SeriesSystemTest("SystemTest21", I!ChaikinAD("b")),
   SeriesSystemTest("SystemTest22", I!TR("b")),
   SeriesSystemTest("SystemTest23", I!Usual("v", "Aroon Down", <<10>>, 0)),
   SeriesSystemTest("SystemTest24", I!Usual("v", "Aroon Up", <<10>>, 0))}
SystemTests26To31 ==
  {SeriesSystemTest("SystemTest26", I!SeriesTAFunc1("v", "RSI", 10)),
   SeriesSystemTest("SystemTest27", I!SeriesTAFunc1("v", "ROC", 10)),
   SeriesSystemTest("SystemTest28", I!MACDFix("v", 10)),
   SeriesSystemTest("SystemTest29", I!BBandUpper("v", 10, 1)),
   SeriesSystemTest("SystemTest30", I!BBandLower("v", 10, 1)),
   SeriesSystemTest("SystemTest31", I!BarsHighLowClose("b", "ADX", 10))}

\* Divides by another series, of 100 zeros.
SystemTest32 == [System("SystemTest32", "none", 0, <<>>) EXCEPT !.always = "unequal"]
SystemTest33 == [System("SystemTest33", "none", 0, <<>>) EXCEPT !.always = "range"]
SystemTest34 == System("SystemTest34", "each", 0,
                       <<ForEachOpen(<<"sell">>, {}), Do(<<"short">>, Now)>>)
SystemTest35 == System("SystemTest35", "each", 0,
                       <<ForEachOpen(<<"cover">>, {}), Do(<<"buy">>, Now)>>)
SystemTest36 == System("SystemTest36", "each", 0,
                       <<ForEachOpen(<<"sell", "sell">>, {}), Do(<<"buy">>, Now)>>)
SystemTest37 == [System("SystemTest37", "none", 0, <<>>) EXCEPT !.always = "zero"]

SystemTests38To42 ==
  {SeriesSystemTest("SystemTest38", I!SeriesTAFunc1("v", "DEMA", 10)),
   SeriesSystemTest("SystemTest39", I!HTTrendline("v")),
   SeriesSystemTest("SystemTest40", I!SeriesTAFunc1("h", "KAMA", 10)),
   SeriesSystemTest("SystemTest41", I!MAMA("h", 50, 5)),
   SeriesSystemTest("SystemTest42", I!FAMA("h", 50, 5))}
SystemTests43To48 ==
  {SeriesSystemTest("SystemTest43", I!BarsHighLow("b", "MIDPRICE", 10)),
   SeriesSystemTest("SystemTest44", I!SeriesTAFunc1("h", "MIN", 10)),
   SeriesSystemTest("SystemTest45", I!SeriesTAFunc1("h", "MAX", 10)),
   SeriesSystemTest("SystemTest46", I!SeriesTAFunc1("h", "MIDPOINT", 10)),
   SeriesSystemTest("SystemTest47", I!SAR("b", 1, 1)),
   SeriesSystemTest("SystemTest48", I!MFI("b", 10))}

SystemTest49 == System("SystemTest49", "each", 10,
  <<Part("bar", {<<4, -1>>, <<9, -1>>}, {Option(<<"buy">>), Skip})>>)

TestSystems ==
  {SystemTest0, SystemTest1, SystemTest2, SystemTest3, SystemTest4, SystemTest13,
   SystemTest25, SystemTest32, SystemTest33, SystemTest34, SystemTest35, SystemTest36,
   SystemTest37, SystemTest49}
  \cup SystemTests5To7 \cup SystemTests8To9 \cup SystemTests10To12
  \cup SystemTests14To17 \cup SystemTests18To20 \cup SystemTests21To24
  \cup SystemTests26To31 \cup SystemTests38To42 \cup SystemTests43To48

-----------------------------------------------------------------------------
(* systemsplugin1 *)

\* It prints in its init, to the sink that only the init it replaces would set.
System1 ==
  [System("System1", "each", 10,
          <<ApplyAutoStops, Do(<<"buy">>, {<<3, 0>>})>>)
   EXCEPT !.needs = 4, !.filter = OwnFilter, !.prints = "own"]
\* It shares the sink with SimpleTradingSystem, whose base class is the same one.
System2 ==
  [System("System2", "each", 0, <<ForEachOpen(<<"sell">>, {}), Do(<<"buy">>, Now)>>)
   EXCEPT !.prints = "shared"]
System3 == System("System3", "each", 0,
  <<ApplyAutoStops, Do(<<"short">>, {}), WhenCrossing(Do(<<>>, Cross(11)))>>)
System4 == System("System4", "each", 0, <<Do(<<"crash">>, {})>>)
System7 == System("System7", "each", 10,
  <<ApplyAutoStops,
    WhenCrossing(ForEachOpen(<<"sell">>, Cross(9))),
    [WhenCrossing(Do(<<>>, Cross(9))) EXCEPT !.options = {With(0 .. 2, Option(<<"buy">>)), Skip}]>>)

\* The close and the bands of twenty bars.
\* MUTANT: the bands are of thirty bars.
BandsOfThirty == {<<0, 0>>, <<29, 0>>}
Bands == {<<0, 0>>, <<19, 0>>}

\* The status is adjusted after the orders.
BandBody ==
  <<Part("open", Bands, {Turn("overbought", <<"sell">>, "neutral"), Skip}),
    Part("bar", Bands, {With(NoneOpen, Turn("oversold", <<"buy">>, "neutral")), Skip}),
    Part("bar", Bands, {[Skip EXCEPT !.to = "oversold"], [Skip EXCEPT !.to = "overbought"],
                        Skip})>>
BollingerBandSystem == System("BollingerBandSystem", "each", 20, BandBody)
BollingerBandClassicSystem == System("BollingerBandClassicSystem", "own", 20, BandBody)

SimpleTradingSystem == System("SimpleTradingSystem", "own", 0,
  <<ForEachOpen(<<"sell">>, {}), Do(<<"buy">>, Now)>>)

AdaptiveBBands == System("AdaptiveBBands", "own", 20,
  <<ApplyAutoStops,
    Part("open", {<<0, 0>>, <<4, 0>>}, {Option(<<"exit">>), Skip}),
    Do(<<"buy">>, {<<8, 0>>}), Do(<<"short">>, {<<8, 0>>})>>)

LongShortKeltnerBands == System("LongShortKeltnerBands", "own", 40,
  <<ApplyAutoStops, Do(<<"buy">>, {<<29, 0>>}), Do(<<"short">>, {<<29, 0>>})>>)

\* The last open position is sold or covered, whichever it is.
MFISystem == System("MFISystem", "own", 10,
  <<ApplyAutoStops,
    Part("lastOpen", Cross(10), {With(SomeOpen, Option(<<"exit">>)), With(NoneOpen, Option(<<"short">>)),
                                 With(NoneOpen, Option(<<"buy">>)), Skip})>>)

CalendarSystem ==
  [System("CalendarSystem", "own", 0,
     <<ApplyAutoStops,
       Part("bar", Now, {Turn("bearish", <<"closeShorts", "buy">>, "bullish"),
                         Turn("bullish", <<"closeLongs", "short">>, "bearish"), Skip})>>)
   EXCEPT !.begins = "bullish"]

\* The two averages cross in turn.  An exit takes the last position for one of the
\* side that the last crossing opened.  The first loop of run goes up to
\* size() - 1, which is no bound for a symbol without bars.
MAMA_ttrcrep ==
  [System("MAMA_ttrcrep", "own", 7,
     <<Part("last", Cross(6),
            {With(NoneOpen, Turn("below", <<"buy">>, "above")),
             With(SomeOpen, Turn("below", <<"cover">>, "above")),
             With(NoneOpen, Turn("above", <<"short">>, "below")),
             With(SomeOpen, Turn("above", <<"sell">>, "below")), Skip})>>)
   EXCEPT !.begins = "above", !.needs = 1]

SystemTemplate == System("SystemTemplate", "each", 10, <<ApplyAutoStops>>)

Systems == TestSystems \cup
  {System1, System2, System3, System4, System7, BollingerBandSystem,
   BollingerBandClassicSystem, SimpleTradingSystem, AdaptiveBBands,
   LongShortKeltnerBands, MFISystem, CalendarSystem, MAMA_ttrcrep, SystemTemplate}

-----------------------------------------------------------------------------
(* Reading and trading *)

Opens(r) == {n \in DOMAIN r.positions : r.positions[n].open}
Thrown(r, reason) == [r EXCEPT !.thrown = reason]
Close(r, n) == [r EXCEPT !.positions[n].open = FALSE]
OpenPosition(r, side) == [r EXCEPT !.positions = Append(@, [side |-> side, open |-> TRUE])]

Misses(reads, at) == \E x \in reads : at + x[2] \notin 0 .. size - 1

\* What has been read, the newest bar of it, and whether a value was read that its
\* series does not have yet.
Read(r, reads, at) ==
  [r EXCEPT !.seen = Max({@} \cup {at + x[2] : x \in reads}),
            !.cold = @ \/ \E x \in reads : at + x[2] < x[1]]

Filtered(r) ==
  IF Misses(system.filter, bar + 1) THEN Thrown(r, "range")
  ELSE Read(r, system.filter, bar + 1)

\* An order for the next bar, which after the last one is a signal.
Order(r, then) ==
  LET q == [r EXCEPT !.placed = @ \cup {[bar |-> bar + 1, seen |-> r.seen]}] IN
  IF bar + 1 < size THEN [then EXCEPT !.placed = q.placed]
  ELSE IF handled THEN q ELSE Thrown(q, "range")

Enter(r, side, fills) ==
  LET f == IF system.filter # {} /\ side = "long" THEN Filtered(r) ELSE r IN
  IF f.thrown # "no" THEN {f}
  ELSE (IF system.filter # {} THEN {f} ELSE {})
       \cup {Order(f, IF fills THEN OpenPosition(f, side) ELSE f)}

\* Only an order that is filled finds out about its position.
Leave(r, n, side, fills) ==
  {Order(r, IF ~fills THEN r
            ELSE IF ~r.positions[n].open THEN Thrown(r, "closed")
            ELSE IF r.positions[n].side # side THEN Thrown(r, "other side")
            ELSE Close(r, n))}

LeaveAll(r, side, fills) ==
  FoldSet(LAMBDA n, found : UNION {Leave(x, n, side, fills) : x \in found}, {r},
          {n \in Opens(r) : r.positions[n].side = side})

Perform(r, verb, n, fills) ==
  CASE r.thrown # "no"       -> {r}
    [] verb = "buy"          -> Enter(r, "long", fills)
    [] verb = "short"        -> Enter(r, "short", fills)
    [] verb = "sell"         -> Leave(r, n, "long", fills)
    [] verb = "cover"        -> Leave(r, n, "short", fills)
    [] verb = "exit"         -> Leave(r, n, r.positions[n].side, fills)
    [] verb = "closeShorts"  -> LeaveAll(r, "short", fills)
    [] verb = "closeLongs"   -> LeaveAll(r, "long", fills)
    [] verb = "stop"         -> {Close(r, n)}
    [] verb = "crash"        -> {Thrown(r, "access")}

-----------------------------------------------------------------------------
(* One bar *)

\* The orders of one option fill or not together: they are for the same bar.
Take(r, option, n) ==
  LET after == UNION {FoldLeft(LAMBDA found, verb :
                                 UNION {Perform(x, verb, n, fills) : x \in found},
                               {r}, option.verbs) : fills \in BOOLEAN}
  IN {[x EXCEPT !.state = IF option.to = "same" THEN @ ELSE option.to] : x \in after}

Turned(r, part, n) ==
  IF r.thrown # "no" \/ bar < part.since THEN {r}
  ELSE IF part.crossing /\ bar = 0 THEN {Thrown(r, "crossing")}
  ELSE IF Misses(part.reads, bar) THEN {Thrown(r, "range")}
  ELSE LET q == Read(r, part.reads, bar)
       IN UNION {Take(q, o, n) : o \in {o \in part.options :
                   q.state \in o.from /\ Cardinality(Opens(q)) \in o.counts}}

Targets(r, part) ==
  CASE part.over = "bar"      -> {0}
    [] part.over = "open"     -> Opens(r)
    [] part.over = "last"     -> {Len(r.positions)}
    [] part.over = "lastOpen" -> {Max(Opens(r) \cup {0})}

DoPart(r, part) ==
  FoldLeft(LAMBDA found, n : UNION {Turned(x, part, n) : x \in found}, {r},
           SetToSortSeq(Targets(r, part), <))

OnBar(r) ==
  FoldLeft(LAMBDA found, part : UNION {DoPart(x, part) : x \in found}, {r}, system.body)

-----------------------------------------------------------------------------
(* A run on a symbol *)

SizesOf(s) ==
  IF s.loop = "none" THEN SeriesSizes
  ELSE Nat \cap ({0, s.needs - 1, s.needs} \cup (s.first - 1) .. (s.first + Extra))

FirstRun(s) ==
  [positions |-> <<>>, state |-> s.begins, seen |-> -1, cold |-> FALSE, placed |-> {},
   thrown |-> "no"]

SystemsInit ==
  /\ system \in Systems
  /\ size \in SizesOf(system)
  /\ handled \in BOOLEAN
  /\ sink \in (IF system.prints = "shared" THEN BOOLEAN ELSE {FALSE})
  /\ stage = "init" /\ bar = 0
  /\ run = FirstRun(system)

\* What a system throws whatever the bars are, but SystemTest32 divides by a series
\* of 100 elements.
Always == IF system.always = "unequal" /\ size = 100 THEN "no" ELSE system.always

\* What is thrown before the first bar.
Refused ==
  CASE system.prints # "no" /\ ~sink -> "access"
    [] system.needs > size           -> "range"
    [] Always # "no"                 -> Always
    [] \E b \in system.makes : I!Throws(b, size) -> "range"
    [] system.loop = "each" /\ size <= system.first -> "range"
    [] OTHER -> "no"

\* init, and run up to its loop
Begin ==
  /\ stage = "init"
  /\ run' = [run EXCEPT !.thrown = Refused]
  /\ stage' = IF Refused = "no" /\ system.loop # "none" /\ system.first < size
              THEN "run" ELSE "done"
  /\ bar' = system.first
  /\ UNCHANGED <<system, size, handled, sink>>

NextBar ==
  /\ stage = "run"
  /\ run' \in OnBar(run)
  /\ bar' = bar + 1
  /\ stage' = IF run'.thrown = "no" /\ bar + 1 < size THEN "run" ELSE "done"
  /\ UNCHANGED <<system, size, handled, sink>>

SystemsNext == Begin \/ NextBar
SystemsSpec == SystemsInit /\ [][SystemsNext]_systemVars

-----------------------------------------------------------------------------
\* No order of an example is for a bar that something was read of before, and but
\* for the one of the money flow index, whose first bar is one too early, none of
\* them reads a value that its series does not have yet.
LooksBackOnly ==
  /\ \A o \in run.placed : o.seen < o.bar
  /\ run.cold => system.name = "MFISystem"

\* What a run may end with: an order after the last bar that no handler takes, a
\* symbol with too few bars, the error in the name of a test, or one of the errors
\* of System1 to System3 and of MAMA_ttrcrep, which an exit that is not filled
\* leaves with a position of the other side.
Reasons ==
  (IF ~handled \/ size <= system.first \/ size < system.needs THEN {"range"} ELSE {}) \cup
  (CASE system.name = "SystemTest32" /\ size # 100 -> {"unequal"}
     [] system.name = "SystemTest33" -> {"range"}
     [] system.name \in {"SystemTest34", "SystemTest35", "MAMA_ttrcrep"} -> {"other side"}
     [] system.name = "SystemTest36" -> {"closed"}
     [] system.name = "SystemTest37" -> {"zero"}
     [] system.name = "System3" -> {"crossing"}
     [] system.name \in {"System1", "System2", "System4"} -> {"access"}
     [] OTHER -> {})

FailsAsNamed == run.thrown # "no" => run.thrown \in Reasons

\* No example looks ahead, and it fails with what its name says, while the others do
\* not fail on a symbol with enough bars.
ExamplesDoAsNamed == LooksBackOnly /\ FailsAsNamed
=============================================================================
