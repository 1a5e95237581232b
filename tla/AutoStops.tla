------------------------------ MODULE AutoStops ------------------------------
(***************************************************************************)
(* The automatic stops of PositionsManagerImpl (src/core/Positions.cpp)    *)
(* applied to one position, bar after bar.                                 *)
(*                                                                         *)
(* A trading system walks over the bars of a symbol.  On a bar it may open *)
(* its position, and it calls applyAutoStops once.  That call goes through *)
(* the installed stops in a fixed order; every stop may place an order,    *)
(* until the position is closed.  When signal handlers are registered the  *)
(* last bar is followed by a call for the bar after it, on which an order  *)
(* becomes a signal.                                                       *)
(***************************************************************************)
EXTENDS Orders, Sequences, FiniteSetsExt

CONSTANTS
  Prices,        \* prices of the bars
  Slippages,     \* what the Slippage handler may return
  Size,          \* bs.size(): the bars are 0 .. Size - 1
  StartTrades,   \* first bar at or after _startTrades
  InstalledSets, \* the sets of auto stops that a system installs
  ExitBars,      \* _timeBasedExitAtMarket, _timeBasedExitAtClose
  LossLevel, TargetLevel, BreakEvenLevel, ReverseLevel,   \* in percent
  TrailTrigger, TrailLevel

\* MUTANT: the profit target comes before the stop loss.
OrderTargetFirst ==
  <<"timeBasedAtMarket", "target", "stopLoss", "stopLossLong", "stopLossShort",
    "trailing", "breakEven", "breakEvenLong", "breakEvenShort", "reverse",
    "reverseLong", "reverseShort", "targetLong", "targetShort",
    "timeBasedAtClose">>

\* The order of applyAutoStops(bs, barIndex, pos).
Order ==
  <<"timeBasedAtMarket", "stopLoss", "stopLossLong", "stopLossShort", "trailing",
    "breakEven", "breakEvenLong", "breakEvenShort", "reverse", "reverseLong",
    "reverseShort", "targetLong", "targetShort", "target", "timeBasedAtClose">>

Stops == {Order[k] : k \in 1 .. Len(Order)}

\* The stops that compare the close of the bar with their trigger.
ReadsClose ==
  {"trailing", "breakEven", "breakEvenLong", "breakEvenShort", "reverse",
   "reverseLong", "reverseShort"}

ASSUME AutoStopsAssumption ==
  /\ Prices \subseteq Nat \ {0}
  /\ Slippages \subseteq Nat
  /\ Size \in Nat \ {0}
  /\ StartTrades \in 0 .. Size
  /\ InstalledSets \subseteq SUBSET Stops
  /\ ExitBars \in Nat
  /\ {LossLevel, TargetLevel, BreakEvenLevel, ReverseLevel, TrailTrigger,
      TrailLevel} \subseteq 0 .. 100

VARIABLES
  installed,  \* the auto stops with a value
  handlers,   \* whether _signalHandlers has elements
  bar,        \* barIndex
  prices,     \* the bar at barIndex, while barIndex < Size
  stage,      \* the place in Order that applyAutoStops is at (0: outside)
  applied,    \* whether applyAutoStops was called for this bar
  pos,        \* the position
  signals,    \* stops that sent a signal
  thrown      \* the exception that left applyAutoStops ("" if none)

\* History: the position when the call for this bar began, whether the filter
\* declined an order in this call, and whether the close of a bar between the
\* entry bar and this one was at the break even trigger.
VARIABLES began, declined, profit

setup   == <<installed, handlers>>
history == <<began, declined, profit>>
vars    == <<setup, bar, prices, stage, applied, pos, signals, thrown, history>>

Sides == {"long", "short"}

\* trail: the level of the trailing stop (0: not active); breakEven: the flag
\* _breakEvenActive; by: the stop that closed the position.
NoPosition ==
  [side |-> "long", state |-> "none", entryBar |-> 0, entry |-> 0, exitBar |-> 0,
   exit |-> 0, by |-> "", breakEven |-> FALSE, trail |-> 0]

IsOpen == pos.state = "open"
IsLong == pos.side = "long"

Percent(x, level) == (x * level) \div 100

\* A price that is level percent better (worse) than the entry price.
Better(level) ==
  IF IsLong THEN pos.entry + Percent(pos.entry, level)
            ELSE pos.entry - Percent(pos.entry, level)
Worse(level) ==
  IF IsLong THEN pos.entry - Percent(pos.entry, level)
            ELSE pos.entry + Percent(pos.entry, level)

\* x is at least as good a price as y for the position.
AsGood(x, y) == IF IsLong THEN x >= y ELSE x <= y

Init ==
  /\ installed \in InstalledSets
  /\ handlers \in BOOLEAN
  /\ bar = 0
  /\ prices \in Bars(Prices)
  /\ stage = 0
  /\ applied = FALSE
  /\ pos = NoPosition
  /\ signals = {}
  /\ thrown = ""
  /\ began = NoPosition
  /\ declined = FALSE
  /\ profit = FALSE

-----------------------------------------------------------------------------
(* The trading system *)

EntryFills(side) ==
  UNION {IF side = "long"
         THEN BuyAtMarket(prices, s) \cup BuyAtClose(prices, s)
                \cup BuyAtStop(prices, p, s) \cup BuyAtLimit(prices, p, s)
         ELSE ShortAtMarket(prices, s) \cup ShortAtClose(prices, s)
                \cup ShortAtStop(prices, p, s) \cup ShortAtLimit(prices, p, s)
         : s \in Slippages, p \in Prices}

Opened(side, entryBar, price) ==
  [NoPosition EXCEPT !.side = side, !.state = "open", !.entryBar = entryBar,
                     !.entry = price]

\* runSymbol() books the explicit trades before _startTrades, at the prices they
\* give, before it runs the system: the system meets the position on its first
\* bar, also when the entry bar is a later one.
ExplicitTrade ==
  /\ bar = 0 /\ stage = 0 /\ pos.state = "none"
  /\ \E side \in Sides, entryBar \in 0 .. StartTrades - 1, price \in Prices :
       pos' = Opened(side, entryBar, price)
  /\ UNCHANGED <<setup, bar, prices, stage, applied, signals, thrown, history>>

\* An entry order of the system: before _startTrades it opens nothing.
Enter ==
  /\ stage = 0 /\ thrown = "" /\ bar < Size /\ bar >= StartTrades
  /\ pos.state = "none"
  /\ \E side \in Sides : \E price \in EntryFills(side) :
       pos' = Opened(side, bar, price)
  /\ UNCHANGED <<setup, bar, prices, stage, applied, signals, thrown, history>>

\* The next bar.  A loop may run one bar too far.
NextBar ==
  /\ stage = 0 /\ thrown = ""
  /\ IsOpen => applied
  /\ bar + 1 < Size \/ (bar + 1 = Size /\ ~handlers)
  /\ bar' = bar + 1
  /\ prices' \in (IF bar + 1 < Size THEN Bars(Prices) ELSE {prices})
  /\ applied' = FALSE
  /\ profit' = (profit \/ (/\ IsOpen /\ bar > pos.entryBar
                           /\ AsGood(prices.close, Better(BreakEvenLevel))))
  /\ UNCHANGED <<setup, stage, pos, signals, thrown, began, declined>>

-----------------------------------------------------------------------------
(* applyAutoStops: the pass over the installed stops *)

\* The installed stop after place k of Order, 0 if there is none.
NextStage(k) ==
  LET rest == {j \in k + 1 .. Len(Order) : Order[j] \in installed} IN
  IF rest = {} THEN 0 ELSE Min(rest)

\* forEachOpenPosition(CX) for the bar.
ApplyAutoStops ==
  /\ stage = 0 /\ thrown = ""
  /\ IsOpen /\ ~applied
  /\ stage' = NextStage(0)
  /\ applied' = TRUE
  /\ began' = pos
  /\ declined' = FALSE
  /\ UNCHANGED <<setup, bar, prices, pos, signals, thrown, profit>>

\* applyAutoStops(bs, barIndex + 1) after the last bar.
ApplyPastEnd ==
  /\ stage = 0 /\ thrown = ""
  /\ handlers /\ bar = Size - 1
  /\ IsOpen /\ applied
  /\ bar' = Size
  /\ stage' = NextStage(0)
  /\ began' = pos
  /\ declined' = FALSE
  /\ profit' = (profit \/ (/\ bar > pos.entryBar
                           /\ AsGood(prices.close, Better(BreakEvenLevel))))
  /\ UNCHANGED <<setup, prices, applied, pos, signals, thrown>>

Applying(stop) == stage > 0 /\ Order[stage] = stop

\* The stop is done with the position in state p: if it is closed, the call
\* returns.
Leave(p) ==
  /\ pos' = p
  /\ stage' = IF p.state = "closed" THEN 0 ELSE NextStage(stage)
  /\ UNCHANGED <<setup, bar, prices, applied, thrown, began, profit>>

\* The filter lets every order through, or none is placed.
Done(p) == Leave(p) /\ UNCHANGED declined

Throw(exception) ==
  /\ thrown' = exception
  /\ stage' = 0
  /\ UNCHANGED <<setup, bar, prices, applied, pos, signals, history>>

\* A price of the bar is read.  Past the end that throws; the exception ends the
\* call silently if there are handlers.
ReadPastEnd ==
  /\ bar = Size
  /\ \/ /\ handlers
        /\ stage' = 0
        /\ UNCHANGED <<setup, bar, prices, applied, pos, signals, thrown, history>>
     \/ /\ ~handlers
        /\ Throw("BarIndexOutOfRange")

-----------------------------------------------------------------------------
(* Exit orders of the position *)

ExitAtMarket ==
  [s \in Slippages |->
     IF IsLong THEN SellAtMarket(prices, s) ELSE CoverAtMarket(prices, s)]
ExitAtClose ==
  [s \in Slippages |->
     IF IsLong THEN SellAtClose(prices, s) ELSE CoverAtClose(prices, s)]
ExitAtStop(p) ==
  [s \in Slippages |->
     IF IsLong THEN SellAtStop(prices, p, s) ELSE CoverAtStop(prices, p, s)]
ExitAtLimit(p) ==
  [s \in Slippages |->
     IF IsLong THEN SellAtLimit(prices, p, s) ELSE CoverAtLimit(prices, p, s)]

Closed(price) ==
  [pos EXCEPT !.state = "closed", !.exitBar = bar, !.exit = price,
              !.by = Order[stage]]

\* The order is filled, on a bar after _startTrades.
Filled(fills) ==
  /\ bar < Size /\ bar >= StartTrades
  /\ \E s \in Slippages : \E price \in fills[s] : Done(Closed(price))
  /\ UNCHANGED signals

\* An OrderFilter declines the order.
Declined(p) ==
  /\ Leave(p)
  /\ declined' = TRUE
  /\ UNCHANGED signals

\* The order is not filled, and the position becomes p: the filter declines it,
\* trading has not started, or the prices do not reach it.
NotFilled(fills, p) ==
  \/ Declined(p)
  \/ /\ bar < Size
     /\ bar < StartTrades \/ \E s \in Slippages : fills[s] = {}
     /\ Done(p)
     /\ UNCHANGED signals

\* MUTANT: the call ends with the first signal.
PastEndStops(p) ==
  /\ bar = Size
  /\ \/ /\ handlers
        /\ signals' = signals \cup {Order[stage]}
        /\ stage' = 0
        /\ UNCHANGED <<setup, bar, prices, applied, pos, thrown, history>>
     \/ /\ ~handlers
        /\ Throw("BarIndexOutOfRange")

\* The order is for the bar past the end: a signal, or an exception.
PastEnd(p) ==
  /\ bar = Size
  /\ \/ /\ handlers
        /\ signals' = signals \cup {Order[stage]}
        /\ Done(p)
     \/ /\ ~handlers
        /\ Throw("BarIndexOutOfRange")

Exit(fills) == Filled(fills) \/ NotFilled(fills, pos) \/ PastEnd(pos)

\* An exit at a stop or limit price, not on the entry bar.
ExitAfterEntry(fills, price) ==
  \/ /\ bar = pos.entryBar
     /\ Done(pos)
     /\ UNCHANGED signals
  \/ /\ bar # pos.entryBar
     /\ IF ValidPrice(price) THEN Exit(fills) ELSE Throw("InvalidPrice")

Skip == Done(pos) /\ UNCHANGED signals

-----------------------------------------------------------------------------
(* The stops *)

TimeBasedAtMarket ==
  /\ Applying("timeBasedAtMarket")
  /\ IF bar - pos.entryBar >= ExitBars THEN Exit(ExitAtMarket) ELSE Skip

TimeBasedAtClose ==
  /\ Applying("timeBasedAtClose")
  /\ IF bar - pos.entryBar >= ExitBars THEN Exit(ExitAtClose) ELSE Skip

StopLoss ==
  /\ Applying("stopLoss")
  /\ ExitAfterEntry(ExitAtStop(Worse(LossLevel)), Worse(LossLevel))

\* For a short position the exception it throws is caught.
StopLossLong ==
  /\ Applying("stopLossLong")
  /\ IF IsLong THEN ExitAfterEntry(ExitAtStop(Worse(LossLevel)), Worse(LossLevel))
               ELSE Skip

\* For a long position it throws SellingShortPositionException, where
\* CoveringLongPositionException is caught.
StopLossShort ==
  /\ Applying("stopLossShort")
  /\ IF ~IsLong THEN ExitAfterEntry(ExitAtStop(Worse(LossLevel)), Worse(LossLevel))
                ELSE Throw("SellingShortPosition")

\* The stop price gives back TrailLevel percent of the profit at the level.
TrailStop ==
  IF IsLong THEN pos.trail - Percent(pos.trail - pos.entry, TrailLevel)
            ELSE pos.trail + Percent(pos.entry - pos.trail, TrailLevel)

\* MUTANT: the level is the close, whether it is better or not.
TrailedToClose == [pos EXCEPT !.trail = prices.close]

\* The level becomes the greater of itself and the close, for short positions
\* too.
Trailed == [pos EXCEPT !.trail = Max2(prices.close, pos.trail)]

Trailing ==
  /\ Applying("trailing")
  /\ \/ bar = pos.entryBar /\ Skip
     \/ /\ bar # pos.entryBar /\ pos.trail # 0
        /\ IF ~ValidPrice(TrailStop) THEN Throw("InvalidPrice")
           ELSE \/ Filled(ExitAtStop(TrailStop))
                \/ bar < Size /\ NotFilled(ExitAtStop(TrailStop), Trailed)
                \* Past the end the close is read after the signal.
                \/ /\ bar = Size /\ handlers
                   /\ \/ /\ signals' = signals \cup {"trailing"}
                         /\ UNCHANGED declined
                      \/ /\ declined' = TRUE
                         /\ UNCHANGED signals
                   /\ stage' = 0
                   /\ UNCHANGED <<setup, bar, prices, applied, pos, thrown,
                                  began, profit>>
                \/ bar = Size /\ ~handlers /\ Throw("BarIndexOutOfRange")
     \/ /\ bar # pos.entryBar /\ pos.trail = 0
        /\ \/ ReadPastEnd
           \/ /\ bar < Size
              /\ IF AsGood(prices.close, Better(TrailTrigger))
                 THEN Done([pos EXCEPT !.trail = prices.close])
                 ELSE Done(pos)
              /\ UNCHANGED signals

\* The close of the bar is compared with the trigger and may activate the break
\* even stop.
Trigger(triggered) ==
  \/ bar = pos.entryBar /\ Skip
  \/ bar # pos.entryBar /\ ReadPastEnd
  \/ /\ bar # pos.entryBar /\ bar < Size
     /\ Done([pos EXCEPT !.breakEven = pos.breakEven \/ triggered])
     /\ UNCHANGED signals

BreakEvenTriggered == AsGood(prices.close, Better(BreakEvenLevel))

\* MUTANT: the position may be closed on the bar whose close triggers.
BreakEvenAtOnce ==
  /\ Applying("breakEven")
  /\ IF pos.breakEven \/ (bar < Size /\ BreakEvenTriggered)
     THEN ExitAfterEntry(ExitAtStop(pos.entry), pos.entry)
     ELSE Trigger(BreakEvenTriggered)

BreakEven ==
  /\ Applying("breakEven")
  /\ IF pos.breakEven THEN ExitAfterEntry(ExitAtStop(pos.entry), pos.entry)
                      ELSE Trigger(BreakEvenTriggered)

\* The long and the short variants look at flags that nothing sets, read the
\* level of applyBreakEvenStop, which is undefined if it is not installed, and
\* set its flag.
BreakEvenOneSide(stop, side) ==
  /\ Applying(stop)
  /\ IF pos.side # side THEN Skip
     ELSE IF "breakEven" \in installed THEN Trigger(BreakEvenTriggered)
     ELSE \E undefined \in BOOLEAN : Trigger(undefined)

BreakEvenLong  == BreakEvenOneSide("breakEvenLong", "long")
BreakEvenShort == BreakEvenOneSide("breakEvenShort", "short")

\* The reverse stop shares the flag of the break even stop.
ReverseTriggered == AsGood(Worse(ReverseLevel), prices.close)

Reverse ==
  /\ Applying("reverse")
  /\ IF pos.breakEven THEN ExitAfterEntry(ExitAtLimit(pos.entry), pos.entry)
                      ELSE Trigger(ReverseTriggered)

ReverseOneSide(stop, side) ==
  /\ Applying(stop)
  /\ IF pos.side # side THEN Skip
     ELSE IF "reverse" \in installed THEN Trigger(ReverseTriggered)
     ELSE \E undefined \in BOOLEAN : Trigger(undefined)

ReverseLong  == ReverseOneSide("reverseLong", "long")
ReverseShort == ReverseOneSide("reverseShort", "short")

Target ==
  /\ Applying("target")
  /\ ExitAfterEntry(ExitAtLimit(Better(TargetLevel)), Better(TargetLevel))

TargetOneSide(stop, side) ==
  /\ Applying(stop)
  /\ IF pos.side = side
     THEN ExitAfterEntry(ExitAtLimit(Better(TargetLevel)), Better(TargetLevel))
     ELSE Skip

TargetLong  == TargetOneSide("targetLong", "long")
TargetShort == TargetOneSide("targetShort", "short")

-----------------------------------------------------------------------------
Next ==
  \/ ExplicitTrade \/ Enter \/ NextBar \/ ApplyAutoStops \/ ApplyPastEnd
  \/ TimeBasedAtMarket \/ TimeBasedAtClose
  \/ StopLoss \/ StopLossLong \/ StopLossShort
  \/ Trailing
  \/ BreakEven \/ BreakEvenLong \/ BreakEvenShort
  \/ Reverse \/ ReverseLong \/ ReverseShort
  \/ Target \/ TargetLong \/ TargetShort

Spec == Init /\ [][Next]_vars

-----------------------------------------------------------------------------
(* Properties *)

Positions ==
  [side : Sides, state : {"none", "open", "closed"}, entryBar : 0 .. Size,
   entry : Nat, exitBar : 0 .. Size, exit : Nat, by : Stops \cup {""},
   breakEven : BOOLEAN, trail : Nat]

\* The call for this bar has gone through the stops and left the position open.
Survived ==
  stage = 0 /\ thrown = "" /\ applied /\ IsOpen /\ bar < Size

\* The call for this bar has closed the position.
ClosedNow == pos.state = "closed" /\ pos.exitBar = bar

\* A trade is never booked at a price the bar did not have; a profit target is
\* never filled below its price, nor a stop loss above.
FillsHonest ==
  /\ pos.state # "none" /\ pos.entryBar = bar /\ bar >= StartTrades /\ bar < Size
     => prices.low <= pos.entry /\ pos.entry <= prices.high
  /\ ClosedNow =>
       /\ prices.low <= pos.exit /\ pos.exit <= prices.high
       /\ pos.by \in {"target", "targetLong", "targetShort"}
            => AsGood(pos.exit, Better(TargetLevel))
       /\ pos.by \in {"stopLoss", "stopLossLong", "stopLossShort"}
            => AsGood(Worse(LossLevel), pos.exit)

\* When one bar reaches both, the worse outcome is booked: a position is only
\* closed at its target if the bar stayed clear of the stop loss, or the filter
\* declined an order.
StopBeatsTarget ==
  ClosedNow /\ pos.by = "target" /\ "stopLoss" \in installed /\ ~declined
    => \E s \in Slippages : ExitAtStop(Worse(LossLevel))[s] = {}

\* The stops that set the flag _breakEvenActive before the reverse stop looks at it.
BreakEvenStops == {"breakEven", "breakEvenLong", "breakEvenShort"}

\* A stop that the close of a bar activates is not filled on that bar, at a
\* price that came before the close.  (The reverse stop is, when a break even stop
\* is installed too: that one comes before it and sets the flag of both.)
NoLookahead ==
  /\ ClosedNow /\ pos.by = "breakEven" => began.breakEven
  /\ ClosedNow /\ pos.by = "reverse" /\ installed \cap BreakEvenStops = {}
       => began.breakEven
  /\ ClosedNow /\ pos.by = "trailing" => began.trail # 0

\* While a long position is open, its trailing stop never moves down.
TrailingRatchets == IsOpen /\ pos'.state = "open" /\ IsLong => pos'.trail >= pos.trail

\* A long position that closed at the trigger's profit on an earlier bar is
\* closed when the price comes back to the entry price.
Protects(stop, side) ==
  Survived /\ profit /\ stop \in installed /\ pos.side = side
    /\ bar >= StartTrades /\ bar > pos.entryBar /\ ~declined
    => \E s \in Slippages : ExitAtStop(pos.entry)[s] = {}

BreakEvenProtects == Protects("breakEven", "long") /\ Protects("breakEven", "short")

\* What a stop has secured is not given away again: by the break even stop of a
\* position of either side, and by the trailing stop of a long one.
LevelsProtect == []BreakEvenProtects /\ [][TrailingRatchets]_vars

\* The stop loss placed on the bar after the last one is signalled, and so is the
\* target, unless a stop before it reads the close of that bar, or an exception
\* has left the call.
OrdersSignalled ==
  stage = 0 /\ bar = Size /\ handlers /\ IsOpen /\ ~declined /\ thrown = "" =>
    /\ "stopLoss" \in installed => "stopLoss" \in signals
    /\ "target" \in installed /\ installed \cap ReadsClose = {}
         => "target" \in signals

-----------------------------------------------------------------------------
(* What a comment of the code says *)

\* applyAutoStops "applies all the currently enabled auto stops to all the open
\* positions": a stop for the other side does not keep it from doing so.
NoStopAborts == thrown # "SellingShortPosition"
=============================================================================
