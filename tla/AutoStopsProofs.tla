--------------------------- MODULE AutoStopsProofs ---------------------------
(***************************************************************************)
(* Proofs about AutoStops, for all prices, bars, levels, slippages and     *)
(* sets of installed stops; and first about Orders: what the order methods *)
(* of PositionsManagerImpl book, for any slippage that is not negative.    *)
(*                                                                         *)
(* What the fifteen stops do in a pass of applyAutoStops is first shown to *)
(* be of four kinds (StopStep): the stop leaves the position open, closes  *)
(* it, throws, or the call ends at the bar past the end.  The invariant is *)
(* then proved of these, not of every stop again.                          *)
(***************************************************************************)
EXTENDS AutoStops, FiniteSetTheorems, TLAPS

-----------------------------------------------------------------------------
(* Orders *)

InBar(b, x) == b.low <= x /\ x <= b.high

\* A bar whose open and close lie between its low and its high.
LEMMA BarPrices ==
  ASSUME NEW b \in Bars(Nat)
  PROVE  /\ b.open \in Nat /\ b.high \in Nat /\ b.low \in Nat /\ b.close \in Nat
         /\ b.low <= b.open /\ b.open <= b.high
         /\ b.low <= b.close /\ b.close <= b.high
BY DEF Bars

\* An order at market or at close is always filled, within the bar: slippage
\* never takes the price of buyAtMarket, coverAtMarket, sellAtMarket or
\* shortAtMarket (and the same at close) out of it.
THEOREM MarketFillsInBar ==
  ASSUME NEW b \in Bars(Nat), NEW s \in Nat,
         NEW x \in BuyAtMarket(b, s) \cup BuyAtClose(b, s)
                     \cup CoverAtMarket(b, s) \cup CoverAtClose(b, s)
                     \cup SellAtMarket(b, s) \cup SellAtClose(b, s)
                     \cup ShortAtMarket(b, s) \cup ShortAtClose(b, s)
  PROVE  InBar(b, x)
<1>1. CASE x \in BuyAtMarket(b, s) \cup BuyAtClose(b, s)
                   \cup CoverAtMarket(b, s) \cup CoverAtClose(b, s)
  BY <1>1, BarPrices
     DEF InBar, BuyAtMarket, BuyAtClose, CoverAtMarket, CoverAtClose, Min2
<1>2. CASE x \in SellAtMarket(b, s) \cup SellAtClose(b, s)
                   \cup ShortAtMarket(b, s) \cup ShortAtClose(b, s)
  BY <1>2, BarPrices
     DEF InBar, SellAtMarket, SellAtClose, ShortAtMarket, ShortAtClose, Max2
<1>3. QED
  BY <1>1, <1>2

\* A stop order that buys (buyAtStop, coverAtStop) is filled within the bar, and
\* never below its price: a gap costs, it does not earn.
THEOREM BuyStopsHonest ==
  ASSUME NEW b \in Bars(Nat), NEW s \in Nat, NEW p \in Nat,
         NEW x \in BuyAtStop(b, p, s) \cup CoverAtStop(b, p, s)
  PROVE  InBar(b, x) /\ p <= x
<1>1. x \in BuyAtStop(b, p, s)
  BY DEF CoverAtStop
<1>2. CASE b.open >= p + s
  BY <1>1, <1>2, BarPrices DEF InBar, BuyAtStop
<1>3. CASE b.open < p + s
  BY <1>1, <1>3, BarPrices DEF InBar, BuyAtStop
<1>4. QED
  BY <1>2, <1>3, BarPrices

\* A stop order that sells (sellAtStop, shortAtStop) is filled within the bar,
\* and never above its price.
THEOREM SellStopsHonest ==
  ASSUME NEW b \in Bars(Nat), NEW s \in Nat, NEW p \in Nat,
         NEW x \in SellAtStop(b, p, s) \cup ShortAtStop(b, p, s)
  PROVE  InBar(b, x) /\ x <= p
<1>1. x \in SellAtStop(b, p, s)
  BY DEF ShortAtStop
<1>2. CASE b.open <= p - s
  BY <1>1, <1>2, BarPrices DEF InBar, SellAtStop
<1>3. CASE b.open > p - s
  BY <1>1, <1>3, BarPrices DEF InBar, SellAtStop
<1>4. QED
  BY <1>2, <1>3, BarPrices

\* A limit order that buys (buyAtLimit, coverAtLimit) is filled within the bar,
\* never above its limit.
THEOREM BuyLimitsHonest ==
  ASSUME NEW b \in Bars(Nat), NEW s \in Nat, NEW p \in Nat,
         NEW x \in BuyAtLimit(b, p, s) \cup CoverAtLimit(b, p, s)
  PROVE  InBar(b, x) /\ x <= p
<1>1. p - s >= b.low
  BY BarPrices DEF BuyAtLimit, CoverAtLimit
<1>2. CASE b.open <= p
  BY <1>1, <1>2, BarPrices DEF InBar, BuyAtLimit, CoverAtLimit
<1>3. CASE b.open > p
  BY <1>1, <1>3, BarPrices DEF InBar, BuyAtLimit, CoverAtLimit
<1>4. QED
  BY <1>2, <1>3, BarPrices

\* A limit order that sells (sellAtLimit, shortAtLimit) is filled within the
\* bar, never below its limit.
THEOREM SellLimitsHonest ==
  ASSUME NEW b \in Bars(Nat), NEW s \in Nat, NEW p \in Nat,
         NEW x \in SellAtLimit(b, p, s) \cup ShortAtLimit(b, p, s)
  PROVE  InBar(b, x) /\ p <= x
<1>1. p + s <= b.high
  BY BarPrices DEF SellAtLimit, ShortAtLimit
<1>2. CASE b.open >= p
  BY <1>1, <1>2, BarPrices DEF InBar, SellAtLimit, ShortAtLimit
<1>3. CASE b.open < p
  BY <1>1, <1>3, BarPrices DEF InBar, SellAtLimit, ShortAtLimit
<1>4. QED
  BY <1>2, <1>3, BarPrices

-----------------------------------------------------------------------------
(* Lemmas about the operators *)

LEMMA MinIsMember ==
  ASSUME NEW S \in SUBSET Nat, IsFiniteSet(S), S # {}
  PROVE  Min(S) \in S /\ \A y \in S : Min(S) <= y
<1> DEFINE Below(x) == {y \in S : y < x}
<1> DEFINE T == {Below(x) : x \in S}
<1>1. IsWellFoundedOn(StrictSubsetOrdering(S), SUBSET S)
  BY FS_FiniteSubsetsOfFinite, FS_StrictSubsetOrderingWellFounded
<1>2. T \subseteq SUBSET S /\ T # {}
  OBVIOUS
<1> HIDE DEF T
<1>3. PICK A \in T : \A B \in T : <<B, A>> \notin StrictSubsetOrdering(S)
  BY <1>1, <1>2, WFMin
<1>4. PICK x \in S : A = Below(x)
  BY DEF T
<1>5. ASSUME NEW y \in S, ~(x <= y) PROVE FALSE
  <2>1. x \in Nat /\ y \in Nat /\ y < x /\ \A z \in S : z \in Nat
    BY <1>5
  <2>2. ASSUME NEW z \in S, z < y PROVE z < x
    BY <2>1, <2>2
  <2>3. y < x /\ ~(y < y)
    BY <2>1
  <2>4. Below(y) \subseteq Below(x) /\ y \in Below(x) /\ y \notin Below(y)
    BY <2>2, <2>3
  <2>5. Below(y) \in T
    BY DEF T
  <2>6. <<Below(y), A>> \in StrictSubsetOrdering(S)
    BY <2>4, <1>4 DEF StrictSubsetOrdering
  <2>7. QED
    BY <2>5, <2>6, <1>3
<1>6. \A y \in S : x <= y
  BY <1>5
<1>7. QED
  BY <1>6 DEF Min

\* The places of the stops in the pass that the invariant speaks of.
LEMMA Places ==
  /\ Len(Order) = 15
  /\ \A k \in 1 .. 15 : Order[k] \in Stops
  /\ \A k \in 1 .. 15 :
       /\ Order[k] = "stopLoss" <=> k = 2
       /\ Order[k] = "trailing" <=> k = 5
       /\ Order[k] = "breakEven" <=> k = 6
       /\ Order[k] = "breakEvenLong" <=> k = 7
       /\ Order[k] = "breakEvenShort" <=> k = 8
       /\ Order[k] = "reverse" <=> k = 9
       /\ Order[k] = "reverseLong" <=> k = 10
       /\ Order[k] = "reverseShort" <=> k = 11
       /\ Order[k] = "target" <=> k = 14
BY DEF Order, Stops

\* The next stop is an installed one, and none that is installed is passed over.
LEMMA NextStageIs ==
  ASSUME NEW k \in 0 .. 15
  PROVE  /\ NextStage(k) \in 0 .. 15
         /\ NextStage(k) # 0 => NextStage(k) > k /\ Order[NextStage(k)] \in installed
         /\ \A j \in k + 1 .. 15 : Order[j] \in installed => NextStage(k) \in k + 1 .. j
<1> DEFINE rest == {j \in k + 1 .. Len(Order) : Order[j] \in installed}
<1>1. rest \in SUBSET Nat /\ rest \subseteq k + 1 .. 15 /\ IsFiniteSet(rest)
  <2>1. rest \in SUBSET (k + 1 .. 15) /\ IsFiniteSet(k + 1 .. 15)
    BY Places, FS_Interval
  <2>2. QED
    BY <2>1, FS_Subset
<1>2. CASE rest = {}
  BY <1>2, Places DEF NextStage
<1>3. CASE rest # {}
  <2>1. NextStage(k) = Min(rest)
    BY <1>3 DEF NextStage
  <2>2. Min(rest) \in rest /\ \A y \in rest : Min(rest) <= y
    BY <1>1, <1>3, MinIsMember
  <2>3. QED
    BY <2>1, <2>2, <1>1, Places
<1>4. QED
  BY <1>2, <1>3

LEMMA Levels ==
  /\ LossLevel \in Nat /\ TargetLevel \in Nat /\ BreakEvenLevel \in Nat
  /\ ReverseLevel \in Nat /\ TrailTrigger \in Nat /\ TrailLevel \in Nat
BY AutoStopsAssumption

LEMMA PercentType ==
  ASSUME NEW x \in Int, NEW level \in Nat
  PROVE  Percent(x, level) \in Int
<1>1. x * level \in Int
  OBVIOUS
<1>2. QED
  BY <1>1 DEF Percent

LEMMA PricesType ==
  ASSUME pos \in Positions
  PROVE  /\ pos.entry \in Nat /\ pos.trail \in Nat
         /\ \A level \in Nat : Better(level) \in Int /\ Worse(level) \in Int
         /\ TrailStop \in Int
<1>1. pos.entry \in Nat /\ pos.trail \in Nat
  BY DEF Positions
<1>2. \A level \in Nat : Percent(pos.entry, level) \in Int
  BY <1>1, PercentType
<1>3. Percent(pos.trail - pos.entry, TrailLevel) \in Int
      /\ Percent(pos.entry - pos.trail, TrailLevel) \in Int
  <2>1. pos.trail - pos.entry \in Int /\ pos.entry - pos.trail \in Int
    BY <1>1
  <2>2. TrailLevel \in Nat
    BY Levels
  <2>3. QED
    BY ONLY <2>1, <2>2, PercentType
<1>4. QED
  BY <1>1, <1>2, <1>3 DEF Better, Worse, TrailStop

LEMMA BarsOfPrices ==
  ASSUME prices \in Bars(Prices)
  PROVE  prices \in Bars(Nat)
BY AutoStopsAssumption DEF Bars

\* The fills of the exit orders, from the theorems about orders.
LEMMA ExitsHonest ==
  ASSUME prices \in Bars(Prices), NEW s \in Slippages, NEW p \in Nat
  PROVE  /\ \A x \in ExitAtMarket[s] \cup ExitAtClose[s] : x \in Nat /\ InBar(prices, x)
         /\ \A x \in ExitAtStop(p)[s] : x \in Nat /\ InBar(prices, x) /\ AsGood(p, x)
         /\ \A x \in ExitAtLimit(p)[s] : x \in Nat /\ InBar(prices, x) /\ AsGood(x, p)
<1>1. s \in Nat /\ prices \in Bars(Nat)
  BY AutoStopsAssumption, BarsOfPrices
<1>2. ASSUME NEW x \in Int, InBar(prices, x) PROVE x \in Nat
  BY <1>1, <1>2, BarPrices DEF InBar
<1>3. ASSUME NEW x \in ExitAtMarket[s] \cup ExitAtClose[s]
      PROVE  x \in Nat /\ InBar(prices, x)
  <2>1. x \in BuyAtMarket(prices, s) \cup BuyAtClose(prices, s)
               \cup CoverAtMarket(prices, s) \cup CoverAtClose(prices, s)
               \cup SellAtMarket(prices, s) \cup SellAtClose(prices, s)
               \cup ShortAtMarket(prices, s) \cup ShortAtClose(prices, s)
    BY <1>3 DEF ExitAtMarket, ExitAtClose
  <2>2. InBar(prices, x)
    BY <1>1, <2>1, MarketFillsInBar
  <2>3. x \in Int
    BY <1>1, <2>1, BarPrices
       DEF BuyAtMarket, BuyAtClose, CoverAtMarket, CoverAtClose, SellAtMarket, SellAtClose,
           ShortAtMarket, ShortAtClose, Min2, Max2
  <2>4. QED
    BY <1>2, <2>2, <2>3
<1>4. ASSUME NEW x \in ExitAtStop(p)[s]
      PROVE  x \in Nat /\ InBar(prices, x) /\ AsGood(p, x)
  <2>1. CASE IsLong
    <3>1. x \in SellAtStop(prices, p, s)
      BY <1>4, <2>1 DEF ExitAtStop
    <3>2. InBar(prices, x) /\ x <= p
      BY <1>1, <3>1, SellStopsHonest
    <3>3. x \in Int
      BY <1>1, <3>1, BarPrices DEF SellAtStop
    <3>4. QED
      BY <1>2, <2>1, <3>2, <3>3 DEF AsGood
  <2>2. CASE ~IsLong
    <3>1. x \in CoverAtStop(prices, p, s)
      BY <1>4, <2>2 DEF ExitAtStop
    <3>2. InBar(prices, x) /\ p <= x
      BY <1>1, <3>1, BuyStopsHonest
    <3>3. x \in Int
      BY <1>1, <3>1, BarPrices DEF CoverAtStop, BuyAtStop
    <3>4. QED
      BY <1>2, <2>2, <3>2, <3>3 DEF AsGood
  <2>3. QED
    BY <2>1, <2>2
<1>5. ASSUME NEW x \in ExitAtLimit(p)[s]
      PROVE  x \in Nat /\ InBar(prices, x) /\ AsGood(x, p)
  <2>1. CASE IsLong
    <3>1. x \in SellAtLimit(prices, p, s)
      BY <1>5, <2>1 DEF ExitAtLimit
    <3>2. InBar(prices, x) /\ p <= x
      BY <1>1, <3>1, SellLimitsHonest
    <3>3. x \in Int
      BY <1>1, <3>1, BarPrices DEF SellAtLimit
    <3>4. QED
      BY <1>2, <2>1, <3>2, <3>3 DEF AsGood
  <2>2. CASE ~IsLong
    <3>1. x \in CoverAtLimit(prices, p, s)
      BY <1>5, <2>2 DEF ExitAtLimit
    <3>2. InBar(prices, x) /\ x <= p
      BY <1>1, <3>1, BuyLimitsHonest
    <3>3. x \in Int
      BY <1>1, <3>1, BarPrices DEF CoverAtLimit
    <3>4. QED
      BY <1>2, <2>2, <3>2, <3>3 DEF AsGood
  <2>3. QED
    BY <2>1, <2>2
<1>6. QED
  BY <1>3, <1>4, <1>5

-----------------------------------------------------------------------------
(* The steps of a pass *)

Exceptions == {"", "InvalidPrice", "SellingShortPosition", "BarIndexOutOfRange"}

TypeInv ==
  /\ installed \in SUBSET Stops /\ handlers \in BOOLEAN
  /\ bar \in 0 .. Size /\ prices \in Bars(Prices)
  /\ stage \in 0 .. 15
  /\ applied \in BOOLEAN /\ declined \in BOOLEAN /\ profit \in BOOLEAN
  /\ pos \in Positions /\ began \in Positions
  /\ signals \in SUBSET Stops
  /\ thrown \in Exceptions

Targets == {"target", "targetLong", "targetShort"}
Losses == {"stopLoss", "stopLossLong", "stopLossShort"}

LossNotReached == \E s \in Slippages : ExitAtStop(Worse(LossLevel))[s] = {}
EntryNotReached == \E s \in Slippages : ExitAtStop(pos.entry)[s] = {}

\* A stop goes on to the next one, having changed no more than what it has activated.  If
\* the filter declined nothing, the bar, or the signal, says why the position is open.
StaysOpen ==
  /\ stage' = NextStage(stage) /\ thrown' = thrown
  /\ \E trail \in Nat, flag \in BOOLEAN :
       /\ pos' = [pos EXCEPT !.trail = trail, !.breakEven = flag]
       /\ trail = pos.trail \/ stage = 5
       /\ IsLong => trail >= pos.trail
       /\ pos.breakEven => flag
       /\ flag => pos.breakEven \/ stage >= 6
       /\ stage = 6 /\ bar < Size /\ bar # pos.entryBar
            => (AsGood(prices.close, Better(BreakEvenLevel)) => flag)
  /\ ~declined' /\ bar # pos.entryBar =>
       /\ stage = 2 => IF bar = Size THEN "stopLoss" \in signals'
                       ELSE bar < StartTrades \/ LossNotReached
       /\ stage = 6 /\ bar < Size /\ pos.breakEven => bar < StartTrades \/ EntryNotReached
       /\ stage = 14 /\ bar = Size => "target" \in signals'

\* A fill is a price of the bar, not better than a stop asks and not worse than a target
\* does, and of a stop that is active.
HonestAt(x) ==
  /\ InBar(prices, x)
  /\ Order[stage] \in Targets => AsGood(x, Better(TargetLevel)) /\ bar # pos.entryBar
  /\ Order[stage] \in Losses => AsGood(Worse(LossLevel), x)
  /\ Order[stage] \in {"breakEven", "reverse"} => pos.breakEven
  /\ Order[stage] = "trailing" => pos.trail # 0

\* An order of a stop closes the position.
Closes ==
  /\ bar < Size /\ bar >= StartTrades
  /\ stage' = 0 /\ thrown' = thrown /\ declined' = declined
  /\ \E x \in Nat : pos' = Closed(x) /\ HonestAt(x)

Throws == pos' = pos /\ stage' = 0 /\ thrown' \in Exceptions \ {""}

EndsPastEnd ==
  /\ bar = Size /\ handlers /\ Order[stage] \in ReadsClose
  /\ pos' = pos /\ stage' = 0 /\ thrown' = thrown

StopFrame ==
  /\ stage > 0 /\ UNCHANGED <<setup, bar, prices, applied, began, profit>>
  /\ declined' \in BOOLEAN /\ (declined => declined')
  /\ signals \subseteq signals' /\ signals' \subseteq Stops

StopStep == StopFrame /\ (StaysOpen \/ Closes \/ Throws \/ EndsPastEnd)

\* What an exit order does.
ExitStep(fills) ==
  \/ /\ bar < Size /\ bar >= StartTrades
     /\ stage' = 0 /\ thrown' = thrown /\ declined' = declined
     /\ \E s \in Slippages : \E x \in fills[s] : pos' = Closed(x)
  \/ /\ stage' = NextStage(stage) /\ thrown' = thrown /\ pos' = pos
     /\ ~declined' => IF bar = Size THEN Order[stage] \in signals'
                      ELSE bar < StartTrades \/ \E s \in Slippages : fills[s] = {}
  \/ Throws

LEMMA ExitSteps ==
  ASSUME TypeInv, stage > 0, IsOpen, NEW fills, Exit(fills)
  PROVE  StopFrame /\ ExitStep(fills)
<1>1. stage \in 1 .. 15 /\ Order[stage] \in Stops /\ Size \in Nat /\ pos.state = "open"
  BY Places, AutoStopsAssumption DEF TypeInv, IsOpen
<1>2. \A x : Closed(x).state = "closed"
  BY DEF Closed, TypeInv, Positions
<1>3. CASE Filled(fills)
  <2>1. PICK s \in Slippages : \E x \in fills[s] : Done(Closed(x))
    BY <1>3 DEF Filled
  <2>2. PICK x \in fills[s] : Done(Closed(x))
    BY <2>1
  <2>3. pos' = Closed(x) /\ stage' = 0
    BY <1>2, <2>2 DEF Done, Leave
  <2>4. StopFrame /\ thrown' = thrown /\ declined' = declined
    BY <1>1, <1>3, <2>2 DEF Filled, Done, Leave, StopFrame, setup, TypeInv
  <2>5. QED
    BY <1>3, <2>3, <2>4 DEF Filled, ExitStep
<1>4. CASE NotFilled(fills, pos)
  <2>1. Leave(pos) /\ signals' = signals
    BY <1>4 DEF NotFilled, Declined, Done
  <2>2. declined' \in BOOLEAN /\ (declined => declined')
    BY <1>4 DEF NotFilled, Declined, Done, TypeInv
  <2>3. StopFrame /\ stage' = NextStage(stage) /\ thrown' = thrown /\ pos' = pos
    BY <1>1, <2>1, <2>2 DEF Leave, StopFrame, setup, TypeInv
  <2>4. ~declined' => bar < Size /\ (bar < StartTrades \/ \E s \in Slippages : fills[s] = {})
    BY <1>4 DEF NotFilled, Declined
  <2>5. QED
    BY <2>3, <2>4, <1>1 DEF ExitStep, TypeInv
<1>5. CASE PastEnd(pos)
  <2>1. CASE Done(pos) /\ signals' = signals \cup {Order[stage]}
    BY <1>1, <1>5, <2>1
       DEF PastEnd, Done, Leave, StopFrame, ExitStep, TypeInv, setup
  <2>2. CASE Throw("BarIndexOutOfRange")
    BY <1>1, <2>2 DEF Throw, Throws, Exceptions, StopFrame, ExitStep, TypeInv, setup, history
  <2>3. QED
    BY <1>5, <2>1, <2>2 DEF PastEnd
<1>6. QED
  BY <1>3, <1>4, <1>5 DEF Exit

LEMMA ExitAfterEntrySteps ==
  ASSUME TypeInv, stage > 0, IsOpen, NEW fills, NEW price, ExitAfterEntry(fills, price)
  PROVE  /\ StopFrame
         /\ \/ /\ bar = pos.entryBar
               /\ stage' = NextStage(stage) /\ thrown' = thrown /\ pos' = pos
            \/ bar # pos.entryBar /\ ValidPrice(price) /\ ExitStep(fills)
            \/ Throws
<1>1. CASE bar = pos.entryBar /\ Done(pos) /\ UNCHANGED signals
  BY <1>1 DEF StopFrame, TypeInv, Done, Leave, setup, IsOpen
<1>2. CASE bar # pos.entryBar /\ ValidPrice(price) /\ Exit(fills)
  BY <1>2, ExitSteps
<1>3. CASE Throw("InvalidPrice")
  BY <1>3 DEF StopFrame, TypeInv, Throw, Throws, Exceptions, setup, history
<1>4. QED
  BY <1>1, <1>2, <1>3 DEF ExitAfterEntry

LEMMA SkipStep ==
  ASSUME TypeInv, stage > 0, IsOpen, Skip
  PROVE  StopFrame /\ stage' = NextStage(stage) /\ thrown' = thrown /\ pos' = pos
BY DEF Skip, StopFrame, TypeInv, Done, Leave, setup, IsOpen

LEMMA StaysAsIs ==
  ASSUME TypeInv, stage > 0, IsOpen, StopFrame,
         stage' = NextStage(stage), thrown' = thrown, pos' = pos,
         bar = pos.entryBar \/ stage \notin {2, 6, 14}
  PROVE  StopStep
<1>1. /\ pos.trail \in Nat /\ pos.breakEven \in BOOLEAN
      /\ pos = [pos EXCEPT !.trail = pos.trail, !.breakEven = pos.breakEven]
  BY DEF TypeInv, Positions
<1>2. pos' = [pos EXCEPT !.trail = pos.trail, !.breakEven = pos.breakEven]
  BY <1>1
<1>3. bar # pos.entryBar => stage # 2 /\ stage # 6 /\ stage # 14
  OBVIOUS
<1>4. IsLong => pos.trail >= pos.trail
  BY <1>1
<1> HIDE DEF IsLong
<1>5. StaysOpen
  BY <1>1, <1>2, <1>3, <1>4 DEF StaysOpen
<1>6. QED
  BY <1>5 DEF StopStep

\* An exit order whose fills are honest is a step of a pass.
LEMMA HonestExit ==
  ASSUME TypeInv, stage > 0, IsOpen, NEW fills, StopFrame, ExitStep(fills),
         bar # pos.entryBar \/ stage \notin {2, 6, 14},
         \A s \in Slippages : \A x \in fills[s] : x \in Nat /\ HonestAt(x),
         stage = 2 => fills = ExitAtStop(Worse(LossLevel)),
         stage = 6 => pos.breakEven /\ fills = ExitAtStop(pos.entry)
  PROVE  StopStep
<1>1. CASE /\ bar < Size /\ bar >= StartTrades
           /\ stage' = 0 /\ thrown' = thrown /\ declined' = declined
           /\ \E s \in Slippages : \E x \in fills[s] : pos' = Closed(x)
  BY <1>1 DEF Closes, StopStep
<1>2. CASE /\ stage' = NextStage(stage) /\ thrown' = thrown /\ pos' = pos
           /\ ~declined' => IF bar = Size THEN Order[stage] \in signals'
                            ELSE bar < StartTrades \/ \E s \in Slippages : fills[s] = {}
  <2>1. /\ pos.trail \in Nat /\ pos.breakEven \in BOOLEAN
        /\ pos = [pos EXCEPT !.trail = pos.trail, !.breakEven = pos.breakEven]
    BY DEF TypeInv, Positions
  <2>2. pos' = [pos EXCEPT !.trail = pos.trail, !.breakEven = pos.breakEven]
        /\ pos.trail >= pos.trail
    BY <1>2, <2>1
  <2>3. stage = 2 => Order[stage] = "stopLoss"
    BY Places
  <2>4. stage = 14 => Order[stage] = "target"
    BY Places
  <2>5. ~declined' =>
          /\ stage = 2 => IF bar = Size THEN "stopLoss" \in signals'
                          ELSE bar < StartTrades \/ LossNotReached
          /\ stage = 6 /\ bar < Size /\ pos.breakEven => bar < StartTrades \/ EntryNotReached
          /\ stage = 14 /\ bar = Size => "target" \in signals'
    <3>1. bar < Size => bar # Size
      BY AutoStopsAssumption DEF TypeInv
    <3>2. QED
      BY <1>2, <2>3, <2>4, <3>1 DEF LossNotReached, EntryNotReached
  <2>6. stage = 6 => pos.breakEven
    OBVIOUS
  <2> HIDE DEF IsLong
  <2>7. StaysOpen
    BY <1>2, <2>1, <2>2, <2>5, <2>6 DEF StaysOpen
  <2>8. QED
    BY <2>7 DEF StopStep
<1>3. CASE Throws
  BY <1>3 DEF StopStep
<1>4. QED
  BY <1>1, <1>2, <1>3 DEF ExitStep

LEMMA AtPlace ==
  ASSUME TypeInv, stage > 0, NEW stop, Order[stage] = stop
  PROVE  /\ stop = "stopLoss" <=> stage = 2
         /\ stop = "trailing" <=> stage = 5
         /\ stop = "breakEven" <=> stage = 6
         /\ stop = "target" <=> stage = 14
         /\ stop \in {"breakEvenLong", "breakEvenShort", "reverse", "reverseLong",
                      "reverseShort"} => stage \in 7 .. 11
BY Places DEF TypeInv

-----------------------------------------------------------------------------
(* Every stop takes a step of a pass *)

LEMMA StopsAtOtherPlaces ==
  ASSUME TypeInv, stage > 0, IsOpen, Skip, stage \notin {2, 6, 14}
  PROVE  StopStep
BY SkipStep, StaysAsIs

LEMMA MarketOrClose ==
  ASSUME TypeInv, stage > 0, IsOpen, NEW fills, Exit(fills),
         fills = ExitAtMarket \/ fills = ExitAtClose,
         Order[stage] \in {"timeBasedAtMarket", "timeBasedAtClose"}
  PROVE  StopStep
<1>1. stage \notin {2, 6, 14}
  BY AtPlace
<1>2. StopFrame /\ ExitStep(fills)
  BY ExitSteps
<1>3. \A s \in Slippages : \A x \in fills[s] : x \in Nat /\ InBar(prices, x)
  BY ExitsHonest DEF TypeInv
<1>4. \A x : InBar(prices, x) => HonestAt(x)
  BY DEF HonestAt, Targets, Losses
<1>5. QED
  BY <1>1, <1>2, <1>3, <1>4, HonestExit

\* The exits at a stop or limit price: not on the entry bar, and only at a price that is
\* one.
LEMMA PricedExit ==
  ASSUME TypeInv, stage > 0, IsOpen, NEW fills, NEW price \in Int,
         ExitAfterEntry(fills, price),
         ASSUME price \in Nat, bar # pos.entryBar
         PROVE  \A s \in Slippages : \A x \in fills[s] : x \in Nat /\ HonestAt(x),
         stage = 2 => fills = ExitAtStop(Worse(LossLevel)),
         stage = 6 => pos.breakEven /\ fills = ExitAtStop(pos.entry)
  PROVE  StopStep
<1>1. StopFrame
  BY ExitAfterEntrySteps
<1>2. CASE bar = pos.entryBar /\ stage' = NextStage(stage) /\ thrown' = thrown /\ pos' = pos
  BY <1>1, <1>2, StaysAsIs
<1>3. CASE bar # pos.entryBar /\ ValidPrice(price) /\ ExitStep(fills)
  <2>1. price \in Nat
    BY <1>3 DEF ValidPrice
  <2>2. QED
    BY <1>1, <1>3, <2>1, HonestExit
<1>4. CASE Throws
  BY <1>1, <1>4 DEF StopStep
<1>5. QED
  BY <1>2, <1>3, <1>4, ExitAfterEntrySteps

LEMMA LossExit ==
  ASSUME TypeInv, stage > 0, IsOpen, Order[stage] \in Losses,
         ExitAfterEntry(ExitAtStop(Worse(LossLevel)), Worse(LossLevel))
  PROVE  StopStep
<1>1. Worse(LossLevel) \in Int
  BY PricesType, Levels DEF TypeInv
<1>2. stage # 6 /\ Order[stage] \notin Targets \cup {"breakEven", "reverse", "trailing"}
  BY AtPlace DEF Losses, Targets
<1>3. ASSUME Worse(LossLevel) \in Nat, NEW s \in Slippages,
             NEW x \in ExitAtStop(Worse(LossLevel))[s]
      PROVE  x \in Nat /\ HonestAt(x)
  BY <1>2, <1>3, ExitsHonest DEF TypeInv, HonestAt
<1>4. QED
  BY <1>1, <1>2, <1>3, PricedExit

LEMMA TargetExit ==
  ASSUME TypeInv, stage > 0, IsOpen, Order[stage] \in Targets,
         ExitAfterEntry(ExitAtLimit(Better(TargetLevel)), Better(TargetLevel))
  PROVE  StopStep
<1>1. Better(TargetLevel) \in Int
  BY PricesType, Levels DEF TypeInv
<1>2. stage # 2 /\ stage # 6
      /\ Order[stage] \notin Losses \cup {"breakEven", "reverse", "trailing"}
  BY AtPlace DEF Losses, Targets
<1>3. ASSUME Better(TargetLevel) \in Nat, bar # pos.entryBar, NEW s \in Slippages,
             NEW x \in ExitAtLimit(Better(TargetLevel))[s]
      PROVE  x \in Nat /\ HonestAt(x)
  BY <1>2, <1>3, ExitsHonest DEF TypeInv, HonestAt
<1>4. QED
  BY <1>1, <1>2, <1>3, PricedExit

LEMMA EntryExit ==
  ASSUME TypeInv, stage > 0, IsOpen, pos.breakEven,
         \/ Order[stage] = "breakEven" /\ ExitAfterEntry(ExitAtStop(pos.entry), pos.entry)
         \/ Order[stage] = "reverse" /\ ExitAfterEntry(ExitAtLimit(pos.entry), pos.entry)
  PROVE  StopStep
<1>1. pos.entry \in Nat
  BY PricesType DEF TypeInv
<1>2. /\ stage # 2 /\ Order[stage] \notin Losses \cup Targets \cup {"trailing"}
      /\ Order[stage] = "reverse" => stage # 6
  BY AtPlace DEF Losses, Targets
<1>3. \A s \in Slippages : \A x \in ExitAtStop(pos.entry)[s] : x \in Nat /\ HonestAt(x)
  BY <1>1, <1>2, ExitsHonest DEF TypeInv, HonestAt
<1>4. \A s \in Slippages : \A x \in ExitAtLimit(pos.entry)[s] : x \in Nat /\ HonestAt(x)
  BY <1>1, <1>2, ExitsHonest DEF TypeInv, HonestAt
<1>5. CASE Order[stage] = "breakEven" /\ ExitAfterEntry(ExitAtStop(pos.entry), pos.entry)
  <2>1. pos.entry \in Int /\ stage # 2
    BY <1>1, <1>2
  <2>2. QED
    BY <2>1, <1>3, <1>5, PricedExit
<1>6. CASE Order[stage] = "reverse" /\ ExitAfterEntry(ExitAtLimit(pos.entry), pos.entry)
  <2>1. pos.entry \in Int /\ stage # 2 /\ stage # 6
    BY <1>1, <1>2, <1>6
  <2>2. QED
    BY <2>1, <1>4, <1>6, PricedExit
<1>7. QED
  BY <1>5, <1>6

LEMMA ThrowStep ==
  ASSUME TypeInv, stage > 0, IsOpen, NEW e \in Exceptions \ {""}, Throw(e)
  PROVE  StopStep
BY DEF Throw, StopStep, StopFrame, Throws, TypeInv, setup, history

LEMMA TriggerStep ==
  ASSUME TypeInv, stage \in 6 .. 11, IsOpen, NEW triggered, Trigger(triggered),
         Order[stage] \in ReadsClose,
         stage = 6 => ~pos.breakEven /\ (bar < Size => triggered = BreakEvenTriggered)
  PROVE  StopStep
<1>0. stage > 0
  OBVIOUS
<1>1. CASE bar = pos.entryBar /\ Skip
  BY <1>0, <1>1, SkipStep, StaysAsIs
<1>2. CASE ReadPastEnd
  <2>1. CASE /\ bar = Size /\ handlers /\ stage' = 0
             /\ UNCHANGED <<setup, bar, prices, applied, pos, signals, thrown, history>>
    BY <2>1 DEF EndsPastEnd, StopStep, StopFrame, TypeInv, history, setup
  <2>2. CASE Throw("BarIndexOutOfRange")
    <3>1. "BarIndexOutOfRange" \in Exceptions \ {""}
      BY DEF Exceptions
    <3>2. QED
      BY <1>0, <2>2, <3>1, ThrowStep
  <2>3. QED
    BY <1>2, <2>1, <2>2 DEF ReadPastEnd
<1>3. CASE /\ bar # pos.entryBar /\ bar < Size
           /\ Done([pos EXCEPT !.breakEven = pos.breakEven \/ triggered])
           /\ UNCHANGED signals
  <2> DEFINE flag == pos.breakEven \/ triggered
  <2>1. /\ pos.trail \in Nat /\ pos.breakEven \in BOOLEAN /\ pos.state = "open"
        /\ [pos EXCEPT !.breakEven = flag]
             = [pos EXCEPT !.trail = pos.trail, !.breakEven = flag]
        /\ [pos EXCEPT !.breakEven = flag].state = "open"
    BY DEF TypeInv, Positions, IsOpen
  <2>2. pos' = [pos EXCEPT !.trail = pos.trail, !.breakEven = flag]
        /\ stage' = NextStage(stage) /\ thrown' = thrown /\ declined' = declined
    BY <1>3, <2>1 DEF Done, Leave
  <2>3. StopFrame
    BY <1>3, <2>1 DEF Done, Leave, StopFrame, TypeInv, setup
  <2>4. stage = 6 => (AsGood(prices.close, Better(BreakEvenLevel)) => flag)
    BY <1>3 DEF BreakEvenTriggered
  <2>5. flag \in BOOLEAN /\ (pos.breakEven => flag) /\ stage >= 6 /\ stage # 2 /\ stage # 14
    OBVIOUS
  <2>6. pos.trail >= pos.trail /\ (stage = 6 => ~pos.breakEven)
    BY <2>1
  <2> HIDE DEF flag, IsLong
  <2>7. StaysOpen
    BY <2>1, <2>2, <2>4, <2>5, <2>6 DEF StaysOpen
  <2>8. QED
    BY <2>3, <2>7 DEF StopStep
<1>4. QED
  BY <1>1, <1>2, <1>3 DEF Trigger

LEMMA TrailingStep ==
  ASSUME TypeInv, stage > 0, IsOpen, Trailing
  PROVE  StopStep
<1>1. Order[stage] = "trailing" /\ stage = 5 /\ stage \notin {2, 6, 14}
  BY AtPlace DEF Trailing, Applying
<1>2. /\ pos.trail \in Nat /\ pos.breakEven \in BOOLEAN /\ pos.state = "open"
      /\ bar < Size => prices.close \in Nat
  BY BarsOfPrices, BarPrices DEF TypeInv, Positions, IsOpen
<1>3. \A trail \in Nat :
        /\ [pos EXCEPT !.trail = trail]
             = [pos EXCEPT !.trail = trail, !.breakEven = pos.breakEven]
        /\ [pos EXCEPT !.trail = trail].state = "open"
  BY <1>2 DEF TypeInv, Positions
<1>4. ASSUME NEW trail \in Nat, trail >= pos.trail, Leave([pos EXCEPT !.trail = trail]),
             declined' \in BOOLEAN, declined => declined', UNCHANGED signals
      PROVE  StopStep
  <2>1. pos' = [pos EXCEPT !.trail = trail, !.breakEven = pos.breakEven]
        /\ stage' = NextStage(stage) /\ thrown' = thrown
    BY <1>3, <1>4 DEF Leave
  <2>2. StopFrame
    BY <1>1, <1>4 DEF Leave, StopFrame, TypeInv, setup
  <2> HIDE DEF IsLong
  <2>3. StaysOpen
    BY <1>1, <1>2, <1>4, <2>1 DEF StaysOpen
  <2>4. QED
    BY <2>2, <2>3 DEF StopStep
<1>5. CASE bar = pos.entryBar /\ Skip
  BY <1>1, <1>5, SkipStep, StaysAsIs
<1>6. CASE bar # pos.entryBar /\ pos.trail # 0 /\ ~ValidPrice(TrailStop)
           /\ Throw("InvalidPrice")
  <2>1. "InvalidPrice" \in Exceptions \ {""}
    BY DEF Exceptions
  <2>2. QED
    BY <1>6, <2>1, ThrowStep
<1>7. CASE pos.trail # 0 /\ ValidPrice(TrailStop) /\ Filled(ExitAtStop(TrailStop))
  <2>1. TrailStop \in Nat
    BY <1>7, PricesType DEF TypeInv, ValidPrice
  <2>2. \A s \in Slippages : \A x \in ExitAtStop(TrailStop)[s] : x \in Nat /\ InBar(prices, x)
    BY <2>1, ExitsHonest DEF TypeInv
  <2>3. \A x : InBar(prices, x) => HonestAt(x)
    BY <1>1, <1>7 DEF HonestAt, Targets, Losses
  <2>4. StopFrame /\ ExitStep(ExitAtStop(TrailStop))
    BY <1>7, ExitSteps DEF Exit
  <2>5. QED
    BY <1>1, <2>2, <2>3, <2>4, HonestExit
<1>8. CASE bar < Size /\ NotFilled(ExitAtStop(TrailStop), Trailed)
  <2>1. PICK trail \in Nat : trail >= pos.trail /\ Trailed = [pos EXCEPT !.trail = trail]
    BY <1>2, <1>8 DEF Trailed, Max2
  <2>2. CASE Declined(Trailed)
    <3>1. declined' \in BOOLEAN /\ (declined => declined')
      BY <2>2 DEF Declined
    <3>2. QED
      BY <1>4, <2>1, <2>2, <3>1 DEF Declined
  <2>3. CASE Done(Trailed) /\ UNCHANGED signals
    <3>1. declined' \in BOOLEAN /\ (declined => declined')
      BY <2>3 DEF Done, TypeInv
    <3>2. QED
      BY <1>4, <2>1, <2>3, <3>1 DEF Done
  <2>4. QED
    BY <1>8, <2>2, <2>3 DEF NotFilled
<1>9. CASE /\ bar = Size /\ handlers
           /\ \/ signals' = signals \cup {"trailing"} /\ UNCHANGED declined
              \/ declined' = TRUE /\ UNCHANGED signals
           /\ stage' = 0
           /\ UNCHANGED <<setup, bar, prices, applied, pos, thrown, began, profit>>
  <2>1. "trailing" \in Stops /\ "trailing" \in ReadsClose
    BY <1>1, Places DEF TypeInv, ReadsClose
  <2>2. CASE signals' = signals \cup {"trailing"} /\ UNCHANGED declined
    BY <1>1, <1>9, <2>1, <2>2 DEF EndsPastEnd, StopStep, StopFrame, TypeInv, setup
  <2>3. CASE declined' = TRUE /\ UNCHANGED signals
    <3>1. declined' \in BOOLEAN /\ (declined => declined')
      BY <2>3
    <3>2. QED
      BY <1>1, <1>9, <2>1, <2>3, <3>1 DEF EndsPastEnd, StopStep, StopFrame, TypeInv, setup
  <2>4. QED
    BY <1>9, <2>2, <2>3
<1>10. CASE Throw("BarIndexOutOfRange")
  <2>1. "BarIndexOutOfRange" \in Exceptions \ {""}
    BY DEF Exceptions
  <2>2. QED
    BY <1>10, <2>1, ThrowStep
<1>11. CASE ReadPastEnd
  <2>1. CASE /\ bar = Size /\ handlers /\ stage' = 0
             /\ UNCHANGED <<setup, bar, prices, applied, pos, signals, thrown, history>>
    BY <1>1, <2>1
       DEF EndsPastEnd, StopStep, StopFrame, TypeInv, history, setup, ReadsClose
  <2>2. QED
    BY <1>10, <1>11, <2>1 DEF ReadPastEnd
<1>12. CASE /\ pos.trail = 0 /\ bar < Size
            /\ Done([pos EXCEPT !.trail = prices.close]) /\ UNCHANGED signals
  <2>1. declined' \in BOOLEAN /\ (declined => declined')
    BY <1>12 DEF Done, TypeInv
  <2>2. prices.close \in Nat /\ prices.close >= pos.trail
    BY <1>2, <1>12
  <2>3. QED
    BY <1>4, <1>12, <2>1, <2>2 DEF Done
<1>13. CASE Done(pos) /\ UNCHANGED signals
  BY <1>1, <1>13, SkipStep, StaysAsIs DEF Skip
<1>14. QED
  <2> HIDE DEF Trailed, ExitAtStop, Filled, NotFilled, Done, Throw
  <2>1. QED
    BY <1>5, <1>6, <1>7, <1>8, <1>9, <1>10, <1>11, <1>12, <1>13 DEF Trailing

StopActions ==
  \/ TimeBasedAtMarket \/ TimeBasedAtClose
  \/ StopLoss \/ StopLossLong \/ StopLossShort
  \/ Trailing
  \/ BreakEven \/ BreakEvenLong \/ BreakEvenShort
  \/ Reverse \/ ReverseLong \/ ReverseShort
  \/ Target \/ TargetLong \/ TargetShort

LEMMA OneSideStep ==
  ASSUME TypeInv, stage > 0, IsOpen, NEW stop, NEW side,
         Order[stage] = stop,
         stop \in {"breakEvenLong", "breakEvenShort", "reverseLong", "reverseShort"},
         Skip \/ Trigger(BreakEvenTriggered) \/ Trigger(ReverseTriggered)
           \/ \E undefined \in BOOLEAN : Trigger(undefined)
  PROVE  StopStep
<1>1. stage \in 7 .. 11 /\ stage \notin {2, 6, 14} /\ Order[stage] \in ReadsClose
  BY AtPlace DEF ReadsClose
<1>2. CASE Skip
  BY <1>1, <1>2, SkipStep, StaysAsIs
<1>3. ASSUME NEW triggered, Trigger(triggered) PROVE StopStep
  BY <1>1, <1>3, TriggerStep
<1>4. QED
  BY <1>2, <1>3

LEMMA StopActionStep ==
  ASSUME TypeInv, IsOpen, StopActions
  PROVE  StopStep
<1>1. stage > 0
  BY DEF StopActions, TimeBasedAtMarket, TimeBasedAtClose, StopLoss, StopLossLong,
     StopLossShort, Trailing, BreakEven, BreakEvenLong, BreakEvenShort, Reverse, ReverseLong,
     ReverseShort, Target, TargetLong, TargetShort, BreakEvenOneSide, ReverseOneSide,
     TargetOneSide, Applying
<1>2. CASE TimeBasedAtMarket \/ TimeBasedAtClose
  <2>1. Order[stage] \in {"timeBasedAtMarket", "timeBasedAtClose"}
    BY <1>2 DEF TimeBasedAtMarket, TimeBasedAtClose, Applying
  <2>2. stage \notin {2, 6, 14}
    BY <1>1, <2>1, AtPlace
  <2>3. Exit(ExitAtMarket) \/ Exit(ExitAtClose) \/ Skip
    BY <1>2 DEF TimeBasedAtMarket, TimeBasedAtClose
  <2>4. QED
    BY <1>1, <2>1, <2>2, <2>3, MarketOrClose, StopsAtOtherPlaces
<1>3. CASE StopLoss \/ StopLossLong \/ StopLossShort
  <2>1. Order[stage] \in Losses
    BY <1>3 DEF StopLoss, StopLossLong, StopLossShort, Applying, Losses
  <2>2. StopLossLong => stage \notin {2, 6, 14}
    BY <1>1, AtPlace DEF StopLossLong, Applying
  <2>3. CASE ExitAfterEntry(ExitAtStop(Worse(LossLevel)), Worse(LossLevel))
    BY <1>1, <2>1, <2>3, LossExit
  <2>4. CASE StopLossLong /\ Skip
    BY <1>1, <2>2, <2>4, StopsAtOtherPlaces
  <2>5. CASE Throw("SellingShortPosition")
    <3>1. "SellingShortPosition" \in Exceptions \ {""}
      BY DEF Exceptions
    <3>2. QED
      BY <1>1, <2>5, <3>1, ThrowStep
  <2>6. QED
    BY <1>3, <2>3, <2>4, <2>5 DEF StopLoss, StopLossLong, StopLossShort
<1>4. CASE Trailing
  BY <1>1, <1>4, TrailingStep
<1>5. CASE BreakEven
  <2>1. Order[stage] = "breakEven" /\ stage \in 6 .. 11 /\ Order[stage] \in ReadsClose
    BY <1>1, <1>5, AtPlace DEF BreakEven, Applying, ReadsClose
  <2>2. CASE pos.breakEven
    BY <1>1, <1>5, <2>1, <2>2, EntryExit DEF BreakEven
  <2>3. CASE ~pos.breakEven
    BY <1>5, <2>1, <2>3, TriggerStep DEF BreakEven
  <2>4. QED
    BY <2>2, <2>3
<1>6. CASE Reverse
  <2>1. /\ Order[stage] = "reverse" /\ stage \in 6 .. 11 /\ stage # 6
        /\ Order[stage] \in ReadsClose
    BY <1>1, <1>6, AtPlace DEF Reverse, Applying, ReadsClose
  <2>2. CASE pos.breakEven
    BY <1>1, <1>6, <2>1, <2>2, EntryExit DEF Reverse
  <2>3. CASE ~pos.breakEven
    BY <1>6, <2>1, <2>3, TriggerStep DEF Reverse
  <2>4. QED
    BY <2>2, <2>3
<1>7. CASE BreakEvenLong \/ BreakEvenShort
  BY <1>1, <1>7, OneSideStep
     DEF BreakEvenLong, BreakEvenShort, BreakEvenOneSide, Applying
<1>8. CASE ReverseLong \/ ReverseShort
  BY <1>1, <1>8, OneSideStep DEF ReverseLong, ReverseShort, ReverseOneSide, Applying
<1>9. CASE Target \/ TargetLong \/ TargetShort
  <2>1. Order[stage] \in Targets
    BY <1>9 DEF Target, TargetLong, TargetShort, TargetOneSide, Applying, Targets
  <2>2. ~Target => stage \notin {2, 6, 14}
    BY <1>1, <1>9, AtPlace DEF TargetLong, TargetShort, TargetOneSide, Applying
  <2>3. CASE ExitAfterEntry(ExitAtLimit(Better(TargetLevel)), Better(TargetLevel))
    BY <1>1, <2>1, <2>3, TargetExit
  <2>4. CASE ~Target /\ Skip
    BY <1>1, <2>2, <2>4, StopsAtOtherPlaces
  <2>5. QED
    BY <1>9, <2>3, <2>4 DEF Target, TargetLong, TargetShort, TargetOneSide
<1>10. QED
  BY <1>2, <1>3, <1>4, <1>5, <1>6, <1>7, <1>8, <1>9 DEF StopActions

-----------------------------------------------------------------------------
(* The invariant: the types, and where a pass may be *)

LEMMA EntriesHonest ==
  ASSUME prices \in Bars(Prices), NEW side \in Sides, NEW x \in EntryFills(side)
  PROVE  x \in Nat /\ InBar(prices, x)
<1>1. PICK s \in Slippages, p \in Prices :
        x \in IF side = "long"
              THEN BuyAtMarket(prices, s) \cup BuyAtClose(prices, s)
                     \cup BuyAtStop(prices, p, s) \cup BuyAtLimit(prices, p, s)
              ELSE ShortAtMarket(prices, s) \cup ShortAtClose(prices, s)
                     \cup ShortAtStop(prices, p, s) \cup ShortAtLimit(prices, p, s)
  BY DEF EntryFills
<1>2. s \in Nat /\ p \in Nat /\ prices \in Bars(Nat)
  BY AutoStopsAssumption, BarsOfPrices
<1>3. InBar(prices, x)
  <2>1. CASE x \in BuyAtMarket(prices, s) \cup BuyAtClose(prices, s)
                    \cup ShortAtMarket(prices, s) \cup ShortAtClose(prices, s)
    BY <1>2, <2>1, MarketFillsInBar
  <2>2. CASE x \in BuyAtStop(prices, p, s)
    BY <1>2, <2>2, BuyStopsHonest
  <2>3. CASE x \in BuyAtLimit(prices, p, s)
    BY <1>2, <2>3, BuyLimitsHonest
  <2>4. CASE x \in ShortAtStop(prices, p, s)
    BY <1>2, <2>4, SellStopsHonest
  <2>5. CASE x \in ShortAtLimit(prices, p, s)
    BY <1>2, <2>5, SellLimitsHonest
  <2>6. QED
    BY <1>1, <2>1, <2>2, <2>3, <2>4, <2>5
<1>4. x \in Int
  BY <1>1, <1>2, BarPrices
     DEF BuyAtMarket, BuyAtClose, BuyAtStop, BuyAtLimit, ShortAtMarket, ShortAtClose,
         ShortAtStop, ShortAtLimit, SellAtStop, Min2, Max2
<1>5. QED
  BY <1>2, <1>3, <1>4, BarPrices DEF InBar

PassInv ==
  /\ stage > 0 => IsOpen /\ thrown = "" /\ applied /\ Order[stage] \in installed
  /\ pos.state = "none" => ~applied /\ ~profit
  /\ pos.state = "closed" => pos.exitBar <= bar
  /\ pos.state # "none" =>
       pos.entryBar < Size /\ (pos.entryBar <= bar \/ pos.entryBar < StartTrades)
  /\ profit => pos.entryBar < bar

OtherActions == ExplicitTrade \/ Enter \/ NextBar \/ ApplyAutoStops \/ ApplyPastEnd

\* The position is opened: on a bar before _startTrades, or at a price of the bar.
Opens ==
  /\ pos.state = "none" /\ pos'.state = "open" /\ ~pos'.breakEven /\ pos'.trail = 0
  /\ pos'.entryBar = bar' /\ bar' >= StartTrades => InBar(prices, pos'.entry)
  /\ bar < Size /\ stage' = 0
  /\ UNCHANGED <<bar, prices, applied, declined, profit, began>>

\* What a step of a pass makes of the position.
LEMMA StepPosition ==
  ASSUME TypeInv, IsOpen, StopStep
  PROVE  /\ pos' \in Positions
         /\ pos'.side = pos.side /\ pos'.entryBar = pos.entryBar /\ pos'.entry = pos.entry
         /\ \/ pos'.state = "open" /\ (stage' = 0 \/ stage' = NextStage(stage))
            \/ pos'.state = "closed" /\ pos'.exitBar = bar /\ pos'.by = Order[stage]
               /\ stage' = 0 /\ Closes
<1>1. stage \in 1 .. 15 /\ Order[stage] \in Stops /\ bar \in 0 .. Size /\ pos \in Positions
  BY Places DEF TypeInv, StopStep, StopFrame
<1>2. CASE StaysOpen
  BY <1>1, <1>2 DEF StaysOpen, Positions, IsOpen
<1>3. CASE Closes
  <2>1. PICK x \in Nat : pos' = Closed(x)
    BY <1>3 DEF Closes
  <2>2. stage' = 0
    BY <1>3 DEF Closes
  <2>3. QED
    BY <1>1, <1>3, <2>1, <2>2 DEF Closed, Positions
<1>4. CASE Throws \/ EndsPastEnd
  BY <1>1, <1>4 DEF Throws, EndsPastEnd, IsOpen
<1>5. QED
  BY <1>2, <1>3, <1>4 DEF StopStep

LEMMA OpenedPosition ==
  ASSUME NEW side \in Sides, NEW b \in 0 .. Size, NEW x \in Nat
  PROVE  /\ Opened(side, b, x) \in Positions
         /\ Opened(side, b, x).side = side /\ Opened(side, b, x).state = "open"
         /\ Opened(side, b, x).entryBar = b /\ Opened(side, b, x).entry = x
         /\ ~Opened(side, b, x).breakEven /\ Opened(side, b, x).trail = 0
<1>1. Size \in Nat /\ 0 \in 0 .. Size /\ "long" \in Sides
  BY AutoStopsAssumption DEF Sides
<1>2. FALSE \in BOOLEAN /\ ~NoPosition.breakEven
  BY Zenon DEF NoPosition
<1>3. NoPosition \in Positions /\ NoPosition.trail = 0
  BY <1>1, <1>2 DEF NoPosition, Positions
<1> HIDE DEF NoPosition
<1>4. Opened(side, b, x) \in Positions
  BY <1>3 DEF Opened, Positions
<1>5. /\ Opened(side, b, x).side = side /\ Opened(side, b, x).state = "open"
      /\ Opened(side, b, x).entryBar = b /\ Opened(side, b, x).entry = x
      /\ Opened(side, b, x).trail = 0
      /\ Opened(side, b, x).breakEven = NoPosition.breakEven
  BY <1>3 DEF Opened, Positions
<1>6. QED
  BY <1>2, <1>4, <1>5

LEMMA NextIs ==
  ASSUME TypeInv, PassInv, Next
  PROVE  OtherActions \/ (IsOpen /\ StopStep)
<1>1. CASE StopActions
  <2>1. IsOpen
    BY <1>1 DEF PassInv, StopActions, TimeBasedAtMarket, TimeBasedAtClose, StopLoss,
       StopLossLong, StopLossShort, Trailing, BreakEven, BreakEvenLong, BreakEvenShort,
       Reverse, ReverseLong, ReverseShort, Target, TargetLong, TargetShort,
       BreakEvenOneSide, ReverseOneSide, TargetOneSide, Applying
  <2>2. QED
    BY <1>1, <2>1, StopActionStep
<1>2. QED
  BY <1>1 DEF Next, StopActions, OtherActions

LEMMA TypeInvStep ==
  ASSUME TypeInv, PassInv, Next
  PROVE  TypeInv'
<1> USE AutoStopsAssumption DEF TypeInv, setup, history
<1>1. CASE ExplicitTrade
  <2>1. PICK side \in Sides, b \in 0 .. StartTrades - 1, x \in Prices :
          pos' = Opened(side, b, x)
    BY <1>1 DEF ExplicitTrade
  <2>2. b \in 0 .. Size /\ x \in Nat
    OBVIOUS
  <2>3. pos' \in Positions
    BY <2>1, <2>2, OpenedPosition
  <2>4. QED
    BY <1>1, <2>3 DEF ExplicitTrade
<1>2. CASE Enter
  <2>1. PICK side \in Sides : \E x \in EntryFills(side) : pos' = Opened(side, bar, x)
    BY <1>2 DEF Enter
  <2>2. PICK x \in EntryFills(side) : pos' = Opened(side, bar, x)
    BY <2>1
  <2>3. x \in Nat
    BY <2>2, EntriesHonest
  <2>4. pos' \in Positions
    BY <2>2, <2>3, OpenedPosition
  <2>5. QED
    BY <1>2, <2>4 DEF Enter
<1>3. CASE NextBar
  <2>1. profit' \in BOOLEAN /\ applied' \in BOOLEAN
    BY <1>3 DEF NextBar
  <2>2. bar' \in 0 .. Size
    <3>1. bar' = bar + 1 /\ (bar + 1 < Size \/ bar + 1 = Size)
      BY <1>3 DEF NextBar
    <3>2. bar \in 0 .. Size /\ Size \in Nat
      OBVIOUS
    <3> HIDE DEF TypeInv
    <3>3. QED
      BY <3>1, <3>2
  <2>3. prices' \in (IF bar + 1 < Size THEN Bars(Prices) ELSE {prices})
    BY <1>3 DEF NextBar
  <2>4. prices' \in Bars(Prices)
    BY <2>3
  <2>5. QED
    BY <1>3, <2>1, <2>2, <2>4 DEF NextBar
<1>4. CASE ApplyAutoStops
  <2>1. applied' \in BOOLEAN /\ declined' \in BOOLEAN
    BY <1>4 DEF ApplyAutoStops
  <2>2. stage' \in 0 .. 15
    BY <1>4, NextStageIs DEF ApplyAutoStops
  <2>3. QED
    BY <1>4, <2>1, <2>2 DEF ApplyAutoStops
<1>5. CASE ApplyPastEnd
  <2>1. profit' \in BOOLEAN /\ declined' \in BOOLEAN
    BY <1>5 DEF ApplyPastEnd
  <2>2. stage' \in 0 .. 15
    BY <1>5, NextStageIs DEF ApplyPastEnd
  <2>3. bar' = Size /\ began' = pos
    BY <1>5 DEF ApplyPastEnd
  <2>4. bar' \in 0 .. Size
    BY <2>3
  <2>5. UNCHANGED <<setup, prices, applied, pos, signals, thrown>>
    BY <1>5 DEF ApplyPastEnd
  <2>6. QED
    BY <2>1, <2>2, <2>3, <2>4, <2>5
<1>6. CASE IsOpen /\ StopStep
  <2>1. pos' \in Positions /\ stage' \in 0 .. 15
    BY <1>6, StepPosition, NextStageIs
  <2>2. thrown' \in Exceptions
    BY <1>6 DEF StopStep, StaysOpen, Closes, Throws, EndsPastEnd
  <2>3. QED
    BY <1>6, <2>1, <2>2 DEF StopStep, StopFrame
<1>7. QED
  BY <1>1, <1>2, <1>3, <1>4, <1>5, <1>6, NextIs DEF OtherActions

LEMMA PassInvStep ==
  ASSUME TypeInv, PassInv, Next
  PROVE  PassInv'
<1>0. /\ Size \in Nat \ {0} /\ StartTrades \in 0 .. Size
      /\ bar \in 0 .. Size /\ stage \in 0 .. 15 /\ pos.entryBar \in 0 .. Size
      /\ pos.exitBar \in 0 .. Size
  BY AutoStopsAssumption DEF TypeInv, Positions
<1>1. CASE ExplicitTrade
  <2>1. PICK side \in Sides, b \in 0 .. StartTrades - 1, x \in Prices :
          pos' = Opened(side, b, x)
    BY <1>1 DEF ExplicitTrade
  <2>2. b \in 0 .. Size /\ x \in Nat
    BY <1>0, AutoStopsAssumption
  <2>3. pos'.state = "open" /\ pos'.entryBar = b
    BY <2>1, <2>2, OpenedPosition
  <2>4. QED
    BY <1>0, <1>1, <2>3 DEF ExplicitTrade, history, PassInv, IsOpen
<1>2. CASE Enter
  <2>1. PICK side \in Sides : \E x \in EntryFills(side) : pos' = Opened(side, bar, x)
    BY <1>2 DEF Enter
  <2>2. PICK x \in EntryFills(side) : pos' = Opened(side, bar, x)
    BY <2>1
  <2>3. x \in Nat
    BY <2>2, EntriesHonest DEF TypeInv
  <2>4. pos'.state = "open" /\ pos'.entryBar = bar
    BY <1>0, <2>2, <2>3, OpenedPosition
  <2>5. /\ bar' = bar /\ bar < Size /\ stage' = 0 /\ pos.state = "none"
        /\ applied' = applied /\ profit' = profit
    BY <1>2 DEF Enter, history
  <2>6. QED
    BY <1>0, <2>4, <2>5 DEF PassInv, IsOpen
<1>3. CASE NextBar
  <2>1. /\ bar' = bar + 1 /\ stage' = 0 /\ pos' = pos /\ ~applied'
        /\ profit' => profit \/ (IsOpen /\ bar > pos.entryBar)
    BY <1>3 DEF NextBar
  <2>2. profit' => pos.entryBar < bar
    BY <1>0, <2>1 DEF PassInv
  <2>3. pos.state = "closed" => pos.exitBar <= bar
    BY DEF PassInv
  <2>4. pos.state # "none" =>
          pos.entryBar < Size /\ (pos.entryBar <= bar \/ pos.entryBar < StartTrades)
    BY DEF PassInv
  <2>5. pos.state = "none" => ~profit'
    BY <2>1 DEF PassInv, IsOpen
  <2>6. bar \in Int /\ pos.exitBar \in Int /\ pos.entryBar \in Int
        /\ (pos.exitBar <= bar => pos.exitBar <= bar')
        /\ (pos.entryBar <= bar => pos.entryBar <= bar')
    BY <1>0, <2>1
  <2>7. ~(stage' > 0) /\ (profit' => pos.entryBar < bar')
    BY <1>0, <2>1, <2>2
  <2>8. QED
    BY <2>1, <2>3, <2>4, <2>5, <2>6, <2>7 DEF PassInv
<1>4. CASE ApplyAutoStops
  <2>1. stage' \in 0 .. 15 /\ (stage' # 0 => Order[stage'] \in installed)
    BY <1>0, <1>4, NextStageIs DEF ApplyAutoStops, setup
  <2>2. QED
    BY <1>0, <1>4, <2>1 DEF ApplyAutoStops, setup, PassInv, IsOpen
<1>5. CASE ApplyPastEnd
  <2>1. stage' \in 0 .. 15 /\ (stage' # 0 => Order[stage'] \in installed)
    BY <1>0, <1>5, NextStageIs DEF ApplyPastEnd, setup
  <2>2. /\ bar' = Size /\ bar = Size - 1 /\ pos' = pos /\ applied' = applied /\ applied
        /\ thrown' = thrown /\ thrown = "" /\ installed' = installed /\ IsOpen
        /\ profit' => profit \/ bar > pos.entryBar
    BY <1>5 DEF ApplyPastEnd, setup
  <2>3. pos.entryBar < Size /\ (pos.entryBar <= bar \/ pos.entryBar < StartTrades)
        /\ (profit => pos.entryBar < bar)
    BY <2>2 DEF PassInv, IsOpen
  <2>4. pos.state = "open"
    BY <2>2 DEF IsOpen
  <2>5. profit' => pos.entryBar < bar'
    BY <1>0, <2>2, <2>3
  <2>6. pos.entryBar \in Int /\ Size \in Int
    BY <1>0
  <2>7. pos.entryBar < Size
    BY <2>3
  <2>8. bar' = Size
    BY <2>2
  <2>9. pos.entryBar <= bar'
    BY <2>6, <2>7, <2>8
  <2>10. stage' > 0 => Order[stage'] \in installed
    BY <2>1
  <2>11. pos'.state = "open" /\ pos'.entryBar = pos.entryBar
    BY <2>2, <2>4
  <2>12. QED
    BY <2>2, <2>5, <2>7, <2>8, <2>9, <2>10, <2>11 DEF PassInv, IsOpen
<1>6. CASE IsOpen /\ StopStep
  <2>1. /\ pos'.entryBar = pos.entryBar
        /\ \/ pos'.state = "open" /\ (stage' = 0 \/ stage' = NextStage(stage))
           \/ pos'.state = "closed" /\ pos'.exitBar = bar /\ stage' = 0
    BY <1>6, StepPosition
  <2>2. /\ stage > 0 /\ bar' = bar /\ applied' = applied /\ profit' = profit
        /\ installed' = installed
    BY <1>6 DEF StopStep, StopFrame, setup
  <2>3. stage' # 0 => thrown' = thrown
    BY <1>6 DEF StopStep, StaysOpen, Closes, Throws, EndsPastEnd
  <2>4. NextStage(stage) # 0 => Order[NextStage(stage)] \in installed
    BY <1>0, NextStageIs
  <2>5. stage' \in 0 .. 15
    BY <1>0, <2>1, NextStageIs
  <2>6. /\ pos.entryBar < Size /\ (pos.entryBar <= bar \/ pos.entryBar < StartTrades)
        /\ (profit => pos.entryBar < bar) /\ thrown = "" /\ applied
    BY <1>0, <1>6, <2>2 DEF PassInv, IsOpen
  <2>7. stage' # 0 => pos'.state = "open" /\ Order[stage'] \in installed
    BY <1>0, <2>1, <2>4
  <2>8. stage' > 0 => stage' # 0
    BY <2>5
  <2>9. pos'.state = "closed" => pos'.exitBar <= bar
    BY <1>0, <2>1
  <2>10. pos'.state # "none"
    BY <2>1
  <2>11. QED
    BY <2>1, <2>2, <2>3, <2>6, <2>7, <2>8, <2>9, <2>10 DEF PassInv, IsOpen
<1>7. QED
  BY <1>1, <1>2, <1>3, <1>4, <1>5, <1>6, NextIs DEF OtherActions


-----------------------------------------------------------------------------
(* The fills, and the order of the stops *)

\* Outside a pass nothing closes the position.
LEMMA OtherSteps ==
  ASSUME TypeInv, PassInv, OtherActions
  PROVE  /\ ~ClosedNow'
         /\ installed' = installed /\ handlers' = handlers /\ signals' = signals
         /\ thrown' = thrown /\ stage = 0
         /\ \/ Opens
            \/ NextBar
            \/ ApplyAutoStops
            \/ ApplyPastEnd
<1>1. CASE ExplicitTrade
  <2>1. PICK side \in Sides, b \in 0 .. StartTrades - 1, x \in Prices :
          pos' = Opened(side, b, x)
    BY <1>1 DEF ExplicitTrade
  <2>2. b \in 0 .. Size /\ x \in Nat /\ StartTrades \in 0 .. Size /\ Size \in Nat \ {0}
    BY AutoStopsAssumption
  <2>3. /\ pos'.state = "open" /\ pos'.entryBar = b
        /\ ~pos'.breakEven /\ pos'.trail = 0
    BY <2>1, <2>2, OpenedPosition
  <2>4. b \in Int /\ b < StartTrades /\ bar' = bar /\ bar = 0 /\ bar < Size
    BY <1>1, <2>2 DEF ExplicitTrade
  <2>5. ~(pos'.entryBar = bar' /\ bar' >= StartTrades)
    BY <2>2, <2>3, <2>4
  <2>6. Opens
    BY <1>1, <2>3, <2>4, <2>5 DEF ExplicitTrade, Opens, history
  <2>7. ~ClosedNow'
    BY <2>3 DEF ClosedNow
  <2>8. QED
    BY <1>1, <2>6, <2>7 DEF ExplicitTrade, setup
<1>2. CASE Enter
  <2>1. PICK side \in Sides : \E x \in EntryFills(side) : pos' = Opened(side, bar, x)
    BY <1>2 DEF Enter
  <2>2. PICK x \in EntryFills(side) : pos' = Opened(side, bar, x)
    BY <2>1
  <2>3. x \in Nat /\ InBar(prices, x) /\ bar \in 0 .. Size
    BY <2>2, EntriesHonest DEF TypeInv
  <2>4. pos'.state = "open" /\ pos'.entry = x /\ ~pos'.breakEven /\ pos'.trail = 0
    BY <2>2, <2>3, OpenedPosition
  <2>5. InBar(prices, pos'.entry)
    BY <2>3, <2>4
  <2>6. Opens
    BY <1>2, <2>4, <2>5 DEF Enter, Opens, history
  <2>7. ~ClosedNow'
    BY <2>4 DEF ClosedNow
  <2>8. QED
    BY <1>2, <2>6, <2>7 DEF Enter, setup
<1>3. CASE NextBar
  <2>1. bar' = bar + 1 /\ pos' = pos
    BY <1>3 DEF NextBar
  <2>2. bar \in 0 .. Size /\ pos.exitBar \in 0 .. Size /\ Size \in Nat
    BY AutoStopsAssumption DEF TypeInv, Positions
  <2>3. pos.state = "closed" => pos.exitBar <= bar
    BY DEF PassInv
  <2>4. pos.exitBar <= bar => pos.exitBar # bar'
    BY <2>1, <2>2
  <2>5. ~ClosedNow'
    BY <2>1, <2>3, <2>4 DEF ClosedNow
  <2>6. QED
    BY <1>3, <2>5 DEF NextBar, setup
<1>4. CASE ApplyAutoStops
  BY <1>4 DEF ApplyAutoStops, setup, ClosedNow, IsOpen
<1>5. CASE ApplyPastEnd
  BY <1>5 DEF ApplyPastEnd, setup, ClosedNow, IsOpen
<1>6. QED
  BY <1>1, <1>2, <1>3, <1>4, <1>5 DEF OtherActions

\* What a step of a pass does not change of the position and the bar.
LEMMA SameLevels ==
  ASSUME prices' = prices, pos'.side = pos.side, pos'.entry = pos.entry
  PROVE  /\ IsLong' = IsLong
         /\ Better(BreakEvenLevel)' = Better(BreakEvenLevel)
         /\ Better(TargetLevel)' = Better(TargetLevel)
         /\ Worse(LossLevel)' = Worse(LossLevel)
         /\ LossNotReached' = LossNotReached
         /\ EntryNotReached' = EntryNotReached
<1>1. IsLong' = IsLong
  BY DEF IsLong
<1>2. /\ Better(BreakEvenLevel)' = Better(BreakEvenLevel)
      /\ Better(TargetLevel)' = Better(TargetLevel)
      /\ Worse(LossLevel)' = Worse(LossLevel)
  BY DEF Better, Worse, IsLong
<1>3. \A s \in Slippages :
        ExitAtStop(Worse(LossLevel))'[s] = ExitAtStop(Worse(LossLevel))[s]
  BY <1>2 DEF ExitAtStop, IsLong
<1>4. \A s \in Slippages : ExitAtStop(pos.entry)'[s] = ExitAtStop(pos.entry)[s]
  BY DEF ExitAtStop, IsLong
<1>5. LossNotReached' = LossNotReached
  BY <1>3 DEF LossNotReached
<1>6. EntryNotReached' = EntryNotReached
  BY <1>4 DEF EntryNotReached
<1>7. QED
  BY <1>1, <1>2, <1>5, <1>6

\* What a step of a pass closes is closed on this bar, at an honest fill of the stop.
LEMMA StepCloses ==
  ASSUME TypeInv, IsOpen, StopStep, ClosedNow'
  PROVE  /\ Closes /\ pos'.by = Order[stage] /\ HonestAt(pos'.exit)
         /\ pos.entryBar \in 0 .. Size /\ pos'.entryBar = pos.entryBar
<1>1. stage \in 1 .. 15 /\ Order[stage] \in Stops /\ bar \in 0 .. Size /\ pos \in Positions
  BY Places DEF TypeInv, StopStep, StopFrame
<1>2. Closes /\ pos'.by = Order[stage] /\ pos'.entryBar = pos.entryBar
  BY StepPosition DEF ClosedNow
<1>3. PICK x \in Nat : pos' = Closed(x) /\ HonestAt(x)
  BY <1>2 DEF Closes
<1>4. pos'.exit = x
  BY <1>1, <1>3 DEF Closed, Positions
<1>5. QED
  BY <1>1, <1>2, <1>3, <1>4 DEF Positions

LEMMA FillsHonestStep ==
  ASSUME TypeInv, PassInv, FillsHonest, Next
  PROVE  FillsHonest'
<1>0. /\ Size \in Nat /\ StartTrades \in 0 .. Size
      /\ bar \in 0 .. Size /\ pos.entryBar \in 0 .. Size
  BY AutoStopsAssumption DEF TypeInv, Positions
<1>1. CASE Opens /\ ~ClosedNow'
  <2>1. pos'.entryBar = bar' /\ bar' >= StartTrades => InBar(prices, pos'.entry)
        /\ prices' = prices
    BY <1>1 DEF Opens
  <2>2. QED
    BY <1>1, <2>1 DEF FillsHonest, InBar
<1>2. CASE NextBar /\ ~ClosedNow'
  <2>1. bar' = bar + 1 /\ pos' = pos
    BY <1>2 DEF NextBar
  <2>2. pos.state # "none" => pos.entryBar <= bar \/ pos.entryBar < StartTrades
    BY DEF PassInv
  <2>3. pos.entryBar <= bar \/ pos.entryBar < StartTrades
          => ~(pos.entryBar = bar' /\ bar' >= StartTrades)
    BY <1>0, <2>1
  <2>4. QED
    BY <1>2, <2>1, <2>2, <2>3 DEF FillsHonest
<1>3. CASE ApplyAutoStops /\ ~ClosedNow'
  BY <1>3 DEF ApplyAutoStops, FillsHonest
<1>4. CASE ApplyPastEnd /\ ~ClosedNow'
  <2>1. bar' = Size
    BY <1>4 DEF ApplyPastEnd
  <2>2. ~(bar' < Size)
    BY <1>0, <2>1
  <2>3. QED
    BY <1>4, <2>2 DEF FillsHonest
<1>5. CASE IsOpen /\ StopStep
  <2>1. /\ pos'.side = pos.side /\ pos'.entryBar = pos.entryBar /\ pos'.entry = pos.entry
        /\ bar' = bar /\ prices' = prices /\ pos.state # "none"
    BY <1>5, StepPosition DEF StopStep, StopFrame, IsOpen
  <2>2. /\ IsLong' = IsLong
        /\ Better(TargetLevel)' = Better(TargetLevel)
        /\ Worse(LossLevel)' = Worse(LossLevel)
    BY <2>1, SameLevels
  <2>3. pos'.state # "none" /\ pos'.entryBar = bar' /\ bar' >= StartTrades /\ bar' < Size
          => prices'.low <= pos'.entry /\ pos'.entry <= prices'.high
    BY <2>1 DEF FillsHonest
  <2>4. ASSUME ClosedNow'
        PROVE  /\ prices'.low <= pos'.exit /\ pos'.exit <= prices'.high
               /\ pos'.by \in Targets => AsGood(pos'.exit, Better(TargetLevel))
               /\ pos'.by \in Losses => AsGood(Worse(LossLevel), pos'.exit)
    BY <1>5, <2>1, <2>4, StepCloses DEF HonestAt, InBar
  <2>5. /\ AsGood(pos.exit, Better(TargetLevel))'
             = AsGood(pos'.exit, Better(TargetLevel))
        /\ AsGood(Worse(LossLevel), pos.exit)' = AsGood(Worse(LossLevel), pos'.exit)
    BY <2>2 DEF AsGood
  <2>6. QED
    BY <2>3, <2>4, <2>5 DEF FillsHonest, Targets, Losses
<1>6. QED
  BY <1>1, <1>2, <1>3, <1>4, <1>5, NextIs, OtherSteps

\* Where the target comes in the pass, the bar has not reached the stop loss.
LossInv ==
  /\ bar < Size /\ IsOpen /\ stage > 2 /\ "stopLoss" \in installed /\ ~declined
       => bar = pos.entryBar \/ bar < StartTrades \/ LossNotReached
  /\ StopBeatsTarget

LEMMA LossInvStep ==
  ASSUME TypeInv, PassInv, LossInv, Next
  PROVE  LossInv'
<1>0. Size \in Nat /\ bar \in 0 .. Size /\ stage \in 0 .. 15
      /\ StartTrades \in 0 .. Size
  BY AutoStopsAssumption DEF TypeInv
<1>1. CASE (Opens \/ NextBar) /\ ~ClosedNow'
  <2>1. stage' = 0
    BY <1>1 DEF Opens, NextBar
  <2>2. ~(stage' > 2)
    BY <2>1
  <2>3. QED
    BY <1>1, <2>2 DEF LossInv, StopBeatsTarget
<1>2. CASE (ApplyAutoStops \/ ApplyPastEnd) /\ ~ClosedNow'
  <2>1. stage' = NextStage(0) /\ installed' = installed
    BY <1>2 DEF ApplyAutoStops, ApplyPastEnd, setup
  <2>2. Order[2] = "stopLoss"
    BY Places
  <2>3. "stopLoss" \in installed => ~(NextStage(0) > 2)
    BY <2>2, NextStageIs
  <2>4. QED
    BY <1>2, <2>1, <2>3 DEF LossInv, StopBeatsTarget
<1>3. CASE IsOpen /\ StopStep
  <2>1. /\ pos'.side = pos.side /\ pos'.entryBar = pos.entryBar /\ pos'.entry = pos.entry
        /\ bar' = bar /\ prices' = prices /\ installed' = installed /\ stage > 0
    BY <1>3, StepPosition DEF StopStep, StopFrame, setup
  <2>2. LossNotReached' = LossNotReached
    BY <2>1, SameLevels
  <2>3. declined => declined'
    BY <1>3 DEF StopStep, StopFrame
  <2>4. CASE StaysOpen
    <3>1. ~ClosedNow'
      BY <1>3, <2>4 DEF StaysOpen, ClosedNow, IsOpen, TypeInv, Positions
    <3>2. stage' = NextStage(stage)
      BY <2>4 DEF StaysOpen
    <3>3. CASE stage < 2
      <4>1. Order[2] = "stopLoss"
        BY Places
      <4>2. "stopLoss" \in installed => NextStage(stage) \in stage + 1 .. 2
        BY <1>0, <3>3, <4>1, NextStageIs
      <4>3. "stopLoss" \in installed => ~(stage' > 2)
        BY <1>0, <3>2, <4>2
      <4>4. QED
        BY <2>1, <3>1, <4>3 DEF LossInv, StopBeatsTarget
    <3>4. CASE stage = 2
      <4>1. ~declined' /\ bar # pos.entryBar /\ bar < Size
              => bar < StartTrades \/ LossNotReached
        BY <1>0, <2>4, <3>4 DEF StaysOpen
      <4>2. QED
        BY <2>1, <2>2, <3>1, <4>1 DEF LossInv, StopBeatsTarget
    <3>5. CASE stage > 2
      <4>1. bar < Size /\ "stopLoss" \in installed /\ ~declined
              => bar = pos.entryBar \/ bar < StartTrades \/ LossNotReached
        BY <1>3, <3>5 DEF LossInv
      <4>2. QED
        BY <2>1, <2>2, <2>3, <3>1, <4>1 DEF LossInv, StopBeatsTarget
    <3>6. QED
      BY <1>0, <3>3, <3>4, <3>5
  <2>5. CASE ~StaysOpen
    <3>1. stage' = 0
      BY <1>3, <2>5 DEF StopStep, Closes, Throws, EndsPastEnd
    <3>2. ~(stage' > 2)
      BY <3>1
    <3>3. ASSUME ClosedNow', pos'.by = "target", "stopLoss" \in installed, ~declined'
          PROVE  LossNotReached'
      <4>1. Closes /\ Order[stage] = "target" /\ HonestAt(pos'.exit)
        BY <1>3, <3>3, StepCloses
      <4>2. bar < Size /\ bar >= StartTrades
        BY <4>1 DEF Closes
      <4>3. bar # pos.entryBar
        BY <4>1 DEF HonestAt, Targets
      <4>4. stage = 14
        BY <1>0, <2>1, <4>1, Places
      <4>5. LossNotReached
        BY <1>0, <1>3, <2>3, <3>3, <4>2, <4>3, <4>4 DEF LossInv
      <4>6. QED
        BY <2>2, <4>5
    <3>4. QED
      BY <2>1, <3>2, <3>3 DEF LossInv, StopBeatsTarget, LossNotReached
  <2>6. QED
    BY <2>4, <2>5
<1>4. QED
  BY <1>1, <1>2, <1>3, NextIs, OtherSteps

-----------------------------------------------------------------------------
(* What the stops have activated *)

\* Until a stop is asked, what it looks at is as it was when the call began.
FlagInv ==
  /\ stage > 0 /\ stage <= 5 => pos.trail = began.trail
  /\ stage > 0 /\ (stage <= 6 \/ (stage <= 9 /\ installed \cap BreakEvenStops = {}))
       => pos.breakEven = began.breakEven
  /\ NoLookahead

LEMMA FlagInvStep ==
  ASSUME TypeInv, PassInv, FlagInv, Next
  PROVE  FlagInv'
<1>0. stage \in 0 .. 15
  BY DEF TypeInv
<1>1. CASE (Opens \/ NextBar) /\ ~ClosedNow'
  <2>1. stage' = 0
    BY <1>1 DEF Opens, NextBar
  <2>2. ~(stage' > 0)
    BY <2>1
  <2>3. QED
    BY <1>1, <2>2 DEF FlagInv, NoLookahead
<1>2. CASE (ApplyAutoStops \/ ApplyPastEnd) /\ ~ClosedNow'
  <2>1. began' = pos /\ pos' = pos
    BY <1>2 DEF ApplyAutoStops, ApplyPastEnd
  <2>2. QED
    BY <1>2, <2>1 DEF FlagInv, NoLookahead
<1>3. CASE IsOpen /\ StopStep
  <2>1. /\ began' = began /\ installed' = installed /\ stage > 0
        /\ pos.trail \in Nat /\ pos.breakEven \in BOOLEAN
    BY <1>3 DEF StopStep, StopFrame, setup, TypeInv, Positions
  <2>2. Order[stage] \in installed
    BY <2>1 DEF PassInv
  <2>3. CASE StaysOpen
    <3>1. ~ClosedNow'
      BY <1>3, <2>3 DEF StaysOpen, ClosedNow, IsOpen, TypeInv, Positions
    <3>2. PICK trail \in Nat, flag \in BOOLEAN :
            /\ pos' = [pos EXCEPT !.trail = trail, !.breakEven = flag]
            /\ trail = pos.trail \/ stage = 5
            /\ pos.breakEven => flag
            /\ flag => pos.breakEven \/ stage >= 6
      BY <2>3 DEF StaysOpen
    <3>3. pos'.trail = trail /\ pos'.breakEven = flag
      BY <3>2 DEF TypeInv, Positions
    <3>4. stage' = NextStage(stage) /\ stage' \in 0 .. 15
          /\ (stage' # 0 => stage' > stage)
      BY <1>0, <2>3, NextStageIs DEF StaysOpen
    <3>5. ASSUME stage' > 0, stage' <= 5
          PROVE  pos'.trail = began.trail
      <4>1. stage < 5
        BY <1>0, <3>4, <3>5
      <4>2. trail = pos.trail
        BY <3>2, <4>1
      <4>3. pos.trail = began.trail
        BY <1>0, <2>1, <4>1 DEF FlagInv
      <4>4. QED
        BY <3>3, <4>2, <4>3
    <3>6. ASSUME stage' > 0,
                 stage' <= 6 \/ (stage' <= 9 /\ installed \cap BreakEvenStops = {})
          PROVE  pos'.breakEven = began.breakEven
      <4>1. stage < 6 \/ (stage < 9 /\ installed \cap BreakEvenStops = {})
        BY <1>0, <3>4, <3>6
      <4>2. stage \in 6 .. 8 => Order[stage] \in BreakEvenStops
        <5>1. stage \in 6 .. 8 => stage \in 1 .. 15 /\ (stage = 6 \/ stage = 7 \/ stage = 8)
          OBVIOUS
        <5>2. QED
          BY <5>1, Places DEF BreakEvenStops
      <4>3. stage < 6
        BY <1>0, <2>2, <4>1, <4>2
      <4>4. ~(stage >= 6) /\ stage <= 6
        BY <1>0, <4>3
      <4>5. flag <=> pos.breakEven
        BY <3>2, <4>4
      <4>6. flag = pos.breakEven
        BY <2>1, <4>5
      <4>7. pos.breakEven = began.breakEven
        BY <2>1, <4>4 DEF FlagInv
      <4>8. QED
        BY <3>3, <4>6, <4>7
    <3>7. QED
      BY <2>1, <3>1, <3>5, <3>6 DEF FlagInv, NoLookahead
  <2>4. CASE ~StaysOpen
    <3>1. stage' = 0
      BY <1>3, <2>4 DEF StopStep, Closes, Throws, EndsPastEnd
    <3>2. ~(stage' > 0)
      BY <3>1
    <3>3. stage \in 1 .. 15
      BY <1>0, <2>1
    <3>4. ASSUME ClosedNow', pos'.by = "breakEven"
          PROVE  began.breakEven
      <4>1. stage = 6 /\ pos.breakEven
        BY <1>3, <3>3, <3>4, StepCloses, Places DEF HonestAt
      <4>2. stage > 0 /\ stage <= 6
        BY <4>1
      <4>3. pos.breakEven = began.breakEven
        BY <4>2 DEF FlagInv
      <4>4. QED
        BY <4>1, <4>3
    <3>5. ASSUME ClosedNow', pos'.by = "reverse", installed \cap BreakEvenStops = {}
          PROVE  began.breakEven
      <4>1. stage = 9 /\ pos.breakEven
        BY <1>3, <3>3, <3>5, StepCloses, Places DEF HonestAt
      <4>2. stage > 0 /\ stage <= 9
        BY <4>1
      <4>3. pos.breakEven = began.breakEven
        BY <3>5, <4>2 DEF FlagInv
      <4>4. QED
        BY <4>1, <4>3
    <3>6. ASSUME ClosedNow', pos'.by = "trailing"
          PROVE  began.trail # 0
      <4>1. stage = 5 /\ pos.trail # 0
        BY <1>3, <3>3, <3>6, StepCloses, Places DEF HonestAt
      <4>2. pos.trail = began.trail
        BY <4>1 DEF FlagInv
      <4>3. QED
        BY <4>1, <4>2
    <3>7. QED
      BY <2>1, <3>2, <3>4, <3>5, <3>6 DEF FlagInv, NoLookahead
  <2>5. QED
    BY <2>3, <2>4
<1>4. QED
  BY <1>1, <1>2, <1>3, NextIs, OtherSteps

\* The call has gone past place k.
Passed(k) == stage > k \/ (stage = 0 /\ applied)

\* A close at the trigger, on a bar before this one or on this one, has activated the
\* break even stop by the time the call is past it, and an active one was placed.
ProfitInv ==
  "breakEven" \in installed /\ IsOpen /\ thrown = "" =>
    /\ profit => pos.breakEven
    /\ bar < Size /\ Passed(6) /\ bar > pos.entryBar
         /\ AsGood(prices.close, Better(BreakEvenLevel)) => pos.breakEven
    /\ bar < Size /\ Passed(6) /\ profit /\ bar > pos.entryBar /\ bar >= StartTrades
         /\ ~declined => EntryNotReached

\* A place that is installed is passed only by the stop at it.
LEMMA NotPassed ==
  ASSUME NEW k \in 0 .. 15, NEW place \in 1 .. 15, k < place,
         Order[place] \in installed, stage' = NextStage(k)
  PROVE  ~Passed(place)'
<1>1. NextStage(k) \in k + 1 .. place
  BY NextStageIs
<1>2. stage' # 0 /\ ~(stage' > place)
  BY <1>1
<1>3. QED
  BY <1>2 DEF Passed

LEMMA ProfitInvStep ==
  ASSUME TypeInv, PassInv, ProfitInv, Next
  PROVE  ProfitInv'
<1>0. /\ stage \in 0 .. 15 /\ Size \in Nat /\ bar \in 0 .. Size
      /\ pos.entryBar \in 0 .. Size /\ pos.breakEven \in BOOLEAN
  BY AutoStopsAssumption DEF TypeInv, Positions
<1>p. Order[6] = "breakEven"
  BY Places
<1>1. CASE Opens
  <2>1. ~profit' /\ ~applied' /\ stage' = 0
    BY <1>1 DEF Opens, PassInv
  <2>2. ~Passed(6)'
    BY <2>1 DEF Passed
  <2>3. QED
    BY <2>1, <2>2 DEF ProfitInv
<1>2. CASE NextBar
  <2>1. /\ stage' = 0 /\ ~applied' /\ pos' = pos /\ installed' = installed /\ stage = 0
        /\ thrown' = thrown /\ (IsOpen => applied)
        /\ profit' => profit \/ (/\ IsOpen /\ bar > pos.entryBar
                                 /\ AsGood(prices.close, Better(BreakEvenLevel)))
        /\ bar + 1 < Size \/ bar + 1 = Size
    BY <1>2 DEF NextBar, setup
  <2>2. ~Passed(6)'
    BY <2>1 DEF Passed
  <2>3. bar < Size
    BY <1>0, <2>1
  <2>4. IsOpen => Passed(6)
    BY <2>1 DEF Passed
  <2>5. "breakEven" \in installed /\ IsOpen /\ thrown = "" => (profit' => pos.breakEven)
    BY <2>1, <2>3, <2>4 DEF ProfitInv
  <2>6. QED
    BY <2>1, <2>2, <2>5 DEF ProfitInv, IsOpen
<1>3. CASE ApplyAutoStops \/ ApplyPastEnd
  <2>1. /\ stage' = NextStage(0) /\ pos' = pos /\ installed' = installed /\ stage = 0
        /\ thrown' = thrown
    BY <1>3 DEF ApplyAutoStops, ApplyPastEnd, setup
  <2>2. "breakEven" \in installed => ~Passed(6)'
    BY <1>p, <2>1, NotPassed
  <2>3. CASE ApplyAutoStops
    BY <2>1, <2>2, <2>3 DEF ApplyAutoStops, ProfitInv, IsOpen
  <2>4. CASE ApplyPastEnd
    <3>1. /\ applied /\ bar = Size - 1 /\ IsOpen
          /\ profit' => profit \/ (/\ bar > pos.entryBar
                                   /\ AsGood(prices.close, Better(BreakEvenLevel)))
      BY <2>4 DEF ApplyPastEnd
    <3>2. bar < Size
      BY <1>0, <3>1
    <3>3. Passed(6)
      BY <2>1, <3>1 DEF Passed
    <3>4. "breakEven" \in installed /\ thrown = "" => (profit' => pos.breakEven)
      BY <3>1, <3>2, <3>3 DEF ProfitInv
    <3>5. QED
      BY <2>1, <2>2, <3>4 DEF ProfitInv
  <2>5. QED
    BY <1>3, <2>3, <2>4
<1>4. CASE IsOpen /\ StopStep
  <2>1. /\ pos'.side = pos.side /\ pos'.entryBar = pos.entryBar /\ pos'.entry = pos.entry
        /\ bar' = bar /\ prices' = prices /\ installed' = installed /\ stage > 0
        /\ profit' = profit /\ (declined => declined')
    BY <1>4, StepPosition DEF StopStep, StopFrame, setup
  <2>2. /\ IsLong' = IsLong /\ Better(BreakEvenLevel)' = Better(BreakEvenLevel)
        /\ EntryNotReached' = EntryNotReached
    BY <2>1, SameLevels
  <2>3. AsGood(prices.close, Better(BreakEvenLevel))'
          = AsGood(prices.close, Better(BreakEvenLevel))
    BY <2>1, <2>2 DEF AsGood
  <2>4. thrown = ""
    BY <2>1 DEF PassInv
  <2>5. CASE StaysOpen
    <3>1. PICK trail \in Nat, flag \in BOOLEAN :
            /\ pos' = [pos EXCEPT !.trail = trail, !.breakEven = flag]
            /\ pos.breakEven => flag
            /\ stage = 6 /\ bar < Size /\ bar # pos.entryBar
                 => (AsGood(prices.close, Better(BreakEvenLevel)) => flag)
      BY <2>5 DEF StaysOpen
    <3>2. pos'.breakEven = flag
      BY <3>1 DEF TypeInv, Positions
    <3>3. stage' = NextStage(stage)
      BY <2>5 DEF StaysOpen
    <3>4. "breakEven" \in installed => (profit => pos'.breakEven)
      BY <1>4, <2>4, <3>1, <3>2 DEF ProfitInv
    <3>5. CASE stage < 6
      <4>1. "breakEven" \in installed => ~Passed(6)'
        BY <1>0, <1>p, <3>3, <3>5, NotPassed
      <4>2. QED
        BY <2>1, <3>4, <4>1 DEF ProfitInv
    <3>6. CASE stage = 6
      <4>1. bar > pos.entryBar => bar # pos.entryBar
        BY <1>0
      <4>2. bar < Size /\ bar > pos.entryBar /\ AsGood(prices.close, Better(BreakEvenLevel))
              => pos'.breakEven
        BY <3>1, <3>2, <3>6, <4>1
      <4>3. "breakEven" \in installed => (profit => pos.breakEven)
        BY <1>4, <2>4 DEF ProfitInv
      <4>4. ASSUME bar < Size, bar > pos.entryBar, ~declined', pos.breakEven,
                   bar >= StartTrades
            PROVE  EntryNotReached
        <5>1. bar < StartTrades \/ EntryNotReached
          BY <2>5, <3>6, <4>1, <4>4 DEF StaysOpen
        <5>2. ~(bar < StartTrades)
          BY <1>0, <4>4, AutoStopsAssumption
        <5>3. QED
          BY <5>1, <5>2
      <4>5. QED
        BY <2>1, <2>2, <2>3, <3>4, <4>2, <4>3, <4>4 DEF ProfitInv
    <3>7. CASE stage > 6
      <4>1. Passed(6)
        BY <3>7 DEF Passed
      <4>2. "breakEven" \in installed =>
              /\ bar < Size /\ bar > pos.entryBar
                   /\ AsGood(prices.close, Better(BreakEvenLevel)) => pos'.breakEven
              /\ bar < Size /\ profit /\ bar > pos.entryBar /\ bar >= StartTrades
                   /\ ~declined => EntryNotReached
        BY <1>4, <2>4, <3>1, <3>2, <4>1 DEF ProfitInv
      <4>3. QED
        BY <2>1, <2>2, <2>3, <3>4, <4>2 DEF ProfitInv
    <3>8. QED
      BY <1>0, <3>5, <3>6, <3>7
  <2>6. CASE Closes
    BY <1>4, <2>6, StepPosition DEF Closes, Closed, ProfitInv, IsOpen, TypeInv, Positions
  <2>7. CASE Throws
    BY <2>7 DEF Throws, ProfitInv
  <2>8. CASE EndsPastEnd
    <3>1. bar = Size /\ pos' = pos /\ thrown' = thrown
      BY <2>8 DEF EndsPastEnd
    <3>2. ~(bar' < Size)
      BY <1>0, <2>1, <3>1
    <3>3. QED
      BY <1>4, <2>1, <2>4, <3>1, <3>2 DEF ProfitInv, IsOpen
  <2>9. QED
    BY <1>4, <2>5, <2>6, <2>7, <2>8 DEF StopStep
<1>5. QED
  BY <1>1, <1>2, <1>3, <1>4, NextIs, OtherSteps

-----------------------------------------------------------------------------
(* The bar past the end *)

SignalInv ==
  bar = Size /\ handlers =>
    /\ applied
    /\ IsOpen /\ ~declined /\ thrown = "" =>
         /\ Passed(2) /\ "stopLoss" \in installed => "stopLoss" \in signals
         /\ Passed(14) /\ "target" \in installed /\ installed \cap ReadsClose = {}
              => "target" \in signals

LEMMA SignalInvStep ==
  ASSUME TypeInv, PassInv, SignalInv, Next
  PROVE  SignalInv'
<1>0. /\ stage \in 0 .. 15 /\ Size \in Nat /\ bar \in 0 .. Size
      /\ pos.entryBar \in 0 .. Size
  BY AutoStopsAssumption DEF TypeInv, Positions
<1>p. Order[2] = "stopLoss" /\ Order[14] = "target"
  BY Places
<1>1. CASE Opens
  <2>1. bar' = bar /\ bar < Size
    BY <1>1 DEF Opens
  <2>2. bar' # Size
    BY <1>0, <2>1
  <2>3. QED
    BY <2>2 DEF SignalInv
<1>2. CASE NextBar /\ handlers' = handlers
  <2>1. bar' = bar + 1 /\ (bar + 1 < Size \/ (bar + 1 = Size /\ ~handlers))
    BY <1>2 DEF NextBar
  <2>2. bar' # Size \/ ~handlers'
    BY <1>0, <1>2, <2>1
  <2>3. QED
    BY <2>2 DEF SignalInv
<1>3. CASE ApplyAutoStops \/ ApplyPastEnd
  <2>1. stage' = NextStage(0) /\ installed' = installed
    BY <1>3 DEF ApplyAutoStops, ApplyPastEnd, setup
  <2>2. applied'
    <3>1. ASSUME ApplyAutoStops PROVE applied'
      <4>1. applied' = TRUE
        BY <3>1 DEF ApplyAutoStops
      <4>2. QED
        BY <4>1
    <3>2. ASSUME ApplyPastEnd PROVE applied'
      <4>1. applied' = applied /\ applied
        BY <3>2 DEF ApplyPastEnd
      <4>2. QED
        BY <4>1
    <3>3. QED
      BY <1>3, <3>1, <3>2
  <2>3. "stopLoss" \in installed => ~Passed(2)'
    BY <1>p, <2>1, NotPassed
  <2>4. "target" \in installed => ~Passed(14)'
    BY <1>p, <2>1, NotPassed
  <2>5. QED
    BY <2>1, <2>3, <2>4, <2>2 DEF SignalInv
<1>4. CASE IsOpen /\ StopStep
  <2>1. /\ bar' = bar /\ installed' = installed /\ handlers' = handlers /\ stage > 0
        /\ applied' = applied /\ (declined => declined') /\ signals \subseteq signals'
    BY <1>4 DEF StopStep, StopFrame, setup
  <2>2. thrown = "" /\ Order[stage] \in installed
    BY <2>1 DEF PassInv
  <2>3. bar = Size => bar # pos.entryBar
    <3>1. pos.entryBar < Size
      BY <1>4 DEF PassInv, IsOpen
    <3>2. QED
      BY <1>0, <3>1
  <2>4. CASE StaysOpen
    <3>1. stage' = NextStage(stage)
      BY <2>4 DEF StaysOpen
    <3>2. ASSUME bar = Size, handlers, ~declined', Passed(2)', "stopLoss" \in installed
          PROVE  "stopLoss" \in signals'
      <4>1. ~(stage < 2)
        BY <1>0, <1>p, <3>1, <3>2, NotPassed
      <4>2. CASE stage = 2
        BY <2>3, <2>4, <3>2, <4>2 DEF StaysOpen
      <4>3. CASE stage > 2
        <5>1. Passed(2)
          BY <4>3 DEF Passed
        <5>2. QED
          BY <1>4, <2>1, <2>2, <3>2, <5>1 DEF SignalInv
      <4>4. QED
        BY <1>0, <4>1, <4>2, <4>3
    <3>3. ASSUME bar = Size, handlers, ~declined', Passed(14)', "target" \in installed,
                 installed \cap ReadsClose = {}
          PROVE  "target" \in signals'
      <4>1. ~(stage < 14)
        BY <1>0, <1>p, <3>1, <3>3, NotPassed
      <4>2. CASE stage = 14
        BY <2>3, <2>4, <3>3, <4>2 DEF StaysOpen
      <4>3. CASE stage > 14
        <5>1. Passed(14)
          BY <4>3 DEF Passed
        <5>2. QED
          BY <1>4, <2>1, <2>2, <3>3, <5>1 DEF SignalInv
      <4>4. QED
        BY <1>0, <4>1, <4>2, <4>3
    <3>4. QED
      BY <2>1, <3>2, <3>3 DEF SignalInv
  <2>5. CASE Closes
    <3>1. bar < Size
      BY <2>5 DEF Closes
    <3>2. bar' # Size
      BY <1>0, <2>1, <3>1
    <3>3. QED
      BY <3>2 DEF SignalInv
  <2>6. CASE Throws
    BY <2>1, <2>6 DEF Throws, SignalInv
  <2>7. CASE EndsPastEnd
    <3>1. installed \cap ReadsClose # {} /\ bar = Size /\ handlers
      BY <2>2, <2>7 DEF EndsPastEnd
    <3>2. stage > 2
      <4>1. Order[stage] \in ReadsClose /\ stage \in 1 .. 15
        BY <1>0, <2>1, <2>7 DEF EndsPastEnd
      <4>2. stage # 1 /\ stage # 2
        BY <4>1 DEF Order, ReadsClose
      <4>3. QED
        BY <4>1, <4>2
    <3>3. Passed(2)
      BY <3>2 DEF Passed
    <3>4. ~declined' /\ "stopLoss" \in installed => "stopLoss" \in signals'
      BY <1>4, <2>1, <2>2, <3>1, <3>3 DEF SignalInv
    <3>5. applied'
      BY <2>1, <3>1 DEF SignalInv
    <3>6. QED
      BY <2>1, <3>1, <3>4, <3>5 DEF SignalInv
  <2>8. QED
    BY <1>4, <2>4, <2>5, <2>6, <2>7 DEF StopStep
<1>5. QED
  BY <1>1, <1>2, <1>3, <1>4, NextIs, OtherSteps

-----------------------------------------------------------------------------
(* The theorems *)

IInv ==
  TypeInv /\ PassInv /\ FillsHonest /\ LossInv /\ FlagInv /\ ProfitInv /\ SignalInv

LEMMA IInvInit == Init => IInv
<1> SUFFICES ASSUME Init PROVE IInv
  OBVIOUS
<1>1. Size \in Nat \ {0} /\ StartTrades \in 0 .. Size /\ "long" \in Sides
      /\ FALSE \in BOOLEAN /\ InstalledSets \subseteq SUBSET Stops
  BY AutoStopsAssumption DEF Sides
<1>2. /\ NoPosition \in Positions /\ NoPosition.state = "none"
      /\ NoPosition.entryBar = 0
  BY <1>1 DEF NoPosition, Positions
<1> HIDE DEF NoPosition
<1>3. /\ pos = NoPosition /\ began = NoPosition /\ stage = 0 /\ ~applied /\ ~profit
      /\ bar = 0 /\ signals = {} /\ thrown = "" /\ installed \in InstalledSets
      /\ handlers \in BOOLEAN /\ prices \in Bars(Prices)
  BY DEF Init
<1>4. applied \in BOOLEAN /\ declined \in BOOLEAN /\ profit \in BOOLEAN
  BY <1>1 DEF Init
<1>5. 0 \in 0 .. 15 /\ 0 \in 0 .. Size /\ 0 # Size /\ ~(0 > 0) /\ ~(0 > 2)
  BY <1>1
<1>6. TypeInv
  BY <1>1, <1>2, <1>3, <1>4, <1>5 DEF TypeInv, Exceptions
<1>7. ~IsOpen /\ ~ClosedNow /\ pos.state = "none"
  BY <1>2, <1>3 DEF IsOpen, ClosedNow
<1>8. PassInv
  BY <1>3, <1>5, <1>7 DEF PassInv
<1>9. FillsHonest /\ LossInv /\ FlagInv
  BY <1>3, <1>5, <1>7 DEF FillsHonest, LossInv, FlagInv, StopBeatsTarget, NoLookahead
<1>10. ProfitInv /\ SignalInv
  BY <1>3, <1>5, <1>7 DEF ProfitInv, SignalInv
<1>11. QED
  BY <1>6, <1>8, <1>9, <1>10 DEF IInv

LEMMA IInvStep == IInv /\ [Next]_vars => IInv'
<1>1. ASSUME IInv, Next PROVE IInv'
  BY <1>1, TypeInvStep, PassInvStep, FillsHonestStep, LossInvStep, FlagInvStep,
     ProfitInvStep, SignalInvStep DEF IInv
<1>2. ASSUME IInv, UNCHANGED vars PROVE IInv'
  <2>1. /\ installed' = installed /\ handlers' = handlers /\ bar' = bar
        /\ prices' = prices /\ stage' = stage /\ applied' = applied /\ pos' = pos
        /\ signals' = signals /\ thrown' = thrown /\ began' = began
        /\ declined' = declined /\ profit' = profit
    BY <1>2 DEF vars, setup, history
  <2>2. TypeInv' /\ PassInv' /\ FillsHonest'
    BY <1>2, <2>1
       DEF IInv, TypeInv, PassInv, FillsHonest, IsOpen, ClosedNow, AsGood, IsLong,
           Better, Worse
  <2>3. LossNotReached' = LossNotReached /\ EntryNotReached' = EntryNotReached
        /\ Better(BreakEvenLevel)' = Better(BreakEvenLevel) /\ IsLong' = IsLong
    BY <2>1, SameLevels
  <2>4. LossInv' /\ FlagInv'
    BY <1>2, <2>1, <2>3
       DEF IInv, LossInv, FlagInv, StopBeatsTarget, NoLookahead, IsOpen, ClosedNow,
           LossNotReached
  <2>5. ProfitInv'
    BY <1>2, <2>1, <2>3 DEF IInv, ProfitInv, IsOpen, AsGood, Passed
  <2>6. SignalInv'
    BY <1>2, <2>1 DEF IInv, SignalInv, IsOpen, Passed
  <2>7. QED
    BY <2>2, <2>4, <2>5, <2>6 DEF IInv
<1>3. QED
  BY <1>1, <1>2

\* In every run of a system over a symbol the state is of its types, a pass is only
\* under way over an open position, and a position lies within the bars (this is the
\* invariant that the theorems below rest on).
THEOREM StopsInvariance == Spec => []IInv
BY IInvInit, IInvStep, PTL DEF Spec

\* A trade is never booked at a price the bar did not have; a profit target is never
\* filled below its price, nor a stop loss above, whatever the prices, the levels, the
\* slippages and the stops that are installed.
THEOREM FillsAreHonest == Spec => []FillsHonest
<1>1. IInv => FillsHonest
  BY DEF IInv
<1>2. QED
  BY <1>1, StopsInvariance, PTL

\* When one bar reaches both the stop loss and the target, the worse is booked.
THEOREM WorseOutcomeIsBooked == Spec => []StopBeatsTarget
<1>1. IInv => StopBeatsTarget
  BY DEF IInv, LossInv
<1>2. QED
  BY <1>1, StopsInvariance, PTL

\* A stop that the close of a bar activates is not filled on that bar.
THEOREM NoStopLooksAhead == Spec => []NoLookahead
<1>1. IInv => NoLookahead
  BY DEF IInv, FlagInv
<1>2. QED
  BY <1>1, StopsInvariance, PTL

\* What is placed on the bar after the last one is signalled.
THEOREM PlacedOrdersAreSignalled == Spec => []OrdersSignalled
<1>1. IInv => OrdersSignalled
  <2> SUFFICES ASSUME IInv, stage = 0, bar = Size, handlers, IsOpen, ~declined,
                      thrown = ""
               PROVE  /\ "stopLoss" \in installed => "stopLoss" \in signals
                      /\ "target" \in installed /\ installed \cap ReadsClose = {}
                           => "target" \in signals
    BY DEF OrdersSignalled
  <2>1. Passed(2) /\ Passed(14)
    BY DEF IInv, SignalInv, Passed
  <2>2. QED
    BY <2>1 DEF IInv, SignalInv
<1>2. QED
  BY <1>1, StopsInvariance, PTL

\* What a stop has secured is not given away again: after a close at the trigger the
\* break even stop closes the position at the entry price, and the trailing stop of a
\* long position never moves down.
THEOREM LevelsAreKept == Spec => LevelsProtect
<1>1. IInv => BreakEvenProtects
  <2>1. ASSUME IInv, NEW side, Survived, profit, "breakEven" \in installed,
               bar >= StartTrades, bar > pos.entryBar, ~declined
        PROVE  EntryNotReached
    <3>1. Passed(6) /\ bar < Size /\ IsOpen /\ thrown = ""
      BY <2>1 DEF Survived, Passed
    <3>2. QED
      BY <2>1, <3>1 DEF IInv, ProfitInv
  <2>2. QED
    BY <2>1 DEF BreakEvenProtects, Protects, EntryNotReached
<1>2. IInv /\ [Next]_vars => [TrailingRatchets]_vars
  <2> SUFFICES ASSUME IInv, Next, IsOpen, pos'.state = "open", IsLong
               PROVE  pos'.trail >= pos.trail
    BY DEF TrailingRatchets
  <2>0. TypeInv /\ PassInv /\ pos.trail \in Nat /\ pos.state = "open"
    BY DEF IInv, TypeInv, Positions, IsOpen
  <2>1. CASE pos' = pos
    BY <2>0, <2>1
  <2>2. CASE StopStep
    <3>1. CASE StaysOpen
      <4>1. PICK trail \in Nat, flag \in BOOLEAN :
              /\ pos' = [pos EXCEPT !.trail = trail, !.breakEven = flag]
              /\ IsLong => trail >= pos.trail
        BY <3>1 DEF StaysOpen
      <4>2. pos'.trail = trail
        BY <4>1 DEF IInv, TypeInv, Positions
      <4>3. QED
        BY <4>1, <4>2
    <3>2. CASE Closes
      BY <2>0, <2>2, <3>2, StepPosition DEF Closes, Closed, TypeInv, Positions
    <3>3. QED
      BY <2>1, <2>2, <3>1, <3>2 DEF StopStep, Throws, EndsPastEnd
  <2>3. CASE OtherActions
    <3>1. pos' = pos
      BY <2>0, <2>3, OtherSteps DEF Opens, NextBar, ApplyAutoStops, ApplyPastEnd
    <3>2. QED
      BY <2>1, <3>1
  <2>4. QED
    BY <2>0, <2>2, <2>3, NextIs
<1>3. QED
  BY <1>1, <1>2, StopsInvariance, PTL DEF Spec, LevelsProtect
=============================================================================
