-------------------------------- MODULE Equity --------------------------------
(***************************************************************************)
(* The equity curve of a session (include/stats.h), which also applies the *)
(* position sizing: when the session ends, the entries and the exits of    *)
(* all positions are put, day by day, in multisets (DateToProcessPositions *)
(* and ProcessPositions), and EquityCurve::calculate walks the days of the *)
(* session, sizes or disables the positions entered on each, and adds up   *)
(* the cash and the value of what is held.  The drawdown curve and the     *)
(* statistics are computed from the result.                                *)
(*                                                                         *)
(* Amounts are whole numbers.  Limit and stop orders are compared in the   *)
(* same way and are one kind here.  All symbols share one series of bars.  *)
(***************************************************************************)
EXTENDS Integers, Sequences, FiniteSets, FiniteSetsExt, SequencesExt, TLC

CONSTANTS Ids,          \* the ids of the positions: numbers from 1
          Prices,       \* the prices at which positions are closed
          SameMoment,   \* may one bar open and close a position with orders of one kind
          NoShares,     \* may the sizing leave a position without shares
          CountRange    \* the range of the unsigned number of open positions

ASSUME IdsAssumption == Ids \subseteq Nat \ {0} /\ IsFiniteSet(Ids)

\* The bars: two on the first day, none on the third.
BarDay == <<1, 1, 2, 4>>
Bars == DOMAIN BarDay
Days == 1 .. 4
Close == <<3, 5, 4, 2>>
Volume == <<40, 4, 40, 40>>
Capital == 20
Commission == 1

Rank(kind) == CASE kind = "market" -> 0 [] kind = "stop" -> 1 [] kind = "close" -> 2

\* Positions: entry and exit bar (0: still open), the kinds of their orders,
\* their prices, the shares the trading system asked for, whether they are
\* sized (positions of explicit trades are not).
Entries == {[bar |-> 1, kind |-> "market"], [bar |-> 1, kind |-> "stop"],
            [bar |-> 2, kind |-> "market"]}
Exits == {[bar |-> 0, kind |-> "close"], [bar |-> 1, kind |-> "stop"],
          [bar |-> 2, kind |-> "market"], [bar |-> 2, kind |-> "stop"],
          [bar |-> 3, kind |-> "close"]}

InOrder(in, out) ==
    \/ out.bar = 0
    \/ out.bar > in.bar
    \/ out.bar = in.bar /\ \/ Rank(out.kind) > Rank(in.kind)
                           \/ SameMoment /\ out.kind = in.kind

Positions == {p \in [in : Entries, out : Exits, long : BOOLEAN, entryPrice : {4},
                     closePrice : Prices, shares : {2}, sized : BOOLEAN] :
                 /\ InOrder(p.in, p.out)
                 /\ p.out.bar = 0 => p.closePrice = Max(Prices)}

IsClosed(p) == p.out.bar # 0

\* The ways to size positions: the largest number of open positions (0: no
\* limit), the kind of size and its amount, the kind of limit and its amount.
Sizings == {[maxOpenPos |-> 1, type |-> "system_defined", amount |-> 0, limitType |-> "none", limit |-> 0],
            [maxOpenPos |-> 0, type |-> "shares", amount |-> 3, limitType |-> "pctVolume", limit |-> 50],
            [maxOpenPos |-> 1, type |-> "size", amount |-> 9, limitType |-> "limit", limit |-> 10],
            [maxOpenPos |-> 0, type |-> "pctEquity", amount |-> 80, limitType |-> "limit", limit |-> 12],
            [maxOpenPos |-> 0, type |-> "pctCash", amount |-> 70, limitType |-> "none", limit |-> 0]}
           \cup IF NoShares
                THEN {[maxOpenPos |-> 1, type |-> "shares", amount |-> 3, limitType |-> "pctVolume", limit |-> 1]}
                ELSE {}

VARIABLES pos,       \* the positions by id
          ids,       \* the ids in the order of the container
          sizing,    \* the session's position sizing
          doSizing,  \* no sizing for the buy and hold curve
          shares,    \* the shares of each position; 0: disabled
          events,    \* per day, the multiset of entries and exits in its order
          inserted,  \* how many positions of the container are in events
          eq,        \* per day, cash and total of all, long and short positions
          day, next, \* the day under way, the next element of its multiset
          openPosCount,
          held       \* the positions entered and not yet exited, for the properties
vars == <<pos, ids, sizing, doSizing, shares, events, inserted, eq, day, next,
          openPosCount, held>>
input == <<pos, ids, sizing, doSizing>>

-----------------------------------------------------------------------------
\* What a position costs, brings in and gains (LongPosition, ShortPosition).
EntryCostOf(p, n) == p.entryPrice * n + (IF p.long THEN Commission ELSE -Commission)
CloseIncome(p, n) == p.closePrice * n + (IF p.long THEN -Commission ELSE Commission)
Gain(p, n) == IF p.long THEN CloseIncome(p, n) - EntryCostOf(p, n)
                        ELSE EntryCostOf(p, n) - CloseIncome(p, n)
GainAt(p, n, price) == IF p.long THEN price * n - EntryCostOf(p, n)
                                 ELSE EntryCostOf(p, n) - price * n
GainBetween(p, n, from, to) == IF p.long THEN (to - from) * n ELSE (from - to) * n
\* The part of the close income that the price of the last bar did not hold.
CloseIncomeOver(p, n, price) == IF p.long THEN CloseIncome(p, n) - n * price
                                          ELSE n * price - CloseIncome(p, n)

\* The order of the multiset: by time, by kind of order, then an entry is
\* before its own exit, and an exit before what belongs to larger ids.
Leg(e) == IF e.entry THEN pos[e.id].in ELSE pos[e.id].out
Lower(e, f) == IF e.entry THEN e.id = f.id ELSE e.id < f.id
\* MUTANT: the kind of the order is not compared.
LessByTime(e, f) ==
    IF Leg(e).bar # Leg(f).bar THEN Leg(e).bar < Leg(f).bar ELSE Lower(e, f)
Less(e, f) ==
    IF Leg(e).bar # Leg(f).bar THEN Leg(e).bar < Leg(f).bar
    ELSE IF Rank(Leg(e).kind) # Rank(Leg(f).kind)
         THEN Leg(e).kind = "market" \/ Leg(f).kind = "close"
         ELSE Lower(e, f)

\* std::multiset::insert walks down its tree: to the left of the elements the
\* new one is less than, to the right of the others.  Less is not always a
\* strict weak order, so where the walk ends depends on the shape of the tree:
\* any place whose two neighbours agree.
Insertions(s, e) ==
    {InsertAt(s, g + 1, e) :
        g \in {g \in 0 .. Len(s) : /\ g = 0 \/ ~Less(e, s[g])
                                   /\ g = Len(s) \/ Less(e, s[g + 1])}}

-----------------------------------------------------------------------------
Curves == {"all", "long", "short"}
SideOf(p) == {"all", IF p.long THEN "long" ELSE "short"}
Equity(amount) == [c \in Curves |-> [cash |-> amount, total |-> amount]]
Plus(q, r) == [c \in Curves |-> [cash |-> q[c].cash + r[c].cash,
                                 total |-> q[c].total + r[c].total]]
Amount(p, cash, total) ==
    [c \in Curves |-> IF c \in SideOf(p) THEN [cash |-> cash, total |-> total]
                                         ELSE [cash |-> 0, total |-> 0]]

Init ==
    /\ pos \in [Ids -> Positions]
    /\ ids \in SetToSeqs(Ids)
    /\ sizing \in Sizings
    /\ doSizing \in BOOLEAN
    /\ doSizing \/ sizing.type = "system_defined"
    /\ shares = [i \in Ids |-> pos[i].shares]
    /\ events = [d \in Days |-> << >>]
    /\ inserted = 0
    /\ eq = [d \in Days |-> Equity(0)]
    /\ day = 0 /\ next = 1
    /\ openPosCount = 0
    /\ held = {}

\* One position of the container enters the multisets of its days.
InsertPosition ==
    /\ day = 0 /\ inserted < Len(ids)
    /\ LET id == ids[inserted + 1]
           p == pos[id]
       IN \E s \in Insertions(events[BarDay[p.in.bar]], [entry |-> TRUE, id |-> id]) :
             LET withEntry == [events EXCEPT ![BarDay[p.in.bar]] = s]
             IN IF IsClosed(p)
                THEN \E t \in Insertions(withEntry[BarDay[p.out.bar]], [entry |-> FALSE, id |-> id]) :
                        events' = [withEntry EXCEPT ![BarDay[p.out.bar]] = t]
                ELSE events' = withEntry
    /\ inserted' = inserted + 1
    /\ UNCHANGED <<input, shares, eq, day, next, openPosCount, held>>

-----------------------------------------------------------------------------
\* A day begins with the equity of the day before.
StartDay ==
    /\ inserted = Len(ids)
    /\ day < Max(Days)
    /\ day # 0 => next > Len(events[day])
    /\ day' = day + 1 /\ next' = 1
    /\ eq' = [eq EXCEPT ![day + 1] = Plus(@, IF day = 0 THEN Equity(Capital) ELSE eq[day])]
    /\ UNCHANGED <<input, shares, events, inserted, openPosCount, held>>

Event == events[day][next]
HasEvent == day # 0 /\ next <= Len(events[day])
Enabled(id) == shares[id] # 0

Skips == ~Enabled(Event.id)

SkipDisabled ==
    /\ HasEvent /\ Skips
    /\ next' = next + 1
    /\ UNCHANGED <<input, shares, events, inserted, eq, day, openPosCount, held>>

Rounded(a, b) == (2 * a + b) \div (2 * b)

\* The size the parameters ask for, and the limits on it.
SizeWanted(p, n) ==
    CASE sizing.type = "system_defined" -> n
      [] sizing.type = "shares" -> sizing.amount
      [] sizing.type = "size" -> Rounded(sizing.amount, p.entryPrice)
      [] sizing.type = "pctEquity" -> Rounded(eq[day]["all"].total * sizing.amount, 100 * p.entryPrice)
      [] sizing.type = "pctCash" -> Rounded(eq[day]["all"].cash * sizing.amount, 100 * p.entryPrice)
BarBefore(bar) == IF bar = 1 THEN 1 ELSE bar - 1
SizeLimited(p, n) ==
    CASE sizing.limitType = "none" -> n
      [] sizing.limitType = "pctVolume" -> Min({n, (sizing.limit * Volume[BarBefore(p.in.bar)]) \div 100})
      [] sizing.limitType = "limit" -> IF p.entryPrice * n > sizing.limit
                                       THEN sizing.limit \div p.entryPrice ELSE n

TooMany == sizing.maxOpenPos # 0 /\ openPosCount >= sizing.maxOpenPos

\* posSizing: the shares the position gets, unless it is refused, which is not the
\* same as taken without shares.
PosSizing(p, n) == SizeLimited(p, SizeWanted(p, n))
Refused(p, n) == TooMany \/ EntryCostOf(p, PosSizing(p, n)) > eq[day]["all"].cash

IsSized(p) == doSizing /\ p.sized

DisableEntry ==
    /\ HasEvent /\ ~Skips /\ Event.entry
    /\ LET p == pos[Event.id]
       IN IsSized(p) /\ Refused(p, shares[Event.id])
    /\ shares' = [shares EXCEPT ![Event.id] = 0]
    /\ next' = next + 1
    /\ UNCHANGED <<input, events, inserted, eq, day, openPosCount, held>>

\* The last bar whose close counts while the position is held: the one before
\* the bar of the exit, if it is not the bar of the entry.
LastBarIndex(p) == p.out.bar - (IF p.out.bar > p.in.bar THEN 1 ELSE 0)

\* What the bars of day d add to the total of a position.
BarGain(p, n, bar) == IF bar = p.in.bar THEN GainAt(p, n, Close[bar])
                                        ELSE GainBetween(p, n, Close[bar - 1], Close[bar])
\* MUTANT: the bar of the exit counts as well.
DayGainThroughExit(p, n, d) ==
    LET end == IF IsClosed(p) THEN p.out.bar ELSE Len(BarDay)
    IN MapThenSumSet(LAMBDA b : BarGain(p, n, b), {b \in p.in.bar .. end : BarDay[b] = d})
DayGain(p, n, d) ==
    LET end == IF IsClosed(p) THEN LastBarIndex(p) ELSE Len(BarDay)
    IN MapThenSumSet(LAMBDA b : BarGain(p, n, b), {b \in p.in.bar .. end : BarDay[b] = d})

EntryPosition(id, n) ==
    LET p == pos[id]
    IN [d \in Days |-> Plus(eq[d], Amount(p, IF d = BarDay[p.in.bar] THEN -EntryCostOf(p, n) ELSE 0,
                                             DayGain(p, n, d)))]

TakeEntry ==
    /\ HasEvent /\ ~Skips /\ Event.entry
    /\ LET p == pos[Event.id]
           n == IF IsSized(p) THEN PosSizing(p, shares[Event.id]) ELSE shares[Event.id]
       IN /\ IsSized(p) => ~Refused(p, shares[Event.id])
          /\ shares' = [shares EXCEPT ![Event.id] = n]
          /\ eq' = EntryPosition(Event.id, n)
    /\ openPosCount' = (openPosCount + 1) % CountRange
    /\ held' = held \cup {Event.id}
    /\ next' = next + 1
    /\ UNCHANGED <<input, events, inserted, day>>

\* The cash an exit brings in; the total gets what the last close did not hold.
ExitCash(p, n) == IF p.long THEN CloseIncome(p, n) ELSE EntryCostOf(p, n) + Gain(p, n)

TakeExit ==
    /\ HasEvent /\ ~Skips /\ ~Event.entry
    /\ LET p == pos[Event.id]
           n == shares[Event.id]
       IN eq' = [eq EXCEPT ![BarDay[p.out.bar]] =
                   Plus(@, Amount(p, ExitCash(p, n), CloseIncomeOver(p, n, Close[LastBarIndex(p)])))]
    /\ openPosCount' = (openPosCount - 1) % CountRange
    /\ held' = held \ {Event.id}
    /\ next' = next + 1
    /\ UNCHANGED <<input, shares, events, inserted, day>>

Finished == day = Max(Days) /\ next > Len(events[day])
Next == InsertPosition \/ StartDay \/ SkipDisabled \/ DisableEntry \/ TakeEntry \/ TakeExit
Spec == Init /\ [][Next]_vars

-----------------------------------------------------------------------------
\* The statistics: over the enabled positions, closed ones by their income,
\* open ones by the last close.
EnabledIds == {i \in Ids : Enabled(i)}
StatsGain(i) == IF IsClosed(pos[i]) THEN Gain(pos[i], shares[i])
                ELSE GainAt(pos[i], shares[i], Close[Len(BarDay)])
TotalGain(set) == MapThenSumSet(StatsGain, set)

\* The drawdown curve: how far the equity is below its last high.
NewHigh(v, high) == IF v >= high THEN v ELSE high
Drawdown(values) ==
    FoldLeft(LAMBDA acc, v : LET high == NewHigh(v, acc.high)
                             IN [high |-> high, max |-> Min({acc.max, v - acc.high})],
             [high |-> 0, max |-> 0], values)
EndOfDays == [d \in Days |-> eq[d]["all"].total]

-----------------------------------------------------------------------------
DayEnds == day # 0 /\ next > Len(events[day])
LastBar(d) == Max({b \in Bars : BarDay[b] <= d})
HeldValue(i, d) ==
    LET p == pos[i]
        n == shares[i]
    IN IF p.long THEN n * Close[LastBar(d)]
       ELSE EntryCostOf(p, n) + GainAt(p, n, Close[LastBar(d)])

(***************************************************************************)
(* At the end of every day the total equity is the cash and what the       *)
(* positions held are worth at the last close: the changes that            *)
(* onEntryPosition and onExitPosition spread over the days add up.  In the *)
(* end the curve and the statistics, which are computed apart from each    *)
(* other, agree, for all, the long and the short positions; a position     *)
(* that the sizing disabled leaves no trace.                               *)
(***************************************************************************)
MoneyAddsUp ==
    /\ DayEnds => eq[day]["all"].total =
                     eq[day]["all"].cash + MapThenSumSet(LAMBDA i : HeldValue(i, day), held)
    /\ Finished =>
         /\ eq[day]["all"].total = Capital + TotalGain(EnabledIds)
         /\ eq[day]["long"].total = Capital + TotalGain({i \in EnabledIds : pos[i].long})
         /\ eq[day]["short"].total = Capital + TotalGain({i \in EnabledIds : ~pos[i].long})

(***************************************************************************)
(* _openPosCount, "used to count the currently open positions"             *)
(* (stats.h:1248), is the number of positions that are held.               *)
(***************************************************************************)
OpenPosCountIsHeld == openPosCount = Cardinality({i \in held : Enabled(i)})

(***************************************************************************)
(* The maximal drawdown is the deepest fall of the equity from any earlier *)
(* day to a later one (DrawdownCurve), if the curve does not begin below   *)
(* zero: the first high is compared with -FLT_MIN, which is almost zero.   *)
(***************************************************************************)
DrawdownIsDeepestFall ==
    Finished /\ EndOfDays[1] >= 0 => Drawdown(EndOfDays).max =
                   Min({EndOfDays[d] - EndOfDays[c] : <<c, d>> \in {x \in Days \X Days : x[1] <= x[2]}})

\* Both curves of the session are right: the money on every day, and its deepest fall.
CurvesAreRight == MoneyAddsUp /\ DrawdownIsDeepestFall
=============================================================================
