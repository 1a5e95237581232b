---------------------------- MODULE SystemOrders ----------------------------
(***************************************************************************)
(* The way of an order, from the call in a system to what comes of it:     *)
(* BarSystem (include/system.h) passes it to the positions manager         *)
(* (core/Positions.cpp), which asks the order filter of the user, fills it *)
(* as Orders says or, on the bar after the last one, makes a signal of it  *)
(* for the signal handlers.  At the end of the session the equity curve    *)
(* gives the positions their size, and the file of signals                 *)
(* (fileplugins/fileplugins.h) is written.                                 *)
(*                                                                         *)
(* A system is of one of two kinds: it leaves the bars to BarSystem, which *)
(* takes those of the symbol that it runs on, or gives them with every     *)
(* call, for any symbol.  Slippage and the prices of bars only say here    *)
(* whether an order may fill.                                              *)
(***************************************************************************)
EXTENDS Integers, Sequences, FiniteSets, SequencesExt

CONSTANTS BarSymbols,  \* symbols
          OwnSymbol,   \* the one that the system runs on
          Prices,      \* prices of orders; 0 is not valid
          BarPrices,   \* prices of bars
          Slips,       \* slippages
          OrderSizes,  \* shares of an order
          FilteredTo,  \* shares that the user's filter may give
          SizedTo,     \* shares that position sizing may give
          MaxCalls,    \* bound: calls that the system makes
          MaxEntries   \* bound: what they enter and signal

ASSUME OrdersAssumption ==
  /\ OwnSymbol \in BarSymbols
  /\ 0 \in Prices /\ Prices \cup BarPrices \cup Slips \subseteq Nat
  /\ OrderSizes \subseteq Nat \ {0} /\ FilteredTo \cup SizedTo \subseteq Nat

Order == INSTANCE Orders

VARIABLES setup,    \* what the run was configured with
          stage,    \* trading, sized, saved, counted
          book,     \* positions, signals, what the handlers heard, thrown
          calls,    \* calls made
          sweep,    \* what the last call is to close, and what of it is left
          written,  \* signals written to the raw file and to the file
          processed \* signals counted for the statistics

orderVars == <<setup, stage, book, calls, sweep, written, processed>>

Kinds == {"market", "close", "stop", "limit"}
SideOf(verb) == IF verb \in {"buy", "sell"} THEN "long" ELSE "short"
Priced(kind) == kind \in {"stop", "limit"}
PricesOf(kind) == IF Priced(kind) THEN Prices ELSE {0}
NoSweep == [sides |-> {}, kind |-> "market", price |-> 0, symbol |-> OwnSymbol,
            at |-> "bar", left |-> {}, before |-> 0]
File == 1      \* the handlers: FileSignalsHandler and XSignalHandler
Counter == 2
Heard == {File, Counter}
EmptyBook == [positions |-> <<>>, signals |-> <<>>, thrown |-> FALSE,
              heard |-> [h \in Heard |-> <<>>]]

\* The positions that are bought and held for comparison (fileplugins/StatsHandler.h)
\* have a manager without a filter and without handlers.
OrdersInit ==
  /\ setup \in [given : BOOLEAN, filter : {"none", "default", "user"},
                handled : BOOLEAN]
  /\ ~setup.handled => ~setup.given /\ setup.filter = "none"
  /\ stage = "trading"
  /\ book = EmptyBook
  /\ calls = 0 /\ sweep = NoSweep
  /\ written = [raw |-> 0, final |-> 0] /\ processed = 0

-----------------------------------------------------------------------------
(* BarSystem: what it makes of a call *)

\* Without bars all of it is passed on.
WithOwnBars(o) == o

\* With bars the wish about position sizing is not, and a position is not sold at
\* a limit, unless it is named by its id.
WithGivenBars(o, byId) ==
  IF o.verb \in {"buy", "short"} THEN [o EXCEPT !.sizing = TRUE]
  ELSE IF o.verb = "sell" /\ o.kind = "limit" /\ ~byId
       THEN [o EXCEPT !.kind = "stop"]
  ELSE o

Passed(o, byId) ==
  IF setup.given THEN WithGivenBars(o, byId) ELSE WithOwnBars(o)

\* The symbols whose bars a call may be about.
Reach == IF setup.given THEN BarSymbols ELSE {OwnSymbol}

-----------------------------------------------------------------------------
(* The order filter *)

\* The shares that it lets through, 0 for none.
FilteredShares(o) ==
  CASE setup.filter = "none"    -> {o.shares}
    [] setup.filter = "default" ->
         {IF o.verb = "short" /\ o.kind = "limit" THEN 1 ELSE o.shares}
    [] setup.filter = "user"    -> FilteredTo

MayDecline == setup.filter = "user"

-----------------------------------------------------------------------------
(* The positions manager *)

Fill(verb, kind, b, p, s) ==
  [buy   |-> [market |-> Order!BuyAtMarket(b, s), close |-> Order!BuyAtClose(b, s),
              stop |-> Order!BuyAtStop(b, p, s), limit |-> Order!BuyAtLimit(b, p, s)],
   short |-> [market |-> Order!ShortAtMarket(b, s), close |-> Order!ShortAtClose(b, s),
              stop |-> Order!ShortAtStop(b, p, s), limit |-> Order!ShortAtLimit(b, p, s)],
   sell  |-> [market |-> Order!SellAtMarket(b, s), close |-> Order!SellAtClose(b, s),
              stop |-> Order!SellAtStop(b, p, s), limit |-> Order!SellAtLimit(b, p, s)],
   cover |-> [market |-> Order!CoverAtMarket(b, s), close |-> Order!CoverAtClose(b, s),
              stop |-> Order!CoverAtStop(b, p, s), limit |-> Order!CoverAtLimit(b, p, s)]]
  [verb][kind]

\* The orders that some bar and slippage fill, and those that some do not.
PricedOrders == {"buy", "short", "sell", "cover"} \X Kinds \X Prices
MayFill == {x \in PricedOrders :
  \E b \in Order!Bars(BarPrices), s \in Slips : Fill(x[1], x[2], b, x[3], s) # {}}
MayMiss == {x \in PricedOrders :
  \E b \in Order!Bars(BarPrices), s \in Slips : Fill(x[1], x[2], b, x[3], s) = {}}

\* The bar of an order: one of the series, one of it that is outside the range of
\* trades or has no volume, the one after the last, or one further on.
Places == {"bar", "outside", "next", "beyond"}
CanFill(o, at) == at = "bar" /\ <<o.verb, o.kind, o.price>> \in MayFill
CanMiss(o, at) == at = "outside" \/ (at = "bar" /\ <<o.verb, o.kind, o.price>> \in MayMiss)

BadPrice(o) == Priced(o.kind) /\ ~Order!ValidPrice(o.price)

Thrown(b) == [b EXCEPT !.thrown = TRUE]

\* MUTANT: the last handler is passed over.
SignalledToFirst(b, signal) ==
  [b EXCEPT !.signals = Append(@, signal),
            !.heard[File] = Append(@, Len(b.signals) + 1)]

\* One signal, which all handlers share.
Signalled(b, signal) ==
  [b EXCEPT !.signals = Append(@, signal),
            !.heard = [h \in Heard |-> Append(@[h], Len(b.signals) + 1)]]

SignalOf(o, shares, asked) ==
  [verb |-> o.verb, kind |-> o.kind, price |-> o.price, shares |-> shares,
   sizing |-> o.sizing, of |-> o.of, symbol |-> o.symbol, asked |-> asked]

Booked(b, o, shares, asked) ==
  [b EXCEPT !.positions =
     Append(@, [side |-> SideOf(o.verb), kind |-> o.kind, shares |-> shares,
                symbol |-> o.symbol, sizing |-> o.sizing, asked |-> asked,
                exit |-> "open", askedExit |-> "open"])]

Closed(b, o, asked) ==
  [b EXCEPT !.positions[o.of].exit = o.kind, !.positions[o.of].askedExit = asked.kind]

\* The order is filled or it is not.
Tried(b, filled, o, at) ==
  (IF CanFill(o, at) THEN {filled} ELSE {}) \cup (IF CanMiss(o, at) THEN {b} ELSE {})

\* Past the end reading the volume throws, which is how an order for the next bar
\* is told.
Enter(b, o, asked, at) ==
  IF BadPrice(o) THEN {Thrown(b)}
  ELSE UNION {
    IF n = 0 /\ setup.filter # "none" THEN {b}
    ELSE CASE at \in {"bar", "outside"} ->
                Tried(b, Booked(b, o, n, asked), o, at)
           [] at = "next" /\ setup.handled -> {Signalled(b, SignalOf(o, n, asked))}
           [] OTHER -> {Thrown(b)} : n \in FilteredShares(o)}

\* By id: there is no such position.
UnknownId(o) == o.of = 0

\* An exit.  What is closed already, or of the other side, is found out only when
\* the order is filled.
Leave(b, o, asked, at) ==
  IF UnknownId(o) \/ BadPrice(o) THEN {Thrown(b)}
  ELSE
    LET p == b.positions[o.of]
    IN IF p.symbol # o.symbol THEN {Thrown(b)}
       ELSE (IF MayDecline THEN {b} ELSE {}) \cup
            CASE at \in {"bar", "outside"} ->
                   Tried(b, IF p.exit # "open" \/ p.side # SideOf(o.verb) THEN Thrown(b)
                            ELSE Closed(b, o, asked), o, at)
              [] at = "next" /\ setup.handled -> {Signalled(b, SignalOf(o, p.shares, asked))}
              [] OTHER -> {Thrown(b)}

\* closeAll...: the open positions of some sides, one after the other
ClosingVerb(side) == IF side = "long" THEN "sell" ELSE "cover"
ClosingOrder(n) ==
  [verb |-> ClosingVerb(book.positions[n].side), kind |-> sweep.kind, price |-> sweep.price,
   symbol |-> sweep.symbol, of |-> n, sizing |-> FALSE]
Swept(sides) ==
  {n \in DOMAIN book.positions :
     LET p == book.positions[n]
     IN  p.exit = "open" /\ p.shares > 0 /\ p.side \in sides}

Sides(kind) == IF Priced(kind) THEN {{"long"}, {"short"}}
               ELSE {{"long"}, {"short"}, {"long", "short"}}

-----------------------------------------------------------------------------
(* What a system does on a symbol.  An exception ends it. *)

Call ==
  /\ stage = "trading" /\ sweep.left = {} /\ ~book.thrown /\ calls < MaxCalls
  /\ calls' = calls + 1
  /\ UNCHANGED <<setup, stage, written, processed>>

PlaceEntry ==
  /\ Call /\ sweep' = NoSweep
  /\ Len(book.positions) + Len(book.signals) < MaxEntries
  /\ \E verb \in {"buy", "short"}, kind \in Kinds, symbol \in Reach, shares \in OrderSizes,
        sizing \in BOOLEAN, at \in Places :
       \E price \in PricesOf(kind) :
         LET o == [verb |-> verb, kind |-> kind, price |-> price, symbol |-> symbol,
                   shares |-> shares, sizing |-> sizing, of |-> 0]
         IN book' \in Enter(book, Passed(o, FALSE), o, at)

\* The id of a position may be unknown.
PlaceExit ==
  /\ Call /\ sweep' = NoSweep
  /\ \E verb \in {"sell", "cover"}, kind \in Kinds, symbol \in Reach, byId \in BOOLEAN,
        of \in 0 .. Len(book.positions), at \in Places :
       /\ of = 0 => byId
       /\ \E price \in PricesOf(kind) :
            LET o == [verb |-> verb, kind |-> kind, price |-> price, symbol |-> symbol,
                      of |-> of, sizing |-> FALSE]
            IN book' \in Leave(book, Passed(o, byId), o, at)

\* The loops that are to close all of them run over none, or over some.
CloseAll ==
  /\ Call
  /\ \E kind \in Kinds, symbol \in Reach, at \in Places :
       \E price \in PricesOf(kind), sides \in Sides(kind) :
         sweep' = IF Swept(sides) = {} THEN NoSweep
                  ELSE [sides |-> sides, kind |-> kind, price |-> price, symbol |-> symbol,
                        at |-> at, left |-> Swept(sides), before |-> Len(book.signals)]
  /\ UNCHANGED book

\* The next position of the loop.  An exception ends it.
CloseNext(n) ==
  /\ \A m \in sweep.left : n <= m
  /\ book' \in Leave(book, ClosingOrder(n), ClosingOrder(n), sweep.at)
  /\ sweep' = [sweep EXCEPT !.left = IF book'.thrown THEN {} ELSE @ \ {n}]
  /\ UNCHANGED <<setup, stage, calls, written, processed>>

-----------------------------------------------------------------------------
(* The end of the session *)

\* What position sizing makes of a number of shares.
SizesOf(x) == IF x.sizing THEN SizedTo ELSE {x.shares}

EveryOne(f, Set(_)) == {g \in [DOMAIN f -> UNION {Set(f[i]) : i \in DOMAIN f}] :
                          \A i \in DOMAIN f : g[i] \in Set(f[i])}

IsEntry(signal) == signal.of = 0

\* sessionEnded: the positions are sized by the equity curve.  A session that does not
\* make a curve ends before its signals are sized (Statistics).
CalcEqCurve ==
  /\ stage = "trading" /\ sweep.left = {} /\ setup.handled
  /\ stage' = "sized"
  /\ \E shares \in EveryOne(book.positions, SizesOf) :
       book' = [book EXCEPT
         !.positions = [n \in DOMAIN @ |-> [shares |-> shares[n]]],
         !.signals = [i \in DOMAIN @ |->
           [of |-> @[i].of, sizing |-> @[i].sizing, shares |-> @[i].shares]]]
  /\ sweep' = NoSweep
  /\ UNCHANGED <<setup, calls, written, processed>>

EnabledOf(signals, indices) ==
  Cardinality({k \in DOMAIN indices : signals[indices[k]].shares > 0})

\* signalSizing: a signal to enter like a position, one to exit as its position is
SignalShares(signal) ==
  IF IsEntry(signal) THEN SizesOf(signal)
  ELSE {book.positions[signal.of].shares}

SessionEnd ==
  /\ stage = "sized"
  /\ stage' = "saved"
  /\ \E shares \in EveryOne(book.signals, SignalShares) :
       LET sized == [i \in DOMAIN book.signals |->
                       [book.signals[i] EXCEPT !.shares = shares[i]]]
       IN /\ book' = [book EXCEPT !.signals = sized]
          /\ written' = [raw |-> EnabledOf(book.signals, book.heard[File]),
                       final |-> EnabledOf(sized, book.heard[File])]
  /\ UNCHANGED <<setup, calls, sweep, processed>>

\* RunSystem::run
ProcessedSignals ==
  /\ stage = "saved"
  /\ stage' = "counted"
  /\ processed' = EnabledOf(book.signals, book.heard[Counter])
  /\ UNCHANGED <<setup, book, calls, sweep, written>>

OrdersNext ==
  \/ PlaceEntry \/ PlaceExit \/ CloseAll \/ \E n \in sweep.left : CloseNext(n)
  \/ CalcEqCurve \/ SessionEnd \/ ProcessedSignals

OrdersSpec == OrdersInit /\ [][OrdersNext]_orderVars

-----------------------------------------------------------------------------
\* What an order asked for is what was done: but for the calls that give the bars,
\* which size whatever is opened and sell at a stop what was to be sold at a
\* limit, and the default filter, which makes one share of a short at a limit.
Kept(x, asked) ==
  /\ SideOf(x.verb) = SideOf(asked.verb) /\ IsEntry(x) = IsEntry(asked)
  /\ x.symbol = asked.symbol /\ x.price = asked.price
  /\ x.kind = asked.kind \/ (setup.given /\ asked.verb = "sell" /\ asked.kind = "limit"
                              /\ x.kind = "stop")
  /\ IsEntry(x) =>
       /\ x.sizing = asked.sizing \/ (setup.given /\ x.sizing)
       /\ setup.filter = "none" => x.shares = asked.shares
       /\ setup.filter = "default" =>
            \/ x.shares = asked.shares
            \/ asked.verb = "short" /\ asked.kind = "limit" /\ x.shares = 1
       /\ setup.filter = "user" => x.shares \in FilteredTo \ {0}

EntryOf(p) == [verb |-> IF p.side = "long" THEN "buy" ELSE "short", kind |-> p.kind,
               price |-> p.asked.price, shares |-> p.shares, sizing |-> p.sizing,
               symbol |-> p.symbol, of |-> 0]

\* Whatever way an order takes - with bars or without, by position or by id,
\* through a filter, filled, or left to the next bar as a signal - it stays the
\* order that the system placed.
OrdersKeepTheirMeaning == stage = "trading" =>
  /\ \A n \in DOMAIN book.positions :
       LET p == book.positions[n] IN
       /\ Kept(EntryOf(p), p.asked)
       /\ p.exit = p.askedExit \/ (setup.given /\ p.askedExit = "limit" /\ p.exit = "stop"
                                    /\ p.side = "long")
  /\ \A i \in DOMAIN book.signals : Kept(book.signals[i], book.signals[i].asked)

\* A call that closes all positions, of a side or of both, and that no filter and
\* no exception stops, leaves none of them open; on the bar after the last one it
\* leaves one signal for each of them.
IsOne(S) == \E x \in S : S = {x}
SignalsOf(n) ==
  {i \in DOMAIN book.signals : i > sweep.before /\ book.signals[i].of = n}
SweepIsComplete ==
  (stage = "trading" /\ sweep.left = {} /\ ~book.thrown /\ ~MayDecline
    /\ ~Priced(sweep.kind) /\ sweep.at \in {"bar", "next"})
  => \A n \in Swept(sweep.sides) : sweep.at = "next" /\ IsOne(SignalsOf(n))

\* Orders keep their meaning; all handlers have the same signals, in the order in
\* which they were made; what is written and what is counted at the end agrees, and
\* an exit is for the shares that its position was sized to, or is not there.
SignalsAreOrders ==
  /\ OrdersKeepTheirMeaning
  /\ \A h \in Heard : book.heard[h] = [i \in DOMAIN book.signals |-> i]
  /\ SweepIsComplete
  /\ stage \in {"saved", "counted"} =>
       \A i \in DOMAIN book.signals : ~IsEntry(book.signals[i]) =>
         book.signals[i].shares = book.positions[book.signals[i].of].shares
  /\ stage = "counted" => processed = written.final /\ written.final <= written.raw
=============================================================================
