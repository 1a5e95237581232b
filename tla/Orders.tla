------------------------------- MODULE Orders -------------------------------
(***************************************************************************)
(* The order methods of PositionsManagerImpl (src/core/Positions.cpp): at  *)
(* which price an order is filled on a bar.                                *)
(*                                                                         *)
(* Prices are numbers of some unit, a bar is a record of its four prices.  *)
(* An order maps the bar, the slippage s and its own price to the set of   *)
(* its fills: one price, or none when the order is not filled.             *)
(***************************************************************************)
EXTENDS Integers

Bars(P) ==
  {b \in [open : P, high : P, low : P, close : P] :
     /\ b.low <= b.open /\ b.open <= b.high
     /\ b.low <= b.close /\ b.close <= b.high}

Min2(x, y) == IF x <= y THEN x ELSE y
Max2(x, y) == IF x >= y THEN x ELSE y

\* validateStopPrice, validateLimitPrice
ValidPrice(p) == p > 0

-----------------------------------------------------------------------------
(* Entries and exits that buy *)

BuyAtMarket(b, s) == {Min2(b.open + s, b.high)}

BuyAtClose(b, s) == {Min2(b.close + s, b.high)}

BuyAtStop(b, p, s) ==
  LET stop == p + s IN
  IF b.open >= stop THEN {b.open} ELSE {x \in {stop} : x <= b.high}

\* With slippage the order must be reached by more than its price, but it is
\* filled at its price.
BuyAtLimit(b, p, s) ==
  IF p - s < b.low THEN {}
  ELSE IF b.open <= p THEN {b.open} ELSE {x \in {p} : x >= b.low}

CoverAtMarket(b, s)   == {Min2(b.open + s, b.high)}
CoverAtClose(b, s)    == {Min2(b.close + s, b.high)}
CoverAtStop(b, p, s)  == BuyAtStop(b, p, s)

CoverAtLimit(b, p, s) ==
  IF p - s < b.low THEN {}
  ELSE IF b.open <= p THEN {b.open} ELSE {x \in {p} : x >= b.low}

-----------------------------------------------------------------------------
(* Entries and exits that sell *)

\* MUTANT: the price is not kept within the bar.
SellAtMarketUnclamped(b, s) == {b.open - s}

SellAtMarket(b, s) == {Max2(b.open - s, b.low)}

SellAtClose(b, s) == {Max2(b.close - s, b.low)}

SellAtStop(b, p, s) ==
  LET stop == p - s IN
  IF b.open <= stop THEN {b.open} ELSE {x \in {stop} : x >= b.low}

SellAtLimit(b, p, s) ==
  IF p + s > b.high THEN {}
  ELSE IF b.open >= p THEN {b.open} ELSE {x \in {p} : x <= b.high}

ShortAtMarket(b, s)   == {Max2(b.open - s, b.low)}
ShortAtClose(b, s)    == {Max2(b.close - s, b.low)}
ShortAtStop(b, p, s)  == SellAtStop(b, p, s)
ShortAtLimit(b, p, s) ==
  IF p + s > b.high THEN {}
  ELSE IF b.open >= p THEN {b.open} ELSE {x \in {p} : x <= b.high}
=============================================================================
