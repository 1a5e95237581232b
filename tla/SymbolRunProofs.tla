---------------------------- MODULE SymbolRunProofs ----------------------------
(***************************************************************************)
(* What a system finds when it runs on a symbol, for all files, ranges and *)
(* calls: the explicit trades that are booked before it runs, the bars     *)
(* that are read for it, the series that its handles are of, and what      *)
(* comes of the orders that it places.                                     *)
(***************************************************************************)
EXTENDS MCSymbolRun, FunctionTheorems, FiniteSetTheorems,
        SequenceTheorems, WellFoundedInduction, TLAPS

-----------------------------------------------------------------------------
(* Numbers *)

\* A set of naturals that is not empty has a least element.
LEMMA LeastExists ==
  ASSUME NEW S \in SUBSET Nat, S # {}
  PROVE  \E x \in S : \A y \in S : x <= y
<1>1. PICK x \in S : \A y \in S : <<y, x>> \notin OpToRel(<, Nat)
  BY NatLessThanWellFounded, WFMin, Zenon
<1>2. \A y \in S : ~(y < x)
  <2> SUFFICES ASSUME NEW y \in S PROVE ~(y < x)
    OBVIOUS
  <2>1. x \in Nat /\ y \in Nat
    OBVIOUS
  <2>2. QED
    BY <1>1, <2>1, Zenon DEF OpToRel
<1>3. QED
  BY <1>2

\* A set of numbers from 1 to n that is not empty has a greatest element.
LEMMA GreatestExists ==
  ASSUME NEW n \in Nat, NEW S \in SUBSET (1 .. n), S # {}
  PROVE  \E x \in S : \A y \in S : y <= x
<1> DEFINE T == {n - y : y \in S}
<1>1. T \in SUBSET Nat /\ T # {}
  <2>1. \A y \in S : n - y \in Nat
    OBVIOUS
  <2>2. QED
    BY <2>1, Zenon
<1>2. PICK t \in T : \A u \in T : t <= u
  BY <1>1, LeastExists
<1>3. PICK x \in S : t = n - x
  OBVIOUS
<1>4. \A y \in S : n - x <= n - y
  BY <1>2, <1>3
<1>5. QED
  BY <1>4

-----------------------------------------------------------------------------
(* Explicit trades *)

Bookings == [side : {"long", "short"}, shares : Nat, entryBar : 1 .. NBars,
             exitBar : 0 .. NBars]

ExplicitTypes ==
  /\ trades \in Seq(Trades)
  /\ bar \in 0 .. NBars
  /\ todo \subseteq At(bar)
  /\ pos \in Seq(Bookings)

NothingBeforeTheBars ==
  /\ phase = "file" => bar = 0
  /\ bar = 0 => todo = {} /\ pos = <<>>

NoneOfLaterBars == \A p \in DOMAIN pos : pos[p].entryBar <= bar /\ pos[p].exitBar <= bar

\* While an exit of this bar is to be processed, no entry of it was.
EntriesAreLast == With(Exits) # {} => \A p \in DOMAIN pos : pos[p].entryBar < bar

\* What ExitAllLeavesNone says, from the time that the line was processed.
ExitAllDone == InTradeRange =>
  \A k \in At(bar) \ todo :
    trades[k].action = "EXIT_ALL" /\ trades[k].type = "MARKET" =>
      \A p \in DOMAIN pos :
        pos[p].entryBar < bar /\ pos[p].shares > 0 => pos[p].exitBar # 0

ExplicitInv ==
  /\ ExplicitTypes
  /\ NothingBeforeTheBars
  /\ NoneOfLaterBars
  /\ EntriesAreLast
  /\ ExitsComeFirst
  /\ OldestFirst
  /\ ExitAllDone

\* A line that is read has an action, and is of an exit or of an entry.
LEMMA TradeFields ==
  ASSUME ExplicitTypes, NEW k \in DOMAIN trades
  PROVE  /\ trades[k].action \in Exits \cup Entries
         /\ trades[k].shares \in Nat
         /\ trades[k].at \in 0 .. NBars
<1>1. trades[k] \in Trades
  BY DEF ExplicitTypes
<1>2. /\ trades[k].action \in Actions
      /\ trades[k].shares \in Shares \cup {0}
      /\ trades[k].at \in TradeTimes
  BY <1>1 DEF Trades
<1>3. trades[k].at \in 0 .. NBars
  BY <1>2, ExplicitTradesAssumption, Zenon
<1>4. trades[k].action \in Exits \cup Entries
  BY <1>2, ExplicitTradesAssumption, Zenon
<1>5. Shares \cup {0} \subseteq Nat
  BY ExplicitTradesAssumption
<1>6. QED
  BY <1>2, <1>3, <1>4, <1>5

\* It is an exit's turn as long as there is one.
LEMMA TurnOfExit ==
  ASSUME ExplicitTypes, With(Exits) # {}
  PROVE  Turn \in todo /\ trades[Turn].action \in Exits
<1>1. With(Exits) \in SUBSET Nat
  BY DEF With, ExplicitTypes, At
<1>2. Min(With(Exits)) \in With(Exits)
  BY <1>1, LeastExists DEF Min
<1>3. QED
  BY <1>2 DEF Turn, With

\* All that was opened before the state is closed or not as it was.
LEMMA ExplicitAborts ==
  ASSUME ExplicitInv, NEW k, InvalidPriceThrown(k)
  PROVE  ExplicitInv'
<1>1. UNCHANGED <<start, trades, bar, todo, pos>> /\ phase = "booking" /\ phase' = "aborted"
  BY DEF InvalidPriceThrown, Processes
<1>2. bar # 0
  BY DEF InvalidPriceThrown, Processes, ExplicitInv, NothingBeforeTheBars
<1>3. QED
  BY <1>1, <1>2 DEF ExplicitInv, ExplicitTypes, NothingBeforeTheBars, NoneOfLaterBars,
     EntriesAreLast, ExitsComeFirst, OldestFirst, ExitAllDone, With, At, InTradeRange

\* Reading the file books nothing.
LEMMA ExplicitReads ==
  ASSUME ExplicitInv, ReadLine, trades' \in Seq(Trades)
  PROVE  ExplicitInv'
<1>1. phase = "file" /\ UNCHANGED <<start, bar, todo, pos>>
  BY DEF ReadLine
<1>2. bar = 0 /\ todo = {} /\ pos = <<>>
  BY <1>1 DEF ExplicitInv, NothingBeforeTheBars
<1>3. QED
  BY <1>1, <1>2 DEF ExplicitInv, ExplicitTypes, NothingBeforeTheBars, NoneOfLaterBars,
     EntriesAreLast, ExitsComeFirst, OldestFirst, ExitAllDone, With, At, InTradeRange

\* On a new bar there is no position of it yet.
LEMMA ExplicitNextBar ==
  ASSUME ExplicitInv, NextBar
  PROVE  ExplicitInv'
<1>1. /\ UNCHANGED <<start, phase, trades, pos>>
      /\ bar' = bar + 1 /\ bar < NBars /\ todo' = At(bar + 1) /\ phase = "booking"
  BY DEF NextBar
<1>2. bar \in Nat /\ NBars \in Nat
  BY ExplicitTradesAssumption DEF ExplicitInv, ExplicitTypes
<1>4. ExplicitTypes'
  <2>1. bar' \in 0 .. NBars
    BY <1>1, <1>2
  <2>2. todo' \subseteq {j \in DOMAIN trades' : trades'[j].at = bar'}
    BY <1>1 DEF At
  <2>3. QED
    BY <1>1, <2>1, <2>2 DEF ExplicitInv, ExplicitTypes, At
<1>5. \A p \in DOMAIN pos : pos[p] \in Bookings /\ pos[p].entryBar <= bar /\ pos[p].exitBar <= bar
  BY DEF ExplicitInv, ExplicitTypes, NoneOfLaterBars
<1>6. NoneOfLaterBars' /\ EntriesAreLast'
  BY <1>1, <1>2, <1>5 DEF NoneOfLaterBars, EntriesAreLast, Bookings
<1>7. NothingBeforeTheBars'
  BY <1>1, <1>2 DEF NothingBeforeTheBars
<1>8. ExitsComeFirst' /\ OldestFirst'
  BY <1>1 DEF ExplicitInv, ExitsComeFirst, OldestFirst
<1>9. ExitAllDone'
  BY <1>1 DEF ExitAllDone, At
<1>10. QED
  BY <1>4, <1>6, <1>7, <1>8, <1>9 DEF ExplicitInv

\* An entry is of this bar, and no exit is left to be processed.
LEMMA ExplicitEntry ==
  ASSUME ExplicitInv, NEW k \in todo, ProcessEntry(k)
  PROVE  ExplicitInv'
<1> DEFINE t == trades[k]
<1>1. /\ UNCHANGED <<start, phase, trades, bar>> /\ todo' = todo \ {k}
      /\ t.action \in Entries /\ k = Turn /\ phase = "booking"
  BY DEF ProcessEntry, Processes
<1>2. ExplicitTypes
  BY DEF ExplicitInv
<1>3. With(Exits) = {}
  BY <1>1, <1>2, TurnOfExit DEF Exits, Entries
<1>4. With(Exits)' = {}
  BY <1>1, <1>3 DEF With
<1>5. k \in DOMAIN trades /\ t.shares \in Nat
  BY <1>2, TradeFields DEF ExplicitTypes, At
<1>6. bar \in 1 .. NBars
  BY <1>2, ExplicitTradesAssumption DEF ExplicitInv, ExplicitTypes, NothingBeforeTheBars
<1>7. PICK b \in Bookings :
        b.entryBar = bar /\ b.exitBar = 0 /\ pos' \in {pos, Append(pos, b)}
  <2> DEFINE way == IF t.action = "BUY" THEN "long" ELSE "short"
             c == [side |-> way, shares |-> t.shares, entryBar |-> bar, exitBar |-> 0]
  <2>1. c \in Bookings
    <3>1. way \in {"long", "short"} /\ t.shares \in Nat
      BY <1>5
    <3>2. 0 \in 0 .. NBars
      BY <1>6, ExplicitTradesAssumption
    <3> HIDE DEF way, t
    <3>3. QED
      BY <1>6, <3>1, <3>2 DEF Bookings
  <2>2. c.entryBar = bar /\ c.exitBar = 0
    OBVIOUS
  <2>3. pos' \in {pos, Append(pos, c)}
    BY DEF ProcessEntry
  <2>4. QED
    BY <2>1, <2>2, <2>3
<1>8. pos \in Seq(Bookings)
  BY <1>2 DEF ExplicitTypes
<1>9. CASE pos' = pos
  <2>1. ExplicitTypes'
    BY <1>1, <1>2, <1>9 DEF ExplicitTypes, At
  <2>2. ExitAllDone'
    <3>1. t.action # "EXIT_ALL"
      BY <1>1 DEF Entries
    <3>2. QED
      BY <1>1, <1>9, <3>1 DEF ExplicitInv, ExitAllDone, At, InTradeRange
  <2>3. QED
    BY <1>1, <1>4, <1>6, <1>9, <2>1, <2>2 DEF ExplicitInv, NothingBeforeTheBars,
       NoneOfLaterBars, EntriesAreLast, ExitsComeFirst, OldestFirst
<1>10. CASE pos' = Append(pos, b)
  <2>1. /\ DOMAIN pos' = 1 .. Len(pos) + 1 /\ pos'[Len(pos) + 1] = b
        /\ DOMAIN pos = 1 .. Len(pos) /\ Len(pos) \in Nat
        /\ \A p \in DOMAIN pos : pos'[p] = pos[p] /\ pos[p] \in Bookings
    BY <1>8, <1>10
  <2>2. pos' \in Seq(Bookings)
    BY <1>8, <1>10
  <2>3. ExplicitTypes'
    BY <1>1, <1>2, <2>2 DEF ExplicitTypes, At
  <2>4. \A p \in DOMAIN pos' : p \in DOMAIN pos \/ p = Len(pos) + 1
    BY <2>1
  <2>5. NoneOfLaterBars'
    BY <1>1, <1>6, <1>7, <2>1, <2>4 DEF ExplicitInv, NoneOfLaterBars
  <2>6. NothingBeforeTheBars' /\ EntriesAreLast'
    BY <1>1, <1>4, <1>6 DEF NothingBeforeTheBars, EntriesAreLast
  <2>7. ExitsComeFirst'
    BY <1>7, <2>1, <2>4 DEF ExplicitInv, ExitsComeFirst
  <2>8. OldestFirst'
    <3> SUFFICES ASSUME NEW p \in DOMAIN pos', NEW q \in DOMAIN pos',
                        p < q, pos'[p].side = pos'[q].side,
                        pos'[p].shares = pos'[q].shares, pos'[q].exitBar # 0
                 PROVE  pos'[p].exitBar # 0 /\ pos'[p].exitBar <= pos'[q].exitBar
      BY DEF OldestFirst
    <3>1. q \in DOMAIN pos
      BY <1>7, <2>1, <2>4
    <3>2. p \in DOMAIN pos
      BY <2>1, <3>1
    <3>3. QED
      BY <2>1, <3>1, <3>2 DEF ExplicitInv, OldestFirst
  <2>9. ExitAllDone'
    <3> SUFFICES ASSUME InTradeRange', NEW j \in (At(bar) \ todo)',
                        trades[j].action = "EXIT_ALL", trades[j].type = "MARKET",
                        NEW p \in DOMAIN pos', pos'[p].entryBar < bar,
                        pos'[p].shares > 0
                 PROVE  pos'[p].exitBar # 0
      BY <1>1 DEF ExitAllDone
    <3>1. j \in At(bar) \ todo /\ InTradeRange
      BY <1>1 DEF Entries, At, InTradeRange
    <3>2. p \in DOMAIN pos
      BY <1>6, <1>7, <2>1, <2>4
    <3>3. QED
      BY <2>1, <3>1, <3>2 DEF ExplicitInv, ExitAllDone
  <2>10. QED
    BY <2>3, <2>5, <2>6, <2>7, <2>8, <2>9 DEF ExplicitInv
<1>11. QED
  BY <1>7, <1>9, <1>10

\* An exit that is handled leaves no older position of the same kind open: it takes
\* the first one, or all.
LEMMA HandledAreOldest ==
  ASSUME ExplicitTypes, NEW t \in Trades, NEW p \in DOMAIN pos, NEW q \in Handled(t),
         p < q, pos[p].side = pos[q].side, pos[p].shares = pos[q].shares,
         pos[p].exitBar = 0
  PROVE  p \in Handled(t)
<1>1. Chosen(t) \in SUBSET Nat
  BY DEF Chosen, ExplicitTypes
<1>2. Chosen(t) # {} => Min(Chosen(t)) \in Chosen(t)
                          /\ \A y \in Chosen(t) : Min(Chosen(t)) <= y
  BY <1>1, LeastExists DEF Min
<1>3. q \in Chosen(t)
  BY <1>2 DEF Handled
<1>4. p \in Chosen(t)
  BY <1>3 DEF Chosen
<1>5. p \in Nat /\ q \in Nat /\ Min(Chosen(t)) \in Nat
  BY <1>1, <1>2, <1>3, <1>4
<1>6. QED
  BY <1>2, <1>3, <1>4, <1>5 DEF Handled

\* An exit closes on this bar what was opened before it.
LEMMA ExplicitExit ==
  ASSUME ExplicitInv, NEW k \in todo, ProcessExit(k)
  PROVE  ExplicitInv'
<1> DEFINE t == trades[k]
<1>1. /\ UNCHANGED <<start, phase, trades, bar>> /\ todo' = todo \ {k}
      /\ t.action \in Exits /\ phase = "booking"
  BY DEF ProcessExit, Processes
<1>2. ExplicitTypes
  BY DEF ExplicitInv
<1>3. k \in DOMAIN trades /\ t \in Trades
  BY <1>2 DEF ExplicitTypes, At
<1>4. bar \in 1 .. NBars
  BY <1>2, ExplicitTradesAssumption DEF ExplicitInv, ExplicitTypes, NothingBeforeTheBars
<1>5. \A p \in DOMAIN pos : pos[p].entryBar < bar
  BY <1>1 DEF ExplicitInv, EntriesAreLast, With
<1>6. PICK filled \in Outcomes(t) :
        pos' = [p \in DOMAIN pos |->
                  IF filled /\ p \in Handled(t) THEN [pos[p] EXCEPT !.exitBar = bar]
                  ELSE pos[p]]
  BY DEF ProcessExit
<1>7. pos \in Seq(Bookings) /\ DOMAIN pos = 1 .. Len(pos) /\ Len(pos) \in Nat
  BY <1>2 DEF ExplicitTypes
<1>8. Handled(t) \subseteq {p \in DOMAIN pos : pos[p].exitBar = 0}
  <2>1. Chosen(t) \subseteq {p \in DOMAIN pos : pos[p].exitBar = 0}
    BY DEF Chosen
  <2>2. Chosen(t) # {} => Min(Chosen(t)) \in Chosen(t)
    BY <1>7, <2>1, LeastExists DEF Min
  <2>3. QED
    BY <2>1, <2>2 DEF Handled
<1>9. /\ DOMAIN pos' = DOMAIN pos
      /\ \A p \in DOMAIN pos : /\ pos[p] \in Bookings /\ pos'[p] \in Bookings
                               /\ pos'[p].side = pos[p].side
                               /\ pos'[p].shares = pos[p].shares
                               /\ pos'[p].entryBar = pos[p].entryBar
                               /\ pos'[p].exitBar =
                                    IF filled /\ p \in Handled(t) THEN bar
                                    ELSE pos[p].exitBar
  <2>1. \A p \in DOMAIN pos : pos[p] \in Bookings
    BY <1>7
  <2>2. QED
    BY <1>4, <1>6, <2>1 DEF Bookings
<1>10. pos' \in Seq(Bookings)
  <2>1. Len(pos) \in Nat /\ DOMAIN pos' = 1 .. Len(pos)
    BY <1>7, <1>9
  <2>2. pos' \in [1 .. Len(pos) -> Bookings]
    BY <1>6, <1>7, <1>9
  <2>3. QED
    BY <2>1, <2>2
<1>11. ExplicitTypes'
  BY <1>1, <1>2, <1>10 DEF ExplicitTypes, At
<1>12. NoneOfLaterBars'
  BY <1>1, <1>4, <1>9 DEF ExplicitInv, NoneOfLaterBars, Bookings
<1>13. EntriesAreLast' /\ NothingBeforeTheBars'
  <2>1. \A p \in DOMAIN pos' : pos'[p].entryBar < bar'
    BY <1>1, <1>5, <1>9
  <2>2. bar' # 0 /\ phase' # "file"
    BY <1>1, <1>4
  <2>3. QED
    BY <2>1, <2>2 DEF EntriesAreLast, NothingBeforeTheBars
<1>14. ExitsComeFirst'
  BY <1>5, <1>9 DEF ExplicitInv, ExitsComeFirst
<1>15. OldestFirst'
  <2> SUFFICES ASSUME NEW p \in DOMAIN pos, NEW q \in DOMAIN pos,
                      p < q, pos'[p].side = pos'[q].side,
                      pos'[p].shares = pos'[q].shares, pos'[q].exitBar # 0
               PROVE  pos'[p].exitBar # 0 /\ pos'[p].exitBar <= pos'[q].exitBar
    BY <1>9 DEF OldestFirst
  <2>1. pos[p].side = pos[q].side /\ pos[p].shares = pos[q].shares
    BY <1>9
  <2>2. pos[p].exitBar \in 0 .. bar /\ pos[q].exitBar \in 0 .. bar
    BY <1>9 DEF ExplicitInv, NoneOfLaterBars, Bookings
  <2>3. CASE filled /\ q \in Handled(t)
    <3>1. pos[p].exitBar = 0 => p \in Handled(t)
      BY <1>2, <1>3, <2>1, <2>3, HandledAreOldest
    <3>2. QED
      BY <1>4, <1>9, <2>2, <2>3, <3>1
  <2>4. CASE ~(filled /\ q \in Handled(t))
    <3>1. pos[q].exitBar # 0
      BY <1>9, <2>4
    <3>2. pos[p].exitBar # 0 /\ pos[p].exitBar <= pos[q].exitBar
      BY <2>1, <3>1 DEF ExplicitInv, OldestFirst
    <3>3. p \notin Handled(t)
      BY <1>8, <3>2
    <3>4. QED
      BY <1>9, <2>4, <3>2, <3>3
  <2>5. QED
    BY <2>3, <2>4
<1>16. ExitAllDone'
  <2> SUFFICES ASSUME InTradeRange', NEW j \in (At(bar) \ todo)',
                      trades[j].action = "EXIT_ALL", trades[j].type = "MARKET",
                      NEW p \in DOMAIN pos, pos'[p].entryBar < bar,
                      pos'[p].shares > 0
               PROVE  pos'[p].exitBar # 0
    BY <1>1, <1>9 DEF ExitAllDone
  <2>1. InTradeRange
    BY <1>1 DEF InTradeRange
  <2>2. CASE j # k
    <3>1. j \in At(bar) \ todo
      BY <1>1, <2>2 DEF At
    <3>2. pos[p].exitBar # 0
      BY <1>9, <2>1, <3>1 DEF ExplicitInv, ExitAllDone
    <3>3. QED
      BY <1>4, <1>9, <3>2
  <2>3. CASE j = k
    <3>1. filled
      BY <2>1, <2>3, <1>6 DEF Outcomes
    <3>2. pos[p].exitBar = 0 => p \in Handled(t)
      BY <1>9, <2>3 DEF Handled, Chosen, SidesOf, Bookings
    <3>3. QED
      BY <1>4, <1>9, <3>1, <3>2
  <2>4. QED
    BY <2>2, <2>3
<1>17. QED
  BY <1>11, <1>12, <1>13, <1>14, <1>15, <1>16 DEF ExplicitInv

\* Every step keeps what holds of the explicit trades.
LEMMA ExplicitStep ==
  ASSUME ExplicitInv, [ExplicitNext]_explicitVars
  PROVE  ExplicitInv'
<1>1. CASE \E line \in {"hash", "blank", "csv", "json"} : IgnoreLine(line)
  <2>1. ReadLine /\ trades' = trades
    BY <1>1 DEF IgnoreLine
  <2>2. QED
    BY <2>1, ExplicitReads DEF ExplicitInv, ExplicitTypes
<1>2. CASE \E t \in Trades : ReadTrade(t)
  <2>1. PICK t \in Trades : ReadTrade(t)
    BY <1>2
  <2>2. trades \in Seq(Trades)
    BY DEF ExplicitInv, ExplicitTypes
  <2>3. Append(trades, t) \in Seq(Trades)
    BY <2>2
  <2>4. trades' \in Seq(Trades)
    BY <2>1, <2>2, <2>3 DEF ReadTrade
  <2>5. QED
    BY <2>1, <2>4, ExplicitReads DEF ReadTrade
<1>3. CASE \E line \in {"wrong", "slashes"} : ReadWrong(line)
  <2>1. ReadLine /\ trades' = trades
    BY <1>3 DEF ReadWrong
  <2>2. QED
    BY <2>1, ExplicitReads DEF ExplicitInv, ExplicitTypes
<1>4. CASE EndOfFile \/ RunSystem \/ UNCHANGED explicitVars
  <2>1. /\ UNCHANGED <<start, trades, bar, todo, pos>>
        /\ phase' \in {"booking", "system", phase}
    BY <1>4 DEF EndOfFile, RunSystem, explicitVars
  <2>2. QED
    BY <2>1 DEF ExplicitInv, ExplicitTypes, NothingBeforeTheBars, NoneOfLaterBars,
       EntriesAreLast, ExitsComeFirst, OldestFirst, ExitAllDone, With, At, InTradeRange
<1>5. CASE NextBar
  BY <1>5, ExplicitNextBar
<1>6. CASE \E k \in todo : ProcessExit(k) \/ ProcessEntry(k) \/ InvalidPriceThrown(k)
  BY <1>6, ExplicitExit, ExplicitEntry, ExplicitAborts
<1>7. QED
  BY <1>1, <1>2, <1>3, <1>4, <1>5, <1>6 DEF ExplicitNext

\* All of it holds of a run on a symbol.
LEMMA ExplicitInvariant == Spec => []ExplicitInv
<1>1. Init => ExplicitInv
  <2> SUFFICES ASSUME Init PROVE ExplicitInv
    OBVIOUS
  <2>1. trades = <<>> /\ bar = 0 /\ todo = {} /\ pos = <<>>
    BY DEF Init, Idle, ExplicitInit
  <2>2. QED
    BY <2>1, ExplicitTradesAssumption DEF ExplicitInv, ExplicitTypes,
       NothingBeforeTheBars, NoneOfLaterBars, EntriesAreLast, ExitsComeFirst,
       OldestFirst, ExitAllDone, With
<1>2. ExplicitInv /\ [Next]_vars => ExplicitInv'
  <2> SUFFICES ASSUME ExplicitInv, [Next]_vars PROVE ExplicitInv'
    OBVIOUS
  <2>1. [ExplicitNext]_explicitVars
    BY DEF Next, FileStep, vars
  <2>2. QED
    BY <2>1, ExplicitStep
<1>3. QED
  BY <1>1, <1>2, PTL DEF Spec

\* Explicit trades (toPositions, processExit, processEntry): with any number of
\* lines in any order, no position is closed on the bar it was opened on, of two
\* alike the earlier one is closed first, and EXIT_ALL at market leaves none of the
\* earlier bars.
THEOREM ExplicitTradesClose == Spec => []ClosesAsWritten
<1>1. ExplicitInv => ClosesAsWritten
  <2> SUFFICES ASSUME ExplicitInv PROVE ClosesAsWritten
    OBVIOUS
  <2>1. ExitAllLeavesNone
    BY DEF ExplicitInv, ExitAllDone, ExitAllLeavesNone
  <2>2. QED
    BY <2>1 DEF ClosesAsWritten, ExplicitInv
<1>2. QED
  BY <1>1, ExplicitInvariant, PTL

-----------------------------------------------------------------------------
(* Handles of series *)

IsSeries(x) == x = [cells |-> x.cells, sync |-> x.sync]

\* The addresses that are handles' are those of series, and a handle that was not
\* changed behind its back reads as it is meant to.
HandlesInv ==
  /\ store \in Seq(Range(store))
  /\ \A n \in DOMAIN store : IsSeries(store[n])
  /\ handle \in [Handles -> DOMAIN store]
  /\ meant = [h \in Handles |-> meant[h]]
  /\ HandlesReadAsMeant

\* A function of the numbers up to n is a sequence of its values.
LEMMA ListedInSeq ==
  ASSUME NEW n \in Nat, NEW f, f = [i \in 1 .. n |-> f[i]]
  PROVE  f \in Seq(Range(f)) /\ DOMAIN f = 1 .. n /\ Len(f) = n
<1>1. \A i \in 1 .. n : f[i] \in Range(f)
  BY DEF Range
<1>2. f \in [1 .. n -> Range(f)]
  BY <1>1
<1>3. f \in Seq(Range(f))
  BY <1>2, SeqDef, Zenon
<1>4. QED
  BY <1>2, <1>3

\* A handle has the address of a series.
LEMMA HandlesHaveSeries ==
  ASSUME HandlesInv, NEW h \in Handles
  PROVE  /\ handle[h] \in DOMAIN store
         /\ IsSeries(Of(h))
         /\ h \notin disturbed => meant[h] = Of(h)
BY DEF HandlesInv, HandlesReadAsMeant, Of

\* What is made of a series has cells, and a synchronizer or none.
LEMMA OperationsMakeSeries ==
  ASSUME NEW op, NEW x, NEW y, NEW c, NEW s, IsSeries(x)
  PROVE  /\ IsSeries(NoSync(c))
         /\ [x EXCEPT !.cells = c] = [cells |-> c, sync |-> x.sync]
         /\ IsSeries([x EXCEPT !.cells = c])
         /\ IsSeries([x EXCEPT !.sync = s])
         /\ IsSeries(OperateOn(op, x, y))
<1>1. IsSeries(NoSync(c)) /\ \A d : IsSeries(NoSync(d))
  BY DEF IsSeries, NoSync
<1>2. \A d : [x EXCEPT !.cells = d] = [cells |-> d, sync |-> x.sync]
  BY DEF IsSeries
<1>3. \A d : IsSeries([x EXCEPT !.cells = d])
  BY <1>2 DEF IsSeries
<1>4. [x EXCEPT !.sync = s] = [cells |-> x.cells, sync |-> s]
  BY DEF IsSeries
<1>5. IsSeries([x EXCEPT !.sync = s])
  BY <1>4 DEF IsSeries
<1>6. IsSeries(OperateOn(op, x, y))
  BY <1>1, <1>3, Zenon DEF OperateOn
<1>7. QED
  BY <1>1, <1>2, <1>3, <1>5, <1>6

\* The end of a longer store is a new address.
LEMMA StoreGrows ==
  ASSUME HandlesInv, NEW x, IsSeries(x), store' = Append(store, x)
  PROVE  /\ store' \in Seq(Range(store'))
         /\ DOMAIN store' = DOMAIN store \cup {Len(store) + 1}
         /\ Len(store) + 1 \notin DOMAIN store
         /\ store'[Len(store) + 1] = x
         /\ \A n \in DOMAIN store : store'[n] = store[n]
         /\ \A n \in DOMAIN store' : IsSeries(store'[n])
<1> DEFINE S == Range(store) \cup {x}
<1>1. store \in Seq(S)
  <2>1. Range(store) \subseteq S /\ store \in Seq(Range(store))
    BY DEF HandlesInv
  <2>2. QED
    BY <2>1
<1> HIDE DEF S
<1>2. /\ DOMAIN store = 1 .. Len(store) /\ Len(store) \in Nat
      /\ DOMAIN store' = 1 .. Len(store) + 1 /\ Len(store') = Len(store) + 1
      /\ store'[Len(store) + 1] = x
      /\ \A n \in 1 .. Len(store) : store'[n] = store[n]
  BY <1>1, x \in S DEF S
<1>3. store' \in Seq(Range(store'))
  <2>1. store' = [n \in 1 .. Len(store) + 1 |-> store'[n]]
    <3>1. store' \in Seq(S)
      BY <1>1, x \in S DEF S
    <3>2. store' \in [1 .. Len(store') -> S]
      BY <3>1, LenProperties
    <3>3. QED
      BY <1>2, <3>2
  <2>2. Len(store) + 1 \in Nat
    BY <1>2
  <2>3. PICK s : s = store'
    OBVIOUS
  <2>4. s = [n \in 1 .. Len(store) + 1 |-> s[n]]
    BY <2>1, <2>3, Zenon
  <2>5. s \in Seq(Range(s))
    BY <2>2, <2>4, ListedInSeq, Zenon
  <2>6. QED
    BY <2>3, <2>5, Zenon
<1>4. QED
  BY <1>2, <1>3 DEF HandlesInv

\* A handle of a new series reads as it is meant to, if that is so of those that the
\* series was made of.
LEMMA HoldKeeps ==
  ASSUME HandlesInv, NEW h \in Handles, NEW x, NEW m, NEW from, IsSeries(x),
         from \cap disturbed = {} => m = x, Hold(h, x, m, from)
  PROVE  HandlesInv'
<1>1. /\ store' = Append(store, x)
      /\ handle' = [handle EXCEPT ![h] = Len(store) + 1]
      /\ meant' = [meant EXCEPT ![h] = IF from \cap disturbed = {} THEN m ELSE x]
      /\ disturbed' = IF from \cap disturbed = {} THEN disturbed \ {h}
                      ELSE disturbed \cup {h}
  BY DEF Hold
<1>2. /\ store' \in Seq(Range(store'))
      /\ DOMAIN store' = DOMAIN store \cup {Len(store) + 1}
      /\ store'[Len(store) + 1] = x
      /\ \A n \in DOMAIN store : store'[n] = store[n]
      /\ \A n \in DOMAIN store' : IsSeries(store'[n])
  BY <1>1, StoreGrows
<1>3. handle \in [Handles -> DOMAIN store] /\ meant = [g \in Handles |-> meant[g]]
  BY DEF HandlesInv
<1>4. meant'[h] = x /\ handle'[h] = Len(store) + 1
  BY <1>1, <1>3
<1>5. \A g \in Handles \ {h} : meant'[g] = meant[g] /\ handle'[g] = handle[g]
  BY <1>1, <1>3
<1>6. handle' \in [Handles -> DOMAIN store'] /\ meant' = [g \in Handles |-> meant'[g]]
  BY <1>1, <1>2, <1>3
<1>7. HandlesReadAsMeant'
  <2> SUFFICES ASSUME NEW g \in Handles, g \notin disturbed'
               PROVE  store'[handle'[g]] = meant'[g]
    BY DEF HandlesReadAsMeant, Of, Handles
  <2>1. CASE g = h
    BY <1>2, <1>4, <2>1
  <2>2. CASE g # h
    <3>1. g \notin disturbed
      BY <1>1, <2>2
    <3>2. store[handle[g]] = meant[g] /\ handle[g] \in DOMAIN store
      BY <3>1, HandlesHaveSeries DEF Of
    <3>3. QED
      BY <1>2, <1>5, <2>2, <3>2
  <2>3. QED
    BY <2>1, <2>2
<1>8. QED
  BY <1>2, <1>6, <1>7 DEF HandlesInv, Handles

\* A change of a series is noticed by its other handles only, which are disturbed.
LEMMA ChangeKeeps ==
  ASSUME HandlesInv, NEW h \in Handles, NEW x, NEW m, IsSeries(x),
         store' = [store EXCEPT ![handle[h]] = x], meant' = [meant EXCEPT ![h] = m],
         handle' = handle, disturbed \cup Sharers(h) \subseteq disturbed',
         h \in disturbed' \/ m = x
  PROVE  HandlesInv'
<1>1. handle \in [Handles -> DOMAIN store] /\ meant = [g \in Handles |-> meant[g]]
  BY DEF HandlesInv
<1>2. store \in Seq(Range(store)) /\ handle[h] \in DOMAIN store
  BY <1>1 DEF HandlesInv
<1>3. /\ DOMAIN store' = DOMAIN store
      /\ store'[handle[h]] = x
      /\ \A n \in DOMAIN store \ {handle[h]} : store'[n] = store[n]
  BY <1>2
<1>4. store' \in Seq(Range(store'))
  <2>1. Len(store) \in Nat /\ DOMAIN store = 1 .. Len(store)
    BY <1>2
  <2>2. store' = [n \in 1 .. Len(store) |-> store'[n]]
    BY <1>2, <2>1
  <2>3. QED
    BY <2>1, <2>2, ListedInSeq
<1>5. \A n \in DOMAIN store' : IsSeries(store'[n])
  BY <1>3 DEF HandlesInv
<1>6. meant'[h] = m /\ \A g \in Handles \ {h} : meant'[g] = meant[g]
  BY <1>1
<1>7. handle' \in [Handles -> DOMAIN store'] /\ meant' = [g \in Handles |-> meant'[g]]
  BY <1>1, <1>3
<1>8. HandlesReadAsMeant'
  <2> SUFFICES ASSUME NEW g \in Handles, g \notin disturbed'
               PROVE  store'[handle'[g]] = meant'[g]
    BY DEF HandlesReadAsMeant, Of, Handles
  <2>1. CASE g = h
    BY <1>3, <1>6, <2>1
  <2>2. CASE g # h
    <3>1. g \notin disturbed /\ handle[g] # handle[h]
      BY <2>2 DEF Sharers
    <3>2. store[handle[g]] = meant[g] /\ handle[g] \in DOMAIN store
      BY <3>1, HandlesHaveSeries DEF Of
    <3>3. QED
      BY <1>3, <1>6, <2>2, <3>1, <3>2
  <2>3. QED
    BY <2>1, <2>2
<1>9. QED
  BY <1>4, <1>5, <1>7, <1>8 DEF HandlesInv, Handles

\* Every arithmetic operator, of two series or of one and a value, to a new series
\* or in place.
LEMMA ArithmeticKeeps ==
  ASSUME HandlesInv, NEW op, NEW h \in Handles, NEW g \in Handles, Arithmetic(op, h, g)
  PROVE  HandlesInv'
<1>1. ASSUME NEW k \in Handles, NewOfTwo(op, h, g, k)
      PROVE  HandlesInv'
  <2>1. PICK x : x = OperateOn(op, Of(g), Of(k))
    OBVIOUS
  <2>2. PICK m : m = OperateOn(op, meant[g], meant[k])
    OBVIOUS
  <2>3. {g, k} \cap disturbed = {} => m = x
    BY <2>1, <2>2, HandlesHaveSeries
  <2>4. IsSeries(x)
    BY <2>1, HandlesHaveSeries, OperationsMakeSeries
  <2>5. Hold(h, x, m, {g, k})
    BY <1>1, <2>1, <2>2 DEF NewOfTwo
  <2>6. QED
    BY <2>3, <2>4, <2>5, HoldKeeps
<1>2. ASSUME NewOfValue(op, h, g)
      PROVE  HandlesInv'
  <2>1. PICK x : x = ByValue(op, Of(g))
    OBVIOUS
  <2>2. PICK m : m = ByValue(op, meant[g])
    OBVIOUS
  <2>3. {g} \cap disturbed = {} => m = x
    BY <2>1, <2>2, HandlesHaveSeries
  <2>4. IsSeries(x)
    BY <2>1, HandlesHaveSeries, OperationsMakeSeries DEF ByValue
  <2>5. Hold(h, x, m, {g})
    BY <1>2, <2>1, <2>2 DEF NewOfValue
  <2>6. QED
    BY <2>3, <2>4, <2>5, HoldKeeps
<1>3. ASSUME NewOfValueFirst(op, h, g)
      PROVE  HandlesInv'
  <2>1. PICK x : x = ValueFirst(op, Of(g))
    OBVIOUS
  <2>2. PICK m : m = ValueFirst(op, meant[g])
    OBVIOUS
  <2>3. {g} \cap disturbed = {} => m = x
    BY <2>1, <2>2, HandlesHaveSeries
  <2>4. IsSeries(x)
    BY <2>1, HandlesHaveSeries, OperationsMakeSeries DEF ValueFirst
  <2>5. Hold(h, x, m, {g})
    BY <1>3, <2>1, <2>2 DEF NewOfValueFirst
  <2>6. QED
    BY <2>3, <2>4, <2>5, HoldKeeps
<1>4. ASSUME InPlace(op, h, g)
      PROVE  HandlesInv'
  <2> DEFINE mixed == Of(h).sync # None /\ Of(g).sync = None
  <2>1. PICK result : result = OperateOn(op, Of(h), Of(g))
    OBVIOUS
  <2>2. PICK x : x = Assigned(Of(h), result)
    OBVIOUS
  <2>3. IsSeries(x)
    BY <2>2, HandlesHaveSeries, OperationsMakeSeries DEF Assigned
  <2>4. store' = [store EXCEPT ![handle[h]] = x] /\ handle' = handle
    BY <1>4, <2>1, <2>2 DEF InPlace
  <2>5. CASE mixed \/ {g, h} \cap disturbed # {}
    <3>1. meant' = [meant EXCEPT ![h] = x] /\ disturbed' = disturbed \cup Sharers(h) \cup {h}
      BY <1>4, <2>1, <2>2, <2>5 DEF InPlace
    <3>2. QED
      BY <2>3, <2>4, <3>1, ChangeKeeps
  <2>6. CASE ~(mixed \/ {g, h} \cap disturbed # {})
    <3>1. PICK m : m = OperateOn(op, meant[h], meant[g])
      OBVIOUS
    <3>2. meant' = [meant EXCEPT ![h] = m] /\ disturbed' = disturbed \cup Sharers(h)
      BY <1>4, <2>6, <3>1 DEF InPlace
    <3>3. m = result
      BY <2>1, <2>6, <3>1, HandlesHaveSeries
    <3>4. result.sync = Of(h).sync
      <4>1. CASE BothSynced(Of(h), Of(g))
        <5>1. IsSeries(Of(h))
          BY HandlesHaveSeries
        <5>2. QED
          BY <2>1, <4>1, <5>1, OperationsMakeSeries DEF OperateOn
      <4>2. CASE ~BothSynced(Of(h), Of(g))
        <5>1. Of(h).sync = None
          BY <2>6, <4>2 DEF BothSynced
        <5>2. QED
          BY <2>1, <4>2, <5>1 DEF OperateOn, NoSync
      <4>3. QED
        BY <4>1, <4>2
    <3>5. IsSeries(Of(h)) /\ IsSeries(result)
      BY <2>1, HandlesHaveSeries, OperationsMakeSeries
    <3>6. x = [cells |-> result.cells, sync |-> Of(h).sync]
      BY <2>2, <3>5, OperationsMakeSeries DEF Assigned
    <3>7. m = x
      BY <3>3, <3>4, <3>5, <3>6 DEF IsSeries
    <3>8. QED
      BY <2>3, <2>4, <3>2, <3>7, ChangeKeeps
  <2>7. QED
    BY <2>5, <2>6
<1>5. ASSUME InPlaceValue(op, h)
      PROVE  HandlesInv'
  <2>1. PICK x : x = Assigned(Of(h), ByValue(op, Of(h)))
    OBVIOUS
  <2>2. PICK m : m = ByValue(op, meant[h])
    OBVIOUS
  <2>3. IsSeries(x)
    BY <2>1, HandlesHaveSeries, OperationsMakeSeries DEF Assigned
  <2>4. h \notin disturbed => m = x
    <3>1. x = ByValue(op, Of(h))
      <4>1. PICK c : ByValue(op, Of(h)) = [Of(h) EXCEPT !.cells = c]
        BY DEF ByValue
      <4>2. ByValue(op, Of(h)) = [cells |-> c, sync |-> Of(h).sync]
        BY <4>1, HandlesHaveSeries, OperationsMakeSeries
      <4>3. ByValue(op, Of(h)).cells = c
        BY <4>2
      <4>4. x = [Of(h) EXCEPT !.cells = c]
        BY <2>1, <4>3, Zenon DEF Assigned
      <4>5. QED
        BY <4>1, <4>4
    <3>2. QED
      BY <2>2, <3>1, HandlesHaveSeries
  <2>5. /\ store' = [store EXCEPT ![handle[h]] = x] /\ handle' = handle
        /\ meant' = [meant EXCEPT ![h] = IF {h} \cap disturbed = {} THEN m ELSE x]
        /\ disturbed \cup Sharers(h) \subseteq disturbed'
    BY <1>5, <2>1, <2>2 DEF InPlaceValue, ChangeByCall, Change
  <2>6. CASE h \notin disturbed
    <3>1. meant' = [meant EXCEPT ![h] = m] /\ m = x
      BY <2>4, <2>5, <2>6
    <3>2. QED
      BY <2>3, <2>5, <3>1, ChangeKeeps
  <2>7. CASE h \in disturbed
    <3>1. meant' = [meant EXCEPT ![h] = x]
      BY <2>5, <2>7
    <3>2. QED
      BY <2>3, <2>5, <3>1, ChangeKeeps
  <2>8. QED
    BY <2>6, <2>7
<1>6. QED
  BY <1>1, <1>2, <1>3, <1>4, <1>5 DEF Arithmetic

\* A call that changes the series of h: the new value is of what the handles in
\* `from' read.
LEMMA ChangeStepKeeps ==
  ASSUME HandlesInv, NEW h \in Handles, NEW x, NEW m, NEW from, IsSeries(x),
         from \cap disturbed = {} => m = x, Change(h, x, m, from)
  PROVE  HandlesInv'
<1>1. /\ store' = [store EXCEPT ![handle[h]] = x] /\ handle' = handle
      /\ meant' = [meant EXCEPT ![h] = IF from \cap disturbed = {} THEN m ELSE x]
      /\ disturbed \cup Sharers(h) \subseteq disturbed'
  BY DEF Change
<1>2. CASE from \cap disturbed = {}
  <2>1. meant' = [meant EXCEPT ![h] = m] /\ m = x
    BY <1>1, <1>2
  <2>2. QED
    BY <1>1, <2>1, ChangeKeeps
<1>3. CASE from \cap disturbed # {}
  <2>1. meant' = [meant EXCEPT ![h] = x]
    BY <1>1, <1>3
  <2>2. QED
    BY <1>1, <2>1, ChangeKeeps
<1>4. QED
  BY <1>2, <1>3

\* A copy reads what the handle reads that it is of.
LEMMA CopyKeeps ==
  ASSUME HandlesInv, NEW h \in Handles, NEW g \in Handles, Copy(h, g)
  PROVE  HandlesInv'
<1>1. /\ handle' = [handle EXCEPT ![h] = handle[g]]
      /\ meant' = [meant EXCEPT ![h] = meant[g]]
      /\ disturbed' = IF g \in disturbed THEN disturbed \cup {h} ELSE disturbed \ {h}
      /\ store' = store
  BY DEF Copy
<1>2. handle \in [Handles -> DOMAIN store] /\ meant = [k \in Handles |-> meant[k]]
  BY DEF HandlesInv
<1>3. handle' \in [Handles -> DOMAIN store] /\ meant' = [k \in Handles |-> meant'[k]]
  BY <1>1, <1>2
<1>4. HandlesReadAsMeant'
  <2> SUFFICES ASSUME NEW k \in Handles, k \notin disturbed'
               PROVE  store[handle'[k]] = meant'[k]
    BY <1>1 DEF HandlesReadAsMeant, Of, Handles
  <2>1. CASE k = h
    <3>1. g \notin disturbed
      BY <1>1, <2>1
    <3>2. store[handle[g]] = meant[g]
      BY <3>1, HandlesHaveSeries DEF Of
    <3>3. QED
      BY <1>1, <1>2, <2>1, <3>2
  <2>2. CASE k # h
    <3>1. k \notin disturbed
      BY <1>1, <2>2
    <3>2. store[handle[k]] = meant[k]
      BY <3>1, HandlesHaveSeries DEF Of
    <3>3. QED
      BY <1>1, <1>2, <2>2, <3>2
  <2>3. QED
    BY <2>1, <2>2
<1>5. QED
  BY <1>1, <1>3, <1>4 DEF HandlesInv, Handles

\* Every step keeps what holds of the handles.
LEMMA HandlesStep ==
  ASSUME HandlesInv, [HandlesNext]_handleVars
  PROVE  HandlesInv'
<1>1. ASSUME NEW h \in Users, NEW g \in Handles,
             Multiply(h, g) \/ Add(h, g) \/ Subtract(h, g) \/ Divide(h, g)
      PROVE  HandlesInv'
  <2>1. h \in Handles
    BY DEF Handles
  <2>2. QED
    BY <1>1, <2>1, ArithmeticKeeps DEF Multiply, Add, Subtract, Divide
<1>2. ASSUME NEW h \in Users, NEW g \in Handles, Copy(h, g)
      PROVE  HandlesInv'
  BY <1>2, CopyKeeps DEF Handles
<1>3. ASSUME NEW h \in Users, NEW g \in Handles, Indicator(h, g)
      PROVE  HandlesInv'
  <2>1. PICK x : x = IndicatorOf(Of(g))
    OBVIOUS
  <2>2. PICK m : m = IndicatorOf(meant[g])
    OBVIOUS
  <2>3. {g} \cap disturbed = {} => m = x
    BY <2>1, <2>2, HandlesHaveSeries
  <2>4. IsSeries(x)
    BY <2>1, HandlesHaveSeries, OperationsMakeSeries DEF IndicatorOf
  <2>5. Hold(h, x, m, {g}) /\ h \in Handles
    BY <1>3, <2>1, <2>2 DEF Indicator, Handles
  <2>6. QED
    BY <2>3, <2>4, <2>5, HoldKeeps
<1>4. ASSUME NEW h \in Users, NEW g \in Handles, SynchronizeAs(h, g)
      PROVE  HandlesInv'
  <2>1. PICK x : x = [Of(h) EXCEPT !.sync = Of(g).sync]
    OBVIOUS
  <2>2. PICK m : m = [meant[h] EXCEPT !.sync = meant[g].sync]
    OBVIOUS
  <2>3. h \in Handles
    BY DEF Handles
  <2>4. {g, h} \cap disturbed = {} => m = x
    BY <2>1, <2>2, <2>3, HandlesHaveSeries
  <2>5. IsSeries(x)
    BY <2>1, <2>3, HandlesHaveSeries, OperationsMakeSeries
  <2>6. Change(h, x, m, {g, h})
    BY <1>4, <2>1, <2>2 DEF SynchronizeAs, ChangeByCall
  <2>7. QED
    BY <2>3, <2>4, <2>5, <2>6, ChangeStepKeeps
<1>5. ASSUME NEW h \in Users, Create(h, 1)
      PROVE  HandlesInv'
  <2>1. PICK x : x = NoSync([k \in 1 .. 1 |-> Zero])
    OBVIOUS
  <2>2. IsSeries(x)
    BY <2>1 DEF NoSync, IsSeries
  <2>3. Hold(h, x, x, {}) /\ h \in Handles
    BY <1>5, <2>1 DEF Create, Handles
  <2>4. QED
    BY <2>2, <2>3, HoldKeeps
<1>6. ASSUME NEW h \in Users, SetElement(h, 1) \/ PushBack(h)
      PROVE  HandlesInv'
  <2>1. h \in Handles /\ IsSeries(Of(h)) /\ (h \notin disturbed => meant[h] = Of(h))
    BY HandlesHaveSeries DEF Handles
  <2>2. CASE SetElement(h, 1)
    <3>1. PICK x : x = [Of(h) EXCEPT !.cells[1] = Two]
      OBVIOUS
    <3>2. PICK m : m = [meant[h] EXCEPT !.cells[1] = Two]
      OBVIOUS
    <3>3. {h} \cap disturbed = {} => m = x
      BY <2>1, <3>1, <3>2
    <3>4. IsSeries(x)
      BY <2>1, <3>1, OperationsMakeSeries
    <3>5. Change(h, x, m, {h})
      BY <2>2, <3>1, <3>2 DEF SetElement, ChangeByCall
    <3>6. QED
      BY <2>1, <3>3, <3>4, <3>5, ChangeStepKeeps
  <2>3. CASE PushBack(h)
    <3>1. PICK x : x = [Of(h) EXCEPT !.cells = Append(@, Two)]
      OBVIOUS
    <3>2. PICK m : m = [meant[h] EXCEPT !.cells = Append(@, Two)]
      OBVIOUS
    <3>3. {h} \cap disturbed = {} => m = x
      BY <2>1, <3>1, <3>2
    <3>4. IsSeries(x)
      BY <2>1, <3>1, OperationsMakeSeries
    <3>5. Change(h, x, m, {h})
      BY <2>3, <3>1, <3>2 DEF PushBack, ChangeByCall
    <3>6. QED
      BY <2>1, <3>3, <3>4, <3>5, ChangeStepKeeps
  <2>4. QED
    BY <1>6, <2>2, <2>3
<1>7. ASSUME NEW s \in Symbols, NEW r \in Symbols, SynchronizeBars(s, r)
      PROVE  HandlesInv'
  <2>1. s \in Handles /\ IsSeries(Of(s)) /\ (s \notin disturbed => meant[s] = Of(s))
    BY HandlesHaveSeries DEF Handles
  <2>2. PICK c : c = sync'[s]
    OBVIOUS
  <2>3. PICK x : x = [Of(s) EXCEPT !.sync = c]
    OBVIOUS
  <2>4. PICK m : m = [meant[s] EXCEPT !.sync = c]
    OBVIOUS
  <2>5. {s} \cap disturbed = {} => m = x
    BY <2>1, <2>3, <2>4
  <2>6. IsSeries(x)
    BY <2>1, <2>3, OperationsMakeSeries
  <2>7. Change(s, x, m, {s})
    BY <1>7, <2>2, <2>3, <2>4 DEF SynchronizeBars
  <2>8. QED
    BY <2>1, <2>5, <2>6, <2>7, ChangeStepKeeps
<1>8. ASSUME UNCHANGED handleVars
      PROVE  HandlesInv'
  BY <1>8 DEF handleVars, HandlesInv, Handles, HandlesReadAsMeant, Of
<1>9. QED
  BY <1>1, <1>2, <1>3, <1>4, <1>5, <1>6, <1>7, <1>8 DEF HandlesNext

\* At the start every handle has a series of its own.
LEMMA HandlesStart ==
  ASSUME HandlesInit
  PROVE  HandlesInv
<1> DEFINE Inj(f) == f \in [Handles -> 1 .. Cardinality(Handles)]
                       /\ \A g, h \in Handles : f[g] = f[h] => g = h
<1>1. Cardinality(Handles) \in Nat
  BY HandlesAssumption, FS_CardinalityType DEF Handles
<1>2. \E f \in [Handles -> 1 .. Cardinality(Handles)] :
        \A g, h \in Handles : f[g] = f[h] => g = h
  <2>1. ExistsBijection(1 .. Cardinality(Handles), Handles)
    BY HandlesAssumption, FS_CardinalityType DEF Handles
  <2>2. ExistsBijection(Handles, 1 .. Cardinality(Handles))
    BY <2>1, Fun_ExistsBijSymmetric
  <2>3. PICK f : f \in Bijection(Handles, 1 .. Cardinality(Handles))
    BY <2>2 DEF ExistsBijection
  <2>4. f \in [Handles -> 1 .. Cardinality(Handles)] /\ IsInjective(f)
    BY <2>3 DEF Bijection, Injection
  <2>5. QED
    BY <2>4 DEF IsInjective
<1>3. /\ handle \in [Handles -> 1 .. Cardinality(Handles)]
      /\ \A g, h \in Handles : handle[g] = handle[h] => g = h
  <2>1. handle = CHOOSE f \in [Handles -> 1 .. Cardinality(Handles)] :
                   \A g, h \in Handles : f[g] = f[h] => g = h
    BY DEF HandlesInit
  <2>2. QED
    BY <1>2, <2>1, Zenon
<1>4. /\ meant = [h \in Handles |-> meant[h]]
      /\ \A h \in Handles : IsSeries(meant[h])
  BY DEF HandlesInit, NoSync, IsSeries
<1>5. store = [n \in 1 .. Cardinality(Handles) |->
                 meant[CHOOSE h \in Handles : handle[h] = n]]
  BY DEF HandlesInit
<1>6. store \in Seq(Range(store)) /\ DOMAIN store = 1 .. Cardinality(Handles)
  <2>1. store = [n \in 1 .. Cardinality(Handles) |-> store[n]]
    BY <1>5
  <2>2. QED
    BY <1>1, <2>1, ListedInSeq
<1>7. \A h \in Handles : store[handle[h]] = meant[h]
  <2> SUFFICES ASSUME NEW h \in Handles PROVE store[handle[h]] = meant[h]
    OBVIOUS
  <2>1. (CHOOSE g \in Handles : handle[g] = handle[h]) = h
    BY <1>3, Zenon
  <2>2. handle[h] \in 1 .. Cardinality(Handles)
    BY <1>3
  <2>3. QED
    BY <1>5, <2>1, <2>2, Zenon
<1>8. \A n \in DOMAIN store : IsSeries(store[n])
  <2> SUFFICES ASSUME NEW n \in DOMAIN store PROVE IsSeries(store[n])
    OBVIOUS
  <2>1. \E h \in Handles : handle[h] = n
    <3>1. handle \in Injection(Handles, 1 .. Cardinality(Handles))
      BY <1>3 DEF Injection, IsInjective
    <3>2. /\ IsFiniteSet(1 .. Cardinality(Handles))
          /\ Cardinality(1 .. Cardinality(Handles)) = Cardinality(Handles)
      BY <1>1, FS_Interval
    <3>3. handle \in Surjection(Handles, 1 .. Cardinality(Handles))
      BY <3>1, <3>2, FS_Injection
    <3>4. QED
      BY <1>6, <3>3 DEF Surjection
  <2>2. QED
    BY <1>7, <1>4, <2>1
<1>9. QED
  BY <1>3, <1>4, <1>6, <1>7, <1>8 DEF HandlesInv, HandlesReadAsMeant, Of

\* Handles of series (Series, SeriesImpl): with any number of handles and calls, one
\* that no other handle's call disturbed reads as if it had a series of its own,
\* whether its operators make a series or assign to one.
THEOREM HandlesReadAsMeantAlways == Spec => []HandlesReadAsMeant
<1> DEFINE Inv == IF part = "handles" THEN HandlesInv ELSE disturbed = Handles
<1>1. Init => Inv
  <2>1. Init => (part = "handles" /\ HandlesInit) \/ (part # "handles" /\ disturbed = Handles)
    BY DEF Init, Idle
  <2>2. QED
    BY <2>1, HandlesStart
<1>2. Inv /\ [Next]_vars => Inv'
  <2> SUFFICES ASSUME Inv, [Next]_vars PROVE Inv'
    OBVIOUS
  <2>1. part' = part
    BY DEF Next, vars
  <2>2. CASE part = "handles"
    <3>1. [HandlesNext]_handleVars
      BY <2>2 DEF Next, FileStep, vars, NextSize, NextValue
    <3>2. QED
      BY <2>1, <2>2, <3>1, HandlesStep
  <2>3. CASE part # "handles"
    <3>1. disturbed' = disturbed
      BY <2>3 DEF Next, FileStep, vars, handleVars
    <3>2. QED
      BY <2>1, <2>3, <3>1 DEF Handles
  <2>4. QED
    BY <2>2, <2>3
<1>3. Inv => HandlesReadAsMeant
  BY DEF HandlesInv, HandlesReadAsMeant
<1> HIDE DEF Inv
<1>4. QED
  BY <1>1, <1>2, <1>3, PTL DEF Spec

-----------------------------------------------------------------------------
(* Bars of a file: lines and positions *)

FileTypes ==
  /\ Len(file) \in Nat \ {0}
  /\ file \in [1 .. Len(file) -> [kind : {"bar", "comment", "other"}, len : Nat \ {0, 1}]]
  /\ ended \in BOOLEAN
  /\ range \in Nat \X Nat
  /\ crt \in 1 .. Len(file) + 1
  /\ begin \in 0 .. Len(file) /\ end \in 0 .. Len(file)
  /\ bars \in Seq(1 .. Len(file))

\* What the recursive definition of Starts says of it.
AddsUp(s, f, n) ==
  s = [i \in 1 .. n + 1 |-> IF i = 1 THEN 0 ELSE s[i - 1] + f[i - 1].len]

\* There is such a function, for any number of lines: if not, there is a least
\* number of lines that it is not there for, but it is there for one line less, and
\* then it goes on by one more.
LEMMA SumsExist ==
  ASSUME NEW f, NEW n \in Nat
  PROVE  \E s : AddsUp(s, f, n)
<1> DEFINE Bad == {m \in Nat : ~\E s : AddsUp(s, f, m)}
<1>1. SUFFICES ASSUME Bad # {} PROVE FALSE
  BY <1>1
<1>2. PICK m \in Bad : \A k \in Bad : m <= k
  BY <1>1, LeastExists
<1>3. m # 0
  <2> DEFINE z == [i \in 1 .. 1 |-> 0]
  <2>1. z = [i \in 1 .. 0 + 1 |-> IF i = 1 THEN 0 ELSE z[i - 1] + f[i - 1].len]
    BY \A i \in 1 .. 1 : i = 1
  <2>2. AddsUp(z, f, 0)
    BY <2>1, Zenon DEF AddsUp
  <2>3. QED
    BY <1>2, <2>2
<1>4. m - 1 \in Nat /\ m - 1 \notin Bad
  BY <1>2, <1>3
<1>5. PICK r : AddsUp(r, f, m - 1)
  BY <1>4
<1>6. /\ DOMAIN r = 1 .. m
      /\ \A i \in 1 .. m : r[i] = IF i = 1 THEN 0 ELSE r[i - 1] + f[i - 1].len
  <2>1. m - 1 + 1 = m
    BY <1>2
  <2>2. r = [i \in 1 .. m |-> IF i = 1 THEN 0 ELSE r[i - 1] + f[i - 1].len]
    BY <1>5, <2>1 DEF AddsUp
  <2>3. QED
    BY <2>2, Zenon
<1> DEFINE s == [i \in 1 .. m + 1 |-> IF i = 1 THEN 0 ELSE r[i - 1] + f[i - 1].len]
<1>7. \A i \in 1 .. m + 1 : i = 1 \/ i - 1 \in 1 .. m
  BY <1>2
<1>8. \A i \in 1 .. m : s[i] = r[i]
  <2>1. \A i \in 1 .. m : i \in 1 .. m + 1
    BY <1>2
  <2>2. QED
    BY <1>6, <2>1, Zenon
<1>9. \A i \in 1 .. m + 1 :
        (IF i = 1 THEN 0 ELSE r[i - 1] + f[i - 1].len)
          = (IF i = 1 THEN 0 ELSE s[i - 1] + f[i - 1].len)
  BY <1>7, <1>8, Zenon
<1>10. AddsUp(s, f, m)
  <2>1. s = [i \in 1 .. m + 1 |-> IF i = 1 THEN 0 ELSE s[i - 1] + f[i - 1].len]
    BY <1>9, Zenon
  <2> HIDE DEF s
  <2>2. QED
    BY <2>1 DEF AddsUp
<1>11. QED
  BY <1>2, <1>10

\* Starts is that function.
LEMMA StartsAdd ==
  ASSUME Len(file) \in Nat
  PROVE  /\ Starts[1] = 0
         /\ \A i \in 1 .. Len(file) : Starts[i + 1] = Starts[i] + file[i].len
<1>1. Starts = CHOOSE s : AddsUp(s, file, Len(file))
  BY Zenon DEF Starts, AddsUp
<1>2. AddsUp(Starts, file, Len(file))
  BY <1>1, SumsExist, Zenon
<1>3. \A i \in 1 .. Len(file) + 1 :
        Starts[i] = IF i = 1 THEN 0 ELSE Starts[i - 1] + file[i - 1].len
  BY <1>2, Zenon DEF AddsUp
<1>4. \A i \in 1 .. Len(file) : i + 1 \in 1 .. Len(file) + 1 /\ i + 1 # 1 /\ (i + 1) - 1 = i
  OBVIOUS
<1>5. \A i \in 1 .. Len(file) : Starts[i + 1] = Starts[i] + file[i].len
  <2> SUFFICES ASSUME NEW i \in 1 .. Len(file)
               PROVE  Starts[i + 1] = Starts[i] + file[i].len
    OBVIOUS
  <2>1. Starts[i + 1] = Starts[(i + 1) - 1] + file[(i + 1) - 1].len
    BY <1>3, <1>4, Zenon
  <2>2. QED
    BY <1>4, <2>1
<1>6. 1 \in 1 .. Len(file) + 1
  OBVIOUS
<1>7. QED
  BY <1>3, <1>5, <1>6, Zenon

\* A line begins at least two bytes after the line before it.
LEMMA LinesAreApart ==
  ASSUME FileTypes
  PROVE  /\ Pos(1) = 0 /\ Pos(0) = -1
         /\ \A i \in 1 .. Len(file) + 1 : Pos(i) \in Nat
         /\ \A i, j \in 1 .. Len(file) + 1 : i < j => Pos(i) + 2 <= Pos(j)
<1> DEFINE n == Len(file)
           Bad == {j \in 1 .. n + 1 : \/ Starts[j] \notin Nat
                                      \/ \E i \in 1 .. j - 1 : ~(Starts[i] + 2 <= Starts[j])}
<1>1. n \in Nat /\ \A i \in 1 .. n : file[i].len \in Nat \ {0, 1}
  BY DEF FileTypes
<1>2. Starts[1] = 0 /\ \A i \in 1 .. n : Starts[i + 1] = Starts[i] + file[i].len
  BY <1>1, StartsAdd
<1> HIDE DEF n
<1>3. Bad = {}
  <2> SUFFICES ASSUME Bad # {} PROVE FALSE
    OBVIOUS
  <2>1. Bad \in SUBSET Nat
    BY <1>1
  <2>2. PICK j \in Bad : \A k \in Bad : j <= k
    BY <2>1, LeastExists
  <2>3. j # 1
    BY <1>2, <2>2
  <2>4. PICK k \in 1 .. n : j = k + 1
    <3>1. j - 1 \in 1 .. n /\ j = (j - 1) + 1
      BY <1>1, <2>2, <2>3
    <3>2. QED
      BY <3>1
  <2>5. k \notin Bad /\ k \in 1 .. n + 1
    BY <1>1, <2>2, <2>4
  <2>6. /\ Starts[k] \in Nat
        /\ \A i \in 1 .. k - 1 : Starts[i] + 2 <= Starts[k]
    BY <2>5
  <2>7. PICK d \in Nat \ {0, 1} : Starts[j] = Starts[k] + d
    BY <1>1, <1>2, <2>4
  <2>8. \A i \in 1 .. k - 1 : Starts[i] \in Nat
    <3> SUFFICES ASSUME NEW i \in 1 .. k - 1 PROVE Starts[i] \in Nat
      OBVIOUS
    <3>1. i \notin Bad /\ i \in 1 .. n + 1
      BY <1>1, <2>2, <2>4
    <3>2. QED
      BY <3>1
  <2>9. \A i \in 1 .. j - 1 : Starts[i] + 2 <= Starts[j]
    <3> SUFFICES ASSUME NEW i \in 1 .. j - 1 PROVE Starts[i] + 2 <= Starts[j]
      OBVIOUS
    <3>1. CASE i = k
      BY <2>6, <2>7, <3>1
    <3>2. CASE i # k
      <4>1. i \in 1 .. k - 1
        BY <2>4, <3>2
      <4>2. QED
        BY <2>6, <2>7, <2>8, <4>1
    <3>3. QED
      BY <3>1, <3>2
  <2>10. Starts[j] \in Nat
    BY <2>6, <2>7
  <2>11. QED
    BY <2>2, <2>9, <2>10
<1>4. \A j \in 1 .. n + 1 : Starts[j] \in Nat /\ \A i \in 1 .. j - 1 : Starts[i] + 2 <= Starts[j]
  BY <1>3
<1>5. \A i \in 1 .. n + 1 : Pos(i) = Starts[i]
  BY DEF Pos
<1>6. 1 \in 1 .. n + 1 /\ \A i, j \in 1 .. n + 1 : i < j => i \in 1 .. j - 1
  BY <1>1
<1>7. \A i, j \in 1 .. n + 1 : i < j => Pos(i) + 2 <= Pos(j)
  BY <1>4, <1>5, <1>6
<1>8. Pos(0) = -1 /\ Pos(1) = 0
  BY <1>2, <1>5, <1>6 DEF Pos
<1>9. QED
  BY <1>4, <1>5, <1>7, <1>8 DEF n

\* The end of the file is after the second byte of its last line.
LEMMA SizeOfFile ==
  ASSUME FileTypes
  PROVE  /\ FileSize \in Nat
         /\ FileSize <= Pos(Len(file) + 1) /\ Pos(Len(file) + 1) - 1 <= FileSize
         /\ ended => FileSize = Pos(Len(file) + 1)
         /\ \A i \in 1 .. Len(file) : Pos(i) + 1 <= FileSize
<1>1. Len(file) \in Nat \ {0} /\ ended \in BOOLEAN
  BY DEF FileTypes
<1>2. PICK past : past = Pos(Len(file) + 1)
  OBVIOUS
<1>3. past \in Nat /\ \A i \in 1 .. Len(file) : Pos(i) \in Nat /\ Pos(i) + 2 <= past
  BY <1>1, <1>2, LinesAreApart
<1>4. Pos(1) = 0 /\ 1 \in 1 .. Len(file)
  BY <1>1, LinesAreApart
<1>5. past >= 2
  BY <1>3, <1>4
<1>6. FileSize = past - (IF ended THEN 0 ELSE 1)
  BY <1>2 DEF FileSize
<1>7. QED
  BY <1>1, <1>2, <1>3, <1>5, <1>6

\* Every place in the file is in one line, which getCrtLine finds.
LEMMA CrtLineIsIn ==
  ASSUME FileTypes, NEW place \in Int
  PROVE  /\ (place < 0 \/ place >= FileSize) => CrtLine(place) = 0
         /\ (0 <= place /\ place < FileSize) =>
              /\ CrtLine(place) \in 1 .. Len(file)
              /\ Pos(CrtLine(place)) <= place /\ place < Pos(CrtLine(place) + 1)
<1>1. FileSize \in Nat /\ FileSize <= Pos(Len(file) + 1)
  BY SizeOfFile
<1>2. ASSUME place < 0 \/ place >= FileSize
      PROVE  CrtLine(place) = 0
  BY <1>2 DEF CrtLine
<1>3. ASSUME 0 <= place, place < FileSize
      PROVE  /\ CrtLine(place) \in 1 .. Len(file)
             /\ Pos(CrtLine(place)) <= place /\ place < Pos(CrtLine(place) + 1)
  <2> DEFINE Begun == {i \in 1 .. Len(file) : Pos(i) <= place}
  <2>1. Len(file) \in Nat \ {0}
    BY DEF FileTypes
  <2>2. 1 \in Begun
    BY <1>3, <2>1, LinesAreApart
  <2>3. PICK i \in Begun : \A j \in Begun : j <= i
    BY <2>1, <2>2, GreatestExists
  <2>4. place < Pos(i + 1)
    <3>1. CASE i = Len(file)
      <4>1. Pos(i + 1) \in Nat
        BY <2>1, <3>1, LinesAreApart
      <4>2. QED
        BY <1>1, <1>3, <3>1, <4>1
    <3>2. CASE i # Len(file)
      <4>1. i + 1 \in 1 .. Len(file) /\ ~(i + 1 <= i)
        BY <2>1, <3>2
      <4>2. i + 1 \notin Begun
        BY <2>3, <4>1
      <4>3. Pos(i + 1) \in Nat
        BY <4>1, LinesAreApart
      <4>4. QED
        BY <4>1, <4>2, <4>3
    <3>3. QED
      BY <3>1, <3>2
  <2>5. \E k \in 1 .. Len(file) : Pos(k) <= place /\ place < Pos(k + 1)
    BY <2>3, <2>4
  <2>6. ~(place < 0 \/ place >= FileSize)
    BY <1>1, <1>3
  <2>7. CrtLine(place) = CHOOSE k \in 1 .. Len(file) : Pos(k) <= place /\ place < Pos(k + 1)
    BY <2>6, Zenon DEF CrtLine
  <2>8. QED
    BY <2>5, <2>7, Zenon
<1>4. QED
  BY <1>2, <1>3

\* A line is found by its position, the one before it by the byte before it, and
\* the last one by the last byte.
LEMMA LinesAreFound ==
  ASSUME FileTypes
  PROVE  /\ \A i \in 1 .. Len(file) : CrtLine(Pos(i)) = i
         /\ \A i \in 1 .. Len(file) : PrevLine(i) = i - 1
         /\ LastLine = Len(file)
<1>1. Len(file) \in Nat \ {0} /\ FileSize \in Nat
  BY SizeOfFile DEF FileTypes
<1>2. ASSUME NEW i \in 1 .. Len(file), NEW place \in Nat, place < FileSize,
             Pos(i) <= place, place < Pos(i + 1)
      PROVE  CrtLine(place) = i
  <2>1. PICK k \in 1 .. Len(file) : /\ CrtLine(place) = k
                                    /\ Pos(k) <= place /\ place < Pos(k + 1)
    BY <1>2, CrtLineIsIn
  <2>2. /\ i + 1 \in 1 .. Len(file) + 1 /\ k + 1 \in 1 .. Len(file) + 1
        /\ i \in 1 .. Len(file) + 1 /\ k \in 1 .. Len(file) + 1
    BY <1>1
  <2>3. Pos(i) \in Nat /\ Pos(k) \in Nat /\ Pos(i + 1) \in Nat /\ Pos(k + 1) \in Nat
    BY <2>2, LinesAreApart
  <2>4. ~(k < i)
    <3> SUFFICES ASSUME k < i PROVE FALSE
      OBVIOUS
    <3>1. Pos(k + 1) <= Pos(i)
      <4>1. k + 1 = i \/ k + 1 < i
        OBVIOUS
      <4>2. k + 1 < i => Pos(k + 1) + 2 <= Pos(i)
        BY <2>2, LinesAreApart
      <4>3. QED
        BY <2>3, <4>1, <4>2
    <3>2. QED
      BY <1>2, <2>1, <2>3, <3>1
  <2>5. ~(i < k)
    <3> SUFFICES ASSUME i < k PROVE FALSE
      OBVIOUS
    <3>1. Pos(i + 1) <= Pos(k)
      <4>1. i + 1 = k \/ i + 1 < k
        OBVIOUS
      <4>2. i + 1 < k => Pos(i + 1) + 2 <= Pos(k)
        BY <2>2, LinesAreApart
      <4>3. QED
        BY <2>3, <4>1, <4>2
    <3>2. QED
      BY <1>2, <2>1, <2>3, <3>1
  <2>6. QED
    BY <2>1, <2>4, <2>5
<1>3. \A i \in 1 .. Len(file) : /\ Pos(i) \in Nat /\ Pos(i + 1) \in Nat
                                /\ Pos(i) + 2 <= Pos(i + 1) /\ Pos(i) + 1 <= FileSize
  <2> SUFFICES ASSUME NEW i \in 1 .. Len(file)
               PROVE  /\ Pos(i) \in Nat /\ Pos(i + 1) \in Nat
                      /\ Pos(i) + 2 <= Pos(i + 1) /\ Pos(i) + 1 <= FileSize
    OBVIOUS
  <2>1. i \in 1 .. Len(file) + 1 /\ i + 1 \in 1 .. Len(file) + 1 /\ i < i + 1
    BY <1>1
  <2>2. QED
    BY <2>1, LinesAreApart, SizeOfFile
<1>4. ASSUME NEW i \in 1 .. Len(file)
      PROVE  CrtLine(Pos(i)) = i
  <2>1. Pos(i) < FileSize /\ Pos(i) < Pos(i + 1) /\ Pos(i) \in Nat /\ Pos(i) <= Pos(i)
    BY <1>1, <1>3
  <2>2. QED
    BY <1>2, <2>1
<1>5. ASSUME NEW i \in 1 .. Len(file)
      PROVE  PrevLine(i) = i - 1
  <2>1. CASE i = 1
    <3>1. Pos(i) - 1 = -1
      BY <2>1, LinesAreApart
    <3>2. CrtLine(-1) = 0
      BY CrtLineIsIn
    <3>3. QED
      BY <2>1, <3>1, <3>2 DEF PrevLine
  <2>2. CASE i # 1
    <3>1. PICK k \in 1 .. Len(file) : i = k + 1 /\ k = i - 1
      <4>1. i - 1 \in 1 .. Len(file) /\ i = (i - 1) + 1
        BY <1>1, <2>2
      <4>2. QED
        BY <4>1
    <3>2. PICK place : place = Pos(i) - 1
      OBVIOUS
    <3>3. place \in Nat /\ place < FileSize /\ Pos(k) <= place /\ place < Pos(k + 1)
      <4>1. Pos(k) + 2 <= Pos(i) /\ Pos(k) \in Nat /\ Pos(i) \in Nat /\ Pos(i) + 1 <= FileSize
        BY <1>3, <3>1
      <4>2. QED
        BY <1>1, <3>1, <3>2, <4>1
    <3>4. CrtLine(place) = k
      BY <1>2, <3>3
    <3>5. QED
      BY <3>1, <3>2, <3>4 DEF PrevLine
  <2>3. QED
    BY <2>1, <2>2
<1>6. LastLine = Len(file)
  <2>1. PICK k \in 1 .. Len(file) : k = Len(file)
    BY <1>1
  <2>2. PICK place : place = FileSize - 1
    OBVIOUS
  <2>3. place \in Nat /\ place < FileSize /\ Pos(k) <= place /\ place < Pos(k + 1)
    <3>1. FileSize <= Pos(k + 1) /\ Pos(k) + 1 <= FileSize /\ Pos(k) \in Nat
          /\ Pos(k + 1) \in Nat
      BY <1>3, <2>1, SizeOfFile
    <3>2. QED
      BY <1>1, <2>2, <3>1
  <2>4. CrtLine(place) = k
    BY <1>2, <2>3
  <2>5. QED
    BY <2>1, <2>2, <2>4 DEF LastLine
<1>7. QED
  BY <1>4, <1>5, <1>6

-----------------------------------------------------------------------------
(* Bars of a file: the search and the reading *)

OnlyBars == \A i \in 1 .. Len(file) : IsBar(i)

\* The bars that are to be loaded of the lines before line n.
Wanted(n) == {i \in 1 .. n - 1 : IsBar(i) /\ InRange(i)}

\* The first time stamp is looked for from the first line on.
Opening == pc \in {"open", "last"} =>
  /\ crt \in 1 .. Len(file)
  /\ \A i \in 1 .. crt - 1 : ~IsBar(i)
  /\ range = NoRange => crt = 1
  /\ pc = "last" => IsBar(crt) /\ begin = crt

\* What is looked for is after the begin, and not after the end.
Bisecting == pc = "bisect" =>
  /\ IsBar(begin) /\ Time(begin) < From
  /\ end # 0 => IsBar(end) /\ Time(end) >= From
  /\ OnlyBars => end # 0

Searching == pc \in {"open", "last", "bisect"} =>
  bars = <<>> /\ (pc # "open" => range # NoRange)

NoneWhenFailed == (pc = "failed" /\ OnlyBars) => \A i \in 1 .. Len(file) : ~InRange(i)

\* The bars of the lines that were read are loaded.
Reading == pc = "read" =>
  /\ Range(bars) = Wanted(crt)
  /\ startPos <= Pos(crt)
  /\ range = NoRange => endPos = FileSize

Loaded == pc \in {"close", "done"} =>
  /\ Range(bars) = Wanted(Len(file) + 1)
  /\ ended \/ crt <= Len(file) => \A b \in Range(bars) : Pos(b + 1) <= endPos

InFileOrder == pc \in {"read", "close", "done"} =>
  /\ startPos \in Nat
  /\ \A b \in Range(bars) : startPos <= Pos(b)
  /\ \A i, j \in DOMAIN bars : i < j => bars[i] < bars[j]

FileInv ==
  /\ FileTypes
  /\ Opening
  /\ Bisecting
  /\ Searching
  /\ NoneWhenFailed
  /\ Reading
  /\ Loaded
  /\ InFileOrder

\* The file does not change while it is read, and so its lines stay where they are.
LEMMA FileStays ==
  ASSUME UNCHANGED input
  PROVE  /\ \A i : Pos(i)' = Pos(i) /\ IsBar(i)' = IsBar(i) /\ InRange(i)' = InRange(i)
         /\ \A n : Wanted(n)' = Wanted(n)
         /\ FileSize' = FileSize /\ OnlyBars' = OnlyBars /\ From' = From
<1>1. file' = file /\ ended' = ended /\ range' = range
  BY DEF input
<1>2. \A i : Pos(i)' = Pos(i)
  <2>1. Starts = CHOOSE s : AddsUp(s, file, Len(file))
    BY Zenon DEF Starts, AddsUp
  <2>2. Starts' = CHOOSE s : AddsUp(s, file', Len(file'))
    BY Zenon DEF Starts, AddsUp
  <2>3. Starts' = Starts
    BY <1>1, <2>1, <2>2, Zenon
  <2>4. QED
    BY <2>3, Zenon DEF Pos
<1>3. \A i : IsBar(i)' = IsBar(i)
  BY <1>1, Zenon DEF IsBar
<1>4. \A i : InRange(i)' = InRange(i)
  BY <1>1, Zenon DEF InRange, From, To
<1>5. \A n : Wanted(n)' = Wanted(n)
  BY <1>1, Zenon DEF Wanted, IsBar, InRange, From, To
<1>6. FileSize' = FileSize
  <2>1. FileSize = Pos(Len(file) + 1) - (IF ended THEN 0 ELSE 1)
    BY DEF FileSize
  <2>2. FileSize' = Pos(Len(file) + 1)' - (IF ended' THEN 0 ELSE 1)
    BY DEF FileSize
  <2>3. Pos(Len(file) + 1)' = Pos(Len(file) + 1)
    <3>1. PICK n : n = Len(file) + 1
      OBVIOUS
    <3>2. Pos(n)' = Pos(Len(file) + 1)'
      BY <1>1, <3>1 DEF Pos
    <3>3. QED
      BY <1>2, <3>1, <3>2
  <2>4. QED
    BY <1>1, <2>1, <2>2, <2>3
<1>7. OnlyBars' = OnlyBars
  BY <1>1, Zenon DEF OnlyBars, IsBar
<1>8. From' = From
  BY <1>1, Zenon DEF From
<1>9. QED
  BY <1>2, <1>3, <1>4, <1>5, <1>6, <1>7, <1>8

\* What is to be loaded of the whole file does not change either.
LEMMA WantedStays ==
  ASSUME UNCHANGED input
  PROVE  Wanted(Len(file) + 1)' = Wanted(Len(file) + 1)
<1>1. file' = file /\ range' = range
  BY DEF input
<1>2. QED
  BY <1>1, Zenon DEF Wanted, IsBar, InRange, From, To

\* What Wanted holds.
LEMMA WantedIs ==
  ASSUME NEW n \in Nat, NEW i
  PROVE  /\ i \in Wanted(n + 1) <=> i \in 1 .. n /\ IsBar(i) /\ InRange(i)
         /\ i \in Wanted(n) <=> i \in 1 .. n - 1 /\ IsBar(i) /\ InRange(i)
<1>1. PICK m : m = n + 1
  OBVIOUS
<1>2. m - 1 = n
  BY <1>1
<1>3. i \in Wanted(m) <=> i \in 1 .. m - 1 /\ IsBar(i) /\ InRange(i)
  BY Zenon DEF Wanted
<1>4. i \in Wanted(m) <=> i \in 1 .. n /\ IsBar(i) /\ InRange(i)
  BY <1>2, <1>3, Zenon
<1>5. i \in Wanted(n + 1) <=> i \in 1 .. n /\ IsBar(i) /\ InRange(i)
  BY <1>1, <1>4, Zenon
<1>6. i \in Wanted(n) <=> i \in 1 .. n - 1 /\ IsBar(i) /\ InRange(i)
  BY Zenon DEF Wanted
<1>7. QED
  BY <1>5, <1>6

\* A line has the time stamp of its bar, or none.
LEMMA StampsAre ==
  ASSUME FileTypes, NEW i \in 0 .. Len(file), NEW c \in TimeStamps(i)
  PROVE  /\ c \in {-1, 0, i}
         /\ (c # -1 /\ c # 0) => IsBar(i)
         /\ c = 0 => ~IsBar(i)
         /\ (i # 0 /\ OnlyBars) => c = i
<1>1. CASE i = 0
  BY <1>1 DEF TimeStamps, IsBar
<1>2. CASE i # 0
  <2>1. i \in 1 .. Len(file)
    BY <1>2
  <2>2. file[i].kind \in {"bar", "comment", "other"}
    BY <2>1 DEF FileTypes
  <2>3. CASE file[i].kind = "bar"
    BY <1>2, <2>1, <2>3 DEF TimeStamps, IsBar
  <2>4. CASE file[i].kind # "bar"
    <3>1. c \in {0, -1} /\ ~IsBar(i)
      BY <2>2, <2>4, <1>2 DEF TimeStamps, IsBar
    <3>2. ~OnlyBars
      BY <2>1, <3>1 DEF OnlyBars
    <3>3. QED
      BY <3>1, <3>2
  <2>5. QED
    BY <2>3, <2>4
<1>3. QED
  BY <1>1, <1>2

\* A line that is a bar is one of the file.
LEMMA BarsAreLines ==
  ASSUME FileTypes, NEW i \in 0 .. Len(file), IsBar(i)
  PROVE  i \in 1 .. Len(file)
BY DEF IsBar

\* The types that every step leaves as they are.
LEMMA TypesStay ==
  ASSUME FileTypes, UNCHANGED input, begin' \in 0 .. Len(file), end' \in 0 .. Len(file),
         crt' \in 1 .. Len(file) + 1, bars' \in Seq(1 .. Len(file))
  PROVE  FileTypes'
BY DEF FileTypes, input

\* A search that fails or crashes.
LEMMA SearchFails ==
  ASSUME FileInv, UNCHANGED <<input, bars>>, begin' \in 0 .. Len(file),
         end' \in 0 .. Len(file), crt' \in 1 .. Len(file) + 1,
         pc' = "crashed" \/ (pc' = "failed" /\ (OnlyBars => \A i \in 1 .. Len(file) : ~InRange(i)))
  PROVE  FileInv'
<1>1. UNCHANGED input /\ bars' = bars /\ FileTypes
  BY DEF FileInv
<1>2. FileTypes'
  BY <1>1, TypesStay DEF FileTypes
<1>3. NoneWhenFailed'
  <2> SUFFICES ASSUME pc' = "failed", OnlyBars', NEW i \in 1 .. Len(file)'
               PROVE  ~InRange(i)'
    BY DEF NoneWhenFailed
  <2>1. OnlyBars /\ i \in 1 .. Len(file) /\ (InRange(i)' = InRange(i))
    BY <1>1, FileStays DEF input
  <2>2. QED
    BY <2>1
<1>4. QED
  BY <1>2, <1>3 DEF FileInv, Opening, Bisecting, Searching, Reading, Loaded, InFileOrder

\* A search that finds the line to begin with: the bars before it are before the
\* range.
LEMMA SearchFinds ==
  ASSUME FileInv, UNCHANGED <<input, bars>>, bars = <<>>, begin' \in 0 .. Len(file),
         end' \in 0 .. Len(file), NEW c \in 1 .. Len(file),
         \A i \in 1 .. c - 1 : IsBar(i) => ~InRange(i),
         pc' = "read", startPos' = Pos(c), crt' = c,
         range # NoRange \/ endPos' = FileSize
  PROVE  FileInv'
<1>1. UNCHANGED input /\ bars' = <<>> /\ FileTypes
  BY DEF FileInv
<1>2. c \in 1 .. Len(file) + 1 /\ Pos(c) \in Nat
  BY <1>1, LinesAreApart DEF FileTypes
<1>3. FileTypes'
  BY <1>1, <1>2, TypesStay DEF FileTypes
<1>4. Range(bars)' = {} /\ DOMAIN bars' = {}
  BY <1>1 DEF Range
<1>5. Wanted(c) = {}
  BY DEF Wanted
<1>6. Reading'
  <2>1. \A n : Wanted(n)' = Wanted(n)
    BY <1>1, FileStays
  <2>2. \A i : Pos(i)' = Pos(i)
    BY <1>1, FileStays
  <2>3. FileSize' = FileSize /\ range' = range
    BY <1>1, FileStays DEF input
  <2>4. Wanted(crt)' = Wanted(c)
    <3>1. Wanted(crt)' = {i \in 1 .. crt' - 1 : IsBar(i)' /\ InRange(i)'}
      BY DEF Wanted
    <3>2. Wanted(c)' = {i \in 1 .. c - 1 : IsBar(i)' /\ InRange(i)'}
      BY DEF Wanted
    <3>3. QED
      BY <2>1, <3>1, <3>2
  <2>5. Pos(crt)' = Pos(c)
    <3>1. Pos(crt)' = Pos(c)'
      BY DEF Pos
    <3>2. QED
      BY <2>2, <3>1
  <2>6. startPos' <= Pos(crt)'
    BY <1>2, <2>5
  <2>7. QED
    BY <1>4, <1>5, <2>3, <2>4, <2>6 DEF Reading
<1>7. InFileOrder'
  BY <1>2, <1>4 DEF InFileOrder
<1>8. QED
  BY <1>3, <1>6, <1>7 DEF FileInv, Opening, Bisecting, Searching, NoneWhenFailed, Loaded

\* Without a range the file is read from its first line.
LEMMA OpenAllKeeps ==
  ASSUME FileInv, OpenAll
  PROVE  FileInv'
<1>1. /\ UNCHANGED <<input, begin, end, crt, bars>> /\ pc = "open" /\ range = NoRange
      /\ pc' = "read" /\ startPos' = 0 /\ endPos' = FileSize
  BY DEF OpenAll
<1>2. FileTypes /\ crt = 1 /\ bars = <<>>
  BY <1>1 DEF FileInv, Opening, Searching
<1>3. Pos(1) = 0 /\ 1 \in 1 .. Len(file) /\ begin' \in 0 .. Len(file) /\ end' \in 0 .. Len(file)
  BY <1>1, <1>2, LinesAreApart DEF FileTypes
<1>4. \A i \in 1 .. 1 - 1 : IsBar(i) => ~InRange(i)
  OBVIOUS
<1>5. QED
  BY <1>1, <1>2, <1>3, <1>4, SearchFinds

\* A step of the search that goes on with it.
LEMMA SearchGoesOn ==
  ASSUME FileInv, UNCHANGED <<input, bars>>, bars = <<>>, begin' \in 0 .. Len(file),
         end' \in 0 .. Len(file), crt' \in 1 .. Len(file) + 1, range # NoRange,
         \/ /\ pc' \in {"open", "last"} /\ crt' \in 1 .. Len(file)
            /\ \A i \in 1 .. crt' - 1 : ~IsBar(i)
            /\ pc' = "last" => IsBar(crt') /\ begin' = crt'
         \/ /\ pc' = "bisect"
            /\ IsBar(begin') /\ Time(begin') < From
            /\ end' # 0 => IsBar(end') /\ Time(end') >= From
            /\ OnlyBars => end' # 0
  PROVE  FileInv'
<1>1. UNCHANGED input /\ bars' = <<>> /\ FileTypes /\ range' = range /\ Len(file)' = Len(file)
  BY DEF FileInv, input
<1>2. FileTypes'
  BY <1>1, TypesStay DEF FileTypes
<1>3. /\ \A i : IsBar(i)' = IsBar(i)
      /\ OnlyBars' = OnlyBars /\ From' = From
  BY <1>1, FileStays
<1>4. pc' \in {"open", "last", "bisect"}
  OBVIOUS
<1>5. Searching' /\ NoneWhenFailed' /\ Reading' /\ Loaded' /\ InFileOrder'
  BY <1>1, <1>4 DEF Searching, NoneWhenFailed, Reading, Loaded, InFileOrder, NoRange
<1>6. IsBar(crt)' = IsBar(crt') /\ IsBar(begin)' = IsBar(begin') /\ IsBar(end)' = IsBar(end')
  BY <1>1 DEF IsBar, input
<1>7. Opening'
  BY <1>1, <1>3, <1>6 DEF Opening, NoRange
<1>8. Bisecting'
  BY <1>3, <1>6 DEF Bisecting, Time
<1>9. QED
  BY <1>2, <1>5, <1>7, <1>8 DEF FileInv
\* The lines before the first one with a time stamp are no bars.
LEMMA FirstTimeStampKeeps ==
  ASSUME FileInv, FirstTimeStamp
  PROVE  FileInv'
<1>1. /\ pc = "open" /\ range # NoRange /\ UNCHANGED <<input, end, bars, startPos, endPos>>
      /\ FileTypes /\ bars = <<>>
  BY DEF FirstTimeStamp, FileInv, Searching
<1>2. /\ crt \in 1 .. Len(file) /\ Len(file) \in Nat
      /\ \A i \in 1 .. crt - 1 : ~IsBar(i)
      /\ begin \in 0 .. Len(file) /\ end \in 0 .. Len(file)
  BY <1>1 DEF FileInv, Opening, FileTypes
<1>3. CASE /\ -1 \in TimeStamps(crt) /\ pc' = "crashed" /\ UNCHANGED <<begin, crt>>
  BY <1>1, <1>2, <1>3, SearchFails
<1>4. CASE /\ 0 \in TimeStamps(crt) /\ NextLine(crt) # 0 /\ crt' = NextLine(crt)
           /\ UNCHANGED <<begin, pc>>
  <2>1. crt' = crt + 1 /\ crt + 1 \in 1 .. Len(file)
    BY <1>2, <1>4 DEF NextLine
  <2>2. ~IsBar(crt)
    BY <1>1, <1>2, <1>4, StampsAre
  <2>3. \A i \in 1 .. crt' - 1 : ~IsBar(i)
    <3>1. \A i \in 1 .. crt' - 1 : i \in 1 .. crt - 1 \/ i = crt
      BY <1>2, <2>1
    <3>2. QED
      BY <1>2, <2>2, <3>1
  <2>4. /\ pc' \in {"open", "last"} /\ pc' # "last" /\ crt' \in 1 .. Len(file) + 1
        /\ crt' \in 1 .. Len(file)
    BY <1>1, <1>2, <1>4, <2>1
  <2>5. begin' \in 0 .. Len(file) /\ end' \in 0 .. Len(file)
    BY <1>1, <1>2, <1>4
  <2>6. QED
    BY <1>1, <2>3, <2>4, <2>5, SearchGoesOn
<1>5. CASE /\ 0 \in TimeStamps(crt) /\ NextLine(crt) = 0 /\ pc' = "failed"
           /\ UNCHANGED <<begin, crt>>
  <2>1. ~IsBar(crt)
    BY <1>1, <1>2, <1>5, StampsAre
  <2>2. ~OnlyBars
    BY <1>2, <2>1 DEF OnlyBars
  <2>3. QED
    BY <1>1, <1>2, <1>5, <2>2, SearchFails
<1>6. CASE crt \in TimeStamps(crt) /\ begin' = crt /\ pc' = "last" /\ UNCHANGED crt
  <2>1. IsBar(crt)
    BY <1>1, <1>2, <1>6, StampsAre
  <2>2. /\ begin' \in 0 .. Len(file) /\ end' \in 0 .. Len(file)
        /\ crt' \in 1 .. Len(file) + 1 /\ crt' \in 1 .. Len(file)
    BY <1>1, <1>2, <1>6
  <2>3. /\ \A i \in 1 .. crt' - 1 : ~IsBar(i)
        /\ IsBar(crt') /\ begin' = crt' /\ pc' \in {"open", "last"}
    BY <1>2, <1>6, <2>1
  <2>4. QED
    BY <1>1, <2>2, <2>3, SearchGoesOn
<1>7. QED
  BY <1>3, <1>4, <1>5, <1>6 DEF FirstTimeStamp

\* The last line, when it is a bar before the range, says that there is none in it.
LEMMA LastTimeStampKeeps ==
  ASSUME FileInv, LastTimeStamp
  PROVE  FileInv'
<1>1. /\ pc = "last" /\ UNCHANGED <<input, begin, bars, endPos>>
      /\ FileTypes /\ bars = <<>> /\ range # NoRange
  BY DEF LastTimeStamp, FileInv, Searching
<1>2. /\ crt \in 1 .. Len(file) /\ Len(file) \in Nat \ {0}
      /\ \A i \in 1 .. crt - 1 : ~IsBar(i)
      /\ IsBar(crt) /\ begin = crt
      /\ begin \in 0 .. Len(file) /\ end \in 0 .. Len(file)
      /\ From \in Nat /\ To \in Nat
  BY <1>1 DEF FileInv, Opening, FileTypes, From, To
<1>3. PICK c \in TimeStamps(LastLine) :
        IF c = -1 THEN pc' = "crashed" /\ UNCHANGED <<end, crt, startPos>>
        ELSE /\ end' = c
             /\ IF Time(begin) >= From THEN Found(0)
                ELSE IF Before(c, From) THEN Found(-1)
                ELSE pc' = "bisect" /\ UNCHANGED <<crt, startPos>>
  BY DEF LastTimeStamp
<1>4. LastLine = Len(file) /\ Len(file) \in 0 .. Len(file)
  BY <1>1, <1>2, LinesAreFound
<1>5. /\ c \in {-1, 0, Len(file)}
      /\ (c # -1 /\ c # 0) => IsBar(Len(file))
      /\ OnlyBars => c = Len(file)
  BY <1>1, <1>2, <1>3, <1>4, StampsAre
<1>6. CASE c = -1
  BY <1>1, <1>2, <1>3, <1>6, SearchFails
<1>7. CASE c # -1 /\ Time(begin) >= From
  <2>1. Found(0) /\ end' = c /\ c \in 0 .. Len(file)
    BY <1>2, <1>3, <1>5, <1>7
  <2>2. pc' = "read" /\ startPos' = 0 /\ crt' = CrtLine(0)
    BY <2>1 DEF Found
  <2>3. 1 \in 1 .. Len(file) /\ Pos(1) = 0 /\ CrtLine(Pos(1)) = 1
    BY <1>1, <1>2, LinesAreApart, LinesAreFound
  <2>4. \A i \in 1 .. 1 - 1 : IsBar(i) => ~InRange(i)
    OBVIOUS
  <2>5. startPos' = Pos(1) /\ crt' = 1
    BY <2>2, <2>3
  <2>6. QED
    BY <1>1, <1>2, <2>1, <2>2, <2>3, <2>4, <2>5, SearchFinds
<1>8. CASE c # -1 /\ ~(Time(begin) >= From) /\ Before(c, From)
  <2>1. end' = c /\ pc' = "failed" /\ UNCHANGED crt /\ c \in 0 .. Len(file)
    BY <1>2, <1>3, <1>5, <1>8 DEF Found
  <2>2. c = Len(file) /\ 2 * c < From
    BY <1>5, <1>8 DEF Before, Time, IsBar
  <2>3. \A i \in 1 .. Len(file) : ~InRange(i)
    BY <1>1, <1>2, <2>2 DEF InRange, Time
  <2>4. QED
    BY <1>1, <1>2, <2>1, <2>3, SearchFails
<1>9. CASE c # -1 /\ ~(Time(begin) >= From) /\ ~Before(c, From)
  <2>1. end' = c /\ pc' = "bisect" /\ UNCHANGED crt /\ c \in 0 .. Len(file)
    BY <1>2, <1>3, <1>5, <1>9
  <2>2. c # 0 => IsBar(c) /\ Time(c) >= From
    BY <1>2, <1>5, <1>9 DEF Before, Time
  <2>3. IsBar(begin') /\ Time(begin') < From
    BY <1>1, <1>2, <1>9 DEF Time
  <2>4. OnlyBars => c # 0
    BY <1>2, <1>5
  <2>5. /\ begin' \in 0 .. Len(file) /\ end' \in 0 .. Len(file)
        /\ crt' \in 1 .. Len(file) + 1
    BY <1>1, <1>2, <2>1
  <2>6. QED
    BY <1>1, <2>1, <2>2, <2>3, <2>4, <2>5, SearchGoesOn
<1>10. QED
  BY <1>6, <1>7, <1>8, <1>9

\* The candidate is one of the lines that are left, or has no time; its neighbour is
\* looked at when it is one of the two ends.
LEMMA NeighboursAre ==
  ASSUME FileInv, pc = "bisect", NEW candidate \in TimeStamps(CrtLine(Middle)),
         candidate # -1, NEW c \in Neighbours(candidate), c # -1
  PROVE  /\ c \in 0 .. Len(file)
         /\ c # 0 => IsBar(c)
         /\ OnlyBars => c # 0
         /\ (candidate = begin /\ c = end /\ end # 0) => begin = end - 1
         /\ (candidate = end /\ c = begin) => end # 0 /\ begin = end - 1
<1>1. /\ FileTypes /\ IsBar(begin) /\ Time(begin) < From
      /\ end # 0 => IsBar(end) /\ Time(end) >= From
      /\ OnlyBars => end # 0
  BY DEF FileInv, Bisecting
<1>2. /\ begin \in 1 .. Len(file) /\ end \in 0 .. Len(file) /\ Len(file) \in Nat
      /\ end # 0 => end \in 1 .. Len(file)
      /\ From \in Nat
  <2>1. begin \in 1 .. Len(file)
    BY <1>1, BarsAreLines DEF FileTypes
  <2>2. QED
    BY <1>1, <2>1 DEF FileTypes, From
<1>3. end # 0 => begin < end
  BY <1>1, <1>2 DEF Time
<1>4. /\ Middle \in Int
      /\ end # 0 => 0 <= Middle /\ Middle < FileSize
  <2>1. /\ Pos(begin) \in Nat /\ Pos(begin) < FileSize /\ FileSize \in Nat
        /\ Pos(0) = -1
        /\ end # 0 => Pos(end) \in Nat /\ Pos(end) < FileSize
    <3>1. \A i \in 1 .. Len(file) : Pos(i) \in Nat /\ Pos(i) < FileSize
      <4>1. \A i \in 1 .. Len(file) : i \in 1 .. Len(file) + 1
        BY <1>2
      <4>2. \A i \in 1 .. Len(file) : Pos(i) \in Nat
        BY <1>1, <4>1, LinesAreApart
      <4>3. QED
        BY <1>1, <4>2, SizeOfFile
    <3>2. QED
      BY <1>1, <1>2, <3>1, SizeOfFile, LinesAreApart
  <2>2. CASE end = 0
    <3>1. Middle = IF Pos(begin) = 0 THEN 0 ELSE (Pos(begin) - 1) \div 2
      BY <2>1, <2>2 DEF Middle
    <3>2. QED
      BY <2>1, <2>2, <3>1
  <2>3. CASE end # 0
    <3>1. Middle = (Pos(begin) + Pos(end)) \div 2
      BY <2>1, <2>3 DEF Middle
    <3>2. PICK b \in Nat, e \in Nat : b = Pos(begin) /\ e = Pos(end)
      BY <2>1, <2>3
    <3>3. \A f \in Nat : b < f /\ e < f => (b + e) \div 2 < f
      OBVIOUS
    <3>4. QED
      BY <2>1, <2>3, <3>1, <3>2, <3>3
  <2>4. QED
    BY <2>2, <2>3
<1>5. CrtLine(Middle) \in 0 .. Len(file) /\ (end # 0 => CrtLine(Middle) # 0)
  BY <1>1, <1>2, <1>4, CrtLineIsIn, SizeOfFile
<1>6. /\ candidate \in 0 .. Len(file)
      /\ candidate # 0 => IsBar(candidate)
      /\ OnlyBars => candidate # 0
  <2>1. /\ candidate \in {-1, 0, CrtLine(Middle)}
        /\ (candidate # -1 /\ candidate # 0) => IsBar(CrtLine(Middle))
        /\ (CrtLine(Middle) # 0 /\ OnlyBars) => candidate = CrtLine(Middle)
    BY <1>1, <1>5, StampsAre
  <2>2. QED
    BY <1>1, <1>2, <1>5, <2>1
<1>7. CASE candidate = begin
  <2>1. NextLine(begin) \in 0 .. Len(file) /\ c \in TimeStamps(NextLine(begin))
    BY <1>2, <1>7 DEF NextLine, Neighbours
  <2>2. /\ c \in {-1, 0, NextLine(begin)}
        /\ (c # -1 /\ c # 0) => IsBar(NextLine(begin))
        /\ (NextLine(begin) # 0 /\ OnlyBars) => c = NextLine(begin)
    BY <1>1, <2>1, StampsAre
  <2>3. NextLine(begin) = IF begin < Len(file) THEN begin + 1 ELSE 0
    BY DEF NextLine
  <2>4. OnlyBars => c # 0
    BY <1>1, <1>2, <1>3, <2>2, <2>3
  <2>5. (c = end /\ end # 0) => begin = end - 1
    BY <1>2, <2>2, <2>3
  <2>6. candidate # end
    BY <1>2, <1>3, <1>7
  <2>7. QED
    BY <2>1, <2>2, <2>4, <2>5, <2>6
<1>8. CASE candidate # begin /\ candidate = end /\ end # 0
  <2>1. PrevLine(end) = end - 1
    BY <1>1, <1>2, <1>8, LinesAreFound
  <2>2. PrevLine(end) \in 0 .. Len(file) /\ PrevLine(end) # 0 /\ c \in TimeStamps(PrevLine(end))
    BY <1>2, <1>3, <1>8, <2>1 DEF Neighbours
  <2>3. /\ c \in {-1, 0, PrevLine(end)}
        /\ (c # -1 /\ c # 0) => IsBar(PrevLine(end))
        /\ (PrevLine(end) # 0 /\ OnlyBars) => c = PrevLine(end)
    BY <1>1, <2>2, StampsAre
  <2>4. c = begin => begin = end - 1
    BY <1>2, <2>1, <2>3
  <2>5. QED
    BY <1>8, <2>2, <2>3, <2>4
<1>9. CASE candidate # begin /\ ~(candidate = end /\ end # 0)
  <2>1. c = candidate
    BY <1>9 DEF Neighbours
  <2>2. QED
    BY <1>2, <1>6, <1>9, <2>1
<1>10. QED
  BY <1>7, <1>8, <1>9

\* A turn of the bisection leaves the first bar of the range between its two ends.
LEMMA BisectKeeps ==
  ASSUME FileInv, Bisect
  PROVE  FileInv'
<1>1. /\ pc = "bisect" /\ UNCHANGED <<input, bars, endPos>>
      /\ FileTypes /\ bars = <<>> /\ range # NoRange
  BY DEF Bisect, FileInv, Searching
<1>2. /\ IsBar(begin) /\ Time(begin) < From
      /\ end # 0 => IsBar(end) /\ Time(end) >= From
      /\ OnlyBars => end # 0
  BY <1>1 DEF FileInv, Bisecting
<1>3. /\ begin \in 0 .. Len(file) /\ end \in 0 .. Len(file) /\ Len(file) \in Nat
      /\ crt \in 1 .. Len(file) + 1 /\ From \in Nat /\ To \in Nat
  BY <1>1 DEF FileTypes, From, To
<1>4. PICK candidate \in TimeStamps(CrtLine(Middle)) :
        IF candidate = -1
        THEN pc' = "crashed" /\ UNCHANGED <<begin, end, crt, startPos>>
        ELSE \E c \in Neighbours(candidate) :
               IF c = -1 THEN pc' = "crashed" /\ UNCHANGED <<begin, end, crt, startPos>>
               ELSE IF (candidate = begin /\ c = end) \/ (candidate = end /\ c = begin)
               THEN Found(Pos(end)) /\ UNCHANGED <<begin, end>>
               ELSE Halve(c)
  BY DEF Bisect
<1>5. CASE pc' = "crashed" /\ UNCHANGED <<begin, end, crt, startPos>>
  BY <1>1, <1>3, <1>5, SearchFails
<1>6. ASSUME candidate # -1, NEW c \in Neighbours(candidate), c # -1,
             IF (candidate = begin /\ c = end) \/ (candidate = end /\ c = begin)
             THEN Found(Pos(end)) /\ UNCHANGED <<begin, end>>
             ELSE Halve(c)
      PROVE  FileInv'
  <2>1. /\ c \in 0 .. Len(file)
        /\ c # 0 => IsBar(c)
        /\ OnlyBars => c # 0
        /\ (candidate = begin /\ c = end /\ end # 0) => begin = end - 1
        /\ (candidate = end /\ c = begin) => end # 0 /\ begin = end - 1
    BY <1>1, <1>6, NeighboursAre
  <2>2. ASSUME NEW n \in 0 .. Len(file), Found(Pos(n)), UNCHANGED <<begin, end>>,
               OnlyBars => n # 0,
               \A i \in 1 .. n - 1 : Time(i) < From
        PROVE  FileInv'
    <3>1. /\ Pos(0) = -1
          /\ n # 0 => Pos(n) \in Nat /\ CrtLine(Pos(n)) = n
      BY <1>1, <1>3, LinesAreApart, LinesAreFound
    <3>2. CASE n = 0
      <4>1. pc' = "failed" /\ UNCHANGED crt
        BY <2>2, <3>1, <3>2 DEF Found
      <4>2. QED
        BY <1>1, <1>3, <2>2, <3>2, <4>1, SearchFails
    <3>3. CASE n # 0
      <4>1. ~(Pos(n) < 0)
        BY <3>1, <3>3
      <4>2. pc' = "read" /\ startPos' = Pos(n) /\ crt' = n
        BY <2>2, <3>1, <3>3, <4>1 DEF Found
      <4>3. n \in 1 .. Len(file)
        BY <3>3
      <4>4. \A i \in 1 .. n - 1 : IsBar(i) => ~InRange(i)
        BY <1>1, <1>3, <2>2, <4>3 DEF InRange, Time
      <4>5. begin' \in 0 .. Len(file) /\ end' \in 0 .. Len(file)
        BY <1>3, <2>2
      <4>6. QED
        BY <1>1, <4>2, <4>3, <4>4, <4>5, SearchFinds
    <3>4. QED
      BY <3>2, <3>3
  <2>3. CASE (candidate = begin /\ c = end) \/ (candidate = end /\ c = begin)
    <3>1. \A i \in 1 .. end - 1 : Time(i) < From
      BY <1>2, <1>3, <2>1, <2>3 DEF Time
    <3>2. Found(Pos(end)) /\ UNCHANGED <<begin, end>>
      BY <1>6, <2>3
    <3>3. QED
      BY <1>2, <1>3, <2>2, <3>1, <3>2
  <2>4. CASE ~((candidate = begin /\ c = end) \/ (candidate = end /\ c = begin))
    <3>1. Halve(c)
      BY <1>6, <2>4
    <3>2. CASE Before(c, From)
      <4>1. begin' = c /\ UNCHANGED <<end, pc, crt, startPos>>
        BY <3>1, <3>2 DEF Halve
      <4>2. IsBar(c) /\ Time(c) < From
        BY <3>2 DEF Before
      <4>3. /\ begin' \in 0 .. Len(file) /\ end' \in 0 .. Len(file)
            /\ crt' \in 1 .. Len(file) + 1 /\ pc' = "bisect"
        BY <1>1, <1>3, <2>1, <4>1
      <4>4. /\ IsBar(begin') /\ Time(begin') < From
            /\ end' # 0 => IsBar(end') /\ Time(end') >= From
            /\ OnlyBars => end' # 0
        BY <1>2, <4>1, <4>2
      <4>5. QED
        BY <1>1, <4>3, <4>4, SearchGoesOn
    <3>3. CASE ~Before(c, From) /\ After(c, From)
      <4>1. end' = c /\ UNCHANGED <<begin, pc, crt, startPos>>
        BY <3>1, <3>3 DEF Halve
      <4>2. IsBar(c) /\ Time(c) >= From
        BY <1>3, <2>1, <3>3 DEF After, Time
      <4>3. /\ begin' \in 0 .. Len(file) /\ end' \in 0 .. Len(file)
            /\ crt' \in 1 .. Len(file) + 1 /\ pc' = "bisect"
        BY <1>1, <1>3, <2>1, <4>1
      <4>4. /\ IsBar(begin') /\ Time(begin') < From
            /\ end' # 0 => IsBar(end') /\ Time(end') >= From
            /\ OnlyBars => end' # 0
        BY <1>2, <2>1, <4>1, <4>2
      <4>5. QED
        BY <1>1, <4>3, <4>4, SearchGoesOn
    <3>4. CASE ~Before(c, From) /\ ~After(c, From)
      <4>1. Found(Pos(c)) /\ UNCHANGED <<begin, end>>
        BY <3>1, <3>4 DEF Halve
      <4>2. \A i \in 1 .. c - 1 : Time(i) < From
        <5>1. CASE c = 0
          BY <5>1
        <5>2. CASE c # 0
          <6>1. Time(c) = From
            BY <1>3, <2>1, <3>4, <5>2 DEF Before, After, Time
          <6>2. QED
            BY <1>3, <2>1, <6>1 DEF Time
        <5>3. QED
          BY <5>1, <5>2
      <4>3. QED
        BY <2>1, <2>2, <4>1, <4>2
    <3>5. QED
      BY <3>2, <3>3, <3>4
  <2>5. QED
    BY <2>3, <2>4
<1>7. QED
  BY <1>4, <1>5, <1>6

\* The elements of a sequence that gets one more.
LEMMA RangeOfAppend ==
  ASSUME NEW S, NEW s \in Seq(S), NEW x \in S
  PROVE  /\ Append(s, x) \in Seq(S)
         /\ Range(Append(s, x)) = Range(s) \cup {x}
         /\ DOMAIN Append(s, x) = DOMAIN s \cup {Len(s) + 1}
         /\ DOMAIN s = 1 .. Len(s) /\ Len(s) \in Nat
         /\ \A i \in DOMAIN s : Append(s, x)[i] = s[i]
         /\ Append(s, x)[Len(s) + 1] = x
<1> DEFINE t == Append(s, x)
<1>1. /\ t \in Seq(S) /\ Len(s) \in Nat /\ DOMAIN s = 1 .. Len(s)
      /\ DOMAIN t = 1 .. Len(s) + 1
      /\ \A i \in 1 .. Len(s) : t[i] = s[i]
      /\ t[Len(s) + 1] = x
  OBVIOUS
<1> HIDE DEF t
<1>2. DOMAIN t = DOMAIN s \cup {Len(s) + 1}
  BY <1>1
<1>3. Range(t) = Range(s) \cup {x}
  BY <1>1, <1>2 DEF Range
<1>4. QED
  BY <1>1, <1>2, <1>3 DEF t

\* A line that is read: its bar is loaded if it is in the range.
LEMMA ReadBarLineKeeps ==
  ASSUME FileInv, ReadBarLine
  PROVE  FileInv'
<1>1. /\ pc = "read" /\ crt <= Len(file) /\ UNCHANGED <<input, begin, end, startPos>>
      /\ endPos' = IF range = NoRange THEN endPos ELSE Pos(crt)
  BY DEF ReadBarLine
<1>2. /\ FileTypes /\ Range(bars) = Wanted(crt) /\ startPos <= Pos(crt) /\ startPos \in Nat
      /\ range = NoRange => endPos = FileSize
      /\ \A b \in Range(bars) : startPos <= Pos(b)
      /\ \A i, j \in DOMAIN bars : i < j => bars[i] < bars[j]
  BY <1>1 DEF FileInv, Reading, InFileOrder
<1>3. /\ crt \in 1 .. Len(file) /\ Len(file) \in Nat /\ bars \in Seq(1 .. Len(file))
      /\ begin' \in 0 .. Len(file) /\ end' \in 0 .. Len(file)
      /\ crt \in 1 .. Len(file) + 1 /\ crt + 1 \in 1 .. Len(file) + 1
      /\ range' = range /\ ended' = ended /\ Len(file)' = Len(file)
      /\ From \in Nat /\ To \in Nat
  BY <1>1, <1>2 DEF FileTypes, input, From, To
<1>4. /\ \A i : Pos(i)' = Pos(i) /\ IsBar(i)' = IsBar(i) /\ InRange(i)' = InRange(i)
      /\ \A n : Wanted(n)' = Wanted(n)
      /\ FileSize' = FileSize /\ OnlyBars' = OnlyBars
  BY <1>1, FileStays
<1>5. \A i \in 1 .. Len(file) + 1 : Pos(i) \in Nat
  BY <1>2, LinesAreApart
<1>6. CASE file[crt].kind = "other"
  <2>1. pc' = "failed" /\ UNCHANGED <<crt, bars>>
    BY <1>6 DEF ReadBarLine
  <2>2. ~IsBar(crt)
    BY <1>6 DEF IsBar
  <2>3. ~OnlyBars
    BY <1>3, <2>2 DEF OnlyBars
  <2>4. QED
    BY <1>1, <1>3, <2>1, <2>3, SearchFails
<1>7. CASE file[crt].kind # "other" /\ IsBar(crt) /\ range # NoRange /\ Time(crt) > To
  <2>1. pc' = "close" /\ crt' = crt /\ bars' = bars /\ endPos' = Pos(crt) /\ startPos' = startPos
    BY <1>1, <1>7 DEF ReadBarLine
  <2>2. FileTypes'
    BY <1>1, <1>2, <1>3, <2>1, TypesStay
  <2>3. Wanted(Len(file) + 1) = Wanted(crt)
    <3>1. \A i \in crt .. Len(file) : ~InRange(i)
      BY <1>3, <1>7 DEF InRange, Time
    <3>2. \A i \in 1 .. Len(file) : i \in 1 .. crt - 1 \/ i \in crt .. Len(file)
      BY <1>3
    <3>3. \A i \in 1 .. crt - 1 : i \in 1 .. Len(file)
      BY <1>3
    <3>4. crt \in Nat
      BY <1>3
    <3>5. \A i : i \in Wanted(Len(file) + 1) <=> i \in 1 .. Len(file) /\ IsBar(i) /\ InRange(i)
      BY <1>3, WantedIs
    <3>6. \A i : i \in Wanted(crt) <=> i \in 1 .. crt - 1 /\ IsBar(i) /\ InRange(i)
      BY <3>4, WantedIs
    <3>7. \A i : i \in Wanted(Len(file) + 1) <=> i \in Wanted(crt)
      BY <3>1, <3>2, <3>3, <3>5, <3>6, Zenon
    <3>8. QED
      BY <3>7, Zenon
  <2>4. Range(bars)' = Range(bars) /\ DOMAIN bars' = DOMAIN bars
    BY <2>1 DEF Range
  <2>5. \A b \in Range(bars) : Pos(b + 1) <= Pos(crt)
    <3> SUFFICES ASSUME NEW b \in Range(bars) PROVE Pos(b + 1) <= Pos(crt)
      OBVIOUS
    <3>1. b \in 1 .. crt - 1
      BY <1>2 DEF Wanted
    <3>2. b + 1 \in 1 .. Len(file) + 1 /\ (b + 1 = crt \/ b + 1 < crt)
      BY <1>3, <3>1
    <3>3. b + 1 < crt => Pos(b + 1) + 2 <= Pos(crt)
      BY <1>2, <1>3, <3>2, LinesAreApart
    <3>4. QED
      BY <1>3, <1>5, <3>2, <3>3
  <2>6. Loaded'
    <3>1. Wanted(Len(file) + 1)' = Wanted(Len(file) + 1)
      BY <1>1, WantedStays
    <3>2. \A b : Pos(b + 1)' = Pos(b + 1)
      BY <1>4
    <3>3. \A b \in Range(bars)' : Pos(b + 1)' <= endPos'
      BY <2>1, <2>4, <2>5, <3>2
    <3>4. Range(bars)' = Wanted(Len(file) + 1)'
      BY <1>2, <2>3, <2>4, <3>1
    <3>5. QED
      BY <3>3, <3>4 DEF Loaded
  <2>7. InFileOrder'
    <3>1. \A b \in Range(bars)' : startPos' <= Pos(b)'
      BY <1>2, <1>4, <2>1, <2>4
    <3>2. QED
      BY <1>2, <2>1, <2>4, <3>1 DEF InFileOrder
  <2>8. QED
    BY <2>1, <2>2, <2>6, <2>7 DEF FileInv, Opening, Bisecting, Searching, NoneWhenFailed,
       Reading
<1>8. CASE file[crt].kind # "other" /\ ~(IsBar(crt) /\ range # NoRange /\ Time(crt) > To)
  <2>1. /\ bars' = IF IsBar(crt) /\ InRange(crt) THEN Append(bars, crt) ELSE bars
        /\ crt' = crt + 1 /\ pc' = "read" /\ startPos' = startPos
    BY <1>1, <1>8 DEF ReadBarLine
  <2>2. Wanted(crt + 1) = Wanted(crt) \cup (IF IsBar(crt) /\ InRange(crt) THEN {crt} ELSE {})
    <3>1. \A i : i \in 1 .. crt <=> (i \in 1 .. crt - 1 \/ i = crt)
      BY <1>3
    <3>2. crt \in Nat
      BY <1>3
    <3>3. /\ \A i : i \in Wanted(crt + 1) <=> i \in 1 .. crt /\ IsBar(i) /\ InRange(i)
          /\ \A i : i \in Wanted(crt) <=> i \in 1 .. crt - 1 /\ IsBar(i) /\ InRange(i)
      BY <3>2, WantedIs
    <3>4. CASE IsBar(crt) /\ InRange(crt)
      <4>1. \A i : i \in Wanted(crt + 1) <=> i \in Wanted(crt) \cup {crt}
        <5>1. \A i : i \in Wanted(crt + 1) <=> (i \in Wanted(crt) \/ i = crt)
          BY <3>1, <3>3, <3>4, Zenon
        <5>2. QED
          BY <5>1
      <4>2. QED
        BY <3>4, <4>1, Zenon
    <3>5. CASE ~(IsBar(crt) /\ InRange(crt))
      <4>1. \A i : i \in Wanted(crt + 1) <=> i \in Wanted(crt)
        BY <3>1, <3>3, <3>5, Zenon
      <4>2. Wanted(crt + 1) = Wanted(crt)
        BY <4>1, Zenon
      <4>3. QED
        BY <3>5, <4>2
    <3>6. QED
      BY <3>4, <3>5
  <2>3. /\ bars' \in Seq(1 .. Len(file))
        /\ Range(bars)' = Wanted(crt + 1)
        /\ \A i, j \in DOMAIN bars' : i < j => bars'[i] < bars'[j]
    <3>1. CASE IsBar(crt) /\ InRange(crt)
      <4>1. PICK t : t = Append(bars, crt)
        OBVIOUS
      <4>2. /\ t \in Seq(1 .. Len(file)) /\ Range(t) = Range(bars) \cup {crt}
            /\ DOMAIN t = DOMAIN bars \cup {Len(bars) + 1}
            /\ DOMAIN bars = 1 .. Len(bars) /\ Len(bars) \in Nat
            /\ \A i \in DOMAIN bars : t[i] = bars[i]
            /\ t[Len(bars) + 1] = crt
        BY <1>3, <4>1, RangeOfAppend
      <4>3. \A i \in DOMAIN bars : bars[i] \in 1 .. crt - 1
        BY <1>2 DEF Wanted, Range
      <4>4. \A i, j \in DOMAIN t : i < j => t[i] < t[j]
        <5> SUFFICES ASSUME NEW i \in DOMAIN t, NEW j \in DOMAIN t, i < j
                     PROVE  t[i] < t[j]
          OBVIOUS
        <5>1. i \in DOMAIN bars
          BY <4>2
        <5>2. CASE j \in DOMAIN bars
          BY <1>2, <4>2, <5>1, <5>2
        <5>3. CASE j = Len(bars) + 1
          BY <1>3, <4>2, <4>3, <5>1, <5>3
        <5>4. QED
          BY <4>2, <5>2, <5>3
      <4>5. bars' = t
        BY <2>1, <3>1, <4>1
      <4>6. Range(bars)' = Range(t)
        BY <4>5 DEF Range
      <4>7. QED
        BY <1>2, <2>2, <3>1, <4>2, <4>4, <4>5, <4>6
    <3>2. CASE ~(IsBar(crt) /\ InRange(crt))
      <4>1. bars' = bars
        BY <2>1, <3>2
      <4>2. Range(bars)' = Range(bars)
        BY <4>1 DEF Range
      <4>3. QED
        BY <1>2, <1>3, <2>2, <3>2, <4>1, <4>2
    <3>3. QED
      BY <3>1, <3>2
  <2>4. crt' \in 1 .. Len(file) + 1
    BY <1>3, <2>1
  <2>5. FileTypes'
    BY <1>1, <1>2, <1>3, <2>3, <2>4, TypesStay
  <2>6. Pos(crt) <= Pos(crt + 1)
    <3>1. Pos(crt) + 2 <= Pos(crt + 1)
      BY <1>2, <1>3, LinesAreApart
    <3>2. QED
      BY <1>3, <1>5, <3>1
  <2>7. Reading'
    <3>1. Wanted(crt)' = Wanted(crt + 1)
      <4>1. Wanted(crt)' = {i \in 1 .. (crt + 1) - 1 : IsBar(i)' /\ InRange(i)'}
        BY <2>1 DEF Wanted
      <4>2. QED
        BY <1>4, <4>1, Zenon DEF Wanted
    <3>2. Pos(crt)' = Pos(crt + 1)
      <4>1. PICK n : n = crt + 1
        OBVIOUS
      <4>2. Pos(crt)' = Pos(n)'
        BY <2>1, <4>1 DEF Pos
      <4>3. QED
        BY <1>4, <4>1, <4>2
    <3>3. startPos' <= Pos(crt)'
      BY <1>2, <1>3, <1>5, <2>1, <2>6, <3>2
    <3>4. range' = NoRange' => endPos' = FileSize'
      BY <1>1, <1>2, <1>3, <1>4 DEF NoRange
    <3>5. QED
      BY <2>3, <3>1, <3>3, <3>4 DEF Reading
  <2>8. InFileOrder'
    <3>1. \A b \in Range(bars)' : b \in Range(bars) \/ b = crt
      BY <1>2, <2>2, <2>3
    <3>2. \A b \in Range(bars)' : startPos' <= Pos(b)'
      BY <1>2, <1>4, <2>1, <3>1
    <3>3. QED
      BY <1>2, <2>1, <2>3, <3>2 DEF InFileOrder
  <2>9. QED
    BY <2>1, <2>5, <2>7, <2>8 DEF FileInv, Opening, Bisecting, Searching, NoneWhenFailed,
       Loaded
<1>9. QED
  BY <1>6, <1>7, <1>8

\* At the end of the file all of its lines were read.
LEMMA ReadEndKeeps ==
  ASSUME FileInv, ReadEnd
  PROVE  FileInv'
<1>1. /\ pc = "read" /\ crt > Len(file) /\ pc' = "close"
      /\ endPos' = IF range # NoRange /\ ended THEN FileSize ELSE endPos
      /\ UNCHANGED <<input, begin, end, crt, bars, startPos>>
  BY DEF ReadEnd
<1>2. /\ FileTypes /\ Range(bars) = Wanted(crt) /\ startPos \in Nat
      /\ range = NoRange => endPos = FileSize
      /\ \A b \in Range(bars) : startPos <= Pos(b)
      /\ \A i, j \in DOMAIN bars : i < j => bars[i] < bars[j]
  BY <1>1 DEF FileInv, Reading, InFileOrder
<1>3. /\ crt = Len(file) + 1 /\ Len(file) \in Nat /\ Len(file)' = Len(file)
      /\ ended' = ended
  BY <1>1, <1>2 DEF FileTypes, input
<1>4. /\ \A i : Pos(i)' = Pos(i) /\ IsBar(i)' = IsBar(i) /\ InRange(i)' = InRange(i)
  BY <1>1, FileStays
<1>5. FileTypes'
  BY <1>1, <1>2, TypesStay DEF FileTypes
<1>6. Range(bars)' = Range(bars) /\ DOMAIN bars' = DOMAIN bars
  BY <1>1 DEF Range
<1>7. ended => \A b \in Range(bars) : Pos(b + 1) <= endPos'
  <2> SUFFICES ASSUME ended, NEW b \in Range(bars) PROVE Pos(b + 1) <= endPos'
    OBVIOUS
  <2>1. endPos' = Pos(Len(file) + 1)
    BY <1>1, <1>2, SizeOfFile
  <2>2. b \in 1 .. Len(file)
    BY <1>2, <1>3 DEF Wanted
  <2>3. /\ b + 1 \in 1 .. Len(file) + 1 /\ Len(file) + 1 \in 1 .. Len(file) + 1
        /\ (b + 1 = Len(file) + 1 \/ b + 1 < Len(file) + 1)
    BY <1>3, <2>2
  <2>4. Pos(b + 1) \in Nat /\ Pos(Len(file) + 1) \in Nat
    BY <1>2, <2>3, LinesAreApart
  <2>5. b + 1 < Len(file) + 1 => Pos(b + 1) + 2 <= Pos(Len(file) + 1)
    BY <1>2, <2>3, LinesAreApart
  <2>6. QED
    BY <2>1, <2>3, <2>4, <2>5
<1>8. Loaded'
  <2>2. Wanted(Len(file) + 1)' = Wanted(Len(file) + 1)
    BY <1>1, WantedStays
  <2>3. Range(bars)' = Wanted(Len(file) + 1)'
    BY <1>2, <1>3, <1>6, <2>2
  <2>4. ~(crt' <= Len(file)')
    BY <1>1, <1>3
  <2>5. \A b : Pos(b + 1)' = Pos(b + 1)
    BY <1>4
  <2>6. ended' => \A b \in Range(bars)' : Pos(b + 1)' <= endPos'
    BY <1>3, <1>6, <1>7, <2>5
  <2>7. QED
    BY <2>3, <2>4, <2>6 DEF Loaded
<1>9. InFileOrder'
  <2>1. \A b \in Range(bars)' : startPos' <= Pos(b)'
    BY <1>1, <1>2, <1>4, <1>6
  <2>2. QED
    BY <1>1, <1>2, <1>6, <2>1 DEF InFileOrder
<1>10. QED
  BY <1>1, <1>5, <1>8, <1>9 DEF FileInv, Opening, Bisecting, Searching, NoneWhenFailed,
     Reading

\* Nothing is loaded only if there was nothing to be loaded.
LEMMA CloseKeeps ==
  ASSUME FileInv, Close
  PROVE  FileInv'
<1>1. /\ pc = "close" /\ pc' = IF bars = <<>> THEN "failed" ELSE "done"
      /\ UNCHANGED <<input, begin, end, crt, bars, startPos, endPos>>
  BY DEF Close
<1>2. FileTypes /\ Range(bars) = Wanted(Len(file) + 1) /\ Len(file) \in Nat
  BY <1>1 DEF FileInv, Loaded, FileTypes
<1>3. CASE bars = <<>>
  <2>1. Wanted(Len(file) + 1) = {}
    BY <1>2, <1>3 DEF Range
  <2>2. \A i \in 1 .. Len(file) : ~(IsBar(i) /\ InRange(i))
    BY <1>2, <2>1, WantedIs
  <2>3. OnlyBars => \A i \in 1 .. Len(file) : ~InRange(i)
    BY <2>2, Zenon DEF OnlyBars
  <2>4. /\ begin' \in 0 .. Len(file) /\ end' \in 0 .. Len(file)
        /\ crt' \in 1 .. Len(file) + 1 /\ pc' = "failed"
    BY <1>1, <1>2, <1>3 DEF FileTypes
  <2>5. QED
    BY <1>1, <2>3, <2>4, SearchFails
<1>4. CASE bars # <<>>
  <2>1. pc' = "done"
    BY <1>1, <1>4
  <2>2. /\ \A i : Pos(i)' = Pos(i) /\ IsBar(i)' = IsBar(i) /\ InRange(i)' = InRange(i)
        /\ Len(file)' = Len(file) /\ ended' = ended
    BY <1>1, FileStays DEF input
  <2>3. Range(bars)' = Range(bars) /\ DOMAIN bars' = DOMAIN bars
    BY <1>1 DEF Range
  <2>4. FileTypes'
    BY <1>1, <1>2, TypesStay DEF FileTypes
  <2>5. Loaded'
    <3>2. Wanted(Len(file) + 1)' = Wanted(Len(file) + 1)
      BY <1>1, WantedStays
    <3>3. ended \/ crt <= Len(file) => \A b \in Range(bars) : Pos(b + 1) <= endPos
      BY <1>1 DEF FileInv, Loaded
    <3>4. \A b : Pos(b + 1)' = Pos(b + 1)
      BY <2>2
    <3>5. ended' \/ crt' <= Len(file)' => \A b \in Range(bars)' : Pos(b + 1)' <= endPos'
      BY <1>1, <2>2, <2>3, <3>3, <3>4
    <3>6. Range(bars)' = Wanted(Len(file) + 1)'
      BY <1>2, <2>3, <3>2
    <3>7. QED
      BY <3>5, <3>6 DEF Loaded
  <2>6. InFileOrder'
    <3>1. /\ startPos \in Nat /\ \A b \in Range(bars) : startPos <= Pos(b)
          /\ \A i, j \in DOMAIN bars : i < j => bars[i] < bars[j]
      BY <1>1 DEF FileInv, InFileOrder
    <3>2. \A b \in Range(bars)' : startPos' <= Pos(b)'
      BY <1>1, <2>2, <2>3, <3>1
    <3>3. QED
      BY <1>1, <2>3, <3>1, <3>2 DEF InFileOrder
  <2>7. QED
    BY <2>1, <2>4, <2>5, <2>6 DEF FileInv, Opening, Bisecting, Searching, NoneWhenFailed,
       Reading
<1>5. QED
  BY <1>3, <1>4

\* When nothing happens, nothing changes.
LEMMA FileStutter ==
  ASSUME FileInv, UNCHANGED fileVars
  PROVE  FileInv'
<1>1. /\ UNCHANGED <<input, pc, begin, end, crt, bars, startPos, endPos>>
      /\ file' = file /\ ended' = ended /\ range' = range
  BY DEF fileVars, input
<1>2. /\ \A i : Pos(i)' = Pos(i) /\ IsBar(i)' = IsBar(i) /\ InRange(i)' = InRange(i)
      /\ FileSize' = FileSize /\ OnlyBars' = OnlyBars /\ From' = From
  BY <1>1, FileStays
<1>3. Len(file)' = Len(file) /\ Range(bars)' = Range(bars) /\ DOMAIN bars' = DOMAIN bars
  BY <1>1 DEF Range
<1>4. FileTypes'
  BY <1>1, TypesStay DEF FileInv, FileTypes
<1>5. Opening' /\ Bisecting'
  <2>1. IsBar(crt)' = IsBar(crt) /\ IsBar(begin)' = IsBar(begin) /\ IsBar(end)' = IsBar(end)
    BY <1>1 DEF IsBar
  <2>2. Opening'
    BY <1>1, <1>2, <2>1 DEF FileInv, Opening, NoRange
  <2>3. Bisecting'
    BY <1>1, <1>2, <2>1 DEF FileInv, Bisecting, Time
  <2>4. QED
    BY <2>2, <2>3
<1>6. Searching' /\ NoneWhenFailed'
  BY <1>1, <1>2, <1>3 DEF FileInv, Searching, NoneWhenFailed, NoRange
<1>7. Wanted(crt)' = Wanted(crt) /\ Wanted(Len(file) + 1)' = Wanted(Len(file) + 1)
  BY <1>1, Zenon DEF Wanted, IsBar, InRange, From, To
<1>8. Pos(crt)' = Pos(crt)
  <2>1. PICK n : n = crt
    OBVIOUS
  <2>2. Pos(crt)' = Pos(n)'
    BY <1>1, <2>1 DEF Pos
  <2>3. QED
    BY <1>2, <2>1, <2>2
<1>9. Reading'
  BY <1>1, <1>2, <1>3, <1>7, <1>8 DEF FileInv, Reading, NoRange
<1>10. Loaded'
  <2>1. \A b : Pos(b + 1)' = Pos(b + 1)
    BY <1>2
  <2>2. QED
    BY <1>1, <1>3, <1>7, <2>1 DEF FileInv, Loaded
<1>11. InFileOrder'
  <2>1. pc' \in {"read", "close", "done"} => \A b \in Range(bars)' : startPos' <= Pos(b)'
    BY <1>1, <1>2, <1>3 DEF FileInv, InFileOrder
  <2>2. QED
    BY <1>1, <1>3, <2>1 DEF FileInv, InFileOrder
<1>12. QED
  BY <1>4, <1>5, <1>6, <1>9, <1>10, <1>11 DEF FileInv

\* A file and a range to begin with.
LEMMA FileStart ==
  ASSUME Init
  PROVE  FileInv
<1>1. pc = "open" /\ begin = 0 /\ end = 0 /\ crt = 1 /\ bars = <<>>
  BY DEF Init, Idle, FileInit
<1>2. FileInit \/ (file = <<[kind |-> "other", len |-> 2]>> /\ ended = TRUE /\ range = NoRange)
  BY DEF Init, Idle
<1>3. /\ Len(file) \in Nat \ {0}
      /\ file \in [1 .. Len(file) -> [kind : {"bar", "comment", "other"}, len : Nat \ {0, 1}]]
  <2>1. CASE FileInit
    <3>1. PICK n \in 1 .. FileLines : file \in [1 .. n -> [kind : {"bar", "comment", "other"}, len : Lens]]
      BY <2>1 DEF FileInit, Files
    <3>2. n \in Nat \ {0}
      BY <3>1, FileLinesAssumption
    <3>3. file \in [1 .. n -> [kind : {"bar", "comment", "other"}, len : Nat \ {0, 1}]]
      BY <3>1, LensAssumption
    <3>4. Len(file) = n
      BY <3>2, <3>3
    <3>5. QED
      BY <3>2, <3>3, <3>4
  <2>2. CASE file = <<[kind |-> "other", len |-> 2]>>
    BY <2>2
  <2>3. QED
    BY <1>2, <2>1, <2>2
<1>4. ended \in BOOLEAN /\ range \in Nat \X Nat
  <2>1. Latest \in Nat
    BY FileLinesAssumption DEF Latest
  <2>2. CASE FileInit
    BY <2>1, <2>2 DEF FileInit, NoRange
  <2>3. CASE ended = TRUE /\ range = NoRange
    BY <2>3 DEF NoRange
  <2>4. QED
    BY <1>2, <2>2, <2>3
<1>5. FileTypes
  BY <1>1, <1>3, <1>4 DEF FileTypes
<1>6. QED
  BY <1>1, <1>3, <1>5 DEF FileInv, Opening, Bisecting, Searching, NoneWhenFailed, Reading,
     Loaded, InFileOrder

\* All of it holds while the bars of a symbol are read.
LEMMA FileInvariant == Spec => []FileInv
<1>1. FileInv /\ [Next]_vars => FileInv'
  <2> SUFFICES ASSUME FileInv, [Next]_vars PROVE FileInv'
    OBVIOUS
  <2>1. FileNext \/ UNCHANGED fileVars
    BY DEF Next, FileStep, vars
  <2>2. QED
    BY <2>1, OpenAllKeeps, FirstTimeStampKeeps, LastTimeStampKeeps, BisectKeeps,
       ReadBarLineKeeps, ReadEndKeeps, CloseKeeps, FileStutter DEF FileNext
<1>2. QED
  BY <1>1, FileStart, PTL DEF Spec

\* A file of bars (fileplugins/DataSource.h: findStart, parseBars, makeBars): for
\* every file and range, what is loaded is the bars of the range in their order, a
\* file of nothing but bars fails only if none is in the range, and the location
\* that is recorded holds all of them.
THEOREM BarsAreTheRangeAlways == Spec => []BarsAreTheRange
<1>1. FileInv => BarsAreTheRange
  <2> SUFFICES ASSUME FileInv PROVE BarsAreTheRange
    OBVIOUS
  <2>1. FileTypes /\ Len(file) \in Nat /\ DOMAIN bars = 1 .. Len(bars)
    BY DEF FileInv, FileTypes
  <2>2. ASSUME pc = "done"
        PROVE  /\ Range(bars) = {i \in 1 .. Len(file) : IsBar(i) /\ InRange(i)}
               /\ \A i, j \in DOMAIN bars : i < j => bars[i] < bars[j]
    <3>1. \A i : i \in Wanted(Len(file) + 1) <=> i \in 1 .. Len(file) /\ IsBar(i) /\ InRange(i)
      BY <2>1, WantedIs
    <3>2. Wanted(Len(file) + 1) = {i \in 1 .. Len(file) : IsBar(i) /\ InRange(i)}
      BY <3>1, Zenon
    <3>3. QED
      BY <2>2, <3>2 DEF FileInv, Loaded, InFileOrder
  <2>3. ASSUME pc = "failed", \A i \in 1 .. Len(file) : IsBar(i)
        PROVE  \A i \in 1 .. Len(file) : ~InRange(i)
    BY <2>3 DEF FileInv, NoneWhenFailed, OnlyBars
  <2>4. ASSUME pc = "done", ended \/ crt <= Len(file)
        PROVE  \A i \in 1 .. Len(bars) : startPos <= Pos(bars[i]) /\ Pos(bars[i] + 1) <= endPos
    <3>1. \A i \in 1 .. Len(bars) : bars[i] \in Range(bars)
      BY <2>1 DEF Range
    <3>2. QED
      BY <2>4, <3>1 DEF FileInv, Loaded, InFileOrder
  <2>5. QED
    BY <2>2, <2>3, <2>4 DEF BarsAreTheRange
<1>2. QED
  BY <1>1, FileInvariant, PTL
-----------------------------------------------------------------------------
(* Orders *)

EntryOrders ==
  [verb : {"buy", "short"}, kind : Kinds, price : Prices, symbol : BarSymbols,
   shares : OrderSizes, sizing : BOOLEAN, of : {0}]
ExitOrders ==
  [verb : {"sell", "cover"}, kind : Kinds, price : Prices, symbol : BarSymbols,
   of : Nat, sizing : {FALSE}]
OrdersOfSystem == EntryOrders \cup ExitOrders

BookedPositions ==
  [side : {"long", "short"}, kind : Kinds, shares : Nat \ {0}, symbol : BarSymbols,
   sizing : BOOLEAN, asked : EntryOrders, exit : Kinds \cup {"open"},
   askedExit : Kinds \cup {"open"}]
GivenSignals ==
  [verb : {"buy", "short", "sell", "cover"}, kind : Kinds, price : Prices,
   shares : Nat \ {0}, sizing : BOOLEAN, of : Nat, symbol : BarSymbols,
   asked : OrdersOfSystem]

ExitKept(p) ==
  p.exit = p.askedExit \/ (setup.given /\ p.askedExit = "limit" /\ p.exit = "stop"
                            /\ p.side = "long")
GoodPosition(p) == p \in BookedPositions /\ Kept(EntryOf(p), p.asked) /\ ExitKept(p)
GoodSignal(s, n) == s \in GivenSignals /\ Kept(s, s.asked) /\ s.of \in 0 .. n

\* A book in which positions and signals are what was asked for, and which all
\* handlers have heard of.
GoodBook(b) ==
  /\ b = [positions |-> b.positions, signals |-> b.signals, thrown |-> b.thrown,
          heard |-> b.heard]
  /\ b.thrown \in BOOLEAN
  /\ b.positions \in Seq(BookedPositions) /\ b.signals \in Seq(GivenSignals)
  /\ \A n \in 1 .. Len(b.positions) : GoodPosition(b.positions[n])
  /\ \A i \in 1 .. Len(b.signals) : GoodSignal(b.signals[i], Len(b.positions))
  /\ b.heard = [h \in Heard |-> [i \in 1 .. Len(b.signals) |-> i]]

SetupType ==
  setup \in [given : BOOLEAN, filter : {"none", "default", "user"}, handled : BOOLEAN]

SweepType ==
  /\ sweep \in [sides : SUBSET {"long", "short"}, kind : Kinds, price : Prices,
                symbol : BarSymbols, at : Places, left : SUBSET Nat, before : Nat]
  /\ sweep.left \subseteq Swept(sweep.sides)
  /\ sweep.before <= Len(book.signals)

\* What is left to close has no signal yet, and what was reached is closed or has one.
SweepGoesOn == ~book.thrown =>
  /\ \A n \in sweep.left : SignalsOf(n) = {}
  /\ (~MayDecline /\ ~Priced(sweep.kind) /\ sweep.at \in {"bar", "next"}) =>
       \A n \in Swept(sweep.sides) \ sweep.left :
         sweep.at = "next" /\ IsOne(SignalsOf(n))

WhileTrading == stage = "trading" => GoodBook(book) /\ SweepType /\ SweepGoesOn

\* What is left of the book when the positions are sized.
WhenSized == stage \in {"sized", "saved", "counted"} =>
  /\ book = [positions |-> book.positions, signals |-> book.signals,
             thrown |-> book.thrown, heard |-> book.heard]
  /\ \E m \in Nat :
       /\ DOMAIN book.signals = 1 .. m
       /\ book.heard = [h \in Heard |-> [i \in 1 .. m |-> i]]
  /\ \A i \in DOMAIN book.signals :
       book.signals[i] = [of |-> book.signals[i].of, sizing |-> book.signals[i].sizing,
                          shares |-> book.signals[i].shares]
  /\ stage = "sized" => \A i \in DOMAIN book.signals : book.signals[i].shares > 0
  /\ sweep.left = {}

WhenSaved == stage \in {"saved", "counted"} =>
  /\ \A i \in DOMAIN book.signals : ~IsEntry(book.signals[i]) =>
       book.signals[i].shares = book.positions[book.signals[i].of].shares
  /\ written.final = EnabledOf(book.signals, book.heard[File])
  /\ written.raw = Cardinality(DOMAIN book.signals)

OrdersInv ==
  /\ SetupType /\ stage \in {"trading", "sized", "saved", "counted"}
  /\ WhileTrading /\ WhenSized /\ WhenSaved
  /\ stage = "counted" => processed = written.final

\* An order at the market or at the close is filled on every bar.
LEMMA FilledAnyway ==
  ASSUME NEW o, NEW at, o.kind \in {"market", "close"}, CanMiss(o, at)
  PROVE  at # "bar"
<1> SUFFICES ASSUME <<o.verb, o.kind, o.price>> \in MayMiss PROVE FALSE
  BY DEF CanMiss
<1> DEFINE verb == o.verb
           kind == o.kind
           p == o.price
<1>1. verb \in {"buy", "short", "sell", "cover"} /\ \E b, s : Fill(verb, kind, b, p, s) = {}
  BY DEF MayMiss, PricedOrders
<1>2. PICK b, s : Fill(verb, kind, b, p, s) = {}
  BY <1>1
<1>3. CASE kind = "market"
  BY <1>1, <1>2, <1>3 DEF Fill, Order!BuyAtMarket, Order!ShortAtMarket, Order!SellAtMarket,
     Order!CoverAtMarket
<1>4. CASE kind = "close"
  BY <1>1, <1>2, <1>4 DEF Fill, Order!BuyAtClose, Order!ShortAtClose, Order!SellAtClose,
     Order!CoverAtClose
<1>5. QED
  BY <1>3, <1>4

\* What an entry may come to.
LEMMA EnterGives ==
  ASSUME NEW b, NEW o, NEW asked, NEW at, NEW c \in Enter(b, o, asked, at)
  PROVE  \/ c = b \/ c = Thrown(b)
         \/ \E n \in FilteredShares(o) :
              /\ n # 0 \/ setup.filter = "none"
              /\ \/ c = Booked(b, o, n, asked)
                 \/ c = Signalled(b, SignalOf(o, n, asked))
<1>1. CASE BadPrice(o)
  BY <1>1 DEF Enter
<1>2. CASE ~BadPrice(o)
  <2>1. PICK n \in FilteredShares(o) :
          c \in IF n = 0 /\ setup.filter # "none" THEN {b}
                ELSE CASE at \in {"bar", "outside"} -> Tried(b, Booked(b, o, n, asked), o, at)
                       [] at = "next" /\ setup.handled -> {Signalled(b, SignalOf(o, n, asked))}
                       [] OTHER -> {Thrown(b)}
    BY <1>2 DEF Enter
  <2>2. CASE n = 0 /\ setup.filter # "none"
    BY <2>1, <2>2
  <2>3. CASE ~(n = 0 /\ setup.filter # "none") /\ at \in {"bar", "outside"}
    <3>1. c \in Tried(b, Booked(b, o, n, asked), o, at)
      BY <2>1, <2>3
    <3>2. c = b \/ c = Booked(b, o, n, asked)
      BY <3>1, Zenon DEF Tried
    <3>3. QED
      BY <2>3, <3>2
  <2>4. CASE ~(n = 0 /\ setup.filter # "none") /\ at \notin {"bar", "outside"}
    BY <2>1, <2>4
  <2>5. QED
    BY <2>2, <2>3, <2>4
<1>3. QED
  BY <1>1, <1>2

\* What an exit may come to.
LEMMA LeaveGives ==
  ASSUME NEW b, NEW o, NEW asked, NEW at, NEW c \in Leave(b, o, asked, at)
  PROVE  \/ c = Thrown(b)
         \/ c = b /\ (MayDecline \/ CanMiss(o, at))
         \/ /\ o.of # 0 /\ b.positions[o.of].exit = "open"
            /\ b.positions[o.of].side = SideOf(o.verb)
            /\ c = Closed(b, o, asked) /\ CanFill(o, at)
         \/ /\ o.of # 0 /\ at = "next" /\ b.positions[o.of].symbol = o.symbol
            /\ c = Signalled(b, SignalOf(o, b.positions[o.of].shares, asked))
<1> DEFINE p == b.positions[o.of]
           filled == IF p.exit # "open" \/ p.side # SideOf(o.verb) THEN Thrown(b)
                     ELSE Closed(b, o, asked)
<1>1. CASE UnknownId(o) \/ BadPrice(o) \/ p.symbol # o.symbol
  BY <1>1, Zenon DEF Leave
<1>2. CASE ~UnknownId(o) /\ ~BadPrice(o) /\ p.symbol = o.symbol
  <2> DEFINE outcomes ==
        CASE at \in {"bar", "outside"} -> Tried(b, filled, o, at)
          [] at = "next" /\ setup.handled -> {Signalled(b, SignalOf(o, p.shares, asked))}
          [] OTHER -> {Thrown(b)}
  <2>1. (MayDecline /\ c = b) \/ c \in outcomes
    BY <1>2, Zenon DEF Leave
  <2>2. CASE MayDecline /\ c = b
    BY <2>2
  <2>3. CASE c \in outcomes /\ at \in {"bar", "outside"}
    <3>1. c \in Tried(b, filled, o, at)
      BY <2>3
    <3>2. (CanFill(o, at) /\ c = filled) \/ (CanMiss(o, at) /\ c = b)
      <4> HIDE DEF filled
      <4> QED
        BY <3>1, Zenon DEF Tried
    <3>3. QED
      BY <1>2, <3>2 DEF UnknownId
  <2>4. CASE c \in outcomes /\ at \notin {"bar", "outside"}
    BY <1>2, <2>4 DEF UnknownId
  <2>5. QED
    BY <2>1, <2>2, <2>3, <2>4
<1>3. QED
  BY <1>1, <1>2
\* A book is made of its four parts.
LEMMA BookWith ==
  ASSUME NEW b, NEW P, NEW S, NEW T, NEW H, NEW x,
         b = [positions |-> P, signals |-> S, thrown |-> T, heard |-> H]
  PROVE  /\ [b EXCEPT !.thrown = x] = [positions |-> P, signals |-> S, thrown |-> x, heard |-> H]
         /\ b.positions = P /\ b.signals = S /\ b.thrown = T /\ b.heard = H
<1>1. [b EXCEPT !.thrown = x] = [positions |-> P, signals |-> S, thrown |-> x, heard |-> H]
  BY SMTT(20)
<1>2. b.positions = P /\ b.signals = S /\ b.thrown = T /\ b.heard = H
  OBVIOUS
<1>3. QED
  BY <1>1, <1>2, Zenon

\* A book of good positions and good signals is a good one.
LEMMA MakesGood ==
  ASSUME NEW P \in Seq(BookedPositions), NEW S \in Seq(GivenSignals), NEW T \in BOOLEAN,
         NEW H, H = [h \in Heard |-> [i \in 1 .. Len(S) |-> i]],
         \A n \in 1 .. Len(P) : GoodPosition(P[n]),
         \A i \in 1 .. Len(S) : GoodSignal(S[i], Len(P))
  PROVE  GoodBook([positions |-> P, signals |-> S, thrown |-> T, heard |-> H])
<1>1. PICK b : b = [positions |-> P, signals |-> S, thrown |-> T, heard |-> H]
  OBVIOUS
<1>2. b.positions = P /\ b.signals = S /\ b.thrown = T /\ b.heard = H
  BY <1>1, BookWith
<1>3. GoodBook(b)
  BY <1>1, <1>2, Zenon DEF GoodBook
<1>4. QED
  BY <1>1, <1>3, Zenon

\* The parts of the books that come of an order.
LEMMA BookParts ==
  ASSUME NEW b, GoodBook(b), NEW o, NEW n, NEW asked, NEW s
  PROVE  /\ Thrown(b) = [positions |-> b.positions, signals |-> b.signals, thrown |-> TRUE,
                         heard |-> b.heard]
         /\ Booked(b, o, n, asked)
              = [positions |-> Append(b.positions,
                   [side |-> SideOf(o.verb), kind |-> o.kind, shares |-> n,
                    symbol |-> o.symbol, sizing |-> o.sizing, asked |-> asked,
                    exit |-> "open", askedExit |-> "open"]),
                 signals |-> b.signals, thrown |-> b.thrown, heard |-> b.heard]
         /\ Signalled(b, s)
              = [positions |-> b.positions, signals |-> Append(b.signals, s),
                 thrown |-> b.thrown,
                 heard |-> [h \in Heard |-> [i \in 1 .. Len(b.signals) + 1 |-> i]]]
<1>1. PICK P, S, T, H : b = [positions |-> P, signals |-> S, thrown |-> T, heard |-> H]
  BY Zenon DEF GoodBook
<1>2. b.positions = P /\ b.signals = S /\ b.thrown = T /\ b.heard = H
  BY <1>1, BookWith
<1>3. S \in Seq(GivenSignals) /\ H = [h \in Heard |-> [i \in 1 .. Len(S) |-> i]]
  BY <1>2, Zenon DEF GoodBook
<1>4. [h \in Heard |-> Append(b.heard[h], Len(b.signals) + 1)]
        = [h \in Heard |-> [i \in 1 .. Len(S) + 1 |-> i]]
  <2> SUFFICES ASSUME NEW h \in Heard
               PROVE Append(b.heard[h], Len(b.signals) + 1) = [i \in 1 .. Len(S) + 1 |-> i]
    BY Zenon
  <2>1. b.heard[h] = [i \in 1 .. Len(S) |-> i] /\ b.signals = S /\ Len(S) \in Nat
    BY <1>2, <1>3
  <2>2. QED
    BY <2>1
<1> DEFINE p == [side |-> SideOf(o.verb), kind |-> o.kind, shares |-> n,
                 symbol |-> o.symbol, sizing |-> o.sizing, asked |-> asked,
                 exit |-> "open", askedExit |-> "open"]
<1>5. Thrown(b) = [b EXCEPT !.thrown = TRUE]
      /\ Booked(b, o, n, asked) = [b EXCEPT !.positions = Append(b.positions, p)]
      /\ Signalled(b, s) = [b EXCEPT !.signals = Append(b.signals, s),
                              !.heard = [h \in Heard |-> Append(b.heard[h], Len(b.signals) + 1)]]
  BY Zenon DEF Thrown, Booked, Signalled
<1> HIDE DEF p
<1>6. Thrown(b) = [positions |-> P, signals |-> S, thrown |-> TRUE, heard |-> H]
  BY <1>1, <1>5, BookWith
<1>7. Booked(b, o, n, asked)
        = [positions |-> Append(P, p), signals |-> S, thrown |-> T, heard |-> H]
  <2>1. PICK x : x = Append(P, p)
    OBVIOUS
  <2>2. [b EXCEPT !.positions = x] = [positions |-> x, signals |-> S, thrown |-> T, heard |-> H]
    BY <1>1, SMTT(20)
  <2>3. Booked(b, o, n, asked) = [b EXCEPT !.positions = x]
    BY <1>2, <1>5, <2>1, Zenon
  <2>4. QED
    BY <2>1, <2>2, <2>3, Zenon
<1>8. Signalled(b, s)
        = [positions |-> P, signals |-> Append(S, s), thrown |-> T,
           heard |-> [h \in Heard |-> [i \in 1 .. Len(S) + 1 |-> i]]]
  <2>1. PICK x, y : x = Append(S, s) /\ y = [h \in Heard |-> [i \in 1 .. Len(S) + 1 |-> i]]
    OBVIOUS
  <2>2. [[b EXCEPT !.signals = x] EXCEPT !.heard = y]
          = [positions |-> P, signals |-> x, thrown |-> T, heard |-> y]
    <3>1. PICK c : c = [b EXCEPT !.signals = x]
      OBVIOUS
    <3>2. c = [positions |-> P, signals |-> x, thrown |-> T, heard |-> H]
      BY <1>1, <3>1, SMTT(20)
    <3>3. [c EXCEPT !.heard = y] = [positions |-> P, signals |-> x, thrown |-> T, heard |-> y]
      BY <3>2, SMTT(20)
    <3>4. QED
      BY <3>1, <3>3, Zenon
  <2>3. Append(b.signals, s) = x
        /\ [h \in Heard |-> Append(b.heard[h], Len(b.signals) + 1)] = y
    BY <1>2, <1>4, <2>1, Zenon
  <2>4. Signalled(b, s) = [[b EXCEPT !.signals = x] EXCEPT !.heard = y]
    BY <1>5, <2>3, Zenon
  <2>5. QED
    BY <2>1, <2>2, <2>4, Zenon
<1>9. QED
  BY <1>2, <1>6, <1>7, <1>8, Zenon DEF p

\* An exception leaves the book as it is.
LEMMA ThrownIsGood ==
  ASSUME NEW b, GoodBook(b)
  PROVE  GoodBook(Thrown(b))
<1>1. Thrown(b) = [positions |-> b.positions, signals |-> b.signals, thrown |-> TRUE,
                   heard |-> b.heard]
  BY BookParts
<1>2. QED
  BY <1>1, MakesGood DEF GoodBook

\* A position that is good makes a book that is.
LEMMA BookedIsGood ==
  ASSUME NEW b, GoodBook(b), NEW o, NEW n, NEW asked, NEW p, GoodPosition(p),
         p = [side |-> SideOf(o.verb), kind |-> o.kind, shares |-> n,
              symbol |-> o.symbol, sizing |-> o.sizing, asked |-> asked,
              exit |-> "open", askedExit |-> "open"]
  PROVE  GoodBook(Booked(b, o, n, asked))
<1> DEFINE P == b.positions
           S == b.signals
           Q == Append(P, p)
<1>1. Booked(b, o, n, asked)
        = [positions |-> Q, signals |-> S, thrown |-> b.thrown, heard |-> b.heard]
  BY BookParts
<1>2. P \in Seq(BookedPositions) /\ p \in BookedPositions /\ b.thrown \in BOOLEAN
      /\ S \in Seq(GivenSignals) /\ b.heard = [h \in Heard |-> [i \in 1 .. Len(S) |-> i]]
  BY DEF GoodBook, GoodPosition
<1>3. Q \in Seq(BookedPositions) /\ Len(Q) = Len(P) + 1 /\ Len(P) \in Nat
      /\ \A k \in 1 .. Len(Q) : Q[k] = IF k <= Len(P) THEN P[k] ELSE p
  BY <1>2
<1>4. \A k \in 1 .. Len(Q) : GoodPosition(Q[k])
  <2>1. \A k \in 1 .. Len(P) : GoodPosition(P[k])
    BY DEF GoodBook
  <2>2. QED
    BY <1>3, <2>1
<1>5. \A i \in 1 .. Len(S) : GoodSignal(S[i], Len(Q))
  <2>1. \A i \in 1 .. Len(S) : GoodSignal(S[i], Len(P))
    BY DEF GoodBook
  <2>2. \A s : GoodSignal(s, Len(P)) => GoodSignal(s, Len(Q))
    BY <1>3 DEF GoodSignal
  <2>3. QED
    BY <2>1, <2>2, Zenon
<1>6. GoodBook([positions |-> Q, signals |-> S, thrown |-> b.thrown, heard |-> b.heard])
  <2> HIDE DEF P, Q, S
  <2> QED
    BY <1>2, <1>3, <1>4, <1>5, MakesGood, Zenon
<1>7. QED
  BY <1>1, <1>6, Zenon

\* A signal that is good makes a book that is.
LEMMA SignalledIsGood ==
  ASSUME NEW b, GoodBook(b), NEW s, GoodSignal(s, Len(b.positions))
  PROVE  GoodBook(Signalled(b, s))
<1> DEFINE P == b.positions
           S == b.signals
           R == Append(S, s)
<1>1. Signalled(b, s)
        = [positions |-> P, signals |-> R, thrown |-> b.thrown,
           heard |-> [h \in Heard |-> [i \in 1 .. Len(S) + 1 |-> i]]]
  BY BookParts
<1>2. P \in Seq(BookedPositions) /\ s \in GivenSignals /\ b.thrown \in BOOLEAN
      /\ S \in Seq(GivenSignals) /\ \A n \in 1 .. Len(P) : GoodPosition(P[n])
  BY DEF GoodBook, GoodSignal
<1>3. R \in Seq(GivenSignals) /\ Len(R) = Len(S) + 1 /\ Len(S) \in Nat
      /\ \A k \in 1 .. Len(R) : R[k] = IF k <= Len(S) THEN S[k] ELSE s
  BY <1>2
<1>4. \A i \in 1 .. Len(R) : GoodSignal(R[i], Len(P))
  <2>1. \A i \in 1 .. Len(S) : GoodSignal(S[i], Len(P))
    BY DEF GoodBook
  <2>2. QED
    BY <1>3, <2>1
<1> DEFINE H == [h \in Heard |-> [i \in 1 .. Len(S) + 1 |-> i]]
<1>5. H = [h \in Heard |-> [i \in 1 .. Len(R) |-> i]]
  <2>1. Len(R) = Len(S) + 1
    BY <1>3
  <2> HIDE DEF R, S
  <2>2. QED
    BY <2>1, Zenon
<1>6. GoodBook([positions |-> P, signals |-> R, thrown |-> b.thrown, heard |-> H])
  <2> HIDE DEF P, R, S, H
  <2> QED
    BY <1>2, <1>3, <1>4, <1>5, MakesGood, Zenon
<1>7. QED
  BY <1>1, <1>6, Zenon

\* The parts of the book when a position is closed.
LEMMA ClosedParts ==
  ASSUME NEW b, GoodBook(b), NEW o, NEW asked, o.of \in 1 .. Len(b.positions)
  PROVE  LET p == b.positions[o.of]
             q == [p EXCEPT !.exit = o.kind, !.askedExit = asked.kind]
         IN  Closed(b, o, asked)
               = [positions |-> [b.positions EXCEPT ![o.of] = q], signals |-> b.signals,
                  thrown |-> b.thrown, heard |-> b.heard]
<1> DEFINE P == b.positions
           n == o.of
           p == P[n]
           q == [p EXCEPT !.exit = o.kind, !.askedExit = asked.kind]
<1>1. b = [positions |-> P, signals |-> b.signals, thrown |-> b.thrown, heard |-> b.heard]
      /\ P \in Seq(BookedPositions)
  BY DEF GoodBook
<1>2. [[P EXCEPT ![n].exit = o.kind] EXCEPT ![n].askedExit = asked.kind]
        = [P EXCEPT ![n] = q]
  BY <1>1
<1>3. Closed(b, o, asked)
        = [[b EXCEPT !.positions[n].exit = o.kind] EXCEPT !.positions[n].askedExit = asked.kind]
  BY DEF Closed
<1>4. [b EXCEPT !.positions[n].exit = o.kind]
        = [positions |-> [P EXCEPT ![n].exit = o.kind], signals |-> b.signals,
           thrown |-> b.thrown, heard |-> b.heard]
  BY <1>1
<1>5. QED
  BY <1>1, <1>2, <1>3, <1>4

\* Closing a position at what was asked for leaves the book good.
LEMMA ClosedIsGood ==
  ASSUME NEW b, GoodBook(b), NEW o, NEW asked, o.of \in 1 .. Len(b.positions),
         o.kind \in Kinds, asked.kind \in Kinds,
         \/ o.kind = asked.kind
         \/ setup.given /\ asked.kind = "limit" /\ o.kind = "stop"
              /\ b.positions[o.of].side = "long"
  PROVE  GoodBook(Closed(b, o, asked))
<1> DEFINE P == b.positions
           S == b.signals
           n == o.of
           p == P[n]
           q == [p EXCEPT !.exit = o.kind, !.askedExit = asked.kind]
           Q == [P EXCEPT ![n] = q]
<1>1. Closed(b, o, asked)
        = [positions |-> Q, signals |-> S, thrown |-> b.thrown, heard |-> b.heard]
  BY ClosedParts
<1>2. /\ P \in Seq(BookedPositions) /\ b.thrown \in BOOLEAN
      /\ S \in Seq(GivenSignals) /\ b.heard = [h \in Heard |-> [i \in 1 .. Len(S) |-> i]]
      /\ \A k \in 1 .. Len(P) : GoodPosition(P[k])
      /\ \A i \in 1 .. Len(S) : GoodSignal(S[i], Len(P))
  BY DEF GoodBook
<1>3. p \in BookedPositions /\ Kept(EntryOf(p), p.asked)
  BY <1>2 DEF GoodPosition
<1>4. q \in BookedPositions
  BY <1>3 DEF BookedPositions
<1>5. q.side = p.side /\ q.kind = p.kind /\ q.shares = p.shares /\ q.symbol = p.symbol
      /\ q.sizing = p.sizing /\ q.asked = p.asked /\ q.exit = o.kind
      /\ q.askedExit = asked.kind
  BY <1>3 DEF BookedPositions
<1>6. EntryOf(q) = EntryOf(p)
  BY <1>5, Zenon DEF EntryOf
<1>7. GoodPosition(q)
  BY <1>3, <1>4, <1>5, <1>6 DEF GoodPosition, ExitKept
<1>8. Q \in Seq(BookedPositions) /\ Len(Q) = Len(P)
      /\ \A k \in 1 .. Len(P) : Q[k] = IF k = n THEN q ELSE P[k]
  BY <1>2, <1>4
<1>9. \A k \in 1 .. Len(Q) : GoodPosition(Q[k])
  BY <1>2, <1>7, <1>8
<1>10. \A i \in 1 .. Len(S) : GoodSignal(S[i], Len(Q))
  BY <1>2, <1>8
<1>11. GoodBook([positions |-> Q, signals |-> S, thrown |-> b.thrown, heard |-> b.heard])
  <2> HIDE DEF P, Q, S
  <2> QED
    BY <1>2, <1>8, <1>9, <1>10, MakesGood, Zenon
<1>12. QED
  BY <1>1, <1>11, Zenon
\* What BarSystem passes on of an entry.
LEMMA PassedEntry ==
  ASSUME NEW o \in EntryOrders, NEW q, q = Passed(o, FALSE)
  PROVE  /\ q.verb = o.verb /\ q.kind = o.kind /\ q.price = o.price /\ q.symbol = o.symbol
         /\ q.shares = o.shares /\ q.of = 0 /\ q.sizing \in BOOLEAN
         /\ q.sizing = o.sizing \/ (setup.given /\ q.sizing)
<1>1. o.verb \in {"buy", "short"} /\ o.sizing \in BOOLEAN /\ o.of = 0
      /\ o = [verb |-> o.verb, kind |-> o.kind, price |-> o.price, symbol |-> o.symbol,
              shares |-> o.shares, sizing |-> o.sizing, of |-> o.of]
  BY DEF EntryOrders
<1>2. CASE setup.given
  <2>1. PICK t : t = TRUE
    OBVIOUS
  <2>2. q = [o EXCEPT !.sizing = TRUE]
    BY <1>1, <1>2, Zenon DEF Passed, WithGivenBars
  <2>3. q = [o EXCEPT !.sizing = t]
    BY <2>1, <2>2, Zenon
  <2>4. q.verb = o.verb /\ q.kind = o.kind /\ q.price = o.price /\ q.symbol = o.symbol
        /\ q.shares = o.shares /\ q.of = o.of /\ q.sizing = t
    <3>1. DOMAIN o = {"verb", "kind", "price", "symbol", "shares", "sizing", "of"}
      BY DEF EntryOrders
    <3>2. QED
      BY <2>3, <3>1, Zenon
  <2>5. QED
    BY <1>1, <1>2, <2>1, <2>4, Zenon
<1>3. CASE ~setup.given
  <2>1. q = o
    BY <1>3, Zenon DEF Passed, WithOwnBars
  <2>2. QED
    BY <1>1, <2>1
<1>4. QED
  BY <1>2, <1>3

\* An exit as the system asked for it, but for the limit that becomes a stop.
SameExit(q, o) ==
  /\ q.verb = o.verb /\ q.price = o.price /\ q.symbol = o.symbol /\ q.of = o.of
  /\ q.sizing = FALSE /\ q.kind \in Kinds
  /\ \/ q.kind = o.kind
     \/ setup.given /\ o.verb = "sell" /\ o.kind = "limit" /\ q.kind = "stop"

\* What BarSystem passes on of an exit.
LEMMA PassedExit ==
  ASSUME NEW o \in ExitOrders, NEW byId, NEW q, q = Passed(o, byId)
  PROVE  SameExit(q, o)
<1>1. o.verb \in {"sell", "cover"} /\ o.sizing = FALSE /\ o.kind \in Kinds
  BY DEF ExitOrders
<1>2. q = o \/ (setup.given /\ o.verb = "sell" /\ o.kind = "limit"
                 /\ q = [o EXCEPT !.kind = "stop"])
  BY <1>1 DEF Passed, WithGivenBars, WithOwnBars
<1>3. CASE q = o
  BY <1>1, <1>3 DEF SameExit
<1>4. CASE setup.given /\ o.verb = "sell" /\ o.kind = "limit" /\ q = [o EXCEPT !.kind = "stop"]
  BY <1>1, <1>4 DEF ExitOrders, Kinds, SameExit
<1>5. QED
  BY <1>2, <1>3, <1>4

\* What the filter makes of the shares of an order.
LEMMA SharesOfEntry ==
  ASSUME SetupType, NEW o \in EntryOrders, NEW q, q = Passed(o, FALSE),
         NEW n \in FilteredShares(q), n # 0 \/ setup.filter = "none"
  PROVE  /\ n \in Nat \ {0}
         /\ setup.filter = "none" => n = o.shares
         /\ setup.filter = "default" =>
              n = o.shares \/ (o.verb = "short" /\ o.kind = "limit" /\ n = 1)
         /\ setup.filter = "user" => n \in FilteredTo \ {0}
<1>1. q.shares = o.shares /\ q.verb = o.verb /\ q.kind = o.kind
  BY PassedEntry
<1>2. o.shares \in Nat \ {0} /\ FilteredTo \subseteq Nat
  BY OrdersAssumption DEF EntryOrders
<1>3. setup.filter \in {"none", "default", "user"}
  BY DEF SetupType
<1>4. CASE setup.filter = "none"
  BY <1>1, <1>2, <1>4 DEF FilteredShares
<1>5. CASE setup.filter = "default"
  <2>1. n = (IF q.verb = "short" /\ q.kind = "limit" THEN 1 ELSE q.shares)
    BY <1>5 DEF FilteredShares
  <2>2. QED
    BY <1>1, <1>2, <1>5, <2>1
<1>6. CASE setup.filter = "user"
  BY <1>2, <1>6 DEF FilteredShares
<1>7. QED
  BY <1>3, <1>4, <1>5, <1>6

\* What is entered is what was asked for.
LEMMA EntryIsGood ==
  ASSUME SetupType, NEW o \in EntryOrders, NEW q, q = Passed(o, FALSE),
         NEW n \in FilteredShares(q), n # 0 \/ setup.filter = "none", NEW m \in Nat
  PROVE  /\ GoodPosition([side |-> SideOf(q.verb), kind |-> q.kind, shares |-> n,
                          symbol |-> q.symbol, sizing |-> q.sizing, asked |-> o,
                          exit |-> "open", askedExit |-> "open"])
         /\ GoodSignal(SignalOf(q, n, o), m)
<1>1. /\ q.verb = o.verb /\ q.kind = o.kind /\ q.price = o.price /\ q.symbol = o.symbol
      /\ q.shares = o.shares /\ q.of = 0 /\ q.sizing \in BOOLEAN
      /\ q.sizing = o.sizing \/ (setup.given /\ q.sizing)
  BY PassedEntry
<1>2. /\ n \in Nat \ {0}
      /\ setup.filter = "none" => n = o.shares
      /\ setup.filter = "default" =>
           n = o.shares \/ (o.verb = "short" /\ o.kind = "limit" /\ n = 1)
      /\ setup.filter = "user" => n \in FilteredTo \ {0}
  BY SharesOfEntry
<1>3. o.verb \in {"buy", "short"} /\ o.kind \in Kinds /\ o.price \in Prices
      /\ o.symbol \in BarSymbols /\ o.of = 0
  BY DEF EntryOrders
<1>4. PICK p : p = [side |-> SideOf(q.verb), kind |-> q.kind, shares |-> n,
                    symbol |-> q.symbol, sizing |-> q.sizing, asked |-> o,
                    exit |-> "open", askedExit |-> "open"]
  OBVIOUS
<1>5. SideOf(q.verb) \in {"long", "short"}
  BY DEF SideOf
<1>6. p \in BookedPositions
  BY <1>1, <1>2, <1>3, <1>4, <1>5 DEF BookedPositions
<1>7. p.side = SideOf(q.verb) /\ p.kind = o.kind /\ p.shares = n /\ p.symbol = o.symbol
      /\ p.sizing = q.sizing /\ p.asked = o /\ p.exit = "open" /\ p.askedExit = "open"
  BY <1>1, <1>4
<1> DEFINE x == EntryOf(p)
<1>8. x.verb = (IF p.side = "long" THEN "buy" ELSE "short") /\ x.kind = p.kind
      /\ x.price = p.asked.price /\ x.shares = p.shares /\ x.sizing = p.sizing
      /\ x.symbol = p.symbol /\ x.of = 0
  BY DEF EntryOf
<1>9. SideOf(x.verb) = SideOf(o.verb)
  BY <1>1, <1>3, <1>7, <1>8 DEF SideOf
<1>10. Kept(x, o)
  <2> HIDE DEF x
  <2> QED
    BY <1>1, <1>2, <1>3, <1>7, <1>8, <1>9 DEF Kept, IsEntry
<1>11. GoodPosition(p)
  BY <1>6, <1>7, <1>10 DEF GoodPosition, ExitKept
<1>12. PICK s : s = SignalOf(q, n, o)
  OBVIOUS
<1>13. s = [verb |-> o.verb, kind |-> o.kind, price |-> o.price, shares |-> n,
            sizing |-> q.sizing, of |-> 0, symbol |-> o.symbol, asked |-> o]
  BY <1>1, <1>12 DEF SignalOf
<1>14. s.verb = o.verb /\ s.kind = o.kind /\ s.price = o.price /\ s.shares = n
       /\ s.sizing = q.sizing /\ s.of = 0 /\ s.symbol = o.symbol /\ s.asked = o
  BY <1>13
<1>15. s \in GivenSignals
  BY <1>1, <1>2, <1>3, <1>13 DEF GivenSignals, OrdersOfSystem
<1>16. Kept(s, o)
  BY <1>1, <1>2, <1>3, <1>14 DEF Kept, IsEntry
<1>17. GoodSignal(s, m)
  BY <1>14, <1>15, <1>16 DEF GoodSignal
<1>18. QED
  BY <1>4, <1>11, <1>12, <1>17, Zenon

\* A signal to exit is what was asked for.
LEMMA ExitIsGood ==
  ASSUME NEW o \in ExitOrders, NEW q, NEW n \in Nat \ {0}, NEW m \in Nat, o.of \in 1 .. m,
         q.verb = o.verb, q.price = o.price, q.symbol = o.symbol, q.of = o.of,
         q.sizing = FALSE, q.kind \in Kinds,
         \/ q.kind = o.kind
         \/ setup.given /\ o.verb = "sell" /\ o.kind = "limit" /\ q.kind = "stop"
  PROVE  GoodSignal(SignalOf(q, n, o), m)
<1>1. o.verb \in {"sell", "cover"} /\ o.price \in Prices /\ o.symbol \in BarSymbols
      /\ o.of \in Nat \ {0}
  BY DEF ExitOrders
<1>2. PICK s : s = SignalOf(q, n, o)
  OBVIOUS
<1>3. s = [verb |-> o.verb, kind |-> q.kind, price |-> o.price, shares |-> n,
           sizing |-> FALSE, of |-> o.of, symbol |-> o.symbol, asked |-> o]
  BY <1>2 DEF SignalOf
<1>4. s.verb = o.verb /\ s.kind = q.kind /\ s.price = o.price /\ s.of = o.of
      /\ s.symbol = o.symbol /\ s.asked = o
  BY <1>3
<1>5. s \in GivenSignals
  BY <1>1, <1>3 DEF GivenSignals, OrdersOfSystem
<1>6. Kept(s, o)
  BY <1>1, <1>4 DEF Kept, IsEntry
<1>7. GoodSignal(s, m)
  BY <1>4, <1>5, <1>6 DEF GoodSignal
<1>8. QED
  BY <1>2, <1>7, Zenon
\* An entry leaves the book good, whatever comes of it.
LEMMA EnterIsGood ==
  ASSUME SetupType, NEW b, GoodBook(b), NEW o \in EntryOrders, NEW at,
         NEW c \in Enter(b, Passed(o, FALSE), o, at)
  PROVE  GoodBook(c)
<1>1. PICK q : q = Passed(o, FALSE)
  OBVIOUS
<1>2. c \in Enter(b, q, o, at)
  BY <1>1, Zenon
<1>3. \/ c = b \/ c = Thrown(b)
      \/ \E n \in FilteredShares(q) :
           /\ n # 0 \/ setup.filter = "none"
           /\ \/ c = Booked(b, q, n, o)
              \/ c = Signalled(b, SignalOf(q, n, o))
  BY <1>2, EnterGives, Zenon
<1>4. CASE c = b \/ c = Thrown(b)
  BY <1>4, ThrownIsGood, Zenon
<1>5. CASE \E n \in FilteredShares(q) :
             /\ n # 0 \/ setup.filter = "none"
             /\ \/ c = Booked(b, q, n, o)
                \/ c = Signalled(b, SignalOf(q, n, o))
  <2>1. PICK n \in FilteredShares(q) :
             /\ n # 0 \/ setup.filter = "none"
             /\ \/ c = Booked(b, q, n, o)
                \/ c = Signalled(b, SignalOf(q, n, o))
    BY <1>5
  <2>2. Len(b.positions) \in Nat
    BY DEF GoodBook
  <2>3. PICK p : p = [side |-> SideOf(q.verb), kind |-> q.kind, shares |-> n,
                      symbol |-> q.symbol, sizing |-> q.sizing, asked |-> o,
                      exit |-> "open", askedExit |-> "open"]
    OBVIOUS
  <2>4. GoodPosition(p) /\ GoodSignal(SignalOf(q, n, o), Len(b.positions))
    BY <1>1, <2>1, <2>2, <2>3, EntryIsGood, Zenon
  <2>5. QED
    BY <2>1, <2>3, <2>4, BookedIsGood, SignalledIsGood, Zenon
<1>6. QED
  BY <1>3, <1>4, <1>5, Zenon

\* So does an exit.
LEMMA LeaveIsGood ==
  ASSUME NEW b, GoodBook(b), NEW o \in ExitOrders, NEW q, NEW at,
         o.of \in 0 .. Len(b.positions), SameExit(q, o),
         NEW c \in Leave(b, q, o, at)
  PROVE  GoodBook(c)
<1> DEFINE m == Len(b.positions)
           p == b.positions[o.of]
<1>1. o.verb \in {"sell", "cover"} /\ o.kind \in Kinds /\ o.price \in Prices /\ m \in Nat
  BY DEF ExitOrders, GoodBook
<1>2. /\ q.verb = o.verb /\ q.price = o.price /\ q.symbol = o.symbol /\ q.of = o.of
      /\ q.sizing = FALSE /\ q.kind \in Kinds
      /\ \/ q.kind = o.kind
         \/ setup.given /\ o.verb = "sell" /\ o.kind = "limit" /\ q.kind = "stop"
  BY DEF SameExit
<1>3. \/ c = Thrown(b) \/ c = b
      \/ o.of # 0 /\ p.side = SideOf(q.verb) /\ c = Closed(b, q, o)
      \/ o.of # 0 /\ c = Signalled(b, SignalOf(q, p.shares, o))
  <2>1. \/ c = Thrown(b)
        \/ c = b /\ (MayDecline \/ CanMiss(q, at))
        \/ /\ q.of # 0 /\ b.positions[q.of].exit = "open"
           /\ b.positions[q.of].side = SideOf(q.verb)
           /\ c = Closed(b, q, o) /\ CanFill(q, at)
        \/ /\ q.of # 0 /\ at = "next" /\ b.positions[q.of].symbol = q.symbol
           /\ c = Signalled(b, SignalOf(q, b.positions[q.of].shares, o))
    BY LeaveGives
  <2>2. q.of = o.of
    BY <1>2
  <2>3. QED
    BY <2>1, <2>2, Zenon
<1>4. CASE c = Thrown(b) \/ c = b
  BY <1>4, ThrownIsGood, Zenon
<1>5. CASE o.of # 0 /\ p.side = SideOf(q.verb) /\ c = Closed(b, q, o)
  <2>1. q.of \in 1 .. m
    BY <1>1, <1>2, <1>5
  <2>2. \/ q.kind = o.kind
        \/ setup.given /\ o.kind = "limit" /\ q.kind = "stop" /\ b.positions[q.of].side = "long"
    BY <1>2, <1>5 DEF SideOf
  <2>3. QED
    BY <1>1, <1>2, <1>5, <2>1, <2>2, ClosedIsGood, Zenon
<1>6. CASE o.of # 0 /\ c = Signalled(b, SignalOf(q, p.shares, o))
  <2>1. o.of \in 1 .. m
    BY <1>1, <1>6
  <2>2. p.shares \in Nat \ {0}
    <3>1. p \in BookedPositions
      BY <2>1 DEF GoodBook, GoodPosition
    <3>2. QED
      BY <3>1 DEF BookedPositions
  <2>3. GoodSignal(SignalOf(q, p.shares, o), m)
    BY <1>1, <1>2, <2>1, <2>2, ExitIsGood, Zenon
  <2>4. QED
    BY <1>6, <2>3, SignalledIsGood, Zenon
<1>7. QED
  BY <1>3, <1>4, <1>5, <1>6, Zenon

\* A good book is one in the next state.
LEMMA GoodBookNext ==
  ASSUME setup' = setup, NEW c, book' = c, GoodBook(c)
  PROVE  GoodBook(book)'
<1>1. ASSUME NEW x, NEW y, Kept(x, y) PROVE Kept(x, y)'
  BY <1>1, Zenon DEF Kept, SideOf, IsEntry
<1>2. ASSUME NEW p, GoodPosition(p) PROVE GoodPosition(p)'
  BY <1>1, <1>2, Zenon DEF GoodPosition, ExitKept, EntryOf
<1>3. ASSUME NEW s, NEW n, GoodSignal(s, n) PROVE GoodSignal(s, n)'
  BY <1>1, <1>3, Zenon DEF GoodSignal
<1>4. /\ c = [positions |-> c.positions, signals |-> c.signals, thrown |-> c.thrown,
              heard |-> c.heard]
      /\ c.thrown \in BOOLEAN
      /\ c.positions \in Seq(BookedPositions) /\ c.signals \in Seq(GivenSignals)
      /\ \A n \in 1 .. Len(c.positions) : GoodPosition(c.positions[n])'
      /\ \A i \in 1 .. Len(c.signals) : GoodSignal(c.signals[i], Len(c.positions))'
      /\ c.heard = [h \in Heard |-> [i \in 1 .. Len(c.signals) |-> i]]
  BY <1>2, <1>3, Zenon DEF GoodBook
<1>5. QED
  BY <1>4, Zenon DEF GoodBook

\* Nothing is to be closed after a call that closes nothing.
LEMMA NoSweepIsGood ==
  ASSUME GoodBook(book), sweep = NoSweep
  PROVE  SweepType /\ SweepGoesOn
<1>1. sweep = [sides |-> {}, kind |-> "market", price |-> 0, symbol |-> OwnSymbol,
               at |-> "bar", left |-> {}, before |-> 0]
  BY DEF NoSweep
<1>2. 0 \in Prices /\ OwnSymbol \in BarSymbols
  BY OrdersAssumption
<1>3. sweep.sides = {} /\ sweep.left = {} /\ sweep.before = 0
  BY <1>1
<1>4. Swept(sweep.sides) = {}
  BY <1>3 DEF Swept
<1>5. Len(book.signals) \in Nat
  BY DEF GoodBook
<1>6. SweepType
  BY <1>1, <1>2, <1>3, <1>5 DEF SweepType, Kinds, Places
<1>7. QED
  BY <1>3, <1>4, <1>6 DEF SweepGoesOn

\* An entry and an exit keep the invariant.
LEMMA PlacesKeep ==
  ASSUME OrdersInv, PlaceEntry \/ PlaceExit
  PROVE  OrdersInv'
<1>1. stage = "trading" /\ stage' = "trading" /\ setup' = setup /\ sweep' = NoSweep
  BY DEF PlaceEntry, PlaceExit, Call
<1>2. GoodBook(book) /\ SetupType
  BY <1>1 DEF OrdersInv, WhileTrading
<1>3. Reach \subseteq BarSymbols /\ \A kind \in Kinds : PricesOf(kind) \subseteq Prices
  BY OrdersAssumption DEF Reach, PricesOf
<1>4. GoodBook(book')
  <2>1. CASE PlaceEntry
    <3>1. PICK o, at :
                       /\ o \in EntryOrders
                       /\ book' \in Enter(book, Passed(o, FALSE), o, at)
      <4>1. PICK verb \in {"buy", "short"}, kind \in Kinds, symbol \in Reach,
                 shares \in OrderSizes, sizing \in BOOLEAN, at \in Places :
                   \E price \in PricesOf(kind) :
                     LET o == [verb |-> verb, kind |-> kind, price |-> price, symbol |-> symbol,
                               shares |-> shares, sizing |-> sizing, of |-> 0]
                     IN  book' \in Enter(book, Passed(o, FALSE), o, at)
        BY <2>1, Zenon DEF PlaceEntry
      <4>2. PICK price \in PricesOf(kind) :
              LET o == [verb |-> verb, kind |-> kind, price |-> price, symbol |-> symbol,
                        shares |-> shares, sizing |-> sizing, of |-> 0]
              IN  book' \in Enter(book, Passed(o, FALSE), o, at)
        BY <4>1
      <4>3. PICK o : o = [verb |-> verb, kind |-> kind, price |-> price, symbol |-> symbol,
                          shares |-> shares, sizing |-> sizing, of |-> 0]
        OBVIOUS
      <4>4. o \in EntryOrders
        BY <1>3, <4>1, <4>2, <4>3 DEF EntryOrders
      <4>5. QED
        BY <4>2, <4>3, <4>4, Zenon
    <3>2. QED
      BY <1>2, <3>1, EnterIsGood, Zenon
  <2>2. CASE PlaceExit
    <3>1. PICK o, at, byId : /\ o \in ExitOrders /\ o.of \in 0 .. Len(book.positions)
                             /\ book' \in Leave(book, Passed(o, byId), o, at)
      <4>1. PICK verb \in {"sell", "cover"}, kind \in Kinds, symbol \in Reach,
                 byId \in BOOLEAN, of \in 0 .. Len(book.positions), at \in Places :
                   /\ of = 0 => byId
                   /\ \E price \in PricesOf(kind) :
                        LET o == [verb |-> verb, kind |-> kind, price |-> price,
                                  symbol |-> symbol, of |-> of, sizing |-> FALSE]
                        IN  book' \in Leave(book, Passed(o, byId), o, at)
        BY <2>2, Zenon DEF PlaceExit
      <4>2. PICK price \in PricesOf(kind) :
              LET o == [verb |-> verb, kind |-> kind, price |-> price, symbol |-> symbol,
                        of |-> of, sizing |-> FALSE]
              IN  book' \in Leave(book, Passed(o, byId), o, at)
        BY <4>1
      <4>3. PICK o : o = [verb |-> verb, kind |-> kind, price |-> price, symbol |-> symbol,
                          of |-> of, sizing |-> FALSE]
        OBVIOUS
      <4>4. o.of = of /\ of \in Nat
        BY <4>1, <4>3
      <4>5. o \in ExitOrders
        BY <1>3, <4>1, <4>2, <4>3, <4>4 DEF ExitOrders
      <4>6. QED
        BY <4>1, <4>2, <4>3, <4>4, <4>5, Zenon
    <3>2. PICK q : q = Passed(o, byId)
      OBVIOUS
    <3>3. SameExit(q, o)
      BY <3>1, <3>2, PassedExit, Zenon
    <3>4. QED
      BY <1>2, <3>1, <3>2, <3>3, LeaveIsGood, Zenon
  <2>3. QED
    BY <2>1, <2>2
<1>5. GoodBook(book)'
  BY <1>1, <1>4, GoodBookNext, Zenon
<1>6. SweepType' /\ SweepGoesOn'
  <2>1. (GoodBook(book) /\ sweep = NoSweep => SweepType /\ SweepGoesOn)'
    BY NoSweepIsGood, PTL
  <2>2. (sweep = NoSweep)'
    BY <1>1 DEF NoSweep
  <2>3. QED
    BY <1>5, <2>1, <2>2
<1>7. SetupType'
  BY <1>1, <1>2 DEF SetupType
<1>8. QED
  BY <1>1, <1>5, <1>6, <1>7 DEF OrdersInv, WhileTrading, WhenSized, WhenSaved
\* A call that is to close all positions begins with no signal for any of them.
LEMMA CloseAllKeeps ==
  ASSUME OrdersInv, CloseAll
  PROVE  OrdersInv'
<1>1. stage = "trading" /\ stage' = "trading" /\ setup' = setup /\ book' = book
  BY DEF CloseAll, Call
<1>2. GoodBook(book) /\ SetupType
  BY <1>1 DEF OrdersInv, WhileTrading
<1>3. GoodBook(book)' /\ SetupType'
  <2>1. GoodBook(book)'
    BY <1>1, <1>2, GoodBookNext, Zenon
  <2>2. QED
    BY <1>1, <1>2, <2>1 DEF SetupType
<1>4. CASE sweep' = NoSweep
  <2>1. (GoodBook(book) /\ sweep = NoSweep => SweepType /\ SweepGoesOn)'
    BY NoSweepIsGood, PTL
  <2>2. (sweep = NoSweep)'
    BY <1>4 DEF NoSweep
  <2>3. SweepType' /\ SweepGoesOn'
    BY <1>3, <2>1, <2>2
  <2>4. QED
    BY <1>1, <1>3, <2>3 DEF OrdersInv, WhileTrading, WhenSized, WhenSaved
<1>5. CASE sweep' # NoSweep
  <2>1. PICK kind \in Kinds, symbol \in Reach, at \in Places :
          \E price \in PricesOf(kind), sides \in Sides(kind) :
            sweep' = IF Swept(sides) = {} THEN NoSweep
                     ELSE [sides |-> sides, kind |-> kind, price |-> price, symbol |-> symbol,
                           at |-> at, left |-> Swept(sides), before |-> Len(book.signals)]
    BY DEF CloseAll
  <2>2. PICK price \in PricesOf(kind), sides \in Sides(kind) :
          sweep' = [sides |-> sides, kind |-> kind, price |-> price, symbol |-> symbol,
                    at |-> at, left |-> Swept(sides), before |-> Len(book.signals)]
    BY <1>5, <2>1
  <2>3. symbol \in BarSymbols /\ price \in Prices /\ sides \in SUBSET {"long", "short"}
    BY <2>1, <2>2, OrdersAssumption DEF Reach, PricesOf, Sides
  <2>4. DOMAIN book.positions \subseteq Nat /\ Len(book.signals) \in Nat
        /\ DOMAIN book.signals = 1 .. Len(book.signals)
    BY <1>2 DEF GoodBook
  <2>5. Swept(sides) \subseteq Nat /\ Swept(sides)' = Swept(sides)
    BY <1>1, <2>4 DEF Swept
  <2>6. /\ sweep'.sides = sides /\ sweep'.left = Swept(sides)
        /\ sweep'.before = Len(book.signals)
    BY <2>2
  <2>7. Swept(sweep.sides)' = Swept(sides)
    BY <1>1, <2>6 DEF Swept
  <2>8. SweepType'
    <3>1. sweep' \in [sides : SUBSET {"long", "short"}, kind : Kinds, price : Prices,
                      symbol : BarSymbols, at : Places, left : SUBSET Nat, before : Nat]
      BY <2>1, <2>2, <2>3, <2>4, <2>5
    <3>2. QED
      BY <1>1, <2>4, <2>6, <2>7, <3>1 DEF SweepType
  <2>9. \A n : SignalsOf(n)' = {}
    BY <1>1, <2>4, <2>6 DEF SignalsOf
  <2>10. SweepGoesOn'
    BY <2>6, <2>7, <2>9 DEF SweepGoesOn
  <2>11. QED
    BY <1>1, <2>8, <2>10, <1>3 DEF OrdersInv, WhileTrading, WhenSized, WhenSaved
<1>6. QED
  BY <1>4, <1>5

\* The order that closes a position is one that a system could place.
LEMMA ClosingOrderIs ==
  ASSUME GoodBook(book), SweepType, NEW n \in Swept(sweep.sides), NEW o, o = ClosingOrder(n)
  PROVE  /\ o \in ExitOrders /\ SameExit(o, o) /\ o.of = n /\ n \in 1 .. Len(book.positions)
         /\ o.kind = sweep.kind /\ n # 0
<1>1. n \in 1 .. Len(book.positions) /\ n \in Nat /\ n # 0
  BY DEF GoodBook, Swept
<1>2. book.positions[n].side \in {"long", "short"}
  BY <1>1 DEF GoodBook, GoodPosition, BookedPositions
<1>3. sweep.kind \in Kinds /\ sweep.price \in Prices /\ sweep.symbol \in BarSymbols
  BY DEF SweepType
<1>4. /\ o.verb = ClosingVerb(book.positions[n].side) /\ o.of = n /\ o.sizing = FALSE
      /\ o.kind = sweep.kind
  BY DEF ClosingOrder
<1>5. o \in ExitOrders
  BY <1>1, <1>2, <1>3 DEF ClosingOrder, ClosingVerb, ExitOrders
<1>6. SameExit(o, o)
  BY <1>3, <1>4 DEF SameExit
<1>7. QED
  BY <1>1, <1>4, <1>5, <1>6

\* How the loop goes on: nothing happens to the position, it is closed, or it has
\* its signal.  Nothing is done to the others.
OneDone(c, n) ==
  \/ c.thrown = TRUE /\ c.signals = book.signals /\ c.positions = book.positions
  \/ c = book /\ (MayDecline \/ Priced(sweep.kind) \/ sweep.at \notin {"bar", "next"})
  \/ /\ c.signals = book.signals /\ c.thrown = book.thrown
     /\ DOMAIN c.positions = DOMAIN book.positions
     /\ \A m \in DOMAIN book.positions :
          IF m = n THEN c.positions[m].exit # "open"
          ELSE c.positions[m] = book.positions[m]
  \/ /\ sweep.at = "next" /\ c.positions = book.positions /\ c.thrown = book.thrown
     /\ \E s : c.signals = Append(book.signals, s) /\ s.of = n

\* The loop goes on in one of these ways.
LEMMA OneIsClosed ==
  ASSUME GoodBook(book), SweepType, NEW n \in sweep.left, NEW c,
         c \in Leave(book, ClosingOrder(n), ClosingOrder(n), sweep.at)
  PROVE  GoodBook(c) /\ OneDone(c, n)
<1>1. PICK o : o = ClosingOrder(n)
  OBVIOUS
<1>2. n \in Swept(sweep.sides) /\ sweep.kind \in Kinds
  BY DEF SweepType
<1>3. /\ o \in ExitOrders /\ SameExit(o, o) /\ o.of = n /\ n \in 1 .. Len(book.positions)
      /\ o.kind = sweep.kind /\ n # 0
  BY <1>1, <1>2, ClosingOrderIs, Zenon
<1>4. c \in Leave(book, o, o, sweep.at)
  BY <1>1, Zenon
<1>5. GoodBook(c)
  <2>1. o.of \in 0 .. Len(book.positions)
    BY <1>3
  <2>2. QED
    BY <1>3, <1>4, <2>1, LeaveIsGood, Zenon
<1>6. \/ c = Thrown(book)
      \/ c = book /\ (MayDecline \/ CanMiss(o, sweep.at))
      \/ c = Closed(book, o, o)
      \/ /\ sweep.at = "next"
         /\ c = Signalled(book, SignalOf(o, book.positions[o.of].shares, o))
  BY <1>4, LeaveGives
<1>7. CASE c = Thrown(book)
  <2>1. c = [positions |-> book.positions, signals |-> book.signals, thrown |-> TRUE,
             heard |-> book.heard]
    BY <1>7, BookParts, Zenon
  <2>2. QED
    BY <1>5, <2>1 DEF OneDone
<1>8. CASE c = book /\ (MayDecline \/ CanMiss(o, sweep.at))
  <2>1. ASSUME CanMiss(o, sweep.at), ~Priced(sweep.kind)
        PROVE  sweep.at \notin {"bar", "next"}
    <3>1. o.kind \in {"market", "close"}
      BY <1>2, <1>3, <2>1 DEF Priced, Kinds
    <3>2. sweep.at # "bar"
      BY <2>1, <3>1, FilledAnyway
    <3>3. QED
      BY <2>1, <3>2 DEF CanMiss
  <2>2. QED
    BY <1>5, <1>8, <2>1 DEF OneDone
<1>9. CASE c = Closed(book, o, o)
  <2> DEFINE P == book.positions
             p == P[n]
             q == [p EXCEPT !.exit = o.kind, !.askedExit = o.kind]
  <2>1. c = [positions |-> [P EXCEPT ![n] = q], signals |-> book.signals,
             thrown |-> book.thrown, heard |-> book.heard]
    <3>1. o.of \in 1 .. Len(book.positions)
      BY <1>3
    <3>2. Closed(book, o, o)
            = [positions |-> [P EXCEPT ![o.of] = [P[o.of] EXCEPT !.exit = o.kind,
                                                                 !.askedExit = o.kind]],
               signals |-> book.signals, thrown |-> book.thrown, heard |-> book.heard]
      BY <3>1, ClosedParts
    <3>3. QED
      BY <1>3, <1>9, <3>2
  <2>2. P[n] \in BookedPositions
    BY <1>3 DEF GoodBook
  <2>3. q.exit = o.kind /\ o.kind # "open"
    BY <1>2, <1>3, <2>2 DEF BookedPositions, Kinds
  <2>4. P \in Seq(BookedPositions)
    BY DEF GoodBook
  <2>5. /\ c.signals = book.signals /\ c.thrown = book.thrown
        /\ c.positions = [P EXCEPT ![n] = q]
    BY <2>1
  <2>6. QED
    BY <1>3, <1>5, <2>3, <2>4, <2>5 DEF OneDone
<1>10. CASE sweep.at = "next" /\ c = Signalled(book, SignalOf(o, book.positions[o.of].shares, o))
  <2>1. PICK s : s = SignalOf(o, book.positions[o.of].shares, o)
    OBVIOUS
  <2>2. c = [positions |-> book.positions, signals |-> Append(book.signals, s),
             thrown |-> book.thrown,
             heard |-> [h \in Heard |-> [i \in 1 .. Len(book.signals) + 1 |-> i]]]
    BY <1>10, <2>1, BookParts, Zenon
  <2>3. s.of = n
    BY <1>3, <2>1 DEF SignalOf
  <2>4. QED
    BY <1>5, <1>10, <2>2, <2>3 DEF OneDone
<1>11. QED
  BY <1>6, <1>7, <1>8, <1>9, <1>10, Zenon
\* Each step of the loop leaves the others to be closed, and its own position closed
\* or with its signal.
LEMMA CloseNextKeeps ==
  ASSUME OrdersInv, NEW n \in sweep.left, CloseNext(n)
  PROVE  OrdersInv'
<1>1. stage = "trading" /\ stage' = "trading" /\ setup' = setup
  BY DEF CloseNext, OrdersInv, WhenSized
<1>2. GoodBook(book) /\ SetupType /\ SweepType /\ SweepGoesOn
  BY <1>1 DEF OrdersInv, WhileTrading
<1>3. PICK c : c = book' /\ c \in Leave(book, ClosingOrder(n), ClosingOrder(n), sweep.at)
  BY Zenon DEF CloseNext
<1>4. GoodBook(c) /\ OneDone(c, n)
  BY <1>2, <1>3, OneIsClosed, Zenon
<1>5. PICK gone : gone = (IF c.thrown THEN {} ELSE sweep.left \ {n})
  OBVIOUS
<1>6. /\ sweep'.sides = sweep.sides /\ sweep'.kind = sweep.kind /\ sweep'.at = sweep.at
      /\ sweep'.before = sweep.before /\ sweep'.left = gone
      /\ sweep' \in [sides : SUBSET {"long", "short"}, kind : Kinds, price : Prices,
                     symbol : BarSymbols, at : Places, left : SUBSET Nat, before : Nat]
  <2>1. gone \subseteq Nat
    BY <1>2, <1>5 DEF SweepType
  <2>2. sweep' = [sweep EXCEPT !.left = gone]
    BY <1>3, <1>5, Zenon DEF CloseNext
  <2>3. QED
    BY <1>2, <2>1, <2>2 DEF SweepType
<1>7. MayDecline' = MayDecline /\ Priced(sweep.kind)' = Priced(sweep.kind)
  BY <1>1, <1>6 DEF MayDecline, Priced
<1>8. GoodBook(book)' /\ SetupType'
  <2>1. GoodBook(book)'
    BY <1>1, <1>3, <1>4, GoodBookNext, Zenon
  <2>2. QED
    BY <1>1, <1>2, <2>1 DEF SetupType
<1>9. /\ Len(book.signals) \in Nat /\ DOMAIN book.signals = 1 .. Len(book.signals)
      /\ sweep.before \in Nat /\ sweep.before <= Len(book.signals)
      /\ gone \subseteq sweep.left
  BY <1>2, <1>5 DEF GoodBook, SweepType
<1> DEFINE S == Swept(sweep.sides)
           T == Swept(sweep.sides)'
<1>10. T = {m \in DOMAIN c.positions :
              c.positions[m].exit = "open" /\ c.positions[m].shares > 0
              /\ c.positions[m].side \in sweep.sides}
  BY <1>3, <1>6 DEF Swept
<1>11. S = {m \in DOMAIN book.positions :
              book.positions[m].exit = "open" /\ book.positions[m].shares > 0
              /\ book.positions[m].side \in sweep.sides}
  BY DEF Swept
<1>12. \A m :
      /\ SignalsOf(m)' = {i \in DOMAIN c.signals : i > sweep.before /\ c.signals[i].of = m}
      /\ SignalsOf(m) = {i \in DOMAIN book.signals : i > sweep.before /\ book.signals[i].of = m}
  BY <1>3, <1>6 DEF SignalsOf
<1>13. SweepType' /\ SweepGoesOn'
  <2>1. SUFFICES /\ gone \subseteq T /\ sweep.before <= Len(c.signals)
                 /\ ~c.thrown =>
                      /\ \A m \in gone : SignalsOf(m)' = {}
                      /\ (~MayDecline /\ ~Priced(sweep.kind) /\ sweep.at \in {"bar", "next"}) =>
                           \A m \in T \ gone : sweep.at = "next" /\ IsOne(SignalsOf(m))'
    <3>1. ASSUME gone \subseteq T, sweep.before <= Len(c.signals)
          PROVE  SweepType'
      BY <1>3, <1>6, <3>1 DEF SweepType
    <3>2. ASSUME ~c.thrown =>
                      /\ \A m \in gone : SignalsOf(m)' = {}
                      /\ (~MayDecline /\ ~Priced(sweep.kind) /\ sweep.at \in {"bar", "next"}) =>
                           \A m \in T \ gone : sweep.at = "next" /\ IsOne(SignalsOf(m))'
          PROVE  SweepGoesOn'
      BY <1>3, <1>6, <1>7, <3>2 DEF SweepGoesOn
    <3>3. QED
      BY <3>1, <3>2
  <2>2. CASE c.thrown = TRUE /\ c.signals = book.signals /\ c.positions = book.positions
    BY <1>5, <1>9, <2>2
  <2>3. CASE c = book /\ (MayDecline \/ Priced(sweep.kind) \/ sweep.at \notin {"bar", "next"})
    <3>1. T = S /\ \A m : SignalsOf(m)' = SignalsOf(m)
      BY <1>10, <1>11, <1>12, <2>3
    <3>2. QED
      BY <1>2, <1>5, <1>9, <2>3, <3>1 DEF SweepType, SweepGoesOn
  <2>4. CASE /\ c.signals = book.signals /\ c.thrown = book.thrown
             /\ DOMAIN c.positions = DOMAIN book.positions
             /\ \A m \in DOMAIN book.positions :
                  IF m = n THEN c.positions[m].exit # "open"
                  ELSE c.positions[m] = book.positions[m]
    <3>1. T = S \ {n}
      BY <1>10, <1>11, <2>4
    <3>2. \A m : SignalsOf(m)' = SignalsOf(m) /\ (IsOne(SignalsOf(m)) => IsOne(SignalsOf(m))')
      <4>1. \A m : SignalsOf(m)' = SignalsOf(m)
        BY <1>12, <2>4
      <4>2. QED
        BY <4>1 DEF IsOne
    <3>3. sweep.left \subseteq S
      BY <1>2 DEF SweepType
    <3>4. QED
      BY <1>2, <1>5, <1>9, <2>4, <3>1, <3>2, <3>3 DEF SweepGoesOn
  <2>5. CASE /\ sweep.at = "next" /\ c.positions = book.positions /\ c.thrown = book.thrown
             /\ \E s : c.signals = Append(book.signals, s) /\ s.of = n
    <3>1. T = S
      BY <1>10, <1>11, <2>5
    <3>2. PICK s : c.signals = Append(book.signals, s) /\ s.of = n
      BY <2>5
    <3>3. PICK k : k = Len(book.signals) + 1
      OBVIOUS
    <3>4. /\ Len(c.signals) = k /\ DOMAIN c.signals = 1 .. k /\ c.signals[k] = s
          /\ \A i \in 1 .. Len(book.signals) : c.signals[i] = book.signals[i]
      <4>1. book.signals \in Seq(GivenSignals) /\ c.signals \in Seq(GivenSignals)
        BY <1>2, <1>4 DEF GoodBook
      <4>2. QED
        BY <3>2, <3>3, <4>1
    <3>5. ASSUME NEW m, NEW i
          PROVE  i \in SignalsOf(m)' <=> i \in SignalsOf(m) \/ (i = k /\ m = n)
      <4>1. i \in 1 .. k <=> i \in 1 .. Len(book.signals) \/ i = k
        BY <1>9, <3>3
      <4>2. k > sweep.before /\ k \notin 1 .. Len(book.signals)
        BY <1>9, <3>3
      <4>3. i \in SignalsOf(m)' <=> i \in 1 .. k /\ i > sweep.before /\ c.signals[i].of = m
        BY <1>12, <3>4
      <4>4. i \in SignalsOf(m)
              <=> i \in 1 .. Len(book.signals) /\ i > sweep.before /\ book.signals[i].of = m
        BY <1>9, <1>12
      <4>5. CASE i = k
        BY <3>2, <3>4, <4>1, <4>2, <4>3, <4>4, <4>5
      <4>6. CASE i # k
        BY <3>4, <4>1, <4>3, <4>4, <4>6
      <4>7. QED
        BY <4>5, <4>6
    <3>6. \A m : m # n => SignalsOf(m)' = SignalsOf(m)
      <4> SUFFICES ASSUME NEW m, m # n PROVE SignalsOf(m)' = SignalsOf(m)
        OBVIOUS
      <4>1. \A i : i \in SignalsOf(m)' <=> i \in SignalsOf(m)
        BY <3>5
      <4>2. QED
        BY <1>12, <4>1
    <3>7. sweep.left \subseteq S
      BY <1>2 DEF SweepType
    <3>8. ASSUME ~c.thrown
          PROVE  /\ \A m \in gone : SignalsOf(m)' = {}
                 /\ (~MayDecline /\ ~Priced(sweep.kind)) =>
                      \A m \in T \ gone : IsOne(SignalsOf(m))'
      <4>1. gone = sweep.left \ {n}
        BY <1>5, <3>8
      <4>2. SweepGoesOn /\ ~book.thrown /\ sweep.at = "next"
        BY <1>2, <2>5, <3>8
      <4>3. \A m \in sweep.left : SignalsOf(m) = {}
        BY <4>2 DEF SweepGoesOn
      <4>4. IsOne(SignalsOf(n))'
        <5>1. SignalsOf(n)' = {k}
          BY <1>12, <3>5, <4>3
        <5>2. QED
          BY <5>1 DEF IsOne
      <4>5. ASSUME ~MayDecline, ~Priced(sweep.kind), NEW m \in T \ gone
            PROVE  IsOne(SignalsOf(m))'
        <5>1. CASE m = n
          BY <4>4, <5>1
        <5>2. CASE m # n
          <6>1. IsOne(SignalsOf(m))
            BY <3>1, <4>1, <4>2, <4>5, <5>2 DEF SweepGoesOn
          <6>2. QED
            BY <3>6, <5>2, <6>1 DEF IsOne
        <5>3. QED
          BY <5>1, <5>2
      <4>6. QED
        BY <3>6, <4>1, <4>3, <4>5
    <3>9. QED
      BY <1>9, <2>5, <3>1, <3>3, <3>4, <3>7, <3>8
  <2>6. QED
    BY <1>4, <2>2, <2>3, <2>4, <2>5 DEF OneDone
<1>14. QED
  BY <1>1, <1>8, <1>13 DEF OrdersInv, WhileTrading, WhenSized, WhenSaved
\* When the positions get their size, the signals keep what they say of their own.
LEMMA CalcEqCurveKeeps ==
  ASSUME OrdersInv, CalcEqCurve
  PROVE  OrdersInv'
<1>1. stage = "trading" /\ stage' = "sized" /\ setup' = setup /\ sweep' = NoSweep
  BY DEF CalcEqCurve
<1>2. GoodBook(book) /\ SetupType
  BY <1>1 DEF OrdersInv, WhileTrading
<1>3. PICK F, G : /\ book' = [[book EXCEPT !.positions = F] EXCEPT !.signals = G]
                  /\ G = [i \in DOMAIN book.signals |->
                            [of |-> book.signals[i].of, sizing |-> book.signals[i].sizing,
                             shares |-> book.signals[i].shares]]
  <2>1. PICK f \in EveryOne(book.positions, SizesOf) :
          book' = [book EXCEPT
            !.positions = [n \in DOMAIN @ |-> [shares |-> f[n]]],
            !.signals = [i \in DOMAIN @ |->
              [of |-> @[i].of, sizing |-> @[i].sizing, shares |-> @[i].shares]]]
    BY DEF CalcEqCurve
  <2>2. [book EXCEPT !.positions = [n \in DOMAIN @ |-> [shares |-> f[n]]]].signals
          = book.signals
    BY <1>2 DEF GoodBook
  <2>3. QED
    BY <2>1, <2>2
<1>4. PICK P, S, T, H : book = [positions |-> P, signals |-> S, thrown |-> T, heard |-> H]
  BY <1>2, Zenon DEF GoodBook
<1>5. book' = [positions |-> F, signals |-> G, thrown |-> T, heard |-> H]
      /\ book.signals = S /\ book.heard = H
  BY <1>3, <1>4
<1>6. /\ Len(S) \in Nat /\ DOMAIN S = 1 .. Len(S)
      /\ H = [h \in Heard |-> [i \in 1 .. Len(S) |-> i]]
  BY <1>2, <1>5 DEF GoodBook
<1>7. \A i \in 1 .. Len(S) : S[i].shares > 0
  <2> SUFFICES ASSUME NEW i \in 1 .. Len(S) PROVE S[i].shares > 0
    OBVIOUS
  <2>1. S[i] \in GivenSignals
    BY <1>2, <1>5 DEF GoodBook, GoodSignal
  <2>2. QED
    BY <2>1 DEF GivenSignals
<1>8. book'.signals = G /\ book'.heard = H /\ book'.positions = F /\ book'.thrown = T
  BY <1>5
<1>9. sweep'.left = {}
  BY <1>1 DEF NoSweep
<1>10. DOMAIN G = 1 .. Len(S)
       /\ \A i \in 1 .. Len(S) :
            G[i] = [of |-> S[i].of, sizing |-> S[i].sizing, shares |-> S[i].shares]
  BY <1>3, <1>5, <1>6
<1>11. \A i \in DOMAIN G :
         G[i] = [of |-> G[i].of, sizing |-> G[i].sizing, shares |-> G[i].shares]
         /\ G[i].shares > 0
  BY <1>7, <1>10
<1>12. WhenSized'
  BY <1>5, <1>6, <1>8, <1>9, <1>10, <1>11 DEF WhenSized
<1>13. QED
  BY <1>1, <1>2, <1>12 DEF OrdersInv, SetupType, WhileTrading, WhenSaved

\* When the signals do, an exit gets the size of its position, and the files are
\* written.
LEMMA SessionEndKeeps ==
  ASSUME OrdersInv, SessionEnd
  PROVE  OrdersInv'
<1>1. stage = "sized" /\ stage' = "saved" /\ setup' = setup /\ sweep' = sweep
  BY DEF SessionEnd
<1>2. WhenSized /\ SetupType
  BY DEF OrdersInv
<1>3. PICK shares \in EveryOne(book.signals, SignalShares) :
        LET sized == [i \in DOMAIN book.signals |->
                        [book.signals[i] EXCEPT !.shares = shares[i]]]
        IN /\ book' = [book EXCEPT !.signals = sized]
           /\ written' = [raw |-> EnabledOf(book.signals, book.heard[File]),
                          final |-> EnabledOf(sized, book.heard[File])]
  BY DEF SessionEnd
<1>4. PICK G : /\ G = [i \in DOMAIN book.signals |->
                         [book.signals[i] EXCEPT !.shares = shares[i]]]
               /\ book' = [book EXCEPT !.signals = G]
               /\ written' = [raw |-> EnabledOf(book.signals, book.heard[File]),
                              final |-> EnabledOf(G, book.heard[File])]
  BY <1>3
<1>5. PICK m \in Nat : /\ DOMAIN book.signals = 1 .. m
                       /\ book.heard = [h \in Heard |-> [i \in 1 .. m |-> i]]
  BY <1>1, <1>2 DEF WhenSized
<1>6. PICK P, S, T, H : book = [positions |-> P, signals |-> S, thrown |-> T, heard |-> H]
  BY <1>1, <1>2, Zenon DEF WhenSized
<1>7. book.signals = S /\ book.heard = H /\ book.positions = P
  BY <1>6
<1>8. book' = [positions |-> P, signals |-> G, thrown |-> T, heard |-> H]
  BY <1>4, <1>6
<1>9. book'.signals = G /\ book'.heard = H /\ book'.positions = P /\ book'.thrown = T
  BY <1>8
<1>10. \A i \in 1 .. m :
         /\ S[i] = [of |-> S[i].of, sizing |-> S[i].sizing, shares |-> S[i].shares]
         /\ S[i].shares > 0
  BY <1>1, <1>2, <1>5, <1>7 DEF WhenSized
<1>11. DOMAIN G = 1 .. m
       /\ \A i \in 1 .. m :
            G[i] = [of |-> S[i].of, sizing |-> S[i].sizing, shares |-> shares[i]]
  <2>1. DOMAIN G = 1 .. m /\ \A i \in 1 .. m : G[i] = [S[i] EXCEPT !.shares = shares[i]]
    BY <1>4, <1>5, <1>7
  <2>2. ASSUME NEW i \in 1 .. m
        PROVE  [S[i] EXCEPT !.shares = shares[i]]
                 = [of |-> S[i].of, sizing |-> S[i].sizing, shares |-> shares[i]]
    <3>1. PICK s, x, y, z : s = S[i] /\ s = [of |-> x, sizing |-> y, shares |-> z]
                            /\ x = S[i].of /\ y = S[i].sizing
      BY <1>10, Zenon
    <3>2. QED
      BY <3>1
  <2>3. QED
    BY <2>1, <2>2
<1>12. \A i \in 1 .. m : shares[i] \in SignalShares(S[i])
  BY <1>3, <1>5, <1>7 DEF EveryOne
<1>13. \A i \in 1 .. m : ~IsEntry(G[i]) => G[i].shares = P[G[i].of].shares
  <2> SUFFICES ASSUME NEW i \in 1 .. m, G[i].of # 0 PROVE G[i].shares = P[G[i].of].shares
    BY DEF IsEntry
  <2>1. G[i].of = S[i].of /\ G[i].shares = shares[i]
    BY <1>11
  <2>2. shares[i] = P[S[i].of].shares
    BY <1>7, <1>12, <2>1 DEF SignalShares, IsEntry
  <2>3. QED
    BY <2>1, <2>2
<1>14. WhenSized'
  <2>1. \A i \in 1 .. m : G[i] = [of |-> G[i].of, sizing |-> G[i].sizing, shares |-> G[i].shares]
    BY <1>11
  <2>2. sweep'.left = {}
    BY <1>1, <1>2 DEF WhenSized
  <2>3. QED
    BY <1>1, <1>5, <1>7, <1>8, <1>9, <1>11, <2>1, <2>2 DEF WhenSized
<1>15. WhenSaved'
  <2>1. written'.final = EnabledOf(G, H[File])
    BY <1>4, <1>7
  <2>2. EnabledOf(G, H[File]) = EnabledOf(book.signals, book.heard[File])'
    BY <1>9 DEF EnabledOf, File
  <2>3. written'.raw = EnabledOf(S, H[File])
    BY <1>4, <1>7
  <2>4. EnabledOf(S, H[File]) = Cardinality(1 .. m)
    <3>1. H[File] = [i \in 1 .. m |-> i]
      BY <1>5, <1>7 DEF Heard, File
    <3>2. {k \in DOMAIN H[File] : S[H[File][k]].shares > 0} = 1 .. m
      BY <1>10, <3>1
    <3>3. QED
      BY <3>2, Zenon DEF EnabledOf
  <2>5. QED
    BY <1>9, <1>11, <1>13, <2>1, <2>2, <2>3, <2>4 DEF WhenSaved, IsEntry
<1>16. QED
  BY <1>1, <1>2, <1>14, <1>15 DEF OrdersInv, SetupType, WhileTrading

\* The signals are counted as they were written.
LEMMA ProcessedSignalsKeeps ==
  ASSUME OrdersInv, ProcessedSignals
  PROVE  OrdersInv'
<1>1. /\ stage = "saved" /\ stage' = "counted" /\ setup' = setup /\ book' = book
      /\ sweep' = sweep /\ written' = written
      /\ processed' = EnabledOf(book.signals, book.heard[Counter])
  BY DEF ProcessedSignals
<1>2. WhenSized /\ WhenSaved /\ SetupType
  BY DEF OrdersInv
<1>3. book.heard[Counter] = book.heard[File]
  BY <1>1, <1>2 DEF WhenSized, Heard, Counter, File
<1>4. processed' = written.final
  BY <1>1, <1>2, <1>3 DEF WhenSaved
<1>5. WhenSized'
  BY <1>1, <1>2 DEF WhenSized
<1>6. WhenSaved'
  <2>1. EnabledOf(book.signals, book.heard[File])' = EnabledOf(book.signals, book.heard[File])
    BY <1>1 DEF EnabledOf, File
  <2>2. QED
    BY <1>1, <1>2, <2>1 DEF WhenSaved, IsEntry
<1>7. QED
  BY <1>1, <1>2, <1>4, <1>5, <1>6 DEF OrdersInv, SetupType, WhileTrading
\* When nothing happens to the orders, nothing changes.
LEMMA OrdersStay ==
  ASSUME OrdersInv, UNCHANGED orderVars
  PROVE  OrdersInv'
<1>1. /\ setup' = setup /\ stage' = stage /\ book' = book /\ sweep' = sweep
      /\ written' = written /\ processed' = processed
  BY DEF orderVars
<1>2. \A S : Swept(S)' = Swept(S)
  BY <1>1 DEF Swept
<1>3. Swept(sweep.sides)' = Swept(sweep.sides)
  BY <1>1 DEF Swept
<1>4. \A n : SignalsOf(n)' = SignalsOf(n)
  BY <1>1 DEF SignalsOf
<1>5. \A n : IsOne(SignalsOf(n)) => IsOne(SignalsOf(n))'
  BY <1>4 DEF IsOne
<1>6. WhileTrading'
  <2> SUFFICES ASSUME stage' = "trading"
               PROVE  GoodBook(book)' /\ SweepType' /\ SweepGoesOn'
    BY DEF WhileTrading
  <2>1. GoodBook(book) /\ SweepType /\ SweepGoesOn
    BY <1>1 DEF OrdersInv, WhileTrading
  <2>2. GoodBook(book)'
    BY <1>1, <2>1, GoodBookNext, Zenon
  <2>3. SweepType'
    BY <1>1, <1>3, <2>1 DEF SweepType
  <2>4. SweepGoesOn'
    BY <1>1, <1>3, <1>4, <1>5, <2>1 DEF SweepGoesOn, MayDecline, Priced
  <2>5. QED
    BY <2>2, <2>3, <2>4
<1>7. WhenSized'
  BY <1>1 DEF OrdersInv, WhenSized
<1>8. EnabledOf(book.signals, book.heard[File])' = EnabledOf(book.signals, book.heard[File])
  BY <1>1 DEF EnabledOf, File
<1>9. WhenSaved'
  BY <1>1, <1>8 DEF OrdersInv, WhenSaved, IsEntry
<1>10. QED
  BY <1>1, <1>6, <1>7, <1>9 DEF OrdersInv, SetupType

\* An order to begin with, or none.
LEMMA OrdersStart ==
  ASSUME Init
  PROVE  OrdersInv
<1>1. /\ SetupType /\ stage = "trading" /\ book = EmptyBook /\ sweep = NoSweep
  <2>1. OrdersInit \/ NoOrders
    BY DEF Init, Idle
  <2>2. CASE OrdersInit
    BY <2>2 DEF OrdersInit, SetupType
  <2>3. CASE NoOrders
    BY <2>3 DEF NoOrders, SetupType
  <2>4. QED
    BY <2>1, <2>2, <2>3
<1>2. book = [positions |-> <<>>, signals |-> <<>>, thrown |-> FALSE,
              heard |-> [h \in Heard |-> <<>>]]
  BY <1>1 DEF EmptyBook
<1>3. GoodBook(book)
  <2>1. [h \in Heard |-> <<>>] = [h \in Heard |-> [i \in 1 .. Len(<<>>) |-> i]]
    <3>1. \A h \in Heard : <<>> = [i \in 1 .. Len(<<>>) |-> i]
      OBVIOUS
    <3>2. QED
      BY <3>1, Zenon
  <2>2. <<>> \in Seq(BookedPositions) /\ <<>> \in Seq(GivenSignals) /\ Len(<<>>) = 0
    OBVIOUS
  <2>3. \A n \in 1 .. Len(<<>>) : FALSE
    OBVIOUS
  <2>4. PICK P, S, H : P = <<>> /\ S = <<>> /\ H = [h \in Heard |-> <<>>]
    OBVIOUS
  <2>5. /\ P \in Seq(BookedPositions) /\ S \in Seq(GivenSignals) /\ FALSE \in BOOLEAN
        /\ H = [h \in Heard |-> [i \in 1 .. Len(S) |-> i]]
        /\ \A n \in 1 .. Len(P) : GoodPosition(P[n])
        /\ \A i \in 1 .. Len(S) : GoodSignal(S[i], Len(P))
    BY <2>1, <2>2, <2>3, <2>4, Zenon
  <2>6. GoodBook([positions |-> P, signals |-> S, thrown |-> FALSE, heard |-> H])
    BY <2>5, MakesGood, Zenon
  <2>7. QED
    BY <1>2, <2>4, <2>6, Zenon
<1>4. SweepType /\ SweepGoesOn
  BY <1>1, <1>3, NoSweepIsGood, Zenon
<1>5. QED
  BY <1>1, <1>3, <1>4 DEF OrdersInv, WhileTrading, WhenSized, WhenSaved

\* All of it holds while a system places its orders, and after.
LEMMA OrdersInvariant == Spec => []OrdersInv
<1>1. OrdersInv /\ [Next]_vars => OrdersInv'
  <2> SUFFICES ASSUME OrdersInv, [Next]_vars PROVE OrdersInv'
    OBVIOUS
  <2>1. OrdersNext \/ UNCHANGED orderVars
    BY DEF Next, FileStep, vars
  <2>2. QED
    BY <2>1, PlacesKeep, CloseAllKeeps, CloseNextKeeps, CalcEqCurveKeeps, SessionEndKeeps,
       ProcessedSignalsKeeps, OrdersStay, Zenon DEF OrdersNext
<1>2. QED
  BY <1>1, OrdersStart, PTL DEF Spec

\* The orders of a system (include/system.h, core/Positions.cpp, core/Positions.h):
\* for every filter, setup and sequence of calls, what is filled, signalled, sized
\* and written is what the system asked for, all handlers hear of it in its order,
\* and a call that closes all positions leaves none of them without an exit.
THEOREM SignalsAreOrdersAlways == Spec => []SignalsAreOrders
<1>1. OrdersInv => SignalsAreOrders
  <2> SUFFICES ASSUME OrdersInv PROVE SignalsAreOrders
    OBVIOUS
  <2>1. OrdersKeepTheirMeaning
    <3> SUFFICES ASSUME stage = "trading"
                 PROVE  /\ \A n \in DOMAIN book.positions :
                             LET p == book.positions[n]
                             IN  Kept(EntryOf(p), p.asked) /\ ExitKept(p)
                        /\ \A i \in DOMAIN book.signals :
                             Kept(book.signals[i], book.signals[i].asked)
      BY Zenon DEF OrdersKeepTheirMeaning, ExitKept
    <3>1. GoodBook(book)
      BY DEF OrdersInv, WhileTrading
    <3>2. DOMAIN book.positions = 1 .. Len(book.positions)
          /\ DOMAIN book.signals = 1 .. Len(book.signals)
      BY <3>1 DEF GoodBook
    <3>3. QED
      BY <3>1, <3>2, Zenon DEF GoodBook, GoodPosition, GoodSignal
  <2>2. PICK m \in Nat : /\ DOMAIN book.signals = 1 .. m
                         /\ book.heard = [h \in Heard |-> [i \in 1 .. m |-> i]]
    <3>1. CASE stage = "trading"
      <4>1. GoodBook(book)
        BY <3>1 DEF OrdersInv, WhileTrading
      <4>2. Len(book.signals) \in Nat /\ DOMAIN book.signals = 1 .. Len(book.signals)
        BY <4>1 DEF GoodBook
      <4>3. QED
        BY <4>1, <4>2, Zenon DEF GoodBook
    <3>2. CASE stage # "trading"
      BY <3>2, Zenon DEF OrdersInv, WhenSized
    <3>3. QED
      BY <3>1, <3>2
  <2>3. \A h \in Heard : book.heard[h] = [i \in DOMAIN book.signals |-> i]
    BY <2>2
  <2>4. SweepIsComplete
    <3> SUFFICES ASSUME stage = "trading", sweep.left = {}, ~book.thrown, ~MayDecline,
                        ~Priced(sweep.kind), sweep.at \in {"bar", "next"},
                        NEW n \in Swept(sweep.sides)
                 PROVE  sweep.at = "next" /\ IsOne(SignalsOf(n))
      BY DEF SweepIsComplete
    <3>1. SweepGoesOn
      BY DEF OrdersInv, WhileTrading
    <3>2. QED
      BY <3>1 DEF SweepGoesOn
  <2>5. stage \in {"saved", "counted"} => WhenSaved
    BY DEF OrdersInv
  <2>6. ASSUME stage = "counted"
        PROVE  processed = written.final /\ written.final <= written.raw
    <3>1. /\ processed = written.final /\ written.raw = Cardinality(1 .. m)
          /\ written.final = EnabledOf(book.signals, book.heard[File])
      BY <2>2, <2>6 DEF OrdersInv, WhenSaved
    <3>2. DOMAIN book.heard[File] = 1 .. m
      BY <2>2 DEF Heard, File
    <3>3. PICK E \in SUBSET (1 .. m) : written.final = Cardinality(E)
      BY <3>1, <3>2 DEF EnabledOf
    <3>4. IsFiniteSet(1 .. m)
      BY FS_Interval
    <3>5. Cardinality(E) <= Cardinality(1 .. m)
      BY <3>4, FS_Subset
    <3>6. QED
      BY <3>1, <3>3, <3>5
  <2>7. QED
    BY <2>1, <2>3, <2>4, <2>5, <2>6 DEF SignalsAreOrders, WhenSaved
<1>2. QED
  BY <1>1, OrdersInvariant, PTL
=============================================================================
