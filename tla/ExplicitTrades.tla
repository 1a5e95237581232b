--------------------------- MODULE ExplicitTrades ---------------------------
(***************************************************************************)
(* The explicit trades of a system: the file they are read from            *)
(* (core/ExplicitTrades.cpp), and toPositions, by which runSymbol books    *)
(* the ones before the start date (include/explicittrades.h), before it    *)
(* runs the system on the symbol.                                          *)
(*                                                                         *)
(* A time is the number of a bar, 0 one at which there is no bar.  Of a    *)
(* price it matters whether it is given, and whether the bar reaches it.   *)
(***************************************************************************)
EXTENDS Naturals, SequencesExt, FiniteSetsExt

CONSTANTS
  NBars,      \* bars of the symbol
  MaxLines,   \* bound: lines of the file
  TradeTimes, Actions, Types, Shares   \* the words and numbers on its lines

NoDate == NBars + 2   \* not a date

Exits   == {"SELL", "COVER", "SELL_ALL", "COVER_ALL", "EXIT_ALL"}
Entries == {"BUY", "SELL_SHORT"}

ASSUME ExplicitTradesAssumption ==
  /\ {NBars, MaxLines} \subseteq Nat
  /\ TradeTimes \subseteq 0 .. NBars
  /\ Actions \subseteq Exits \cup Entries
  /\ Types \subseteq {"MARKET", "CLOSE", "LIMIT", "STOP", "PRICE"}
  /\ Shares \subseteq Nat

\* Shares and price may be left out, and are then zero.  A price matters for
\* limits and stops, and shares do not where all positions are meant.
Trades ==
  {t \in [at : TradeTimes, action : Actions, type : Types, shares : Shares \cup {0},
          priced : BOOLEAN] :
     /\ t.priced \/ t.type \in {"LIMIT", "STOP"}
     /\ t.shares = 0 \/ t.action \in {"BUY", "SELL_SHORT", "SELL", "COVER"}}

VARIABLES
  start,   \* startTradesDateTime, as the first bar at or after it
  phase,   \* "file", "refused", "booking", "system", "aborted"
  lines,   \* lines read
  format,  \* _format
  trades,  \* the explicit trades of the symbol, in the order of the file
  bar,     \* i of toPositions
  todo,    \* the ones, by number, that are still to be processed for this bar
  pos      \* the positions that were opened

explicitVars == <<start, phase, lines, format, trades, bar, todo, pos>>

ExplicitInit ==
  /\ start \in 1 .. NBars + 1 \cup {NoDate}
  /\ phase = "file"
  /\ lines = 0
  /\ format = "csv"
  /\ trades = <<>>
  /\ bar = 0
  /\ todo = {}
  /\ pos = <<>>

-----------------------------------------------------------------------------
(* FileExplicitTrades *)

\* isComment: for two slashes, the second is looked for at the third place.
IsComment(line) == line \in {"hash", "csv", "json"}

\* preprocess: a directive is in a comment.
Preprocess(line) == IF line \in {"csv", "json"} THEN line ELSE format

ReadLine ==
  /\ phase = "file" /\ lines < MaxLines
  /\ lines' = lines + 1
  /\ UNCHANGED <<start, bar, todo, pos>>

IgnoreLine(line) ==
  /\ ReadLine
  /\ IsComment(line) \/ line = "blank"
  /\ format' = Preprocess(line)
  /\ UNCHANGED <<phase, trades>>

\* processCSVFormat; processJSONFormat does nothing.
ReadTrade(t) ==
  /\ ReadLine
  /\ trades' = IF format = "csv" THEN Append(trades, t) ELSE trades
  /\ UNCHANGED <<phase, format>>

\* The number of its elements or one of its words is wrong: the document is
\* not made.
ReadWrong(line) ==
  /\ ReadLine
  /\ ~IsComment(line)
  /\ phase' = IF format = "csv" THEN "refused" ELSE phase
  /\ UNCHANGED <<format, trades>>

EndOfFile ==
  /\ phase = "file"
  /\ phase' = "booking"
  /\ UNCHANGED <<start, lines, format, trades, bar, todo, pos>>

-----------------------------------------------------------------------------
(* toPositions *)

\* getExplicitTrades
At(b) == {k \in DOMAIN trades : trades[k].at = b}

With(actions) == {k \in todo : trades[k].action \in actions}

\* MUTANT: the entries are processed first.
EntriesFirst == IF With(Entries) # {} THEN Min(With(Entries)) ELSE Min(todo)

\* process(): the exits, then the entries, of one bar
Turn == IF With(Exits) # {} THEN Min(With(Exits)) ELSE Min(todo)

\* Bars at or after the end are left; without a date there is no end.
NextBar ==
  /\ phase = "booking" /\ todo = {}
  /\ bar < NBars /\ (start # NoDate => bar + 1 < start)
  /\ bar' = bar + 1
  /\ todo' = At(bar + 1)
  /\ UNCHANGED <<start, phase, lines, format, trades, pos>>

\* The system runs on the symbol.
RunSystem ==
  /\ phase = "booking" /\ todo = {}
  /\ bar = NBars \/ bar + 1 = start
  /\ phase' = "system"
  /\ UNCHANGED <<start, lines, format, trades, bar, todo, pos>>

\* CHECK_TRADE_RANGE with _endTrades = start: a `!' is missing, so that an end
\* that is not a date lets no order through, and a date is not looked at.
InTradeRange == start # NoDate

\* Whether an order is filled: at a price, if the bar reaches it, for all positions
\* alike, there being no slippage.
Outcomes(t) == IF ~InTradeRange THEN {FALSE}
               ELSE IF t.type \in {"LIMIT", "STOP"} THEN BOOLEAN ELSE {TRUE}

\* validateLimitPrice, validateStopPrice
InvalidPrice(t) == t.type \in {"LIMIT", "STOP"} /\ ~t.priced

SidesOf(t) ==
  CASE t.action \in {"SELL", "SELL_ALL"}   -> {"long"}
    [] t.action \in {"COVER", "COVER_ALL"} -> {"short"}
    [] OTHER                               -> {"long", "short"}

\* The open positions that the loop gives to the handler; the ones without shares
\* are disabled.
Chosen(t) ==
  {p \in DOMAIN pos : /\ pos[p].exitBar = 0 /\ pos[p].shares > 0
                      /\ pos[p].side \in SidesOf(t)
                      /\ t.action \in {"SELL", "COVER"} => pos[p].shares = t.shares}

\* The positions that an order is placed for: the first one with the shares, at
\* market only; or all, but all of both sides at market and at close only.
Handled(t) ==
  IF t.action \in {"SELL", "COVER"}
  THEN IF t.type = "MARKET" /\ Chosen(t) # {} THEN {Min(Chosen(t))} ELSE {}
  ELSE IF t.type \in (IF t.action = "EXIT_ALL" THEN {"MARKET", "CLOSE"}
                      ELSE {"MARKET", "CLOSE", "LIMIT", "STOP"})
       THEN Chosen(t) ELSE {}

Processes(k) ==
  /\ phase = "booking" /\ todo # {}
  /\ k = Turn
  /\ UNCHANGED <<start, lines, format, trades, bar>>

\* processExit
ProcessExit(k) ==
  LET t == trades[k] IN
  /\ Processes(k) /\ t.action \in Exits
  /\ Handled(t) # {} => ~InvalidPrice(t)
  /\ \E filled \in Outcomes(t) :
       pos' = [p \in DOMAIN pos |->
                 IF filled /\ p \in Handled(t) THEN [pos[p] EXCEPT !.exitBar = bar]
                 ELSE pos[p]]
  /\ todo' = todo \ {k}
  /\ UNCHANGED phase

\* processEntry
ProcessEntry(k) ==
  LET t == trades[k] IN
  /\ Processes(k) /\ t.action \in Entries
  /\ ~InvalidPrice(t)
  /\ \E filled \in Outcomes(t) :
       pos' = IF filled
              THEN Append(pos, [side |-> IF t.action = "BUY" THEN "long" ELSE "short",
                                shares |-> t.shares, entryBar |-> bar, exitBar |-> 0])
              ELSE pos
  /\ todo' = todo \ {k}
  /\ UNCHANGED phase

\* An exception leaves runSymbol: what was booked stays, and the system is not
\* run on the symbol.
InvalidPriceThrown(k) ==
  /\ Processes(k)
  /\ InvalidPrice(trades[k])
  /\ trades[k].action \in Entries \/ Handled(trades[k]) # {}
  /\ phase' = "aborted"
  /\ UNCHANGED <<todo, pos>>

ExplicitNext ==
  \/ \E line \in {"hash", "blank", "csv", "json"} : IgnoreLine(line)
  \/ \E t \in Trades : ReadTrade(t)
  \/ \E line \in {"wrong", "slashes"} : ReadWrong(line)
  \/ EndOfFile \/ NextBar \/ RunSystem
  \/ \E k \in todo : ProcessExit(k) \/ ProcessEntry(k) \/ InvalidPriceThrown(k)

ExplicitSpec == ExplicitInit /\ [][ExplicitNext]_explicitVars

-----------------------------------------------------------------------------
(* Properties *)

\* A trade that closes is for the positions of earlier bars, wherever its line is
\* in the file: a position is never closed on the bar it was opened on, so that
\* "exit all" and a new entry of one day leave the new position.
ExitsComeFirst == \A p \in DOMAIN pos : pos[p].exitBar # 0 => pos[p].exitBar > pos[p].entryBar

\* First in, first out: of two positions of one side with the same shares, the
\* later one is not closed before the earlier one.
OldestFirst == \A p, q \in DOMAIN pos :
  (p < q /\ pos[p].side = pos[q].side /\ pos[p].shares = pos[q].shares /\ pos[q].exitBar # 0)
    => pos[p].exitBar # 0 /\ pos[p].exitBar <= pos[q].exitBar

\* Once a bar at which all positions are to be left at market is done, none with
\* shares is left of the bars before it.
ExitAllLeavesNone ==
  (todo = {} /\ InTradeRange
     /\ \E k \in At(bar) : trades[k].action = "EXIT_ALL" /\ trades[k].type = "MARKET")
  => \A p \in DOMAIN pos :
       pos[p].entryBar < bar /\ pos[p].shares > 0 => pos[p].exitBar # 0

\* Explicit trades close what a reader of their file expects.
ClosesAsWritten == ExitsComeFirst /\ OldestFirst /\ ExitAllLeavesNone

-----------------------------------------------------------------------------
(* What comments of the code say *)

\* "ignore empty line or comments (start with # or with //"
\* (explicittrades.h): a file of comments is not refused.
CommentsAreIgnored == \A line \in {"hash", "slashes"} : IsComment(line)

\* "all explicit trades before that date are automatically generated"
\* (Scheduler.h): a market entry of a bar that was passed has its position.
AllAreBooked == phase = "system" =>
  \A t \in Range(trades) :
    (t.action = "BUY" /\ t.type = "MARKET" /\ t.at \in 1 .. bar)
      => \E p \in DOMAIN pos : pos[p].entryBar = t.at
=============================================================================
