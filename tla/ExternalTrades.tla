--------------------------- MODULE ExternalTrades ---------------------------
(***************************************************************************)
(* ExtTradesSystem (systemsplugin1/extTradesSystem.h): a system whose      *)
(* trades another program wrote to a file, one on a line.  It reads the    *)
(* file when it is made, and on a bar enters and exits the trades of the   *)
(* date of the bar.  An order that is not filled ends the run.             *)
(*                                                                         *)
(* A line is abstracted to the fields that are used; prices are those of   *)
(* the entry and of the open of a bar.  Bars of one date follow each other *)
(* when they are shorter than a day.                                       *)
(***************************************************************************)
EXTENDS Integers, Sequences, FiniteSets, SequencesExt

CONSTANTS ExtDates,   \* dates, numbers
          ExtPrices,  \* prices
          MaxTrades,  \* bound: lines of the file
          MaxBars     \* bound: bars of the symbol

NoDate == 0
EntryTypes == {"price", "market"}

ASSUME ExternalAssumption ==
  /\ ExtDates \subseteq Nat \ {NoDate}
  /\ ExtPrices \subseteq Nat
  /\ {MaxTrades, MaxBars} \subseteq Nat

VARIABLES phase,      \* "file" while it is read, "bars" between two of them, "entries" and
                      \* "exits" while those of the bar are made, "ended"
          file,       \* the trades read, as they are in _entries and _exits
          dates,      \* the dates of the bars of the symbol
          barNo,      \* the bar it is at
          price,      \* the open of the bar
          due,        \* the trades that are still to be entered, or exited, on the bar
          ids,        \* the position of each trade, 0 for none
          opened,     \* the positions
          failed      \* what was thrown

externalVars == <<phase, file, dates, barNo, price, due, ids, opened, failed>>

\* Five fields, or seven of a trade that is closed.
TradesOf ==
  [own : BOOLEAN, long : BOOLEAN, entry : ExtDates, exit : ExtDates \cup {NoDate},
   type : EntryTypes, price : ExtPrices]

Days == UNION {[1 .. n -> ExtDates] : n \in 1 .. MaxBars}
InOrder(s) == \A i, j \in DOMAIN s : i < j => s[i] <= s[j]

ExternalInit ==
  /\ phase = "file" /\ file = <<>>
  /\ dates \in {s \in Days : InOrder(s)}
  /\ barNo = 0 /\ price = 0 /\ due = {}
  /\ ids = <<>> /\ opened = <<>> /\ failed = "no"

\* Blank lines and comments are passed over.
ReadTrade ==
  /\ phase = "file" /\ Len(file) < MaxTrades
  /\ \E t \in TradesOf :
       /\ t.type = "market" => t.price = Min(ExtPrices)
       /\ file' = Append(file, t)
       /\ ids' = Append(ids, 0)
  /\ UNCHANGED <<phase, dates, barNo, price, due, opened, failed>>

ReadEnd ==
  /\ phase = "file"
  /\ phase' = "bars"
  /\ UNCHANGED <<file, dates, barNo, price, due, ids, opened, failed>>

-----------------------------------------------------------------------------
(* SymbolTrades: what is kept under which date *)

EntryDate(t) == t.entry
\* MUTANT: the exits are kept under the date of the entry, too.
ExitOnEntry(t) == IF t.exit = NoDate THEN NoDate ELSE t.entry
ExitDate(t) == t.exit

OwnTrades == {k \in DOMAIN file : file[k].own}
GetEntries(date) == {k \in OwnTrades : EntryDate(file[k]) = date}
GetExits(date) == {k \in OwnTrades : ExitDate(file[k]) = date}

-----------------------------------------------------------------------------
(* onBar *)

StartBar ==
  /\ phase = "bars" /\ OwnTrades # {}
  /\ barNo' = barNo + 1
  /\ price' \in ExtPrices
  /\ phase' = "entries"
  /\ due' = GetEntries(dates[barNo + 1])
  /\ UNCHANGED <<file, dates, ids, opened, failed>>

\* The run ends on the symbol.
Fails(reason) ==
  /\ failed' = reason
  /\ phase' = "ended"
  /\ UNCHANGED <<file, dates, barNo, price, due, ids, opened>>

NoTradesOfSymbol == phase = "bars" /\ OwnTrades = {} /\ Fails("no trades")

\* In the order of the file.
IsNext(k) == k \in due /\ \A j \in due : k <= j

EntryOrder(t) ==
  IF t.type = "market" THEN "market"
  ELSE IF t.price = price \/ (t.long <=> t.price < price) THEN "limit" ELSE "stop"

\* It asks for the entry, where it is the exit that is to be made.
ExitOrder(t) ==
  IF t.type = "market" THEN "market"
  ELSE IF t.price = price \/ (t.long <=> t.price > price) THEN "limit" ELSE "stop"

EnterTrade(k) ==
  /\ phase = "entries" /\ IsNext(k)
  /\ opened' = Append(opened, [of |-> k, at |-> barNo, as |-> EntryOrder(file[k]),
                               open |-> price, closed |-> 0, with |-> "none"])
  /\ ids' = [ids EXCEPT ![k] = Len(opened) + 1]
  /\ due' = due \ {k}
  /\ UNCHANGED <<phase, file, dates, barNo, price, failed>>

EntryNotFilled(k) == phase = "entries" /\ IsNext(k) /\ Fails("entry")

EntriesMade ==
  /\ phase = "entries" /\ due = {}
  /\ phase' = "exits"
  /\ due' = GetExits(dates[barNo])
  /\ UNCHANGED <<file, dates, barNo, price, ids, opened, failed>>

ExitTrade(k) ==
  /\ phase = "exits" /\ IsNext(k)
  /\ ids[k] # 0 /\ opened[ids[k]].closed = 0
  /\ opened' = [opened EXCEPT ![ids[k]].closed = barNo,
                              ![ids[k]].with = ExitOrder(file[k])]
  /\ due' = due \ {k}
  /\ UNCHANGED <<phase, file, dates, barNo, price, ids, failed>>

\* There is no position to exit, or an order is not filled or is of a closed one.
ExitNotMade(k) ==
  /\ phase = "exits" /\ IsNext(k)
  /\ \/ ids[k] = 0 /\ Fails("no position")
     \/ ids[k] # 0 /\ Fails("exit")
     \/ ids[k] # 0 /\ opened[ids[k]].closed # 0 /\ Fails("closed")

EndBar ==
  /\ phase = "exits" /\ due = {}
  /\ phase' = IF barNo = Len(dates) THEN "ended" ELSE "bars"
  /\ UNCHANGED <<file, dates, barNo, price, due, ids, opened, failed>>

ExternalNext ==
  \/ ReadTrade \/ ReadEnd \/ StartBar \/ NoTradesOfSymbol \/ EntriesMade \/ EndBar
  \/ \E k \in due : EnterTrade(k) \/ EntryNotFilled(k) \/ ExitTrade(k) \/ ExitNotMade(k)

-----------------------------------------------------------------------------
BarsOf(date) == {b \in DOMAIN dates : dates[b] = date}
PositionsOf(k) == {n \in DOMAIN opened : opened[n].of = k}

\* A trade of the file is entered on each bar of its date, a limit order being one
\* that the open does not pass, and what is closed was entered, and is closed on the
\* date that the file gives.  When the run gets to its end, every trade of the
\* symbol that has a bar was entered, and the last entry of it was closed if its
\* exit has one.  An exit that has no position comes before its entry.
ExternalTradesAsWritten ==
  /\ \A n \in DOMAIN opened :
       LET p == opened[n] t == file[p.of] IN
       /\ t.own /\ dates[p.at] = t.entry
       /\ p.as = "limit" => IF t.long THEN t.price <= p.open ELSE t.price >= p.open
       /\ p.closed # 0 => p.closed >= p.at /\ dates[p.closed] = t.exit
  /\ (phase = "ended" /\ failed = "no") => \A k \in OwnTrades :
       /\ Cardinality(PositionsOf(k)) = Cardinality(BarsOf(file[k].entry))
       /\ BarsOf(file[k].exit) # {} => ids[k] # 0 /\ opened[ids[k]].closed # 0
  /\ failed = "no position" =>
       \E k \in OwnTrades :
         file[k].exit = dates[barNo] /\ \A b \in BarsOf(file[k].entry) : b > barNo
=============================================================================
