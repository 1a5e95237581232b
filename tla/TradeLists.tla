----------------------------- MODULE TradeLists -----------------------------
(***************************************************************************)
(* What becomes of the positions of a session.  Every run of a system on a *)
(* symbol has a container of its own in the PositionsVector.  When the     *)
(* session ends all of them are copied to one container, which is written  *)
(* as the raw trades, sized by the signal handler, and given to the        *)
(* systems, which may sort, read and clear it; the main thread sorts it,   *)
(* counts it, and writes the trades as pages of HTML, with an index of the *)
(* pages, and as CSV.  A cancel order at the end of the run ends the       *)
(* session twice, without systems and handler the second time.  Workers    *)
(* share nothing but the vector, so that the runs are taken one after      *)
(* another, in the order of their containers.  A session that is given up  *)
(* for a timeout, with its workers still at work, is in RunSystem.         *)
(***************************************************************************)
EXTENDS Naturals, Sequences, SequencesExt

CONSTANTS
  TradeCases,   \* what a trade may come to: the fields of a position
  RunSymbols,   \* the symbol of each run, a number for its place in the alphabet
  MaxListed,    \* bound: the positions of the common container
  MaxEntered,   \* bound: the positions of the session
  MaxCalls,     \* bound: what the systems do at the end of the session
  ListFiles     \* the files that can be written, and the lines of a page

VARIABLES
  trades,       \* the positions, in the order in which they were entered
  containers,   \* the PositionsVector
  all,          \* its common container
  disabled,     \* the positions that were given no shares
  ending,       \* "run"; "ended" or "ended twice"; "listed" or "listed twice"
  calls,        \* what the systems have done at the end
  asked,        \* what the last one of them that reads got
  out,          \* the files of the session
  lists,        \* what they have
  times         \* history: how often the common container has every position

listVars ==
  <<trades, containers, all, disabled, ending, calls, asked, out, lists, times>>

-----------------------------------------------------------------------------
(* Containers *)

NewContainer == [list |-> <<>>, open |-> <<>>, ids |-> {}]

IsOpenTrade(n) == trades[n].until = 0
OpenOf(list) == SelectSeq(list, IsOpenTrade)

\* The map of ids keeps the position that it has.
WithIds(ids, more) == ids \cup {m \in more : \A i \in ids : i.id # m.id}

\* PositionsContainerImpl::add.  A position is open when it is added, and stays in the
\* list of the open ones when it is closed.
AddTrade(c, id, n) ==
  [list |-> Append(c.list, n), open |-> Append(c.open, n),
   ids  |-> WithIds(c.ids, {[id |-> id, trade |-> n]})]

\* nonDestructiveAppend, which appends a copy of the other container
AppendCopy(c, other) ==
  [list |-> c.list \o other.list, open |-> c.open \o other.open,
   ids  |-> WithIds(c.ids, other.ids)]

\* PositionsVector::populateAllPositions
PopulateAllPositions == FoldLeft(AppendCopy, all, containers)

Enabled(list) == SelectSeq(list, LAMBDA n : n \notin disabled)
CountOf(vector) == FoldLeft(LAMBDA sum, c : sum + Len(c.list), 0, vector)

\* The loops hand on the enabled positions, in order: those of a kind, the others, those
\* of any of several kinds or of all of them, and the closed ones.  A kind is a set.
ForEach(list, kind) == SelectSeq(Enabled(list), LAMBDA n : n \in kind)
ForEachNot(list, kind) == SelectSeq(Enabled(list), LAMBDA n : n \notin kind)
ForEachOr(list, kinds) == SelectSeq(Enabled(list), LAMBDA n : \E k \in kinds : n \in k)
ForEachAnd(list, kinds) == SelectSeq(Enabled(list), LAMBDA n : \A k \in kinds : n \in k)
ForEachClosed(list) == SelectSeq(Enabled(list), LAMBDA n : ~IsOpenTrade(n))

LongTrades == {n \in DOMAIN trades : trades[n].long}

-----------------------------------------------------------------------------
(* Sorting *)

\* Limit, stop and price orders are before each other.
OrderTypeLower(s, t) == s = "market" \/ t = "close" \/ (s # "close" /\ t # "market")

\* The last resort is the address, which may be either way: FALSE leaves both orders.
LessEntry(t, u) ==
  IF t.at # u.at THEN t.at < u.at
  ELSE IF t.kind # u.kind THEN OrderTypeLower(t.kind, u.kind)
  ELSE t.symbol < u.symbol

LessExit(t, u) ==
  \/ t.until = 0
  \/ /\ u.until # 0
     /\ IF t.until = u.until THEN OrderTypeLower(t.how, u.how) ELSE t.until < u.until

LessGain(t, u) == t.until = 0 \/ (u.until # 0 /\ t.gain < u.gain)

\* What list::sort is given to compare with; for descending it is the negation.
Less(by, ascending, m, n) ==
  LET t == trades[m]
      u == trades[n]
      less == CASE by = "entry" -> LessEntry(t, u)
                [] by = "exit"  -> LessExit(t, u)
                [] by = "gain"  -> LessGain(t, u)
  IN  less <=> ascending

\* No comparison is an order of all positions.  A merge leaves x before y if x is less,
\* or y is not.
Sorted(by, ascending, list) ==
  {[k \in DOMAIN list |-> list[f[k]]] :
     f \in {g \in Permutations(DOMAIN list) :
              \A k \in 1 .. Len(list) - 1 :
                LET x == list[g[k]]
                    y == list[g[k + 1]]
                IN  Less(by, ascending, x, y) \/ ~Less(by, ascending, y, x)}}

-----------------------------------------------------------------------------
(* Files *)

\* What is written of a list: nothing if it is empty; else the header, before the first
\* line, what a line writes, and the footer.
FormattedTrade(list, header, line, footer) ==
  IF list = <<>> THEN <<>> ELSE header \o FlattenSeq(line) \o footer

\* Lines of a page are odd and even ones.
HtmlLines(list, page) ==
  FormattedTrade(list, <<>>,
    [k \in DOMAIN list |-> <<[trade |-> list[k], odd |-> ((k - 1) % page) % 2 = 1]>>], <<>>)

\* The lines at which the pages begin.  (With each goes its place in the other file.)
Description(list, page) ==
  FormattedTrade(list, <<[what |-> "header"]>>,
    [k \in DOMAIN list |-> IF (k - 1) % page = 0 THEN <<[what |-> "line", line |-> k - 1]>>
                                                ELSE <<>>],
    <<[what |-> "end", line |-> Len(list)]>>)

\* The titles of the columns, the lines, and no footer.
CsvFile(list) == [titled |-> list # <<>>, lines |-> list]

NoLists == [raw |-> CsvFile(<<>>), html |-> <<>>, desc |-> <<>>, csv |-> CsvFile(<<>>),
            rawTrades |-> 0, processedTrades |-> 0]

-----------------------------------------------------------------------------
(* The session *)

\* A run begins: the vector gets a container.
BeginRun ==
  /\ ending = "run" /\ Len(containers) < Len(RunSymbols)
  /\ containers' = Append(containers, NewContainer)
  /\ UNCHANGED <<trades, all, disabled, ending, calls, asked, out, lists, times>>

\* A position of the last run, with what it comes to.  Its id is generated, or that of an
\* explicit trade, which a generated one may be equal to: the assertion of add is not
\* compiled.
TakeTrade == \E d \in TradeCases :
  /\ ending = "run" /\ containers # <<>> /\ Len(trades) < MaxEntered
  /\ LET run == Len(containers)
         n == Len(trades) + 1
     IN  \E id \in {1, n} :
           /\ trades' = Append(trades,
                [long |-> d.long, at |-> d.at, kind |-> d.kind, until |-> d.until,
                 how |-> d.how, gain |-> d.gain, symbol |-> RunSymbols[run], id |-> id])
           /\ containers' = [containers EXCEPT ![run] = AddTrade(@, id, n)]
  /\ UNCHANGED <<all, disabled, ending, calls, asked, out, lists, times>>

RawTradesCSVFile(list) ==
  IF "raw" \in out.files THEN CsvFile(Enabled(list)) ELSE lists.raw

\* notifySessionEnded: the signal handler, if it is still there, leaves some positions
\* without shares.
EndSession(sized) ==
  /\ all' = PopulateAllPositions
  /\ lists' = [lists EXCEPT !.raw = RawTradesCSVFile(all'.list)]
  /\ disabled' = sized
  /\ times' = times + 1
  /\ UNCHANGED <<trades, containers, calls, asked, out>>

EndRun ==
  /\ ending = "run" /\ containers # <<>>
  /\ \E sized \in SUBSET DOMAIN trades : EndSession(sized)
  /\ ending' = "ended"

\* cancel() has found no run, has ended the session and released the signal handler and
\* the systems; then comes runEnded, which leaves their sizing as it is.
EndAgain ==
  /\ ending = "ended" /\ 2 * Len(trades) <= MaxListed
  /\ EndSession(disabled)
  /\ ending' = "ended twice"

\* A call of a system in its sessionEnded.
Call ==
  /\ ending = "ended" /\ calls < MaxCalls
  /\ calls' = calls + 1
  /\ UNCHANGED <<trades, containers, disabled, ending, out, lists>>

SortPositions == \E by \in {"entry", "exit", "gain"}, ascending \in BOOLEAN :
  /\ Call
  /\ \E list \in Sorted(by, ascending, all.list) : all' = [all EXCEPT !.list = list]
  /\ UNCHANGED <<asked, times>>

ReversePositions ==
  /\ Call
  /\ all' = [all EXCEPT !.list = Reverse(@)]
  /\ UNCHANGED <<asked, times>>

\* The open positions and the ids are not cleared.
ClearPositions ==
  /\ Call
  /\ all' = [all EXCEPT !.list = <<>>]
  /\ times' = 0
  /\ UNCHANGED asked

\* The two counts of all and of the open positions have the disabled ones too; the count
\* of the open ones erases the others.
ReadPositions ==
  /\ Call
  /\ all' = [all EXCEPT !.open = OpenOf(@)]
  /\ LET closed == {n \in DOMAIN trades : ~IsOpenTrade(n)}
     IN  asked' = <<[each |-> ForEach(all.list, DOMAIN trades),
                     longs |-> ForEach(all.list, LongTrades),
                     shorts |-> ForEachNot(all.list, LongTrades),
                     closed |-> ForEachClosed(all.list),
                     either |-> ForEachOr(all.list, {LongTrades, closed}),
                     both |-> ForEachAnd(all.list, {LongTrades, closed}),
                     count |-> Len(all.list),
                     openCount |-> Len(OpenOf(all.open)),
                     ids |-> all.ids, times |-> times]>>
  /\ UNCHANGED times

\* saveTradesDescriptionFile writes both files or none; saveTradesCSVFile.
TradesDescriptionFile(lines) == IF {"html", "desc"} \subseteq out.files THEN lines ELSE <<>>
TradesCSVFile(list) == IF "csv" \in out.files THEN CsvFile(Enabled(list)) ELSE lists.csv

\* RunSystem::run, after the session: sort, count, save.
ReportTrades ==
  /\ ending \in {"ended", "ended twice"}
  /\ \E list \in Sorted("entry", TRUE, all.list) :
       /\ all' = [all EXCEPT !.list = list]
       /\ lists' = [lists EXCEPT !.html = TradesDescriptionFile(HtmlLines(Enabled(list), out.page)),
                                 !.desc = TradesDescriptionFile(Description(Enabled(list), out.page)),
                                 !.csv = TradesCSVFile(list),
                                 !.rawTrades = CountOf(containers),
                                 !.processedTrades = Len(Enabled(list))]
  /\ ending' = IF ending = "ended" THEN "listed" ELSE "listed twice"
  /\ UNCHANGED <<trades, containers, disabled, calls, asked, out, times>>

ListsInit ==
  /\ trades = <<>> /\ containers = <<>> /\ all = NewContainer /\ disabled = {}
  /\ ending = "run" /\ calls = 0 /\ asked = <<>> /\ times = 0
  /\ out \in ListFiles /\ lists = NoLists

ListsNext ==
  \/ BeginRun \/ TakeTrade \/ EndRun \/ EndAgain
  \/ SortPositions \/ ReversePositions \/ ClearPositions \/ ReadPositions \/ ReportTrades

-----------------------------------------------------------------------------
Occurrences(list, n) == Len(SelectSeq(list, LAMBDA m : m = n))

\* What was entered first is first; of one moment, the orders at the open are first and
\* those at the close last.
Rank(t) == 3 * t.at + (IF t.kind = "market" THEN 0 ELSE IF t.kind = "close" THEN 2 ELSE 1)
InOrderOfEntry(list) ==
  \A j, k \in DOMAIN list : j < k => Rank(trades[list[j]]) <= Rank(trades[list[k]])

\* The raw trades are those of every run, each once, in the order of the runs, before
\* the sizing; the trades are the ones with shares, each once, in the order of entry,
\* whatever the systems did with the container, and as many as are told.  (A session
\* that ends twice has every position twice, and its raw trades are those that are left.)
TradesOnce ==
  ending \in {"listed", "listed twice"} =>
    LET shown == [k \in DOMAIN lists.html |-> lists.html[k].trade]
    IN  /\ lists.rawTrades = Len(trades)
        /\ out.files = {"raw", "html", "desc", "csv"} =>
             /\ ending = "listed" => lists.raw.lines = [n \in DOMAIN trades |-> n]
             /\ \A n \in DOMAIN trades :
                  Occurrences(lists.csv.lines, n) = IF n \in disabled THEN 0 ELSE times
             /\ InOrderOfEntry(lists.csv.lines)
             /\ shown = lists.csv.lines /\ lists.processedTrades = Len(shown)

\* Every page of the index begins where the page before it ends, the last one at the
\* end of the file, and lines of a page that follow each other differ.
PagesRight ==
  LET d == lists.desc
      begins == [p \in 1 .. Len(d) - 1 |-> d[p + 1].line]
  IN  /\ d # <<>> <=> lists.html # <<>>
      /\ d # <<>> => /\ begins[1] = 0 /\ begins[Len(begins)] = Len(lists.html)
                     /\ \A p \in 2 .. Len(begins) : begins[p] - begins[p - 1] \in 1 .. out.page
                     /\ \A k \in 2 .. Len(lists.html) :
                          lists.html[k].odd # lists.html[k - 1].odd
                          \/ \E p \in DOMAIN begins : begins[p] = k - 1

\* A system that reads the container gets every position with shares as long or as
\* short, and as closed or as open; an id that only one position has leads to it.
AnswersAgree ==
  \A a \in Range(asked) :
    /\ Len(a.each) = Len(a.longs) + Len(a.shorts)
    /\ a.count = a.times * Len(trades)
    /\ \A n \in DOMAIN trades :
         LET has(list) == Occurrences(list, n)
             shares == IF n \in disabled THEN 0 ELSE a.times
         IN  /\ has(a.each) = shares
             /\ has(a.closed) = IF IsOpenTrade(n) THEN 0 ELSE shares
             /\ has(a.either) + has(a.both) = has(a.longs) + has(a.closed)
             /\ (\A m \in DOMAIN trades : trades[m].id = trades[n].id => m = n) =>
                  [id |-> trades[n].id, trade |-> n] \in a.ids
    /\ a.openCount = Len(OpenOf([n \in DOMAIN trades |-> n]))

\* Every trade of a session is shown once, in its place, with the counts that are told.
ListsShowTheTrades == TradesOnce /\ PagesRight /\ AnswersAgree
=============================================================================
