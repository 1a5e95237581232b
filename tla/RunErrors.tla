----------------------------- MODULE RunErrors -----------------------------
(***************************************************************************)
(* How the failures of a run are told.  A system runs on one symbol after  *)
(* another.  The bars of a symbol are checked as they are stored, and what *)
(* the system reads, combines, draws and trades may throw: RunnableInfo    *)
(* cleans up, reports a status and turns the exception into an event, by   *)
(* the first of a list of handlers that takes it, and goes on with the     *)
(* next symbol.  The name of an exception stands for its class.            *)
(***************************************************************************)
EXTENDS Integers, FiniteSets, Sequences, SequencesExt

CONSTANTS
  Supplies,   \* what the file of a symbol may be: records of what is wrong with it,
              \* and its bars
  MaxSymbols, \* how many symbols the system runs on
  MaxActs,    \* bound: what a system does on a symbol
  Indices,    \* the indices it uses, from 0
  NoError     \* nothing was thrown

VARIABLES
  handling,   \* of invalid bars: "fatal", "warning" or "ignore"
  here,       \* the run on the current symbol
  past        \* what the runs before it ended with

errorVars == <<handling, here, past>>

-----------------------------------------------------------------------------
(* The classes of exceptions, and the handlers of RunnableInfo::run *)

SystemErrors == {"GeneralSystem", "BarSystem", "PositionIdNotFound"}
IndexErrors == {"BarIndexOutOfRange"}
PriceErrors == {"InvalidLimitPrice", "InvalidStopPrice"}
StructuredErrors == {"AccessViolation", "DivideByZero"}

\* A class and the ones it is derived from, but for CoreException, which no handler
\* takes.
Kinds(x) ==
  {x} \cup (IF x \in SystemErrors THEN {"System"} ELSE {})
      \cup (IF x \in IndexErrors THEN {"DataIndexOutOfRange"} ELSE {})
      \cup (IF x \in PriceErrors THEN {"InvalidPrice"} ELSE {})
      \cup (IF x \in StructuredErrors THEN {"Structured"} ELSE {})

\* MUTANT: the handler of the base class comes before that of a derived one.
HandlersBaseFirst ==
  <<"Bar", "DataSource", "GeneralSystem", "System", "PositionIdNotFound",
    "BarIndexOutOfRange", "InvalidLimitPrice", "InvalidStopPrice",
    "SeriesIndexOutOfRange", "TimeSeriesIndexOutOfRange",
    "SynchronizedSeriesIndexOutOfRange", "CoveringLongPosition",
    "SellingShortPosition", "ClosingAlreadyClosedPosition",
    "OperationOnUnequalSizeSeries", "DivideByZero", "AccessViolation",
    "SignalHandler", "InvalidIndexForOperation", "SeriesSynchronizer", "Chart",
    "OperationOnSeriesSyncedToDifferentSynchronizers",
    "PositionCloseOperationOnOpenPosition", "PositionZeroPrice",
    "OperationNotAllowedOnSynchronizedseries", "ExitRunnable",
    "InvalidBarsCollection", "ArrayIndexNotFound", "DictionaryKeyNotFound",
    "InvalidPosition", "ClosingPostionOnDifferentSymbol">>

\* Each tells the event that has the name of its class, but "System", which tells the
\* one of "GeneralSystem".
Handlers ==
  <<"Bar", "DataSource", "GeneralSystem", "PositionIdNotFound", "System",
    "BarIndexOutOfRange", "InvalidLimitPrice", "InvalidStopPrice",
    "SeriesIndexOutOfRange", "TimeSeriesIndexOutOfRange",
    "SynchronizedSeriesIndexOutOfRange", "CoveringLongPosition",
    "SellingShortPosition", "ClosingAlreadyClosedPosition",
    "OperationOnUnequalSizeSeries", "DivideByZero", "AccessViolation",
    "SignalHandler", "InvalidIndexForOperation", "SeriesSynchronizer", "Chart",
    "OperationOnSeriesSyncedToDifferentSynchronizers",
    "PositionCloseOperationOnOpenPosition", "PositionZeroPrice",
    "OperationNotAllowedOnSynchronizedseries", "ExitRunnable",
    "InvalidBarsCollection", "ArrayIndexNotFound", "DictionaryKeyNotFound",
    "InvalidPosition", "ClosingPostionOnDifferentSymbol">>

\* The handler that takes an exception, or the last one, which takes any.
Handler(x) ==
  LET n == SelectInSeq(Handlers, LAMBDA h : h \in Kinds(x))
  IN  IF n = 0 THEN "Unknown" ELSE Handlers[n]

-----------------------------------------------------------------------------
(* The bars *)

\* Bar::status
Status(b) ==
  CASE b.open = 0 /\ b.high = 0 /\ b.low = 0 /\ b.close = 0 /\ b.volume = 0 -> "empty"
    [] b.high < b.open  -> "high < open"
    [] b.high < b.low   -> "high < low"
    [] b.high < b.close -> "high < close"
    [] b.low > b.open   -> "low > open"
    [] b.low > b.close  -> "low > close"
    [] b.volume = 0     -> "volume 0"
    [] OTHER            -> "valid"
IsValid(b) == Status(b) = "valid"

InvalidBars(bars) == SelectSeq(bars, LAMBDA b : ~IsValid(b))

\* BarsImpl::add, bar by bar: the first invalid one may be fatal.
TooBad(bars) == handling = "fatal" /\ InvalidBars(bars) # <<>>

\* FileDataSource::makeBars: whatever is wrong with a file is told as the data source's
\* failure, but for an invalid bar.
LoadError(s) ==
  IF s.flaw # "none" THEN "DataSource"
  ELSE IF TooBad(s.bars) THEN "Bar"
  ELSE IF s.bars = <<>> THEN "DataSource" ELSE NoError

\* getInvalidDataAsString: of the first three bars, with a mark if there are more
Warning(bars) ==
  LET told == [n \in DOMAIN InvalidBars(bars) |-> Status(InvalidBars(bars)[n])]
  IN  [about |-> SubSeq(told, 1, IF Len(told) < 3 THEN Len(told) ELSE 3),
       more  |-> Len(told) > 3]

-----------------------------------------------------------------------------
(* The run on a symbol *)

Fresh(s) ==
  [stage |-> "load", supply |-> s, bars |-> <<>>, reference |-> -1, book |-> <<>>,
   acts |-> 0, thrown |-> NoError, first |-> NoError, cleanups |-> 0,
   status |-> <<>>, events |-> <<>>]

Event(category, handler, symbol, message) ==
  [category |-> category, handler |-> handler, symbol |-> symbol, message |-> message]

\* How many bars there are to see: those of the reference, once synchronized.
Seen == IF here.reference = -1 THEN Len(here.bars) ELSE here.reference

\* The rest of the run on the symbol goes on from a state in which something was
\* thrown, or not.
Becomes(new) == here' = new /\ UNCHANGED <<handling, past>>
Failing(x) ==
  [here EXCEPT !.thrown = x, !.first = IF @ = NoError THEN x ELSE @,
               !.stage = "cleanup"]

Load ==
  /\ here.stage = "load"
  /\ LET s == here.supply
         x == LoadError(s)
     IN  IF x # NoError
         THEN Becomes([Failing(x) EXCEPT !.stage = "report"])
         ELSE Becomes([here EXCEPT
                !.stage = "init", !.bars = s.bars,
                !.events = IF handling = "warning" /\ InvalidBars(s.bars) # <<>>
                           THEN <<Event("warning", "Bar", TRUE, Warning(s.bars))>>
                           ELSE <<>>])

\* Runnable::init: a system may throw, or refuse the symbol, and then it is not
\* cleaned up.
StartSystem ==
  /\ here.stage = "init"
  /\ \/ Becomes([here EXCEPT !.stage = "run"])
     \/ Becomes(Failing("GeneralSystem"))
     \/ Becomes([here EXCEPT !.stage = "report"])

\* What may come of one thing that a system does.
Acts(x, book) ==
  /\ here.stage = "run" /\ here.acts < MaxActs
  /\ IF x = NoError
     THEN Becomes([here EXCEPT !.acts = @ + 1, !.book = book])
     ELSE Becomes(Failing(x))
Reads(x) == Acts(x, here.book)

\* BarsImpl::open .. openInterest, get, forEach; its time is that of the reference.
ReadBar == \E i \in Indices :
  \/ Reads(IF i < Seen THEN NoError ELSE "BarIndexOutOfRange")
  \/ Reads(IF i < Seen THEN NoError ELSE "TimeSeriesIndexOutOfRange")

\* The bars of another symbol, which may not be there.
ReadOtherBars == \E there \in BOOLEAN :
  Reads(IF there THEN NoError ELSE "InvalidBarsCollection")

\* BarsImpl::synchronize
SynchronizeBars == \E n \in Indices \ {0} :
  /\ here.stage = "run" /\ here.acts < MaxActs
  /\ Becomes([here EXCEPT !.acts = @ + 1, !.reference = n])

PastEnd ==
  IF here.reference = -1 THEN "SeriesIndexOutOfRange"
  ELSE "SynchronizedSeriesIndexOutOfRange"

\* SeriesImpl::getValue, setValue
ReadValue == \E i \in Indices : Reads(IF i < Seen THEN NoError ELSE PastEnd)
SetValue == \E i \in Indices :
  Reads(IF here.reference # -1 THEN "OperationNotAllowedOnSynchronizedseries"
        ELSE IF i < Len(here.bars) THEN NoError ELSE PastEnd)

\* SeriesImpl::crossOver, crossUnder: the second bar is read only if the first one is
\* on its side.
Crossing == \E i, size \in Indices, onSide \in BOOLEAN :
  Reads(IF size # Seen THEN "OperationOnUnequalSizeSeries"
        ELSE IF i = 0 THEN "InvalidIndexForOperation"
        ELSE IF i - 1 >= Seen \/ (onSide /\ i >= Seen) THEN PastEnd ELSE NoError)

\* Op2SeriesBase::make: the synchronizers are of one reference or not.
Combine == \E size \in Indices, same \in BOOLEAN :
  Reads(IF size # Seen THEN "OperationOnUnequalSizeSeries"
        ELSE IF here.reference # -1 /\ ~same
        THEN "OperationOnSeriesSyncedToDifferentSynchronizers" ELSE NoError)

\* An order that reads a bar past the end is given as a signal, if it is for the next
\* bar and somebody takes signals.
Signalled(i) == i = Seen /\ Reads(NoError)

\* An order to enter: its price, then the bar.
EnterPosition ==
  \E long \in BOOLEAN, price \in {"market", "limit", "stop"}, positive \in BOOLEAN, i \in Indices :
    LET x == IF price = "limit" /\ ~positive THEN "InvalidLimitPrice"
             ELSE IF price = "stop" /\ ~positive THEN "InvalidStopPrice"
             ELSE IF i >= Seen THEN "BarIndexOutOfRange" ELSE NoError
    IN  /\ price = "market" => positive
        /\ \/ Acts(x, Append(here.book, [long |-> long, open |-> TRUE]))
           \/ positive /\ Signalled(i)

\* An order to sell or to cover a position that the system holds, or none: the symbol,
\* then the bar, whether the position is open, and its side.
ClosePosition ==
  \E n \in 0 .. Len(here.book), sell \in BOOLEAN, same \in BOOLEAN, i \in Indices :
    LET p == here.book[n]
        x == IF n = 0 THEN "InvalidPosition"
             ELSE IF ~same THEN "ClosingPostionOnDifferentSymbol"
             ELSE IF i >= Seen THEN "BarIndexOutOfRange"
             ELSE IF ~p.open THEN "ClosingAlreadyClosedPosition"
             ELSE IF sell /\ ~p.long THEN "SellingShortPosition"
             ELSE IF ~sell /\ p.long THEN "CoveringLongPosition" ELSE NoError
    IN  \/ Acts(x, IF n = 0 THEN here.book ELSE [here.book EXCEPT ![n].open = FALSE])
        \/ n # 0 /\ same /\ Signalled(i)

\* An order by an id that no position has.
CloseById == Reads("PositionIdNotFound")

\* PositionImpl::getClosePrice and its like
ReadClose == \E n \in DOMAIN here.book :
  Reads(IF here.book[n].open THEN "PositionCloseOperationOnOpenPosition" ELSE NoError)

\* What else a system may call: a full chart, a collection without the element, the
\* trades of a file where there are none, its own error, the end.  A signal handler,
\* a division or a pointer may fail, and what is thrown may be nothing that is known.
CallOther == \E x \in {"Chart", "ArrayIndexNotFound", "DictionaryKeyNotFound", "System",
                       "GeneralSystem", "ExitRunnable", "SignalHandler",
                       "DivideByZero", "AccessViolation", "Structured", "Parameters"} :
  Reads(x)

EndSystem == here.stage = "run" /\ Becomes([here EXCEPT !.stage = "cleanup"])

\* Runnable::cleanup is called once, and may throw too, instead of what was thrown.
Cleanup ==
  /\ here.stage = "cleanup"
  /\ \E x \in {NoError, "GeneralSystem", "ExitRunnable"} :
       LET new == IF x = NoError THEN here ELSE Failing(x)
       IN  Becomes([new EXCEPT !.cleanups = @ + 1, !.stage = "report"])

\* The end of runSymbol, and the handlers.  Only the last handler gives no symbol.
Report ==
  /\ here.stage = "report"
  /\ LET x == here.thrown
         told == Event("error", Handler(x), Handler(x) # "Unknown",
                       IF x = "Bar" THEN [about |-> <<Status(InvalidBars(here.supply.bars)[1])>>,
                                          more  |-> FALSE]
                       ELSE [about |-> <<>>, more |-> FALSE])
         done == [here EXCEPT
                    !.stage = "done",
                    !.status = CASE x = NoError -> <<"ok">>
                                 [] x = "ExitRunnable" -> <<>>
                                 [] OTHER -> <<"errors">>,
                    !.events = IF x = NoError THEN @ ELSE Append(@, told)]
     IN  Becomes(done)

Ended == here.stage = "done" /\ (here.thrown = "ExitRunnable" \/ Len(past) + 1 = MaxSymbols)

NextSymbol ==
  /\ here.stage = "done" /\ ~Ended
  /\ \E s \in Supplies : here' = Fresh(s)
  /\ past' = Append(past, here.thrown)
  /\ UNCHANGED handling

ErrorsInit ==
  /\ handling \in {"fatal", "warning", "ignore"}
  /\ \E s \in Supplies : here = Fresh(s)
  /\ past = <<>>

ErrorsNext ==
  \/ Load \/ StartSystem \/ EndSystem \/ Cleanup \/ Report \/ NextSymbol
  \/ ReadBar \/ ReadOtherBars \/ SynchronizeBars \/ ReadValue \/ SetValue
  \/ Crossing \/ Combine \/ EnterPosition \/ ClosePosition \/ CloseById \/ ReadClose \/ CallOther

-----------------------------------------------------------------------------
\* The handlers that take an exception, and the one of them that says most.
Takers(x) == {h \in Range(Handlers) : h \in Kinds(x)}
Closest(x) == IF x \in Takers(x) THEN x
              ELSE IF Takers(x) = {} THEN "Unknown" ELSE CHOOSE h \in Takers(x) : TRUE

\* Every failure on a symbol is told once, as what it was and not as something more
\* general, with the symbol, also when the cleanup fails; no symbol without a failure
\* has an error, and only a system that ended itself has no status.  A system that
\* began is cleaned up once.  No invalid bar gets to a system unnoticed: it is
\* refused, or told, as the mode says.  A failure on one symbol stops no other.
FailuresAreTold ==
  /\ here.stage = "done" =>
       LET x == here.thrown
           errors == SelectSeq(here.events, LAMBDA e : e.category = "error")
           warnings == SelectSeq(here.events, LAMBDA e : e.category = "warning")
           wrong == InvalidBars(here.bars)
       IN  /\ Len(errors) = IF x = NoError THEN 0 ELSE 1
           /\ x # NoError => /\ errors[1].handler = Closest(x)
                             /\ errors[1].symbol \/ Takers(x) = {}
           /\ here.status = <<"ok">> <=> x = NoError
           /\ here.status = <<>> <=> x = "ExitRunnable"
           /\ here.cleanups <= 1
           /\ here.acts > 0 \/ (here.first # NoError /\ here.bars # <<>>) => here.cleanups = 1
           /\ handling = "fatal" => wrong = <<>>
           /\ Len(warnings) = IF handling = "warning" /\ wrong # <<>> THEN 1 ELSE 0
           /\ warnings # <<>> =>
                \A n \in 1 .. 3 : n <= Len(wrong) =>
                  Status(wrong[n]) = warnings[1].message.about[n]
  /\ "ExitRunnable" \notin Range(past)
=============================================================================
