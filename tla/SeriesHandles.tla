--------------------------- MODULE SeriesHandles ---------------------------
(***************************************************************************)
(* What a system does with its series (include/series.h): a Series is a    *)
(* handle, and a copy of it is a handle of the same series.  The operators *)
(* and the indicators make a new series; those that assign, setValue and   *)
(* push_back change the series, for all handles of it.  The bars hand out  *)
(* handles of the series that they are made of.                            *)
(*                                                                         *)
(* The comment on operator= says that all values are copied.  `meant' is   *)
(* what every handle would be of if that were so.                          *)
(*                                                                         *)
(* A cell is a term: of the close of a bar, of a value, or of what it was  *)
(* calculated of.  A series is as in Synchronizer, with such cells.        *)
(***************************************************************************)
EXTENDS Synchronizer

CONSTANTS Users,          \* variables of a system that are of type Series
          HandleTimes,    \* bound: the times of the bars of a symbol
          MaxHandleCalls  \* bound: calls that a system makes

ASSUME HandlesAssumption ==
  Symbols \cap Users = {} /\ IsFiniteSet(Symbols \cup Users)

VARIABLES store,       \* the series at their addresses
          handle,      \* the address that a handle has
          meant,       \* the series of its own that it would have
          disturbed,   \* the handles that were changed behind their back
          handleCalls

handleVars == <<store, handle, meant, disturbed, handleCalls>>

Handles == Symbols \cup Users
Of(h) == store[handle[h]]
Sharers(h) == {g \in Handles \ {h} : handle[g] = handle[h]}

Zero == <<"value", 0>>
Two == <<"value", 2>>
NoSync(cells) == [cells |-> cells, sync |-> None]

\* The bars of every symbol, not synchronized yet, and empty series.
HandlesInit ==
  /\ times \in [Symbols -> {SetToSortSeq(t, <) : t \in SUBSET HandleTimes \ {{}}}]
  /\ sync = [s \in Symbols |-> None]
  /\ count = [s \in Symbols |-> 0]
  /\ made = {}
  /\ handle = CHOOSE f \in [Handles -> 1 .. Cardinality(Handles)] :
                 \A g, h \in Handles : f[g] = f[h] => g = h
  /\ meant = [h \in Handles |->
                NoSync(IF h \in Users THEN <<>>
                       ELSE [k \in DOMAIN times[h] |-> <<"close", h, k>>])]
  /\ store = [n \in 1 .. Cardinality(Handles) |->
                meant[CHOOSE h \in Handles : handle[h] = n]]
  /\ disturbed = {} /\ handleCalls = 0

-----------------------------------------------------------------------------
(* A new series, and a changed one *)

HandleCall == handleCalls < MaxHandleCalls /\ handleCalls' = handleCalls + 1

\* h becomes a handle of the new series x, which was made of the ones of `from'.
Hold(h, x, m, from) ==
  /\ HandleCall
  /\ store' = Append(store, x)
  /\ handle' = [handle EXCEPT ![h] = Len(store) + 1]
  /\ meant' = [meant EXCEPT ![h] = IF from \cap disturbed = {} THEN m ELSE x]
  /\ disturbed' = IF from \cap disturbed = {} THEN disturbed \ {h}
                  ELSE disturbed \cup {h}
  /\ UNCHANGED syncVars

\* The series of h becomes x.  Other handles of it notice.
Change(h, x, m, from) ==
  /\ store' = [store EXCEPT ![handle[h]] = x]
  /\ meant' = [meant EXCEPT ![h] = IF from \cap disturbed = {} THEN m ELSE x]
  /\ disturbed' = disturbed \cup Sharers(h)
                    \cup (IF from \cap disturbed = {} THEN {} ELSE {h})
  /\ UNCHANGED handle

ChangeByCall(h, x, m, from) == HandleCall /\ Change(h, x, m, from) /\ UNCHANGED syncVars

-----------------------------------------------------------------------------
(* Operations on series, the functions of core/Indicators.h *)

\* getValue throws where the synchronizer points past the end.
Readable(x) == \A i \in 1 .. Size(x) : GetIndex(x, i) \in DOMAIN x.cells
BothSynced(x, y) == x.sync # None /\ y.sync # None
CanOperate(x, y) ==
  /\ Size(x) = Size(y)
  /\ IF BothSynced(x, y) THEN x.sync.ref = y.sync.ref
     ELSE Readable(x) /\ Readable(y)

OperateOn(op, x, y) ==
  IF BothSynced(x, y)
  THEN [x EXCEPT !.cells =
          [k \in DOMAIN x.cells |->
             <<op, x.cells[k], IF k <= Len(y.cells) THEN y.cells[k] ELSE Garbage>>]]
  ELSE NoSync([i \in 1 .. Size(x) |-> <<op, GetValue(x, i), GetValue(y, i)>>])

\* of all elements, synchronized or not
ByValue(op, x) ==
  [x EXCEPT !.cells = [k \in DOMAIN x.cells |-> <<op, x.cells[k], Two>>]]
ValueFirst(op, x) ==
  [x EXCEPT !.cells = [k \in DOMAIN x.cells |-> <<op, Two, x.cells[k]>>]]

\* an indicator of two elements: of all of them, synchronized as they are
IndicatorOf(x) ==
  [x EXCEPT !.cells = [k \in DOMAIN x.cells |->
                         <<"of", IF k = 1 THEN x.cells[k] ELSE x.cells[k - 1],
                           x.cells[k]>>]]

\* SeriesImpl::operator*= and its like: the elements are those of the result, and
\* the synchronizer stays.
Assigned(x, result) == [x EXCEPT !.cells = result.cells]

-----------------------------------------------------------------------------
(* The calls of a system *)

\* MUTANT: the result is put into the first operand.
NewOfTwoInPlace(op, h, g, k) ==
  /\ CanOperate(Of(g), Of(k))
  /\ HandleCall
  /\ store' = [store EXCEPT ![handle[g]] = OperateOn(op, Of(g), Of(k))]
  /\ handle' = [handle EXCEPT ![h] = handle[g]]
  /\ meant' = [meant EXCEPT ![h] = OperateOn(op, Of(g), Of(k))]
  /\ UNCHANGED <<disturbed, syncVars>>

\* h = g op k, h = g op 2, h = 2 op g
NewOfTwo(op, h, g, k) ==
  /\ CanOperate(Of(g), Of(k))
  /\ Hold(h, OperateOn(op, Of(g), Of(k)), OperateOn(op, meant[g], meant[k]), {g, k})
NewOfValue(op, h, g) == Hold(h, ByValue(op, Of(g)), ByValue(op, meant[g]), {g})
NewOfValueFirst(op, h, g) ==
  Hold(h, ValueFirst(op, Of(g)), ValueFirst(op, meant[g]), {g})

\* h op= g.  A synchronized series that takes the result of one that is not
\* keeps its synchronizer, through which the elements are then read: what was
\* meant is lost.
InPlace(op, h, g) ==
  LET result == OperateOn(op, Of(h), Of(g))
      mixed == Of(h).sync # None /\ Of(g).sync = None
  IN  /\ CanOperate(Of(h), Of(g))
      /\ HandleCall /\ UNCHANGED <<handle, syncVars>>
      /\ store' = [store EXCEPT ![handle[h]] = Assigned(Of(h), result)]
      /\ IF mixed \/ {g, h} \cap disturbed # {}
         THEN /\ meant' = [meant EXCEPT ![h] = Assigned(Of(h), result)]
              /\ disturbed' = disturbed \cup Sharers(h) \cup {h}
         ELSE /\ meant' = [meant EXCEPT ![h] = OperateOn(op, @, meant[g])]
              /\ disturbed' = disturbed \cup Sharers(h)

\* h op= 2
InPlaceValue(op, h) ==
  ChangeByCall(h, Assigned(Of(h), ByValue(op, Of(h))), ByValue(op, meant[h]), {h})

Arithmetic(op, h, g) ==
  \/ \E k \in Handles : NewOfTwo(op, h, g, k)
  \/ NewOfValue(op, h, g)
  \/ NewOfValueFirst(op, h, g)
  \/ InPlace(op, h, g)
  \/ InPlaceValue(op, h)

Multiply(h, g) == Arithmetic("*", h, g)
Add(h, g) == Arithmetic("+", h, g)
Subtract(h, g) == Arithmetic("-", h, g)
Divide(h, g) == Arithmetic("/", h, g)

\* h = g: a handle of the same series
Copy(h, g) ==
  /\ HandleCall
  /\ handle' = [handle EXCEPT ![h] = handle[g]]
  /\ meant' = [meant EXCEPT ![h] = meant[g]]
  /\ disturbed' = IF g \in disturbed THEN disturbed \cup {h} ELSE disturbed \ {h}
  /\ UNCHANGED <<store, syncVars>>

\* h = Series(n)
Create(h, n) ==
  LET x == NoSync([k \in 1 .. n |-> Zero]) IN Hold(h, x, x, {})

Indicator(h, g) == Hold(h, IndicatorOf(Of(g)), IndicatorOf(meant[g]), {g})

\* h[i] = 2: throws when the series is synchronized, and past its end.
SetElement(h, i) ==
  /\ Of(h).sync = None
  /\ i \in DOMAIN Of(h).cells
  /\ ChangeByCall(h, [Of(h) EXCEPT !.cells[i] = Two],
                  [meant[h] EXCEPT !.cells[i] = Two], {h})

PushBack(h) ==
  ChangeByCall(h, [Of(h) EXCEPT !.cells = Append(@, Two)],
               [meant[h] EXCEPT !.cells = Append(@, Two)], {h})

\* h.synchronize(g.synchronizer())
SynchronizeAs(h, g) ==
  ChangeByCall(h, [Of(h) EXCEPT !.sync = Of(g).sync],
               [meant[h] EXCEPT !.sync = meant[g].sync], {g, h})

\* BarsImpl::synchronize: all series of the bars are.
SynchronizeBars(s, r) ==
  /\ \A t \in Symbols : count[t] = 0
  /\ Synchronize(s, r)
  /\ Change(s, [Of(s) EXCEPT !.sync = sync'[s]], [meant[s] EXCEPT !.sync = sync'[s]],
            {s})
  /\ UNCHANGED handleCalls

HandlesNext ==
  \/ \E h \in Users, g \in Handles :
       \/ Multiply(h, g) \/ Add(h, g) \/ Subtract(h, g) \/ Divide(h, g)
       \/ Copy(h, g) \/ Indicator(h, g) \/ SynchronizeAs(h, g)
  \/ \E h \in Users : Create(h, 1) \/ SetElement(h, 1) \/ PushBack(h)
  \/ \E s, r \in Symbols : SynchronizeBars(s, r)

-----------------------------------------------------------------------------
(* Properties *)

\* A handle reads as if it had a series of its own, as the comment on operator=
\* says, until that series is changed through another handle, synchronized with
\* its bars, or a synchronized one is combined in place with one that is not.
\* The operators that make a new series, and the ones that assign, agree.
HandlesReadAsMeant == \A h \in Handles \ disturbed : Of(h) = meant[h]
=============================================================================
