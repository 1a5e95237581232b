------------------------------ MODULE Positions ------------------------------
(***************************************************************************)
(* PositionsContainerImpl, OpenPositions and OpenPositionsIteratorImpl of  *)
(* src/core/Positions.h.                                                   *)
(*                                                                         *)
(* A container has the list of its positions and the list of the open      *)
(* ones.  Closing a position leaves it in the second list; the reading     *)
(* calls (count, last, loop, iterator) drop closed positions when they     *)
(* come across them.  A position is only ever pushed at the back, so both  *)
(* lists are in the order of opening: they are sets of the numbers the     *)
(* positions get when they are opened.  User code runs between the calls,  *)
(* and inside the handler of a loop.                                       *)
(***************************************************************************)
EXTENDS Naturals, FiniteSets

CONSTANTS
  MaxPositions,      \* bound: positions opened
  MisusesIterators,  \* whether user code goes on with a loop or an iterator
                     \* after another call has dropped the position it is at
  MayClear           \* whether user code calls clear()

ASSUME PositionsAssumption ==
  /\ MaxPositions \in Nat
  /\ MisusesIterators \in BOOLEAN
  /\ MayClear \in BOOLEAN

VARIABLES
  last,      \* positions opened so far
  listed,    \* PositionsContainerImpl: its list
  closed,    \* positions whose isClosed() is true
  disabled,  \* positions whose isDisabled() is true: they have no shares
  nodes,     \* _openPositions: its list
  phase,     \* where forEachOpenPosition is
  at,        \* its local variable i
  given,     \* its local variable pos
  it,        \* OpenPositionsIteratorImpl::_i
  answer     \* what the last reading call returned

\* History: the last position the iterator returned, and the number of
\* positions opened when it was last called.
VARIABLES prev, known

vars == <<last, listed, closed, disabled, nodes, phase, at, given, it, answer,
          prev, known>>

Positions == 1 .. MaxPositions
End       == MaxPositions + 1   \* end()
Dangling  == MaxPositions + 2   \* an iterator to a node that was erased

\* m is the first element of N, End if there is none; m is the last one, 0 if
\* there is none.
IsFirst(m, N) == m \in N \cup {End} /\ \A k \in N : m <= k
IsLast(m, N)  == m \in N \cup {0} /\ \A k \in N : k <= m

\* An iterator when the nodes E are erased.
Erased(i, E) == IF i \in E THEN Dangling ELSE i

UserCode == phase \in {"idle", "handler"}

Init ==
  /\ last = 0
  /\ listed = {}
  /\ closed = {}
  /\ disabled = {}
  /\ nodes = {}
  /\ phase = "idle"
  /\ at = End
  /\ given = 0
  /\ it = End
  /\ answer = <<"none", 0>>
  /\ prev = 0
  /\ known = 0

-----------------------------------------------------------------------------
(* openLong, openShort, closeLong, closeShort, setShares, disable, clear *)

\* MUTANT: a position is not added to the open ones.
OpenUnlisted ==
  /\ UserCode /\ last < MaxPositions
  /\ last' = last + 1
  /\ listed' = listed \cup {last + 1}
  /\ UNCHANGED <<nodes, closed, disabled, phase, at, given, it, answer, prev, known>>

\* add()
Open ==
  /\ UserCode /\ last < MaxPositions
  /\ last' = last + 1
  /\ listed' = listed \cup {last + 1}
  /\ nodes' = nodes \cup {last + 1}
  /\ UNCHANGED <<closed, disabled, phase, at, given, it, answer, prev, known>>

\* close(): the removal from the list of open positions is deferred.
Close(p) ==
  /\ UserCode
  /\ p \in 1 .. last /\ p \notin closed
  /\ closed' = closed \cup {p}
  /\ UNCHANGED <<last, listed, disabled, nodes, phase, at, given, it, answer,
                 prev, known>>

\* disable(), setShares()
SetShares(p) ==
  /\ UserCode
  /\ p \in 1 .. last
  /\ disabled' \in {disabled \cup {p}, disabled \ {p}}
  /\ UNCHANGED <<last, listed, closed, nodes, phase, at, given, it, answer,
                 prev, known>>

\* clear(): OpenPositions::clear() does nothing.
Clear ==
  /\ MayClear /\ phase = "idle"
  /\ listed' = {}
  /\ UNCHANGED <<last, closed, disabled, nodes, phase, at, given, it, answer,
                 prev, known>>

-----------------------------------------------------------------------------
(* openPositionsCount, getLastOpenPosition *)

\* MUTANT: the closed positions are counted.
CountWithClosed ==
  /\ UserCode
  /\ answer' = <<"count", Cardinality(nodes)>>
  /\ UNCHANGED <<last, listed, closed, disabled, nodes, phase, at, given, it,
                 prev, known>>

Count ==
  /\ UserCode
  /\ nodes' = nodes \ closed
  /\ at' = Erased(at, nodes \cap closed)
  /\ it' = Erased(it, nodes \cap closed)
  /\ answer' = <<"count", Cardinality(nodes \ closed)>>
  /\ UNCHANGED <<last, listed, closed, disabled, phase, given, prev, known>>

\* Closed positions are dropped from the back until an open one is there.
GetLast ==
  /\ UserCode
  /\ \E m \in nodes \cup {0} :
       /\ IsLast(m, nodes \ closed)
       /\ LET back == {n \in nodes : n > m} IN
          /\ nodes' = nodes \ back
          /\ at' = Erased(at, back)
          /\ it' = Erased(it, back)
       /\ answer' = <<"last", m>>
  /\ UNCHANGED <<last, listed, closed, disabled, phase, given, prev, known>>

-----------------------------------------------------------------------------
(* forEachOpenPosition *)

\* i = begin()
LoopStart ==
  /\ phase = "idle"
  /\ \E m \in nodes \cup {End} : IsFirst(m, nodes) /\ at' = m
  /\ phase' = "loop"
  /\ given' = 0
  /\ UNCHANGED <<last, listed, closed, disabled, nodes, it, answer, prev, known>>

LoopEnds ==
  /\ phase = "loop" /\ at = End
  /\ phase' = "idle"
  /\ UNCHANGED <<last, listed, closed, disabled, nodes, at, given, it, answer,
                 prev, known>>

\* MUTANT: after the erase i is incremented once more.
LoopEraseSkips ==
  /\ phase = "loop" /\ at \in nodes /\ at \in closed
  /\ nodes' = nodes \ {at}
  /\ it' = Erased(it, {at})
  /\ \E m \in nodes \cup {End} :
       /\ IsFirst(m, {n \in nodes : n > at})
       /\ \E k \in nodes \cup {End} : IsFirst(k, {n \in nodes : n > m}) /\ at' = k
  /\ UNCHANGED <<last, listed, closed, disabled, phase, given, answer, prev, known>>

\* i = erase(i)
LoopErase ==
  /\ phase = "loop" /\ at \in nodes /\ at \in closed
  /\ nodes' = nodes \ {at}
  /\ it' = Erased(it, {at})
  /\ \E m \in nodes \cup {End} : IsFirst(m, {n \in nodes : n > at}) /\ at' = m
  /\ UNCHANGED <<last, listed, closed, disabled, phase, given, answer, prev, known>>

LoopSkipDisabled ==
  /\ phase = "loop" /\ at \in nodes /\ at \notin closed /\ at \in disabled
  /\ \E m \in nodes \cup {End} : IsFirst(m, {n \in nodes : n > at}) /\ at' = m
  /\ UNCHANGED <<last, listed, closed, disabled, nodes, phase, given, it, answer,
                 prev, known>>

\* openPositionHandler.onOpenPosition(pos, ...) is called.
LoopHandler ==
  /\ phase = "loop" /\ at \in nodes /\ at \notin closed /\ at \notin disabled
  /\ given' = at
  /\ phase' = "handler"
  /\ UNCHANGED <<last, listed, closed, disabled, nodes, at, it, answer, prev, known>>

\* It returned false: break.
HandlerStops ==
  /\ phase = "handler"
  /\ phase' = "idle"
  /\ at' = End
  /\ UNCHANGED <<last, listed, closed, disabled, nodes, given, it, answer, prev, known>>

\* It returned true: ++i.
HandlerContinues ==
  /\ phase = "handler" /\ at \in nodes
  /\ \E m \in nodes \cup {End} : IsFirst(m, {n \in nodes : n > at}) /\ at' = m
  /\ phase' = "loop"
  /\ UNCHANGED <<last, listed, closed, disabled, nodes, given, it, answer, prev, known>>

\* ++i when the node of i was erased while the handler ran.
HandlerContinuesErased ==
  /\ MisusesIterators
  /\ phase = "handler" /\ at = Dangling
  /\ phase' = "badLoop"
  /\ UNCHANGED <<last, listed, closed, disabled, nodes, at, given, it, answer,
                 prev, known>>

-----------------------------------------------------------------------------
(* OpenPositionsIteratorImpl *)

\* getNext() from node i: closed positions are erased on the way to the next
\* open one, which is returned, or 0 at the end.
NextFrom(i) ==
  /\ \E m \in nodes \cup {End} :
       /\ IsFirst(m, {n \in nodes \ closed : n >= i})
       /\ LET passed == {n \in nodes : i <= n /\ n < m} IN
          /\ nodes' = nodes \ passed
          /\ at' = Erased(at, passed)
       /\ answer' = <<"iterator", IF m = End THEN 0 ELSE m>>
       /\ prev' = IF m = End THEN last ELSE m
       /\ \E k \in nodes \cup {End} :
            IsFirst(k, {n \in nodes : n > m}) /\ it' = k
  /\ known' = last
  /\ UNCHANGED <<last, listed, closed, disabled, phase, given>>

\* getFirst() starts over from begin().
IteratorFirst == UserCode /\ NextFrom(0)

IteratorNext == UserCode /\ it # Dangling /\ NextFrom(it)

\* *_i when the node of _i was erased.
IteratorNextErased ==
  /\ MisusesIterators
  /\ UserCode /\ it = Dangling
  /\ phase' = "badIterator"
  /\ UNCHANGED <<last, listed, closed, disabled, nodes, at, given, it, answer,
                 prev, known>>

-----------------------------------------------------------------------------
Next ==
  \/ Open \/ Clear
  \/ \E p \in Positions : Close(p) \/ SetShares(p)
  \/ Count \/ GetLast
  \/ LoopStart \/ LoopEnds \/ LoopErase \/ LoopSkipDisabled \/ LoopHandler
  \/ HandlerStops \/ HandlerContinues \/ HandlerContinuesErased
  \/ IteratorFirst \/ IteratorNext \/ IteratorNextErased

Spec == Init /\ [][Next]_vars

-----------------------------------------------------------------------------
(* Properties *)

\* The variables have their types: the loop and the iterator are at a node of the
\* list, at its end, or at one that is known to be erased.
TypeOK ==
  /\ last \in 0 .. MaxPositions
  /\ listed \in SUBSET (1 .. last)
  /\ closed \in SUBSET (1 .. last)
  /\ disabled \in SUBSET (1 .. last)
  /\ nodes \in SUBSET (1 .. last)
  /\ phase \in {"idle", "loop", "handler", "badLoop", "badIterator"}
  /\ at \in nodes \cup {End, Dangling}
  /\ given \in 0 .. last
  /\ it \in nodes \cup {End, Dangling}
  /\ answer \in {"none", "count", "last", "iterator"} \X (0 .. last)
  /\ prev \in 0 .. last
  /\ known \in 0 .. last

\* However lazily closed positions are dropped, an open one is never lost:
\* remove() finds every position that is closed (its assert).
OpenPositionsListed == (1 .. last) \ closed \subseteq nodes

\* What the loop is about to look at is the first position that is still to be
\* given to the handler, whatever was closed, dropped or opened meanwhile.
LoopMissesNone ==
  phase = "loop" =>
    \A p \in nodes : p > given /\ p \notin closed /\ p \notin disabled => p >= at

\* The container keeps the promises of OpenPositions.
Promise == INSTANCE OpenPositions WITH open <- (1 .. last) \ closed
Promised == Promise!OpenSpec

-----------------------------------------------------------------------------
(* What comments of the code say *)

\* forEachOpenPosition "can be used to traverse all open positions and/or close
\* some or all of them", it "guarantees the integrity of the list after removing
\* elements": no loop steps on an element that was removed.
LoopIntegrity == phase # "badLoop"
=============================================================================
