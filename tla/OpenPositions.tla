---------------------------- MODULE OpenPositions ----------------------------
(***************************************************************************)
(* What PositionsContainer promises about its open positions (the methods  *)
(* and comments of include/core.h): a position is open from the call that  *)
(* opens it to the call that closes it, the count and the last one are     *)
(* those of the open positions, a loop hands every enabled open position   *)
(* to its handler, in the order they were opened, and so does an iterator. *)
(* Positions are numbered in the order in which they are opened.           *)
(***************************************************************************)
EXTENDS Naturals, FiniteSets

CONSTANT MaxPositions   \* bound: positions opened

VARIABLES
  last,      \* number of positions opened so far
  open,      \* the open positions
  disabled,  \* the disabled positions
  phase,     \* "idle", "loop" or "handler": where forEachOpenPosition is
  given,     \* the position the loop gave to its handler last (0: none)
  prev,      \* the iterator is past this position
  known,     \* number of positions opened when the iterator was last called
  answer     \* what the last reading call returned

openVars == <<last, open, disabled, phase, given, prev, known, answer>>

\* m is the first element of S, or none is left; m is the last one (0: none).
IsFirstOpen(m, S) == m \in S /\ \A k \in S : m <= k
IsLastOpen(m, S)  == m \in S \cup {0} /\ \A k \in S : k <= m

UserRuns == phase \in {"idle", "handler"}

OpenInit ==
  /\ last = 0
  /\ open = {}
  /\ disabled = {}
  /\ phase = "idle"
  /\ given = 0
  /\ prev = 0
  /\ known = 0
  /\ answer = <<"none", 0>>

OpenOne ==
  /\ UserRuns /\ last < MaxPositions
  /\ last' = last + 1
  /\ open' = open \cup {last + 1}
  /\ UNCHANGED <<disabled, phase, given, prev, known, answer>>

CloseOne ==
  /\ UserRuns
  /\ \E p \in open : open' = open \ {p}
  /\ UNCHANGED <<last, disabled, phase, given, prev, known, answer>>

AbleOne ==
  /\ UserRuns
  /\ disabled' \in SUBSET (1 .. last)
  /\ UNCHANGED <<last, open, phase, given, prev, known, answer>>

CountOpen ==
  /\ UserRuns
  /\ answer' = <<"count", Cardinality(open)>>
  /\ UNCHANGED <<last, open, disabled, phase, given, prev, known>>

LastOpen ==
  /\ UserRuns
  /\ \E m \in open \cup {0} : IsLastOpen(m, open) /\ answer' = <<"last", m>>
  /\ UNCHANGED <<last, open, disabled, phase, given, prev, known>>

BeginLoop ==
  /\ phase = "idle"
  /\ phase' = "loop"
  /\ given' = 0
  /\ UNCHANGED <<last, open, disabled, prev, known, answer>>

\* The next enabled open position, among them those the handler opened.
GiveNext ==
  /\ phase = "loop"
  /\ \E m \in open :
       /\ IsFirstOpen(m, {p \in open \ disabled : p > given})
       /\ given' = m
  /\ phase' = "handler"
  /\ UNCHANGED <<last, open, disabled, prev, known, answer>>

\* Nothing is left to be given.
EndLoop ==
  /\ phase = "loop"
  /\ {p \in open \ disabled : p > given} = {}
  /\ phase' = "idle"
  /\ UNCHANGED <<last, open, disabled, given, prev, known, answer>>

\* The handler returns: true to go on, false to stop.
HandlerEnds ==
  /\ phase = "handler"
  /\ phase' \in {"loop", "idle"}
  /\ UNCHANGED <<last, open, disabled, given, prev, known, answer>>

\* One call of an iterator that is past position n, of k positions opened at
\* its last call: the next open position, or none.  Positions opened since that
\* call may be missed.
Iterate(n, k) ==
  /\ UserRuns
  /\ \/ \E m \in open :
          /\ IsFirstOpen(m, {p \in open : p > n})
          /\ answer' = <<"iterator", m>>
          /\ prev' = m
     \/ /\ \A p \in open : p > n => p > k
        /\ answer' = <<"iterator", 0>>
        /\ prev' = last
  /\ known' = last
  /\ UNCHANGED <<last, open, disabled, phase, given>>

\* User code that goes on with a loop or an iterator whose element was dropped
\* is promised nothing any more.
GoesWrong ==
  /\ UserRuns
  /\ phase' \in {"badLoop", "badIterator"}
  /\ UNCHANGED <<last, open, disabled, given, prev, known, answer>>

OpenNext ==
  \/ OpenOne \/ CloseOne \/ AbleOne
  \/ CountOpen \/ LastOpen
  \/ BeginLoop \/ GiveNext \/ EndLoop \/ HandlerEnds
  \/ Iterate(0, last) \/ Iterate(prev, known)
  \/ GoesWrong

OpenSpec == OpenInit /\ [][OpenNext]_openVars
=============================================================================
