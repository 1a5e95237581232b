--------------------------- MODULE PositionsProofs ---------------------------
(***************************************************************************)
(* Positions implements OpenPositions for any number of positions, as long *)
(* as user code does not go on with an iteration whose position was        *)
(* dropped.                                                                *)
(***************************************************************************)
EXTENDS Positions, FiniteSetTheorems, TLAPS

\* Where the loop stands with respect to what it gave to the handler.
LoopInv ==
  /\ phase = "loop" => at \in nodes \cup {End} /\ given < at
  /\ phase = "handler" => given >= 1 /\ at \in {given, Dangling}
  /\ LoopMissesNone

\* Where the iterator stands with respect to what it returned.
IteratorInv ==
  /\ it \in nodes => /\ prev < it
                     /\ \A p \in nodes : p > prev /\ p \notin closed => p >= it
  /\ it = End => \A p \in nodes : p > prev /\ p \notin closed => p > known

IInv == TypeOK /\ OpenPositionsListed /\ LoopInv /\ IteratorInv

-----------------------------------------------------------------------------
\* Positions are numbers, the end of the list comes after them.
LEMMA Numbers ==
  ASSUME TypeOK
  PROVE  /\ MaxPositions \in Nat /\ last \in Nat /\ given \in Nat /\ prev \in Nat
         /\ nodes \subseteq Nat /\ End \in Nat
         /\ \A n \in nodes : n >= 1 /\ n <= last /\ n < End
  BY PositionsAssumption DEF TypeOK, End

\* An empty container satisfies the invariant.
LEMMA InitIInv == Init => IInv
  BY PositionsAssumption
     DEF Init, IInv, TypeOK, OpenPositionsListed, LoopInv, LoopMissesNone,
         IteratorInv, End, Dangling

\* A call that erases only closed nodes, leaves the loop and the iterator where
\* they are, unless their nodes are erased, and changes nothing else.
LEMMA EraseKeepsIInv ==
  ASSUME IInv, NEW E, E \subseteq nodes \cap closed,
         UserCode,
         nodes' = nodes \ E, at' = Erased(at, E), it' = Erased(it, E),
         answer' \in {"none", "count", "last", "iterator"} \X (0 .. last),
         UNCHANGED <<last, listed, closed, disabled, phase, given, prev, known>>
  PROVE  IInv'
  <1> USE PositionsAssumption DEF IInv, Erased, End, Dangling
  <1>1. TypeOK' BY DEF TypeOK
  <1>2. OpenPositionsListed' BY DEF OpenPositionsListed
  <1>3. LoopInv' BY DEF LoopInv, LoopMissesNone, TypeOK, UserCode
  <1>4. IteratorInv' BY DEF IteratorInv, TypeOK
  <1> QED BY <1>1, <1>2, <1>3, <1>4

\* The calls that change positions: add, close, setShares, clear.
LEMMA UserStep ==
  ASSUME IInv, Open \/ Clear \/ (\E p \in Positions : Close(p) \/ SetShares(p))
  PROVE  IInv'
  <1> USE PositionsAssumption DEF IInv, End, Dangling, UserCode
  <1>1. CASE Open
    <2>1. TypeOK' BY <1>1 DEF Open, TypeOK
    <2>2. OpenPositionsListed' BY <1>1 DEF Open, TypeOK, OpenPositionsListed
    <2>3. LoopInv' BY <1>1 DEF Open, TypeOK, LoopInv, LoopMissesNone
    <2>4. IteratorInv' BY <1>1 DEF Open, TypeOK, IteratorInv
    <2> QED BY <2>1, <2>2, <2>3, <2>4
  <1>2. CASE Clear
    BY <1>2 DEF Clear, TypeOK, OpenPositionsListed, LoopInv, LoopMissesNone,
                IteratorInv
  <1>3. ASSUME NEW p \in Positions, Close(p) PROVE IInv'
    BY <1>3 DEF Close, TypeOK, OpenPositionsListed, LoopInv, LoopMissesNone,
                IteratorInv
  <1>4. ASSUME NEW p \in Positions, SetShares(p) PROVE IInv'
    BY <1>4 DEF SetShares, TypeOK, OpenPositionsListed, LoopInv,
                LoopMissesNone, IteratorInv
  <1> QED BY <1>1, <1>2, <1>3, <1>4

\* The calls that read the list and clean it on their way.
LEMMA ReadStep ==
  ASSUME IInv, Count \/ GetLast
  PROVE  IInv'
  <1>1. CASE Count
    <2>1. nodes' = nodes \ (nodes \cap closed)
      BY <1>1 DEF Count
    <2>2. answer' \in {"none", "count", "last", "iterator"} \X (0 .. last)
      <3>1. nodes \ closed \in SUBSET (1 .. last) /\ last \in Nat
        BY DEF IInv, TypeOK
      <3>2. IsFiniteSet(1 .. last) /\ Cardinality(1 .. last) = last
        BY <3>1, FS_Interval
      <3>3. Cardinality(nodes \ closed) \in 0 .. last
        BY <3>1, <3>2, FS_Subset, FS_CardinalityType
      <3> QED BY <1>1, <3>3 DEF Count
    <2> QED BY <1>1, <2>1, <2>2, EraseKeepsIInv DEF Count
  <1>2. CASE GetLast
    <2>1. PICK m \in nodes \cup {0} :
            /\ IsLast(m, nodes \ closed)
            /\ nodes' = nodes \ {n \in nodes : n > m}
            /\ at' = Erased(at, {n \in nodes : n > m})
            /\ it' = Erased(it, {n \in nodes : n > m})
            /\ answer' = <<"last", m>>
      BY <1>2 DEF GetLast
    <2>2. {n \in nodes : n > m} \subseteq nodes \cap closed
      <3>1. m \in Nat /\ nodes \subseteq Nat
        BY Numbers DEF IInv
      <3>2. \A n \in nodes \ closed : n <= m
        BY <2>1 DEF IsLast
      <3>3. ASSUME NEW n \in nodes, n > m PROVE n \in closed
        BY <3>1, <3>2, <3>3
      <3> QED BY <3>3
    <2>3. answer' \in {"none", "count", "last", "iterator"} \X (0 .. last)
      BY <2>1 DEF IInv, TypeOK
    <2> QED BY <1>2, <2>1, <2>2, <2>3, EraseKeepsIInv DEF GetLast
  <1> QED BY <1>1, <1>2

\* The steps of forEachOpenPosition.
LEMMA LoopStep ==
  ASSUME IInv,
         \/ LoopStart \/ LoopEnds \/ LoopErase \/ LoopSkipDisabled
         \/ LoopHandler \/ HandlerStops \/ HandlerContinues
         \/ HandlerContinuesErased
  PROVE  IInv'
  <1> USE PositionsAssumption DEF IInv, IsFirst, Erased, End, Dangling
  <1>1. CASE LoopStart
    BY <1>1 DEF LoopStart, TypeOK, OpenPositionsListed, LoopInv,
                LoopMissesNone, IteratorInv
  <1>2. CASE LoopEnds
    BY <1>2 DEF LoopEnds, TypeOK, OpenPositionsListed, LoopInv, LoopMissesNone,
                IteratorInv
  <1>3. CASE LoopErase
    <2>1. PICK m \in nodes \cup {End} :
            IsFirst(m, {n \in nodes : n > at}) /\ at' = m
      BY <1>3 DEF LoopErase
    <2>2. at' \in nodes' \cup {End} /\ at < at'
      BY <1>3, <2>1 DEF LoopErase, TypeOK
    <2>3. TypeOK' BY <1>3, <2>2 DEF LoopErase, TypeOK
    <2>4. OpenPositionsListed' BY <1>3 DEF LoopErase, OpenPositionsListed
    <2>5. LoopMissesNone'
      BY <1>3, <2>1, <2>2 DEF LoopErase, LoopInv, LoopMissesNone, TypeOK
    <2>6. LoopInv'
      <3>1. phase' = "loop" /\ given' = given /\ given < at
        BY <1>3 DEF LoopErase, LoopInv
      <3>2. given < at'
        BY <1>3, <2>1, <2>2, <3>1, Numbers DEF LoopErase
      <3> QED BY <2>2, <2>5, <3>1, <3>2 DEF LoopInv
    <2>7. IteratorInv' BY <1>3 DEF LoopErase, IteratorInv, TypeOK
    <2> QED BY <2>3, <2>4, <2>6, <2>7
  <1>4. CASE LoopSkipDisabled
    <2>1. PICK m \in nodes \cup {End} :
            IsFirst(m, {n \in nodes : n > at}) /\ at' = m
      BY <1>4 DEF LoopSkipDisabled
    <2>2. at < at'
      BY <1>4, <2>1 DEF LoopSkipDisabled, TypeOK
    <2>3. TypeOK' BY <1>4, <2>1 DEF LoopSkipDisabled, TypeOK
    <2>4. OpenPositionsListed' BY <1>4 DEF LoopSkipDisabled, OpenPositionsListed
    <2>5. LoopMissesNone'
      BY <1>4, <2>1, <2>2 DEF LoopSkipDisabled, LoopInv, LoopMissesNone, TypeOK
    <2>6. LoopInv'
      BY <1>4, <2>1, <2>2, <2>5 DEF LoopSkipDisabled, LoopInv, TypeOK
    <2>7. IteratorInv' BY <1>4 DEF LoopSkipDisabled, IteratorInv
    <2> QED BY <2>3, <2>4, <2>6, <2>7
  <1>5. CASE LoopHandler
    BY <1>5 DEF LoopHandler, TypeOK, OpenPositionsListed, LoopInv,
                LoopMissesNone, IteratorInv
  <1>6. CASE HandlerStops
    BY <1>6 DEF HandlerStops, TypeOK, OpenPositionsListed, LoopInv,
                LoopMissesNone, IteratorInv
  <1>7. CASE HandlerContinues
    BY <1>7 DEF HandlerContinues, TypeOK, OpenPositionsListed, LoopInv,
                LoopMissesNone, IteratorInv
  <1>8. CASE HandlerContinuesErased
    BY <1>8 DEF HandlerContinuesErased, TypeOK, OpenPositionsListed, LoopInv,
                LoopMissesNone, IteratorInv
  <1> QED BY <1>1, <1>2, <1>3, <1>4, <1>5, <1>6, <1>7, <1>8

\* What getNext() does from node i: it returns node m and goes on to node k.
NextFromTo(i, m, k) ==
  LET passed == {n \in nodes : i <= n /\ n < m} IN
  /\ m \in nodes => i <= m /\ m \notin closed
  /\ \A n \in nodes : i <= n /\ n \notin closed => m <= n
  /\ passed \subseteq closed
  /\ nodes' = nodes \ passed
  /\ at' = Erased(at, passed)
  /\ answer' = <<"iterator", IF m = End THEN 0 ELSE m>>
  /\ prev' = IF m = End THEN last ELSE m
  /\ it' = k
  /\ m < k \/ k = End
  /\ \A n \in nodes : n > m => n >= k

\* What NextFrom does, with its choices named.
LEMMA NextFromFacts ==
  ASSUME TypeOK, NEW i \in Nat, NextFrom(i)
  PROVE  /\ UNCHANGED <<last, listed, closed, disabled, phase, given>>
         /\ known' = last
         /\ \E m \in nodes \cup {End}, k \in nodes \cup {End} : NextFromTo(i, m, k)
  <1> USE PositionsAssumption DEF NextFrom, IsFirst, End, Dangling
  <1>1. UNCHANGED <<last, listed, closed, disabled, phase, given>> /\ known' = last
    OBVIOUS
  <1>2. PICK m \in nodes \cup {End} :
          /\ m \in {n \in nodes \ closed : n >= i} \cup {End}
          /\ \A n \in {n \in nodes \ closed : n >= i} : m <= n
          /\ nodes' = nodes \ {n \in nodes : i <= n /\ n < m}
          /\ at' = Erased(at, {n \in nodes : i <= n /\ n < m})
          /\ answer' = <<"iterator", IF m = End THEN 0 ELSE m>>
          /\ prev' = IF m = End THEN last ELSE m
          /\ \E k \in nodes \cup {End} :
               IsFirst(k, {n \in nodes : n > m}) /\ it' = k
    BY Zenon
  <1>3. PICK k \in nodes \cup {End} : IsFirst(k, {n \in nodes : n > m}) /\ it' = k
    BY <1>2
  <1>4. m \in nodes => i <= m /\ m \notin closed
    BY <1>2 DEF TypeOK
  <1>5. \A n \in nodes : i <= n /\ n \notin closed => m <= n
    BY <1>2
  <1>6. {n \in nodes : i <= n /\ n < m} \subseteq closed
    <2>1. m \in Nat /\ nodes \subseteq Nat
      BY Numbers
    <2>2. ASSUME NEW n \in nodes, i <= n, n < m PROVE n \in closed
      BY <1>5, <2>1, <2>2
    <2> QED BY <2>2
  <1>7. m < k \/ k = End
    BY <1>3
  <1>8. \A n \in nodes : n > m => n >= k
    BY <1>3 DEF TypeOK
  <1> QED BY <1>1, <1>2, <1>3, <1>4, <1>5, <1>6, <1>7, <1>8 DEF TypeOK, NextFromTo

\* getNext() keeps the invariant from wherever it starts.
LEMMA NextFromStep ==
  ASSUME IInv, UserCode, NEW i \in Nat, NextFrom(i)
  PROVE  IInv'
  <1> USE PositionsAssumption DEF IInv, End, Dangling
  <1>a. PICK m \in nodes \cup {End}, k \in nodes \cup {End} : NextFromTo(i, m, k)
    BY NextFromFacts
  <1>2. UNCHANGED <<last, listed, closed, disabled, phase, given>> /\ known' = last
    BY NextFromFacts
  <1> DEFINE passed == {n \in nodes : i <= n /\ n < m}
  <1>1. /\ m \in nodes => i <= m /\ m \notin closed
        /\ \A n \in nodes : i <= n /\ n \notin closed => m <= n
        /\ passed \subseteq closed
        /\ nodes' = nodes \ passed
        /\ at' = Erased(at, passed)
        /\ answer' = <<"iterator", IF m = End THEN 0 ELSE m>>
        /\ prev' = IF m = End THEN last ELSE m
        /\ it' = k
        /\ m < k \/ k = End
        /\ \A n \in nodes : n > m => n >= k
    BY <1>a DEF NextFromTo
  <1>3. nodes' \subseteq nodes /\ nodes \ closed \subseteq nodes'
    BY <1>1
  <1>4. k \in nodes' \cup {End}
    BY <1>1 DEF TypeOK
  <1>5. TypeOK'
    <2>1. at' \in nodes' \cup {End, Dangling}
      BY <1>1 DEF TypeOK, Erased
    <2>2. answer' \in {"none", "count", "last", "iterator"} \X (0 .. last)
      BY <1>1 DEF TypeOK
    <2>3. prev' \in 0 .. last
      BY <1>1 DEF TypeOK
    <2>4. it' \in nodes' \cup {End, Dangling}
      BY <1>1, <1>4
    <2>5. nodes' \subseteq 1 .. last
      BY <1>3 DEF TypeOK
    <2> HIDE DEF End, Dangling
    <2> QED BY <1>2, <2>1, <2>2, <2>3, <2>4, <2>5 DEF TypeOK
  <1>6. OpenPositionsListed'
    BY <1>2, <1>3 DEF OpenPositionsListed
  <1>7. LoopInv'
    BY <1>1, <1>2, <1>3 DEF LoopInv, LoopMissesNone, UserCode, Erased, TypeOK
  <1>8. IteratorInv'
    BY <1>1, <1>2, <1>3, <1>4 DEF IteratorInv, TypeOK
  <1> QED BY <1>5, <1>6, <1>7, <1>8

\* The calls of the iterator.
LEMMA IteratorStep ==
  ASSUME IInv, IteratorFirst \/ IteratorNext \/ IteratorNextErased
  PROVE  IInv'
  <1>1. CASE IteratorFirst
    BY <1>1, NextFromStep DEF IteratorFirst
  <1>2. CASE IteratorNext
    <2>1. it \in Nat
      BY <1>2, Numbers DEF IInv, TypeOK, IteratorNext
    <2> QED BY <1>2, <2>1, NextFromStep DEF IteratorNext
  <1>3. CASE IteratorNextErased
    BY <1>3 DEF IteratorNextErased, IInv, TypeOK, OpenPositionsListed, LoopInv,
                LoopMissesNone, IteratorInv
  <1> QED BY <1>1, <1>2, <1>3

\* The invariant is inductive.
LEMMA IInvStep == IInv /\ [Next]_vars => IInv'
  <1> SUFFICES ASSUME IInv, [Next]_vars PROVE IInv'
    OBVIOUS
  <1>1. CASE UNCHANGED vars
    BY <1>1 DEF vars, IInv, TypeOK, OpenPositionsListed, LoopInv,
                LoopMissesNone, IteratorInv
  <1>2. CASE Next
    BY <1>2, UserStep, ReadStep, LoopStep, IteratorStep DEF Next
  <1> QED BY <1>1, <1>2

\* The inductive invariant holds in every reachable state of the container.
THEOREM Invariance == Spec => []IInv
  BY InitIInv, IInvStep, PTL DEF Spec

\* The variables have their types; in particular an iterator is at a node of the
\* list, at its end, or known to be invalid.
THEOREM TypeCorrect == Spec => []TypeOK
  <1>1. IInv => TypeOK BY DEF IInv
  <1> QED BY <1>1, Invariance, PTL

\* An open position is never dropped from the list of open positions.
THEOREM OpenNeverLost == Spec => []OpenPositionsListed
  <1>1. IInv => OpenPositionsListed BY DEF IInv
  <1> QED BY <1>1, Invariance, PTL

\* A loop skips no enabled open position.
THEOREM LoopComplete == Spec => []LoopMissesNone
  <1>1. IInv => LoopMissesNone BY DEF IInv, LoopInv
  <1> QED BY <1>1, Invariance, PTL

-----------------------------------------------------------------------------
(* Positions implements OpenPositions *)

opened == (1 .. last) \ closed

\* What the invariant says of the open positions.
LEMMA OpenFacts ==
  ASSUME IInv
  PROVE  /\ opened = nodes \ closed
         /\ opened \subseteq Nat
         /\ \A p \in opened : p >= 1 /\ p <= last /\ p < End
  BY Numbers DEF IInv, TypeOK, OpenPositionsListed, opened

\* Initial states map to initial states.
LEMMA InitMaps == Init => Promise!OpenInit
  BY DEF Init, Promise!OpenInit

\* The calls that change positions map to those of the promise.
LEMMA UserMaps ==
  ASSUME IInv, Open \/ Clear \/ (\E p \in Positions : Close(p) \/ SetShares(p))
  PROVE  [Promise!OpenNext]_(Promise!openVars)
  <1>1. CASE Open
    <2>1. (1 .. last + 1) \ closed = opened \cup {last + 1}
      BY DEF IInv, TypeOK, opened
    <2>2. Promise!OpenOne
      BY <1>1, <2>1 DEF Open, UserCode, Promise!OpenOne, Promise!UserRuns, opened
    <2> QED BY <2>2 DEF Promise!OpenNext
  <1>2. CASE Clear
    BY <1>2 DEF Clear, Promise!openVars
  <1>3. ASSUME NEW p \in Positions, Close(p) PROVE Promise!CloseOne
    <2>1. p \in opened /\ (1 .. last') \ closed' = opened \ {p}
      BY <1>3 DEF Close, opened
    <2> QED
      BY <1>3, <2>1 DEF Close, UserCode, Promise!CloseOne, Promise!UserRuns, opened
  <1>4. ASSUME NEW p \in Positions, SetShares(p) PROVE Promise!AbleOne
    BY <1>4 DEF SetShares, UserCode, IInv, TypeOK, Promise!AbleOne,
                Promise!UserRuns
  <1> QED BY <1>1, <1>2, <1>3, <1>4 DEF Promise!OpenNext

\* A count and a last position are those of the open positions.
LEMMA ReadMaps ==
  ASSUME IInv, Count \/ GetLast
  PROVE  [Promise!OpenNext]_(Promise!openVars)
  <1>1. CASE Count
    <2>1. Promise!Cardinality(opened) = Cardinality(opened)
      BY Zenon DEF Cardinality, Promise!Cardinality, IsFiniteSet,
                   Promise!IsFiniteSet
    <2>2. nodes \ closed = opened
      BY OpenFacts
    <2>3. Promise!CountOpen
      BY <1>1, <2>1, <2>2
         DEF Count, UserCode, Promise!CountOpen, Promise!UserRuns, opened
    <2> QED BY <2>3 DEF Promise!OpenNext
  <1>2. CASE GetLast
    <2>1. PICK m \in nodes \cup {0} :
            IsLast(m, nodes \ closed) /\ answer' = <<"last", m>>
      BY <1>2 DEF GetLast
    <2>2. m \in opened \cup {0} /\ \A k \in opened : k <= m
      BY <2>1, OpenFacts DEF IsLast
    <2>3. Promise!LastOpen
      BY <1>2, <2>1, <2>2
         DEF GetLast, UserCode, Promise!LastOpen, Promise!IsLastOpen,
             Promise!UserRuns, opened
    <2> QED BY <2>3 DEF Promise!OpenNext
  <1> QED BY <1>1, <1>2

\* A loop maps to the promised loop, erasing to a stutter.
LEMMA LoopMaps ==
  ASSUME IInv,
         \/ LoopStart \/ LoopEnds \/ LoopErase \/ LoopSkipDisabled
         \/ LoopHandler \/ HandlerStops \/ HandlerContinues
         \/ HandlerContinuesErased
  PROVE  [Promise!OpenNext]_(Promise!openVars)
  <1>1. CASE LoopStart
    BY <1>1 DEF LoopStart, Promise!OpenNext, Promise!BeginLoop
  <1>2. CASE LoopEnds
    \* At the end nothing is left to be given.
    <2>1. \A p \in opened : p > given => p \in disabled
      BY <1>2, OpenFacts, Numbers DEF LoopEnds, IInv, LoopInv, LoopMissesNone
    <2>2. Promise!EndLoop
      BY <1>2, <2>1 DEF LoopEnds, Promise!EndLoop, opened
    <2> QED BY <2>2 DEF Promise!OpenNext
  <1>3. CASE LoopErase
    BY <1>3 DEF LoopErase, Promise!openVars
  <1>4. CASE LoopSkipDisabled
    BY <1>4 DEF LoopSkipDisabled, Promise!openVars
  <1>5. CASE LoopHandler
    <2>1. at \in opened /\ at \notin disabled /\ at > given
      BY <1>5, OpenFacts, Numbers DEF LoopHandler, IInv, LoopInv
    <2>2. \A p \in opened : p > given /\ p \notin disabled => at <= p
      BY <1>5, OpenFacts, Numbers DEF LoopHandler, IInv, LoopInv, LoopMissesNone
    <2>3. Promise!GiveNext
      BY <1>5, <2>1, <2>2
         DEF LoopHandler, Promise!GiveNext, Promise!IsFirstOpen, opened
    <2> QED BY <2>3 DEF Promise!OpenNext
  <1>6. CASE HandlerStops
    BY <1>6 DEF HandlerStops, Promise!OpenNext, Promise!HandlerEnds
  <1>7. CASE HandlerContinues
    BY <1>7 DEF HandlerContinues, Promise!OpenNext, Promise!HandlerEnds
  <1>8. CASE HandlerContinuesErased
    BY <1>8 DEF HandlerContinuesErased, Promise!OpenNext, Promise!GoesWrong,
                Promise!UserRuns
  <1> QED BY <1>1, <1>2, <1>3, <1>4, <1>5, <1>6, <1>7, <1>8

\* getNext() from node i is a call of the abstract iterator past position n, if
\* the open positions after n are those at i or later, and at the end those
\* opened since the last call.
LEMMA NextFromMaps ==
  ASSUME IInv, UserCode, NEW i \in Nat, NextFrom(i),
         NEW n \in Nat, NEW k \in Nat,
         i # End => \A p \in opened : p > n <=> p >= i,
         i = End => \A p \in opened : p > n => p > k
  PROVE  Promise!Iterate(n, k)
  <1> TypeOK
    BY DEF IInv
  <1>a. PICK m \in nodes \cup {End}, r \in nodes \cup {End} : NextFromTo(i, m, r)
    BY NextFromFacts
  <1>1. /\ m \in nodes => i <= m /\ m \notin closed
        /\ \A p \in nodes : i <= p /\ p \notin closed => m <= p
        /\ answer' = <<"iterator", IF m = End THEN 0 ELSE m>>
        /\ prev' = IF m = End THEN last ELSE m
    BY <1>a DEF NextFromTo
  <1>2. UNCHANGED <<last, closed, disabled, phase, given>> /\ known' = last
    BY NextFromFacts
  <1>3. CASE m \in nodes
    <2>1. m \in opened /\ m # End /\ i # End /\ m > n
      BY <1>1, <1>3, OpenFacts, Numbers DEF IInv
    <2>2. \A p \in opened : p > n => m <= p
      BY <1>1, <2>1, OpenFacts
    <2> QED
      BY <1>1, <1>2, <2>1, <2>2
         DEF UserCode, Promise!Iterate, Promise!IsFirstOpen, Promise!UserRuns,
             opened
  <1>4. CASE m = End
    <2>1. \A p \in opened : p > n => p > k
      BY <1>1, <1>4, OpenFacts, Numbers DEF IInv
    <2> QED
      BY <1>1, <1>2, <1>4, <2>1
         DEF UserCode, Promise!Iterate, Promise!UserRuns, opened
  <1> QED BY <1>3, <1>4

\* The calls of the iterator return the promised positions.
LEMMA IteratorMaps ==
  ASSUME IInv,
         IteratorFirst \/ IteratorNext \/ IteratorNextErased
  PROVE  Promise!OpenNext
  <1>1. CASE IteratorFirst
    <2>1. last \in Nat /\ End # 0 /\ \A p \in opened : p > 0
      BY OpenFacts, Numbers, PositionsAssumption DEF IInv, End
    <2>2. Promise!Iterate(0, last)
      <3>1. UserCode /\ NextFrom(0)
        BY <1>1 DEF IteratorFirst
      <3>2. 0 # End => \A p \in opened : p > 0 <=> p >= 0
        BY OpenFacts
      <3>3. 0 = End => \A p \in opened : p > 0 => p > last
        BY <2>1
      <3>4. 0 \in Nat
        OBVIOUS
      <3> QED BY <2>1, <3>1, <3>2, <3>3, <3>4, NextFromMaps, Zenon
    <2> QED BY <2>2 DEF Promise!OpenNext
  <1>2. CASE IteratorNext
    <2>1. it \in nodes \cup {End} /\ it \in Nat /\ prev \in Nat /\ known \in Nat
      BY <1>2, Numbers DEF IteratorNext, IInv, TypeOK
    <2>2. it # End => \A p \in opened : p > prev <=> p >= it
      BY <2>1, OpenFacts DEF IInv, IteratorInv
    <2>3. it = End => \A p \in opened : p > prev => p > known
      BY OpenFacts DEF IInv, IteratorInv
    <2>4. Promise!Iterate(prev, known)
      BY <1>2, <2>1, <2>2, <2>3, NextFromMaps DEF IteratorNext
    <2> QED BY <2>4 DEF Promise!OpenNext
  <1>3. CASE IteratorNextErased
    BY <1>3 DEF IteratorNextErased, UserCode, Promise!OpenNext,
                Promise!GoesWrong, Promise!UserRuns
  <1> QED BY <1>1, <1>2, <1>3

\* Every step maps to a step or a stutter.
LEMMA StepMaps ==
  ASSUME IInv, [Next]_vars
  PROVE  [Promise!OpenNext]_(Promise!openVars)
  <1>1. CASE UNCHANGED vars
    BY <1>1 DEF vars, Promise!openVars
  <1>2. CASE Next
    BY <1>2, UserMaps, ReadMaps, LoopMaps, IteratorMaps DEF Next
  <1> QED BY <1>1, <1>2

\* Every behaviour of the container is one of the abstract specification: what
\* it counts, returns and hands out are the open positions, although closed ones
\* stay in its list, until user code goes on with an element that was dropped.
THEOREM KeepsPromise == Spec => Promised
  <1>1. IInv /\ [Next]_vars => [Promise!OpenNext]_(Promise!openVars)
    BY StepMaps
  <1> QED
    BY <1>1, InitMaps, Invariance, PTL DEF Spec, Promised, Promise!OpenSpec
=============================================================================
