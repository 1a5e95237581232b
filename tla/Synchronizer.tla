---------------------------- MODULE Synchronizer ----------------------------
(***************************************************************************)
(* Series on a common time axis: BarsImpl::synchronize (core/Bars.h), the  *)
(* SynchronizerImpl it makes (core/Bars.cpp), the access to a series       *)
(* through it (core/SeriesImpl.h) and the operations on two series         *)
(* (core/Indicators.h), in any order a system may call them.               *)
(*                                                                         *)
(* A cell of a series is the set of the bars its value was made of, each a *)
(* symbol and a place.  Indices begin with 1.  A series remembers in       *)
(* `axis' the times that its user takes its indices for, and in `straight' *)
(* that no two synchronized series were combined on its way.               *)
(***************************************************************************)
EXTENDS Naturals, Sequences, FiniteSets, SequencesExt

CONSTANTS Symbols,   \* the symbols a system has bars of
          Times,     \* the times a bar may have, 1 .. n
          None,      \* no synchronizer
          Garbage,   \* read past the end of an array
          MaxSync,   \* bound: calls of synchronize
          MaxSeries  \* bound: series made

ASSUME TimesAssumption == Times \subseteq Nat /\ IsFiniteSet(Times)

VARIABLES times,  \* the times of the bars of each symbol, in order
          sync,   \* their synchronizer
          count,  \* how often each was synchronized
          made    \* the series that were made

syncVars == <<times, sync, count, made>>

SyncInit ==
  /\ times \in [Symbols -> {SetToSortSeq(t, <) : t \in SUBSET Times \ {{}}}]
  /\ sync = [s \in Symbols |-> None]
  /\ count = [s \in Symbols |-> 0]
  /\ made = {}

-----------------------------------------------------------------------------
(* Access *)

\* BarsImpl::timeSeries: of the reference, once synchronized
TimeSeries(s) == IF sync[s] = None THEN times[s] ELSE sync[s].times

\* BarsImpl::closeSeries and its like: not a copy, it follows its bars
OwnSeries(s) ==
  [cells |-> [k \in 1 .. Len(times[s]) |-> {<<s, k>>}], sync |-> sync[s],
   axis |-> TimeSeries(s), straight |-> TRUE]

Size(x) == IF x.sync = None THEN Len(x.cells) ELSE Len(x.sync.index)
GetIndex(x, i) == IF x.sync = None THEN i ELSE x.sync.index[i]
GetValue(x, i) == x.cells[GetIndex(x, i)]

-----------------------------------------------------------------------------
(* The synchronizer *)

\* MUTANT: between two bars the later one is taken.
WalkAhead(ref, synced, size) ==
  LET walk[i \in 1 .. Len(ref) + 1, j \in 1 .. size, last \in 1 .. size] ==
        IF i > Len(ref) THEN <<>>
        ELSE IF j > Len(synced) THEN <<0>>
        ELSE IF ref[i] = synced[j]
        THEN <<j>> \o walk[i + 1, IF j < size THEN j + 1 ELSE j, j]
        ELSE IF ref[i] > synced[j]
        THEN IF j < size THEN walk[i, j + 1, j] ELSE <<j>> \o walk[i + 1, j, j]
        ELSE <<j>> \o walk[i + 1, j, last]
  IN  walk[1, 1, 1]

\* The two are walked through together; 0 stands for a time that is out of
\* range, which throws.
Walk(ref, synced, size) ==
  LET walk[i \in 1 .. Len(ref) + 1, j \in 1 .. size, last \in 1 .. size] ==
        IF i > Len(ref) THEN <<>>
        ELSE IF j > Len(synced) THEN <<0>>
        ELSE IF ref[i] = synced[j]
        THEN <<j>> \o walk[i + 1, IF j < size THEN j + 1 ELSE j, j]
        ELSE IF ref[i] > synced[j]
        THEN IF j < size THEN walk[i, j + 1, j] ELSE <<j>> \o walk[i + 1, j, j]
        ELSE <<last>> \o walk[i + 1, j, last]
  IN  walk[1, 1, 1]

\* s is synchronized to r.  The times are those that the bars show, the size is
\* their own.
Synchronize(s, r) ==
  LET index == Walk(TimeSeries(r), TimeSeries(s), Len(times[s])) IN
  /\ s # r
  /\ count[s] < MaxSync
  /\ 0 \notin Range(index)
  /\ sync' = [sync EXCEPT ![s] = [ref |-> r, index |-> index,
                                  times |-> TimeSeries(r)]]
  /\ count' = [count EXCEPT ![s] = @ + 1]
  /\ UNCHANGED <<times, made>>

-----------------------------------------------------------------------------
(* New series *)

Make(x) == Cardinality(made) < MaxSeries /\ made' = made \cup {x}
              /\ UNCHANGED <<times, sync, count>>

\* An indicator is calculated of the series as it is, and synchronized as the
\* series is.
MakeIndicator(x) ==
  Make([x EXCEPT !.cells =
          [k \in DOMAIN x.cells |-> IF k = 1 THEN x.cells[1]
                                    ELSE x.cells[k - 1] \cup x.cells[k]]])

\* of the common size, through the synchronizers
MakeUnsyncSeries(x, y) ==
  [cells |-> [i \in 1 .. Size(x) |-> GetValue(x, i) \cup GetValue(y, i)],
   sync |-> None, axis |-> x.axis, straight |-> x.straight /\ y.straight]

\* of the two arrays, of which the second may be shorter
MakeSyncSeries(x, y) ==
  [cells |-> [k \in DOMAIN x.cells |->
                x.cells[k] \cup (IF k <= Len(y.cells) THEN y.cells[k] ELSE {Garbage})],
   sync |-> x.sync, axis |-> x.axis, straight |-> FALSE]

\* Op2SeriesBase::make: sizes that differ and synchronizers that differ throw;
\* synchronizers of one reference do not differ.  A system combines series that
\* it takes for being on one axis.
Operate(x, y) ==
  /\ x.axis = y.axis
  /\ Size(x) = Size(y)
  /\ IF x.sync = None \/ y.sync = None
     THEN Make(MakeUnsyncSeries(x, y))
     ELSE x.sync.ref = y.sync.ref /\ Make(MakeSyncSeries(x, y))

AllSeries == made \cup {OwnSeries(s) : s \in Symbols}

SyncNext ==
  \/ \E s, r \in Symbols : Synchronize(s, r)
  \/ \E x \in AllSeries : MakeIndicator(x)
  \/ \E x, y \in AllSeries : Operate(x, y)

SyncSpec == SyncInit /\ [][SyncNext]_syncVars

-----------------------------------------------------------------------------
(* Properties *)

\* Bars that were synchronized once show, for each bar of the reference, their
\* latest one that is not after it, and their first one when there is none.
SyncedIsLatest == \A s \in Symbols : count[s] = 1 =>
  \A i \in DOMAIN sync[s].index :
    LET before == {k \in DOMAIN times[s] : times[s][k] <= sync[s].times[i]}
    IN  sync[s].index[i] = IF before = {} THEN 1
                           ELSE CHOOSE k \in before : \A n \in before : n <= k

\* A value was made of bars that are not after the time it is read at, unless
\* its symbol has no bar so early: with no bars synchronized twice, and no two
\* synchronized series combined.
SeriesAreCausal == (\A s \in Symbols : count[s] <= 1) =>
  \A x \in made : x.straight => \A i \in 1 .. Size(x) :
    \A c \in GetValue(x, i) :
      c # Garbage /\ (times[c[1]][c[2]] <= x.axis[i] \/ times[c[1]][1] > x.axis[i])

\* Synchronized bars and every series made of them are of their time: the latest
\* bar, and never a later one.
SeriesAreOfTheirTime == SyncedIsLatest /\ SeriesAreCausal

\* "the same index applied to the reference data collection and the
\* DataSynchronizer object return values corresponding to bars with the same
\* timestamp" (multi_symbol_system.htm), where there are such bars.
SameTimestamp == \A s \in Symbols : sync[s] # None =>
  \A i \in DOMAIN sync[s].index : \A k \in DOMAIN times[s] :
    times[s][k] = sync[s].times[i] => sync[s].index[i] = k

=============================================================================
