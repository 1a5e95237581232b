-------------------------- MODULE DataCacheProofs --------------------------
(***************************************************************************)
(* What users get from the cache, for any number of users, ids, versions   *)
(* and calls, and whatever a second lock of the mutex does.                *)
(***************************************************************************)
EXTENDS DataCache, TLAPS

\* The mutex is held from the search to the insertion, and by users of a cache
\* that is there.
LockInv == \A u \in Users :
  /\ pc[u] \in {"find", "insert"} => mutex = {u}
  /\ pc[u] # "idle" => alive = "alive"

\* No file was newer when it was asked for than it is now, and an object that
\* is on its way into the map is one that was asked for.
FreshInv == \A u \in Users :
  /\ want[u].since <= disk[want[u].id]
  /\ pc[u] = "insert" => /\ got[u] # NoObject /\ got[u].id = want[u].id
                         /\ got[u].version >= want[u].since

\* The map has one object for an id, and no object is newer than its file.
MapInv ==
  /\ \A o \in cache : o.kept /\ o.version <= disk[o.id]
  /\ \A o, p \in cache : o.id = p.id => o = p
  /\ \A u \in Users : got[u].kept => got[u].version <= disk[got[u].id]

\* Between the search and the insertion nothing comes under the id.
InsertInv == \A u \in Users : pc[u] = "insert" =>
  /\ got[u].kept = enable
  /\ enable => \A o \in cache : o.id # want[u].id

\* An object that a user has is in the map, or its file has changed since, or
\* it is on its way.
KeptInv == alive # "gone" => \A u \in Users : got[u].kept =>
  \/ got[u] \in cache
  \/ got[u].version < disk[got[u].id]
  \/ pc[u] = "insert"

IInv == /\ TypeOK /\ LockInv /\ FreshInv /\ NeverStale
        /\ MapInv /\ InsertInv /\ KeptInv /\ OneObjectPerVersion

-----------------------------------------------------------------------------
\* Versions and numbers are natural, what is asked for has a file.
LEMMA Numbers ==
  ASSUME TypeOK
  PROVE  /\ MaxVersion \in Nat /\ MaxCalls \in Nat /\ makes \in Nat
         /\ \A i \in Ids : disk[i] \in Nat
         /\ \A u \in Users : want[u].id \in Ids /\ want[u].since \in Nat
         /\ \A u \in Users : got[u] \in Objects
         /\ \A o \in cache : o \in Objects /\ o # NoObject
         /\ \A o \in Objects : o # NoObject => /\ o.id \in Ids
                                               /\ o.version \in Nat
                                               /\ o.kept \in BOOLEAN
         /\ ~NoObject.kept
  <1> USE MaxVersionAssumption, MaxCallsAssumption
  <1>1. MaxVersion \in Nat /\ MaxCalls \in Nat /\ makes \in Nat BY DEF TypeOK
  <1>2. \A i \in Ids : disk[i] \in Nat BY DEF TypeOK
  <1>3. \A u \in Users : want[u].id \in Ids /\ want[u].since \in Nat BY DEF TypeOK
  <1>4. \A u \in Users : got[u] \in Objects BY DEF TypeOK
  <1>5. \A o \in cache : o \in Objects /\ o # NoObject BY DEF TypeOK
  <1>6. \A o \in Objects : o # NoObject => /\ o.id \in Ids
                                           /\ o.version \in Nat
                                           /\ o.kept \in BOOLEAN
    BY DEF Objects
  <1>7. ~NoObject.kept BY DEF NoObject
  <1> QED BY <1>1, <1>2, <1>3, <1>4, <1>5, <1>6, <1>7

\* An empty cache satisfies the invariant.
LEMMA InitIInv == Init => IInv
  <1> SUFFICES ASSUME Init PROVE IInv OBVIOUS
  <1> USE MaxVersionAssumption, MaxCallsAssumption
  <1>1. TypeOK
    <2>1. want \in [Users -> [id : Ids, since : 0 .. MaxVersion]]
      BY DEF Init
    <2>2. NoObject \in Objects BY DEF Objects
    <2>3. got \in [Users -> Objects] BY <2>2 DEF Init
    <2>4. disk \in [Ids -> 0 .. MaxVersion] BY DEF Init
    <2>5. /\ pc \in [Users -> {"idle", "lock", "find", "insert", "stuck"}]
          /\ enable \in BOOLEAN /\ first \in BOOLEAN /\ run \in BOOLEAN
          /\ running \in BOOLEAN /\ mutex \in SUBSET Users
          /\ cache \in SUBSET (Objects \ {NoObject})
          /\ alive \in {"alive", "deleting", "gone"}
      BY DEF Init
    <2>6. thread \in ThreadStates BY DEF Init, ThreadStates
    <2>7. makes \in Nat /\ calls \in 0 .. MaxCalls BY DEF Init
    <2> QED BY <2>1, <2>3, <2>4, <2>5, <2>6, <2>7 DEF TypeOK
  <1>2. LockInv /\ FreshInv /\ NeverStale BY DEF Init, LockInv, FreshInv, NeverStale
  <1>3. MapInv /\ InsertInv /\ KeptInv
    BY DEF Init, MapInv, InsertInv, KeptInv, NoObject
  <1>4. OneObjectPerVersion BY DEF Init, OneObjectPerVersion, NoObject
  <1> QED BY <1>1, <1>2, <1>3, <1>4 DEF IInv

-----------------------------------------------------------------------------
\* Every action keeps the types.
LEMMA TypeStep == TypeOK /\ FreshInv /\ [Next]_vars => TypeOK'
  <1> SUFFICES ASSUME TypeOK, FreshInv, [Next]_vars PROVE TypeOK' OBVIOUS
  <1> USE MaxVersionAssumption, MaxCallsAssumption DEF userVars, flagVars
  <1>n. NoObject \in Objects BY DEF Objects
  <1>1. ASSUME NEW u \in Users, NEW i \in Ids, Call(u, i) PROVE TypeOK'
    BY <1>1 DEF TypeOK, Call
  <1>2. ASSUME NEW u \in Users, Lock(u) PROVE TypeOK'
    BY <1>2 DEF TypeOK, Lock, ThreadStates
  <1>3. ASSUME NEW u \in Users, Hit(u) PROVE TypeOK'
    BY <1>3 DEF TypeOK, Hit, Found, Return
  <1>4. ASSUME NEW u \in Users, HitStale(u) PROVE TypeOK'
    BY <1>4, <1>n DEF TypeOK, HitStale, Found, Throw
  <1>5. ASSUME NEW u \in Users, Make(u) PROVE TypeOK'
    <2> DEFINE o == [id |-> want[u].id, version |-> disk[want[u].id],
                     serial |-> makes + 1, kept |-> enable]
    <2>1. o \in Objects BY DEF TypeOK, Objects
    <2>2. got' = [got EXCEPT ![u] = o] BY <1>5 DEF Make
    <2>3. got' \in [Users -> Objects] BY <2>1, <2>2 DEF TypeOK
    <2>4. makes' \in Nat BY <1>5 DEF TypeOK, Make
    <2>5. pc' \in [Users -> {"idle", "lock", "find", "insert", "stuck"}]
      BY <1>5 DEF TypeOK, Make
    <2> QED BY <1>5, <2>3, <2>4, <2>5 DEF TypeOK, Make
  <1>6. ASSUME NEW u \in Users, Insert(u) PROVE TypeOK'
    <2>1. got[u] \in Objects \ {NoObject} BY <1>6 DEF TypeOK, FreshInv, Insert
    <2>2. cache' \in SUBSET (Objects \ {NoObject})
      BY <1>6, <2>1 DEF TypeOK, Insert, Throw, Return
    <2>3. got' \in [Users -> Objects]
      BY <1>6, <2>1, <1>n DEF TypeOK, Insert, Throw, Return
    <2>4. pc' \in [Users -> {"idle", "lock", "find", "insert", "stuck"}]
      BY <1>6 DEF TypeOK, Insert, Throw, Return
    <2>5. mutex' \in SUBSET Users BY <1>6 DEF Insert, Throw, Return
    <2> QED BY <1>6, <2>2, <2>3, <2>4, <2>5 DEF TypeOK, Insert
  <1>7. ASSUME NEW u \in Users, MakeFails(u) PROVE TypeOK'
    BY <1>7, <1>n DEF TypeOK, MakeFails, Throw
  <1>8. CASE Thread
    BY <1>8 DEF TypeOK, Thread, ThreadBegins, ThreadLoops, ThreadStates,
                DoBackgroundProcessing, ThreadEnds
  <1>9. ASSUME NEW b \in BOOLEAN, Enable(b) PROVE TypeOK'
    BY <1>9 DEF TypeOK, Enable
  <1>10. ASSUME NEW i \in Ids, FileChanges(i) PROVE TypeOK'
    BY <1>10 DEF TypeOK, FileChanges
  <1>11. CASE Delete BY <1>11 DEF TypeOK, Delete
  <1>12. CASE DeleteReturns BY <1>12 DEF TypeOK, DeleteReturns
  <1>13. CASE UNCHANGED vars BY <1>13 DEF TypeOK, vars
  <1> QED
    BY <1>1, <1>2, <1>3, <1>4, <1>5, <1>6, <1>7, <1>8, <1>9, <1>10, <1>11,
       <1>12, <1>13 DEF Next, User

-----------------------------------------------------------------------------
\* The mutex excludes: nobody else is between the search and the insertion.
LEMMA LockStep == TypeOK /\ LockInv /\ [Next]_vars => LockInv'
  <1> SUFFICES ASSUME TypeOK, LockInv, [Next]_vars,
                      NEW v \in Users
               PROVE  /\ pc'[v] \in {"find", "insert"} => mutex' = {v}
                      /\ pc'[v] # "idle" => alive' = "alive"
    BY DEF LockInv
  <1> DEFINE P == /\ pc'[v] \in {"find", "insert"} => mutex' = {v}
                  /\ pc'[v] # "idle" => alive' = "alive"
  <1>t. pc \in [Users -> {"idle", "lock", "find", "insert", "stuck"}]
    BY DEF TypeOK
  <1> USE <1>t DEF userVars, flagVars, LockInv
  <1>1. ASSUME NEW u \in Users, NEW i \in Ids, Call(u, i) PROVE P
    BY <1>1 DEF Call
  <1>2. ASSUME NEW u \in Users, Lock(u) PROVE P
    BY <1>2 DEF Lock
  <1>3. ASSUME NEW u \in Users, Hit(u) PROVE P
    BY <1>3 DEF Hit, Return
  <1>4. ASSUME NEW u \in Users, HitStale(u) PROVE P
    BY <1>4 DEF HitStale, Throw
  <1>5. ASSUME NEW u \in Users, Make(u) PROVE P
    BY <1>5 DEF Make
  <1>6. ASSUME NEW u \in Users, Insert(u) PROVE P
    BY <1>6 DEF Insert, Throw, Return
  <1>7. ASSUME NEW u \in Users, MakeFails(u) PROVE P
    BY <1>7 DEF MakeFails, Throw
  <1>8. CASE Thread
    BY <1>8 DEF Thread, ThreadBegins, ThreadLoops, DoBackgroundProcessing,
                ThreadEnds
  <1>9. ASSUME NEW b \in BOOLEAN, Enable(b) PROVE P
    BY <1>9 DEF Enable
  <1>10. ASSUME NEW i \in Ids, FileChanges(i) PROVE P
    BY <1>10 DEF FileChanges
  <1>11. CASE Delete BY <1>11 DEF Delete
  <1>12. CASE DeleteReturns BY <1>12 DEF DeleteReturns
  <1>13. CASE UNCHANGED vars BY <1>13 DEF vars
  <1> QED
    BY <1>1, <1>2, <1>3, <1>4, <1>5, <1>6, <1>7, <1>8, <1>9, <1>10, <1>11,
       <1>12, <1>13 DEF Next, User

\* Files only get newer.
LEMMA DiskGrows ==
  ASSUME TypeOK, [Next]_vars, NEW i \in Ids
  PROVE  disk'[i] \in Nat /\ disk[i] \in Nat /\ disk[i] <= disk'[i]
  <1> USE DEF userVars, flagVars
  <1>n. \A j \in Ids : disk[j] \in Nat BY Numbers
  <1>t. disk \in [Ids -> 0 .. MaxVersion] BY DEF TypeOK
  <1>1. ASSUME NEW j \in Ids, FileChanges(j)
        PROVE disk'[i] \in Nat /\ disk[i] <= disk'[i]
    BY <1>1, <1>n, <1>t DEF FileChanges
  <1>2. CASE disk' = disk BY <1>2, <1>n
  <1>3. disk' = disk \/ \E j \in Ids : FileChanges(j)
    BY DEF Next, User, Thread, Call, Lock, Hit, HitStale, Make, Insert,
           MakeFails, ThreadBegins, ThreadLoops, DoBackgroundProcessing,
           ThreadEnds, Enable, Delete, DeleteReturns, vars
  <1> QED BY <1>1, <1>2, <1>3, <1>n

\* What is asked for, and what comes back, is not older than the question.
LEMMA FreshStep == TypeOK /\ FreshInv /\ NeverStale /\ [Next]_vars
                   => FreshInv' /\ NeverStale'
  <1> SUFFICES ASSUME TypeOK, FreshInv, NeverStale, [Next]_vars,
                      NEW v \in Users
               PROVE  /\ want'[v].since <= disk'[want'[v].id]
                      /\ pc'[v] = "insert" =>
                           /\ got'[v] # NoObject /\ got'[v].id = want'[v].id
                           /\ got'[v].version >= want'[v].since
                      /\ pc'[v] = "idle" /\ got'[v] # NoObject
                           => got'[v].version >= want'[v].since
    BY DEF FreshInv, NeverStale
  <1> DEFINE P == /\ want'[v].since <= disk'[want'[v].id]
                  /\ pc'[v] = "insert" =>
                       /\ got'[v] # NoObject /\ got'[v].id = want'[v].id
                       /\ got'[v].version >= want'[v].since
                  /\ pc'[v] = "idle" /\ got'[v] # NoObject
                       => got'[v].version >= want'[v].since
  <1>t. /\ pc \in [Users -> {"idle", "lock", "find", "insert", "stuck"}]
        /\ want \in [Users -> [id : Ids, since : 0 .. MaxVersion]]
        /\ got \in [Users -> Objects]
    BY DEF TypeOK
  <1>n. /\ \A i \in Ids : disk[i] \in Nat
        /\ \A u \in Users : want[u].id \in Ids /\ want[u].since \in Nat
        /\ \A o \in Objects : o # NoObject => o.version \in Nat
        /\ \A o \in cache : o \in Objects /\ o # NoObject
    BY Numbers
  <1>d. \A i \in Ids : /\ disk'[i] \in Nat /\ disk[i] \in Nat
                      /\ disk[i] <= disk'[i]
    BY DiskGrows
  <1>v. /\ want[v].since <= disk[want[v].id]
        /\ pc[v] = "insert" =>
             /\ got[v] # NoObject /\ got[v].id = want[v].id
             /\ got[v].version >= want[v].since
        /\ pc[v] = "idle" /\ got[v] # NoObject
             => got[v].version >= want[v].since
    BY DEF FreshInv, NeverStale
  <1> USE <1>t, <1>n, <1>d, <1>v DEF userVars, flagVars
  <1>1. ASSUME NEW u \in Users, NEW i \in Ids, Call(u, i) PROVE P
    BY <1>1 DEF Call
  <1>2. ASSUME NEW u \in Users, Lock(u) PROVE P
    BY <1>2 DEF Lock
  <1>3. ASSUME NEW u \in Users, Hit(u) PROVE P
    BY <1>3 DEF Hit, Return, Found, IsConsistent
  <1>4. ASSUME NEW u \in Users, HitStale(u) PROVE P
    BY <1>4 DEF HitStale, Throw, Found, IsConsistent
  <1>5. ASSUME NEW u \in Users, Make(u) PROVE P
    <2> DEFINE o == [id |-> want[u].id, version |-> disk[want[u].id],
                     serial |-> makes + 1, kept |-> enable]
    <2>1. /\ got' = [got EXCEPT ![u] = o] /\ want' = want /\ disk' = disk
          /\ pc' = [pc EXCEPT ![u] = "insert"]
      BY <1>5 DEF Make
    <2>2. o.id = want[u].id /\ o.version = disk[want[u].id] OBVIOUS
    <2>3. o # NoObject
      <3>1. makes \in Nat BY Numbers
      <3>2. o.serial = makes + 1 /\ NoObject.serial = 0 BY DEF NoObject
      <3> QED BY <3>1, <3>2
    <2> HIDE DEF o
    <2>4. CASE u = v
      <3>1. got'[v] = o /\ pc'[v] = "insert" BY <2>1, <2>4
      <3>2. want[v].since <= disk[want[v].id] BY <1>v
      <3> QED BY <2>1, <2>2, <2>3, <2>4, <3>1, <3>2
    <2>5. CASE u # v BY <2>1, <2>5
    <2> QED BY <2>4, <2>5
  <1>6. ASSUME NEW u \in Users, Insert(u) PROVE P
    BY <1>6 DEF Insert, Throw, Return, Found
  <1>7. ASSUME NEW u \in Users, MakeFails(u) PROVE P
    BY <1>7 DEF MakeFails, Throw
  <1>8. CASE Thread
    BY <1>8 DEF Thread, ThreadBegins, ThreadLoops, DoBackgroundProcessing,
                UseCount, ThreadEnds
  <1>9. ASSUME NEW b \in BOOLEAN, Enable(b) PROVE P
    BY <1>9 DEF Enable
  <1>10. ASSUME NEW i \in Ids, FileChanges(i) PROVE P
    BY <1>10 DEF FileChanges
  <1>11. CASE Delete BY <1>11 DEF Delete
  <1>12. CASE DeleteReturns BY <1>12 DEF DeleteReturns
  <1>13. CASE UNCHANGED vars BY <1>13 DEF vars
  <1> QED
    BY <1>1, <1>2, <1>3, <1>4, <1>5, <1>6, <1>7, <1>8, <1>9, <1>10, <1>11,
       <1>12, <1>13 DEF Next, User

\* What comes into the map, and what leaves it.
LEMMA CacheChanges ==
  ASSUME TypeOK, FreshInv, InsertInv, [Next]_vars
  PROVE  \/ cache' = cache
         \/ \E u \in Users : /\ Insert(u) /\ got[u].kept /\ got' = got
                            /\ cache' = cache \cup {got[u]}
                            /\ \A o \in cache : o.id # got[u].id
         \/ \E o \in cache : /\ ~IsConsistent(o) /\ cache' = cache \ {o}
                            /\ disk' = disk
         \/ alive' = "gone" /\ cache' = {}
  <1> DEFINE P == \/ cache' = cache
                  \/ \E u \in Users :
                       /\ Insert(u) /\ got[u].kept /\ got' = got
                       /\ cache' = cache \cup {got[u]}
                       /\ \A o \in cache : o.id # got[u].id
                  \/ \E o \in cache : /\ ~IsConsistent(o)
                                     /\ cache' = cache \ {o}
                                     /\ disk' = disk
                  \/ alive' = "gone" /\ cache' = {}
  <1>t. /\ pc \in [Users -> {"idle", "lock", "find", "insert", "stuck"}]
        /\ want \in [Users -> [id : Ids, since : 0 .. MaxVersion]]
        /\ got \in [Users -> Objects]
    BY DEF TypeOK
  <1> SUFFICES P OBVIOUS
  <1> USE DEF userVars, flagVars
  <1>1. ASSUME NEW u \in Users, NEW i \in Ids, Call(u, i) PROVE P
    BY <1>1 DEF Call
  <1>2. ASSUME NEW u \in Users, Lock(u) PROVE P
    BY <1>2 DEF Lock
  <1>3. ASSUME NEW u \in Users, Hit(u) PROVE P
    BY <1>3 DEF Hit, Return, Found, IsConsistent
  <1>4. ASSUME NEW u \in Users, HitStale(u) PROVE P
    BY <1>4 DEF HitStale, Found
  <1>5. ASSUME NEW u \in Users, Make(u) PROVE P
    BY <1>5 DEF Make, Found
  <1>6. ASSUME NEW u \in Users, Insert(u) PROVE P
    <2>1. CASE enable /\ Found(u) = {}
      <3>1. got[u].kept /\ \A o \in cache : o.id # got[u].id
        BY <1>6, <2>1 DEF InsertInv, FreshInv, Insert
      <3>2. got' = got /\ cache' = cache \cup {got[u]}
        BY <1>6, <1>t, <2>1 DEF Insert, Return
      <3> QED BY <1>6, <3>1, <3>2
    <2>2. CASE ~(enable /\ Found(u) = {})
      BY <1>6, <2>2 DEF Insert
    <2> QED BY <2>1, <2>2
  <1>7. ASSUME NEW u \in Users, MakeFails(u) PROVE P
    BY <1>7 DEF MakeFails, Throw
  <1>8. CASE Thread
    BY <1>8 DEF Thread, ThreadBegins, ThreadLoops, DoBackgroundProcessing,
                UseCount, ThreadEnds
  <1>9. ASSUME NEW b \in BOOLEAN, Enable(b) PROVE P
    BY <1>9 DEF Enable
  <1>10. ASSUME NEW i \in Ids, FileChanges(i) PROVE P
    BY <1>10 DEF FileChanges
  <1>11. CASE Delete BY <1>11 DEF Delete
  <1>12. CASE DeleteReturns BY <1>12 DEF DeleteReturns
  <1>13. CASE UNCHANGED vars BY <1>13 DEF vars
  <1> QED
    BY <1>1, <1>2, <1>3, <1>4, <1>5, <1>6, <1>7, <1>8, <1>9, <1>10, <1>11,
       <1>12, <1>13 DEF Next, User

\* What a user has: what it had, an object of the map, or a new one.
LEMMA GotChanges ==
  ASSUME TypeOK, [Next]_vars, NEW v \in Users
  PROVE  got'[v] = got[v] \/ (Hit(v) /\ got'[v] \in cache) \/ Make(v)
         \/ got'[v] = NoObject
  <1> DEFINE P == \/ got'[v] = got[v] \/ (Hit(v) /\ got'[v] \in cache)
                  \/ Make(v) \/ got'[v] = NoObject
  <1>t. /\ pc \in [Users -> {"idle", "lock", "find", "insert", "stuck"}]
        /\ want \in [Users -> [id : Ids, since : 0 .. MaxVersion]]
        /\ got \in [Users -> Objects]
    BY DEF TypeOK
  <1> SUFFICES P OBVIOUS
  <1> USE <1>t DEF userVars, flagVars
  <1>1. ASSUME NEW u \in Users, NEW i \in Ids, Call(u, i) PROVE P
    BY <1>1 DEF Call
  <1>2. ASSUME NEW u \in Users, Lock(u) PROVE P
    BY <1>2 DEF Lock
  <1>3. ASSUME NEW u \in Users, Hit(u) PROVE P
    BY <1>3 DEF Hit, Return, Found, IsConsistent
  <1>4. ASSUME NEW u \in Users, HitStale(u) PROVE P
    BY <1>4 DEF HitStale, Throw, Found, IsConsistent
  <1>5. ASSUME NEW u \in Users, Make(u) PROVE P
    BY <1>5 DEF Make, Found
  <1>6. ASSUME NEW u \in Users, Insert(u) PROVE P
    BY <1>6 DEF Insert, Throw, Return, Found
  <1>7. ASSUME NEW u \in Users, MakeFails(u) PROVE P
    BY <1>7 DEF MakeFails, Throw
  <1>8. CASE Thread
    BY <1>8 DEF Thread, ThreadBegins, ThreadLoops, DoBackgroundProcessing,
                UseCount, ThreadEnds
  <1>9. ASSUME NEW b \in BOOLEAN, Enable(b) PROVE P
    BY <1>9 DEF Enable
  <1>10. ASSUME NEW i \in Ids, FileChanges(i) PROVE P
    BY <1>10 DEF FileChanges
  <1>11. CASE Delete BY <1>11 DEF Delete
  <1>12. CASE DeleteReturns BY <1>12 DEF DeleteReturns
  <1>13. CASE UNCHANGED vars BY <1>13 DEF vars
  <1> QED
    BY <1>1, <1>2, <1>3, <1>4, <1>5, <1>6, <1>7, <1>8, <1>9, <1>10, <1>11,
       <1>12, <1>13 DEF Next, User

\* The map keeps one object for an id, none newer than its file.
LEMMA MapStep == TypeOK /\ FreshInv /\ InsertInv /\ MapInv /\ [Next]_vars
                 => MapInv'
  <1> SUFFICES ASSUME TypeOK, FreshInv, InsertInv, MapInv, [Next]_vars
               PROVE  MapInv'
    OBVIOUS
  <1>t. /\ pc \in [Users -> {"idle", "lock", "find", "insert", "stuck"}]
        /\ want \in [Users -> [id : Ids, since : 0 .. MaxVersion]]
        /\ got \in [Users -> Objects]
    BY DEF TypeOK
  <1>n. /\ \A i \in Ids : disk[i] \in Nat
        /\ \A o \in cache : /\ o.id \in Ids /\ o.version \in Nat
                            /\ o.kept \in BOOLEAN
        /\ \A w \in Users : got[w].kept => /\ got[w].id \in Ids
                                          /\ got[w].version \in Nat
    BY Numbers
  <1>d. \A i \in Ids : /\ disk'[i] \in Nat /\ disk[i] \in Nat
                      /\ disk[i] <= disk'[i]
    BY DiskGrows
  <1>m. \A w \in Users : got[w].kept => got[w].version <= disk[got[w].id]
    BY DEF MapInv
  <1>c. \/ cache' \subseteq cache
        \/ \E u \in Users : /\ got[u].kept /\ cache' = cache \cup {got[u]}
                           /\ \A o \in cache : o.id # got[u].id
    BY CacheChanges
  <1>a. ASSUME NEW o \in cache' PROVE o.kept /\ o.version <= disk'[o.id]
    <2>1. CASE o \in cache BY <2>1, <1>n, <1>d DEF MapInv
    <2>2. CASE o \notin cache
      <3>1. PICK u \in Users : o = got[u] /\ got[u].kept BY <2>2, <1>c
      <3> QED BY <3>1, <1>m, <1>n, <1>d
    <2> QED BY <2>1, <2>2
  <1>b. ASSUME NEW o \in cache', NEW p \in cache', o.id = p.id PROVE o = p
    BY <1>b, <1>c DEF MapInv
  <1>g. ASSUME NEW v \in Users, got'[v].kept
        PROVE  got'[v].version <= disk'[got'[v].id]
    <2> DEFINE P == got'[v].version <= disk'[got'[v].id]
    <2>1. CASE got'[v] = got[v] BY <2>1, <1>g, <1>m, <1>n, <1>d
    <2>2. CASE got'[v] \in cache
      <3>1. got'[v].version <= disk[got'[v].id] BY <2>2 DEF MapInv
      <3> QED BY <2>2, <3>1, <1>n, <1>d
    <2>3. CASE Make(v)
      <3>1. /\ got'[v].id = want[v].id /\ got'[v].version = disk[want[v].id]
            /\ disk' = disk
        BY <2>3, <1>t DEF Make
      <3>2. want[v].id \in Ids BY Numbers
      <3> QED BY <3>1, <3>2, <1>n
    <2>4. got'[v] = got[v] \/ got'[v] \in cache \/ Make(v)
          \/ got'[v] = NoObject
      BY GotChanges
    <2>5. ~NoObject.kept BY Numbers
    <2> QED BY <1>g, <2>1, <2>2, <2>3, <2>4, <2>5
  <1> QED BY <1>a, <1>b, <1>g DEF MapInv

\* Who is about to insert has just made the object, or nothing that matters to
\* it has changed.
LEMMA OnItsWay ==
  ASSUME TypeOK, LockInv, [Next]_vars, NEW v \in Users, pc'[v] = "insert"
  PROVE  \/ Make(v)
         \/ /\ pc[v] = "insert" /\ got'[v] = got[v] /\ want'[v] = want[v]
            /\ enable' = enable /\ cache' \subseteq cache
  <1> DEFINE P == \/ Make(v)
                  \/ /\ pc[v] = "insert" /\ got'[v] = got[v]
                     /\ want'[v] = want[v]
                     /\ enable' = enable /\ cache' \subseteq cache
  <1>t. /\ pc \in [Users -> {"idle", "lock", "find", "insert", "stuck"}]
        /\ want \in [Users -> [id : Ids, since : 0 .. MaxVersion]]
        /\ got \in [Users -> Objects]
    BY DEF TypeOK
  <1>l. \A u \in Users :
          pc[u] \in {"find", "insert"} => mutex = {u} /\ alive = "alive"
    BY DEF LockInv
  <1> SUFFICES P OBVIOUS
  <1> USE <1>t, <1>l DEF userVars, flagVars
  <1>1. ASSUME NEW u \in Users, NEW i \in Ids, Call(u, i) PROVE P
    BY <1>1 DEF Call
  <1>2. ASSUME NEW u \in Users, Lock(u) PROVE P
    BY <1>2 DEF Lock
  <1>3. ASSUME NEW u \in Users, Hit(u) PROVE P
    BY <1>3 DEF Hit, Return, Found, IsConsistent
  <1>4. ASSUME NEW u \in Users, HitStale(u) PROVE P
    BY <1>4 DEF HitStale, Throw, Found, IsConsistent
  <1>5. ASSUME NEW u \in Users, Make(u) PROVE P
    BY <1>5 DEF Make, Found
  <1>6. ASSUME NEW u \in Users, Insert(u) PROVE P
    <2>1. pc' = [pc EXCEPT ![u] = "idle"] BY <1>6 DEF Insert, Throw, Return
    <2>2. u # v BY <2>1
    <2>3. pc[v] = "insert" BY <2>1, <2>2
    <2>4. mutex = {u} /\ mutex = {v} BY <1>6, <2>3 DEF Insert
    <2> QED BY <2>2, <2>4
  <1>7. ASSUME NEW u \in Users, MakeFails(u) PROVE P
    BY <1>7 DEF MakeFails, Throw
  <1>8. CASE Thread
    BY <1>8 DEF Thread, ThreadBegins, ThreadLoops, DoBackgroundProcessing,
                UseCount, ThreadEnds
  <1>9. ASSUME NEW b \in BOOLEAN, Enable(b) PROVE P
    BY <1>9 DEF Enable
  <1>10. ASSUME NEW i \in Ids, FileChanges(i) PROVE P
    BY <1>10 DEF FileChanges
  <1>11. CASE Delete BY <1>11 DEF Delete
  <1>12. CASE DeleteReturns BY <1>12 DEF DeleteReturns
  <1>13. CASE UNCHANGED vars BY <1>13 DEF vars
  <1> QED
    BY <1>1, <1>2, <1>3, <1>4, <1>5, <1>6, <1>7, <1>8, <1>9, <1>10, <1>11,
       <1>12, <1>13 DEF Next, User

\* Nothing comes under the id before the object is inserted.
LEMMA InsertStep == TypeOK /\ LockInv /\ InsertInv /\ [Next]_vars => InsertInv'
  <1> SUFFICES ASSUME TypeOK, LockInv, InsertInv, [Next]_vars,
                      NEW v \in Users, pc'[v] = "insert"
               PROVE  /\ got'[v].kept = enable'
                      /\ enable' => \A o \in cache' : o.id # want'[v].id
    BY DEF InsertInv
  <1>1. CASE Make(v)
    <2>1. /\ got'[v].kept = enable /\ enable' = enable /\ cache' = cache
          /\ want' = want /\ (enable => Found(v) = {})
      BY <1>1 DEF TypeOK, Make
    <2> QED BY <2>1 DEF Found
  <1>2. CASE /\ pc[v] = "insert" /\ got'[v] = got[v] /\ want'[v] = want[v]
             /\ enable' = enable /\ cache' \subseteq cache
    BY <1>2 DEF InsertInv
  <1> QED BY <1>1, <1>2, OnItsWay

\* A user that was about to insert is still, or its object is in the map, or it
\* has nothing that is kept.
LEMMA Arrives ==
  ASSUME TypeOK, FreshInv, InsertInv, [Next]_vars,
         NEW v \in Users, pc[v] = "insert"
  PROVE  \/ pc'[v] = "insert"
         \/ got'[v] \in cache'
         \/ ~got'[v].kept
  <1> DEFINE P == pc'[v] = "insert" \/ got'[v] \in cache' \/ ~got'[v].kept
  <1>t. /\ pc \in [Users -> {"idle", "lock", "find", "insert", "stuck"}]
        /\ want \in [Users -> [id : Ids, since : 0 .. MaxVersion]]
        /\ got \in [Users -> Objects]
    BY DEF TypeOK
  <1>i. got[v].kept = enable /\ ~NoObject.kept BY Numbers DEF InsertInv
  <1> SUFFICES P OBVIOUS
  <1> USE <1>t, <1>i DEF userVars, flagVars
  <1>1. ASSUME NEW u \in Users, NEW i \in Ids, Call(u, i) PROVE P
    BY <1>1 DEF Call
  <1>2. ASSUME NEW u \in Users, Lock(u) PROVE P
    BY <1>2 DEF Lock
  <1>3. ASSUME NEW u \in Users, Hit(u) PROVE P
    BY <1>3 DEF Hit, Return, Found, IsConsistent
  <1>4. ASSUME NEW u \in Users, HitStale(u) PROVE P
    BY <1>4 DEF HitStale, Throw, Found, IsConsistent
  <1>5. ASSUME NEW u \in Users, Make(u) PROVE P
    BY <1>5 DEF Make, Found
  <1>6. ASSUME NEW u \in Users, Insert(u) PROVE P
    <2>1. CASE u # v BY <1>6, <2>1 DEF Insert, Throw, Return
    <2>2. CASE u = v /\ enable /\ Found(u) # {}
      <3>1. got'[v] = NoObject BY <1>6, <2>2 DEF Insert, Throw
      <3> QED BY <3>1
    <2>3. CASE u = v /\ ~(enable /\ Found(u) # {})
      <3>1. /\ got'[v] = got[v]
            /\ cache' = IF enable THEN cache \cup {got[v]} ELSE cache
        BY <1>6, <2>3 DEF Insert, Return
      <3> QED BY <3>1
    <2> QED BY <2>1, <2>2, <2>3
  <1>7. ASSUME NEW u \in Users, MakeFails(u) PROVE P
    BY <1>7 DEF MakeFails, Throw
  <1>8. CASE Thread
    BY <1>8 DEF Thread, ThreadBegins, ThreadLoops, DoBackgroundProcessing,
                UseCount, ThreadEnds
  <1>9. ASSUME NEW b \in BOOLEAN, Enable(b) PROVE P
    BY <1>9 DEF Enable
  <1>10. ASSUME NEW i \in Ids, FileChanges(i) PROVE P
    BY <1>10 DEF FileChanges
  <1>11. CASE Delete BY <1>11 DEF Delete
  <1>12. CASE DeleteReturns BY <1>12 DEF DeleteReturns
  <1>13. CASE UNCHANGED vars BY <1>13 DEF vars
  <1> QED
    BY <1>1, <1>2, <1>3, <1>4, <1>5, <1>6, <1>7, <1>8, <1>9, <1>10, <1>11,
       <1>12, <1>13 DEF Next, User

\* What a user has stays in the map until its file changes.
LEMMA KeptStep == /\ TypeOK /\ FreshInv /\ MapInv /\ InsertInv /\ KeptInv
                  /\ [Next]_vars
                  => KeptInv'
  <1> SUFFICES ASSUME TypeOK, FreshInv, MapInv, InsertInv, KeptInv, [Next]_vars,
                      alive' # "gone", NEW v \in Users, got'[v].kept
               PROVE  \/ got'[v] \in cache'
                      \/ got'[v].version < disk'[got'[v].id]
                      \/ pc'[v] = "insert"
    BY DEF KeptInv
  <1>n. /\ \A i \in Ids : disk[i] \in Nat
        /\ \A o \in cache : /\ o.id \in Ids /\ o.version \in Nat
                            /\ o.kept \in BOOLEAN
        /\ \A w \in Users : got[w].kept => /\ got[w].id \in Ids
                                          /\ got[w].version \in Nat
    BY Numbers
  <1>d. \A i \in Ids : /\ disk'[i] \in Nat /\ disk[i] \in Nat
                      /\ disk[i] <= disk'[i]
    BY DiskGrows
  <1>a. alive # "gone"
    BY DEF Next, User, Thread, Call, Lock, Hit, HitStale, Make, Insert,
           MakeFails, ThreadBegins, ThreadLoops, DoBackgroundProcessing,
           ThreadEnds, Enable, FileChanges, Delete, DeleteReturns, vars,
           userVars, flagVars
  <1>k. ~NoObject.kept BY Numbers
  <1>1. CASE got'[v] = got[v] /\ pc[v] # "insert"
    <2>1. CASE got[v].version < disk[got[v].id] BY <1>1, <2>1, <1>n, <1>d
    <2>2. CASE got[v] \in cache /\ got[v] \notin cache'
      <3>1. ~IsConsistent(got[v]) /\ disk' = disk BY <2>2, <1>a, CacheChanges
      <3>2. got[v].version # disk[got[v].id] BY <3>1 DEF IsConsistent
      <3>3. got[v].version <= disk[got[v].id] BY <2>2 DEF MapInv
      <3> QED BY <1>1, <2>2, <3>1, <3>2, <3>3, <1>n
    <2> QED BY <1>1, <2>1, <2>2, <1>a DEF KeptInv
  <1>2. CASE pc[v] = "insert" BY <1>2, Arrives
  <1>3. CASE Hit(v) /\ got'[v] \in cache
    BY <1>3 DEF Hit
  <1>4. CASE Make(v)
    <2>1. pc'[v] = "insert" BY <1>4 DEF Make, TypeOK
    <2> QED BY <2>1
  <1> QED BY <1>1, <1>2, <1>3, <1>4, <1>k, GotChanges

\* A user is given what the others have, or what nobody has.
LEMMA OneStep ==
  ASSUME TypeOK, LockInv, FreshInv, MapInv, KeptInv, OneObjectPerVersion,
         [Next]_vars
  PROVE  OneObjectPerVersion'
  <1> SUFFICES ASSUME NEW u \in Users, NEW v \in Users, u # v,
                      got'[u].kept, got'[v].kept, got'[u].id = got'[v].id,
                      got'[u].version = got'[v].version
               PROVE  got'[u] = got'[v]
    BY DEF OneObjectPerVersion
  <1>n. /\ \A i \in Ids : disk[i] \in Nat
        /\ \A o \in cache : /\ o.id \in Ids /\ o.version \in Nat
                            /\ o.kept \in BOOLEAN
        /\ \A w \in Users : got[w].kept => /\ got[w].id \in Ids
                                          /\ got[w].version \in Nat
    BY Numbers
  <1>d. \A i \in Ids : /\ disk'[i] \in Nat /\ disk[i] \in Nat
                      /\ disk[i] <= disk'[i]
    BY DiskGrows
  <1>k. ~NoObject.kept BY Numbers
  <1>t. got \in [Users -> Objects] BY DEF TypeOK
  <1>o. ASSUME NEW x \in Users, NEW y \in Users, x # y,
               pc[x] = "find", got'[y] = got[y], got[y].kept
        PROVE  \/ got[y] \in cache
               \/ got[y].version < disk[got[y].id]
    <2>1. mutex = {x} /\ alive = "alive" BY <1>o DEF LockInv
    <2>2. pc[y] # "insert" BY <1>o, <2>1 DEF LockInv
    <2> QED BY <1>o, <2>1, <2>2 DEF KeptInv
  <1>h. ASSUME NEW x \in Users, NEW y \in Users, x # y, Hit(x),
               got'[y] = got[y], got[y].kept, got'[x].id = got'[y].id,
               got'[x].version = got'[y].version
        PROVE  got'[x] = got'[y]
    <2>1. PICK o \in Found(x) : IsConsistent(o) /\ Return(x, o)
      BY <1>h DEF Hit
    <2>2. got'[x] = o /\ o \in cache /\ o.version = disk[o.id]
      BY <2>1, <1>t DEF Return, Found, IsConsistent
    <2>3. pc[x] = "find" BY <1>h DEF Hit
    <2>4. got[y] \in cache BY <1>h, <1>o, <2>2, <2>3, <1>n
    <2> QED BY <1>h, <2>2, <2>4 DEF MapInv
  <1>m. ASSUME NEW x \in Users, NEW y \in Users, x # y, Make(x),
               got'[y] = got[y], got[y].kept, got'[x].kept,
               got'[x].id = got'[y].id, got'[x].version = got'[y].version
        PROVE  FALSE
    <2>1. /\ got'[x].kept = enable /\ got'[x].id = want[x].id
          /\ got'[x].version = disk[want[x].id] /\ pc[x] = "find"
          /\ enable => Found(x) = {}
      BY <1>m, <1>t DEF Make
    <2>2. got[y].version = disk[got[y].id] BY <1>m, <2>1
    <2>3. got[y].version \in Nat BY <1>m, <1>n
    <2>4. got[y] \in cache \/ got[y].version < disk[got[y].id]
      <3>1. pc[x] = "find" BY <2>1
      <3>2. got'[y] = got[y] /\ got[y].kept BY <1>m
      <3> QED BY <1>o, <1>m, <3>1, <3>2, Zenon
    <2>5. got[y] \in cache BY <2>2, <2>3, <2>4
    <2>6. enable BY <1>m, <2>1
    <2> QED BY <1>m, <2>1, <2>5, <2>6 DEF Found
  <1>c. ASSUME NEW x \in Users, NEW y \in Users, x # y, Hit(x) \/ Make(x)
        PROVE  got'[y] = got[y]
    BY <1>c, <1>t DEF Hit, Return, Make
  <1>1. CASE got'[u] = got[u] /\ got'[v] = got[v]
    BY <1>1 DEF OneObjectPerVersion
  <1>2. CASE Hit(u) BY <1>2, <1>c, <1>h
  <1>3. CASE Hit(v) BY <1>3, <1>c, <1>h
  <1>4. CASE Make(u) BY <1>4, <1>c, <1>m
  <1>5. CASE Make(v) BY <1>5, <1>c, <1>m
  <1> QED BY <1>1, <1>2, <1>3, <1>4, <1>5, <1>k, GotChanges

-----------------------------------------------------------------------------
\* The inductive invariant holds in every behaviour.
THEOREM Invariance == Spec => []IInv
  <1>1. IInv /\ [Next]_vars => IInv'
    BY TypeStep, LockStep, FreshStep, MapStep, InsertStep, KeptStep, OneStep
       DEF IInv
  <1> QED BY InitIInv, <1>1, PTL DEF Spec

\* Each variable has a value of its type.
THEOREM TypeCorrect == Spec => []TypeOK
  <1>1. IInv => TypeOK BY DEF IInv
  <1> QED BY <1>1, Invariance, PTL

\* Nobody is given an object that was out of date when it was asked for: the
\* check of the stamp in findAndAdd is made under the lock, after the question.
THEOREM AnswersFresh == Spec => []NeverStale
  <1>1. IInv => NeverStale BY DEF IInv
  <1> QED BY <1>1, Invariance, PTL

\* Two users that have an object of one id and one version have the same
\* object: findAndAdd holds the lock from the search to the insertion.
THEOREM ObjectsShared == Spec => []OneObjectPerVersion
  <1>1. IInv => OneObjectPerVersion BY DEF IInv
  <1> QED BY <1>1, Invariance, PTL
=============================================================================
