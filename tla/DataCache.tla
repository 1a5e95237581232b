----------------------------- MODULE DataCache -----------------------------
(***************************************************************************)
(* The cache of core/Cache.h: the threads that ask it for objects, its     *)
(* background thread, and its end in tradery::uninit.                      *)
(*                                                                         *)
(* The objects are the bars of one data source, made from files that may   *)
(* change at any time: the version of a file stands for the stamp that     *)
(* MakeDataX::isConsistent compares.  An object is the number of the call  *)
(* of make() that built it, so that two objects with the same contents     *)
(* remain two objects.                                                     *)
(*                                                                         *)
(* In this version the background threads and the destructors run, but the *)
(* call of findAndAdd in DataManagerImpl::getData is commented out: bars   *)
(* come straight from the data source, and only series, whose cache is     *)
(* created disabled, go through it.                                        *)
(***************************************************************************)
EXTENDS Naturals, FiniteSets

CONSTANTS Users,       \* the threads that call findAndAdd
          Ids,         \* the ids of the objects
          Size,        \* the size given to the constructor
          MaxVersion,  \* bound: a file changes at most that often
          MaxCalls,    \* bound: calls of findAndAdd
          Relock       \* what locking a std::mutex twice may do

ASSUME SizeAssumption == Size \in Nat
ASSUME MaxVersionAssumption == MaxVersion \in Nat
ASSUME MaxCallsAssumption == MaxCalls \in Nat
ASSUME RelockAssumption == Relock \subseteq {"throws", "blocks", "succeeds"}

VARIABLES enable,  \* _enable
          mutex,   \* who holds _mutex, {} or one thread
          cache,   \* _cache, the set of the objects in the map
          first,   \* _first
          run,     \* _run
          running, \* _running
          thread,  \* where the background thread is
          pc,      \* where each user is
          want,    \* what each user asks for, and the version at that time
          got,     \* the object each user was given last
          disk,    \* the version of each file
          makes,   \* how often make() was called
          calls,   \* how often findAndAdd was called
          alive    \* the cache: there, in its destructor, gone

userVars == <<pc, want, got, calls>>
flagVars == <<first, run, running, thread, alive>>
vars == <<enable, mutex, cache, disk, makes, userVars, flagVars>>

NoObject == [id |-> "none", version |-> 0, serial |-> 0, kept |-> FALSE]
Objects == [id : Ids, version : 0 .. MaxVersion, serial : Nat \ {0},
            kept : BOOLEAN] \cup {NoObject}

Init ==
  /\ enable \in BOOLEAN
  /\ mutex = {} /\ cache = {} /\ first = TRUE
  /\ run = TRUE /\ running = FALSE /\ thread = "none"
  /\ pc = [u \in Users |-> "idle"]
  /\ want \in [Users -> [id : Ids, since : {0}]]
  /\ got = [u \in Users |-> NoObject]
  /\ disk = [i \in Ids |-> 0]
  /\ makes = 0 /\ calls = 0 /\ alive = "alive"

-----------------------------------------------------------------------------
(* The users *)

Call(u, i) ==
  /\ pc[u] = "idle" /\ alive = "alive" /\ calls < MaxCalls
  /\ calls' = calls + 1
  /\ pc' = [pc EXCEPT ![u] = "lock"]
  /\ want' = [want EXCEPT ![u] = [id |-> i, since |-> disk[i]]]
  /\ UNCHANGED <<enable, mutex, cache, disk, makes, got, flagVars>>

\* MUTANT: findAndAdd does not lock.
LockRacing(u) ==
  /\ pc[u] = "lock"
  /\ mutex' = {u} /\ first' = FALSE
  /\ thread' = IF first THEN "created" ELSE thread
  /\ pc' = [pc EXCEPT ![u] = "find"]
  /\ UNCHANGED <<enable, cache, disk, makes, want, got, calls, run, running,
                 alive>>

\* findAndAdd takes the lock and starts the background thread the first time
Lock(u) ==
  /\ pc[u] = "lock" /\ mutex = {}
  /\ mutex' = {u}
  /\ first' = FALSE
  /\ thread' = IF first THEN "created" ELSE thread
  /\ pc' = [pc EXCEPT ![u] = "find"]
  /\ UNCHANGED <<enable, cache, disk, makes, want, got, calls, run,
                 running, alive>>

\* what the map has under the id
Found(u) == {o \in cache : o.id = want[u].id}

\* MUTANT: what is in the map is returned.
IsConsistentAlways(o) == TRUE

\* the stamp kept with the object is that of the file
IsConsistent(o) == o.version = disk[o.id]

Return(u, o) ==
  /\ got' = [got EXCEPT ![u] = o]
  /\ pc' = [pc EXCEPT ![u] = "idle"]
  /\ mutex' = {}

Throw(u) ==
  /\ pc' = [pc EXCEPT ![u] = "idle"]
  /\ mutex' = {}
  /\ got' = [got EXCEPT ![u] = NoObject]

\* the object is in the map, and its file has not changed
Hit(u) ==
  /\ pc[u] = "find" /\ enable
  /\ \E o \in Found(u) : IsConsistent(o) /\ Return(u, o)
  /\ UNCHANGED <<enable, cache, disk, makes, want, calls, flagVars>>

\* The file has changed: the object leaves the map, and findAndAdd calls
\* itself.  It still holds the mutex, which is not recursive.
HitStale(u) ==
  /\ pc[u] = "find" /\ enable
  /\ \E o \in Found(u) : ~IsConsistent(o) /\ cache' = cache \ {o}
  /\ \/ "throws" \in Relock /\ Throw(u)
     \/ "blocks" \in Relock /\ pc' = [pc EXCEPT ![u] = "stuck"]
                            /\ UNCHANGED <<mutex, got>>
     \/ "succeeds" \in Relock /\ UNCHANGED <<pc, mutex, got>>
  /\ UNCHANGED <<enable, disk, makes, want, calls, flagVars>>

\* not in the map, or nothing is kept: the object is made under the lock
Make(u) ==
  /\ pc[u] = "find"
  /\ enable => Found(u) = {}
  /\ makes' = makes + 1
  /\ got' = [got EXCEPT ![u] =
       [id |-> want[u].id, version |-> disk[want[u].id],
        serial |-> makes + 1, kept |-> enable]]
  /\ pc' = [pc EXCEPT ![u] = "insert"]
  /\ UNCHANGED <<enable, mutex, cache, disk, want, calls, flagVars>>

\* An insertion that finds the id taken returns nothing.
Insert(u) ==
  /\ pc[u] = "insert"
  /\ IF enable /\ Found(u) # {}
     THEN Throw(u) /\ UNCHANGED cache
     ELSE /\ Return(u, got[u])
          /\ cache' = IF enable THEN cache \cup {got[u]} ELSE cache
  /\ UNCHANGED <<enable, disk, makes, want, calls, flagVars>>

\* the data source has no data for the range: the map stays as it is
MakeFails(u) ==
  /\ pc[u] = "find"
  /\ enable => Found(u) = {}
  /\ Throw(u)
  /\ UNCHANGED <<enable, cache, disk, makes, want, calls, flagVars>>

Enable(b) ==
  /\ alive = "alive" /\ mutex = {}
  /\ enable' = b /\ b # enable
  /\ UNCHANGED <<mutex, cache, disk, makes, userVars, flagVars>>

\* another program writes the file
FileChanges(i) ==
  /\ disk[i] < MaxVersion
  /\ disk' = [disk EXCEPT ![i] = @ + 1]
  /\ UNCHANGED <<enable, mutex, cache, makes, userVars, flagVars>>

-----------------------------------------------------------------------------
(* The background thread *)

\* run() begins; in a cache that is gone it would run in freed memory
ThreadBegins ==
  /\ thread = "created" /\ alive # "gone"
  /\ running' = TRUE /\ thread' = "loop"
  /\ UNCHANGED <<enable, mutex, cache, disk, makes, userVars, first, run,
                 alive>>

\* MUTANT: the thread does not look at _run.
ThreadLoopsOn ==
  /\ thread = "loop"
  /\ thread' = "locking"
  /\ UNCHANGED <<enable, mutex, cache, disk, makes, userVars, first, run,
                 running, alive>>

ThreadLoops ==
  /\ thread = "loop" /\ run
  /\ thread' = "locking"
  /\ UNCHANGED <<enable, mutex, cache, disk, makes, userVars, first, run,
                 running, alive>>

\* Whoever asks is an owner too: p is a copy of the pointer in the map.
UseCount == 1 + 1

\* One object, which one a counter says, would be erased if nobody but the
\* map held it.
DoBackgroundProcessing ==
  /\ thread = "locking" /\ mutex = {}
  /\ IF Cardinality(cache) > Size /\ UseCount = 1
     THEN \E o \in cache : cache' = cache \ {o}
     ELSE UNCHANGED cache
  /\ thread' = "loop"
  /\ UNCHANGED <<enable, mutex, disk, makes, userVars, first, run, running,
                 alive>>

ThreadEnds ==
  /\ thread = "loop" /\ ~run
  /\ running' = FALSE /\ thread' = "ended"
  /\ UNCHANGED <<enable, mutex, cache, disk, makes, userVars, first, run,
                 alive>>

-----------------------------------------------------------------------------
(* tradery::uninit deletes the cache when no user is in it. *)

Delete ==
  /\ alive = "alive"
  /\ \A u \in Users : pc[u] = "idle"
  /\ alive' = "deleting" /\ run' = FALSE
  /\ UNCHANGED <<enable, mutex, cache, disk, makes, userVars, first,
                 running, thread>>

DeleteReturns ==
  /\ alive = "deleting" /\ ~running
  /\ alive' = "gone" /\ cache' = {}
  /\ UNCHANGED <<enable, mutex, disk, makes, userVars, first, run,
                 running, thread>>

User(u) == (\E i \in Ids : Call(u, i)) \/ Lock(u) \/ Hit(u) \/ HitStale(u)
           \/ Make(u) \/ Insert(u) \/ MakeFails(u)
Thread == ThreadBegins \/ ThreadLoops \/ DoBackgroundProcessing \/ ThreadEnds
Next == \/ \E u \in Users : User(u)
        \/ Thread
        \/ \E b \in BOOLEAN : Enable(b)
        \/ \E i \in Ids : FileChanges(i)
        \/ Delete \/ DeleteReturns

Fairness == WF_vars(Thread) /\ WF_vars(DeleteReturns)
            /\ \A u \in Users : WF_vars(Lock(u) \/ Hit(u) \/ HitStale(u)
                                        \/ Make(u) \/ Insert(u)
                                        \/ MakeFails(u))
Spec == Init /\ [][Next]_vars /\ Fairness

-----------------------------------------------------------------------------
(* Properties *)

ThreadStates == {"none", "created", "loop", "locking", "ended"}

\* Each variable has a value of its type.
TypeOK ==
  /\ enable \in BOOLEAN /\ first \in BOOLEAN /\ run \in BOOLEAN
  /\ running \in BOOLEAN
  /\ mutex \in SUBSET Users
  /\ cache \in SUBSET (Objects \ {NoObject})
  /\ thread \in ThreadStates
  /\ pc \in [Users -> {"idle", "lock", "find", "insert", "stuck"}]
  /\ want \in [Users -> [id : Ids, since : 0 .. MaxVersion]]
  /\ got \in [Users -> Objects]
  /\ disk \in [Ids -> 0 .. MaxVersion]
  /\ makes \in Nat /\ calls \in 0 .. MaxCalls
  /\ alive \in {"alive", "deleting", "gone"}

\* Nobody is given an object that was out of date when it was asked for: the
\* consistency check of findAndAdd sees every change of a file before the call.
NeverStale == \A u \in Users :
  pc[u] = "idle" /\ got[u] # NoObject => got[u].version >= want[u].since

\* Two threads that ask for an id at the same time are given the same object:
\* two kept objects of one id and one version are one object.
OneObjectPerVersion == \A u, v \in Users :
  got[u].kept /\ got[v].kept /\ got[u].id = got[v].id
     /\ got[u].version = got[v].version
     => got[u] = got[v]

\* The destructor of the cache returns.
DeleteEnds == (alive = "deleting") ~> (alive = "gone")

=============================================================================
