------------------------------ MODULE Plugins ------------------------------
(***************************************************************************)
(* Plugins: the trees of what the libraries of a path offer                *)
(* (plugin/plugintree.h), and what a session makes of it, from the         *)
(* contexts of its data source, symbols source and signal handler and the  *)
(* instances of its systems to their release (tradery/session.h).          *)
(*                                                                         *)
(* A library is loaded while a PluginInstance of it lives.  The code of an *)
(* object, that of its destructor too, is in the library that made it.     *)
(* The trees are filled before the session starts; a run of the session    *)
(* is one step, since RunSystem has what happens in it.                    *)
(***************************************************************************)
EXTENDS Integers, Sequences, FiniteSets, SequencesExt

CONSTANTS Libraries,  \* files in the paths of plugins
          PluginPaths,\* what the two paths may hold: [global, session -> Seq(Libraries)]
          Offers,     \* what the libraries may export: [Libraries -> set of exports]
          Ignored,    \* libraries that are known to be none of plugins
          Unauthorized, \* ids of plugins that are ignored
          RootIds,    \* the ids of the roots of a tree by type, made at random
          Documents,  \* what a session may be configured with
          None        \* no object, no library, no id

\* The types of plugins, in the order in which a file is tried for them.
PluginTypes == <<"dataSource", "symbolsSource", "runnable", "commission", "slippage",
                 "signalHandler">>
Types == Range(PluginTypes)
Trees == {"global", "session"}
ContextTypes == {"dataSource", "symbolsSource", "signalHandler"}

\* Why there is no node or no library for an id.
NoLibrary == {"not found", "wrong type", "undefined"}

ASSUME LibrariesAssumption ==
  /\ None \notin Libraries /\ NoLibrary \cap Libraries = {}
  /\ PluginPaths \subseteq [Trees -> Seq(Libraries)]

\* A library has one function for each type.
ASSUME OffersAssumption ==
  \A o \in Offers : \A lib \in Libraries : \A e \in o[lib] :
    /\ e.type \in Types /\ e.id \notin NoLibrary
    /\ \A f \in o[lib] : f.type = e.type => f = e

ASSUME RootsAssumption ==
  \A s, t \in Types : /\ RootIds[s] \notin NoLibrary
                      /\ RootIds[s] = RootIds[t] => s = t

ASSUME DocumentsAssumption ==
  \A d \in Documents :
    /\ d.runnables \in Seq(Range(d.runnables)) /\ d.threads \in Nat
    /\ \A c \in {"commission", "slippage"}, t \in Types : d[c] # RootIds[t]
    /\ \A c \in ContextTypes, lib \in Libraries : None # [lib |-> lib, id |-> d[c], type |-> c]

VARIABLES path,       \* the files of the two paths
          offer,      \* what they export
          document,   \* what the session is to run
          tree,       \* the nodes of the two trees
          duplicates, \* the ids that were there already
          todo,       \* files and types still to be tried
          step, at,   \* where the main thread is, and in which turn of a loop
          plugin,     \* the instance that each type of the session has, but for the systems
          runnablePlugins,  \* _runnablePluginInstances
          object,     \* the objects of the contexts
          count,      \* _count of the contexts
          handlers,   \* the handlers that the contexts notify
          runnables, commissions, slippages,  \* the objects of each instance
          iterators   \* _dataInfoIterators: the number of the iterator of each system

treeVars == <<path, offer, tree, duplicates, todo>>
contextVars == <<plugin, object, count, handlers>>
instanceVars == <<runnablePlugins, runnables, commissions, slippages, iterators>>
pluginVars == <<treeVars, document, step, at, contextVars, instanceVars>>

-----------------------------------------------------------------------------
(* The tree *)

RootOf(type) == RootIds[type]
Roots == {[id |-> RootOf(t), type |-> t, sub |-> "root", parent |-> None, lib |-> None] :
            t \in Types}

Has(nodes, id) == \E n \in nodes : n.id = id
Find(nodes, id) == CHOOSE n \in nodes : n.id = id

PluginNode(export, lib) ==
  [id |-> export.id, type |-> export.type, sub |-> "plugin",
   parent |-> RootOf(export.type), lib |-> lib]
ConfigNode(id, of) == [id |-> id, type |-> of.type, sub |-> "config", parent |-> of.id,
                       lib |-> None]

\* A plugin goes under the root of its type, and its configurations under it; the
\* ids that are there already are reported, and not added.
AddPlugin(found, export, lib) ==
  IF export.id \in Unauthorized THEN found
  ELSE IF Has(found.nodes, export.id)
  THEN [found EXCEPT !.duplicates = @ \cup {export.id}]
  ELSE LET node == PluginNode(export, lib)
           nodes == found.nodes \cup {node}
           configs == export.configs
           ids == Range(configs)
           again == {configs[k] : k \in {k \in DOMAIN configs :
                                           \E j \in DOMAIN configs : j # k /\ configs[j] = configs[k]}}
       IN [nodes |-> nodes \cup {ConfigNode(id, node) : id \in {i \in ids : ~Has(nodes, i)}},
           duplicates |-> found.duplicates \cup again \cup {id \in ids : Has(nodes, id)}]

\* PluginExplorer::explore without recursion.
ToTry(files) ==
  LET N == Len(PluginTypes)
  IN [k \in 1 .. N * Len(files) |->
        <<files[((k - 1) \div N) + 1], PluginTypes[((k - 1) % N) + 1]>>]
Exploring(t) == IF t = "global" THEN "explore global" ELSE "explore session"

\* process(): the file, but for an ignored one, is loaded as a plugin of one type, which
\* fails without the function of that type, and freed again.
Process(t) ==
  /\ step = Exploring(t) /\ todo[t] # <<>>
  /\ LET lib == Head(todo[t])[1]
         export == {e \in offer[lib] : lib \notin Ignored /\ e.type = Head(todo[t])[2]}
         found == [nodes |-> tree[t], duplicates |-> duplicates[t]]
         now == IF export = {} THEN found
                ELSE AddPlugin(found, CHOOSE e \in export : TRUE, lib)
     IN /\ tree' = [tree EXCEPT ![t] = now.nodes]
        /\ duplicates' = [duplicates EXCEPT ![t] = now.duplicates]
  /\ todo' = [todo EXCEPT ![t] = Tail(@)]
  /\ UNCHANGED <<path, offer, document, step, at, contextVars, instanceVars>>

\* With duplicates there is an exception, which ends the process or the session.
Explored(t) ==
  /\ step = Exploring(t) /\ todo[t] = <<>>
  /\ step' = IF duplicates[t] # {} THEN "refused"
             ELSE IF t = "global" THEN "explore session" ELSE "start"
  /\ UNCHANGED <<treeVars, document, at, contextVars, instanceVars>>

\* parent(): the node above the one with this id, or the reason why there is none.
ParentOf(nodes, id) ==
  IF ~Has(nodes, id) THEN "not found"
  ELSE IF Find(nodes, id).sub = "root" THEN "undefined"
  ELSE Find(nodes, id).parent

\* getPlugin(): the library of the plugin at or above the node with this id.
GetPlugin(nodes, id, type) ==
  IF ~Has(nodes, id) THEN "not found"
  ELSE LET n == Find(nodes, id)
       IN IF n.type # type THEN "wrong type"
          ELSE IF n.sub = "root" THEN "undefined"
          ELSE IF n.sub = "plugin" THEN n.lib
          ELSE Find(nodes, n.parent).lib

\* The library that parent and getPlugin together give for a configuration.
LibraryOf(nodes, id, type) ==
  LET parent == ParentOf(nodes, id)
  IN IF parent \in {"not found", "undefined"} THEN parent ELSE GetPlugin(nodes, parent, type)

Errors == {"not found", "wrong type"}

-----------------------------------------------------------------------------
(* TASession::start *)

Go(next) == step' = next /\ at' = 1

\* An exception leaves start, and the session with what it has so far is destroyed.
Throw == Go("destroy")
Undefined == Go("undefined")

\* A session needs a data source, a source of symbols and a system.
CheckDocument ==
  /\ step = "start"
  /\ IF document.dataSource = None \/ document.symbolsSource = None \/ document.runnables = <<>>
     THEN Throw ELSE Go("dataSource")
  /\ UNCHANGED <<treeVars, document, contextVars, instanceVars>>

\* What the load of a library, or a constructor in it, may come to.
Outcomes == {"made", "not loaded", "not made"}

\* create() of a context.
CreateContext(c, next) ==
  /\ step = c
  /\ LET id == document[c]
         lib == LibraryOf(tree["global"], id, c)
     IN \/ /\ id = None
           /\ Go(next) /\ UNCHANGED contextVars
        \/ /\ id # None /\ lib \in Errors
           /\ Throw /\ UNCHANGED contextVars
        \/ /\ id # None /\ lib = "undefined"
           /\ Undefined /\ UNCHANGED contextVars
        \/ /\ id # None /\ lib \in Libraries
           /\ \E outcome \in Outcomes :
                /\ plugin' = IF outcome = "not loaded" THEN plugin
                             ELSE [plugin EXCEPT ![c] = lib]
                /\ IF outcome = "made"
                   THEN LET made == [lib |-> lib, id |-> id, type |-> c]
                        IN /\ object' = [object EXCEPT ![c] = made]
                           /\ handlers' = [handlers EXCEPT ![c] = @ \cup {made}]
                           /\ count' = [count EXCEPT ![c] = @ + 1]
                           /\ Go(next)
                   ELSE Throw /\ UNCHANGED <<object, handlers, count>>
  /\ UNCHANGED <<treeVars, document, instanceVars>>

CreateDataSource == CreateContext("dataSource", "symbolsSource")
CreateSymbolsSource == CreateContext("symbolsSource", "signalHandler")
CreateSignalHandler == CreateContext("signalHandler", "system plugins")

\* A map with one more key, unless it has it.
Inserted(map, key, value) ==
  [k \in DOMAIN map \cup {key} |-> IF k \in DOMAIN map THEN map[k] ELSE value]

\* createRunnablePlugins: one instance of each plugin that has a system of the document.
CreateRunnablePlugin ==
  /\ step = "system plugins" /\ at <= Len(document.runnables)
  /\ LET id == document.runnables[at]
         parent == ParentOf(tree["session"], id)
         lib == LibraryOf(tree["session"], id, "runnable")
     IN \/ lib \in Errors /\ Throw /\ UNCHANGED runnablePlugins
        \/ lib = "undefined" /\ Undefined /\ UNCHANGED runnablePlugins
        \/ /\ lib \in Libraries /\ parent \in DOMAIN runnablePlugins
           /\ at' = at + 1 /\ UNCHANGED <<step, runnablePlugins>>
        \/ /\ lib \in Libraries /\ parent \notin DOMAIN runnablePlugins
           /\ \/ /\ runnablePlugins' = Inserted(runnablePlugins, parent, lib)
                 /\ at' = at + 1 /\ UNCHANGED step
              \/ Throw /\ UNCHANGED runnablePlugins
  /\ UNCHANGED <<treeVars, document, contextVars, runnables, commissions, slippages, iterators>>

CreateDefaultPlugin(c, next) ==
  /\ step = c
  /\ LET id == document[c]
         lib == GetPlugin(tree["global"], id, c)
     IN \/ id = None /\ Go(next) /\ UNCHANGED plugin
        \/ id # None /\ lib \in Errors /\ Throw /\ UNCHANGED plugin
        \/ /\ id # None /\ lib \in Libraries
           /\ \/ plugin' = [plugin EXCEPT ![c] = lib] /\ Go(next)
              \/ Throw /\ UNCHANGED plugin
  /\ UNCHANGED <<treeVars, document, object, count, handlers, instanceVars>>

RunnablePluginsCreated ==
  /\ step = "system plugins" /\ at > Len(document.runnables)
  /\ Go("commission")
  /\ UNCHANGED <<treeVars, document, contextVars, instanceVars>>

CreateCommissionPlugin == CreateDefaultPlugin("commission", "slippage")
CreateSlippagePlugin == CreateDefaultPlugin("slippage", "instances")

\* The instances that createRunnables makes: one of each system or, when one system
\* may run in several threads, as many as there are threads, in turn.
Instances ==
  IF document.oneSystemInMultipleThreads /\ Len(document.runnables) < document.threads
  THEN document.threads ELSE Len(document.runnables)
SystemOf(n) == document.runnables[((n - 1) % Len(document.runnables)) + 1]

\* MUTANT: every instance has an iterator of its own.
IteratorOfInstance(id) ==
  IF id \in DOMAIN iterators THEN Len(runnables) + 1 ELSE Cardinality(DOMAIN iterators) + 1

\* Instances of one system have one iterator.
IteratorOf(id) ==
  IF id \in DOMAIN iterators THEN iterators[id] ELSE Cardinality(DOMAIN iterators) + 1

\* SimplePlugin::get reads past the end of its map for the id of the plugin itself.
ReadsPastEnd(c) == plugin[c] # None /\ Find(tree["global"], document[c]).sub = "plugin"

\* An object of the plugin c for one instance.
Own(c) == IF plugin[c] = None \/ ReadsPastEnd(c) THEN <<>>
          ELSE <<[lib |-> plugin[c], id |-> document[c], type |-> c]>>

\* createRunnable: the system, its iterator, its commission, its slippage.  Each of the
\* three objects may throw when it is made.
CreateRunnable ==
  /\ step = "instances" /\ at <= Instances
  /\ LET id == SystemOf(at)
         system == [lib |-> runnablePlugins[ParentOf(tree["session"], id)], id |-> id,
                    type |-> "runnable", iterator |-> IteratorOf(id)]
     IN \E made \in 0 .. 3 :
          /\ runnables' = IF made >= 1 THEN Append(runnables, system) ELSE runnables
          /\ iterators' = IF made >= 1 THEN Inserted(iterators, id, IteratorOf(id)) ELSE iterators
          /\ commissions' = IF made >= 2 THEN commissions \o Own("commission") ELSE commissions
          /\ slippages' = IF made >= 3 THEN slippages \o Own("slippage") ELSE slippages
          /\ IF \/ made >= 1 /\ ReadsPastEnd("commission")
                \/ made >= 2 /\ ReadsPastEnd("slippage")
             THEN Undefined
             ELSE IF made = 3 THEN at' = at + 1 /\ UNCHANGED step ELSE Throw
  /\ UNCHANGED <<treeVars, document, contextVars, runnablePlugins>>

\* The run, with the notifications around it; the plugins may throw when the session
\* starts.
Run ==
  /\ step = "instances" /\ at > Instances
  /\ Go("release") \/ Throw
  /\ UNCHANGED <<treeVars, document, contextVars, instanceVars>>

-----------------------------------------------------------------------------
(* releasePlugins, and the destructor *)

\* MUTANT: the plugin of the symbols source is reset before the symbols source.
ReleaseOrderSwapped == <<
  <<"instances", "runnable">>, <<"instances", "commission">>, <<"instances", "slippage">>,
  <<"plugin", "runnable">>, <<"plugin", "commission">>, <<"plugin", "slippage">>,
  <<"count", "dataSource">>, <<"count", "symbolsSource">>,
  <<"plugin", "symbolsSource">>, <<"object", "symbolsSource">>,
  <<"count", "signalHandler">>, <<"object", "signalHandler">>, <<"plugin", "signalHandler">> >>

\* What releasePlugins gives up; the data source keeps its object and its plugin.
ReleaseOrder == <<
  <<"instances", "runnable">>, <<"instances", "commission">>, <<"instances", "slippage">>,
  <<"plugin", "runnable">>, <<"plugin", "commission">>, <<"plugin", "slippage">>,
  <<"count", "dataSource">>, <<"count", "symbolsSource">>,
  <<"object", "symbolsSource">>, <<"plugin", "symbolsSource">>,
  <<"count", "signalHandler">>, <<"object", "signalHandler">>, <<"plugin", "signalHandler">> >>

\* The members in the opposite order of their declaration.
DestructionOrder == <<
  <<"instances", "slippage">>, <<"instances", "commission">>, <<"instances", "runnable">>,
  <<"iterators", "runnable">>, <<"plugin", "runnable">>,
  <<"plugin", "slippage">>, <<"plugin", "commission">>,
  <<"count", "signalHandler">>, <<"object", "signalHandler">>, <<"plugin", "signalHandler">>,
  <<"count", "symbolsSource">>, <<"object", "symbolsSource">>, <<"plugin", "symbolsSource">>,
  <<"count", "dataSource">>, <<"object", "dataSource">>, <<"plugin", "dataSource">> >>

\* release() of a context: with the last count its object is notified no more.
ReleaseCount(c) ==
  /\ count' = [count EXCEPT ![c] = @ - 1]
  /\ handlers' = IF count[c] = 1 /\ plugin[c] # None
                 THEN [handlers EXCEPT ![c] = @ \ {object[c]}] ELSE handlers

Drop(what, c) ==
  /\ runnables' = IF what = "instances" /\ c = "runnable" THEN <<>> ELSE runnables
  /\ commissions' = IF what = "instances" /\ c = "commission" THEN <<>> ELSE commissions
  /\ slippages' = IF what = "instances" /\ c = "slippage" THEN <<>> ELSE slippages
  /\ iterators' = IF what = "iterators" THEN <<>> ELSE iterators
  /\ runnablePlugins' = IF what = "plugin" /\ c = "runnable" THEN <<>> ELSE runnablePlugins
  /\ plugin' = IF what = "plugin" /\ c # "runnable" THEN [plugin EXCEPT ![c] = None] ELSE plugin
  /\ object' = IF what = "object" THEN [object EXCEPT ![c] = None] ELSE object

Release ==
  /\ step = "release" /\ at <= Len(ReleaseOrder)
  /\ LET what == ReleaseOrder[at][1]
         c == ReleaseOrder[at][2]
     IN IF c = "signalHandler" /\ document[c] = None
        THEN UNCHANGED <<contextVars, instanceVars>>
        ELSE /\ IF what = "count" THEN ReleaseCount(c) ELSE UNCHANGED <<count, handlers>>
             /\ Drop(what, c)
  /\ at' = at + 1
  /\ UNCHANGED <<treeVars, document, step>>

Released ==
  /\ step = "release" /\ at > Len(ReleaseOrder)
  /\ Go("destroy")
  /\ UNCHANGED <<treeVars, document, contextVars, instanceVars>>

\* A context whose count is one after an exception releases itself.
Destroy ==
  /\ step = "destroy" /\ at <= Len(DestructionOrder)
  /\ LET what == DestructionOrder[at][1]
         c == DestructionOrder[at][2]
     IN /\ IF what = "count" /\ count[c] = 1 THEN ReleaseCount(c)
           ELSE UNCHANGED <<count, handlers>>
        /\ Drop(what, c)
  /\ at' = at + 1
  /\ UNCHANGED <<treeVars, document, step>>

Destroyed ==
  /\ step = "destroy" /\ at > Len(DestructionOrder)
  /\ Go("destroyed")
  /\ UNCHANGED <<treeVars, document, contextVars, instanceVars>>

PluginsInit ==
  /\ path \in PluginPaths /\ offer \in Offers /\ document \in Documents
  /\ tree = [t \in Trees |-> Roots] /\ duplicates = [t \in Trees |-> {}]
  /\ todo = [t \in Trees |-> ToTry(path[t])]
  /\ step = "explore global" /\ at = 1
  /\ plugin = [c \in Types \ {"runnable"} |-> None]
  /\ object = [c \in ContextTypes |-> None]
  /\ count = [c \in ContextTypes |-> 0] /\ handlers = [c \in ContextTypes |-> {}]
  /\ runnablePlugins = <<>> /\ iterators = <<>>
  /\ runnables = <<>> /\ commissions = <<>> /\ slippages = <<>>

Start ==
  \/ CheckDocument \/ CreateDataSource \/ CreateSymbolsSource \/ CreateSignalHandler
  \/ CreateRunnablePlugin \/ RunnablePluginsCreated
  \/ CreateCommissionPlugin \/ CreateSlippagePlugin
  \/ CreateRunnable \/ Run

PluginsNext ==
  \/ \E t \in Trees : Process(t) \/ Explored(t)
  \/ Start
  \/ Release \/ Released \/ Destroy \/ Destroyed

PluginsSpec == PluginsInit /\ [][PluginsNext]_pluginVars

-----------------------------------------------------------------------------
\* A part of SessionIsAsConfigured: every configuration that a library of a path
\* offers is in the tree under its plugin and the library, or its id or that of its
\* plugin was reported as a duplicate, or is not authorized; and there is no id twice.
NothingIsLost ==
  /\ \A t \in Trees : todo[t] = <<>> =>
       \A lib \in Range(path[t]) \ Ignored : \A e \in offer[lib] : \A id \in Range(e.configs) :
         \/ e.id \in Unauthorized
         \/ {id, e.id} \cap duplicates[t] # {}
         \/ LibraryOf(tree[t], id, e.type) = lib /\ ParentOf(tree[t], id) = e.id
  /\ \A t \in Trees : \A n, m \in tree[t] : n.id = m.id => n = m

Objects == {object[c] : c \in {x \in ContextTypes : object[x] # None}}
             \cup Range(runnables) \cup Range(commissions) \cup Range(slippages)
Loaded == {plugin[c] : c \in DOMAIN plugin} \cup {runnablePlugins[p] : p \in DOMAIN runnablePlugins}

\* As long as an object lives its library is loaded, also when an exception ends
\* the start half way and when the members of the session are destroyed; only living
\* objects are notified; and at the end nothing is left.
ObjectsHaveTheirLibrary ==
  /\ \A o \in Objects : o.lib \in Loaded
  /\ \A c \in ContextTypes : handlers[c] \subseteq {object[c]} /\ None \notin handlers[c]
  /\ step = "destroyed" => Objects = {} /\ Loaded = {None} /\ \A c \in ContextTypes :
                             count[c] = 0 /\ handlers[c] = {}

\* The session gets what it was configured with: the trees lose nothing that a
\* library offers, objects are of the library that offers them as what they are used
\* for, and of every system there is one instance or as many as there are threads
\* for, which share their symbols with nobody else.
SessionIsAsConfigured ==
  /\ NothingIsLost
  /\ \A o \in Objects : \E e \in offer[o.lib] : e.type = o.type /\ o.id \in Range(e.configs)
  /\ \A n, m \in DOMAIN runnables :
       (runnables[n].id = runnables[m].id) = (runnables[n].iterator = runnables[m].iterator)
  /\ step = "release" /\ at = 1 =>
       /\ {r.id : r \in Range(runnables)} = Range(document.runnables)
       /\ document.oneSystemInMultipleThreads => Len(runnables) >= document.threads
       /\ \A c \in {"dataSource", "symbolsSource"} : object[c].id = document[c]
       /\ document.commission # None => Len(commissions) = Len(runnables)
       /\ document.slippage # None => Len(slippages) = Len(runnables)
=============================================================================
