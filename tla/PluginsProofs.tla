--------------------------- MODULE PluginsProofs ---------------------------
(***************************************************************************)
(* Plugins for every set of libraries, whatever they export, and every     *)
(* document.  The inductive invariant IInv has four parts: the trees       *)
(* (TreeInv: what a node may be, and that what was tried is in the tree or *)
(* reported), the types (SessionTypeInv), what each object is bound to     *)
(* (ObjectsInv: its plugin, its configuration, its iterator) and what the  *)
(* main thread has by the turn it is in (StepsInv: nothing before a plugin *)
(* is made, everything at the end of the start, and then less and less).   *)
(* An object may go in any turn; a plugin only when the last part says     *)
(* that its objects are gone.                                              *)
(***************************************************************************)
EXTENDS Plugins, FiniteSetTheorems, TLAPS

-----------------------------------------------------------------------------
(* The trees *)

\* What a node may be, with the offers o: a root, a plugin that its library offers, or a
\* configuration of such a plugin.
IsPluginNode(n, o) == \E lib \in Libraries : \E e \in o[lib] : n = PluginNode(e, lib)
IsConfigOf(nodes, n, lib, e) ==
  /\ PluginNode(e, lib) \in nodes /\ n.id \in Range(e.configs)
  /\ n = ConfigNode(n.id, PluginNode(e, lib))
IsConfigNode(nodes, n, o) ==
  \E lib \in Libraries : \E e \in o[lib] : IsConfigOf(nodes, n, lib, e)

NodesOk(nodes, o) ==
  /\ \A n \in nodes : n \in Roots \/ IsPluginNode(n, o) \/ IsConfigNode(nodes, n, o)
  /\ Roots \subseteq nodes
  /\ \A n, m \in nodes : n.id = m.id => n = m

\* What became of a plugin that was offered.
Added(nodes, again, lib, e) ==
  \/ e.id \in Unauthorized
  \/ e.id \in again
  \/ /\ PluginNode(e, lib) \in nodes
     /\ \A id \in Range(e.configs) :
          id \in again \/ ConfigNode(id, PluginNode(e, lib)) \in nodes

NodesInv == \A t \in Trees : NodesOk(tree[t], offer)

\* What is offered is still to be tried, or was.
TriedInv ==
  \A t \in Trees : \A lib \in Range(path[t]) \ Ignored : \A e \in offer[lib] :
    <<lib, e.type>> \in Range(todo[t]) \/ Added(tree[t], duplicates[t], lib, e)

InputInv ==
  /\ offer \in Offers /\ document \in Documents /\ path \in PluginPaths
  /\ tree = [t \in Trees |-> tree[t]] /\ duplicates = [t \in Trees |-> duplicates[t]]
  /\ todo \in [Trees -> Seq(Libraries \X Types)]

TreeInv == InputInv /\ NodesInv /\ TriedInv

-----------------------------------------------------------------------------
(* The session *)

Offered(o) == \E e \in offer[o.lib] : e.type = o.type /\ o.id \in Range(e.configs)
ObjectOf(c) == [lib |-> plugin[c], id |-> document[c], type |-> c]

\* A context has no object, or one of the plugin that it holds; it is counted and
\* notified, or neither.
ContextInv ==
  \A c \in ContextTypes :
    /\ \/ object[c] = None
       \/ /\ document[c] # None /\ plugin[c] \in Libraries
          /\ object[c] = ObjectOf(c) /\ Offered(object[c])
    /\ \/ count[c] = 0 /\ handlers[c] = {}
       \/ count[c] = 1 /\ object[c] # None /\ handlers[c] = {object[c]}

\* The objects of the instances are of the plugins that are held.
OwnInv(c, objects) ==
  \A n \in DOMAIN objects :
    plugin[c] \in Libraries /\ objects[n] = ObjectOf(c) /\ Offered(objects[n])

DefaultPluginsInv ==
  \A c \in {"commission", "slippage"} :
    plugin[c] # None => plugin[c] = GetPlugin(tree["global"], document[c], c)

RunnablePluginsInv ==
  \A p \in DOMAIN runnablePlugins :
    /\ runnablePlugins[p] \in Libraries /\ p \notin NoLibrary
    /\ runnablePlugins[p] = GetPlugin(tree["session"], p, "runnable")

RunnablesInv ==
  \A n \in DOMAIN runnables :
    LET r == runnables[n]
        p == ParentOf(tree["session"], r.id)
    IN  /\ p \in DOMAIN runnablePlugins
        /\ r = [lib |-> runnablePlugins[p], id |-> r.id, type |-> "runnable",
                iterator |-> iterators[r.id]]
        /\ r.id \in DOMAIN iterators /\ Offered(r)

IteratorsInv ==
  /\ IsFiniteSet(DOMAIN iterators)
  /\ \A i \in DOMAIN iterators : iterators[i] \in 1 .. Cardinality(DOMAIN iterators)
  /\ \A i, j \in DOMAIN iterators : iterators[i] = iterators[j] => i = j

IsASeq(s) == s \in Seq(Range(s))
SessionTypeInv ==
  /\ plugin \in [Types \ {"runnable"} -> Libraries \cup {None}]
  /\ object = [c \in ContextTypes |-> object[c]]
  /\ count \in [ContextTypes -> Int]
  /\ handlers = [c \in ContextTypes |-> handlers[c]]
  /\ IsASeq(runnables) /\ IsASeq(commissions) /\ IsASeq(slippages)
  /\ at \in Nat \ {0}

\* The steps of the start, up to the one in which a plugin is made.
Beginning == {"explore global", "explore session", "refused", "start"}
UpTo(c) ==
  CASE c = "dataSource" -> Beginning \cup {c}
    [] c = "symbolsSource" -> Beginning \cup {"dataSource", c}
    [] c = "signalHandler" -> Beginning \cup {"dataSource", "symbolsSource", c}
    [] c = "system plugins" -> Beginning \cup ContextTypes \cup {c}
    [] c = "commission" -> Beginning \cup ContextTypes \cup {"system plugins", c}
    [] c = "slippage" -> Beginning \cup ContextTypes \cup {"system plugins", "commission", c}
Starting == UpTo("slippage") \cup {"instances"}
Made(c) == Starting \ UpTo(c)

NothingYet ==
  /\ step \in UpTo("signalHandler") => runnablePlugins = <<>>
  /\ \A c \in ContextTypes :
       step \in UpTo(c) => count[c] = 0 /\ object[c] = None /\ plugin[c] = None
  /\ \A c \in {"commission", "slippage"} : step \in UpTo(c) => plugin[c] = None
  /\ step \in UpTo("slippage") =>
       runnables = <<>> /\ commissions = <<>> /\ slippages = <<>>

\* What the start has by now.
Counted(c) == count[c] = IF document[c] = None THEN 0 ELSE 1
HasPlugin(c) == document[c] # None => plugin[c] # None
HasRunnablePlugin(k) == ParentOf(tree["session"], document.runnables[k]) \in DOMAIN runnablePlugins
Complete(n) ==
  /\ Len(runnables) = n
  /\ \A k \in 1 .. n : runnables[k].id = SystemOf(k)
  /\ document.commission # None => Len(commissions) = n
  /\ document.slippage # None => Len(slippages) = n

StartInv ==
  /\ step \in Made("dataSource") \cup {"dataSource", "release"} =>
       document.dataSource # None /\ document.symbolsSource # None /\ document.runnables # <<>>
  /\ \A c \in ContextTypes : step \in Made(c) => Counted(c)
  /\ \A c \in {"commission", "slippage"} : step \in Made(c) => HasPlugin(c)
  /\ step = "system plugins" => \A k \in DOMAIN document.runnables : k < at => HasRunnablePlugin(k)
  /\ step \in Made("system plugins") => \A k \in DOMAIN document.runnables : HasRunnablePlugin(k)
  /\ step = "instances" => at <= Instances + 1 /\ Complete(at - 1)

ReleaseInv ==
  step = "release" =>
    /\ at = 1 => Complete(Instances)
    /\ at > 1 => runnables = <<>>
    /\ at > 2 => commissions = <<>>
    /\ at > 3 => slippages = <<>>
    /\ IF at <= 7 THEN Counted("dataSource") ELSE count["dataSource"] = 0
    /\ IF at <= 8 THEN Counted("symbolsSource") ELSE count["symbolsSource"] = 0
    /\ at > 9 => object["symbolsSource"] = None
    /\ IF at <= 11 THEN Counted("signalHandler") ELSE count["signalHandler"] = 0
    /\ at > 12 => object["signalHandler"] = None

\* The members that are gone.
DestroyInv ==
  step \in {"destroy", "destroyed"} =>
    LET gone(n) == step = "destroyed" \/ at > n
    IN  /\ gone(1) => slippages = <<>>
        /\ gone(2) => commissions = <<>>
        /\ gone(3) => runnables = <<>>
        /\ gone(5) => runnablePlugins = <<>>
        /\ gone(6) => plugin["slippage"] = None
        /\ gone(7) => plugin["commission"] = None
        /\ gone(8) => count["signalHandler"] = 0
        /\ gone(9) => object["signalHandler"] = None
        /\ gone(10) => plugin["signalHandler"] = None
        /\ gone(11) => count["symbolsSource"] = 0
        /\ gone(12) => object["symbolsSource"] = None
        /\ gone(13) => plugin["symbolsSource"] = None
        /\ gone(14) => count["dataSource"] = 0
        /\ gone(15) => object["dataSource"] = None
        /\ gone(16) => plugin["dataSource"] = None

ObjectsInv ==
  /\ ContextInv /\ OwnInv("commission", commissions) /\ OwnInv("slippage", slippages)
  /\ DefaultPluginsInv /\ RunnablePluginsInv /\ RunnablesInv /\ IteratorsInv
StepsInv == NothingYet /\ StartInv /\ ReleaseInv /\ DestroyInv
IInv == TreeInv /\ SessionTypeInv /\ ObjectsInv /\ StepsInv
-----------------------------------------------------------------------------
(* Lemmas *)

LEMMA TypesAre ==
  /\ Types = {"dataSource", "symbolsSource", "runnable", "commission", "slippage",
              "signalHandler"}
  /\ Len(PluginTypes) = 6 /\ DOMAIN PluginTypes = 1 .. 6
  /\ \A k \in 1 .. 6 : PluginTypes[k] \in Types
BY DEF Types, PluginTypes, Range

\* Every file is tried for every type.
LEMMA ToTryIsAll ==
  ASSUME NEW files \in Seq(Libraries)
  PROVE  /\ ToTry(files) \in Seq(Libraries \X Types)
         /\ \A lib \in Range(files), type \in Types : <<lib, type>> \in Range(ToTry(files))
<1> DEFINE N == 6 * Len(files)
           pair(k) == <<files[((k - 1) \div 6) + 1], PluginTypes[((k - 1) % 6) + 1]>>
<1>1. ToTry(files) = [k \in 1 .. N |-> pair(k)]
  BY TypesAre DEF ToTry
<1>2. Len(files) \in Nat /\ N \in Nat /\ DOMAIN files = 1 .. Len(files)
  OBVIOUS
<1>3. ASSUME NEW k \in 1 .. N PROVE pair(k) \in Libraries \X Types
  <2>1. ((k - 1) \div 6) + 1 \in 1 .. Len(files) /\ ((k - 1) % 6) + 1 \in 1 .. 6
    BY <1>2
  <2> QED BY <2>1, <1>2, TypesAre
<1>4. ToTry(files) \in Seq(Libraries \X Types)
  BY <1>1, <1>2, <1>3
<1>5. ASSUME NEW lib \in Range(files), NEW type \in Types
      PROVE  <<lib, type>> \in Range(ToTry(files))
  <2>1. PICK i \in 1 .. Len(files) : files[i] = lib
    BY <1>2 DEF Range
  <2>2. PICK j \in 1 .. 6 : PluginTypes[j] = type
    BY TypesAre DEF Types, Range
  <2> DEFINE k == 6 * (i - 1) + j
  <2>3. k \in 1 .. N
    BY <1>2
  <2>4. (k - 1) \div 6 = i - 1 /\ (k - 1) % 6 = j - 1
    OBVIOUS
  <2>5. pair(k) = <<lib, type>>
    BY <2>1, <2>2, <2>4
  <2> HIDE DEF k
  <2> QED BY <1>1, <2>3, <2>5 DEF Range
<1> QED BY <1>4, <1>5

LEMMA HeadTailRange ==
  ASSUME NEW S, NEW s \in Seq(S), s # <<>>
  PROVE  /\ Head(s) \in S /\ Tail(s) \in Seq(S)
         /\ \A x \in Range(s) : x = Head(s) \/ x \in Range(Tail(s))
<1>1. Len(s) \in Nat \ {0} /\ DOMAIN s = 1 .. Len(s) /\ Head(s) = s[1]
  OBVIOUS
<1>2. Tail(s) \in Seq(S) /\ Len(Tail(s)) = Len(s) - 1
      /\ \A k \in 1 .. Len(s) - 1 : Tail(s)[k] = s[k + 1]
  BY <1>1
<1>3. ASSUME NEW k \in 1 .. Len(s), k # 1 PROVE s[k] \in Range(Tail(s))
  <2>1. k - 1 \in 1 .. Len(s) - 1 /\ (k - 1) + 1 = k
    <3>1. k \in Int /\ 1 <= k /\ k <= Len(s) /\ k # 1 /\ Len(s) \in Int
      BY <1>1, <1>3
    <3> HIDE <1>1
    <3> QED BY <3>1
  <2>2. DOMAIN Tail(s) = 1 .. Len(s) - 1
    BY <1>2
  <2>3. Tail(s)[k - 1] = s[k]
    BY <1>2, <2>1
  <2> QED BY <2>1, <2>2, <2>3 DEF Range
<1> QED BY <1>1, <1>2, <1>3 DEF Range

\* In a tree, an id is that of one node.
LEMMA FindIsThe ==
  ASSUME NEW nodes, NEW o, NodesOk(nodes, o), NEW n \in nodes
  PROVE  Has(nodes, n.id) /\ Find(nodes, n.id) = n
BY DEF NodesOk, Has, Find

\* A plugin in a tree is found.
LEMMA PluginIsFound ==
  ASSUME NEW nodes, NEW o, NodesOk(nodes, o), NEW lib, NEW e,
         PluginNode(e, lib) \in nodes, NEW type
  PROVE  /\ Find(nodes, e.id) = PluginNode(e, lib)
         /\ GetPlugin(nodes, e.id, type) = IF e.type = type THEN lib ELSE "wrong type"
<1> DEFINE m == PluginNode(e, lib)
<1>1. m \in nodes /\ m.id = e.id /\ m.type = e.type /\ m.sub = "plugin" /\ m.lib = lib
  BY DEF PluginNode
<1> HIDE DEF m
<1>2. Has(nodes, e.id) /\ Find(nodes, e.id) = m
  BY <1>1, FindIsThe
<1>3. GetPlugin(nodes, e.id, type) = IF e.type = type THEN lib ELSE "wrong type"
  BY <1>1, <1>2 DEF GetPlugin
<1> QED BY <1>2, <1>3 DEF m

\* It is found from its configurations too.
LEMMA ConfigIsFound ==
  ASSUME NEW nodes, NEW o, NodesOk(nodes, o), NEW lib, NEW e,
         PluginNode(e, lib) \in nodes, NEW type, e.id \notin NoLibrary,
         NEW id, ConfigNode(id, PluginNode(e, lib)) \in nodes
  PROVE  /\ ParentOf(nodes, id) = e.id
         /\ GetPlugin(nodes, id, type) = GetPlugin(nodes, e.id, type)
         /\ LibraryOf(nodes, id, type) = GetPlugin(nodes, e.id, type)
<1> DEFINE m == PluginNode(e, lib)
           n == ConfigNode(id, m)
<1>1. m.id = e.id /\ m.type = e.type /\ m.sub = "plugin" /\ m.lib = lib
  BY DEF PluginNode
<1>2. n \in nodes /\ n.id = id /\ n.type = m.type /\ n.sub = "config" /\ n.parent = m.id
  BY DEF ConfigNode
<1>3. /\ Find(nodes, e.id) = m
      /\ GetPlugin(nodes, e.id, type) = IF e.type = type THEN lib ELSE "wrong type"
  BY PluginIsFound
<1> HIDE DEF m, n
<1>4. Has(nodes, id) /\ Find(nodes, id) = n
  BY <1>2, FindIsThe
<1>5. ParentOf(nodes, id) = e.id
  BY <1>1, <1>2, <1>4 DEF ParentOf
<1>6. GetPlugin(nodes, id, type) = IF e.type = type THEN lib ELSE "wrong type"
  BY <1>1, <1>2, <1>3, <1>4 DEF GetPlugin
<1>7. LibraryOf(nodes, id, type) = GetPlugin(nodes, e.id, type)
  <2>1. e.id \notin {"not found", "undefined"}
    BY DEF NoLibrary
  <2> QED BY <1>5, <2>1 DEF LibraryOf
<1> QED BY <1>3, <1>5, <1>6, <1>7

\* A library that is found for the id of a configuration offers it.
LEMMA LibraryOffers ==
  ASSUME NEW nodes, NEW o \in Offers, NodesOk(nodes, o), NEW id, NEW type
  PROVE  LET lib == LibraryOf(nodes, id, type)
             p == ParentOf(nodes, id)
         IN  /\ lib \in NoLibrary \/ lib \in Libraries
             /\ lib \notin NoLibrary =>
                  /\ p \notin NoLibrary /\ lib = GetPlugin(nodes, p, type)
                  /\ \E e \in o[lib] : e.type = type /\ id \in Range(e.configs)
<1> DEFINE lib == LibraryOf(nodes, id, type)
           p == ParentOf(nodes, id)
           n == Find(nodes, id)
<1>1. CASE ~Has(nodes, id)
  BY <1>1 DEF LibraryOf, ParentOf, NoLibrary
<1>2. CASE Has(nodes, id) /\ n.sub = "root"
  BY <1>2 DEF LibraryOf, ParentOf, NoLibrary
<1>3. CASE Has(nodes, id) /\ n.sub # "root"
  <2>1. n \in nodes /\ n.id = id /\ p = n.parent
    BY <1>3 DEF Has, Find, ParentOf
  <2>2. n \notin Roots
    <3>1. \A m \in Roots : m.sub = "root"
      BY DEF Roots
    <3> QED BY <1>3, <3>1
  <2>3. IsPluginNode(n, o) \/ IsConfigNode(nodes, n, o)
    BY <2>1, <2>2 DEF NodesOk
  <2>4. CASE IsPluginNode(n, o)
    <3>1. PICK l \in Libraries : \E e \in o[l] : n = PluginNode(e, l)
      BY <2>4 DEF IsPluginNode
    <3>2. PICK e \in o[l] : n = PluginNode(e, l)
      BY <3>1
    <3>3. e.type \in Types
      BY <3>1, <3>2, OffersAssumption
    <3> DEFINE r == [id |-> RootOf(e.type), type |-> e.type, sub |-> "root",
                     parent |-> None, lib |-> None]
    <3>4. r \in Roots /\ r.id = p /\ r.sub = "root" /\ r.type = e.type
      <4>1. p = RootOf(e.type)
        BY <2>1, <3>2 DEF PluginNode
      <4> QED BY <3>3, <4>1 DEF Roots
    <3> HIDE DEF r
    <3>5. Has(nodes, p) /\ Find(nodes, p) = r
      BY <3>4, FindIsThe DEF NodesOk
    <3>6. p \notin NoLibrary
      BY <2>1, <3>2, <3>3, RootsAssumption DEF PluginNode, RootOf
    <3>7. GetPlugin(nodes, p, type) \in NoLibrary
      BY <3>4, <3>5 DEF GetPlugin, NoLibrary
    <3> QED BY <3>6, <3>7 DEF LibraryOf, NoLibrary
  <2>5. CASE IsConfigNode(nodes, n, o)
    <3>1. PICK l \in Libraries : \E e \in o[l] : IsConfigOf(nodes, n, l, e)
      BY <2>5 DEF IsConfigNode
    <3>2. PICK e \in o[l] : IsConfigOf(nodes, n, l, e)
      BY <3>1
    <3>3. PluginNode(e, l) \in nodes /\ id \in Range(e.configs)
          /\ ConfigNode(id, PluginNode(e, l)) \in nodes
      BY <2>1, <3>2 DEF IsConfigOf
    <3>4. e.id \notin NoLibrary /\ l \notin NoLibrary
      BY <3>1, <3>2, OffersAssumption, LibrariesAssumption
    <3>5. GetPlugin(nodes, e.id, type) = IF e.type = type THEN l ELSE "wrong type"
      BY <3>3, PluginIsFound
    <3>6. p = e.id /\ lib = GetPlugin(nodes, e.id, type)
      BY <3>3, <3>4, ConfigIsFound
    <3> QED BY <3>1, <3>2, <3>3, <3>4, <3>5, <3>6 DEF NoLibrary
  <2> QED BY <2>3, <2>4, <2>5
<1> QED BY <1>1, <1>2, <1>3

\* A library that is found for the id of a commission or a slippage, which is never that
\* of a root, offers it, unless it is the id of the plugin itself.
IdOfNoRoot(id) == \A t \in Types : id # RootIds[t]
IsIdOfPlugin(nodes, id) == Find(nodes, id).sub = "plugin"
LEMMA DefaultLibraryOffers ==
  ASSUME NEW nodes, NEW o \in Offers, NodesOk(nodes, o), NEW type, NEW id, IdOfNoRoot(id),
         GetPlugin(nodes, id, type) \in Libraries, ~IsIdOfPlugin(nodes, id)
  PROVE  \E e \in o[GetPlugin(nodes, id, type)] : e.type = type /\ id \in Range(e.configs)
<1> DEFINE lib == GetPlugin(nodes, id, type)
           n == Find(nodes, id)
<1>1. lib \notin NoLibrary
  BY LibrariesAssumption
<1>2. Has(nodes, id)
  BY <1>1 DEF GetPlugin, NoLibrary
<1>3. n \in nodes /\ n.id = id
  BY <1>2 DEF Has, Find
<1>4. n \notin Roots
  <2>1. \A m \in Roots : \E t \in Types : m.id = RootIds[t]
    BY DEF Roots, RootOf
  <2> QED BY <1>3, <2>1 DEF IdOfNoRoot
<1>5. IsConfigNode(nodes, n, o)
  <2>1. \A l \in Libraries : \A e \in o[l] : PluginNode(e, l).sub = "plugin"
    BY DEF PluginNode
  <2> QED BY <1>3, <1>4, <2>1 DEF NodesOk, IsPluginNode, IsIdOfPlugin
<1>6. PICK l \in Libraries : \E e \in o[l] : IsConfigOf(nodes, n, l, e)
  BY <1>5 DEF IsConfigNode
<1>7. PICK e \in o[l] : IsConfigOf(nodes, n, l, e)
  BY <1>6
<1>8. PluginNode(e, l) \in nodes /\ id \in Range(e.configs)
      /\ ConfigNode(id, PluginNode(e, l)) \in nodes
  BY <1>3, <1>7 DEF IsConfigOf
<1>9. e.id \notin NoLibrary
  BY <1>6, <1>7, OffersAssumption
<1>10. GetPlugin(nodes, e.id, type) = IF e.type = type THEN l ELSE "wrong type"
  <2>1. PluginNode(e, l) \in nodes
    BY <1>8
  <2> QED BY <2>1, PluginIsFound
<1>11. lib = GetPlugin(nodes, e.id, type)
  BY <1>8, <1>9, ConfigIsFound
<1>12. lib = l /\ e.type = type
  BY <1>1, <1>10, <1>11 DEF NoLibrary
<1> QED BY <1>7, <1>8, <1>12

\* A plugin that is added leaves a tree a tree, and takes nothing from it.
LEMMA AddPluginAdds ==
  ASSUME NEW o \in Offers, NEW found, NodesOk(found.nodes, o),
         NEW lib \in Libraries, NEW e \in o[lib]
  PROVE  LET now == AddPlugin(found, e, lib)
         IN  /\ NodesOk(now.nodes, o) /\ found.nodes \subseteq now.nodes
             /\ found.duplicates \subseteq now.duplicates
             /\ Added(now.nodes, now.duplicates, lib, e)
<1> DEFINE now == AddPlugin(found, e, lib)
           node == PluginNode(e, lib)
           nodes == found.nodes \cup {node}
           ids == Range(e.configs)
           configs == {ConfigNode(id, node) : id \in {i \in ids : ~Has(nodes, i)}}
<1>1. CASE e.id \in Unauthorized
  BY <1>1 DEF AddPlugin, Added
<1>2. CASE e.id \notin Unauthorized /\ Has(found.nodes, e.id)
  <2>1. now = [found EXCEPT !.duplicates = @ \cup {e.id}]
    BY <1>2 DEF AddPlugin
  <2> QED BY <1>2, <2>1 DEF Added
<1>3. CASE e.id \notin Unauthorized /\ ~Has(found.nodes, e.id)
  <2>1. /\ now.nodes = nodes \cup configs
        /\ found.duplicates \subseteq now.duplicates
        /\ \A id \in ids : Has(nodes, id) => id \in now.duplicates
    BY <1>3 DEF AddPlugin
  <2> HIDE DEF now
  <2>2. node.id = e.id /\ \A id : ConfigNode(id, node).id = id
    BY DEF PluginNode, ConfigNode
  <2>3. \A n \in found.nodes : n \in Roots \/ IsPluginNode(n, o) \/ IsConfigNode(now.nodes, n, o)
    BY <2>1 DEF NodesOk, IsConfigNode, IsConfigOf
  <2>4. IsPluginNode(node, o)
    BY DEF IsPluginNode
  <2>5. ASSUME NEW n \in configs PROVE IsConfigNode(now.nodes, n, o)
    <3>1. PICK id \in ids : n = ConfigNode(id, node)
      OBVIOUS
    <3>2. IsConfigOf(now.nodes, n, lib, e)
      BY <2>1, <2>2, <3>1 DEF IsConfigOf
    <3> QED BY <3>2 DEF IsConfigNode
  <2>6. ASSUME NEW n \in now.nodes, NEW m \in now.nodes, n.id = m.id PROVE n = m
    <3>1. \A x \in nodes, y \in nodes : x.id = y.id => x = y
      BY <1>3, <2>2 DEF Has, NodesOk
    <3>2. \A x \in configs : ~Has(nodes, x.id) /\ x = ConfigNode(x.id, node)
      BY <2>2
    <3>3. \A x \in configs, y \in nodes : x.id # y.id
      BY <3>2 DEF Has
    <3> HIDE DEF configs, nodes
    <3> QED BY <2>1, <2>6, <3>1, <3>2, <3>3
  <2>7. NodesOk(now.nodes, o)
    <3>1. Roots \subseteq now.nodes
      BY <2>1 DEF NodesOk
    <3> HIDE DEF configs, node
    <3> QED BY <2>1, <2>3, <2>4, <2>5, <2>6, <3>1 DEF NodesOk
  <2>8. \A id \in ids : id \in now.duplicates \/ ConfigNode(id, node) \in now.nodes
    BY <2>1
  <2>9. Added(now.nodes, now.duplicates, lib, e)
    BY <2>1, <2>8 DEF Added
  <2> QED BY <2>1, <2>7, <2>9 DEF now
<1> QED BY <1>1, <1>2, <1>3

LEMMA AddedStays ==
  ASSUME NEW nodes, NEW again, NEW lib, NEW e, Added(nodes, again, lib, e),
         NEW nodes2, NEW again2, nodes \subseteq nodes2, again \subseteq again2
  PROVE  Added(nodes2, again2, lib, e)
BY DEF Added

LEMMA TreeInit == PluginsInit => TreeInv
<1> SUFFICES ASSUME PluginsInit PROVE TreeInv
  OBVIOUS
<1>1. \A t \in Trees : path[t] \in Seq(Libraries)
  BY LibrariesAssumption DEF PluginsInit
<1>2. \A t \in Trees : todo[t] = ToTry(path[t]) /\ tree[t] = Roots
  BY DEF PluginsInit
<1>3. \A t \in Trees : /\ todo[t] \in Seq(Libraries \X Types)
                       /\ \A lib \in Range(path[t]), type \in Types :
                            <<lib, type>> \in Range(todo[t])
  BY <1>1, <1>2, ToTryIsAll
<1>4. \A t \in Trees : Range(path[t]) \subseteq Libraries
  BY <1>1 DEF Range
<1>5. InputInv
  BY <1>2, <1>3 DEF PluginsInit, InputInv
<1>6. NodesInv
  <2>1. \A n, m \in Roots : n.id = m.id => n = m
    BY RootsAssumption DEF Roots, RootOf
  <2> QED BY <1>2, <2>1 DEF NodesInv, NodesOk
<1>7. TriedInv
  BY <1>3, <1>4, <1>5, OffersAssumption DEF TriedInv, InputInv
<1> QED BY <1>5, <1>6, <1>7 DEF TreeInv

LEMMA TreeProcess ==
  ASSUME TreeInv, NEW t \in Trees, Process(t)
  PROVE  TreeInv'
<1> DEFINE lib == Head(todo[t])[1]
           type == Head(todo[t])[2]
           export == {e \in offer[lib] : lib \notin Ignored /\ e.type = type}
           found == [nodes |-> tree[t], duplicates |-> duplicates[t]]
           now == IF export = {} THEN found
                  ELSE AddPlugin(found, CHOOSE e \in export : TRUE, lib)
<1>1. /\ tree' = [tree EXCEPT ![t] = now.nodes]
      /\ duplicates' = [duplicates EXCEPT ![t] = now.duplicates]
      /\ todo' = [todo EXCEPT ![t] = Tail(@)] /\ todo[t] # <<>>
      /\ UNCHANGED <<path, offer, document>>
  BY DEF Process
<1>2. /\ todo[t] \in Seq(Libraries \X Types) /\ lib \in Libraries /\ type \in Types
      /\ Head(todo[t]) = <<lib, type>> /\ Tail(todo[t]) \in Seq(Libraries \X Types)
      /\ \A x \in Range(todo[t]) : x = <<lib, type>> \/ x \in Range(Tail(todo[t]))
  <2>1. todo[t] \in Seq(Libraries \X Types) /\ todo[t] # <<>>
    BY <1>1 DEF TreeInv, InputInv
  <2>2. /\ Head(todo[t]) \in Libraries \X Types /\ Tail(todo[t]) \in Seq(Libraries \X Types)
        /\ \A x \in Range(todo[t]) : x = Head(todo[t]) \/ x \in Range(Tail(todo[t]))
    BY <2>1, HeadTailRange
  <2> QED BY <2>1, <2>2
<1>3. NodesOk(found.nodes, offer) /\ offer \in Offers
  BY DEF TreeInv, NodesInv, InputInv
<1>4. /\ NodesOk(now.nodes, offer) /\ tree[t] \subseteq now.nodes
      /\ duplicates[t] \subseteq now.duplicates
      /\ \A e \in export : Added(now.nodes, now.duplicates, lib, e)
  <2>1. CASE export = {}
    BY <1>3, <2>1
  <2>2. CASE export # {}
    <3>1. PICK e \in export : e = CHOOSE x \in export : TRUE
      BY <2>2
    <3>2. e \in offer[lib] /\ e.type = type /\ \A f \in export : f = e
      BY <1>2, <1>3, <3>1, OffersAssumption
    <3>3. now = AddPlugin(found, e, lib)
      BY <2>2, <3>1
    <3> HIDE DEF now, export, found, lib, type
    <3>4. found.nodes = tree[t] /\ found.duplicates = duplicates[t]
      BY DEF found
    <3>5. /\ NodesOk(now.nodes, offer) /\ found.nodes \subseteq now.nodes
          /\ found.duplicates \subseteq now.duplicates
          /\ Added(now.nodes, now.duplicates, lib, e)
      BY <1>2, <1>3, <3>2, <3>3, AddPluginAdds
    <3> QED BY <3>2, <3>4, <3>5
  <2> QED BY <2>1, <2>2
<1>5. /\ \A s \in Trees : tree'[s] = IF s = t THEN now.nodes ELSE tree[s]
      /\ \A s \in Trees : duplicates'[s] = IF s = t THEN now.duplicates ELSE duplicates[s]
      /\ \A s \in Trees : todo'[s] = IF s = t THEN Tail(todo[t]) ELSE todo[s]
      /\ tree' = [s \in Trees |-> tree'[s]] /\ duplicates' = [s \in Trees |-> duplicates'[s]]
  <2> HIDE DEF now
  <2> QED BY <1>1 DEF TreeInv, InputInv
<1> HIDE DEF now, lib, type
<1>6. InputInv'
  <2>1. todo' \in [Trees -> Seq(Libraries \X Types)]
    BY <1>1, <1>2 DEF TreeInv, InputInv
  <2> QED BY <1>1, <1>5, <2>1 DEF TreeInv, InputInv
<1>7. NodesInv'
  BY <1>1, <1>4, <1>5 DEF TreeInv, NodesInv
<1>8. TriedInv'
  <2> SUFFICES ASSUME NEW s \in Trees, NEW l \in Range(path[s]) \ Ignored, NEW e \in offer[l],
                      <<l, e.type>> \notin Range(todo'[s])
               PROVE  Added(tree'[s], duplicates'[s], l, e)
    BY <1>1 DEF TriedInv
  <2>1. <<l, e.type>> \in Range(todo[s]) \/ Added(tree[s], duplicates[s], l, e)
    BY DEF TreeInv, TriedInv
  <2>2. CASE s # t
    BY <1>5, <2>1, <2>2
  <2>3. CASE s = t /\ Added(tree[s], duplicates[s], l, e)
    BY <1>4, <1>5, <2>3, AddedStays
  <2>4. CASE s = t /\ <<l, e.type>> \in Range(todo[s])
    <3>1. <<l, e.type>> = <<lib, type>>
      BY <1>2, <1>5, <2>4
    <3>2. e \in export
      BY <3>1 DEF lib, type
    <3> QED BY <1>4, <1>5, <2>4, <3>1, <3>2
  <2> QED BY <2>1, <2>2, <2>3, <2>4
<1> QED BY <1>6, <1>7, <1>8 DEF TreeInv

LEMMA TreeSame == ASSUME TreeInv, UNCHANGED <<treeVars, document>> PROVE TreeInv'
BY DEF TreeInv, InputInv, NodesInv, TriedInv, treeVars

\* Only a turn of the exploration changes the trees.
LEMMA OnlyProcess ==
  ASSUME PluginsNext, \A t \in Trees : ~Process(t)
  PROVE  UNCHANGED <<treeVars, document>>
BY DEF PluginsNext, Explored, Start, CheckDocument, CreateDataSource, CreateSymbolsSource,
       CreateSignalHandler, CreateContext, CreateRunnablePlugin, RunnablePluginsCreated,
       CreateCommissionPlugin, CreateSlippagePlugin, CreateDefaultPlugin, CreateRunnable,
       Run, Release, Released, Destroy, Destroyed

LEMMA TreeNext == TreeInv /\ [PluginsNext]_pluginVars => TreeInv'
<1>1. ASSUME TreeInv, UNCHANGED pluginVars PROVE TreeInv'
  BY <1>1, TreeSame DEF pluginVars
<1>2. ASSUME TreeInv, PluginsNext PROVE TreeInv'
  BY <1>2, TreeProcess, TreeSame, OnlyProcess
<1> QED BY <1>1, <1>2

-----------------------------------------------------------------------------
(* What a session has *)

LEMMA AppendIs ==
  ASSUME NEW s, IsASeq(s), NEW x
  PROVE  /\ IsASeq(Append(s, x)) /\ Len(s) \in Nat /\ Len(Append(s, x)) = Len(s) + 1
         /\ DOMAIN s = 1 .. Len(s) /\ DOMAIN Append(s, x) = 1 .. Len(s) + 1
         /\ Append(s, x)[Len(s) + 1] = x /\ \A k \in 1 .. Len(s) : Append(s, x)[k] = s[k]
<1> DEFINE S == Range(s) \cup {x}
           r == Append(s, x)
<1>1. s \in Seq(Range(s)) /\ Range(s) \subseteq S /\ x \in S
  BY DEF IsASeq
<1>2. s \in Seq(S) /\ Len(s) \in Nat /\ DOMAIN s = 1 .. Len(s)
  <2>1. \A k \in 1 .. Len(s) : s[k] \in S
    BY <1>1
  <2> QED BY <1>1, <2>1
<1>3. /\ r \in Seq(S) /\ Len(r) = Len(s) + 1 /\ DOMAIN r = 1 .. Len(s) + 1
      /\ r[Len(s) + 1] = x /\ \A k \in 1 .. Len(s) : r[k] = s[k]
  BY <1>1, <1>2
<1>4. r \in Seq(Range(r))
  <2>1. \A k \in 1 .. Len(r) : r[k] \in Range(r)
    BY <1>3 DEF Range
  <2> QED BY <1>3, <2>1
<1> QED BY <1>2, <1>3, <1>4 DEF IsASeq

LEMMA ConcatOne ==
  ASSUME NEW s, IsASeq(s), NEW x
  PROVE  s \o <<>> = s /\ s \o <<x>> = Append(s, x)
<1> DEFINE S == Range(s) \cup {x}
<1>1. s \in Seq(Range(s)) /\ Range(s) \subseteq S /\ x \in S
  BY DEF IsASeq
<1>2. s \in Seq(S)
  <2>1. \A k \in 1 .. Len(s) : s[k] \in S
    BY <1>1
  <2> QED BY <1>1, <2>1
<1> QED BY <1>1, <1>2

LEMMA EmptyIsASeq == IsASeq(<<>>) /\ Len(<<>>) = 0 /\ DOMAIN <<>> = {}
<1>1. <<>> \in Seq({}) /\ Len(<<>>) = 0
  OBVIOUS
<1>2. DOMAIN <<>> = 1 .. Len(<<>>)
  BY <1>1
<1>3. 1 .. 0 = {}
  OBVIOUS
<1> QED BY <1>1, <1>2, <1>3 DEF IsASeq

\* The system of an instance is one of the document, and each of them is that of one.
LEMMA SystemsOfInstances ==
  ASSUME document \in Documents, document.runnables # <<>>
  PROVE  /\ Len(document.runnables) \in Nat \ {0} /\ Instances \in Nat
         /\ DOMAIN document.runnables = 1 .. Len(document.runnables)
         /\ Instances >= Len(document.runnables)
         /\ document.oneSystemInMultipleThreads => Instances >= document.threads
         /\ \A n \in 1 .. Instances :
              \E k \in DOMAIN document.runnables : SystemOf(n) = document.runnables[k]
         /\ \A k \in DOMAIN document.runnables : SystemOf(k) = document.runnables[k]
<1> DEFINE s == document.runnables
           L == Len(document.runnables)
<1>1. s \in Seq(Range(s)) /\ document.threads \in Nat
  BY DocumentsAssumption
<1>2. L \in Nat \ {0} /\ DOMAIN s = 1 .. L
  BY <1>1
<1>3. /\ Instances \in Nat /\ Instances >= L
      /\ document.oneSystemInMultipleThreads => Instances >= document.threads
  BY <1>1, <1>2 DEF Instances
<1> HIDE DEF L
<1>4. ASSUME NEW n \in 1 .. Instances
      PROVE  ((n - 1) % L) + 1 \in 1 .. L
  <2>1. n - 1 \in Int
    BY <1>3
  <2>2. (n - 1) % L \in 0 .. L - 1
    BY <1>2, <2>1
  <2> QED BY <1>2, <2>2
<1>5. ASSUME NEW k \in 1 .. L
      PROVE  (k - 1) % L = k - 1
  BY <1>2
<1> QED BY <1>2, <1>3, <1>4, <1>5 DEF SystemOf, L

LEMMA SessionInit == PluginsInit => IInv
<1> SUFFICES ASSUME PluginsInit PROVE IInv
  OBVIOUS
<1>1. SessionTypeInv
  <2>1. plugin \in [Types \ {"runnable"} -> Libraries \cup {None}]
    BY DEF PluginsInit
  <2>5. count \in [ContextTypes -> Int]
    <3>1. count = [c \in ContextTypes |-> 0]
      BY DEF PluginsInit
    <3> QED BY <3>1
  <2>6. at \in Nat \ {0}
    <3>1. at = 1
      BY DEF PluginsInit
    <3> QED BY <3>1
  <2>3. object = [c \in ContextTypes |-> object[c]]
    BY DEF PluginsInit
  <2>4. handlers = [c \in ContextTypes |-> handlers[c]]
    BY DEF PluginsInit
  <2>2. runnables = <<>> /\ commissions = <<>> /\ slippages = <<>>
    BY DEF PluginsInit
  <2> QED BY <2>1, <2>2, <2>3, <2>4, <2>5, <2>6, EmptyIsASeq DEF SessionTypeInv
<1>2. ContextInv
  BY DEF PluginsInit, ContextInv, ContextTypes
<1>3. /\ OwnInv("commission", commissions) /\ OwnInv("slippage", slippages)
      /\ DefaultPluginsInv /\ RunnablePluginsInv /\ RunnablesInv
  <2>1. /\ runnables = <<>> /\ commissions = <<>> /\ slippages = <<>> /\ runnablePlugins = <<>>
        /\ \A c \in {"commission", "slippage"} : plugin[c] = None
    BY TypesAre DEF PluginsInit
  <2> QED BY <2>1, EmptyIsASeq
          DEF OwnInv, DefaultPluginsInv, RunnablePluginsInv, RunnablesInv
<1>4. IteratorsInv
  <2>1. iterators = <<>> /\ DOMAIN iterators = {}
    BY EmptyIsASeq DEF PluginsInit
  <2> QED BY <2>1, FS_EmptySet DEF IteratorsInv
<1>5. NothingYet
  BY TypesAre DEF PluginsInit, NothingYet, ContextTypes
<1>6. StartInv /\ ReleaseInv /\ DestroyInv
  BY DEF PluginsInit, StartInv, ReleaseInv, DestroyInv, Made, Starting, UpTo, Beginning, ContextTypes
<1> QED BY <1>1, <1>2, <1>3, <1>4, <1>5, <1>6, TreeInit DEF IInv, ObjectsInv, StepsInv

-----------------------------------------------------------------------------
(* What the actions share *)

\* What an action leaves alone.
LEMMA ContextFrame ==
  ASSUME ContextInv, UNCHANGED <<treeVars, document, contextVars>>
  PROVE  ContextInv'
BY DEF ContextInv, ObjectOf, Offered, treeVars, contextVars

LEMMA DefaultFrame ==
  ASSUME DefaultPluginsInv, UNCHANGED <<treeVars, document, plugin>>
  PROVE  DefaultPluginsInv'
BY DEF DefaultPluginsInv, treeVars

LEMMA OwnFrame ==
  ASSUME UNCHANGED <<treeVars, document, plugin>>
  PROVE  /\ OwnInv("commission", commissions) /\ UNCHANGED commissions =>
              OwnInv("commission", commissions)'
         /\ OwnInv("slippage", slippages) /\ UNCHANGED slippages =>
              OwnInv("slippage", slippages)'
BY DEF OwnInv, ObjectOf, Offered, treeVars

LEMMA RunnableFrame ==
  ASSUME RunnablePluginsInv, RunnablesInv, IteratorsInv,
         UNCHANGED <<treeVars, runnablePlugins, runnables, iterators>>
  PROVE  RunnablePluginsInv' /\ RunnablesInv' /\ IteratorsInv'
BY DEF RunnablePluginsInv, RunnablesInv, IteratorsInv, Offered, treeVars

LEMMA TypeFrame ==
  ASSUME SessionTypeInv, UNCHANGED <<contextVars, runnables, commissions, slippages>>,
         at' \in Nat \ {0}
  PROVE  SessionTypeInv'
BY DEF SessionTypeInv, contextVars, IsASeq

LEMMA ContextTypeFrame ==
  ASSUME SessionTypeInv, UNCHANGED <<runnables, commissions, slippages>>,
         plugin' \in [Types \ {"runnable"} -> Libraries \cup {None}],
         object' = [c \in ContextTypes |-> object'[c]], count' \in [ContextTypes -> Int],
         handlers' = [c \in ContextTypes |-> handlers'[c]], at' \in Nat \ {0}
  PROVE  SessionTypeInv'
BY DEF SessionTypeInv, IsASeq

LEMMA SessionFrame ==
  ASSUME SessionTypeInv, ObjectsInv, UNCHANGED <<treeVars, document, contextVars, instanceVars>>,
         at' \in Nat \ {0}
  PROVE  SessionTypeInv' /\ ObjectsInv'
BY ContextFrame, DefaultFrame, OwnFrame, RunnableFrame, TypeFrame
   DEF ObjectsInv, instanceVars, contextVars

\* An exception, and what is undefined, leave the start.
LEMMA Leaves ==
  ASSUME step' \in {"destroy", "undefined"}, at' = 1
  PROVE  StepsInv'
<1>1. NothingYet'
  BY DEF NothingYet, UpTo, Beginning, ContextTypes
<1>2. StartInv'
  BY DEF StartInv, Made, Starting, UpTo, Beginning, ContextTypes
<1>3. ReleaseInv'
  BY DEF ReleaseInv
<1>4. DestroyInv'
  BY DEF DestroyInv
<1> QED BY <1>1, <1>2, <1>3, <1>4 DEF StepsInv

\* A member may go when nothing needs it any more.
MayDrop(what, c) ==
  /\ what = "iterators" => runnables = <<>>
  /\ what = "plugin" /\ c = "runnable" => runnables = <<>>
  /\ what = "plugin" /\ c = "commission" => commissions = <<>>
  /\ what = "plugin" /\ c = "slippage" => slippages = <<>>
  /\ what = "plugin" /\ c \in ContextTypes => object[c] = None
  /\ what = "object" => c \in ContextTypes /\ count[c] = 0
  /\ what \in {"instances", "iterators", "plugin", "object"} /\ c \in Types

LEMMA MayRelease ==
  ASSUME SessionTypeInv, ObjectsInv, NEW c \in ContextTypes, count[c] = 1, ReleaseCount(c),
         UNCHANGED <<treeVars, document, plugin, object, instanceVars>>, at' \in Nat \ {0}
  PROVE  /\ SessionTypeInv' /\ ObjectsInv'
         /\ count'[c] = 0 /\ \A d \in ContextTypes \ {c} : count'[d] = count[d]
<1>1. plugin[c] # None /\ object[c] # None /\ handlers[c] = {object[c]}
  BY LibrariesAssumption DEF ObjectsInv, ContextInv
<1>2. /\ count' = [count EXCEPT ![c] = @ - 1]
      /\ handlers' = [handlers EXCEPT ![c] = @ \ {object[c]}]
  BY <1>1 DEF ReleaseCount
<1>3. count'[c] = 0 /\ \A d \in ContextTypes \ {c} : count'[d] = count[d]
  BY <1>2 DEF SessionTypeInv
<1>4. handlers'[c] = {} /\ \A d \in ContextTypes \ {c} : handlers'[d] = handlers[d]
  BY <1>1, <1>2 DEF SessionTypeInv
<1>5. ContextInv'
  BY <1>3, <1>4 DEF ObjectsInv, ContextInv, ObjectOf, Offered, treeVars
<1>6. SessionTypeInv'
  <2>1. count' \in [ContextTypes -> Int]
    BY <1>2 DEF SessionTypeInv
  <2>2. handlers' = [d \in ContextTypes |-> handlers'[d]]
    BY <1>2 DEF SessionTypeInv
  <2> QED BY <2>1, <2>2 DEF SessionTypeInv, IsASeq, instanceVars
<1>7. /\ OwnInv("commission", commissions)' /\ OwnInv("slippage", slippages)'
      /\ DefaultPluginsInv' /\ RunnablePluginsInv' /\ RunnablesInv' /\ IteratorsInv'
  BY DefaultFrame, OwnFrame, RunnableFrame DEF ObjectsInv, instanceVars
<1> QED BY <1>3, <1>5, <1>6, <1>7 DEF ObjectsInv

LEMMA MayDropIt ==
  ASSUME SessionTypeInv, ObjectsInv, NEW what, NEW c, MayDrop(what, c), Drop(what, c),
         UNCHANGED <<treeVars, document, count, handlers>>, at' \in Nat \ {0}
  PROVE  SessionTypeInv' /\ ObjectsInv'
<1>1. CASE what = "instances"
  <2>1. /\ UNCHANGED <<contextVars, iterators, runnablePlugins>>
        /\ runnables' = runnables \/ runnables' = <<>>
        /\ commissions' = commissions \/ commissions' = <<>>
        /\ slippages' = slippages \/ slippages' = <<>>
    BY <1>1 DEF Drop, contextVars
  <2>2. ContextInv' /\ DefaultPluginsInv'
    BY <2>1, ContextFrame, DefaultFrame DEF ObjectsInv, contextVars
  <2>3. OwnInv("commission", commissions)' /\ OwnInv("slippage", slippages)'
    BY <2>1, EmptyIsASeq DEF ObjectsInv, OwnInv, ObjectOf, Offered, treeVars, contextVars
  <2>4. RunnablePluginsInv' /\ RunnablesInv' /\ IteratorsInv'
    BY <2>1, EmptyIsASeq
       DEF ObjectsInv, RunnablePluginsInv, RunnablesInv, IteratorsInv, Offered, treeVars
  <2>5. SessionTypeInv'
    BY <2>1, EmptyIsASeq DEF SessionTypeInv, contextVars, IsASeq
  <2> QED BY <2>2, <2>3, <2>4, <2>5 DEF ObjectsInv
<1>2. CASE what = "iterators"
  <2>1. /\ UNCHANGED <<contextVars, runnables, commissions, slippages, runnablePlugins>>
        /\ iterators' = <<>> /\ runnables = <<>>
    BY <1>2 DEF Drop, MayDrop, contextVars
  <2>2. ContextInv' /\ DefaultPluginsInv'
    BY <2>1, ContextFrame, DefaultFrame DEF ObjectsInv, contextVars
  <2>3. OwnInv("commission", commissions)' /\ OwnInv("slippage", slippages)'
    BY <2>1, OwnFrame DEF ObjectsInv, contextVars
  <2>4. RunnablePluginsInv' /\ RunnablesInv'
    BY <2>1, EmptyIsASeq DEF ObjectsInv, RunnablePluginsInv, RunnablesInv, treeVars
  <2>5. IteratorsInv'
    BY <2>1, EmptyIsASeq, FS_EmptySet DEF IteratorsInv
  <2> QED BY <2>1, <2>2, <2>3, <2>4, <2>5, TypeFrame DEF ObjectsInv
<1>3. CASE what = "plugin" /\ c = "runnable"
  <2>1. /\ UNCHANGED <<contextVars, runnables, commissions, slippages, iterators>>
        /\ runnablePlugins' = <<>> /\ runnables = <<>>
    BY <1>3 DEF Drop, MayDrop, contextVars
  <2>2. ContextInv' /\ DefaultPluginsInv'
    BY <2>1, ContextFrame, DefaultFrame DEF ObjectsInv, contextVars
  <2>3. OwnInv("commission", commissions)' /\ OwnInv("slippage", slippages)'
    BY <2>1, OwnFrame DEF ObjectsInv, contextVars
  <2>4. RunnablePluginsInv' /\ RunnablesInv'
    BY <2>1, EmptyIsASeq DEF RunnablePluginsInv, RunnablesInv
  <2>5. IteratorsInv'
    BY <2>1 DEF ObjectsInv, IteratorsInv
  <2> QED BY <2>1, <2>2, <2>3, <2>4, <2>5, TypeFrame DEF ObjectsInv
<1>4. CASE what = "plugin" /\ c # "runnable"
  <2>1. /\ UNCHANGED <<object, count, handlers, instanceVars>>
        /\ plugin' = [plugin EXCEPT ![c] = None]
    BY <1>4 DEF Drop, instanceVars
  <2>2. /\ plugin' \in [Types \ {"runnable"} -> Libraries \cup {None}] /\ plugin'[c] = None
        /\ \A d \in Types \ {"runnable", c} : plugin'[d] = plugin[d]
    BY <1>4, <2>1 DEF SessionTypeInv, MayDrop
  <2>3. ContextInv'
    <3>1. \A d \in ContextTypes : d \in Types \ {"runnable"}
      BY TypesAre DEF ContextTypes
    <3>2. \A d \in ContextTypes : plugin'[d] = plugin[d] \/ object[d] = None
      BY <1>4, <2>2, <3>1 DEF MayDrop
    <3>3. ContextInv /\ UNCHANGED <<offer, document, object, count, handlers>>
      BY <2>1 DEF ObjectsInv, treeVars
    <3> QED BY <3>2, <3>3 DEF ContextInv, ObjectOf, Offered
  <2>4. DefaultPluginsInv'
    <3>1. \A d \in {"commission", "slippage"} : plugin'[d] = None \/ plugin'[d] = plugin[d]
      BY <2>2, TypesAre
    <3> QED BY <3>1 DEF ObjectsInv, DefaultPluginsInv, treeVars
  <2>5. OwnInv("commission", commissions)' /\ OwnInv("slippage", slippages)'
    <3>1. plugin'["commission"] = plugin["commission"] \/ commissions = <<>>
      BY <1>4, <2>2, TypesAre DEF MayDrop
    <3>2. plugin'["slippage"] = plugin["slippage"] \/ slippages = <<>>
      BY <1>4, <2>2, TypesAre DEF MayDrop
    <3> QED BY <2>1, <3>1, <3>2, EmptyIsASeq
            DEF ObjectsInv, OwnInv, ObjectOf, Offered, treeVars, instanceVars
  <2>6. RunnablePluginsInv' /\ RunnablesInv' /\ IteratorsInv'
    BY <2>1, RunnableFrame DEF ObjectsInv, instanceVars
  <2>7. SessionTypeInv'
    BY <2>1, <2>2 DEF SessionTypeInv, instanceVars, IsASeq
  <2> QED BY <2>3, <2>4, <2>5, <2>6, <2>7 DEF ObjectsInv
<1>5. CASE what = "object"
  <2>1. /\ UNCHANGED <<plugin, count, handlers, instanceVars>>
        /\ object' = [object EXCEPT ![c] = None] /\ count[c] = 0
    BY <1>5 DEF Drop, MayDrop, instanceVars
  <2>2. object'[c] = None /\ \A d \in ContextTypes \ {c} : object'[d] = object[d]
    BY <1>5, <2>1 DEF SessionTypeInv, MayDrop
  <2>3. ContextInv'
    BY <2>1, <2>2 DEF ObjectsInv, ContextInv, ObjectOf, Offered, treeVars
  <2>4. /\ OwnInv("commission", commissions)' /\ OwnInv("slippage", slippages)'
        /\ DefaultPluginsInv' /\ RunnablePluginsInv' /\ RunnablesInv' /\ IteratorsInv'
    BY <2>1, DefaultFrame, OwnFrame, RunnableFrame DEF ObjectsInv, instanceVars
  <2>5. SessionTypeInv'
    <3>1. object' = [d \in ContextTypes |-> object'[d]]
      BY <2>1 DEF SessionTypeInv
    <3> QED BY <2>1, <3>1 DEF SessionTypeInv, instanceVars, IsASeq
  <2> QED BY <2>3, <2>4, <2>5 DEF ObjectsInv
<1> QED BY <1>1, <1>2, <1>3, <1>4, <1>5 DEF MayDrop

-----------------------------------------------------------------------------
(* The actions, one by one *)

SessionInv == SessionTypeInv /\ ObjectsInv /\ StepsInv

\* While the trees are filled the session has nothing.
LEMMA ProcessKeeps ==
  ASSUME IInv, NEW t \in Trees, Process(t)
  PROVE  SessionInv'
<1>1. step \in Beginning /\ UNCHANGED <<offer, document, step, at, contextVars, instanceVars>>
  BY DEF Process, Exploring, Beginning
<1>2. /\ \A c \in ContextTypes : count[c] = 0 /\ object[c] = None
      /\ \A c \in {"commission", "slippage"} : plugin[c] = None
      /\ runnables = <<>> /\ commissions = <<>> /\ slippages = <<>> /\ runnablePlugins = <<>>
  BY <1>1 DEF IInv, StepsInv, NothingYet, UpTo, ContextTypes
<1>3. SessionTypeInv'
  BY <1>1, TypeFrame DEF IInv, SessionTypeInv, instanceVars
<1>4. ContextInv'
  BY <1>1, <1>2 DEF IInv, ObjectsInv, ContextInv, contextVars
<1>5. OwnInv("commission", commissions)' /\ OwnInv("slippage", slippages)'
  BY <1>1, <1>2, EmptyIsASeq DEF OwnInv, instanceVars
<1>6. DefaultPluginsInv'
  BY <1>1, <1>2 DEF DefaultPluginsInv, contextVars
<1>7. RunnablePluginsInv' /\ RunnablesInv'
  BY <1>1, <1>2, EmptyIsASeq DEF RunnablePluginsInv, RunnablesInv, instanceVars
<1>8. IteratorsInv'
  BY <1>1 DEF IInv, ObjectsInv, IteratorsInv, instanceVars
<1>9. NothingYet'
  BY <1>1 DEF IInv, StepsInv, NothingYet, contextVars, instanceVars
<1>10. StartInv' /\ ReleaseInv' /\ DestroyInv'
  BY <1>1 DEF StartInv, ReleaseInv, DestroyInv, Made, Starting, UpTo, Beginning, ContextTypes
<1> QED BY <1>3, <1>4, <1>5, <1>6, <1>7, <1>8, <1>9, <1>10 DEF ObjectsInv, StepsInv, SessionInv

LEMMA ExploredKeeps ==
  ASSUME IInv, NEW t \in Trees, Explored(t)
  PROVE  SessionInv'
<1>1. /\ step \in Beginning /\ step' \in Beginning /\ at' = at
      /\ UNCHANGED <<treeVars, document, contextVars, instanceVars>>
  BY DEF Explored, Exploring, Beginning
<1>2. SessionTypeInv' /\ ObjectsInv'
  BY <1>1, SessionFrame DEF IInv, SessionTypeInv
<1>3. NothingYet'
  BY <1>1 DEF IInv, StepsInv, NothingYet, UpTo, ContextTypes, contextVars, instanceVars
<1>4. StartInv' /\ ReleaseInv' /\ DestroyInv'
  BY <1>1 DEF StartInv, ReleaseInv, DestroyInv, Made, Starting, UpTo, Beginning, ContextTypes
<1> QED BY <1>2, <1>3, <1>4 DEF StepsInv, SessionInv

LEMMA CheckDocumentKeeps ==
  ASSUME IInv, CheckDocument
  PROVE  SessionInv'
<1>1. /\ step = "start" /\ at' = 1
      /\ UNCHANGED <<treeVars, document, contextVars, instanceVars>>
  BY DEF CheckDocument, Throw, Go
<1>2. SessionTypeInv' /\ ObjectsInv'
  BY <1>1, SessionFrame DEF IInv
<1>3. CASE step' = "destroy"
  BY <1>1, <1>2, <1>3, Leaves DEF SessionInv
<1>4. CASE step' = "dataSource"
  <2>1. document.dataSource # None /\ document.symbolsSource # None /\ document.runnables # <<>>
    BY <1>4 DEF CheckDocument, Throw, Go
  <2>2. NothingYet'
    BY <1>1, <1>4
       DEF IInv, StepsInv, NothingYet, UpTo, Beginning, ContextTypes, contextVars, instanceVars
  <2>3. StartInv' /\ ReleaseInv' /\ DestroyInv'
    BY <1>1, <1>4, <2>1
       DEF StartInv, ReleaseInv, DestroyInv, Made, Starting, UpTo, Beginning, ContextTypes
  <2> QED BY <1>2, <2>2, <2>3 DEF StepsInv, SessionInv
<1> QED BY <1>3, <1>4 DEF CheckDocument, Throw, Go

LEMMA BeforeTheFirst ==
  ASSUME document \in Documents, document.runnables # <<>>,
         NEW k \in DOMAIN document.runnables
  PROVE  ~(k < 1)
<1>1. Len(document.runnables) \in Nat /\ k \in 1 .. Len(document.runnables)
  BY SystemsOfInstances
<1> QED BY <1>1

\* The contexts, and the steps in which they are made.
InOrder(c, next) ==
  \/ c = "dataSource" /\ next = "symbolsSource"
  \/ c = "symbolsSource" /\ next = "signalHandler"
  \/ c = "signalHandler" /\ next = "system plugins"

\* The steps around the making of a context.
LEMMA ContextStep ==
  ASSUME document \in Documents, NothingYet, StartInv, NEW c, NEW next,
         InOrder(c, next),
         step = c, step' = next, at' = 1,
         count'[c] = IF document[c] = None THEN 0 ELSE 1,
         \A d \in ContextTypes \ {c} : /\ count'[d] = count[d] /\ object'[d] = object[d]
                                       /\ plugin'[d] = plugin[d],
         \A d \in {"commission", "slippage"} : plugin'[d] = plugin[d],
         UNCHANGED <<treeVars, document, instanceVars>>
  PROVE  StepsInv'
<1>1. NothingYet'
  <2>1. runnablePlugins' = <<>>
    BY DEF NothingYet, UpTo, Beginning, ContextTypes, InOrder, instanceVars
  <2>2. runnables' = <<>> /\ commissions' = <<>> /\ slippages' = <<>>
    BY DEF NothingYet, UpTo, Beginning, ContextTypes, InOrder, instanceVars
  <2>3. \A d \in {"commission", "slippage"} : step' \in UpTo(d) => plugin'[d] = None
    <3>1. \A d \in {"commission", "slippage"} : step \in UpTo(d)
      BY DEF UpTo, Beginning, ContextTypes, InOrder
    <3>2. \A d \in {"commission", "slippage"} : plugin[d] = None
      BY <3>1 DEF NothingYet
    <3>3. \A d \in {"commission", "slippage"} : plugin'[d] = None
      BY <3>2
    <3> QED BY <3>3
  <2>4. \A d \in ContextTypes :
          step' \in UpTo(d) => count'[d] = 0 /\ object'[d] = None /\ plugin'[d] = None
    BY DEF NothingYet, UpTo, Beginning, ContextTypes, InOrder
  <2> QED BY <2>1, <2>2, <2>3, <2>4 DEF NothingYet
<1>2. StartInv'
  <2>1. document'.dataSource # None /\ document'.symbolsSource # None /\ document'.runnables # <<>>
    BY DEF StartInv, Made, Starting, UpTo, Beginning, ContextTypes, InOrder
  <2>2. \A d \in ContextTypes :
          step' \in Made(d) => count'[d] = IF document[d] = None THEN 0 ELSE 1
    <3>1. \A d \in ContextTypes : step' \in Made(d) => d = c \/ step \in Made(d)
      BY DEF Made, Starting, UpTo, Beginning, ContextTypes, InOrder
    <3>2. \A d \in ContextTypes : step \in Made(d) => Counted(d)
      BY DEF StartInv
    <3> QED BY <3>1, <3>2 DEF Counted
  <2>3. \A d \in {"commission", "slippage"} : step' \notin Made(d)
    BY DEF Made, Starting, UpTo, Beginning, ContextTypes, InOrder
  <2>4. step' \notin Made("system plugins") /\ step' # "instances"
    BY DEF Made, Starting, UpTo, Beginning, ContextTypes, InOrder
  <2>5. ASSUME NEW k \in DOMAIN document.runnables PROVE ~(k < 1)
    <3>1. document.runnables # <<>>
      BY <2>1 DEF StartInv, Made, Starting, UpTo, Beginning, ContextTypes, InOrder
    <3> QED BY <3>1, BeforeTheFirst
  <2> QED BY <2>1, <2>2, <2>3, <2>4, <2>5 DEF StartInv, Counted
<1>3. ReleaseInv' /\ DestroyInv'
  BY DEF ReleaseInv, DestroyInv, InOrder
<1> QED BY <1>1, <1>2, <1>3 DEF StepsInv

LEMMA CreateContextKeeps ==
  ASSUME IInv, NEW c, NEW next,
         InOrder(c, next), CreateContext(c, next)
  PROVE  SessionInv'
<1> DEFINE id == document[c]
           lib == LibraryOf(tree["global"], id, c)
<1>1. /\ step = c /\ at' = 1 /\ step' \in {next, "destroy", "undefined"}
      /\ UNCHANGED <<treeVars, document, instanceVars>>
  BY DEF CreateContext, Throw, Undefined, Go
<1>2. c \in ContextTypes /\ c \in Types \ {"runnable"}
  BY TypesAre DEF ContextTypes, InOrder
<1>3. count[c] = 0 /\ object[c] = None /\ plugin[c] = None /\ handlers[c] = {}
  <2>1. step \in UpTo(c)
    BY <1>1 DEF UpTo, InOrder
  <2> QED BY <1>2, <2>1 DEF IInv, StepsInv, NothingYet, ObjectsInv, ContextInv
<1>4. NothingYet /\ StartInv /\ document \in Documents /\ offer \in Offers
      /\ NodesOk(tree["global"], offer)
  BY DEF IInv, StepsInv, TreeInv, InputInv, NodesInv, Trees
<1>5. at' \in Nat \ {0}
  BY <1>1
<1>6. CASE UNCHANGED contextVars /\ (step' = next => id = None)
  <2>1. SessionTypeInv' /\ ObjectsInv'
    BY <1>1, <1>6, SessionFrame DEF IInv
  <2>2. CASE step' \in {"destroy", "undefined"}
    BY <1>1, <2>1, <2>2, Leaves DEF SessionInv
  <2>3. CASE step' = next
    <3>1. id = None
      BY <1>6, <2>3
    <3>2. count'[c] = IF document[c] = None THEN 0 ELSE 1
      BY <1>3, <1>6, <3>1 DEF contextVars
    <3>3. /\ \A d \in ContextTypes \ {c} : /\ count'[d] = count[d] /\ object'[d] = object[d]
                                          /\ plugin'[d] = plugin[d]
          /\ \A d \in {"commission", "slippage"} : plugin'[d] = plugin[d]
      BY <1>6 DEF contextVars
    <3> QED BY <1>1, <1>4, <2>1, <2>3, <3>2, <3>3, ContextStep DEF SessionInv
  <2> QED BY <1>1, <2>2, <2>3
<1>7. CASE /\ id # None /\ lib \in Libraries
           /\ \E outcome \in Outcomes :
                /\ plugin' = IF outcome = "not loaded" THEN plugin
                             ELSE [plugin EXCEPT ![c] = lib]
                /\ IF outcome = "made"
                   THEN LET made == [lib |-> lib, id |-> id, type |-> c]
                        IN /\ object' = [object EXCEPT ![c] = made]
                           /\ handlers' = [handlers EXCEPT ![c] = @ \cup {made}]
                           /\ count' = [count EXCEPT ![c] = @ + 1]
                           /\ Go(next)
                   ELSE Throw /\ UNCHANGED <<object, handlers, count>>
  <2> DEFINE made == [lib |-> lib, id |-> id, type |-> c]
  <2>1. \E e \in offer[lib] : e.type = c /\ id \in Range(e.configs)
    <3>1. lib \notin NoLibrary
      BY <1>7, LibrariesAssumption
    <3> QED BY <1>4, <3>1, LibraryOffers
  <2>2. made # None /\ made.lib = lib /\ made.id = id /\ made.type = c
    BY <1>2, <1>4, <1>7, DocumentsAssumption
  <2> HIDE DEF lib, id, made
  <2>3. PICK outcome \in Outcomes :
          /\ plugin' = IF outcome = "not loaded" THEN plugin
                       ELSE [plugin EXCEPT ![c] = lib]
          /\ IF outcome = "made"
             THEN /\ object' = [object EXCEPT ![c] = made]
                  /\ handlers' = [handlers EXCEPT ![c] = @ \cup {made}]
                  /\ count' = [count EXCEPT ![c] = @ + 1]
                  /\ Go(next)
             ELSE Throw /\ UNCHANGED <<object, handlers, count>>
    BY <1>7 DEF made
  <2>4. /\ plugin' \in [Types \ {"runnable"} -> Libraries \cup {None}]
        /\ \A d \in Types \ {"runnable", c} : plugin'[d] = plugin[d]
        /\ outcome # "not loaded" => plugin'[c] = lib
    BY <1>2, <1>7, <2>3 DEF IInv, SessionTypeInv
  <2>5. /\ \A d \in ContextTypes \ {c} : plugin'[d] = plugin[d]
        /\ \A d \in {"commission", "slippage"} : plugin'[d] = plugin[d]
    <3>1. \A d \in ContextTypes : d \in Types \ {"runnable"}
      BY TypesAre DEF ContextTypes
    <3>2. \A d \in {"commission", "slippage"} : d \in Types \ {"runnable"} /\ d # c
      BY <1>2, TypesAre DEF ContextTypes
    <3> QED BY <2>4, <3>1, <3>2
  <2>6. /\ OwnInv("commission", commissions)' /\ OwnInv("slippage", slippages)'
        /\ DefaultPluginsInv' /\ RunnablePluginsInv' /\ RunnablesInv' /\ IteratorsInv'
    <3>1. DefaultPluginsInv'
      BY <1>1, <2>5 DEF IInv, ObjectsInv, DefaultPluginsInv, treeVars
    <3>2. OwnInv("commission", commissions)' /\ OwnInv("slippage", slippages)'
      BY <1>1, <2>5 DEF IInv, ObjectsInv, OwnInv, ObjectOf, Offered, treeVars, instanceVars
    <3> QED BY <1>1, <3>1, <3>2, RunnableFrame DEF IInv, ObjectsInv, instanceVars
  <2>7. CASE outcome # "made"
    <3>1. UNCHANGED <<object, handlers, count>> /\ step' = "destroy"
      BY <2>3, <2>7 DEF Throw, Go
    <3>2. ContextInv'
      <4>1. \A d \in ContextTypes : plugin'[d] = plugin[d] \/ object[d] = None
        BY <1>3, <2>5
      <4>2. ContextInv /\ UNCHANGED <<offer, document>>
        BY <1>1 DEF IInv, ObjectsInv, treeVars
      <4> QED BY <3>1, <4>1, <4>2 DEF ContextInv, ObjectOf, Offered
    <3>3. SessionTypeInv'
      <4>1. /\ object' = [d \in ContextTypes |-> object'[d]]
            /\ handlers' = [d \in ContextTypes |-> handlers'[d]]
        BY <3>1 DEF IInv, SessionTypeInv
      <4>2. count' \in [ContextTypes -> Int] /\ SessionTypeInv
        BY <3>1 DEF IInv, SessionTypeInv
      <4> QED BY <1>1, <1>5, <2>4, <4>1, <4>2, ContextTypeFrame DEF instanceVars
    <3> QED BY <1>1, <2>6, <3>1, <3>2, <3>3, Leaves DEF ObjectsInv, SessionInv
  <2>8. CASE outcome = "made"
    <3>1. /\ object' = [object EXCEPT ![c] = made]
          /\ handlers' = [handlers EXCEPT ![c] = @ \cup {made}]
          /\ count' = [count EXCEPT ![c] = @ + 1] /\ step' = next
      BY <2>3, <2>8 DEF Go
    <3>2. /\ object'[c] = made /\ handlers'[c] = {made} /\ count'[c] = 1
          /\ \A d \in ContextTypes \ {c} :
               object'[d] = object[d] /\ handlers'[d] = handlers[d] /\ count'[d] = count[d]
      <4>1. object'[c] = made /\ \A d \in ContextTypes \ {c} : object'[d] = object[d]
        BY <1>2, <3>1 DEF IInv, SessionTypeInv
      <4>2. handlers'[c] = {made} /\ \A d \in ContextTypes \ {c} : handlers'[d] = handlers[d]
        BY <1>2, <1>3, <3>1 DEF IInv, SessionTypeInv
      <4>3. count'[c] = 1 /\ \A d \in ContextTypes \ {c} : count'[d] = count[d]
        BY <1>2, <1>3, <3>1 DEF IInv, SessionTypeInv
      <4> QED BY <4>1, <4>2, <4>3
    <3>3. plugin'[c] = lib /\ made = ObjectOf(c)' /\ id # None /\ lib \in Libraries
      BY <1>1, <1>7, <2>4, <2>8 DEF made, ObjectOf, id
    <3>4. made.lib = lib /\ (\E e \in offer'[made.lib] : e.type = made.type /\ made.id \in Range(e.configs))
      BY <1>1, <2>1, <2>2 DEF treeVars
    <3>5. ContextInv'
      <4>1. ContextInv /\ UNCHANGED <<offer, document>> /\ id = document[c]
        BY <1>1 DEF IInv, ObjectsInv, treeVars, id
      <4>2. ASSUME NEW d \in ContextTypes
            PROVE  /\ \/ object'[d] = None
                      \/ /\ document'[d] # None /\ plugin'[d] \in Libraries
                         /\ object'[d] = [lib |-> plugin'[d], id |-> document'[d], type |-> d]
                         /\ Offered(object[d])'
                   /\ \/ count'[d] = 0 /\ handlers'[d] = {}
                      \/ count'[d] = 1 /\ object'[d] # None /\ handlers'[d] = {object'[d]}
        <5>1. CASE d = c
          BY <2>2, <3>2, <3>3, <3>4, <4>1, <5>1 DEF ObjectOf, Offered
        <5>2. CASE d # c
          BY <2>5, <3>2, <4>1, <5>2 DEF ContextInv, ObjectOf, Offered
        <5> QED BY <5>1, <5>2
      <4> QED BY <4>2 DEF ContextInv, ObjectOf, Offered
    <3>6. SessionTypeInv'
      <4>1. count' \in [ContextTypes -> Int]
        BY <1>2, <3>1 DEF IInv, SessionTypeInv
      <4>2. object' = [d \in ContextTypes |-> object'[d]]
        BY <1>2, <3>1 DEF IInv, SessionTypeInv
      <4>3. handlers' = [d \in ContextTypes |-> handlers'[d]]
        BY <1>2, <3>1 DEF IInv, SessionTypeInv
      <4>4. SessionTypeInv
        BY DEF IInv
      <4> QED BY <1>1, <1>5, <2>4, <4>1, <4>2, <4>3, <4>4, ContextTypeFrame DEF instanceVars
    <3>7. StepsInv'
      <4>1. count'[c] = IF document[c] = None THEN 0 ELSE 1
        BY <3>2, <3>3 DEF id
      <4> QED BY <1>1, <1>4, <2>5, <3>1, <3>2, <4>1, ContextStep
    <3> QED BY <2>6, <3>5, <3>6, <3>7 DEF ObjectsInv, SessionInv
  <2> QED BY <2>7, <2>8
<1>8. next \notin {"destroy", "undefined"}
  BY DEF InOrder
<1> HIDE DEF id, lib
<1> QED BY <1>6, <1>7, <1>8 DEF CreateContext, Throw, Undefined, Go, id, lib

LEMMA InsertedIs ==
  ASSUME NEW map, NEW key, NEW value
  PROVE  /\ DOMAIN Inserted(map, key, value) = DOMAIN map \cup {key}
         /\ \A k \in DOMAIN map : Inserted(map, key, value)[k] = map[k]
         /\ key \notin DOMAIN map => Inserted(map, key, value)[key] = value
BY DEF Inserted

LEMMA CreateRunnablePluginKeeps ==
  ASSUME IInv, CreateRunnablePlugin
  PROVE  SessionInv'
<1> DEFINE id == document.runnables[at]
           parent == ParentOf(tree["session"], id)
           lib == LibraryOf(tree["session"], id, "runnable")
<1>1. /\ step = "system plugins" /\ at <= Len(document.runnables)
      /\ UNCHANGED <<treeVars, document, contextVars, runnables, commissions, slippages, iterators>>
  BY DEF CreateRunnablePlugin
<1>2. at \in Nat \ {0} /\ offer \in Offers /\ document \in Documents
      /\ NodesOk(tree["session"], offer)
  BY DEF IInv, SessionTypeInv, TreeInv, InputInv, NodesInv, Trees
<1>3. document.runnables # <<>>
  BY <1>1 DEF IInv, StepsInv, StartInv, Made, Starting, UpTo, Beginning, ContextTypes
<1>4. /\ Len(document.runnables) \in Nat
      /\ DOMAIN document.runnables = 1 .. Len(document.runnables)
  BY <1>2, <1>3, SystemsOfInstances
<1>5. CASE UNCHANGED runnablePlugins /\ at' = 1 /\ step' \in {"destroy", "undefined"}
  <2>1. at' \in Nat \ {0} /\ SessionTypeInv /\ ObjectsInv
    BY <1>5 DEF IInv
  <2>2. SessionTypeInv' /\ ObjectsInv'
    BY <1>1, <1>5, <2>1, SessionFrame DEF instanceVars
  <2> QED BY <1>5, <2>2, Leaves DEF SessionInv
<1>6. CASE /\ lib \in Libraries /\ at' = at + 1 /\ UNCHANGED step
           /\ \/ parent \in DOMAIN runnablePlugins /\ UNCHANGED runnablePlugins
              \/ /\ parent \notin DOMAIN runnablePlugins
                 /\ runnablePlugins' = Inserted(runnablePlugins, parent, lib)
  <2>1. lib \in Libraries /\ parent \notin NoLibrary
        /\ lib = GetPlugin(tree["session"], parent, "runnable")
    <3>1. lib \notin NoLibrary
      BY <1>6, LibrariesAssumption
    <3> QED BY <1>2, <1>6, <3>1, LibraryOffers
  <2> HIDE DEF lib, parent
  <2>2. /\ DOMAIN runnablePlugins' = DOMAIN runnablePlugins \cup {parent}
        /\ \A p \in DOMAIN runnablePlugins : runnablePlugins'[p] = runnablePlugins[p]
        /\ parent \notin DOMAIN runnablePlugins => runnablePlugins'[parent] = lib
    <3>1. CASE parent \in DOMAIN runnablePlugins
      BY <1>6, <3>1
    <3>2. CASE parent \notin DOMAIN runnablePlugins
      <4>1. runnablePlugins' = Inserted(runnablePlugins, parent, lib)
        BY <1>6, <3>2
      <4> DEFINE now == Inserted(runnablePlugins, parent, lib)
      <4>2. /\ DOMAIN now = DOMAIN runnablePlugins \cup {parent}
            /\ \A p \in DOMAIN runnablePlugins : now[p] = runnablePlugins[p]
            /\ now[parent] = lib
        BY <3>2, InsertedIs
      <4> HIDE DEF now
      <4>3. runnablePlugins' = now
        BY <4>1 DEF now
      <4> QED BY <4>2, <4>3
    <3> QED BY <3>1, <3>2
  <2>3. at' \in Nat \ {0} /\ at' = at + 1
    BY <1>2, <1>6
  <2>4. SessionTypeInv'
    BY <1>1, <2>3, TypeFrame DEF IInv
  <2>5. RunnablePluginsInv'
    <3>1. UNCHANGED tree /\ RunnablePluginsInv
      BY <1>1 DEF treeVars, IInv, ObjectsInv
    <3> QED BY <2>1, <2>2, <3>1 DEF RunnablePluginsInv
  <2>6. RunnablesInv'
    <3>1. runnables = <<>>
      BY <1>1 DEF IInv, StepsInv, NothingYet, UpTo, Beginning, ContextTypes
    <3> QED BY <1>1, <3>1, EmptyIsASeq DEF RunnablesInv
  <2>7. ContextInv' /\ DefaultPluginsInv' /\ IteratorsInv'
        /\ OwnInv("commission", commissions)' /\ OwnInv("slippage", slippages)'
    BY <1>1, ContextFrame, DefaultFrame, OwnFrame DEF IInv, ObjectsInv, IteratorsInv, contextVars
  <2>8. NothingYet'
    BY <1>1, <1>6 DEF IInv, StepsInv, NothingYet, UpTo, Beginning, ContextTypes, contextVars
  <2>9. StartInv'
    <3>1. StartInv /\ step' = "system plugins" /\ UNCHANGED <<tree, document, count, plugin>>
      BY <1>1, <1>6 DEF IInv, StepsInv, treeVars, contextVars
    <3>2. \A k \in DOMAIN document.runnables :
            k < at' => ParentOf(tree["session"], document.runnables[k]) \in DOMAIN runnablePlugins'
      <4> TAKE k \in DOMAIN document.runnables
      <4>1. CASE k < at
        BY <1>1, <2>2, <4>1 DEF IInv, StepsInv, StartInv, HasRunnablePlugin
      <4>2. CASE k = at
        BY <2>2, <4>2 DEF parent
      <4>3. k < at' => k < at \/ k = at
        BY <1>2, <1>4, <2>3
      <4> QED BY <4>1, <4>2, <4>3
    <3>3. step' \notin Made("system plugins") /\ step' # "instances"
      BY <3>1 DEF Made, Starting, UpTo, Beginning, ContextTypes
    <3>4. \A c \in {"commission", "slippage"} : step' \notin Made(c)
      BY <3>1 DEF Made, Starting, UpTo, Beginning, ContextTypes
    <3>5. \A c \in ContextTypes :
            step' \in Made(c) => count'[c] = IF document[c] = None THEN 0 ELSE 1
      BY <1>1, <3>1 DEF StartInv, Counted
    <3>6. step' \in Made("dataSource") \cup {"dataSource", "release"} =>
            document'.dataSource # None /\ document'.symbolsSource # None /\ document'.runnables # <<>>
      BY <1>1, <3>1 DEF StartInv
    <3> QED BY <3>1, <3>2, <3>3, <3>4, <3>5, <3>6 DEF StartInv, Counted, HasRunnablePlugin
  <2>10. ReleaseInv' /\ DestroyInv'
    BY <1>1, <1>6 DEF ReleaseInv, DestroyInv
  <2> QED BY <2>4, <2>5, <2>6, <2>7, <2>8, <2>9, <2>10 DEF ObjectsInv, StepsInv, SessionInv
<1> HIDE DEF id, parent, lib
<1> QED BY <1>5, <1>6 DEF CreateRunnablePlugin, Throw, Undefined, Go, id, parent, lib

LEMMA RunnablePluginsCreatedKeeps ==
  ASSUME IInv, RunnablePluginsCreated
  PROVE  SessionInv'
<1>1. /\ step = "system plugins" /\ at > Len(document.runnables)
      /\ step' = "commission" /\ at' = 1
      /\ UNCHANGED <<treeVars, document, contextVars, instanceVars>>
  BY DEF RunnablePluginsCreated, Go
<1>2. SessionTypeInv' /\ ObjectsInv'
  <2>1. at' \in Nat \ {0}
    <3>1. at' = 1
      BY <1>1
    <3> QED BY <3>1
  <2> QED BY <1>1, <2>1, SessionFrame DEF IInv
<1>3. NothingYet'
  BY <1>1 DEF IInv, StepsInv, NothingYet, UpTo, Beginning, ContextTypes, contextVars, instanceVars
<1>4. StartInv'
  <2>1. StartInv /\ UNCHANGED <<tree, document, count, plugin, runnablePlugins>>
    BY <1>1 DEF IInv, StepsInv, treeVars, contextVars, instanceVars
  <2>2. document.dataSource # None /\ document.symbolsSource # None /\ document.runnables # <<>>
    BY <1>1, <2>1 DEF StartInv, Made, Starting, UpTo, Beginning, ContextTypes
  <2>3. \A c \in ContextTypes : Counted(c)
    BY <1>1, <2>1 DEF StartInv, Made, Starting, UpTo, Beginning, ContextTypes
  <2>4. \A c \in {"commission", "slippage"} : step' \notin Made(c)
    BY <1>1 DEF Made, Starting, UpTo, Beginning, ContextTypes
  <2>5. \A k \in DOMAIN document.runnables : HasRunnablePlugin(k)
    <3>1. document \in Documents /\ at \in Nat \ {0}
      BY DEF IInv, TreeInv, InputInv, SessionTypeInv
    <3>2. /\ Len(document.runnables) \in Nat
          /\ DOMAIN document.runnables = 1 .. Len(document.runnables)
      BY <2>2, <3>1, SystemsOfInstances
    <3>3. ASSUME NEW k \in DOMAIN document.runnables PROVE k < at
      <4>1. k \in 1 .. Len(document.runnables) /\ at > Len(document.runnables)
        BY <1>1, <3>2
      <4> QED BY <3>1, <3>2, <4>1
    <3> QED BY <1>1, <2>1, <3>3 DEF StartInv
  <2> QED BY <1>1, <2>1, <2>2, <2>3, <2>4, <2>5 DEF StartInv, Counted, HasRunnablePlugin
<1>5. ReleaseInv' /\ DestroyInv'
  BY <1>1 DEF ReleaseInv, DestroyInv
<1> QED BY <1>2, <1>3, <1>4, <1>5 DEF StepsInv, SessionInv

LEMMA CreateDefaultPluginKeeps ==
  ASSUME IInv, NEW c, NEW next,
         \/ c = "commission" /\ next = "slippage"
         \/ c = "slippage" /\ next = "instances",
         CreateDefaultPlugin(c, next)
  PROVE  SessionInv'
<1>1. /\ step = c /\ at' = 1 /\ step' \in {next, "destroy"}
      /\ UNCHANGED <<treeVars, document, object, count, handlers, instanceVars>>
      /\ \/ UNCHANGED plugin /\ (step' = next => document[c] = None)
         \/ /\ step' = next /\ document[c] # None
            /\ GetPlugin(tree["global"], document[c], c) \in Libraries
            /\ plugin' = [plugin EXCEPT ![c] = GetPlugin(tree["global"], document[c], c)]
  BY DEF CreateDefaultPlugin, Throw, Go
<1>2. /\ c \in Types \ {"runnable"} /\ c \in {"commission", "slippage"} /\ c \notin ContextTypes
  BY TypesAre DEF ContextTypes
<1>3. at' \in Nat \ {0}
  BY <1>1
<1>4. runnables = <<>> /\ commissions = <<>> /\ slippages = <<>>
  BY <1>1 DEF IInv, StepsInv, NothingYet, UpTo, Beginning, ContextTypes
<1>5. /\ plugin' \in [Types \ {"runnable"} -> Libraries \cup {None}]
      /\ \A d \in Types \ {"runnable", c} : plugin'[d] = plugin[d]
      /\ plugin'[c] = plugin[c] \/ plugin'[c] = GetPlugin(tree["global"], document[c], c)
      /\ step' = next => document[c] = None \/ plugin'[c] \in Libraries
  BY <1>1, <1>2 DEF IInv, SessionTypeInv
<1>6. /\ \A d \in ContextTypes : plugin'[d] = plugin[d]
      /\ \A d \in {"commission", "slippage"} \ {c} : plugin'[d] = plugin[d]
  <2>1. \A d \in ContextTypes : d \in Types \ {"runnable", c}
    BY <1>2, TypesAre DEF ContextTypes
  <2>2. \A d \in {"commission", "slippage"} \ {c} : d \in Types \ {"runnable", c}
    BY TypesAre
  <2> QED BY <1>5, <2>1, <2>2
<1>7. SessionTypeInv'
  <2>1. /\ object' = [d \in ContextTypes |-> object'[d]]
        /\ handlers' = [d \in ContextTypes |-> handlers'[d]]
    BY <1>1 DEF IInv, SessionTypeInv
  <2>2. count' \in [ContextTypes -> Int] /\ SessionTypeInv
    BY <1>1 DEF IInv, SessionTypeInv
  <2> QED BY <1>1, <1>3, <1>5, <2>1, <2>2, ContextTypeFrame DEF instanceVars
<1>8. ObjectsInv'
  <2>1. ContextInv'
    <3>1. ContextInv /\ UNCHANGED <<document, offer, object, count, handlers>>
      BY <1>1 DEF IInv, ObjectsInv, treeVars
    <3> QED BY <1>6, <3>1 DEF ContextInv, ObjectOf, Offered
  <2>2. OwnInv("commission", commissions)' /\ OwnInv("slippage", slippages)'
    BY <1>1, <1>4, EmptyIsASeq DEF OwnInv, instanceVars
  <2>3. DefaultPluginsInv'
    <3>1. DefaultPluginsInv /\ UNCHANGED <<tree, document>>
      BY <1>1 DEF IInv, ObjectsInv, treeVars
    <3>2. ASSUME NEW d \in {"commission", "slippage"}, plugin'[d] # None
          PROVE  plugin'[d] = GetPlugin(tree["global"], document[d], d)
      <4>1. CASE d = c
        BY <1>5, <3>1, <3>2, <4>1 DEF DefaultPluginsInv
      <4>2. CASE d # c
        BY <1>6, <3>1, <3>2, <4>2 DEF DefaultPluginsInv
      <4> QED BY <4>1, <4>2
    <3> QED BY <3>1, <3>2 DEF DefaultPluginsInv
  <2>4. RunnablePluginsInv' /\ RunnablesInv' /\ IteratorsInv'
    BY <1>1, RunnableFrame DEF IInv, ObjectsInv, instanceVars
  <2> QED BY <2>1, <2>2, <2>3, <2>4 DEF ObjectsInv
<1>9. CASE step' = "destroy"
  BY <1>1, <1>7, <1>8, <1>9, Leaves DEF SessionInv
<1>10. CASE step' = next
  <2>1. NothingYet'
    <3>1. \A d \in ContextTypes : step' \notin UpTo(d)
      BY <1>10 DEF UpTo, Beginning, ContextTypes
    <3>2. step' \notin UpTo("commission")
      BY <1>10 DEF UpTo, Beginning, ContextTypes
    <3>3. step' \in UpTo("slippage") => plugin'["slippage"] = None
      <4>1. ASSUME step' \in UpTo("slippage") PROVE c = "commission"
        BY <1>10, <4>1 DEF UpTo, Beginning, ContextTypes
      <4>2. step \in UpTo("slippage")
        BY <1>1 DEF UpTo, Beginning, ContextTypes
      <4>3. plugin["slippage"] = None
        BY <4>2 DEF IInv, StepsInv, NothingYet
      <4> QED BY <1>6, <4>1, <4>3
    <3>4. runnables' = <<>> /\ commissions' = <<>> /\ slippages' = <<>>
      BY <1>1, <1>4 DEF instanceVars
    <3>5. step' \notin UpTo("signalHandler")
      BY <3>1 DEF ContextTypes
    <3> QED BY <3>1, <3>2, <3>3, <3>4, <3>5 DEF NothingYet
  <2>2. StartInv'
    <3>1. StartInv /\ UNCHANGED <<tree, document, count, runnablePlugins>>
      BY <1>1 DEF IInv, StepsInv, treeVars, instanceVars
    <3>2. document.dataSource # None /\ document.symbolsSource # None /\ document.runnables # <<>>
      BY <1>1, <3>1 DEF StartInv, Made, Starting, UpTo, Beginning, ContextTypes
    <3>3. \A d \in ContextTypes : Counted(d)
      BY <1>1, <3>1 DEF StartInv, Made, Starting, UpTo, Beginning, ContextTypes
    <3>4. \A k \in DOMAIN document.runnables : HasRunnablePlugin(k)
      BY <1>1, <3>1 DEF StartInv, Made, Starting, UpTo, Beginning, ContextTypes
    <3>5. ASSUME NEW d \in {"commission", "slippage"}, step' \in Made(d)
          PROVE  document[d] # None => plugin'[d] # None
      <4>1. CASE d = c
        BY <1>5, <1>10, <4>1, LibrariesAssumption
      <4>2. CASE d # c
        <5>1. d = "commission" /\ c = "slippage"
          <6>1. ~(d = "slippage" /\ c = "commission")
            BY <1>10, <3>5 DEF Made, Starting, UpTo, Beginning, ContextTypes
          <6> QED BY <1>2, <4>2, <6>1
        <5>2. step \in Made(d)
          BY <1>1, <5>1 DEF Made, Starting, UpTo, Beginning, ContextTypes
        <5> QED BY <1>6, <3>1, <4>2, <5>2 DEF StartInv, HasPlugin
      <4> QED BY <4>1, <4>2
    <3>6. step' = "instances" => (at <= Instances + 1 /\ Complete(at - 1))'
      <4>1. document \in Documents
        BY DEF IInv, TreeInv, InputInv
      <4>2. Instances \in Nat
        BY <3>2, <4>1, SystemsOfInstances
      <4>3. at' = 1 /\ at' - 1 = 0
        BY <1>1
      <4>4. /\ runnables' = <<>> /\ commissions' = <<>> /\ slippages' = <<>>
        BY <1>1, <1>4 DEF instanceVars
      <4>5. /\ Len(runnables') = 0
            /\ document'.commission # None => Len(commissions') = 0
            /\ document'.slippage # None => Len(slippages') = 0
            /\ \A k \in 1 .. 0 : runnables'[k].id = SystemOf(k)'
        BY <4>4, EmptyIsASeq
      <4>6. at' <= Instances + 1
        BY <4>2, <4>3
      <4>7. Instances' = Instances
        BY <3>1 DEF Instances
      <4> QED BY <4>3, <4>5, <4>6, <4>7 DEF Complete
    <3>7. step' \notin {"system plugins", "release"}
      BY <1>10
    <3> QED BY <3>1, <3>2, <3>3, <3>4, <3>5, <3>6, <3>7
            DEF StartInv, Counted, HasPlugin, HasRunnablePlugin
  <2>3. ReleaseInv' /\ DestroyInv'
    BY <1>10 DEF ReleaseInv, DestroyInv
  <2> QED BY <1>7, <1>8, <2>1, <2>2, <2>3 DEF StepsInv, SessionInv
<1> QED BY <1>1, <1>9, <1>10

\* The object that an instance gets of a plugin of commissions or slippages.
LEMMA OwnIs ==
  ASSUME TreeInv, SessionTypeInv, DefaultPluginsInv, NEW c \in {"commission", "slippage"}
  PROVE  \/ Own(c) = <<>> /\ (plugin[c] = None \/ ReadsPastEnd(c))
         \/ /\ Own(c) = <<ObjectOf(c)>> /\ plugin[c] \in Libraries /\ Offered(ObjectOf(c))
            /\ plugin[c] # None /\ ~ReadsPastEnd(c)
<1>1. CASE plugin[c] = None \/ ReadsPastEnd(c)
  BY <1>1 DEF Own
<1>2. CASE plugin[c] # None /\ ~ReadsPastEnd(c)
  <2>1. Own(c) = <<ObjectOf(c)>>
    BY <1>2 DEF Own, ObjectOf
  <2>2. plugin[c] \in Libraries /\ plugin[c] = GetPlugin(tree["global"], document[c], c)
    BY <1>2, TypesAre DEF SessionTypeInv, DefaultPluginsInv
  <2>3. ~IsIdOfPlugin(tree["global"], document[c])
    BY <1>2 DEF ReadsPastEnd, IsIdOfPlugin
  <2>4. /\ offer \in Offers /\ NodesOk(tree["global"], offer)
        /\ IdOfNoRoot(document[c])
    <3>1. offer \in Offers /\ NodesOk(tree["global"], offer) /\ document \in Documents
      BY DEF TreeInv, InputInv, NodesInv, Trees
    <3> QED BY <3>1, DocumentsAssumption DEF IdOfNoRoot
  <2>5. \E e \in offer[plugin[c]] : e.type = c /\ document[c] \in Range(e.configs)
    <3>1. GetPlugin(tree["global"], document[c], c) \in Libraries
      BY <2>2
    <3>2. \E e \in offer[GetPlugin(tree["global"], document[c], c)] :
            e.type = c /\ document[c] \in Range(e.configs)
      BY <2>3, <2>4, <3>1, DefaultLibraryOffers
    <3> QED BY <2>2, <3>2
  <2>6. /\ ObjectOf(c).lib = plugin[c] /\ ObjectOf(c).id = document[c] /\ ObjectOf(c).type = c
    BY DEF ObjectOf
  <2> QED BY <1>2, <2>1, <2>2, <2>5, <2>6 DEF Offered
<1> QED BY <1>1, <1>2

\* One more object, if there is one, is of the plugin like the others.
LEMMA OwnAdded ==
  ASSUME NEW c, NEW s, IsASeq(s), OwnInv(c, s),
         \/ Own(c) = <<>>
         \/ Own(c) = <<ObjectOf(c)>> /\ plugin[c] \in Libraries /\ Offered(ObjectOf(c))
  PROVE  /\ IsASeq(s \o Own(c)) /\ OwnInv(c, s \o Own(c))
         /\ Own(c) = <<ObjectOf(c)>> => Len(s \o Own(c)) = Len(s) + 1
<1>1. CASE Own(c) = <<ObjectOf(c)>> /\ plugin[c] \in Libraries /\ Offered(ObjectOf(c))
  <2> DEFINE o == ObjectOf(c)
             r == Append(s, o)
  <2>1. s \o Own(c) = r
    BY <1>1, ConcatOne
  <2>2. /\ IsASeq(r) /\ Len(s) \in Nat /\ Len(r) = Len(s) + 1
        /\ DOMAIN s = 1 .. Len(s) /\ DOMAIN r = 1 .. Len(s) + 1
        /\ r[Len(s) + 1] = o /\ \A k \in 1 .. Len(s) : r[k] = s[k]
    BY AppendIs
  <2> HIDE DEF r
  <2>3. \A n \in DOMAIN r : n \in DOMAIN s \/ n = Len(s) + 1
    BY <2>2
  <2>4. OwnInv(c, r)
    <3>1. ASSUME NEW n \in DOMAIN r
          PROVE  plugin[c] \in Libraries /\ r[n] = ObjectOf(c) /\ Offered(r[n])
      <4>1. CASE n \in DOMAIN s
        <5>1. r[n] = s[n]
          BY <2>2, <4>1
        <5> QED BY <4>1, <5>1 DEF OwnInv
      <4>2. CASE n = Len(s) + 1
        BY <1>1, <2>2, <4>2
      <4> QED BY <2>3, <4>1, <4>2
    <3> QED BY <3>1 DEF OwnInv
  <2> QED BY <2>1, <2>2, <2>4
<1>2. CASE Own(c) = <<>>
  <2>1. s \o Own(c) = s
    BY <1>2, ConcatOne
  <2>2. <<>> # <<ObjectOf(c)>>
    OBVIOUS
  <2> QED BY <1>2, <2>1, <2>2
<1> QED BY <1>1, <1>2

\* The system of the next instance, and its iterator.
LEMMA SystemAdded ==
  ASSUME IInv, step = "instances", at <= Instances, NEW now,
         LET id == SystemOf(at)
             p == ParentOf(tree["session"], id)
         IN  now = [lib |-> runnablePlugins[p], id |-> id, type |-> "runnable",
                    iterator |-> IteratorOf(id)],
         runnables' = Append(runnables, now),
         iterators' = Inserted(iterators, now.id, IteratorOf(now.id)),
         UNCHANGED <<treeVars, runnablePlugins>>
  PROVE  /\ IsASeq(runnables)' /\ RunnablesInv' /\ IteratorsInv'
         /\ Len(runnables') = at /\ \A k \in 1 .. at : runnables'[k].id = SystemOf(k)
<1> DEFINE id == SystemOf(at)
           p == ParentOf(tree["session"], id)
<1>1. /\ now = [lib |-> runnablePlugins[p], id |-> id, type |-> "runnable",
                iterator |-> IteratorOf(id)]
      /\ now.id = id /\ now.lib = runnablePlugins[p] /\ now.type = "runnable"
      /\ now.iterator = IteratorOf(id)
  OBVIOUS
<1>2. /\ Complete(at - 1) /\ at \in Nat \ {0} /\ document.runnables # <<>>
      /\ document \in Documents /\ \A k \in DOMAIN document.runnables : HasRunnablePlugin(k)
      /\ offer \in Offers /\ NodesOk(tree["session"], offer)
  BY DEF IInv, StepsInv, StartInv, Made, Starting, UpTo, Beginning, ContextTypes,
         SessionTypeInv, TreeInv, InputInv, NodesInv, Trees
<1>3. p \in DOMAIN runnablePlugins /\ Offered(now)
  <2>1. Instances \in Nat
    BY <1>2, SystemsOfInstances
  <2>2. at \in 1 .. Instances
    BY <1>2, <2>1
  <2>3. PICK k \in DOMAIN document.runnables : id = document.runnables[k]
    BY <1>2, <2>2, SystemsOfInstances
  <2>4. p \in DOMAIN runnablePlugins
    BY <1>2, <2>3 DEF HasRunnablePlugin
  <2>5. /\ runnablePlugins[p] \in Libraries /\ p \notin NoLibrary
        /\ runnablePlugins[p] = GetPlugin(tree["session"], p, "runnable")
    BY <2>4 DEF IInv, ObjectsInv, RunnablePluginsInv
  <2>6. LibraryOf(tree["session"], id, "runnable") = runnablePlugins[p]
    BY <2>5 DEF LibraryOf, NoLibrary
  <2>7. runnablePlugins[p] \notin NoLibrary
    BY <2>5, LibrariesAssumption
  <2>8. \E e \in offer[runnablePlugins[p]] : e.type = "runnable" /\ id \in Range(e.configs)
    BY <1>2, <2>6, <2>7, LibraryOffers
  <2> QED BY <1>1, <2>4, <2>8 DEF Offered
<1> DEFINE N == Cardinality(DOMAIN iterators)
<1>4. /\ DOMAIN iterators' = DOMAIN iterators \cup {id}
      /\ \A i \in DOMAIN iterators : iterators'[i] = iterators[i]
      /\ id \notin DOMAIN iterators => iterators'[id] = N + 1
      /\ iterators'[id] = IteratorOf(id)
  <2> DEFINE f == Inserted(iterators, id, IteratorOf(id))
  <2>1. /\ DOMAIN f = DOMAIN iterators \cup {id}
        /\ \A i \in DOMAIN iterators : f[i] = iterators[i]
        /\ id \notin DOMAIN iterators => f[id] = IteratorOf(id)
    BY InsertedIs
  <2>2. iterators' = f
    BY <1>1
  <2> HIDE DEF f
  <2> QED BY <2>1, <2>2 DEF IteratorOf
<1>5. IteratorsInv'
  <2>1. /\ IsFiniteSet(DOMAIN iterators)
        /\ \A i \in DOMAIN iterators : iterators[i] \in 1 .. N
        /\ \A i, j \in DOMAIN iterators : iterators[i] = iterators[j] => i = j
    BY DEF IInv, ObjectsInv, IteratorsInv
  <2>2. CASE id \in DOMAIN iterators
    <3>1. DOMAIN iterators' = DOMAIN iterators
      BY <1>4, <2>2
    <3>2. /\ IsFiniteSet(DOMAIN iterators') /\ Cardinality(DOMAIN iterators') = N
          /\ \A i \in DOMAIN iterators' : iterators'[i] = iterators[i]
      BY <1>4, <2>1, <3>1
    <3>3. \A i \in DOMAIN iterators' : iterators'[i] \in 1 .. N
      BY <2>1, <3>1, <3>2
    <3>4. \A i, j \in DOMAIN iterators' : iterators'[i] = iterators'[j] => i = j
      BY <2>1, <3>1, <3>2
    <3> QED BY <3>2, <3>3, <3>4 DEF IteratorsInv
  <2>3. CASE id \notin DOMAIN iterators
    <3>1. /\ IsFiniteSet(DOMAIN iterators') /\ Cardinality(DOMAIN iterators') = N + 1 /\ N \in Nat
      BY <1>4, <2>1, <2>3, FS_AddElement, FS_CardinalityType
    <3> HIDE DEF N, id
    <3>2. \A i \in DOMAIN iterators' : iterators'[i] \in 1 .. N + 1
      BY <1>4, <2>1, <2>3, <3>1
    <3>3. \A i \in DOMAIN iterators : iterators'[i] # iterators'[id]
      BY <1>4, <2>1, <2>3, <3>1
    <3>4. \A i, j \in DOMAIN iterators' : iterators'[i] = iterators'[j] => i = j
      BY <1>4, <2>1, <3>3
    <3> QED BY <3>1, <3>2, <3>4 DEF IteratorsInv
  <2> QED BY <2>2, <2>3
<1>6. /\ IsASeq(runnables') /\ Len(runnables) = at - 1 /\ Len(runnables') = at
      /\ DOMAIN runnables = 1 .. at - 1 /\ DOMAIN runnables' = 1 .. at
      /\ runnables'[at] = now /\ \A k \in 1 .. at - 1 : runnables'[k] = runnables[k]
  <2>1. IsASeq(runnables) /\ Len(runnables) = at - 1
    BY <1>2 DEF IInv, SessionTypeInv, Complete
  <2>2. /\ IsASeq(Append(runnables, now)) /\ Len(Append(runnables, now)) = Len(runnables) + 1
        /\ DOMAIN runnables = 1 .. Len(runnables)
        /\ DOMAIN Append(runnables, now) = 1 .. Len(runnables) + 1
        /\ Append(runnables, now)[Len(runnables) + 1] = now
        /\ \A k \in 1 .. Len(runnables) : Append(runnables, now)[k] = runnables[k]
    BY <2>1, AppendIs
  <2>3. (at - 1) + 1 = at
    BY <1>2
  <2> QED BY <2>1, <2>2, <2>3
<1> HIDE DEF id, p
<1>7. RunnablesInv'
  <2>1. RunnablesInv /\ UNCHANGED <<offer, tree, runnablePlugins>>
    BY DEF IInv, ObjectsInv, treeVars
  <2>2. ASSUME NEW n \in 1 .. at
        PROVE  LET r == runnables'[n]
                   q == ParentOf(tree["session"], r.id)
               IN  /\ q \in DOMAIN runnablePlugins
                   /\ r = [lib |-> runnablePlugins[q], id |-> r.id, type |-> "runnable",
                           iterator |-> iterators'[r.id]]
                   /\ r.id \in DOMAIN iterators' /\ Offered(r)
    <3>1. CASE n = at
      BY <1>1, <1>3, <1>4, <1>6, <3>1 DEF p
    <3>2. CASE n # at
      <4>1. n \in DOMAIN runnables /\ runnables'[n] = runnables[n]
        BY <1>2, <1>6, <3>2
      <4> QED BY <1>4, <2>1, <4>1 DEF RunnablesInv
    <3> QED BY <3>1, <3>2
  <2> QED BY <1>6, <2>1, <2>2 DEF RunnablesInv, Offered
<1>8. \A k \in 1 .. at : runnables'[k].id = SystemOf(k)
  <2> TAKE k \in 1 .. at
  <2>1. CASE k = at
    BY <1>1, <1>6, <2>1 DEF id
  <2>2. CASE k # at
    <3>1. k \in 1 .. at - 1
      BY <1>2, <2>2
    <3> QED BY <1>2, <1>6, <3>1 DEF Complete
  <2> QED BY <2>1, <2>2
<1> QED BY <1>5, <1>6, <1>7, <1>8 DEF IsASeq

LEMMA CreateRunnableKeeps ==
  ASSUME IInv, CreateRunnable
  PROVE  SessionInv'
<1> DEFINE id == SystemOf(at)
           system == [lib |-> runnablePlugins[ParentOf(tree["session"], id)], id |-> id,
                      type |-> "runnable", iterator |-> IteratorOf(id)]
<1>1. PICK made \in 0 .. 3 :
        /\ runnables' = IF made >= 1 THEN Append(runnables, system) ELSE runnables
        /\ iterators' = IF made >= 1 THEN Inserted(iterators, id, IteratorOf(id)) ELSE iterators
        /\ commissions' = IF made >= 2 THEN commissions \o Own("commission") ELSE commissions
        /\ slippages' = IF made >= 3 THEN slippages \o Own("slippage") ELSE slippages
        /\ IF \/ made >= 1 /\ ReadsPastEnd("commission")
              \/ made >= 2 /\ ReadsPastEnd("slippage")
           THEN Undefined
           ELSE IF made = 3 THEN at' = at + 1 /\ UNCHANGED step ELSE Throw
  BY DEF CreateRunnable
<1>2. /\ step = "instances" /\ at <= Instances
      /\ UNCHANGED <<treeVars, document, contextVars, runnablePlugins>>
  BY DEF CreateRunnable
<1>3. /\ TreeInv /\ SessionTypeInv /\ ContextInv /\ DefaultPluginsInv /\ RunnablePluginsInv
      /\ OwnInv("commission", commissions) /\ OwnInv("slippage", slippages)
      /\ IsASeq(commissions) /\ IsASeq(slippages) /\ at \in Nat \ {0} /\ StartInv
      /\ Complete(at - 1) /\ HasPlugin("commission") /\ HasPlugin("slippage")
      /\ document.runnables # <<>> /\ document \in Documents
  BY <1>2 DEF IInv, ObjectsInv, StepsInv, StartInv, Made, Starting, UpTo, Beginning, ContextTypes,
              SessionTypeInv, TreeInv, InputInv
<1>4. \/ at' = 1 /\ step' \in {"destroy", "undefined"}
      \/ /\ at' = at + 1 /\ step' = step /\ made = 3
         /\ ~ReadsPastEnd("commission") /\ ~ReadsPastEnd("slippage")
  BY <1>1 DEF Undefined, Throw, Go
<1>5. at' \in Nat \ {0}
  BY <1>3, <1>4
<1>6. ContextInv' /\ DefaultPluginsInv' /\ RunnablePluginsInv'
  <2>1. UNCHANGED <<tree, plugin>>
    BY <1>2 DEF contextVars, treeVars
  <2> QED BY <1>2, <1>3, <2>1, ContextFrame, DefaultFrame DEF RunnablePluginsInv
<1>7. /\ IsASeq(runnables)' /\ RunnablesInv' /\ IteratorsInv'
      /\ made >= 1 =>
           Len(runnables') = at /\ \A k \in 1 .. at : runnables'[k].id = SystemOf(k)
  <2>1. CASE made >= 1
    <3>1. /\ runnables' = Append(runnables, system) /\ system.id = id
          /\ iterators' = Inserted(iterators, system.id, IteratorOf(system.id))
      BY <1>1, <2>1
    <3>2. /\ IsASeq(runnables)' /\ RunnablesInv' /\ IteratorsInv'
          /\ Len(runnables') = at /\ \A k \in 1 .. at : runnables'[k].id = SystemOf(k)
      BY <1>2, <3>1, SystemAdded
    <3> QED BY <3>2
  <2>2. CASE ~(made >= 1)
    <3>1. UNCHANGED <<runnables, iterators>>
      BY <1>1, <2>2
    <3>2. RunnablesInv' /\ IteratorsInv'
      BY <1>2, <3>1, RunnableFrame DEF IInv, ObjectsInv
    <3> QED BY <1>3, <2>2, <3>1, <3>2 DEF SessionTypeInv, IsASeq
  <2> QED BY <2>1, <2>2
<1>8. UNCHANGED <<offer, document, plugin>>
  BY <1>2 DEF contextVars, treeVars
<1>9. /\ IsASeq(commissions)' /\ OwnInv("commission", commissions)'
      /\ made = 3 /\ document.commission # None /\ ~ReadsPastEnd("commission") =>
           Len(commissions') = at
  <2> DEFINE r == commissions \o Own("commission")
  <2>1. \/ Own("commission") = <<>> /\ (plugin["commission"] = None \/ ReadsPastEnd("commission"))
        \/ /\ Own("commission") = <<ObjectOf("commission")>> /\ plugin["commission"] \in Libraries
           /\ Offered(ObjectOf("commission"))
    BY <1>3, OwnIs
  <2>2. /\ IsASeq(r) /\ OwnInv("commission", r)
        /\ Own("commission") = <<ObjectOf("commission")>> => Len(r) = Len(commissions) + 1
    BY <1>3, <2>1, OwnAdded
  <2>3. document.commission # None /\ ~ReadsPastEnd("commission") => Len(r) = at
    <3>1. document.commission # None => Len(commissions) = at - 1 /\ plugin["commission"] # None
      BY <1>3 DEF Complete, HasPlugin
    <3>2. (at - 1) + 1 = at
      BY <1>3
    <3> QED BY <2>1, <2>2, <3>1, <3>2
  <2> HIDE DEF r
  <2>4. commissions' = r \/ commissions' = commissions
    BY <1>1 DEF r
  <2>5. made = 3 => commissions' = r
    BY <1>1 DEF r
  <2>6. IsASeq(commissions') /\ OwnInv("commission", commissions')
    BY <1>3, <2>2, <2>4
  <2>7. OwnInv("commission", commissions)'
    BY <1>8, <2>6 DEF OwnInv, ObjectOf, Offered
  <2> QED BY <2>3, <2>5, <2>6, <2>7 DEF IsASeq
<1>10. /\ IsASeq(slippages)' /\ OwnInv("slippage", slippages)'
       /\ made = 3 /\ document.slippage # None /\ ~ReadsPastEnd("slippage") =>
            Len(slippages') = at
  <2> DEFINE r == slippages \o Own("slippage")
  <2>1. \/ Own("slippage") = <<>> /\ (plugin["slippage"] = None \/ ReadsPastEnd("slippage"))
        \/ /\ Own("slippage") = <<ObjectOf("slippage")>> /\ plugin["slippage"] \in Libraries
           /\ Offered(ObjectOf("slippage"))
    BY <1>3, OwnIs
  <2>2. /\ IsASeq(r) /\ OwnInv("slippage", r)
        /\ Own("slippage") = <<ObjectOf("slippage")>> => Len(r) = Len(slippages) + 1
    BY <1>3, <2>1, OwnAdded
  <2>3. document.slippage # None /\ ~ReadsPastEnd("slippage") => Len(r) = at
    <3>1. document.slippage # None => Len(slippages) = at - 1 /\ plugin["slippage"] # None
      BY <1>3 DEF Complete, HasPlugin
    <3>2. (at - 1) + 1 = at
      BY <1>3
    <3> QED BY <2>1, <2>2, <3>1, <3>2
  <2> HIDE DEF r
  <2>4. slippages' = r \/ slippages' = slippages
    BY <1>1 DEF r
  <2>5. made = 3 => slippages' = r
    BY <1>1 DEF r
  <2>6. IsASeq(slippages') /\ OwnInv("slippage", slippages')
    BY <1>3, <2>2, <2>4
  <2>7. OwnInv("slippage", slippages)'
    BY <1>8, <2>6 DEF OwnInv, ObjectOf, Offered
  <2> QED BY <2>3, <2>5, <2>6, <2>7 DEF IsASeq
<1>11. SessionTypeInv'
  BY <1>2, <1>3, <1>5, <1>7, <1>9, <1>10 DEF SessionTypeInv, contextVars
<1>12. ObjectsInv'
  BY <1>6, <1>7, <1>9, <1>10 DEF ObjectsInv
<1>13. StepsInv'
  <2>1. CASE at' = 1 /\ step' \in {"destroy", "undefined"}
    BY <2>1, Leaves
  <2>2. CASE /\ at' = at + 1 /\ step' = step /\ made = 3
             /\ ~ReadsPastEnd("commission") /\ ~ReadsPastEnd("slippage")
    <3>1. NothingYet'
      BY <1>2, <2>2 DEF NothingYet, UpTo, Beginning, ContextTypes
    <3>2. StartInv'
      <4>1. UNCHANGED <<tree, document, count, plugin, runnablePlugins>>
        BY <1>2 DEF contextVars, treeVars
      <4>2. Instances \in Nat /\ UNCHANGED Instances
        BY <1>3, <4>1, SystemsOfInstances DEF Instances
      <4>3. at' <= Instances + 1 /\ at' - 1 = at
        BY <1>2, <1>3, <2>2, <4>2
      <4>4. Len(runnables') = at /\ \A k \in 1 .. at : runnables'[k].id = SystemOf(k)
        BY <1>7, <2>2
      <4>5. \A k \in 1 .. at : SystemOf(k)' = SystemOf(k)
        BY <4>1 DEF SystemOf
      <4>6. Complete(at - 1)'
        BY <1>9, <1>10, <2>2, <4>1, <4>3, <4>4, <4>5 DEF Complete
      <4> QED BY <1>2, <1>3, <2>2, <4>1, <4>2, <4>3, <4>6
              DEF StartInv, Counted, HasPlugin, HasRunnablePlugin
    <3>3. ReleaseInv' /\ DestroyInv'
      BY <1>2, <2>2 DEF ReleaseInv, DestroyInv
    <3> QED BY <3>1, <3>2, <3>3 DEF StepsInv
  <2> QED BY <1>4, <2>1, <2>2
<1> QED BY <1>11, <1>12, <1>13 DEF SessionInv

LEMMA RunKeeps ==
  ASSUME IInv, Run
  PROVE  SessionInv'
<1>1. /\ step = "instances" /\ at > Instances /\ at' = 1 /\ step' \in {"release", "destroy"}
      /\ UNCHANGED <<treeVars, document, contextVars, instanceVars>>
  BY DEF Run, Throw, Go
<1>2. SessionTypeInv' /\ ObjectsInv'
  <2>1. at' \in Nat \ {0}
    <3>1. at' = 1
      BY <1>1
    <3> QED BY <3>1
  <2> QED BY <1>1, <2>1, SessionFrame DEF IInv
<1>3. CASE step' = "destroy"
  BY <1>1, <1>2, <1>3, Leaves DEF SessionInv
<1>4. CASE step' = "release"
  <2>1. /\ document.dataSource # None /\ document.symbolsSource # None /\ document.runnables # <<>>
        /\ \A c \in ContextTypes : Counted(c)
        /\ at <= Instances + 1 /\ Complete(at - 1) /\ at \in Nat \ {0} /\ document \in Documents
    BY <1>1 DEF IInv, StepsInv, StartInv, Made, Starting, UpTo, Beginning, ContextTypes,
                SessionTypeInv, TreeInv, InputInv
  <2>2. UNCHANGED <<document, count, runnables, commissions, slippages>>
    BY <1>1 DEF contextVars, instanceVars
  <2>3. at - 1 = Instances
    <3>1. Instances \in Nat
      BY <2>1, SystemsOfInstances
    <3> QED BY <1>1, <2>1, <3>1
  <2>4. NothingYet' /\ DestroyInv'
    BY <1>4 DEF NothingYet, UpTo, Beginning, ContextTypes, DestroyInv
  <2>5. StartInv'
    BY <1>4, <2>1, <2>2 DEF StartInv, Made, Starting, UpTo, Beginning, ContextTypes
  <2>6. ReleaseInv'
    <3>1. Complete(Instances)'
      BY <2>1, <2>2, <2>3 DEF Complete, Instances, SystemOf
    <3>2. \A c \in ContextTypes : Counted(c)'
      BY <2>1, <2>2 DEF Counted
    <3> QED BY <1>1, <3>1, <3>2 DEF ReleaseInv, ContextTypes
  <2> QED BY <1>2, <2>4, <2>5, <2>6 DEF StepsInv, SessionInv
<1> QED BY <1>1, <1>3, <1>4

\* What releasePlugins does, turn by turn.
LEMMA ReleaseTurns ==
  ASSUME NEW k \in Nat \ {0}, k <= Len(ReleaseOrder)
  PROVE  LET what == ReleaseOrder[k][1]
             c == ReleaseOrder[k][2]
         IN  \/ k = 1 /\ what = "instances" /\ c = "runnable"
             \/ k = 2 /\ what = "instances" /\ c = "commission"
             \/ k = 3 /\ what = "instances" /\ c = "slippage"
             \/ k = 4 /\ what = "plugin" /\ c = "runnable"
             \/ k = 5 /\ what = "plugin" /\ c = "commission"
             \/ k = 6 /\ what = "plugin" /\ c = "slippage"
             \/ k = 7 /\ what = "count" /\ c = "dataSource"
             \/ k = 8 /\ what = "count" /\ c = "symbolsSource"
             \/ k = 9 /\ what = "object" /\ c = "symbolsSource"
             \/ k = 10 /\ what = "plugin" /\ c = "symbolsSource"
             \/ k = 11 /\ what = "count" /\ c = "signalHandler"
             \/ k = 12 /\ what = "object" /\ c = "signalHandler"
             \/ k = 13 /\ what = "plugin" /\ c = "signalHandler"
<1>1. Len(ReleaseOrder) = 13
  BY DEF ReleaseOrder
<1>2. k \in 1 .. 13
  BY <1>1
<1>3. \/ k = 1 \/ k = 2 \/ k = 3 \/ k = 4 \/ k = 5 \/ k = 6 \/ k = 7 \/ k = 8 \/ k = 9
      \/ k = 10 \/ k = 11 \/ k = 12 \/ k = 13
  BY <1>2
<1> QED BY <1>3 DEF ReleaseOrder

LEMMA ReleaseKeeps ==
  ASSUME IInv, Release
  PROVE  SessionInv'
<1> DEFINE what == ReleaseOrder[at][1]
           c == ReleaseOrder[at][2]
           skipped == c = "signalHandler" /\ document[c] = None
<1>1. /\ step = "release" /\ at <= Len(ReleaseOrder) /\ step' = step /\ at' = at + 1
      /\ IF skipped THEN UNCHANGED <<contextVars, instanceVars>>
         ELSE /\ IF what = "count" THEN ReleaseCount(c) ELSE UNCHANGED <<count, handlers>>
              /\ Drop(what, c)
      /\ UNCHANGED <<treeVars, document>>
  BY DEF Release
<1>2. /\ SessionTypeInv /\ ObjectsInv /\ StartInv /\ ReleaseInv /\ at \in Nat \ {0}
  BY DEF IInv, StepsInv, SessionTypeInv
<1>3. /\ \/ at = 1 /\ what = "instances" /\ c = "runnable"
         \/ at = 2 /\ what = "instances" /\ c = "commission"
         \/ at = 3 /\ what = "instances" /\ c = "slippage"
         \/ at = 4 /\ what = "plugin" /\ c = "runnable"
         \/ at = 5 /\ what = "plugin" /\ c = "commission"
         \/ at = 6 /\ what = "plugin" /\ c = "slippage"
         \/ at = 7 /\ what = "count" /\ c = "dataSource"
         \/ at = 8 /\ what = "count" /\ c = "symbolsSource"
         \/ at = 9 /\ what = "object" /\ c = "symbolsSource"
         \/ at = 10 /\ what = "plugin" /\ c = "symbolsSource"
         \/ at = 11 /\ what = "count" /\ c = "signalHandler"
         \/ at = 12 /\ what = "object" /\ c = "signalHandler"
         \/ at = 13 /\ what = "plugin" /\ c = "signalHandler"
  BY <1>1, <1>2, ReleaseTurns
<1> HIDE DEF what, c
<1>4. document.dataSource # None /\ document.symbolsSource # None
  BY <1>1, <1>2 DEF StartInv
<1>5. at' \in Nat \ {0}
  BY <1>1, <1>2
<1>6. NothingYet' /\ StartInv' /\ DestroyInv'
  <2>1. step' = "release" /\ UNCHANGED document
    BY <1>1
  <2>2. NothingYet' /\ DestroyInv'
    BY <2>1 DEF NothingYet, UpTo, Beginning, ContextTypes, DestroyInv
  <2>3. StartInv'
    BY <1>1, <1>2, <2>1 DEF StartInv, Made, Starting, UpTo, Beginning, ContextTypes
  <2> QED BY <2>2, <2>3
<1>7. CASE skipped
  <2>1. SessionTypeInv' /\ ObjectsInv'
    BY <1>1, <1>2, <1>5, <1>7, SessionFrame
  <2>2. document["signalHandler"] = None /\ at >= 11
    BY <1>3, <1>7
  <2>3. count["signalHandler"] = 0 /\ object["signalHandler"] = None
    BY <1>2, <2>2 DEF ObjectsInv, ContextInv, ContextTypes, ReleaseInv, Counted
  <2>4. UNCHANGED <<count, object, runnables, commissions, slippages, document>>
    BY <1>1, <1>7 DEF contextVars, instanceVars
  <2>5. ReleaseInv'
    BY <1>1, <1>2, <2>2, <2>3, <2>4 DEF ReleaseInv, Counted
  <2> QED BY <1>6, <2>1, <2>5 DEF StepsInv, SessionInv
<1>8. CASE ~skipped
  <2>1. Drop(what, c) /\ IF what = "count" THEN ReleaseCount(c) ELSE UNCHANGED <<count, handlers>>
    BY <1>1, <1>8
  <2>2. CASE what = "count"
    <3>1. c \in ContextTypes /\ document[c] # None
      BY <1>3, <1>4, <1>8, <2>2 DEF ContextTypes
    <3>2. count[c] = 1
      <4>1. Counted(c)
        BY <1>1, <1>2, <1>3, <2>2 DEF ReleaseInv
      <4> QED BY <3>1, <4>1 DEF Counted
    <3>3. UNCHANGED <<plugin, object, instanceVars>>
      BY <2>1, <2>2 DEF Drop, instanceVars
    <3>4. /\ SessionTypeInv' /\ ObjectsInv'
          /\ count'[c] = 0 /\ \A d \in ContextTypes \ {c} : count'[d] = count[d]
      BY <1>1, <1>2, <1>5, <2>1, <2>2, <3>1, <3>2, <3>3, MayRelease
    <3>5. ReleaseInv'
      <4>1. UNCHANGED <<object, runnables, commissions, slippages, document>>
        BY <1>1, <3>3 DEF instanceVars
      <4>2. /\ c # "dataSource" => count'["dataSource"] = count["dataSource"]
            /\ c # "symbolsSource" => count'["symbolsSource"] = count["symbolsSource"]
            /\ c # "signalHandler" => count'["signalHandler"] = count["signalHandler"]
        BY <3>4 DEF ContextTypes
      <4> QED BY <1>1, <1>2, <1>3, <2>2, <3>4, <4>1, <4>2 DEF ReleaseInv, Counted
    <3> QED BY <1>6, <3>4, <3>5 DEF StepsInv, SessionInv
  <2>3. CASE what # "count"
    <3>1. UNCHANGED <<count, handlers>>
      BY <2>1, <2>3
    <3>2. MayDrop(what, c)
      <4>1. c \in Types /\ what \in {"instances", "iterators", "plugin", "object"}
        BY <1>3, <2>3, TypesAre
      <4>2. \A d \in ContextTypes : count[d] = 0 \/ object[d] # None
        BY <1>2 DEF ObjectsInv, ContextInv
      <4> QED BY <1>1, <1>2, <1>3, <4>1, <4>2 DEF MayDrop, ReleaseInv, ContextTypes
    <3>3. SessionTypeInv' /\ ObjectsInv'
      BY <1>1, <1>2, <1>5, <2>1, <3>1, <3>2, MayDropIt
    <3>4. ReleaseInv'
      <4>1. /\ runnables' = IF at = 1 THEN <<>> ELSE runnables
            /\ commissions' = IF at = 2 THEN <<>> ELSE commissions
            /\ slippages' = IF at = 3 THEN <<>> ELSE slippages
        BY <1>3, <2>1 DEF Drop
      <4>2. /\ object'["symbolsSource"] = IF at = 9 THEN None ELSE object["symbolsSource"]
            /\ object'["signalHandler"] = IF at = 12 THEN None ELSE object["signalHandler"]
        <5>1. object' = IF what = "object" THEN [object EXCEPT ![c] = None] ELSE object
          BY <2>1 DEF Drop
        <5> QED BY <1>2, <1>3, <5>1 DEF SessionTypeInv, ContextTypes
      <4>3. at' = at + 1 /\ at # 7 /\ at # 8 /\ at # 11 /\ UNCHANGED <<count, document>>
        BY <1>1, <1>3, <2>3, <3>1
      <4> QED BY <1>1, <1>2, <4>1, <4>2, <4>3 DEF ReleaseInv, Counted
    <3> QED BY <1>6, <3>3, <3>4 DEF StepsInv, SessionInv
  <2> QED BY <2>2, <2>3
<1> QED BY <1>7, <1>8

LEMMA ReleasedKeeps ==
  ASSUME IInv, Released
  PROVE  SessionInv'
<1>1. /\ step' = "destroy" /\ at' = 1
      /\ UNCHANGED <<treeVars, document, contextVars, instanceVars>>
  BY DEF Released, Go
<1>2. at' \in Nat \ {0}
  BY <1>1
<1> QED BY <1>1, <1>2, SessionFrame, Leaves DEF IInv, SessionInv

\* What the destructor does, turn by turn.
LEMMA DestructionTurns ==
  ASSUME NEW k \in Nat \ {0}, k <= Len(DestructionOrder)
  PROVE  LET what == DestructionOrder[k][1]
             c == DestructionOrder[k][2]
         IN  \/ k = 1 /\ what = "instances" /\ c = "slippage"
             \/ k = 2 /\ what = "instances" /\ c = "commission"
             \/ k = 3 /\ what = "instances" /\ c = "runnable"
             \/ k = 4 /\ what = "iterators" /\ c = "runnable"
             \/ k = 5 /\ what = "plugin" /\ c = "runnable"
             \/ k = 6 /\ what = "plugin" /\ c = "slippage"
             \/ k = 7 /\ what = "plugin" /\ c = "commission"
             \/ k = 8 /\ what = "count" /\ c = "signalHandler"
             \/ k = 9 /\ what = "object" /\ c = "signalHandler"
             \/ k = 10 /\ what = "plugin" /\ c = "signalHandler"
             \/ k = 11 /\ what = "count" /\ c = "symbolsSource"
             \/ k = 12 /\ what = "object" /\ c = "symbolsSource"
             \/ k = 13 /\ what = "plugin" /\ c = "symbolsSource"
             \/ k = 14 /\ what = "count" /\ c = "dataSource"
             \/ k = 15 /\ what = "object" /\ c = "dataSource"
             \/ k = 16 /\ what = "plugin" /\ c = "dataSource"
<1>1. Len(DestructionOrder) = 16
  BY DEF DestructionOrder
<1>2. k \in 1 .. 16
  BY <1>1
<1>3. \/ k = 1 \/ k = 2 \/ k = 3 \/ k = 4 \/ k = 5 \/ k = 6 \/ k = 7 \/ k = 8 \/ k = 9
      \/ k = 10 \/ k = 11 \/ k = 12 \/ k = 13 \/ k = 14 \/ k = 15 \/ k = 16
  BY <1>2
<1> QED BY <1>3 DEF DestructionOrder

LEMMA DestroyKeeps ==
  ASSUME IInv, Destroy
  PROVE  SessionInv'
<1> DEFINE what == DestructionOrder[at][1]
           c == DestructionOrder[at][2]
<1>1. /\ step = "destroy" /\ at <= Len(DestructionOrder) /\ step' = step /\ at' = at + 1
      /\ IF what = "count" /\ count[c] = 1 THEN ReleaseCount(c) ELSE UNCHANGED <<count, handlers>>
      /\ Drop(what, c) /\ UNCHANGED <<treeVars, document>>
  BY DEF Destroy
<1>2. /\ SessionTypeInv /\ ObjectsInv /\ DestroyInv /\ at \in Nat \ {0}
  BY DEF IInv, StepsInv, SessionTypeInv
<1>3. /\ \/ at = 1 /\ what = "instances" /\ c = "slippage"
         \/ at = 2 /\ what = "instances" /\ c = "commission"
         \/ at = 3 /\ what = "instances" /\ c = "runnable"
         \/ at = 4 /\ what = "iterators" /\ c = "runnable"
         \/ at = 5 /\ what = "plugin" /\ c = "runnable"
         \/ at = 6 /\ what = "plugin" /\ c = "slippage"
         \/ at = 7 /\ what = "plugin" /\ c = "commission"
         \/ at = 8 /\ what = "count" /\ c = "signalHandler"
         \/ at = 9 /\ what = "object" /\ c = "signalHandler"
         \/ at = 10 /\ what = "plugin" /\ c = "signalHandler"
         \/ at = 11 /\ what = "count" /\ c = "symbolsSource"
         \/ at = 12 /\ what = "object" /\ c = "symbolsSource"
         \/ at = 13 /\ what = "plugin" /\ c = "symbolsSource"
         \/ at = 14 /\ what = "count" /\ c = "dataSource"
         \/ at = 15 /\ what = "object" /\ c = "dataSource"
         \/ at = 16 /\ what = "plugin" /\ c = "dataSource"
  BY <1>1, <1>2, DestructionTurns
<1> HIDE DEF what, c
<1>4. at' \in Nat \ {0}
  BY <1>1, <1>2
<1>5. NothingYet' /\ StartInv' /\ ReleaseInv'
  <2>1. step' = "destroy"
    BY <1>1
  <2> QED BY <2>1 DEF NothingYet, StartInv, ReleaseInv, Made, Starting, UpTo, Beginning, ContextTypes
<1>6. /\ SessionTypeInv' /\ ObjectsInv'
      /\ \A d \in ContextTypes : count'[d] = IF what = "count" /\ d = c THEN 0 ELSE count[d]
  <2>1. CASE what = "count" /\ count[c] = 1
    <3>1. c \in ContextTypes
      BY <1>3, <2>1 DEF ContextTypes
    <3>2. ReleaseCount(c) /\ UNCHANGED <<plugin, object, instanceVars>>
      BY <1>1, <2>1 DEF Drop, instanceVars
    <3>3. /\ SessionTypeInv' /\ ObjectsInv'
          /\ count'[c] = 0 /\ \A d \in ContextTypes \ {c} : count'[d] = count[d]
      BY <1>1, <1>2, <1>4, <2>1, <3>1, <3>2, MayRelease
    <3> QED BY <2>1, <3>3
  <2>2. CASE what = "count" /\ count[c] # 1
    <3>1. c \in ContextTypes /\ count[c] = 0
      <4>1. c \in ContextTypes
        BY <1>3, <2>2 DEF ContextTypes
      <4> QED BY <1>2, <2>2, <4>1 DEF ObjectsInv, ContextInv
    <3>2. UNCHANGED <<contextVars, instanceVars>>
      BY <1>1, <2>2 DEF Drop, contextVars, instanceVars
    <3> QED BY <1>1, <1>2, <1>4, <2>2, <3>1, <3>2, SessionFrame DEF contextVars
  <2>3. CASE what # "count"
    <3>1. UNCHANGED <<count, handlers>>
      BY <1>1, <2>3
    <3>2. MayDrop(what, c)
      <4>1. c \in Types /\ what \in {"instances", "iterators", "plugin", "object"}
        BY <1>3, <2>3, TypesAre
      <4> QED BY <1>1, <1>2, <1>3, <4>1 DEF MayDrop, DestroyInv, ContextTypes
    <3>3. SessionTypeInv' /\ ObjectsInv'
      BY <1>1, <1>2, <1>4, <3>1, <3>2, MayDropIt
    <3> QED BY <2>3, <3>1, <3>3
  <2> QED BY <2>1, <2>2, <2>3
<1>7. DestroyInv'
  <2>1. /\ runnables' = IF at = 3 THEN <<>> ELSE runnables
        /\ commissions' = IF at = 2 THEN <<>> ELSE commissions
        /\ slippages' = IF at = 1 THEN <<>> ELSE slippages
        /\ runnablePlugins' = IF at = 5 THEN <<>> ELSE runnablePlugins
    BY <1>1, <1>3 DEF Drop
  <2>2. /\ object'["symbolsSource"] = IF at = 12 THEN None ELSE object["symbolsSource"]
        /\ object'["signalHandler"] = IF at = 9 THEN None ELSE object["signalHandler"]
        /\ object'["dataSource"] = IF at = 15 THEN None ELSE object["dataSource"]
    <3>1. object' = IF what = "object" THEN [object EXCEPT ![c] = None] ELSE object
      BY <1>1 DEF Drop
    <3> QED BY <1>2, <1>3, <3>1 DEF SessionTypeInv, ContextTypes
  <2>3. /\ count'["symbolsSource"] = IF at = 11 THEN 0 ELSE count["symbolsSource"]
        /\ count'["signalHandler"] = IF at = 8 THEN 0 ELSE count["signalHandler"]
        /\ count'["dataSource"] = IF at = 14 THEN 0 ELSE count["dataSource"]
    BY <1>3, <1>6 DEF ContextTypes
  <2>4. /\ plugin'["symbolsSource"] = IF at = 13 THEN None ELSE plugin["symbolsSource"]
        /\ plugin'["signalHandler"] = IF at = 10 THEN None ELSE plugin["signalHandler"]
        /\ plugin'["dataSource"] = IF at = 16 THEN None ELSE plugin["dataSource"]
        /\ plugin'["slippage"] = IF at = 6 THEN None ELSE plugin["slippage"]
        /\ plugin'["commission"] = IF at = 7 THEN None ELSE plugin["commission"]
    <3>1. plugin' = IF what = "plugin" /\ c # "runnable" THEN [plugin EXCEPT ![c] = None] ELSE plugin
      BY <1>1 DEF Drop
    <3> QED BY <1>2, <1>3, <3>1, TypesAre DEF SessionTypeInv
  <2> HIDE <1>6
  <2>5. step' = "destroy" /\ at' = at + 1 /\ step = "destroy"
    BY <1>1
  <2> QED BY <1>2, <2>1, <2>2, <2>3, <2>4, <2>5 DEF DestroyInv
<1> QED BY <1>5, <1>6, <1>7 DEF StepsInv, SessionInv

LEMMA DestroyedKeeps ==
  ASSUME IInv, Destroyed
  PROVE  SessionInv'
<1>1. /\ step = "destroy" /\ at > Len(DestructionOrder) /\ step' = "destroyed" /\ at' = 1
      /\ UNCHANGED <<treeVars, document, contextVars, instanceVars>>
  BY DEF Destroyed, Go
<1>2. at' \in Nat \ {0}
  <2>1. at' = 1
    BY <1>1
  <2> QED BY <2>1
<1>3. SessionTypeInv' /\ ObjectsInv'
  BY <1>1, <1>2, SessionFrame DEF IInv
<1>4. at > 16 /\ at \in Nat \ {0}
  BY <1>1 DEF DestructionOrder, IInv, SessionTypeInv
<1>5. DestroyInv'
  <2>1. UNCHANGED <<runnables, commissions, slippages, runnablePlugins, plugin, object, count>>
    BY <1>1 DEF contextVars, instanceVars
  <2>2. DestroyInv
    BY DEF IInv, StepsInv
  <2> QED BY <1>1, <1>4, <2>1, <2>2 DEF DestroyInv
<1>6. NothingYet' /\ StartInv' /\ ReleaseInv'
  <2>1. step' = "destroyed"
    BY <1>1
  <2> QED BY <2>1 DEF NothingYet, StartInv, ReleaseInv, Made, Starting, UpTo, Beginning, ContextTypes
<1> QED BY <1>3, <1>5, <1>6 DEF StepsInv, SessionInv

-----------------------------------------------------------------------------
(* The theorems *)

LEMMA InductiveStep == IInv /\ [PluginsNext]_pluginVars => IInv'
<1> SUFFICES ASSUME IInv, [PluginsNext]_pluginVars PROVE IInv'
  OBVIOUS
<1>1. TreeInv'
  BY TreeNext DEF IInv
<1>2. SessionInv'
  <2>1. CASE UNCHANGED pluginVars
    <3>1. UNCHANGED <<treeVars, document, step, at, contextVars, instanceVars>>
      BY <2>1 DEF pluginVars
    <3>2. SessionTypeInv' /\ ObjectsInv'
      BY <3>1, SessionFrame DEF IInv, SessionTypeInv
    <3>3. NothingYet'
      BY <3>1 DEF IInv, StepsInv, NothingYet, contextVars, instanceVars
    <3>4. StartInv'
      BY <3>1 DEF IInv, StepsInv, StartInv, Counted, HasPlugin, HasRunnablePlugin, Complete,
                  Instances, SystemOf, treeVars, contextVars, instanceVars
    <3>5. ReleaseInv'
      BY <3>1 DEF IInv, StepsInv, ReleaseInv, Counted, Complete, Instances, SystemOf,
                  contextVars, instanceVars
    <3>6. DestroyInv'
      BY <3>1 DEF IInv, StepsInv, DestroyInv, contextVars, instanceVars
    <3> QED BY <3>2, <3>3, <3>4, <3>5, <3>6 DEF StepsInv, SessionInv
  <2>2. CASE \E t \in Trees : Process(t) \/ Explored(t)
    BY <2>2, ProcessKeeps, ExploredKeeps
  <2>3. CASE Start
    <3>1. CASE CheckDocument
      BY <3>1, CheckDocumentKeeps
    <3>2. CASE CreateDataSource \/ CreateSymbolsSource \/ CreateSignalHandler
      BY <3>2, CreateContextKeeps
         DEF CreateDataSource, CreateSymbolsSource, CreateSignalHandler, InOrder
    <3>3. CASE CreateRunnablePlugin
      BY <3>3, CreateRunnablePluginKeeps
    <3>4. CASE RunnablePluginsCreated
      BY <3>4, RunnablePluginsCreatedKeeps
    <3>5. CASE CreateCommissionPlugin \/ CreateSlippagePlugin
      BY <3>5, CreateDefaultPluginKeeps DEF CreateCommissionPlugin, CreateSlippagePlugin
    <3>6. CASE CreateRunnable
      BY <3>6, CreateRunnableKeeps
    <3>7. CASE Run
      BY <3>7, RunKeeps
    <3> QED BY <2>3, <3>1, <3>2, <3>3, <3>4, <3>5, <3>6, <3>7 DEF Start
  <2>4. CASE Release \/ Released
    BY <2>4, ReleaseKeeps, ReleasedKeeps
  <2>5. CASE Destroy \/ Destroyed
    BY <2>5, DestroyKeeps, DestroyedKeeps
  <2> QED BY <2>1, <2>2, <2>3, <2>4, <2>5 DEF PluginsNext
<1> QED BY <1>1, <1>2 DEF IInv, SessionInv

\* IInv holds in every state of a session, whatever the libraries export and whatever
\* the document asks for.
THEOREM Inductive == PluginsSpec => []IInv
<1> QED BY SessionInit, InductiveStep, PTL DEF PluginsSpec

\* Every configuration that a library offers is in the tree under its plugin and its
\* library, unless it is reported or unauthorized, and no id is there twice.
THEOREM TreesLoseNothing == PluginsSpec => []NothingIsLost
<1>1. IInv => NothingIsLost
  <2> SUFFICES ASSUME TreeInv PROVE NothingIsLost
    BY DEF IInv
  <2>1. ASSUME NEW t \in Trees, todo[t] = <<>>, NEW lib \in Range(path[t]) \ Ignored,
               NEW e \in offer[lib], NEW id \in Range(e.configs)
        PROVE  \/ e.id \in Unauthorized
               \/ {id, e.id} \cap duplicates[t] # {}
               \/ LibraryOf(tree[t], id, e.type) = lib /\ ParentOf(tree[t], id) = e.id
    <3>1. <<lib, e.type>> \notin Range(todo[t])
      BY <2>1, EmptyIsASeq DEF Range
    <3>2. Added(tree[t], duplicates[t], lib, e)
      BY <3>1 DEF TreeInv, TriedInv
    <3>3. CASE e.id \in Unauthorized \/ e.id \in duplicates[t] \/ id \in duplicates[t]
      BY <3>3
    <3>4. CASE /\ PluginNode(e, lib) \in tree[t]
               /\ ConfigNode(id, PluginNode(e, lib)) \in tree[t]
      <4>1. NodesOk(tree[t], offer) /\ offer \in Offers
        BY DEF TreeInv, NodesInv, InputInv
      <4>2. lib \in Libraries
        <5>1. path[t] \in Seq(Libraries)
          BY LibrariesAssumption DEF TreeInv, InputInv
        <5> QED BY <5>1 DEF Range
      <4>3. e.id \notin NoLibrary
        BY <4>1, <4>2, OffersAssumption
      <4>4. ParentOf(tree[t], id) = e.id
            /\ LibraryOf(tree[t], id, e.type) = GetPlugin(tree[t], e.id, e.type)
        BY <3>4, <4>1, <4>3, ConfigIsFound
      <4>5. PluginNode(e, lib) \in tree[t]
        BY <3>4
      <4>6. GetPlugin(tree[t], e.id, e.type) = IF e.type = e.type THEN lib ELSE "wrong type"
        BY <4>1, <4>5, PluginIsFound
      <4> QED BY <4>4, <4>6
    <3> QED BY <3>2, <3>3, <3>4 DEF Added
  <2>2. \A t \in Trees : \A n, m \in tree[t] : n.id = m.id => n = m
    BY DEF TreeInv, NodesInv, NodesOk
  <2> QED BY <2>1, <2>2 DEF NothingIsLost
<1> QED BY <1>1, Inductive, PTL

\* The objects of a session, by kind.
LEMMA ObjectsAre ==
  ASSUME IInv, NEW o \in Objects
  PROVE  \/ \E c \in ContextTypes : object[c] # None /\ o = object[c]
         \/ \E n \in DOMAIN runnables : o = runnables[n]
         \/ \E n \in DOMAIN commissions : o = commissions[n]
         \/ \E n \in DOMAIN slippages : o = slippages[n]
BY DEF Objects, Range

\* As long as an object lives its library is loaded, and at the end nothing is left.
THEOREM ObjectsAreSafe == PluginsSpec => []ObjectsHaveTheirLibrary
<1>1. IInv => ObjectsHaveTheirLibrary
  <2> SUFFICES ASSUME IInv PROVE ObjectsHaveTheirLibrary
    OBVIOUS
  <2>1. ASSUME NEW o \in Objects PROVE o.lib \in Loaded
    <3>1. ASSUME NEW c \in ContextTypes, object[c] # None, o = object[c]
          PROVE  o.lib \in Loaded
      <4>1. object[c] = ObjectOf(c) /\ c \in DOMAIN plugin
        BY <3>1, TypesAre DEF IInv, ObjectsInv, ContextInv, SessionTypeInv, ContextTypes
      <4> QED BY <3>1, <4>1 DEF ObjectOf, Loaded
    <3>2. ASSUME NEW n \in DOMAIN runnables, o = runnables[n]
          PROVE  o.lib \in Loaded
      BY <3>2 DEF IInv, ObjectsInv, RunnablesInv, Loaded
    <3>3. ASSUME NEW n \in DOMAIN commissions, o = commissions[n]
          PROVE  o.lib \in Loaded
      <4>1. o = ObjectOf("commission") /\ "commission" \in DOMAIN plugin
        BY <3>3, TypesAre DEF IInv, ObjectsInv, OwnInv, SessionTypeInv
      <4> QED BY <4>1 DEF ObjectOf, Loaded
    <3>4. ASSUME NEW n \in DOMAIN slippages, o = slippages[n]
          PROVE  o.lib \in Loaded
      <4>1. o = ObjectOf("slippage") /\ "slippage" \in DOMAIN plugin
        BY <3>4, TypesAre DEF IInv, ObjectsInv, OwnInv, SessionTypeInv
      <4> QED BY <4>1 DEF ObjectOf, Loaded
    <3> QED BY <3>1, <3>2, <3>3, <3>4, ObjectsAre
  <2>2. \A c \in ContextTypes : handlers[c] \subseteq {object[c]} /\ None \notin handlers[c]
    BY DEF IInv, ObjectsInv, ContextInv
  <2>3. ASSUME step = "destroyed"
        PROVE  Objects = {} /\ Loaded = {None} /\ \A c \in ContextTypes :
                 count[c] = 0 /\ handlers[c] = {}
    <3>1. /\ runnables = <<>> /\ commissions = <<>> /\ slippages = <<>> /\ runnablePlugins = <<>>
          /\ \A c \in ContextTypes : count[c] = 0 /\ object[c] = None
          /\ \A c \in Types \ {"runnable"} : plugin[c] = None
      BY <2>3, TypesAre DEF IInv, StepsInv, DestroyInv, ContextTypes
    <3>2. Objects = {}
      BY <3>1, EmptyIsASeq DEF Objects, Range
    <3>3. DOMAIN plugin = Types \ {"runnable"} /\ "dataSource" \in DOMAIN plugin
      BY TypesAre DEF IInv, SessionTypeInv
    <3>4. Loaded = {None}
      BY <3>1, <3>3, EmptyIsASeq DEF Loaded
    <3>5. \A c \in ContextTypes : handlers[c] = {}
      BY <3>1 DEF IInv, ObjectsInv, ContextInv
    <3> QED BY <3>1, <3>2, <3>4, <3>5
  <2> QED BY <2>1, <2>2, <2>3 DEF ObjectsHaveTheirLibrary
<1> QED BY <1>1, Inductive, PTL

\* A session gets the objects that it is configured with, of the libraries that offer
\* them, and a system and an iterator for each instance.
THEOREM SessionGetsWhatItAsksFor == PluginsSpec => []SessionIsAsConfigured
<1>1. IInv /\ NothingIsLost => SessionIsAsConfigured
  <2> SUFFICES ASSUME IInv, NothingIsLost PROVE SessionIsAsConfigured
    OBVIOUS
  <2>1. ASSUME NEW o \in Objects
        PROVE  \E e \in offer[o.lib] : e.type = o.type /\ o.id \in Range(e.configs)
    <3>1. Offered(o)
      <4>1. \A c \in ContextTypes : object[c] # None => Offered(object[c])
        BY DEF IInv, ObjectsInv, ContextInv
      <4>2. /\ \A n \in DOMAIN runnables : Offered(runnables[n])
            /\ \A n \in DOMAIN commissions : Offered(commissions[n])
            /\ \A n \in DOMAIN slippages : Offered(slippages[n])
        BY DEF IInv, ObjectsInv, RunnablesInv, OwnInv
      <4> QED BY <4>1, <4>2, ObjectsAre
    <3> QED BY <3>1 DEF Offered
  <2>2. ASSUME NEW n \in DOMAIN runnables, NEW m \in DOMAIN runnables
        PROVE  (runnables[n].id = runnables[m].id)
                 = (runnables[n].iterator = runnables[m].iterator)
    <3>1. /\ \A k \in DOMAIN runnables :
               runnables[k].iterator = iterators[runnables[k].id]
               /\ runnables[k].id \in DOMAIN iterators
      BY DEF IInv, ObjectsInv, RunnablesInv
    <3>2. \A i, j \in DOMAIN iterators : iterators[i] = iterators[j] => i = j
      BY DEF IInv, ObjectsInv, IteratorsInv
    <3> QED BY <3>1, <3>2
  <2>3. ASSUME step = "release", at = 1
        PROVE  /\ {r.id : r \in Range(runnables)} = Range(document.runnables)
               /\ document.oneSystemInMultipleThreads => Len(runnables) >= document.threads
               /\ \A c \in {"dataSource", "symbolsSource"} : object[c].id = document[c]
               /\ document.commission # None => Len(commissions) = Len(runnables)
               /\ document.slippage # None => Len(slippages) = Len(runnables)
    <3>1. /\ Complete(Instances) /\ Counted("dataSource") /\ Counted("symbolsSource")
          /\ document.dataSource # None /\ document.symbolsSource # None
          /\ document.runnables # <<>>
      <4>1. ReleaseInv /\ StartInv
        BY DEF IInv, StepsInv
      <4>2. Complete(Instances) /\ Counted("dataSource") /\ Counted("symbolsSource")
        <5>1. at = 1 /\ at <= 7 /\ at <= 8
          BY <2>3
        <5> QED BY <2>3, <4>1, <5>1 DEF ReleaseInv
      <4>3. /\ document.dataSource # None /\ document.symbolsSource # None
            /\ document.runnables # <<>>
        BY <2>3, <4>1 DEF StartInv
      <4> QED BY <4>2, <4>3
    <3>2. document \in Documents /\ IsASeq(runnables)
      BY DEF IInv, TreeInv, InputInv, SessionTypeInv
    <3>3. /\ Instances \in Nat /\ Instances >= Len(document.runnables)
          /\ Len(document.runnables) \in Nat \ {0}
          /\ DOMAIN document.runnables = 1 .. Len(document.runnables)
          /\ document.oneSystemInMultipleThreads => Instances >= document.threads
          /\ \A n \in 1 .. Instances :
               \E k \in DOMAIN document.runnables : SystemOf(n) = document.runnables[k]
          /\ \A k \in DOMAIN document.runnables : SystemOf(k) = document.runnables[k]
      BY <3>1, <3>2, SystemsOfInstances
    <3>4. /\ Len(runnables) = Instances /\ DOMAIN runnables = 1 .. Instances
          /\ \A k \in 1 .. Instances : runnables[k].id = SystemOf(k)
      BY <3>1, <3>2, AppendIs DEF Complete
    <3>5. {r.id : r \in Range(runnables)} = Range(document.runnables)
      <4>1. ASSUME NEW r \in Range(runnables) PROVE r.id \in Range(document.runnables)
        <5>1. PICK n \in 1 .. Instances : r = runnables[n]
          BY <3>4 DEF Range
        <5>2. PICK k \in DOMAIN document.runnables : SystemOf(n) = document.runnables[k]
          BY <3>3
        <5> QED BY <3>4, <5>1, <5>2 DEF Range
      <4>2. ASSUME NEW k \in DOMAIN document.runnables
            PROVE  \E r \in Range(runnables) : r.id = document.runnables[k]
        <5>1. k \in 1 .. Instances
          BY <3>3
        <5>2. runnables[k] \in Range(runnables)
          BY <3>4, <5>1 DEF Range
        <5> QED BY <3>3, <3>4, <5>1, <5>2
      <4> QED BY <4>1, <4>2 DEF Range
    <3>6. \A c \in {"dataSource", "symbolsSource"} : object[c].id = document[c]
      <4> TAKE c \in {"dataSource", "symbolsSource"}
      <4>1. c \in ContextTypes /\ count[c] = 1
        BY <3>1 DEF Counted, ContextTypes
      <4>2. object[c] = ObjectOf(c)
        BY <4>1 DEF IInv, ObjectsInv, ContextInv
      <4> QED BY <4>2 DEF ObjectOf
    <3> QED BY <3>1, <3>3, <3>4, <3>5, <3>6 DEF Complete
  <2> QED BY <2>1, <2>2, <2>3 DEF SessionIsAsConfigured
<1> QED BY <1>1, Inductive, TreesLoseNothing, PTL

=============================================================================
