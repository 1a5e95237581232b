----------------------------- MODULE MCPlugins -----------------------------
(***************************************************************************)
(* Instances of Plugins for TLC: a library like that of fileplugins, one   *)
(* beside it with another or the same ids, and two with systems.           *)
(***************************************************************************)
EXTENDS Plugins

MCLibraries == {"file", "other", "systems", "more", "chartdir60"}

MCPaths == {[global |-> <<"file", "other", "chartdir60">>, session |-> <<"systems", "more">>],
            [global |-> <<"other", "file">>, session |-> <<"more", "systems">>]}

Offer(type, id, configs) == [type |-> type, id |-> id, configs |-> configs]

FileOffers ==
  {Offer("dataSource", "D", <<"d1", "d2">>), Offer("symbolsSource", "S", <<"s1">>),
   Offer("signalHandler", "H", <<"h1">>), Offer("commission", "C", <<"c1">>),
   Offer("slippage", "L", <<"l1">>)}

OtherOffers ==
  {{}, {Offer("symbolsSource", "S2", <<"s2">>)}, {Offer("symbolsSource", "S2", <<"s2", "s1">>)},
   {Offer("dataSource", "S", <<"s2">>)}, {Offer("symbolsSource", "banned", <<"s2">>)}}

MoreOffers == {{}, {Offer("runnable", "R2", <<"r3">>)}, {Offer("runnable", "R2", <<"r3", "r1">>)}}

MCOffers ==
  {[file |-> FileOffers, other |-> o, systems |-> {Offer("runnable", "R", <<"r1", "r2">>)},
    more |-> m, chartdir60 |-> {Offer("dataSource", "D3", <<"d3">>)}] :
     o \in OtherOffers, m \in MoreOffers}

MCRootIds ==
  [dataSource |-> "rd", symbolsSource |-> "rs", runnable |-> "rr", commission |-> "rc",
   slippage |-> "rl", signalHandler |-> "rh"]

\* What asks for all that is needed, and what leaves out one thing or another.
Whole ==
  [dataSource : {"d1", "s1", "D"}, symbolsSource : {"s1", "s2"}, signalHandler : {"h1"},
   commission : {None, "c1"}, slippage : {None, "l1", "L"},
   runnables : {<<"r1">>, <<"r1", "r2">>, <<"r3", "r1">>}, threads : {3},
   oneSystemInMultipleThreads : BOOLEAN]
Some == {d \in Whole : d.commission = None /\ d.slippage = None /\ d.dataSource = "d1"}
MCDocuments ==
  Whole \cup {[d EXCEPT !.signalHandler = None] : d \in Some}
        \cup {[d EXCEPT !.dataSource = None] : d \in Some}
        \cup {[d EXCEPT !.symbolsSource = None] : d \in Some}
        \cup {[d EXCEPT !.runnables = <<>>] : d \in Some}
=============================================================================
