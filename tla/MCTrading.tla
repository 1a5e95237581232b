----------------------------- MODULE MCTrading -----------------------------
(***************************************************************************)
(* What is plugged into the library and what is made of its results, for   *)
(* TLC: the plugins of a session, the example systems, the system that     *)
(* makes the trades of a file, the failures of a run, the charts, the        *)
(* lists of trades, and the statistics.  A behaviour is one of one part;   *)
(* the other parts stay as they are.                                       *)
(***************************************************************************)
EXTENDS MCPlugins, SampleSystems, ExternalTrades, RunErrors, Charts, TradeLists,
  Statistics, Configuration, OptimizerMain

VARIABLE part   \* the part that runs

vars == <<part, pluginVars, systemVars, externalVars, errorVars, chartVars,
  listVars, statsVars, configVars, optimizerMainVars>>

MCData ==
  {Missing, <<>>, <<[day |-> 2, open |-> 1, close |-> 1]>>,
   <<[day |-> 4, open |-> 2, close |-> 1], [day |-> 5, open |-> 2, close |-> 3]>>}

Deal(s, long, exit, commission) ==
  [symbol |-> s, long |-> long, entry |-> 2, exit |-> exit, enabled |-> TRUE,
   commission |-> commission, slippage |-> 1]

Complete ==
  [o \in (ToSet(Unguarded) \cup ToSet(Validated)) \ DOMAIN DefaultOf |-> <<"line">>]
Extended(f, o, v) == [p \in DOMAIN f \cup {o} |-> IF p = o THEN <<v>> ELSE f[p]]

\* All that is required; or one option less, empty, twice, or more; or dates.
MCLines ==
  {Complete} \cup {[p \in DOMAIN Complete \ {o} |-> <<"line">>] : o \in DOMAIN Complete}
  \cup {Extended(Complete, o, "empty") :
          o \in (ToSet(Validated) \cup DefaultedFiles) \ Composing}
  \cup {[Complete EXCEPT ![o] = <<"line", "more">>] : o \in {"toolspath", "systemfile"}}
  \cup {Extended(Complete, o, v) :
          o \in {"help", "sessionid", "define", "defslippagevalue", "starttradesdate"},
          v \in {"line", "lone", "wrong"}}
  \cup {Extended(Extended(Complete, "fromdatetime", f), "todatetime", t) :
          f \in {"early", "late", "wrong"}, t \in {"early", "late", "empty"}}

\* One option in each of at most two files.
OneOption(place) ==
  {[o \in {p} |-> <<v>>] :
     p \in {"toolspath", "includepath", "statshandlerid", "tradesfile"}, v \in {place, "empty"}}
  \cup {[o \in {"define"} |-> <<"lone">>], [o \in {"toolspath"} |-> <<place, place>>]}
MCConfigFiles ==
  {<<>>} \cup {<<f>> : f \in OneOption("first")}
  \cup {<<f, g>> : f \in OneOption("first"), g \in OneOption("second")}

\* The optimizer: each type of run over days up to today or to another one, in steps or
\* not; and what is wrong, said twice, or said in files.
Searched(name, type) == [name |-> name, type |-> type, least |-> 1, greatest |-> 2]
Wanted(type, ends, days, walk, every) ==
  [runtype |-> <<type>>, direction |-> <<"max">>, startdate |-> <<1>>, enddate |-> <<ends>>,
   optimizationperiod |-> <<days>>, walkforwardperiod |-> <<walk>>, step |-> <<every>>,
   leadin |-> <<walk - 1>>, variable |-> <<Searched("x", "real")>>, optimize |-> <<1>>]
Without(f, o) == [p \in DOMAIN f \ {o} |-> f[p]]
Given(f) == [found |-> TRUE, options |-> f]
MCOptimizerSources ==
  LET usual == Wanted("de_walkforward", 5, 2, 1, 1)
      two(n, t) == <<Searched("x", "real"), Searched(n, t)>>
  IN  {<<Given(Wanted(type, ends, days, walk, every))>> :
         type \in RunTypes, ends \in {0, 5}, days \in {0, 2}, walk \in {1, 2}, every \in 0 .. 2}
      \cup {<<Given(Without(usual, o))>> : o \in DOMAIN usual}
      \cup {<<Given([usual EXCEPT ![o] = <<"wrong">>])>> : o \in {"runtype", "direction"}}
      \cup {<<Given([usual EXCEPT ![o] = <<>>])>> : o \in {"startdate", "enddate", "step"}}
      \cup {<<Given([usual EXCEPT !.optimize = <<10>>])>>}
      \cup {<<Given([usual EXCEPT !.variable = two(n, t)])>> :
               n \in {"x", "y"}, t \in {"int", "wrong"}}
      \cup {<<Given(Without(usual, "enddate")), Given([o \in {"enddate", "step"} |-> <<2>>])>>,
            <<Given(usual), [found |-> FALSE, options |-> <<>>]>>}

\* One of each symbol: open, won, lost, or neither.
MCDeals ==
  {<<p, q>> : p \in {Deal(1, long, exit, 1) : long \in BOOLEAN, exit \in {0, 1, 3}},
              q \in {Deal(2, TRUE, 0, 0), Deal(2, TRUE, 4, 0), Deal(2, FALSE, 2, 0)}}

\* No file, one without bars, one of good bars, and one with four invalid ones.
BarOf(o, h, l, c, v) == [open |-> o, high |-> h, low |-> l, close |-> c, volume |-> v]
Supply(f, bs) == [flaw |-> f, bars |-> bs]
MCSupplies ==
  LET good == BarOf(2, 3, 1, 2, 1)
  IN  {Supply("missing", <<>>), Supply("none", <<>>), Supply("none", <<good, good>>),
       Supply("none", <<BarOf(2, 1, 1, 1, 1), BarOf(0, 0, 0, 0, 0), good,
                        BarOf(2, 3, 1, 2, 0), BarOf(1, 2, 2, 2, 1)>>)}

\* The files of symbols of the sessions with charts, and what systems draw: bands on
\* the prices and beside them, and what is too much or fails.
Listed(comment, symbols) == [comment |-> comment, symbols |-> symbols]
MCFiles ==
  [one |-> <<Listed(FALSE, <<"A">>)>>, two |-> <<Listed(FALSE, <<"A", "B">>)>>,
   twice |-> <<Listed(TRUE, <<"B">>), Listed(FALSE, <<"A">>), Listed(FALSE, <<"B", "A">>)>>,
   cases |-> <<Listed(FALSE, <<"A", "a">>), Listed(TRUE, <<"B">>)>>,
   lower |-> <<Listed(FALSE, <<"a", "B">>)>>, absent |-> NoFile, unnamed |-> NoName]
MCChartSessions ==
  {[systems |-> s[1], source |-> MCFiles[s[2]], toChart |-> MCFiles[s[3]]] :
     s \in {<<2, "one", "cases">>, <<2, "one", "lower">>, <<1, "twice", "cases">>,
            <<1, "two", "lower">>, <<1, "two", "unnamed">>, <<1, "absent", "two">>,
            <<1, "two", "absent">>}}
MCLowerCase == [s \in {"A", "a", "B"} |-> IF s = "B" THEN "b" ELSE "a"]
MCDrawings ==
  {<<>>, <<"default", "default", "pane", "line", "line">>, [k \in 1 .. 6 |-> "pane"],
   [k \in 1 .. 5 |-> "default"], <<"pane", "line", "error">>, <<"default", "exit">>}

\* Positions that are entered and exited by orders of each kind, or left open.
Position(side, entered, kind, until, how, gain) ==
  [long |-> side, at |-> entered, kind |-> kind, until |-> until, how |-> how, gain |-> gain]
MCPositions ==
  {Position(TRUE, 1, "limit", 2, "market", 1), Position(FALSE, 1, "stop", 3, "close", 0),
   Position(TRUE, 2, "market", 0, "none", 0), Position(TRUE, 1, "close", 2, "stop", 0)}
MCRunSymbols == <<2, 1>>
MCOutputs ==
  {[files |-> {"raw", "html", "desc", "csv"}, page |-> 2], [files |-> {"html", "csv"}, page |-> 1]}

IdlePlugins ==
  /\ path = None /\ offer = None /\ document = None /\ step = "idle" /\ at = 1
  /\ tree = [t \in Trees |-> {}] /\ duplicates = [t \in Trees |-> {}]
  /\ todo = [t \in Trees |-> <<"idle">>]
  /\ plugin = [c \in Types \ {"runnable"} |-> None]
  /\ object = [c \in ContextTypes |-> None]
  /\ count = [c \in ContextTypes |-> 0] /\ handlers = [c \in ContextTypes |-> {}]
  /\ runnablePlugins = <<>> /\ iterators = <<>>
  /\ runnables = <<>> /\ commissions = <<>> /\ slippages = <<>>

IdleSystems ==
  /\ system = SystemTemplate /\ size = 0 /\ handled = TRUE /\ sink = FALSE
  /\ stage = "done" /\ bar = 0 /\ run = FirstRun(system)

IdleExternal ==
  /\ phase = "ended" /\ file = <<>> /\ dates = <<>> /\ barNo = 0 /\ price = 0 /\ due = {}
  /\ ids = <<>> /\ opened = <<>> /\ failed = "no"

IdleErrors ==
  handling = "fatal" /\ here = Fresh(Supply("none", <<>>)) /\ past = <<>>

IdleCharts ==
  /\ source = <<>> /\ toChart = <<>> /\ describedIn = "file"
  /\ charts = <<>> /\ runs = <<>> /\ drawn = "no" /\ written = <<>>

IdleLists ==
  /\ trades = <<>> /\ containers = <<>> /\ all = NewContainer /\ disabled = {}
  /\ ending = "run" /\ calls = 0 /\ asked = <<>> /\ times = 0
  /\ out = [files |-> {}, page |-> 1] /\ lists = NoLists

IdleStatistics ==
  /\ wanted = {} /\ edr = [from |-> NegInf, to |-> PosInf] /\ dealt = <<>>
  /\ data = [s \in 1 .. SymbolCount |-> Missing]
  /\ progress = NoProgress /\ moment = "start" /\ equity = FALSE /\ held = <<>>
  /\ tables = [t \in {"all", "long", "short", "held"} |-> EmptyTable] /\ outcome = "no"

IdleConfiguration ==
  /\ line = <<>> /\ files = <<>> /\ flaw = "none" /\ vm = <<>>
  /\ point = "end" /\ taken = 0 /\ verdict = "none" /\ session = <<>>

IdleOptimizerMain ==
  /\ given = <<>> /\ opts = <<>> /\ where = "over" /\ first = 0 /\ best = <<>>
  /\ made = <<>> /\ covered = {} /\ walked = {} /\ exitCode = "none"

Idle(p) ==
  /\ p # "plugins" => IdlePlugins
  /\ p # "systems" => IdleSystems
  /\ p # "external" => IdleExternal
  /\ p # "errors" => IdleErrors
  /\ p # "charts" => IdleCharts
  /\ p # "lists" => IdleLists
  /\ p # "statistics" => IdleStatistics
  /\ p # "configuration" => IdleConfiguration
  /\ p # "optimizer" => IdleOptimizerMain

Init ==
  \/ part = "plugins" /\ PluginsInit /\ Idle(part)
  \/ part = "systems" /\ SystemsInit /\ Idle(part)
  \/ part = "external" /\ ExternalInit /\ Idle(part)
  \/ part = "errors" /\ ErrorsInit /\ Idle(part)
  \/ part = "charts" /\ ChartsInit /\ Idle(part)
  \/ part = "lists" /\ ListsInit /\ Idle(part)
  \/ part = "statistics" /\ StatisticsInit /\ Idle(part)
  \/ part = "configuration" /\ ConfigurationInit /\ Idle(part)
  \/ part = "optimizer" /\ OptimizerMainInit /\ Idle(part)

Next ==
  /\ UNCHANGED part
  /\ \/ part = "plugins" /\ PluginsNext
        /\ UNCHANGED <<systemVars, externalVars, errorVars,
                       chartVars, listVars, statsVars, configVars, optimizerMainVars>>
     \/ part = "systems" /\ SystemsNext
        /\ UNCHANGED <<pluginVars, externalVars, errorVars,
                       chartVars, listVars, statsVars, configVars, optimizerMainVars>>
     \/ part = "external" /\ ExternalNext
        /\ UNCHANGED <<pluginVars, systemVars, errorVars,
                       chartVars, listVars, statsVars, configVars, optimizerMainVars>>
     \/ part = "errors" /\ ErrorsNext
        /\ UNCHANGED <<pluginVars, systemVars, externalVars,
                       chartVars, listVars, statsVars, configVars, optimizerMainVars>>
     \/ part = "charts" /\ ChartsNext
        /\ UNCHANGED <<pluginVars, systemVars, externalVars,
                       errorVars, listVars, statsVars, configVars, optimizerMainVars>>
     \/ part = "lists" /\ ListsNext
        /\ UNCHANGED <<pluginVars, systemVars, externalVars,
                       errorVars, chartVars, statsVars, configVars, optimizerMainVars>>
     \/ part = "statistics" /\ StatisticsNext
        /\ UNCHANGED <<pluginVars, systemVars, externalVars,
                       errorVars, chartVars, listVars, configVars, optimizerMainVars>>
     \/ part = "configuration" /\ ConfigurationNext
        /\ UNCHANGED <<pluginVars, systemVars, externalVars,
                       errorVars, chartVars, listVars, statsVars, optimizerMainVars>>
     \/ part = "optimizer" /\ OptimizerMainNext
        /\ UNCHANGED <<pluginVars, systemVars, externalVars, errorVars,
                       chartVars, listVars, statsVars, configVars>>

Spec == Init /\ [][Next]_vars

\* What a run comes to is there to see: in the charts, in what is told of its failures,
\* and in the lists of its trades.
RunsAreShown == ChartsShowTheRuns /\ FailuresAreTold /\ ListsShowTheTrades

\* The programs do what their command lines and files ask for, and nothing when these
\* are not understood.
ProgramsAreAsAsked == SessionIsAsAsked /\ RangesAreAsAsked
=============================================================================
