---------------------------- MODULE Configuration ----------------------------
(***************************************************************************)
(* What a session is asked for: the options of the command line and of the *)
(* configuration files, the Configuration read from them, its validation,  *)
(* and the Document made from it.                                          *)
(*                                                                         *)
(* The value of an option is a sequence of texts, of which one is "empty"; *)
(* a number is any other text.  What is parsed has no name of a program.   *)
(***************************************************************************)
EXTENDS Naturals, Sequences, SequencesExt

CONSTANTS CommandLines,  \* functions from some options to values
          ConfigFiles,   \* sequences of such functions
          Flaws          \* "none", or what is wrong with the surroundings

\* An option that is given has a value.
Filled(options) == \A o \in DOMAIN options :
  options[o] \in Seq(ToSet(options[o])) /\ options[o] # <<>>

ASSUME GivenAssumption ==
  /\ \A c \in CommandLines : Filled(c)
  /\ \A f \in ConfigFiles : f \in Seq(ToSet(f)) /\ \A k \in DOMAIN f : Filled(f[k])

VARIABLES line,      \* the options of the command line
          files,     \* and of the configuration files that it names
          flaw,
          vm,        \* the values stored
          point,     \* what is done next
          taken,     \* how many files have been
          verdict,   \* "none" until the end
          session    \* what the document says

configVars == <<line, files, flaw, vm, point, taken, verdict, session>>

-----------------------------------------------------------------------------
(* The options *)

Composing == {"define", "includepath", "libpath", "systemfile"}

\* Files of the session's directory
DefaultedFiles ==
  {"tradesfile", "statsfile", "statscsvfile", "equitycurvefile", "signalscsvfile",
   "signalsdescfile", "rawsignalscsvfile", "chartdescriptionfile"}
DefaultedDates == {"fromdatetime", "todatetime", "starttradesdate"}
Zeros == {"defslippagevalue", "defcommissionvalue"}

\* The date of a default is blank, the numbers are 0.
DefaultOf ==
  [o \in DefaultedFiles \cup DefaultedDates \cup Zeros \cup
         {"linesperpage", "threads", "ospath", "explicittradesext", "dataerrorhandling"} |->
     IF o \in DefaultedDates THEN <<"empty">>
     ELSE IF o \in Zeros THEN <<"zero">> ELSE <<"default">>]

\* The value that is found, if any.
IsStored(o) == o \in DOMAIN vm \cup DOMAIN DefaultOf
Value(o) == IF o \in DOMAIN vm THEN vm[o] ELSE DefaultOf[o]

\* What is read of it is not empty.
HasText(o) == IsStored(o) /\ (o \in Composing \/ Value(o) # <<"empty">>)

-----------------------------------------------------------------------------
(* Reading *)

End(what) == point' = "end" /\ verdict' = what

\* MUTANT: a later file wins.
StoreLater(m, given) ==
  [o \in DOMAIN m \cup DOMAIN given |-> IF o \in DOMAIN given THEN given[o] ELSE m[o]]

\* What is there stays; but the values of an option that composes add up.
Store(m, given) ==
  [o \in DOMAIN m \cup DOMAIN given |->
     IF o \notin DOMAIN m THEN given[o]
     ELSE IF o \in Composing /\ o \in DOMAIN given THEN m[o] \o given[o] ELSE m[o]]

\* An option of one value may not come twice from one place, unless it is there already.
Twice(m, given) == \E o \in DOMAIN given \ (Composing \cup DOMAIN m) : Len(given[o]) > 1

StoreFrom(given) ==
  IF Twice(vm, given) THEN End("twice") /\ UNCHANGED vm
  ELSE vm' = Store(vm, given) /\ point' = "files" /\ UNCHANGED verdict

ConfigurationInit ==
  /\ line \in CommandLines /\ files \in ConfigFiles /\ flaw \in Flaws
  /\ vm = <<>> /\ point = "line" /\ taken = 0 /\ verdict = "none" /\ session = <<>>

StoreLine ==
  /\ point = "line" /\ StoreFrom(line)
  /\ UNCHANGED <<line, files, flaw, taken, session>>

StoreFile ==
  /\ point = "files" /\ taken < Len(files)
  /\ taken' = taken + 1
  /\ IF flaw = "no config file" /\ taken' = Len(files) THEN End(flaw) /\ UNCHANGED vm
     ELSE StoreFrom(files[taken'])
  /\ UNCHANGED <<line, files, flaw, session>>

\* A directory that is there already is an error.  Help makes the directory, too.
MakeSessionPath ==
  /\ point = "files" /\ taken = Len(files)
  /\ IF flaw = "session exists" /\ IsStored("sessionid") THEN End(flaw)
     ELSE IF IsStored("help") THEN End("help")
     ELSE point' = "read" /\ UNCHANGED verdict
  /\ UNCHANGED <<line, files, flaw, vm, taken, session>>

\* These are read whether or not they are there.
Unguarded ==
  <<"includepath", "libpath", "toolspath", "pluginpath", "dllpath", "defcommissionid",
    "defslippageid", "symchartfile", "sysnamekword", "classnamekword", "envpath",
    "envinclude", "envlib">>

NoSystemFile == flaw = "no system file" /\ IsStored("systemfile")
InvalidMacro == IsStored("define") /\ "lone" \in ToSet(Value("define"))

ReadOptions ==
  /\ point = "read"
  /\ IF NoSystemFile THEN End(flaw)
     ELSE IF InvalidMacro THEN End("invalid macro")
     ELSE IF \E o \in ToSet(Unguarded) : ~IsStored(o) THEN End("bad cast")
     ELSE point' = "validate" /\ UNCHANGED verdict
  /\ UNCHANGED <<line, files, flaw, vm, taken, session>>

Validated ==
  <<"systemfile", "includepath", "libpath", "toolspath", "projectpath", "outputpath",
    "symbolssourceid", "statshandlerid", "symbolssourcefile", "datasourcepath",
    "datasourceid", "ospath", "sessionparentpath", "explicittradesext">>

\* hasSymbolsSourceFile asks for the symbols source.
IsThere(o) == HasText(IF o = "symbolssourcefile" THEN "symbolssourceid" ELSE o)

Validate ==
  /\ point = "validate"
  /\ LET n == SelectInSeq(Validated, LAMBDA o : ~IsThere(o))
     IN IF n # 0 THEN End(Validated[n])
        ELSE point' = "document" /\ UNCHANGED verdict
  /\ UNCHANGED <<line, files, flaw, vm, taken, session>>

-----------------------------------------------------------------------------
(* The document *)

\* The strings for the handler of statistics and signals, which reads them by position.
HandlerFiles ==
  <<"statscsvfile", "statsfile", "equitycurvefile", "signalscsvfile", "signalsdescfile",
    "linesperpage", "rawsignalscsvfile", "sessionid">>

DateOf(o, blank) == IF HasText(o) THEN Value(o)[1] ELSE blank
From == DateOf("fromdatetime", "-infinity")
To == DateOf("todatetime", "infinity")
Before == {<<"early", "late">>}
\* The date from which to trade is read, too, but nobody gets it.
WrongDate == "wrong" \in {From, To, DateOf("starttradesdate", "none")}

Document ==
  [stats |-> HasText("statsfile"), equity |-> HasText("equitycurvefile"),
   trades |-> HasText("tradesfile"), charts |-> HasText("chartdescriptionfile"),
   slippage |-> Value("defslippagevalue") # <<"zero">>,
   commission |-> Value("defcommissionvalue") # <<"zero">>,
   runnables |-> Len(Value("systemfile")), range |-> <<From, To>>, threads |-> Value("threads"),
   handler |-> [n \in DOMAIN HandlerFiles |->
                  IF IsStored(HandlerFiles[n]) THEN Value(HandlerFiles[n]) ELSE <<"random">>],
   data |-> <<Value("datasourcepath"), Value("dataerrorhandling")>>,
   symbols |-> IF IsStored("symbolssourcefile") THEN Value("symbolssourcefile") ELSE <<"empty">>]

MakeDocument ==
  /\ point = "document"
  /\ IF WrongDate \/ <<To, From>> \in Before THEN End("dates") /\ UNCHANGED session
     ELSE End("runs") /\ session' = Document
  /\ UNCHANGED <<line, files, flaw, vm, taken>>

ConfigurationNext ==
  StoreLine \/ StoreFile \/ MakeSessionPath \/ ReadOptions \/ Validate \/ MakeDocument

-----------------------------------------------------------------------------
\* Where an option is found, in the order of precedence: the command line, then the
\* files in the order in which it names them, and only then the default.
Places == <<line>> \o files
Naming(o) == {k \in DOMAIN Places : o \in DOMAIN Places[k]}
Asked(o) ==
  IF Naming(o) # {} THEN Places[Min(Naming(o))][o]
  ELSE IF o \in DOMAIN DefaultOf THEN DefaultOf[o] ELSE <<>>

\* All that is said of an option that composes, each by its place.
Said(o) == UNION {{k} \X DOMAIN Places[k][o] : k \in Naming(o)}
Texts(o) == {Places[t[1]][o][t[2]] : t \in Said(o)}

IsAsked(o) == IF o \in Composing THEN Said(o) # {} ELSE Asked(o) \notin {<<>>, <<"empty">>}

\* A session that runs is the one asked for: what the command line says holds whatever
\* the files say, nothing that is required is missing but the file of symbols, which
\* nobody looks for, and an output is made exactly if its file has a name.  The range
\* has a first date that is not after its last.  A session that does not run says why,
\* but for an argument that is read before it is looked for; and what stops it is
\* really so.
SessionIsAsAsked ==
  /\ verdict = "runs" =>
       /\ \A o \in ToSet(Validated) \ {"symbolssourcefile"} : IsAsked(o)
       /\ session.stats = IsAsked("statsfile") /\ session.equity = IsAsked("equitycurvefile")
       /\ session.trades = IsAsked("tradesfile")
       /\ session.charts = IsAsked("chartdescriptionfile")
       /\ session.runnables = Cardinality(Said("systemfile"))
       /\ session.slippage = (Asked("defslippagevalue") # <<"zero">>)
       /\ \A n \in DOMAIN HandlerFiles \ {8} : session.handler[n] = Asked(HandlerFiles[n])
       /\ session.range # <<"late", "early">> /\ "wrong" \notin ToSet(session.range)
       /\ session.data[1] = Asked("datasourcepath")
       /\ flaw = "session exists" => Asked("sessionid") = <<>>
  /\ verdict \in ToSet(Validated) => ~IsAsked(verdict)
  /\ verdict = "bad cast" => \E o \in ToSet(Unguarded) : Naming(o) = {}
  /\ verdict = "invalid macro" => "lone" \in Texts("define")
=============================================================================
