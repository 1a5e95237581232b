--------------------------- MODULE OptimizerMain ---------------------------
(***************************************************************************)
(* The optimizer as a program: what it is asked for on its command line    *)
(* and in the files that it names, and the ranges of days it goes through, *)
(* each of them optimized and then, for some types of run, walked forward: *)
(* the systems run on the days that follow, once with the best variables   *)
(* that were found and once with their own.                                *)
(*                                                                         *)
(* A run is a session of its own (ClientSession), which has a value or     *)
(* fails; the search for the best variables is in Optimizer, or in the     *)
(* library of differential evolution, which is external.  A day is a       *)
(* number.  The other options, which are read as these are, and --help,    *)
(* after which main goes on with what was never set, are left out.         *)
(***************************************************************************)
EXTENDS Integers, Sequences, SequencesExt

CONSTANTS
  OptimizerSources, \* what is given: a sequence, the command line before its files
  ThisDay,            \* the default of the end date
  VarsCount         \* VARS_COUNT, 20

OptionDates == {"startdate", "enddate"}
OptionCounts ==
  {"optimizationperiod", "walkforwardperiod", "leadin", "step", "optimize",
   "groupToOptimize"}

\* What is read of a source is of the type of its option.
ASSUME SourcesAssumption ==
  /\ ThisDay \in Int /\ VarsCount \in Nat
  /\ \A s \in OptimizerSources :
       /\ s \in Seq(ToSet(s))
       /\ \A k \in DOMAIN s : \A o \in DOMAIN s[k].options :
            LET v == s[k].options[o]
            IN  /\ o \in OptionDates => v \in Seq(Int)
                /\ o \in OptionCounts => v \in Seq(Nat)
                /\ o = "variable" => v \in Seq(ToSet(v))

VARIABLES
  given,    \* the sources: a file may not be there
  opts,     \* the configuration; <<>> before it is read
  where,    \* what main does next
  first,    \* startDate, of the loop
  best,     \* the variables that were found for this range, if any
  made,     \* the runs that were made for this range
  covered,  \* history: the first days of the ranges that were optimized
  walked,   \* history: and of those that were walked forward
  exitCode      \* how the program ended

optimizerMainVars == <<given, opts, where, first, best, made, covered, walked, exitCode>>

-----------------------------------------------------------------------------
(* The options: values in a sequence; what cannot be read is <<>> *)

RequiredOptions ==
  {"runtype", "direction", "startdate", "optimizationperiod", "walkforwardperiod",
   "variable", "optimize"}
OptionDefaults ==
  [enddate |-> <<ThisDay>>, leadin |-> <<30>>, step |-> <<0>>, groupToOptimize |-> <<0>>]

\* po::store keeps what it has, unless it is a default.
Givers(o) == {k \in DOMAIN given : o \in DOMAIN given[k].options}
ValueOf(o) ==
  IF Givers(o) = {} THEN OptionDefaults[o]
  ELSE given[CHOOSE k \in Givers(o) : \A j \in Givers(o) : k <= j].options[o]

RunTypes ==
  {"de_optimization", "de_walkforward", "adrian_optimization", "adrian_walkforward"}
Directions == {"min", "minimize", "max", "maximize"}

\* A variable is a name with the least and the greatest value of its type.
IsVariable(v) == v.type \in {"real", "int", "integer"}

IsGood(o) ==
  CASE o = "runtype"   -> ValueOf(o)[1] \in RunTypes
    [] o = "direction" -> ValueOf(o)[1] \in Directions
    [] o = "variable"  -> \A k \in DOMAIN ValueOf(o) : IsVariable(ValueOf(o)[k])
    [] OTHER           -> ValueOf(o) # <<>>

\* What is wrong when the values are set, in their order.
WrongValue ==
  LET set == <<"runtype", "direction", "startdate", "enddate", "variable">>
      n == SelectInSeq(set, LAMBDA o : ~IsGood(o))
  IN  IF n = 0 THEN "none" ELSE set[n]

Unreadable ==
  \/ \E k \in DOMAIN given : ~given[k].found
  \/ \E o \in RequiredOptions : Givers(o) = {}
  \/ \E o \in OptionCounts : ~IsGood(o)

Over(how) == where' = "over" /\ exitCode' = how

\* A direction that is not one is an exception that nobody catches.
ProcessOptions ==
  /\ where = "options"
  /\ IF Unreadable THEN Over("error") /\ UNCHANGED <<opts, first>>
     ELSE IF WrongValue = "direction" THEN Over("terminated") /\ UNCHANGED <<opts, first>>
     ELSE IF WrongValue # "none" THEN Over("error") /\ UNCHANGED <<opts, first>>
     ELSE /\ opts' = [o \in RequiredOptions \cup DOMAIN OptionDefaults |-> ValueOf(o)]
          /\ first' = ValueOf("startdate")[1]
          /\ where' = "range" /\ UNCHANGED exitCode
  /\ UNCHANGED <<given, best, made, covered, walked>>

RunType == opts.runtype[1]
EndDate == opts.enddate[1]
OptimizationPeriod == opts.optimizationperiod[1]
Min2(a, b) == IF a < b THEN a ELSE b

-----------------------------------------------------------------------------
(* Variables *)

\* There are at least VarsCount constraints; those of no variable are wide.
Wide == [name |-> "none", type |-> "real", least |-> -1, greatest |-> 1]
Constraints ==
  [k \in 1 .. Len(opts.variable) \cup 1 .. VarsCount |->
     IF k <= Len(opts.variable) THEN opts.variable[k] ELSE Wide]

\* What the search may come to: values at the ends of their constraints.
Vectors ==
  {v \in [DOMAIN Constraints -> UNION {{Constraints[k].least, Constraints[k].greatest} :
                                         k \in DOMAIN Constraints}] :
     \A k \in DOMAIN v : v[k] \in {Constraints[k].least, Constraints[k].greatest}}

\* ExternalVars: of two variables with one name the later one has it.
Paired(names, values) ==
  [n \in ToSet(names) |->
     values[CHOOSE k \in DOMAIN names : names[k] = n /\ \A j \in DOMAIN names :
                                                          names[j] = n => j <= k]]
VariablesNames == [k \in DOMAIN opts.variable |-> opts.variable[k].name]

-----------------------------------------------------------------------------
(* Runs *)

\* Days of data from the lead-in, of trading from the first day on.  (A period of 0 is
\* -1 day as a long.)
RangeFrom(what, day, period, vars) ==
  [what |-> what, from |-> day - opts.leadin[1], trades |-> day,
   to |-> Min2(day + (period - 1), EndDate), vars |-> vars]

\* StatsX has ten names, a statistic four values; else an exception that nobody catches.
HasStatistic == opts.optimize[1] < 10 /\ opts.groupToOptimize[1] < 4

\* TraderyRun::run, and the value of the statistic.  The days are asserted to be in order.
Ran(r) == r.from <= r.to /\ HasStatistic /\ made' = Append(made, r)

\* A run has failed.  Main catches what the external library throws, if it is of the type
\* that it names.
RunFails ==
  /\ where \in {"reference", "search", "walk", "normal"}
  /\ \E how \in {"error", "terminated"} :
       (how = "error" => HasStatistic \/ where = "search") /\ Over(how)
  /\ UNCHANGED <<given, opts, first, best, made, covered, walked>>

OptimizationRun(what, vars) == RangeFrom(what, first, OptimizationPeriod, vars)

\* new_optimization: the value to be bettered is that of a run with no variables.
RunReference ==
  /\ where = "reference"
  /\ Ran(OptimizationRun("reference", <<>>))
  /\ where' = "search"
  /\ UNCHANGED <<given, opts, first, best, covered, walked, exitCode>>

\* de_optimization and new_optimization.  Only the latter may find nothing.
Optimize ==
  /\ where = "search"
  /\ \/ /\ \E v \in Vectors : best' = v
        /\ Ran(OptimizationRun("optimization", Paired(VariablesNames, best')))
        /\ where' = IF RunType = "de_optimization" THEN "step" ELSE "walk"
     \/ /\ RunType = "adrian_optimization" /\ where' = "step"
        /\ UNCHANGED <<best, made>>
  /\ covered' = covered \cup {first}
  /\ UNCHANGED <<given, opts, first, walked, exitCode>>

WalkForwardStart == first + OptimizationPeriod
WalkForwardRun(what, vars) ==
  RangeFrom(what, WalkForwardStart, opts.walkforwardperiod[1], vars)

\* walkForward.  That there is no room for it ends the program, which is taken for
\* complete.
WalkForward ==
  /\ where = "walk"
  /\ IF WalkForwardStart > EndDate THEN Over("success") /\ UNCHANGED made
     ELSE /\ Ran(WalkForwardRun("walk forward", Paired(VariablesNames, best)))
          /\ where' = "normal" /\ UNCHANGED exitCode
  /\ UNCHANGED <<given, opts, first, best, covered, walked>>

RunNormal ==
  /\ where = "normal"
  /\ Ran(WalkForwardRun("normal", <<>>))
  /\ walked' = walked \cup {first}
  /\ where' = "step"
  /\ UNCHANGED <<given, opts, first, best, covered, exitCode>>

-----------------------------------------------------------------------------
(* main *)

\* The loop over the first days.  A walk forward of the other kind does nothing.
NextRange ==
  /\ where = "range"
  /\ IF first > EndDate THEN Over("success")
     ELSE /\ where' = CASE RunType \in {"de_optimization", "de_walkforward"} -> "search"
                        [] RunType = "adrian_optimization" -> "reference"
                        [] RunType = "adrian_walkforward" -> "step"
          /\ UNCHANGED exitCode
  /\ UNCHANGED <<given, opts, first, best, made, covered, walked>>

\* A step of 0, the default, is the same range again.
StepForward ==
  /\ where = "step"
  /\ first' = first + opts.step[1]
  /\ best' = <<>> /\ made' = <<>>
  /\ where' = "range"
  /\ UNCHANGED <<given, opts, covered, walked, exitCode>>

OptimizerMainInit ==
  /\ given \in OptimizerSources
  /\ opts = <<>> /\ where = "options" /\ first = 0 /\ best = <<>> /\ made = <<>>
  /\ covered = {} /\ walked = {} /\ exitCode = "none"

OptimizerMainNext ==
  \/ ProcessOptions \/ NextRange \/ RunReference \/ Optimize \/ WalkForward \/ RunNormal
  \/ RunFails \/ StepForward

-----------------------------------------------------------------------------
(* Properties *)

Tried == {"reference", "optimization"}
SameDays(r, w) == r.from = w.from /\ r.trades = w.trades /\ r.to = w.to

\* The days of a walk forward come after the days that its variables were chosen on, with
\* none between and none past the end date; the variables are those chosen, each within
\* its own limits; and the normal run is over the same days.
OutOfSample ==
  \A j, k \in DOMAIN made :
    LET r == made[j]
        w == made[k]
    IN  /\ r.to <= EndDate
        /\ r.what \in Tried /\ w.what \in Tried => SameDays(r, w)
        /\ r.what \in Tried /\ w.what \notin Tried =>
             /\ r.to < w.trades
             /\ r.to < EndDate => w.trades = r.to + 1
             /\ w.what = "walk forward" /\ r.what = "optimization" => w.vars = r.vars
        /\ r.what = "walk forward" /\ w.what = "normal" =>
             SameDays(r, w) /\ w.vars = <<>>
        /\ \A n \in DOMAIN r.vars :
             \E i \in DOMAIN opts.variable :
               opts.variable[i].name = n /\ r.vars[n] \in {opts.variable[i].least,
                                                          opts.variable[i].greatest}

\* Success is told when every range that begins up to the end date was optimized, but for
\* those after the first that leaves no day to walk forward; and all others were walked
\* forward.  (One type of run does nothing and succeeds.)
SuccessIsComplete ==
  exitCode = "success" /\ RunType # "adrian_walkforward" =>
    LET start == ValueOf("startdate")[1]
        step == opts.step[1]
        starts == {d \in start .. EndDate : IF step = 0 THEN d = start ELSE (d - start) % step = 0}
        short(d) == d + OptimizationPeriod > EndDate
        walks == RunType # "de_optimization"
    IN  /\ covered \subseteq starts
        /\ \A d \in starts \ covered : walks /\ \E c \in covered : c < d /\ short(c)
        /\ RunType = "de_walkforward" => walked = {d \in covered : ~short(d)}

\* Who asks for ranges of days gets them, and what is not understood runs nothing.
RangesAreAsAsked ==
  /\ OutOfSample /\ SuccessIsComplete
  /\ opts = <<>> => made = <<>> /\ exitCode # "success"
=============================================================================
