---------------------------- MODULE TradingProofs ----------------------------
(***************************************************************************)
(* What is made of a command line, for all command lines, files and        *)
(* failures: the program that optimizes covers the days it is given, in    *)
(* order and without a gap, and a session that runs is the one asked for.  *)
(* And of a file of trades: they are made as they are written.             *)
(***************************************************************************)
EXTENDS MCTrading, FiniteSetTheorems, WellFoundedInduction, TLAPS

-----------------------------------------------------------------------------
(* The ranges of the optimizer *)

\* A set of naturals that is not empty has a least element.
LEMMA LeastExists ==
  ASSUME NEW S \in SUBSET Nat, S # {}
  PROVE  \E x \in S : \A y \in S : x <= y
<1>1. PICK x \in S : \A y \in S : <<y, x>> \notin OpToRel(<, Nat)
  BY NatLessThanWellFounded, WFMin, Zenon
<1>2. \A y \in S : ~(y < x)
  <2> SUFFICES ASSUME NEW y \in S PROVE ~(y < x)
    OBVIOUS
  <2>1. x \in Nat /\ y \in Nat
    OBVIOUS
  <2>2. QED
    BY <1>1, <2>1, Zenon DEF OpToRel
<1>3. QED
  BY <1>2

\* A set of numbers from 1 to n that is not empty has a greatest element.
LEMMA GreatestExists ==
  ASSUME NEW n \in Nat, NEW S \in SUBSET (1 .. n), S # {}
  PROVE  \E x \in S : \A y \in S : y <= x
<1> DEFINE T == {n - y : y \in S}
<1>1. T \in SUBSET Nat /\ T # {}
  <2>1. \A y \in S : n - y \in Nat
    OBVIOUS
  <2>2. QED
    BY <2>1, Zenon
<1>2. PICK t \in T : \A u \in T : t <= u
  BY <1>1, LeastExists
<1>3. PICK x \in S : t = n - x
  OBVIOUS
<1>4. \A y \in S : n - x <= n - y
  BY <1>2, <1>3
<1>5. QED
  BY <1>4

\* A multiple of n that is not 0 is as far from 0 as n.
LEMMA OwnMultiple ==
  ASSUME NEW n \in Nat \ {0}, NEW x \in Int
  PROVE  /\ n * x > 0 => n * x >= n
         /\ n * x < 0 => n * x <= -n
<1>1. CASE x >= 1
  <2>1. n * (x - 1) >= 0
    BY <1>1
  <2>2. QED
    BY <1>1, <2>1
<1>2. CASE x <= -1
  <2>1. n * (-1 - x) >= 0
    BY <1>2
  <2>2. QED
    BY <1>2, <2>1
<1>3. CASE x = 0
  BY <1>3
<1>4. QED
  BY <1>1, <1>2, <1>3

\* 0 is a multiple of n.
LEMMA ZeroIsMultiple ==
  ASSUME NEW n \in Nat \ {0}
  PROVE  0 % n = 0
<1> DEFINE d == 0 \div n
           r == 0 % n
<1>1. d \in Int /\ r \in Int /\ 0 <= r /\ r < n /\ 0 = n * d + r
  OBVIOUS
<1> HIDE DEF d, r
<1>2. -d \in Int /\ n * (-d) = r
  BY <1>1
<1>3. r = 0
  BY <1>1, <1>2, OwnMultiple
<1>4. QED
  BY <1>3 DEF r

\* What comes n after a multiple of n is one, too.
LEMMA NextMultiple ==
  ASSUME NEW n \in Nat \ {0}, NEW a \in Nat, a % n = 0
  PROVE  (a + n) % n = 0
<1> DEFINE d == (a + n) \div n
           r == (a + n) % n
           q == a \div n
<1>1. d \in Int /\ r \in Int /\ q \in Int /\ 0 <= r /\ r < n
  OBVIOUS
<1>2. a + n = n * d + r /\ a = n * q
  OBVIOUS
<1> HIDE DEF d, r, q
<1>3. q + 1 - d \in Int /\ n * (q + 1 - d) = r
  BY <1>1, <1>2
<1>4. r = 0
  BY <1>1, <1>3, OwnMultiple
<1>5. QED
  BY <1>4 DEF r

\* Between two multiples of n that are not the same there is room for n.
LEMMA NoneBetween ==
  ASSUME NEW n \in Nat \ {0}, NEW a \in Nat, NEW b \in Nat,
         a % n = 0, b % n = 0, a < b
  PROVE  a + n <= b
<1>1. PICK p \in Int, q \in Int : a = n * p /\ b = n * q
  <2>1. a = n * (a \div n) /\ b = n * (b \div n) /\ a \div n \in Int /\ b \div n \in Int
    OBVIOUS
  <2>2. QED
    BY <2>1
<1>2. p < q
  <2>1. ASSUME q <= p PROVE FALSE
    <3>1. p - q >= 0 /\ n > 0 /\ p - q \in Int
      BY <2>1
    <3>2. n * (p - q) >= 0
      BY <3>1
    <3>3. QED
      BY <1>1, <3>2
  <2>2. QED
    BY <2>1
<1>3. n * (q - p) >= n
  <2>1. q - p >= 1 /\ q - p \in Int /\ n \in Int /\ n > 0
    BY <1>2
  <2>2. QED
    BY <2>1
<1>4. QED
  BY <1>1, <1>3
-----------------------------------------------------------------------------
(* What is read *)

\* The value of an option that is given at all is what some source gives.
LEMMA TheFirstGives ==
  ASSUME given \in OptimizerSources, NEW o, Givers(o) # {}
  PROVE  \E k \in DOMAIN given :
            o \in DOMAIN given[k].options /\ ValueOf(o) = given[k].options[o]
<1>1. given \in Seq(ToSet(given))
  BY SourcesAssumption DEF SourcesAssumption
<1>2. DOMAIN given \subseteq Nat
  BY <1>1
<1>3. Givers(o) \in SUBSET Nat /\ Givers(o) \subseteq DOMAIN given
  BY <1>2 DEF Givers
<1>4. \E k \in Givers(o) : \A j \in Givers(o) : k <= j
  BY <1>3, LeastExists
<1> DEFINE k == CHOOSE k \in Givers(o) : \A j \in Givers(o) : k <= j
<1>5. k \in Givers(o)
  BY <1>4
<1>6. ValueOf(o) = given[k].options[o]
  BY DEF ValueOf
<1> HIDE DEF k
<1>7. QED
  BY <1>5, <1>6 DEF Givers

\* When processOptions finds nothing wrong, it has read the type and the dates.
LEMMA GoodIfNoneWrong ==
  ASSUME WrongValue = "none"
  PROVE  \A o \in {"runtype", "startdate", "enddate"} : IsGood(o)
<1> DEFINE set == <<"runtype", "direction", "startdate", "enddate", "variable">>
           Rights == {i \in 1 .. Len(set) : ~IsGood(set[i])}
           m == IF Rights # {} THEN Min(Rights) ELSE 0
<1>1. WrongValue = IF m = 0 THEN "none" ELSE set[m]
  BY DEF WrongValue, SelectInSeq
<1>2. Len(set) = 5 /\ \A i \in 1 .. 5 : set[i] # "none"
  OBVIOUS
<1>3. ASSUME Rights # {} PROVE FALSE
  <2>1. Rights \in SUBSET Nat
    OBVIOUS
  <2> HIDE DEF set
  <2>2. Min(Rights) \in Rights
    BY <1>3, <2>1, LeastExists DEF Min
  <2>3. Min(Rights) \in 1 .. 5
    BY <1>2, <2>2
  <2>4. QED
    BY <1>1, <1>2, <1>3, <2>3
<1>4. \A i \in 1 .. Len(set) : IsGood(set[i])
  BY <1>3
<1>5. set[1] = "runtype" /\ set[3] = "startdate" /\ set[4] = "enddate"
  OBVIOUS
<1> HIDE DEF set
<1>6. QED
  BY <1>2, <1>4, <1>5

\* What it has read then is of the types that the steps need.
LEMMA ReadIsTyped ==
  ASSUME given \in OptimizerSources, ~Unreadable, WrongValue = "none"
  PROVE  /\ \A o \in OptionDates : ValueOf(o)[1] \in Int
         /\ \A o \in OptionCounts : ValueOf(o)[1] \in Nat
         /\ ValueOf("variable") \in Seq(ToSet(ValueOf("variable")))
         /\ ValueOf("runtype")[1] \in RunTypes
<1> DEFINE Typed(o, v) == /\ o \in OptionDates => v \in Seq(Int)
                          /\ o \in OptionCounts => v \in Seq(Nat)
                          /\ o = "variable" => v \in Seq(ToSet(v))
<1>1. ASSUME NEW o, Givers(o) # {} PROVE Typed(o, ValueOf(o))
  <2>1. PICK k \in DOMAIN given :
           o \in DOMAIN given[k].options /\ ValueOf(o) = given[k].options[o]
    BY <1>1, TheFirstGives
  <2>2. QED
    BY <2>1, SourcesAssumption DEF SourcesAssumption
<1>2. \A o \in RequiredOptions : Givers(o) # {}
  BY DEF Unreadable
<1>3. /\ \A o \in {"enddate", "leadin", "step", "groupToOptimize"} :
            Givers(o) = {} => ValueOf(o) = OptionDefaults[o]
      /\ OptionDefaults["enddate"] = <<ThisDay>>
      /\ OptionDefaults["leadin"] = <<30>> /\ OptionDefaults["step"] = <<0>>
      /\ OptionDefaults["groupToOptimize"] = <<0>>
  BY DEF ValueOf, OptionDefaults
<1>4. \A o \in OptionDates : ValueOf(o) # <<>>
  BY GoodIfNoneWrong DEF IsGood, OptionDates
<1>5. \A o \in OptionCounts : ValueOf(o) # <<>>
  BY DEF Unreadable, IsGood, OptionCounts
<1>6. ASSUME NEW o \in OptionDates PROVE ValueOf(o)[1] \in Int
  <2>1. CASE Givers(o) # {}
    <3>1. ValueOf(o) \in Seq(Int) /\ ValueOf(o) # <<>>
      BY <1>1, <1>4, <2>1
    <3>2. QED
      BY <3>1
  <2>2. CASE Givers(o) = {}
    <3>1. o = "enddate"
      BY <1>2, <2>2 DEF OptionDates, RequiredOptions
    <3>2. QED
      BY <1>3, <2>2, <3>1, SourcesAssumption DEF SourcesAssumption
  <2>3. QED
    BY <2>1, <2>2
<1>7. ASSUME NEW o \in OptionCounts PROVE ValueOf(o)[1] \in Nat
  <2>1. CASE Givers(o) # {}
    <3>1. ValueOf(o) \in Seq(Nat) /\ ValueOf(o) # <<>>
      BY <1>1, <1>5, <2>1
    <3>2. QED
      BY <3>1
  <2>2. CASE Givers(o) = {}
    <3>1. o \in {"leadin", "step", "groupToOptimize"}
      BY <1>2, <2>2 DEF OptionCounts, RequiredOptions
    <3>2. QED
      BY <1>3, <2>2, <3>1
  <2>3. QED
    BY <2>1, <2>2
<1>8. ValueOf("variable") \in Seq(ToSet(ValueOf("variable")))
  BY <1>1, <1>2 DEF RequiredOptions
<1>9. ValueOf("runtype")[1] \in RunTypes
  BY GoodIfNoneWrong DEF IsGood
<1>10. QED
  BY <1>6, <1>7, <1>8, <1>9

-----------------------------------------------------------------------------
(* The invariant *)

\* The configuration says what was given.
Understood ==
  /\ opts = [o \in RequiredOptions \cup DOMAIN OptionDefaults |-> ValueOf(o)]
  /\ \A o \in OptionDates : opts[o][1] \in Int
  /\ \A o \in OptionCounts : opts[o][1] \in Nat
  /\ opts.variable \in Seq(ToSet(opts.variable))
  /\ RunType \in RunTypes

\* The runs of a range are over its days or the ones that follow, with the variables
\* that were found for it or with none.
Reference == OptimizationRun("reference", <<>>)
RunsOf(v) ==
  {Reference, OptimizationRun("optimization", Paired(VariablesNames, v)),
   WalkForwardRun("walk forward", Paired(VariablesNames, v)),
   WalkForwardRun("normal", <<>>)}

\* Since the range began, only such runs were made, and in this order.
RunsInv ==
  /\ \/ made \in Seq({Reference})
     \/ \E v \in Vectors : best = v /\ made \in Seq(RunsOf(v))
  /\ where \in {"range", "reference"} => made = <<>>
  /\ where = "search" => made \in Seq({Reference})
  /\ where \in {"walk", "normal"} => best \in Vectors

\* The first day is on a step, and all the days before it are done.
FirstDay == opts.startdate[1]
StepDays == opts.step[1]
OnStep(d) == IF StepDays = 0 THEN d = FirstDay ELSE (d - FirstDay) % StepDays = 0
FirstDays == {d \in FirstDay .. EndDate : OnStep(d)}
\* Days on which a range leaves no room for a walk forward; days that were
\* covered and leave it.
IsShort(d) == d + OptimizationPeriod > EndDate
RoomAfter == {d \in covered : ~IsShort(d)}

\* Every day before the one at work was covered, and after the search that one, too.
CoveredInv ==
  /\ first \in Int /\ FirstDay <= first /\ OnStep(first)
  /\ covered \subseteq FirstDays
  /\ where \in {"reference", "search", "walk", "normal", "step"} => first <= EndDate
  /\ RunType # "adrian_walkforward" =>
       /\ where \in {"range", "reference", "search"} =>
            \A d \in FirstDays : d < first => d \in covered
       /\ where \in {"walk", "normal", "step"} =>
            \A d \in FirstDays : d <= first => d \in covered
       /\ where \in {"walk", "normal"} => RunType # "de_optimization"

\* A walk forward was made after every range that leaves room for it.
WalkedInv ==
  RunType = "de_walkforward" =>
    /\ where \in {"range", "reference", "search", "step"} => walked = RoomAfter
    /\ where \in {"walk", "normal"} =>
         walked \subseteq RoomAfter /\ RoomAfter \ {first} \subseteq walked
    /\ where = "normal" => ~IsShort(first)

\* Before the options are understood, and when they are not.
NothingYet ==
  /\ where \in {"options", "over"} /\ made = <<>> /\ exitCode # "success"
  /\ where = "options" => covered = {} /\ walked = {} /\ given \in OptimizerSources

\* All of it.
RangesInv ==
  /\ where \in {"options", "range", "reference", "search", "walk", "normal", "step", "over"}
  /\ where = "options" => opts = <<>>
  /\ where # "over" => exitCode = "none"
  /\ opts = <<>> => NothingYet
  /\ opts # <<>> => Understood /\ RunsInv /\ CoveredInv /\ WalkedInv /\ SuccessIsComplete

-----------------------------------------------------------------------------
(* Every step keeps it *)

\* The optimizer starts with it.
LEMMA RangesInit ==
  ASSUME OptimizerMainInit
  PROVE  RangesInv
BY DEF OptimizerMainInit, RangesInv, NothingYet

\* processOptions, which reads the options or gives up.
LEMMA ProcessOptionsKeeps ==
  ASSUME RangesInv, ProcessOptions
  PROVE  RangesInv'
<1>1. where = "options" /\ opts = <<>> /\ NothingYet /\ exitCode = "none"
  BY DEF ProcessOptions, RangesInv
<1>2. UNCHANGED <<given, best, made, covered, walked>>
  BY DEF ProcessOptions
<1>3. CASE Over("error") /\ UNCHANGED <<opts, first>>
  BY <1>1, <1>2, <1>3 DEF RangesInv, NothingYet, Over
<1>4. CASE Over("terminated") /\ UNCHANGED <<opts, first>>
  BY <1>1, <1>2, <1>4 DEF RangesInv, NothingYet, Over
<1>5. CASE /\ ~Unreadable /\ WrongValue = "none"
           /\ opts' = [o \in RequiredOptions \cup DOMAIN OptionDefaults |-> ValueOf(o)]
           /\ first' = ValueOf("startdate")[1]
           /\ where' = "range" /\ UNCHANGED exitCode
  <2>1. \A o : ValueOf(o)' = ValueOf(o)
    BY <1>2 DEF ValueOf, Givers, OptionDefaults
  <2>2. /\ \A o \in OptionDates : ValueOf(o)[1] \in Int
        /\ \A o \in OptionCounts : ValueOf(o)[1] \in Nat
        /\ ValueOf("variable") \in Seq(ToSet(ValueOf("variable")))
        /\ ValueOf("runtype")[1] \in RunTypes
    BY <1>1, <1>5, ReadIsTyped DEF NothingYet
  <2>3. /\ \A o \in RequiredOptions \cup DOMAIN OptionDefaults : opts'[o] = ValueOf(o)
        /\ OptionDates \cup OptionCounts \subseteq RequiredOptions \cup DOMAIN OptionDefaults
        /\ "variable" \in RequiredOptions /\ "runtype" \in RequiredOptions
    BY <1>5 DEF RequiredOptions, OptionDefaults, OptionDates, OptionCounts
  <2>4. Understood'
    BY <1>5, <2>1, <2>2, <2>3 DEF Understood, RunType
  <2>5. opts' # <<>>
    BY <1>5, <2>3
  <2>6. RunsInv'
    BY <1>1, <1>2, <1>5 DEF RunsInv, NothingYet
  <2>7. /\ FirstDay' \in Int /\ first' \in Int /\ first' = FirstDay' /\ StepDays' \in Nat
    BY <1>5, <2>2, <2>3 DEF FirstDay, StepDays, OptionDates, OptionCounts
  <2>8. OnStep(first)'
    <3>1. first' - FirstDay' = 0
      BY <2>7 DEF FirstDay
    <3>2. StepDays' # 0 => (first' - FirstDay') % StepDays' = 0
      BY <2>7, <3>1, ZeroIsMultiple
    <3>3. OnStep(first)' <=> IF StepDays' = 0 THEN first' = FirstDay'
                             ELSE (first' - FirstDay') % StepDays' = 0
      BY DEF OnStep
    <3>4. QED
      BY <2>7, <3>2, <3>3
  <2>9. \A d \in FirstDays' : ~(d < first')
    BY <2>7 DEF FirstDays
  <2>10. CoveredInv'
    BY <1>1, <1>2, <1>5, <2>7, <2>8, <2>9 DEF CoveredInv, NothingYet
  <2>11. WalkedInv'
    BY <1>1, <1>2, <1>5 DEF WalkedInv, NothingYet, RoomAfter
  <2>12. SuccessIsComplete'
    BY <1>1, <1>5 DEF SuccessIsComplete
  <2>13. QED
    BY <1>1, <1>5, <2>4, <2>5, <2>6, <2>10, <2>11, <2>12 DEF RangesInv
<1>6. QED
  BY <1>3, <1>4, <1>5 DEF ProcessOptions

\* The types of what the ranges are made of.
LEMMA OptionTypes ==
  ASSUME Understood
  PROVE  /\ FirstDay \in Int /\ EndDate \in Int /\ StepDays \in Nat
         /\ OptimizationPeriod \in Nat
         /\ opts.walkforwardperiod[1] \in Nat /\ opts.leadin[1] \in Nat
         /\ RunType \in RunTypes
         /\ FirstDay = ValueOf("startdate")[1]
BY DEF Understood, OptionDates, OptionCounts, FirstDay, EndDate, StepDays,
       OptimizationPeriod, RequiredOptions, OptionDefaults

\* What the options say does not change when they do not.
LEMMA SameOptions ==
  ASSUME UNCHANGED <<given, opts>>
  PROVE  /\ Understood => Understood'
         /\ FirstDay' = FirstDay /\ EndDate' = EndDate /\ StepDays' = StepDays
         /\ OptimizationPeriod' = OptimizationPeriod /\ RunType' = RunType
         /\ \A d : (OnStep(d)' <=> OnStep(d)) /\ (IsShort(d)' <=> IsShort(d))
         /\ FirstDays' = FirstDays
         /\ Vectors' = Vectors /\ VariablesNames' = VariablesNames
         /\ \A o : ValueOf(o)' = ValueOf(o)
<1>1. /\ FirstDay' = FirstDay /\ EndDate' = EndDate /\ StepDays' = StepDays
      /\ OptimizationPeriod' = OptimizationPeriod /\ RunType' = RunType
      /\ VariablesNames' = VariablesNames
  BY DEF FirstDay, EndDate, StepDays, OptimizationPeriod, RunType, VariablesNames
<1>2. \A d : (OnStep(d)' <=> OnStep(d)) /\ (IsShort(d)' <=> IsShort(d))
  BY DEF OnStep, IsShort, FirstDay, StepDays, EndDate, OptimizationPeriod
<1>3. FirstDays' = FirstDays
  BY DEF FirstDays, OnStep, FirstDay, StepDays, EndDate
<1>4. Constraints' = Constraints
  BY DEF Constraints
<1>5. Vectors' = Vectors
  BY <1>4 DEF Vectors
<1>6. \A o : ValueOf(o)' = ValueOf(o)
  BY DEF ValueOf, Givers, OptionDefaults
<1>7. Understood => Understood'
  BY <1>1, <1>6 DEF Understood
<1>8. QED
  BY <1>1, <1>2, <1>3, <1>5, <1>6, <1>7

\* Nor do the runs of a range.
LEMMA SameRuns ==
  ASSUME UNCHANGED <<opts, first>>
  PROVE  /\ Reference' = Reference
         /\ \A v : RunsOf(v)' = RunsOf(v)
         /\ \A what, v : /\ OptimizationRun(what, v)' = OptimizationRun(what, v)
                        /\ WalkForwardRun(what, v)' = WalkForwardRun(what, v)
<1>1. \A what, v : /\ OptimizationRun(what, v)' = OptimizationRun(what, v)
                  /\ WalkForwardRun(what, v)' = WalkForwardRun(what, v)
  BY DEF OptimizationRun, WalkForwardRun, WalkForwardStart, RangeFrom, OptimizationPeriod,
         EndDate
<1>2. \A v : Paired(VariablesNames, v)' = Paired(VariablesNames, v)
  BY DEF VariablesNames, Paired
<1>3. Reference' = Reference
  BY DEF Reference, OptimizationRun, RangeFrom, OptimizationPeriod, EndDate
<1>4. \A v : RunsOf(v)' = RunsOf(v)
  BY <1>3 DEF RunsOf, OptimizationRun, WalkForwardRun, WalkForwardStart, RangeFrom,
     OptimizationPeriod, EndDate, VariablesNames, Paired
<1>5. QED
  BY <1>1, <1>3, <1>4

\* Appending one more of them.
LEMMA AppendOneOf ==
  ASSUME NEW S, NEW s \in Seq(S), NEW e \in S
  PROVE  Append(s, e) \in Seq(S)
OBVIOUS

\* A sequence of some is a sequence of more.
LEMMA SeqOfMore ==
  ASSUME NEW S, NEW T, S \subseteq T, NEW s \in Seq(S)
  PROVE  s \in Seq(T)
OBVIOUS

\* The runs of a range are among them.
LEMMA TheRuns ==
  ASSUME NEW v
  PROVE  /\ {Reference} \subseteq RunsOf(v)
         /\ OptimizationRun("optimization", Paired(VariablesNames, v)) \in RunsOf(v)
         /\ WalkForwardRun("walk forward", Paired(VariablesNames, v)) \in RunsOf(v)
         /\ WalkForwardRun("normal", <<>>) \in RunsOf(v)
BY DEF RunsOf

\* While it runs, the options are understood.
LEMMA WhileRunning ==
  ASSUME RangesInv, where \notin {"options", "over"}
  PROVE  /\ opts # <<>> /\ exitCode = "none"
         /\ Understood /\ RunsInv /\ CoveredInv /\ WalkedInv
BY DEF RangesInv, NothingYet

\* What is left to show of a step that reads nothing and does not end in success.
LEMMA StepOfRange ==
  ASSUME RangesInv, where \notin {"options", "over"}, UNCHANGED <<given, opts>>,
         where' \in {"range", "reference", "search", "walk", "normal", "step", "over"},
         where' # "over" => UNCHANGED exitCode,
         exitCode' = "success" => SuccessIsComplete',
         RunsInv', CoveredInv', WalkedInv'
  PROVE  RangesInv'
<1>1. Understood'
  BY WhileRunning, SameOptions
<1>2. SuccessIsComplete'
  BY DEF SuccessIsComplete
<1>3. QED
  BY <1>1, <1>2, WhileRunning DEF RangesInv

\* Success, when every day but those after a short range was covered.
LEMMA SuccessIfDone ==
  ASSUME Understood, UNCHANGED <<given, opts, covered, walked>>, covered \subseteq FirstDays,
         RunType # "adrian_walkforward" =>
           \A d \in FirstDays \ covered :
             RunType # "de_optimization" /\ \E c \in covered : c < d /\ IsShort(c),
         RunType = "de_walkforward" => walked = RoomAfter
  PROVE  SuccessIsComplete'
<1>1. FirstDay = ValueOf("startdate")[1]
  BY OptionTypes
<1>2. /\ FirstDays = {d \in ValueOf("startdate")[1] .. EndDate :
                       IF opts.step[1] = 0 THEN d = ValueOf("startdate")[1]
                       ELSE (d - ValueOf("startdate")[1]) % opts.step[1] = 0}
      /\ RoomAfter = {d \in covered : ~(d + OptimizationPeriod > EndDate)}
      /\ \A c : IsShort(c) <=> c + OptimizationPeriod > EndDate
  BY <1>1 DEF FirstDays, OnStep, StepDays, RoomAfter, IsShort
<1>3. SuccessIsComplete
  BY <1>2 DEF SuccessIsComplete
<1>4. QED
  BY <1>2, SameOptions DEF SuccessIsComplete

\* The condition of the loop over the ranges, and its end.
LEMMA NextRangeKeeps ==
  ASSUME RangesInv, NextRange
  PROVE  RangesInv'
<1>1. /\ where = "range" /\ UNCHANGED <<given, opts, first, best, made, covered, walked>>
      /\ Understood /\ RunsInv /\ CoveredInv /\ WalkedInv /\ exitCode = "none"
  BY WhileRunning DEF NextRange
<1>2. RunsInv'
  <2>1. where' \notin {"walk", "normal"}
    BY <1>1, OptionTypes DEF NextRange, Over, RunTypes
  <2>2. made' = <<>>
    BY <1>1 DEF RunsInv
  <2>3. QED
    BY <2>1, <2>2 DEF RunsInv
<1>3. /\ first \in Int /\ FirstDay \in Int /\ EndDate \in Int
      /\ FirstDays \subseteq Int /\ RunType \in RunTypes
      /\ OnStep(first)' <=> OnStep(first)
      /\ RoomAfter' = RoomAfter
  BY <1>1, OptionTypes, SameOptions DEF CoveredInv, FirstDays, RoomAfter, IsShort
<1>4. CASE first > EndDate /\ Over("success")
  <2>1. FirstDays \subseteq covered \/ RunType = "adrian_walkforward"
    BY <1>1, <1>3, <1>4 DEF CoveredInv, FirstDays
  <2>2. SuccessIsComplete'
    BY <1>1, <2>1, SuccessIfDone DEF CoveredInv, WalkedInv
  <2>3. CoveredInv'
    BY <1>1, <1>3, <1>4, SameOptions DEF CoveredInv, Over
  <2>4. WalkedInv'
    BY <1>4 DEF WalkedInv, Over
  <2>5. QED
    BY <1>1, <1>2, <1>4, <2>2, <2>3, <2>4, StepOfRange DEF Over
<1>5. CASE /\ ~(first > EndDate) /\ UNCHANGED exitCode
           /\ where' \in {"reference", "search", "step"}
           /\ where' = "step" => RunType = "adrian_walkforward"
  <2>1. CoveredInv'
    <3>1. first' <= EndDate'
      BY <1>1, <1>3, <1>5, SameOptions DEF EndDate
    <3>2. FirstDay' <= first' /\ first' \in Int
      BY <1>1, SameOptions DEF CoveredInv
    <3>3. QED
      BY <1>1, <1>3, <1>5, <3>1, <3>2, SameOptions DEF CoveredInv
  <2>2. WalkedInv'
    BY <1>1, <1>3, <1>5, SameOptions DEF WalkedInv
  <2>3. QED
    BY <1>1, <1>2, <1>5, <2>1, <2>2, StepOfRange
<1>6. QED
  BY <1>3, <1>4, <1>5 DEF NextRange, RunTypes

\* The run for reference.
LEMMA RunReferenceKeeps ==
  ASSUME RangesInv, RunReference
  PROVE  RangesInv'
<1>1. /\ where = "reference" /\ where' = "search"
      /\ UNCHANGED <<given, opts, first, best, covered, walked, exitCode>>
      /\ Understood /\ RunsInv /\ CoveredInv /\ WalkedInv /\ exitCode = "none"
      /\ made' = Append(made, Reference)
  BY WhileRunning DEF RunReference, Ran, Reference
<1>2. RunsInv'
  <2>1. made' \in Seq({Reference})
    BY <1>1 DEF RunsInv
  <2>2. QED
    BY <1>1, <2>1, SameRuns DEF RunsInv
<1>3. RoomAfter' = RoomAfter
  BY <1>1, SameOptions DEF RoomAfter, IsShort
<1>4. CoveredInv'
  BY <1>1, SameOptions DEF CoveredInv
<1>5. WalkedInv'
  BY <1>1, <1>3, SameOptions DEF WalkedInv
<1>6. QED
  BY <1>1, <1>2, <1>4, <1>5, StepOfRange

\* The first day of a range is one of the days that are to be covered.
LEMMA FirstIsDue ==
  ASSUME Understood, CoveredInv, first <= EndDate
  PROVE  /\ first \in FirstDays
         /\ \A d \in FirstDays : d <= first <=> d < first \/ d = first
<1>1. first \in Int /\ FirstDay \in Int /\ EndDate \in Int /\ FirstDay <= first
  BY OptionTypes DEF CoveredInv
<1>2. FirstDays \subseteq Int
  BY <1>1 DEF FirstDays
<1>3. first \in FirstDays
  BY <1>1 DEF FirstDays, CoveredInv
<1>4. \A d \in FirstDays : d <= first <=> d < first \/ d = first
  BY <1>1, <1>2
<1>5. QED
  BY <1>3, <1>4

\* The search, which covers the day.
LEMMA OptimizeKeeps ==
  ASSUME RangesInv, Optimize
  PROVE  RangesInv'
<1>1. /\ where = "search" /\ where' \in {"walk", "step"} /\ covered' = covered \cup {first}
      /\ UNCHANGED <<given, opts, first, walked, exitCode>>
      /\ Understood /\ RunsInv /\ CoveredInv /\ WalkedInv /\ exitCode = "none"
  BY WhileRunning DEF Optimize
<1>2. first <= EndDate
  BY <1>1 DEF CoveredInv
<1>3. RunsInv'
  <2>1. made \in Seq({Reference})
    BY <1>1 DEF RunsInv
  <2>2. CASE /\ best' \in Vectors
             /\ Ran(OptimizationRun("optimization", Paired(VariablesNames, best')))
    <3>1. PICK v \in Vectors : best' = v
      BY <2>2
    <3>2. made' = Append(made, OptimizationRun("optimization", Paired(VariablesNames, v)))
      BY <2>2, <3>1 DEF Ran
    <3>3. made' \in Seq(RunsOf(v))
      BY <2>1, <3>2, TheRuns, SeqOfMore, AppendOneOf
    <3>4. QED
      BY <1>1, <3>1, <3>3, SameRuns, SameOptions DEF RunsInv
  <2>3. CASE where' = "step" /\ UNCHANGED <<best, made>>
    BY <1>1, <2>1, <2>3, SameRuns DEF RunsInv
  <2>4. QED
    BY <2>2, <2>3 DEF Optimize
<1>4. CoveredInv'
  <2>1. first \in FirstDays /\ \A d \in FirstDays : d <= first <=> d < first \/ d = first
    BY <1>1, <1>2, FirstIsDue
  <2>2. covered' \subseteq FirstDays'
    BY <1>1, <2>1, SameOptions DEF CoveredInv
  <2>3. first' <= EndDate'
    BY <1>1, <1>2 DEF EndDate
  <2>4. /\ where' = "walk" => RunType # "de_optimization"
        /\ RunType' = RunType
    BY <1>1, SameOptions DEF Optimize
  <2>5. RunType # "adrian_walkforward" =>
          \A d \in FirstDays' : d <= first' => d \in covered'
    BY <1>1, <2>1, SameOptions DEF CoveredInv
  <2>6. first' \in Int /\ FirstDay' <= first' /\ OnStep(first)'
    BY <1>1, SameOptions DEF CoveredInv
  <2>7. QED
    BY <1>1, <2>2, <2>3, <2>4, <2>5, <2>6 DEF CoveredInv
<1>5. WalkedInv'
  <2>1. SUFFICES ASSUME RunType = "de_walkforward" PROVE WalkedInv'
    BY <1>1, SameOptions DEF WalkedInv
  <2>2. where' = "walk"
    BY <1>1, <2>1 DEF Optimize
  <2>3. walked = RoomAfter
    BY <1>1, <2>1 DEF WalkedInv
  <2>4. RoomAfter \subseteq RoomAfter' /\ RoomAfter' \subseteq RoomAfter \cup {first}
    BY <1>1, SameOptions DEF RoomAfter
  <2>5. QED
    BY <1>1, <2>2, <2>3, <2>4 DEF WalkedInv
<1>6. QED
  BY <1>1, <1>3, <1>4, <1>5, StepOfRange

\* What the runs of the range and the days keep while nothing is optimized.
LEMMA DaysKept ==
  ASSUME UNCHANGED <<given, opts, first, covered>>, Understood, CoveredInv,
         where \in {"walk", "normal", "step"}, where' \in {"walk", "normal", "step", "over"}
  PROVE  /\ RoomAfter' = RoomAfter
         /\ where' = "step" => CoveredInv'
         /\ where' = "over" => CoveredInv'
         /\ where = "walk" => CoveredInv'
<1>1. /\ first \in Int /\ FirstDay \in Int /\ EndDate \in Int
      /\ FirstDays' = FirstDays /\ RunType' = RunType
  BY OptionTypes, SameOptions DEF CoveredInv
<1>2. first' <= EndDate'
  BY <1>1 DEF CoveredInv, EndDate
<1>3. first' \in Int /\ FirstDay' <= first' /\ OnStep(first)'
  BY SameOptions DEF CoveredInv
<1>4. RoomAfter' = RoomAfter
  BY SameOptions DEF RoomAfter
<1>5. QED
  BY <1>1, <1>2, <1>3, <1>4 DEF CoveredInv

\* The walk forward with what was chosen.
LEMMA WalkForwardKeeps ==
  ASSUME RangesInv, WalkForward
  PROVE  RangesInv'
<1>1. /\ where = "walk" /\ UNCHANGED <<given, opts, first, best, covered, walked>>
      /\ Understood /\ RunsInv /\ CoveredInv /\ WalkedInv /\ exitCode = "none"
  BY WhileRunning DEF WalkForward
<1>2. PICK v \in Vectors : best = v
  BY <1>1 DEF RunsInv
<1>3. made \in Seq(RunsOf(v))
  BY <1>1, <1>2, TheRuns, SeqOfMore DEF RunsInv
<1>4. CASE WalkForwardStart > EndDate /\ Over("success") /\ UNCHANGED made
  <2>1. IsShort(first)
    BY <1>4 DEF WalkForwardStart, IsShort
  <2>2. RunsInv'
    BY <1>1, <1>2, <1>3, <1>4, SameRuns, SameOptions DEF RunsInv, Over
  <2>3. CoveredInv'
    BY <1>1, <1>4, DaysKept DEF Over
  <2>4. WalkedInv'
    BY <1>4 DEF WalkedInv, Over
  <2>5. first \in FirstDays /\ FirstDays \subseteq Int /\ first \in Int
    BY <1>1, FirstIsDue, OptionTypes DEF CoveredInv, FirstDays
  <2>6. RunType # "adrian_walkforward" =>
          \A d \in FirstDays \ covered :
            RunType # "de_optimization" /\ \E c \in covered : c < d /\ IsShort(c)
    <3>1. SUFFICES ASSUME RunType # "adrian_walkforward", NEW d \in FirstDays \ covered
                   PROVE  RunType # "de_optimization" /\ first < d /\ first \in covered
      BY <2>1
    <3>2. first \in covered /\ ~(d <= first)
      BY <1>1, <2>5, <3>1 DEF CoveredInv
    <3>3. QED
      BY <1>1, <2>5, <3>1, <3>2 DEF CoveredInv
  <2>7. RunType = "de_walkforward" => walked = RoomAfter
    BY <1>1, <2>1 DEF WalkedInv, RoomAfter
  <2>8. SuccessIsComplete'
    BY <1>1, <2>6, <2>7, SuccessIfDone DEF CoveredInv
  <2>9. QED
    BY <1>1, <1>4, <2>2, <2>3, <2>4, <2>8, StepOfRange DEF Over
<1>5. CASE /\ ~(WalkForwardStart > EndDate) /\ where' = "normal" /\ UNCHANGED exitCode
           /\ Ran(WalkForwardRun("walk forward", Paired(VariablesNames, best)))
  <2>1. ~IsShort(first)
    BY <1>5 DEF WalkForwardStart, IsShort
  <2>2. made' = Append(made, WalkForwardRun("walk forward", Paired(VariablesNames, v)))
    BY <1>2, <1>5 DEF Ran
  <2>3. made' \in Seq(RunsOf(v))
    BY <1>3, <2>2, TheRuns, AppendOneOf
  <2>4. RunsInv'
    BY <1>1, <1>2, <1>5, <2>3, SameRuns, SameOptions DEF RunsInv
  <2>5. CoveredInv' /\ RoomAfter' = RoomAfter
    BY <1>1, <1>5, DaysKept
  <2>6. WalkedInv'
    BY <1>1, <1>5, <2>1, <2>5, SameOptions DEF WalkedInv
  <2>7. QED
    BY <1>1, <1>5, <2>4, <2>5, <2>6, StepOfRange
<1>6. QED
  BY <1>4, <1>5 DEF WalkForward

\* And with the usual variables.
LEMMA RunNormalKeeps ==
  ASSUME RangesInv, RunNormal
  PROVE  RangesInv'
<1>1. /\ where = "normal" /\ where' = "step" /\ walked' = walked \cup {first}
      /\ UNCHANGED <<given, opts, first, best, covered, exitCode>>
      /\ Understood /\ RunsInv /\ CoveredInv /\ WalkedInv /\ exitCode = "none"
      /\ made' = Append(made, WalkForwardRun("normal", <<>>))
  BY WhileRunning DEF RunNormal, Ran
<1>2. PICK v \in Vectors : best = v
  BY <1>1 DEF RunsInv
<1>3. made' \in Seq(RunsOf(v))
  <2>1. made \in Seq(RunsOf(v))
    BY <1>1, <1>2, TheRuns, SeqOfMore DEF RunsInv
  <2>2. QED
    BY <1>1, <2>1, TheRuns, AppendOneOf
<1>4. RunsInv'
  BY <1>1, <1>2, <1>3, SameRuns, SameOptions DEF RunsInv
<1>5. CoveredInv' /\ RoomAfter' = RoomAfter
  BY <1>1, DaysKept
<1>6. WalkedInv'
  <2>1. SUFFICES ASSUME RunType = "de_walkforward" PROVE WalkedInv'
    BY <1>1, SameOptions DEF WalkedInv
  <2>2. first \in covered
    BY <1>1, <2>1, FirstIsDue DEF CoveredInv
  <2>3. first \in RoomAfter
    BY <1>1, <2>1, <2>2 DEF RoomAfter, WalkedInv
  <2>4. walked' = RoomAfter
    BY <1>1, <2>1, <2>3 DEF WalkedInv
  <2>5. QED
    BY <1>1, <1>5, <2>4 DEF WalkedInv
<1>7. QED
  BY <1>1, <1>4, <1>5, <1>6, StepOfRange

\* A run that throws ends the program.
LEMMA RunFailsKeeps ==
  ASSUME RangesInv, RunFails
  PROVE  RangesInv'
<1>1. /\ where \in {"reference", "search", "walk", "normal"} /\ where' = "over"
      /\ exitCode' # "success"
      /\ UNCHANGED <<given, opts, first, best, made, covered, walked>>
      /\ Understood /\ RunsInv /\ CoveredInv /\ WalkedInv
  BY WhileRunning DEF RunFails, Over
<1>2. RunsInv'
  BY <1>1, SameRuns, SameOptions DEF RunsInv
<1>3. CoveredInv' /\ WalkedInv'
  BY <1>1, SameOptions DEF CoveredInv, WalkedInv
<1>4. QED
  BY <1>1, <1>2, <1>3, StepOfRange

\* The increment of the loop over the ranges.
LEMMA StepForwardKeeps ==
  ASSUME RangesInv, StepForward
  PROVE  RangesInv'
<1>1. /\ where = "step" /\ where' = "range" /\ made' = <<>>
      /\ first' = first + StepDays
      /\ UNCHANGED <<given, opts, covered, walked, exitCode>>
      /\ Understood /\ CoveredInv /\ WalkedInv /\ exitCode = "none"
  BY WhileRunning DEF StepForward, StepDays
<1>2. RunsInv'
  BY <1>1 DEF RunsInv
<1>3. /\ first \in Int /\ FirstDay \in Int /\ EndDate \in Int /\ StepDays \in Nat
      /\ FirstDay <= first /\ FirstDays \subseteq Int
  BY <1>1, OptionTypes DEF CoveredInv, FirstDays
<1>4. OnStep(first + StepDays)
  <2>1. CASE StepDays = 0
    BY <1>1, <1>3, <2>1 DEF CoveredInv, OnStep
  <2>2. CASE StepDays # 0
    <3>1. (first - FirstDay) % StepDays = 0 /\ first - FirstDay \in Nat
      BY <1>1, <1>3, <2>2 DEF CoveredInv, OnStep
    <3>2. ((first - FirstDay) + StepDays) % StepDays = 0
      BY <1>3, <2>2, <3>1, NextMultiple
    <3>3. (first + StepDays) - FirstDay = (first - FirstDay) + StepDays
      BY <1>3
    <3>4. QED
      BY <2>2, <3>2, <3>3 DEF OnStep
  <2>3. QED
    BY <2>1, <2>2
<1>5. ASSUME NEW d \in FirstDays, d < first + StepDays PROVE d <= first
  <2>1. CASE StepDays = 0
    BY <1>3, <1>5, <2>1
  <2>2. CASE StepDays # 0
    <3>1. SUFFICES ASSUME first < d PROVE FALSE
      BY <1>3
    <3>2. /\ (first - FirstDay) % StepDays = 0 /\ first - FirstDay \in Nat
          /\ (d - FirstDay) % StepDays = 0 /\ d - FirstDay \in Nat
          /\ first - FirstDay < d - FirstDay
      BY <1>1, <1>3, <1>5, <2>2, <3>1 DEF CoveredInv, OnStep, FirstDays
    <3>3. (first - FirstDay) + StepDays <= d - FirstDay
      BY <1>3, <2>2, <3>2, NoneBetween
    <3>4. QED
      BY <1>3, <1>5, <3>3
  <2>3. QED
    BY <2>1, <2>2
<1>6. CoveredInv'
  <2>1. PICK f \in Int : f = first + StepDays /\ first' = f /\ FirstDay <= f /\ OnStep(f)
    BY <1>1, <1>3, <1>4
  <2>2. OnStep(first)' <=> OnStep(f)
    BY <1>1, <2>1, SameOptions DEF OnStep
  <2>3. FirstDay' <= first'
    BY <1>1, <2>1, SameOptions
  <2>4. \A d \in FirstDays' : d < first' =>
          (RunType # "adrian_walkforward" => d \in covered')
    BY <1>1, <1>5, <2>1, SameOptions DEF CoveredInv
  <2>5. QED
    BY <1>1, <2>1, <2>2, <2>3, <2>4, SameOptions DEF CoveredInv
<1>7. WalkedInv'
  <2>1. RoomAfter' = RoomAfter
    BY <1>1, SameOptions DEF RoomAfter
  <2>2. QED
    BY <1>1, <2>1, SameOptions DEF WalkedInv
<1>8. QED
  BY <1>1, <1>2, <1>6, <1>7, StepOfRange

-----------------------------------------------------------------------------
(* What it gives *)

\* The runs of one range that try something are over the same days; so are those
\* that walk forward.
LEMMA RunDays ==
  ASSUME NEW a, NEW b, NEW va, NEW vb
  PROVE  /\ SameDays(OptimizationRun(a, va), OptimizationRun(b, vb))
         /\ SameDays(WalkForwardRun(a, va), WalkForwardRun(b, vb))
<1>1. ASSUME NEW day, NEW period
      PROVE  SameDays(RangeFrom(a, day, period, va), RangeFrom(b, day, period, vb))
  BY DEF RangeFrom, SameDays
<1>2. QED
  BY <1>1 DEF OptimizationRun, WalkForwardRun

\* What a run is made with.
LEMMA RunFields ==
  ASSUME NEW a, NEW va
  PROVE  /\ OptimizationRun(a, va).what = a /\ OptimizationRun(a, va).vars = va
         /\ WalkForwardRun(a, va).what = a /\ WalkForwardRun(a, va).vars = va
<1>1. ASSUME NEW day, NEW period
      PROVE  /\ RangeFrom(a, day, period, va).what = a
             /\ RangeFrom(a, day, period, va).vars = va
  BY DEF RangeFrom
<1>2. QED
  BY <1>1 DEF OptimizationRun, WalkForwardRun

\* Each run of a range is one of these.
LEMMA RunIsOverItsDays ==
  ASSUME Understood, first \in Int, NEW v, NEW r \in RunsOf(v)
  PROVE  /\ r.what \in {"reference", "optimization", "walk forward", "normal"}
         /\ r.vars = IF r.what \in {"optimization", "walk forward"}
                     THEN Paired(VariablesNames, v) ELSE <<>>
         /\ r.what \in Tried => r = OptimizationRun(r.what, r.vars)
         /\ r.what \notin Tried => r = WalkForwardRun(r.what, r.vars)
<1> DEFINE pv == Paired(VariablesNames, v)
<1>1. \/ r = OptimizationRun("reference", <<>>) \/ r = OptimizationRun("optimization", pv)
      \/ r = WalkForwardRun("walk forward", pv) \/ r = WalkForwardRun("normal", <<>>)
  BY DEF RunsOf, Reference
<1> HIDE DEF pv
<1>2. CASE r = OptimizationRun("reference", <<>>)
  <2>1. r.what = "reference" /\ r.vars = <<>>
    BY <1>2, RunFields
  <2>2. r = OptimizationRun(r.what, r.vars)
    BY <1>2, <2>1, Zenon
  <2>3. QED
    BY <2>1, <2>2 DEF Tried, pv
<1>3. CASE r = OptimizationRun("optimization", pv)
  <2>1. r.what = "optimization" /\ r.vars = pv
    BY <1>3, RunFields
  <2>2. r = OptimizationRun(r.what, r.vars)
    BY <1>3, <2>1, Zenon
  <2>3. QED
    BY <2>1, <2>2 DEF Tried, pv
<1>4. CASE r = WalkForwardRun("walk forward", pv)
  <2>1. r.what = "walk forward" /\ r.vars = pv
    BY <1>4, RunFields
  <2>2. r = WalkForwardRun(r.what, r.vars)
    BY <1>4, <2>1, Zenon
  <2>3. QED
    BY <2>1, <2>2 DEF Tried, pv
<1>5. CASE r = WalkForwardRun("normal", <<>>)
  <2>1. r.what = "normal" /\ r.vars = <<>>
    BY <1>5, RunFields
  <2>2. r = WalkForwardRun(r.what, r.vars)
    BY <1>5, <2>1, Zenon
  <2>3. QED
    BY <2>1, <2>2 DEF Tried, pv
<1>6. QED
  BY <1>1, <1>2, <1>3, <1>4, <1>5

\* The variables that are chosen are those of the options, within their limits.
LEMMA PairedIsWithin ==
  ASSUME Understood, NEW v \in Vectors, NEW n \in DOMAIN Paired(VariablesNames, v)
  PROVE  \E i \in DOMAIN opts.variable :
           /\ opts.variable[i].name = n
           /\ Paired(VariablesNames, v)[n] \in {opts.variable[i].least,
                                                opts.variable[i].greatest}
<1>1. /\ opts.variable \in Seq(ToSet(opts.variable))
      /\ DOMAIN opts.variable = 1 .. Len(opts.variable) /\ Len(opts.variable) \in Nat
  BY DEF Understood
<1>2. DOMAIN VariablesNames = DOMAIN opts.variable
  BY DEF VariablesNames
<1> DEFINE K == {k \in DOMAIN VariablesNames : VariablesNames[k] = n}
<1>3. K \in SUBSET (1 .. Len(opts.variable)) /\ K # {}
  BY <1>1, <1>2 DEF Paired, ToSet
<1>4. \E k \in K : \A j \in K : j <= k
  BY <1>1, <1>3, GreatestExists
<1>5. \E k \in DOMAIN VariablesNames :
         /\ VariablesNames[k] = n
         /\ \A j \in DOMAIN VariablesNames : VariablesNames[j] = n => j <= k
  BY <1>4
<1> DEFINE i == CHOOSE k \in DOMAIN VariablesNames :
                  /\ VariablesNames[k] = n
                  /\ \A j \in DOMAIN VariablesNames : VariablesNames[j] = n => j <= k
<1>6. i \in DOMAIN VariablesNames /\ VariablesNames[i] = n
  BY <1>5
<1>7. Paired(VariablesNames, v)[n] = v[i]
  BY DEF Paired
<1> HIDE DEF i
<1>8. i \in DOMAIN opts.variable /\ opts.variable[i].name = n
  BY <1>2, <1>6 DEF VariablesNames
<1>9. i \in DOMAIN Constraints /\ Constraints[i] = opts.variable[i]
  BY <1>1, <1>8 DEF Constraints
<1>10. v[i] \in {Constraints[i].least, Constraints[i].greatest}
  BY <1>9 DEF Vectors
<1>11. QED
  BY <1>7, <1>8, <1>9, <1>10

\* So runs that walk forward are out of sample.
LEMMA RunsGiveOutOfSample ==
  ASSUME Understood, RunsInv, CoveredInv
  PROVE  OutOfSample
<1>1. /\ first \in Int /\ EndDate \in Int /\ OptimizationPeriod \in Nat
      /\ opts.walkforwardperiod[1] \in Nat /\ opts.leadin[1] \in Nat
  BY OptionTypes DEF CoveredInv
<1>2. PICK v : /\ made \in Seq(RunsOf(v))
               /\ v \in Vectors \/ made \in Seq({Reference})
  <2>1. CASE made \in Seq({Reference})
    <3>1. made \in Seq(RunsOf(best))
      BY <2>1, TheRuns, SeqOfMore
    <3>2. QED
      BY <2>1, <3>1
  <2>2. CASE \E v \in Vectors : best = v /\ made \in Seq(RunsOf(v))
    BY <2>2
  <2>3. QED
    BY <2>1, <2>2 DEF RunsInv
<1> SUFFICES ASSUME NEW j \in DOMAIN made, NEW k \in DOMAIN made
             PROVE  LET r == made[j]
                        w == made[k]
                    IN  /\ r.to <= EndDate
                        /\ r.what \in Tried /\ w.what \in Tried =>
                             SameDays(r, w)
                        /\ r.what \in Tried /\ w.what \notin Tried =>
                             /\ r.to < w.trades
                             /\ r.to < EndDate => w.trades = r.to + 1
                             /\ w.what = "walk forward" /\ r.what = "optimization" =>
                                  w.vars = r.vars
                        /\ r.what = "walk forward" /\ w.what = "normal" =>
                             SameDays(r, w) /\ w.vars = <<>>
                        /\ \A n \in DOMAIN r.vars :
                             \E i \in DOMAIN opts.variable :
                               /\ opts.variable[i].name = n
                               /\ r.vars[n] \in {opts.variable[i].least,
                                                 opts.variable[i].greatest}
  BY DEF OutOfSample
<1> DEFINE r == made[j]
           w == made[k]
<1>3. r \in RunsOf(v) /\ w \in RunsOf(v)
  BY <1>2
<1>4. made \in Seq({Reference}) => r = Reference
  OBVIOUS
<1> HIDE DEF r, w
<1>5. /\ r.what \in Tried => r = OptimizationRun(r.what, r.vars)
      /\ r.what \notin Tried => r = WalkForwardRun(r.what, r.vars)
      /\ w.what \in Tried => w = OptimizationRun(w.what, w.vars)
      /\ w.what \notin Tried => w = WalkForwardRun(w.what, w.vars)
  BY <1>1, <1>3, RunIsOverItsDays
<1>6. \A what, vs :
        LET o == OptimizationRun(what, vs)
            f == WalkForwardRun(what, vs)
        IN  /\ o.to \in Int /\ o.to <= EndDate /\ f.to <= EndDate
            /\ o.to <= first + (OptimizationPeriod - 1)
            /\ o.to = first + (OptimizationPeriod - 1) \/ o.to = EndDate
            /\ f.trades = first + OptimizationPeriod
  BY <1>1 DEF OptimizationRun, WalkForwardRun, WalkForwardStart, RangeFrom, Min2
<1>7. r.to <= EndDate
  BY <1>5, <1>6
<1>8. r.what \in Tried /\ w.what \in Tried => SameDays(r, w)
  BY <1>5, RunDays
<1>9. r.what \in Tried /\ w.what \notin Tried =>
        r.to < w.trades /\ (r.to < EndDate => w.trades = r.to + 1)
  BY <1>1, <1>5, <1>6
<1>10. w.what = "walk forward" /\ r.what = "optimization" => w.vars = r.vars
  BY <1>1, <1>3, RunIsOverItsDays
<1>11. r.what = "walk forward" /\ w.what = "normal" => SameDays(r, w) /\ w.vars = <<>>
  <2>1. w.what = "normal" => w.vars = <<>>
    BY <1>1, <1>3, RunIsOverItsDays
  <2>2. QED
    BY <1>5, <2>1, RunDays DEF Tried
<1>12. ASSUME NEW n \in DOMAIN r.vars
       PROVE  \E i \in DOMAIN opts.variable :
                /\ opts.variable[i].name = n
                /\ r.vars[n] \in {opts.variable[i].least, opts.variable[i].greatest}
  <2>1. r.vars # <<>>
    BY <1>12
  <2>2. r.vars = Paired(VariablesNames, v)
    BY <1>1, <1>3, <2>1, RunIsOverItsDays
  <2>3. v \in Vectors
    <3>1. Reference.vars = <<>>
      BY DEF Reference, OptimizationRun, RangeFrom
    <3>2. QED
      BY <1>2, <1>4, <2>1, <3>1
  <2>4. QED
    BY <1>12, <2>2, <2>3, PairedIsWithin
<1>13. QED
  BY <1>7, <1>8, <1>9, <1>10, <1>11, <1>12 DEF r, w

\* The invariant gives the property.
LEMMA RangesGive ==
  ASSUME RangesInv
  PROVE  RangesAreAsAsked
<1>1. CASE opts = <<>>
  BY <1>1 DEF RangesInv, NothingYet, RangesAreAsAsked, OutOfSample, SuccessIsComplete
<1>2. CASE opts # <<>>
  BY <1>2, RunsGiveOutOfSample DEF RangesInv, RangesAreAsAsked
<1>3. QED
  BY <1>1, <1>2

\* Every step keeps it.
LEMMA RangesStep ==
  ASSUME RangesInv, OptimizerMainNext
  PROVE  RangesInv'
BY ProcessOptionsKeeps, NextRangeKeeps, RunReferenceKeeps, OptimizeKeeps, WalkForwardKeeps,
   RunNormalKeeps, RunFailsKeeps, StepForwardKeeps DEF OptimizerMainNext

\* And so does a step of another program.
LEMMA RangesStay ==
  ASSUME RangesInv, UNCHANGED optimizerMainVars
  PROVE  RangesInv'
<1>1. UNCHANGED <<given, opts, where, first, best, made, covered, walked, exitCode>>
  BY DEF optimizerMainVars
<1>2. CASE opts = <<>>
  BY <1>1, <1>2 DEF RangesInv, NothingYet
<1>3. CASE opts # <<>>
  <2>1. Understood /\ RunsInv /\ CoveredInv /\ WalkedInv /\ SuccessIsComplete
    BY <1>3 DEF RangesInv
  <2>2. Understood'
    BY <1>1, <2>1, SameOptions
  <2>3. RunsInv'
    BY <1>1, <2>1, SameRuns, SameOptions DEF RunsInv
  <2>4. CoveredInv' /\ WalkedInv'
    BY <1>1, <2>1, SameOptions DEF CoveredInv, WalkedInv, RoomAfter
  <2>5. SuccessIsComplete'
    BY <1>1, <2>1, SameOptions DEF SuccessIsComplete
  <2>6. QED
    BY <1>1, <1>3, <2>2, <2>3, <2>4, <2>5 DEF RangesInv
<1>4. QED
  BY <1>2, <1>3

-----------------------------------------------------------------------------
\* What the first n of the places P say of an option.
SaidBy(P, n, o) ==
  UNION {{k} \X DOMAIN P[k][o] : k \in {j \in 1 .. n : o \in DOMAIN P[j]}}

TextsAt(P, o, S) == {P[t[1]][o][t[2]] : t \in S}

\* m is what is stored of the first n of the places P: of an option that composes all
\* that they say, of another one what the first of them says.
Merged(P, n, m) ==
  /\ DOMAIN m = UNION {DOMAIN P[k] : k \in 1 .. n}
  /\ \A o \in DOMAIN m \ Composing :
       \E k \in 1 .. n : /\ o \in DOMAIN P[k] /\ m[o] = P[k][o]
                         /\ \A j \in 1 .. n : o \in DOMAIN P[j] => k <= j
  /\ \A o \in DOMAIN m \cap Composing :
       /\ m[o] \in Seq(ToSet(m[o]))
       /\ IsFiniteSet(SaidBy(P, n, o)) /\ Cardinality(SaidBy(P, n, o)) = Len(m[o])
       /\ ToSet(m[o]) = TextsAt(P, o, SaidBy(P, n, o))

\* As many pairs as there are texts in a place.
LEMMA PairsOfPlace ==
  ASSUME NEW k, NEW L \in Nat
  PROVE  IsFiniteSet({k} \X (1 .. L)) /\ Cardinality({k} \X (1 .. L)) = L
<1> DEFINE f == [i \in 1 .. L |-> <<k, i>>]
<1>1. f \in Bijection(1 .. L, {k} \X (1 .. L))
  <2>1. f \in [1 .. L -> {k} \X (1 .. L)]
    OBVIOUS
  <2>2. \A a, b \in 1 .. L : f[a] = f[b] => a = b
    OBVIOUS
  <2>3. \A t \in {k} \X (1 .. L) : \E a \in 1 .. L : f[a] = t
    OBVIOUS
  <2> HIDE DEF f
  <2>4. QED
    BY <2>1, <2>2, <2>3 DEF Bijection, Injection, Surjection, IsInjective
<1>2. IsFiniteSet(1 .. L) /\ Cardinality(1 .. L) = L
  BY FS_Interval
<1>3. ExistsBijection(1 .. L, {k} \X (1 .. L))
  BY <1>1 DEF ExistsBijection
<1>4. QED
  BY <1>2, <1>3, FS_Bijection

\* One more place says what it says.
LEMMA SaidByNext ==
  ASSUME NEW P, NEW n \in Nat, NEW o
  PROVE  SaidBy(P, n + 1, o) =
           IF o \in DOMAIN P[n + 1]
           THEN SaidBy(P, n, o) \cup ({n + 1} \X DOMAIN P[n + 1][o])
           ELSE SaidBy(P, n, o)
<1> DEFINE K(m) == {j \in 1 .. m : o \in DOMAIN P[j]}
<1>1. K(n + 1) = IF o \in DOMAIN P[n + 1] THEN K(n) \cup {n + 1} ELSE K(n)
  <2>1. 1 .. n + 1 = 1 .. n \cup {n + 1}
    OBVIOUS
  <2>2. QED
    BY <2>1
<1> DEFINE U(S) == UNION {{k} \X DOMAIN P[k][o] : k \in S}
<1>2. SaidBy(P, n + 1, o) = U(K(n + 1)) /\ SaidBy(P, n, o) = U(K(n))
  BY DEF SaidBy
<1> HIDE DEF K
<1>3. U(K(n) \cup {n + 1}) = U(K(n)) \cup ({n + 1} \X DOMAIN P[n + 1][o])
  OBVIOUS
<1> HIDE DEF U
<1>4. QED
  BY <1>1, <1>2, <1>3

\* What is in two sequences, one after the other.
LEMMA SetOfBoth ==
  ASSUME NEW S, NEW T, NEW a \in Seq(S), NEW b \in Seq(T)
  PROVE  ToSet(a \o b) = ToSet(a) \cup ToSet(b)
<1>1. /\ DOMAIN (a \o b) = 1 .. Len(a) + Len(b) /\ DOMAIN a = 1 .. Len(a)
      /\ DOMAIN b = 1 .. Len(b) /\ Len(a) \in Nat /\ Len(b) \in Nat
  OBVIOUS
<1>2. \A i \in DOMAIN a : i \in DOMAIN (a \o b) /\ (a \o b)[i] = a[i]
  BY <1>1
<1>3. \A i \in DOMAIN b : Len(a) + i \in DOMAIN (a \o b) /\ (a \o b)[Len(a) + i] = b[i]
  BY <1>1
<1>4. \A i \in DOMAIN (a \o b) :
        i \in DOMAIN a \/ (i - Len(a) \in DOMAIN b /\ i = Len(a) + (i - Len(a)))
  BY <1>1
<1> DEFINE c == a \o b
<1>5. ASSUME NEW x \in ToSet(c) PROVE x \in ToSet(a) \cup ToSet(b)
  <2>1. PICK i \in DOMAIN c : x = c[i]
    BY DEF ToSet
  <2>2. QED
    BY <1>2, <1>3, <1>4, <2>1 DEF ToSet
<1>6. ASSUME NEW x \in ToSet(a) \cup ToSet(b) PROVE x \in ToSet(c)
  BY <1>2, <1>3 DEF ToSet
<1>7. QED
  BY <1>5, <1>6

\* Storing what the next place says.
LEMMA StoreMerges ==
  ASSUME NEW P, NEW n \in Nat, NEW m, Merged(P, n, m), Filled(P[n + 1])
  PROVE  Merged(P, n + 1, Store(m, P[n + 1]))
<1> DEFINE g == P[n + 1]
           s == Store(m, g)
<1>1. DOMAIN s = DOMAIN m \cup DOMAIN g
  BY DEF Store
<1>2. 1 .. n + 1 = 1 .. n \cup {n + 1}
  OBVIOUS
<1>3. DOMAIN s = UNION {DOMAIN P[k] : k \in 1 .. n + 1}
  BY <1>1, <1>2 DEF Merged
<1>4. ASSUME NEW o \in DOMAIN s \ Composing
      PROVE  \E k \in 1 .. n + 1 : /\ o \in DOMAIN P[k] /\ s[o] = P[k][o]
                                   /\ \A j \in 1 .. n + 1 : o \in DOMAIN P[j] => k <= j
  <2>1. CASE o \in DOMAIN m
    <3>1. s[o] = m[o]
      BY <1>1, <1>4, <2>1 DEF Store
    <3>2. PICK k \in 1 .. n : /\ o \in DOMAIN P[k] /\ m[o] = P[k][o]
                              /\ \A j \in 1 .. n : o \in DOMAIN P[j] => k <= j
      BY <1>4, <2>1 DEF Merged
    <3>3. k <= n + 1
      OBVIOUS
    <3>4. QED
      BY <1>2, <3>1, <3>2, <3>3
  <2>2. CASE o \notin DOMAIN m
    <3>1. o \in DOMAIN g /\ s[o] = g[o]
      BY <1>1, <2>2 DEF Store
    <3>2. \A j \in 1 .. n : o \notin DOMAIN P[j]
      BY <2>2 DEF Merged
    <3>3. QED
      BY <1>2, <3>1, <3>2
  <2>3. QED
    BY <2>1, <2>2
<1>5. ASSUME NEW o \in DOMAIN s \cap Composing
      PROVE  /\ s[o] \in Seq(ToSet(s[o]))
             /\ IsFiniteSet(SaidBy(P, n + 1, o))
             /\ Cardinality(SaidBy(P, n + 1, o)) = Len(s[o])
             /\ ToSet(s[o]) = TextsAt(P, o, SaidBy(P, n + 1, o))
  <2> DEFINE more == {n + 1} \X DOMAIN g[o]
  <2>1. o \in DOMAIN m =>
          /\ m[o] \in Seq(ToSet(m[o]))
          /\ IsFiniteSet(SaidBy(P, n, o)) /\ Cardinality(SaidBy(P, n, o)) = Len(m[o])
          /\ ToSet(m[o]) = TextsAt(P, o, SaidBy(P, n, o))
    BY <1>5 DEF Merged
  <2>2. o \notin DOMAIN m => SaidBy(P, n, o) = {}
    BY DEF Merged, SaidBy
  <2>3. o \in DOMAIN g =>
          /\ g[o] \in Seq(ToSet(g[o])) /\ DOMAIN g[o] = 1 .. Len(g[o]) /\ Len(g[o]) \in Nat
          /\ IsFiniteSet(more) /\ Cardinality(more) = Len(g[o])
          /\ ToSet(g[o]) = TextsAt(P, o, more)
    <3>1. SUFFICES ASSUME o \in DOMAIN g
                   PROVE  /\ g[o] \in Seq(ToSet(g[o])) /\ DOMAIN g[o] = 1 .. Len(g[o])
                          /\ Len(g[o]) \in Nat
                          /\ IsFiniteSet(more) /\ Cardinality(more) = Len(g[o])
                          /\ ToSet(g[o]) = TextsAt(P, o, more)
      OBVIOUS
    <3>2. g[o] \in Seq(ToSet(g[o]))
      BY <3>1 DEF Filled
    <3>3. DOMAIN g[o] = 1 .. Len(g[o]) /\ Len(g[o]) \in Nat
      BY <3>2
    <3>4. IsFiniteSet(more) /\ Cardinality(more) = Len(g[o])
      BY <3>3, PairsOfPlace
    <3>5. ToSet(g[o]) = TextsAt(P, o, more)
      <4>1. \A i \in DOMAIN g[o] : <<n + 1, i>> \in more
        OBVIOUS
      <4>2. \A t \in more : t[1] = n + 1 /\ t[2] \in DOMAIN g[o]
        OBVIOUS
      <4>3. \A i \in DOMAIN g[o] : <<n + 1, i>>[1] = n + 1 /\ <<n + 1, i>>[2] = i
        OBVIOUS
      <4> HIDE DEF more
      <4>4. QED
        BY <4>1, <4>2, <4>3 DEF ToSet, TextsAt
    <3>6. QED
      BY <3>2, <3>3, <3>4, <3>5
  <2>4. SaidBy(P, n + 1, o) = IF o \in DOMAIN g THEN SaidBy(P, n, o) \cup more
                              ELSE SaidBy(P, n, o)
    BY SaidByNext
  <2>5. SaidBy(P, n, o) \cap more = {}
    BY DEF SaidBy
  <2> HIDE DEF more, g, s
  <2>6. CASE o \notin DOMAIN g
    <3>1. o \in DOMAIN m /\ s[o] = m[o]
      BY <1>1, <1>5, <2>6 DEF Store, s
    <3>2. QED
      BY <2>1, <2>4, <2>6, <3>1
  <2>7. CASE o \in DOMAIN g /\ o \notin DOMAIN m
    <3>1. s[o] = g[o]
      BY <1>1, <1>5, <2>7 DEF Store, s
    <3>2. SaidBy(P, n + 1, o) = more
      BY <2>2, <2>4, <2>7
    <3>3. QED
      BY <2>3, <2>7, <3>1, <3>2
  <2>8. CASE o \in DOMAIN g /\ o \in DOMAIN m
    <3>1. s[o] = m[o] \o g[o]
      BY <1>1, <1>5, <2>8 DEF Store, s
    <3>2. SaidBy(P, n + 1, o) = SaidBy(P, n, o) \cup more
      BY <2>4, <2>8
    <3>3. PICK A : A = SaidBy(P, n, o)
      OBVIOUS
    <3>10. PICK B : B = more
      OBVIOUS
    <3>11. /\ IsFiniteSet(A) /\ IsFiniteSet(B) /\ A \cap B = {}
           /\ Cardinality(A) = Len(m[o]) /\ Cardinality(B) = Len(g[o])
           /\ Len(m[o]) \in Nat /\ Len(g[o]) \in Nat
      BY <2>1, <2>3, <2>5, <2>8, <3>3, <3>10
    <3>12. /\ IsFiniteSet(A \cup B)
           /\ Cardinality(A \cup B) = Cardinality(A) + Cardinality(B) - Cardinality(A \cap B)
      BY <3>11, FS_Union
    <3>13. Cardinality(A \cap B) = 0
      BY <3>11, FS_EmptySet
    <3>4. /\ IsFiniteSet(SaidBy(P, n + 1, o))
          /\ Cardinality(SaidBy(P, n + 1, o)) = Len(m[o]) + Len(g[o])
      <4>1. Cardinality(A \cup B) = Len(m[o]) + Len(g[o])
        BY <3>11, <3>12, <3>13
      <4>2. A \cup B = SaidBy(P, n + 1, o)
        BY <3>2, <3>3, <3>10
      <4>3. QED
        BY <3>12, <4>1, <4>2
    <3>5. Len(m[o] \o g[o]) = Len(m[o]) + Len(g[o])
      BY <2>1, <2>3, <2>8
    <3>6. ToSet(m[o] \o g[o]) = ToSet(m[o]) \cup ToSet(g[o])
      BY <2>1, <2>3, <2>8, SetOfBoth
    <3>7. m[o] \o g[o] \in Seq(ToSet(m[o] \o g[o]))
      <4>1. m[o] \in Seq(ToSet(m[o]) \cup ToSet(g[o])) /\ g[o] \in Seq(ToSet(m[o]) \cup ToSet(g[o]))
        BY <2>1, <2>3, <2>8
      <4>2. QED
        BY <3>6, <4>1
    <3>8. TextsAt(P, o, SaidBy(P, n, o) \cup more) = TextsAt(P, o, SaidBy(P, n, o)) \cup TextsAt(P, o, more)
      BY DEF TextsAt
    <3>9. QED
      BY <2>1, <2>3, <2>8, <3>1, <3>2, <3>4, <3>5, <3>6, <3>7, <3>8
  <2>9. QED
    BY <2>6, <2>7, <2>8
<1>6. QED
  BY <1>3, <1>4, <1>5 DEF Merged

-----------------------------------------------------------------------------
(* What is stored when all places are read *)

\* The places: the command line, and then the files.
LEMMA PlacesAre ==
  ASSUME line \in CommandLines, files \in ConfigFiles
  PROVE  /\ Len(files) \in Nat /\ DOMAIN Places = 1 .. Len(files) + 1
         /\ Places[1] = line /\ \A k \in 1 .. Len(files) : Places[k + 1] = files[k]
         /\ \A k \in DOMAIN Places : Filled(Places[k])
<1>1. files \in Seq(ToSet(files)) /\ Filled(line) /\ \A k \in DOMAIN files : Filled(files[k])
  BY GivenAssumption DEF GivenAssumption
<1>2. /\ Len(files) \in Nat /\ DOMAIN files = 1 .. Len(files)
      /\ DOMAIN Places = 1 .. Len(files) + 1
      /\ Places[1] = line /\ \A k \in 1 .. Len(files) : Places[k + 1] = files[k]
  <2>1. PICK S : files \in Seq(S) /\ <<line>> \in Seq({line}) /\ Len(<<line>>) = 1
                 /\ <<line>>[1] = line
    BY <1>1
  <2>2. QED
    BY <2>1 DEF Places
<1>3. ASSUME NEW k \in DOMAIN Places PROVE Filled(Places[k])
  <2>1. CASE k = 1
    BY <1>1, <1>2, <2>1
  <2>2. CASE k # 1
    <3>1. k - 1 \in DOMAIN files /\ Places[(k - 1) + 1] = files[k - 1] /\ (k - 1) + 1 = k
      BY <1>2, <2>2
    <3>2. QED
      BY <1>1, <3>1
  <2>3. QED
    BY <2>1, <2>2
<1>4. QED
  BY <1>2, <1>3

\* The least element is what Min gives.
LEMMA MinIsLeast ==
  ASSUME NEW S \in SUBSET Nat, NEW k \in S, \A j \in S : k <= j
  PROVE  Min(S) = k
<1> DEFINE m == CHOOSE x \in S : \A y \in S : x <= y
<1>1. m \in S /\ \A y \in S : m <= y
  OBVIOUS
<1>2. Min(S) = m
  BY DEF Min
<1> HIDE DEF m
<1>3. m <= k /\ k <= m /\ m \in Nat /\ k \in Nat
  BY <1>1
<1>4. QED
  BY <1>2, <1>3

\* A default has a text, and no option that composes has one.
LEMMA DefaultsAreTexts ==
  /\ \A o \in DOMAIN DefaultOf : o \notin Composing /\ DefaultOf[o] # <<>>
  /\ DefaultedFiles \cup DefaultedDates \cup Zeros \cup {"linesperpage"} \subseteq DOMAIN DefaultOf
<1>1. DOMAIN DefaultOf = DefaultedFiles \cup DefaultedDates \cup Zeros \cup
         {"linesperpage", "threads", "ospath", "explicittradesext", "dataerrorhandling"}
  BY DEF DefaultOf
<1>2. \A o \in DOMAIN DefaultOf : o \notin Composing
  BY <1>1 DEF Composing, DefaultedFiles, DefaultedDates, Zeros
<1>3. \A o \in DOMAIN DefaultOf : DefaultOf[o] \in {<<"empty">>, <<"zero">>, <<"default">>}
  BY DEF DefaultOf
<1>4. <<"empty">> # <<>> /\ <<"zero">> # <<>> /\ <<"default">> # <<>>
  OBVIOUS
<1>5. QED
  BY <1>1, <1>2, <1>3, <1>4

\* All places have been read.
AllStored ==
  line \in CommandLines /\ files \in ConfigFiles /\ Merged(Places, Len(files) + 1, vm)

\* Then an option is stored if a place names it.
LEMMA StoredIsNamed ==
  ASSUME AllStored, NEW o
  PROVE  /\ o \in DOMAIN vm <=> Naming(o) # {}
         /\ SaidBy(Places, Len(files) + 1, o) = Said(o)
BY PlacesAre DEF AllStored, Merged, Naming, SaidBy, Said

\* The value of an option that does not compose is the one asked for.
LEMMA StoredIsAsked ==
  ASSUME AllStored, NEW o, o \notin Composing
  PROVE  /\ IsStored(o) => Value(o) = Asked(o) /\ Asked(o) # <<>>
         /\ ~IsStored(o) => Asked(o) = <<>>
         /\ HasText(o) <=> IsAsked(o)
<1>1. CASE o \in DOMAIN vm
  <2>1. PICK k \in 1 .. Len(files) + 1 :
          /\ o \in DOMAIN Places[k] /\ vm[o] = Places[k][o]
          /\ \A j \in 1 .. Len(files) + 1 : o \in DOMAIN Places[j] => k <= j
    BY <1>1 DEF AllStored, Merged
  <2>2. /\ Naming(o) \in SUBSET Nat /\ k \in Naming(o) /\ \A j \in Naming(o) : k <= j
        /\ Filled(Places[k])
    BY <2>1, PlacesAre DEF AllStored, Naming
  <2>3. Asked(o) = vm[o] /\ vm[o] # <<>>
    BY <2>1, <2>2, MinIsLeast DEF Asked, Filled
  <2>4. QED
    BY <1>1, <2>3 DEF IsStored, Value, HasText, IsAsked
<1>2. CASE o \notin DOMAIN vm
  <2>1. Naming(o) = {}
    BY <1>2, StoredIsNamed
  <2>2. QED
    BY <1>2, <2>1, DefaultsAreTexts DEF Asked, IsStored, Value, HasText, IsAsked
<1>3. QED
  BY <1>1, <1>2

\* That of one that composes is all that is said of it.
LEMMA ComposedIsSaid ==
  ASSUME AllStored, NEW o \in Composing
  PROVE  /\ HasText(o) <=> IsAsked(o)
         /\ IsStored(o) => Len(Value(o)) = Cardinality(Said(o)) /\ ToSet(Value(o)) = Texts(o)
<1>1. IsStored(o) <=> o \in DOMAIN vm
  BY DefaultsAreTexts DEF IsStored
<1>2. Naming(o) # {} <=> Said(o) # {}
  <2>1. ASSUME NEW k \in Naming(o) PROVE Said(o) # {}
    <3>1. Places[k][o] \in Seq(ToSet(Places[k][o])) /\ Places[k][o] # <<>>
      BY PlacesAre DEF AllStored, Naming, Filled
    <3>2. 1 \in DOMAIN Places[k][o]
      BY <3>1
    <3>3. <<k, 1>> \in Said(o)
      BY <3>2 DEF Said
    <3>4. QED
      BY <3>3
  <2>2. QED
    BY <2>1 DEF Said
<1>3. IsStored(o) => Len(Value(o)) = Cardinality(Said(o)) /\ ToSet(Value(o)) = Texts(o)
  <2> SUFFICES ASSUME IsStored(o)
               PROVE  Len(Value(o)) = Cardinality(Said(o)) /\ ToSet(Value(o)) = Texts(o)
    OBVIOUS
  <2>1. o \in DOMAIN vm /\ Value(o) = vm[o]
    BY <1>1 DEF Value
  <2>2. /\ Cardinality(SaidBy(Places, Len(files) + 1, o)) = Len(vm[o])
        /\ ToSet(vm[o]) = TextsAt(Places, o, SaidBy(Places, Len(files) + 1, o))
    BY <2>1 DEF AllStored, Merged
  <2>3. SaidBy(Places, Len(files) + 1, o) = Said(o)
    BY StoredIsNamed
  <2>4. TextsAt(Places, o, Said(o)) = Texts(o)
    BY DEF TextsAt, Texts
  <2>5. QED
    BY <2>1, <2>2, <2>3, <2>4
<1>4. QED
  BY <1>1, <1>2, <1>3, StoredIsNamed DEF HasText, IsAsked

\* And it has a text if and only if it is asked for.
LEMMA TextIsAsked ==
  ASSUME AllStored, NEW o
  PROVE  HasText(o) <=> IsAsked(o)
BY StoredIsAsked, ComposedIsSaid

-----------------------------------------------------------------------------
(* The steps of a configuration *)

\* The dates of a range.
DatesOrdered(r) == r # <<"late", "early">> /\ "wrong" \notin ToSet(r)

\* A document says what is asked for.
Asks(d) ==
  /\ \A o \in ToSet(Validated) \ {"symbolssourcefile"} : IsAsked(o)
  /\ d.stats = IsAsked("statsfile") /\ d.equity = IsAsked("equitycurvefile")
  /\ d.trades = IsAsked("tradesfile")
  /\ d.charts = IsAsked("chartdescriptionfile")
  /\ d.runnables = Cardinality(Said("systemfile"))
  /\ d.slippage = (Asked("defslippagevalue") # <<"zero">>)
  /\ \A n \in DOMAIN HandlerFiles \ {8} : d.handler[n] = Asked(HandlerFiles[n])
  /\ DatesOrdered(d.range)
  /\ d.data[1] = Asked("datasourcepath")
  /\ flaw = "session exists" => Asked("sessionid") = <<>>

\* What is stored by now; that nothing required is missing.
StoredSoFar == Merged(Places, taken + 1, vm)
AllThere == \A n \in DOMAIN Validated : IsThere(Validated[n])

\* The configuration while it is made.
Underway ==
  /\ line \in CommandLines /\ files \in ConfigFiles /\ verdict = "none"
  /\ taken \in 0 .. Len(files)
  /\ point \in {"line", "files", "read", "validate", "document"}
  /\ point = "line" => vm = <<>> /\ taken = 0
  /\ point # "line" => StoredSoFar
  /\ point \in {"read", "validate", "document"} =>
       taken = Len(files) /\ (flaw = "session exists" => ~IsStored("sessionid"))
  /\ point = "document" => AllThere

\* Until it ends, one way or another.
ConfigurationInv ==
  \/ Underway
  \/ point = "end" /\ SessionIsAsAsked

\* What is asked for does not change when the places do not.
LEMMA SameAsked ==
  ASSUME UNCHANGED <<line, files>>
  PROVE  /\ Places' = Places
         /\ \A o : /\ Naming(o)' = Naming(o) /\ Asked(o)' = Asked(o) /\ Said(o)' = Said(o)
                   /\ Texts(o)' = Texts(o) /\ IsAsked(o)' = IsAsked(o)
<1>1. Places' = Places
  BY DEF Places
<1>2. \A o : Naming(o)' = Naming(o)
  BY <1>1 DEF Naming
<1>3. \A o : Asked(o)' = Asked(o) /\ Said(o)' = Said(o)
  BY <1>1, <1>2 DEF Asked, Said
<1>4. \A o : Texts(o)' = Texts(o)
  BY <1>1, <1>3 DEF Texts
<1>5. \A o : IsAsked(o)' = IsAsked(o)
  BY <1>3 DEF IsAsked
<1>6. QED
  BY <1>1, <1>2, <1>3, <1>4, <1>5

\* The property, in terms of the document.
LEMMA SessionIs ==
  SessionIsAsAsked <=>
    /\ verdict = "runs" => Asks(session)
    /\ verdict \in ToSet(Validated) => ~IsAsked(verdict)
    /\ verdict = "bad cast" => \E o \in ToSet(Unguarded) : Naming(o) = {}
    /\ verdict = "invalid macro" => "lone" \in Texts("define")
BY DEF SessionIsAsAsked, Asks, DatesOrdered

\* The options that validate looks for, and what else a verdict may be.
LEMMA ValidatedAre ==
  /\ Len(Validated) = 14 /\ DOMAIN Validated = 1 .. 14
  /\ Validated[7] = "symbolssourceid"
  /\ \A n \in 1 .. 14 : n # 9 => Validated[n] # "symbolssourcefile"
  /\ \A n \in 1 .. 14 : Validated[n] \notin {"runs", "bad cast", "invalid macro"}
  /\ \A what \in {"none", "twice", "no config file", "session exists", "help", "no system file",
                  "dates", "runs", "bad cast", "invalid macro"} : what \notin ToSet(Validated)
  /\ {"systemfile", "datasourcepath"} \subseteq ToSet(Validated)
<1>1. Len(Validated) = 14 /\ DOMAIN Validated = 1 .. 14
  BY DEF Validated
<1>2. /\ Validated[1] = "systemfile" /\ Validated[2] = "includepath"
      /\ Validated[3] = "libpath" /\ Validated[4] = "toolspath"
      /\ Validated[5] = "projectpath" /\ Validated[6] = "outputpath"
      /\ Validated[7] = "symbolssourceid" /\ Validated[8] = "statshandlerid"
      /\ Validated[9] = "symbolssourcefile" /\ Validated[10] = "datasourcepath"
      /\ Validated[11] = "datasourceid" /\ Validated[12] = "ospath"
      /\ Validated[13] = "sessionparentpath" /\ Validated[14] = "explicittradesext"
  BY DEF Validated
<1>3. \A n \in 1 .. 14 : n \in {1, 2, 3, 4, 5, 6, 7, 8, 9, 10, 11, 12, 13, 14}
  OBVIOUS
<1>4. ToSet(Validated) = {Validated[n] : n \in 1 .. 14}
  BY <1>1 DEF ToSet
<1>5. \A n \in 1 .. 14 :
        /\ n # 9 => Validated[n] # "symbolssourcefile"
        /\ Validated[n] \notin {"runs", "bad cast", "invalid macro"}
        /\ Validated[n] \notin {"none", "twice", "no config file", "session exists", "help",
                                "no system file", "dates"}
  <2> SUFFICES ASSUME NEW n \in 1 .. 14
               PROVE  /\ n # 9 => Validated[n] # "symbolssourcefile"
                      /\ Validated[n] \notin {"runs", "bad cast", "invalid macro"}
                      /\ Validated[n] \notin {"none", "twice", "no config file", "session exists",
                                              "help", "no system file", "dates"}
    OBVIOUS
  <2>1. n = 1 \/ n = 2 \/ n = 3 \/ n = 4 \/ n = 5 \/ n = 6 \/ n = 7 \/ n = 8 \/ n = 9
          \/ n = 10 \/ n = 11 \/ n = 12 \/ n = 13 \/ n = 14
    BY <1>3
  <2>2. n = 9 \/ Validated[n] \in
          {"systemfile", "includepath", "libpath", "toolspath", "projectpath", "outputpath",
           "symbolssourceid", "statshandlerid", "datasourcepath", "datasourceid", "ospath",
           "sessionparentpath", "explicittradesext"}
    BY <1>2, <2>1, Zenon
  <2>3. n = 9 => Validated[n] = "symbolssourcefile"
    BY <1>2, Zenon
  <2>4. QED
    BY <2>2, <2>3
<1>6. {"systemfile", "datasourcepath"} \subseteq ToSet(Validated)
  <2>1. 1 \in 1 .. 14 /\ 10 \in 1 .. 14
    OBVIOUS
  <2>2. QED
    BY <1>2, <1>4, <2>1
<1>7. \A what \in {"none", "twice", "no config file", "session exists", "help", "no system file",
                    "dates", "runs", "bad cast", "invalid macro"} : what \notin ToSet(Validated)
  BY <1>4, <1>5
<1>8. QED
  BY <1>1, <1>2, <1>5, <1>6, <1>7

\* What ends for a reason that the property says nothing of.
LEMMA EndsOtherwise ==
  ASSUME point' = "end",
         verdict' \in {"twice", "no config file", "session exists", "help", "no system file", "dates"}
  PROVE  ConfigurationInv'
BY ValidatedAre DEF ConfigurationInv, SessionIsAsAsked

\* parse and store, for one place.
LEMMA StoreKeeps ==
  ASSUME UNCHANGED <<line, files>>, line \in CommandLines, files \in ConfigFiles,
         taken' \in 0 .. Len(files), verdict = "none",
         Merged(Places, taken', vm), StoreFrom(Places[taken' + 1])
  PROVE  ConfigurationInv'
<1> DEFINE g == Places[taken' + 1]
<1>1. taken' + 1 \in DOMAIN Places /\ Filled(g) /\ taken' \in Nat
  BY PlacesAre
<1>2. CASE Twice(vm, g)
  BY <1>2, EndsOtherwise DEF StoreFrom, End
<1>3. CASE ~Twice(vm, g)
  <2>1. vm' = Store(vm, g) /\ point' = "files" /\ verdict' = "none"
    BY <1>3 DEF StoreFrom
  <2>2. Merged(Places, taken' + 1, Store(vm, g))
    BY <1>1, StoreMerges
  <2>3. StoredSoFar'
    BY <2>1, <2>2, SameAsked DEF StoredSoFar
  <2>4. QED
    BY <2>1, <2>3 DEF ConfigurationInv, Underway
<1>4. QED
  BY <1>2, <1>3

\* The command line.
LEMMA StoreLineKeeps ==
  ASSUME ConfigurationInv, StoreLine
  PROVE  ConfigurationInv'
<1>1. /\ line \in CommandLines /\ files \in ConfigFiles /\ verdict = "none" /\ taken = 0
      /\ vm = <<>> /\ UNCHANGED <<line, files, taken>> /\ StoreFrom(line)
  BY DEF ConfigurationInv, Underway, StoreLine
<1>2. Merged(Places, 0, vm)
  BY <1>1 DEF Merged
<1>3. Places[taken' + 1] = line /\ taken' \in 0 .. Len(files)
  BY <1>1, PlacesAre
<1>4. QED
  BY <1>1, <1>2, <1>3, StoreKeeps

\* The next of the files.
LEMMA StoreFileKeeps ==
  ASSUME ConfigurationInv, StoreFile
  PROVE  ConfigurationInv'
<1>1. /\ line \in CommandLines /\ files \in ConfigFiles /\ verdict = "none"
      /\ taken \in 0 .. Len(files) /\ Merged(Places, taken + 1, vm)
      /\ UNCHANGED <<line, files>> /\ taken < Len(files) /\ taken' = taken + 1
  BY DEF ConfigurationInv, Underway, StoreFile, StoredSoFar
<1>2. Len(files) \in Nat
  BY <1>1, PlacesAre
<1>3. taken' \in 1 .. Len(files) /\ Places[taken' + 1] = files[taken']
  BY <1>1, <1>2, PlacesAre
<1>4. CASE flaw = "no config file" /\ taken' = Len(files)
  BY <1>4, EndsOtherwise DEF StoreFile, End
<1>5. CASE ~(flaw = "no config file" /\ taken' = Len(files))
  <2>1. StoreFrom(Places[taken' + 1])
    BY <1>3, <1>5 DEF StoreFile
  <2>2. Merged(Places, taken', vm) /\ taken' \in 0 .. Len(files)
    BY <1>1, <1>3
  <2>3. QED
    BY <1>1, <2>1, <2>2, StoreKeeps
<1>6. QED
  BY <1>4, <1>5

\* The directory of the session.
LEMMA MakeSessionPathKeeps ==
  ASSUME ConfigurationInv, MakeSessionPath
  PROVE  ConfigurationInv'
<1>1. Underway /\ UNCHANGED <<line, files, flaw, vm, taken>> /\ taken = Len(files) /\ point = "files"
  BY DEF ConfigurationInv, MakeSessionPath
<1>2. StoredSoFar' = StoredSoFar
  BY <1>1, SameAsked DEF StoredSoFar
<1>3. CASE (flaw = "session exists" /\ IsStored("sessionid")) \/ IsStored("help")
  BY <1>3, EndsOtherwise DEF MakeSessionPath, End
<1>4. CASE ~((flaw = "session exists" /\ IsStored("sessionid")) \/ IsStored("help"))
  <2>1. point' = "read" /\ verdict' = verdict
    BY <1>4 DEF MakeSessionPath
  <2>2. IsStored("sessionid")' = IsStored("sessionid")
    BY <1>1 DEF IsStored
  <2>3. QED
    BY <1>1, <1>2, <1>4, <2>1, <2>2 DEF ConfigurationInv, Underway
<1>5. QED
  BY <1>3, <1>4

\* The constructor, which reads the options.
LEMMA ReadOptionsKeeps ==
  ASSUME ConfigurationInv, ReadOptions
  PROVE  ConfigurationInv'
<1>1. /\ Underway /\ UNCHANGED <<line, files, flaw, vm, taken>> /\ point = "read"
      /\ AllStored
  BY DEF ConfigurationInv, Underway, ReadOptions, AllStored, StoredSoFar
<1>2. CASE NoSystemFile
  BY <1>2, EndsOtherwise DEF ReadOptions, End, NoSystemFile
<1>3. CASE ~NoSystemFile /\ InvalidMacro
  <2>1. point' = "end" /\ verdict' = "invalid macro"
    BY <1>3 DEF ReadOptions, End
  <2>2. "lone" \in Texts("define")
    BY <1>1, <1>3, ComposedIsSaid DEF InvalidMacro, Composing
  <2>3. ("lone" \in Texts("define"))'
    BY <1>1, <2>2, SameAsked
  <2>4. QED
    BY <2>1, <2>3, ValidatedAre DEF ConfigurationInv, SessionIsAsAsked
<1>4. CASE ~NoSystemFile /\ ~InvalidMacro /\ \E o \in ToSet(Unguarded) : ~IsStored(o)
  <2>1. point' = "end" /\ verdict' = "bad cast"
    BY <1>4 DEF ReadOptions, End
  <2>2. PICK o \in ToSet(Unguarded) : ~IsStored(o)
    BY <1>4
  <2>3. Naming(o) = {}
    BY <1>1, <2>2, StoredIsNamed DEF IsStored
  <2>4. Naming(o)' = {}
    BY <1>1, <2>3, SameAsked
  <2>5. (\E p \in ToSet(Unguarded) : Naming(p) = {})'
    BY <2>2, <2>4
  <2>6. QED
    BY <2>1, <2>5, ValidatedAre DEF ConfigurationInv, SessionIsAsAsked
<1>5. CASE ~NoSystemFile /\ ~InvalidMacro /\ ~\E o \in ToSet(Unguarded) : ~IsStored(o)
  <2>1. point' = "validate" /\ verdict' = verdict
    BY <1>5 DEF ReadOptions
  <2>2. IsStored("sessionid")' = IsStored("sessionid") /\ StoredSoFar' = StoredSoFar
    BY <1>1, SameAsked DEF IsStored, StoredSoFar
  <2>3. QED
    BY <1>1, <2>1, <2>2 DEF ConfigurationInv, Underway
<1>6. QED
  BY <1>2, <1>3, <1>4, <1>5

\* The first option that is not there is not asked for: the file of symbols is never it.
LEMMA TheFirstIsMissing ==
  ASSUME AllStored, NEW n \in Nat, n # 0,
         n = SelectInSeq(Validated, LAMBDA o : ~IsThere(o))
  PROVE  n \in 1 .. 14 /\ ~IsAsked(Validated[n])
<1> DEFINE Missed == {i \in 1 .. Len(Validated) : ~IsThere(Validated[i])}
<1>1. Missed # {} /\ n = Min(Missed)
  BY DEF SelectInSeq
<1>2. Missed \in SUBSET Nat /\ Missed \subseteq 1 .. 14 /\ \A i \in Missed : ~IsThere(Validated[i])
  <2>1. Len(Validated) = 14
    BY ValidatedAre
  <2>2. QED
    BY <2>1
<1>3. \A i \in 1 .. 14 : ~IsThere(Validated[i]) => i \in Missed
  BY ValidatedAre
<1> HIDE DEF Missed
<1>4. PICK k \in Missed : \A j \in Missed : k <= j
  BY <1>1, <1>2, LeastExists
<1>5. n = k
  BY <1>1, <1>2, <1>4, MinIsLeast
<1>6. n # 9
  <2>1. ASSUME n = 9 PROVE FALSE
    <3>1. ~HasText("symbolssourceid")
      BY <1>2, <1>4, <1>5, <2>1 DEF IsThere, Validated
    <3>2. ~IsThere(Validated[7])
      BY <3>1, ValidatedAre DEF IsThere
    <3>3. 7 \in Missed
      BY <1>3, <3>2
    <3>4. QED
      BY <1>4, <1>5, <2>1, <3>3
  <2>2. QED
    BY <2>1
<1>7. ~HasText(Validated[n])
  BY <1>2, <1>4, <1>5, <1>6, ValidatedAre DEF IsThere
<1>8. QED
  BY <1>2, <1>4, <1>5, <1>7, TextIsAsked

\* validate, which ends with the first that is missing.
LEMMA ValidateKeeps ==
  ASSUME ConfigurationInv, Validate
  PROVE  ConfigurationInv'
<1>1. /\ Underway /\ UNCHANGED <<line, files, flaw, vm, taken>> /\ point = "validate"
      /\ AllStored
  BY DEF ConfigurationInv, Underway, Validate, AllStored, StoredSoFar
<1>2. PICK n : n = SelectInSeq(Validated, LAMBDA o : ~IsThere(o))
  OBVIOUS
<1> DEFINE Missed == {i \in 1 .. Len(Validated) : ~IsThere(Validated[i])}
<1>3. n = IF Missed # {} THEN Min(Missed) ELSE 0
  BY <1>2 DEF SelectInSeq
<1>4. CASE n # 0
  <2>1. point' = "end" /\ verdict' = Validated[n]
    BY <1>2, <1>4 DEF Validate, End
  <2>2. n \in Nat
    <3>1. Missed # {} /\ Missed \in SUBSET Nat
      BY <1>3, <1>4
    <3>2. PICK k \in Missed : \A j \in Missed : k <= j
      BY <3>1, LeastExists
    <3>3. QED
      BY <1>3, <3>1, <3>2, MinIsLeast
  <2>3. n \in 1 .. 14 /\ ~IsAsked(Validated[n])
    BY <1>1, <1>2, <1>4, <2>2, TheFirstIsMissing
  <2>4. ~IsAsked(Validated[n])'
    BY <1>1, <2>3, SameAsked
  <2>5. Validated[n] \notin {"runs", "bad cast", "invalid macro"}
    BY <2>3, ValidatedAre
  <2>6. ~IsAsked(verdict)'
    BY <2>1, <2>4
  <2>7. QED
    BY <2>1, <2>5, <2>6 DEF ConfigurationInv, SessionIsAsAsked
<1>5. CASE n = 0
  <2>1. point' = "document" /\ verdict' = verdict
    BY <1>2, <1>5 DEF Validate
  <2>2. Missed = {}
    <3>1. ASSUME Missed # {} PROVE FALSE
      <4>1. Missed \in SUBSET Nat /\ 0 \notin Missed
        OBVIOUS
      <4>2. PICK k \in Missed : \A j \in Missed : k <= j
        BY <3>1, <4>1, LeastExists
      <4>3. QED
        BY <1>3, <1>5, <3>1, <4>1, <4>2, MinIsLeast
    <3>2. QED
      BY <3>1
  <2>3. \A i \in DOMAIN Validated : IsThere(Validated[i])
    BY <2>2, ValidatedAre
  <2>4. IsStored("sessionid")' = IsStored("sessionid") /\ StoredSoFar' = StoredSoFar
    BY <1>1, SameAsked DEF IsStored, StoredSoFar
  <2>5. AllThere'
    BY <1>1, <2>3 DEF AllThere, IsThere, HasText, IsStored, Value
  <2>6. QED
    BY <1>1, <2>1, <2>4, <2>5 DEF ConfigurationInv, Underway
<1>6. QED
  BY <1>4, <1>5

\* The names for the handler all have defaults.
LEMMA HandlerFilesAre ==
  \A n \in DOMAIN HandlerFiles \ {8} :
    HandlerFiles[n] \in DOMAIN DefaultOf /\ HandlerFiles[n] \notin Composing
<1>1. DOMAIN HandlerFiles = 1 .. 8
  BY DEF HandlerFiles
<1>2. \A n \in 1 .. 8 : n # 8 => n \in {1, 2, 3, 4, 5, 6, 7}
  OBVIOUS
<1>3. \A n \in {1, 2, 3, 4, 5, 6, 7} : HandlerFiles[n] \in DefaultedFiles \cup {"linesperpage"}
  BY DEF HandlerFiles, DefaultedFiles
<1>4. QED
  BY <1>1, <1>2, <1>3, DefaultsAreTexts

\* What is not in the wrong order is in order.
LEMMA TwoInOrder ==
  ASSUME NEW a, NEW b, "wrong" # a, "wrong" # b, <<b, a>> # <<"early", "late">>
  PROVE  DatesOrdered(<<a, b>>)
<1>1. <<a, b>> # <<"late", "early">>
  OBVIOUS
<1>2. <<a, b>>[1] = a /\ <<a, b>>[2] = b /\ DOMAIN <<a, b>> = 1 .. 2
  OBVIOUS
<1>3. \A n \in 1 .. 2 : n = 1 \/ n = 2
  OBVIOUS
<1> DEFINE t == <<a, b>>
<1>4. "wrong" \notin ToSet(t)
  <2> HIDE DEF t
  <2>1. t[1] = a /\ t[2] = b /\ DOMAIN t = 1 .. 2
    BY <1>2 DEF t
  <2>2. QED
    BY <1>3, <2>1 DEF ToSet
<1>5. QED
  BY <1>1, <1>4 DEF DatesOrdered

\* So it is for the dates that are let pass.
LEMMA DatesInOrder ==
  ASSUME ~WrongDate, <<To, From>> \notin Before
  PROVE  DatesOrdered(<<From, To>>)
<1>1. PICK a, b : a = From /\ b = To
  OBVIOUS
<1>2. "wrong" # a /\ "wrong" # b
  BY <1>1 DEF WrongDate
<1>3. <<b, a>> # <<"early", "late">>
  BY <1>1 DEF Before
<1>4. QED
  BY <1>1, <1>2, <1>3, TwoInOrder

\* The document that is made of what is stored.
LEMMA DocumentIsAsAsked ==
  ASSUME AllStored, \A n \in DOMAIN Validated : IsThere(Validated[n]),
         DatesOrdered(<<From, To>>),
         flaw = "session exists" => ~IsStored("sessionid")
  PROVE  Asks(Document)
<1> DEFINE d == Document
<1>1. \A o \in ToSet(Validated) \ {"symbolssourcefile"} : IsStored(o) /\ IsAsked(o)
  <2> SUFFICES ASSUME NEW o \in ToSet(Validated) \ {"symbolssourcefile"}
               PROVE  IsStored(o) /\ IsAsked(o)
    OBVIOUS
  <2>1. HasText(o)
    BY DEF IsThere, ToSet
  <2>2. QED
    BY <2>1, TextIsAsked DEF HasText
<1>2. \A o : o \in DOMAIN DefaultOf => IsStored(o) /\ Value(o) = Asked(o)
  BY StoredIsAsked, DefaultsAreTexts DEF IsStored
<1>3. /\ d.stats = HasText("statsfile") /\ d.equity = HasText("equitycurvefile")
      /\ d.trades = HasText("tradesfile") /\ d.charts = HasText("chartdescriptionfile")
      /\ d.slippage = (Value("defslippagevalue") # <<"zero">>)
      /\ d.runnables = Len(Value("systemfile")) /\ d.range = <<From, To>>
      /\ d.handler = [n \in DOMAIN HandlerFiles |->
                        IF IsStored(HandlerFiles[n]) THEN Value(HandlerFiles[n]) ELSE <<"random">>]
      /\ d.data[1] = Value("datasourcepath")
  <2>1. PICK a, b : a = Value("datasourcepath") /\ b = Value("dataerrorhandling")
    OBVIOUS
  <2>2. <<a, b>>[1] = a
    OBVIOUS
  <2>3. d.data = <<a, b>>
    BY <2>1 DEF Document
  <2>4. d.data[1] = Value("datasourcepath")
    BY <2>1, <2>2, <2>3
  <2>5. QED
    BY <2>4 DEF Document
<1> HIDE DEF d
<1>4. /\ d.stats = IsAsked("statsfile") /\ d.equity = IsAsked("equitycurvefile")
      /\ d.trades = IsAsked("tradesfile") /\ d.charts = IsAsked("chartdescriptionfile")
  <2>1. \A o : HasText(o) <=> IsAsked(o)
    BY TextIsAsked
  <2>2. \A o : HasText(o) \in BOOLEAN /\ IsAsked(o) \in BOOLEAN
    BY DEF HasText, IsAsked
  <2>3. \A o : HasText(o) = IsAsked(o)
    BY <2>1, <2>2
  <2>4. QED
    BY <1>3, <2>3
<1>5. d.runnables = Cardinality(Said("systemfile"))
  <2>1. "systemfile" \in ToSet(Validated) \ {"symbolssourcefile"}
    BY ValidatedAre
  <2>2. QED
    BY <1>1, <1>3, <2>1, ComposedIsSaid DEF Composing
<1>6. d.slippage = (Asked("defslippagevalue") # <<"zero">>)
  BY <1>2, <1>3, DefaultsAreTexts DEF Zeros
<1>7. \A n \in DOMAIN HandlerFiles \ {8} : d.handler[n] = Asked(HandlerFiles[n])
  BY <1>2, <1>3, HandlerFilesAre
<1>8. DatesOrdered(d.range)
  BY <1>3
<1>9. d.data[1] = Asked("datasourcepath")
  <2>1. "datasourcepath" \in ToSet(Validated) \ {"symbolssourcefile"} /\ "datasourcepath" \notin Composing
    BY ValidatedAre DEF Composing
  <2>2. Value("datasourcepath") = Asked("datasourcepath")
    BY <1>1, <2>1, StoredIsAsked
  <2>3. QED
    BY <1>3, <2>2
<1>10. flaw = "session exists" => Asked("sessionid") = <<>>
  BY StoredIsAsked DEF Composing
<1>11. QED
  BY <1>1, <1>4, <1>5, <1>6, <1>7, <1>8, <1>9, <1>10 DEF Asks, d

\* Making the document.
LEMMA MakeDocumentKeeps ==
  ASSUME ConfigurationInv, MakeDocument
  PROVE  ConfigurationInv'
<1>1. /\ Underway /\ UNCHANGED <<line, files, flaw>> /\ point = "document" /\ AllStored
  BY DEF ConfigurationInv, Underway, MakeDocument, AllStored, StoredSoFar
<1>2. CASE WrongDate \/ <<To, From>> \in Before
  BY <1>2, EndsOtherwise DEF MakeDocument, End
<1>3. CASE ~(WrongDate \/ <<To, From>> \in Before)
  <2>1. point' = "end" /\ verdict' = "runs" /\ session' = Document
    BY <1>3 DEF MakeDocument, End
  <2>2. Asks(Document)
    BY <1>1, <1>3, DatesInOrder, DocumentIsAsAsked DEF Underway, AllThere
  <2>3. Asks(session)'
    <3>1. PICK d : d = Document
      OBVIOUS
    <3>2. Asks(d) /\ session' = d
      BY <2>1, <2>2, <3>1
    <3>3. QED
      BY <1>1, <3>2, SameAsked DEF Asks
  <2>4. SessionIsAsAsked'
    BY <2>1, <2>3, ValidatedAre DEF SessionIsAsAsked, Asks, DatesOrdered
  <2>5. QED
    BY <2>1, <2>4 DEF ConfigurationInv
<1>4. QED
  BY <1>2, <1>3

\* The configuration starts with it.
LEMMA ConfigurationStarts ==
  ASSUME ConfigurationInit
  PROVE  ConfigurationInv
<1>1. line \in CommandLines /\ files \in ConfigFiles /\ point = "line"
  BY DEF ConfigurationInit
<1>2. Len(files) \in Nat
  BY <1>1, PlacesAre
<1>3. QED
  BY <1>1, <1>2 DEF ConfigurationInit, ConfigurationInv, Underway

\* A step of another program keeps it.
LEMMA ConfigurationStays ==
  ASSUME ConfigurationInv, UNCHANGED configVars
  PROVE  ConfigurationInv'
<1>1. UNCHANGED <<line, files, flaw, vm, point, taken, verdict, session>>
  BY DEF configVars
<1>2. CASE Underway
  <2>1. StoredSoFar' = StoredSoFar /\ IsStored("sessionid")' = IsStored("sessionid")
    BY <1>1, SameAsked DEF IsStored, StoredSoFar
  <2>3. AllThere => AllThere'
    BY <1>1 DEF AllThere, IsThere, HasText, IsStored, Value
  <2>2. QED
    BY <1>1, <1>2, <2>1, <2>3 DEF ConfigurationInv, Underway
<1>3. CASE point = "end" /\ SessionIsAsAsked
  BY <1>1, <1>3, SameAsked DEF ConfigurationInv, SessionIsAsAsked
<1>4. QED
  BY <1>2, <1>3 DEF ConfigurationInv

\* Every step keeps it.
LEMMA ConfigurationStep ==
  ASSUME ConfigurationInv, ConfigurationNext
  PROVE  ConfigurationInv'
BY StoreLineKeeps, StoreFileKeeps, MakeSessionPathKeeps, ReadOptionsKeeps, ValidateKeeps,
   MakeDocumentKeeps DEF ConfigurationNext

\* The invariant gives the property.
LEMMA ConfigurationGives == ConfigurationInv => SessionIsAsAsked
BY ValidatedAre DEF ConfigurationInv, Underway, SessionIsAsAsked, ToSet, Validated

-----------------------------------------------------------------------------
(* The theorem *)

\* Each program is in a state of its own, and the others do not touch it.
ProgramsInv == RangesInv /\ ConfigurationInv

\* They start so.
LEMMA ProgramsInit == Init => ProgramsInv
<1> SUFFICES ASSUME Init PROVE RangesInv /\ ConfigurationInv
  BY DEF ProgramsInv
<1>1. RangesInv
  <2>1. CASE part = "optimizer"
    <3>1. OptimizerMainInit
      BY <2>1 DEF Init
    <3>2. QED
      BY <3>1, RangesInit
  <2>2. CASE part # "optimizer"
    <3>1. IdleOptimizerMain
      BY <2>2 DEF Init, Idle
    <3>2. QED
      BY <3>1 DEF IdleOptimizerMain, RangesInv, NothingYet
  <2>3. QED
    BY <2>1, <2>2
<1>2. ConfigurationInv
  <2>1. CASE part = "configuration"
    <3>1. ConfigurationInit
      BY <2>1 DEF Init
    <3>2. QED
      BY <3>1, ConfigurationStarts
  <2>2. CASE part # "configuration"
    <3>1. point = "end" /\ verdict = "none"
      BY <2>2 DEF Init, Idle, IdleConfiguration
    <3>2. QED
      BY <3>1, ValidatedAre DEF ConfigurationInv, SessionIsAsAsked
  <2>3. QED
    BY <2>1, <2>2
<1>3. QED
  BY <1>1, <1>2

\* They stay so.
LEMMA ProgramsStep ==
  ASSUME ProgramsInv, [Next]_vars
  PROVE  ProgramsInv'
<1>1. RangesInv'
  <2>1. OptimizerMainNext \/ UNCHANGED optimizerMainVars
    BY DEF Next, vars
  <2>2. QED
    BY <2>1, RangesStep, RangesStay DEF ProgramsInv
<1>2. ConfigurationInv'
  <2>1. ConfigurationNext \/ UNCHANGED configVars
    BY DEF Next, vars
  <2>2. QED
    BY <2>1, ConfigurationStep, ConfigurationStays DEF ProgramsInv
<1>3. QED
  BY <1>1, <1>2 DEF ProgramsInv

\* Whatever the command lines, files, options and failures, and however long the ranges:
\* the programs do what they are asked for, and nothing when it is not understood.
THEOREM ProgramsAreAsAskedAlways == Spec => []ProgramsAreAsAsked
<1>1. Init => ProgramsInv
  BY ProgramsInit
<1>2. ProgramsInv /\ [Next]_vars => ProgramsInv'
  BY ProgramsStep
<1>3. ProgramsInv => ProgramsAreAsAsked
  BY RangesGive, ConfigurationGives DEF ProgramsInv, ProgramsAreAsAsked
<1>4. QED
  BY <1>1, <1>2, <1>3, PTL DEF Spec

-----------------------------------------------------------------------------
(* The trades that another program wrote *)

PositionType ==
  [of : Nat, at : Nat, as : {"market", "limit", "stop"}, open : Nat, closed : Nat,
   with : {"none", "market", "limit", "stop"}]

ExternalTypes ==
  /\ phase \in {"file", "bars", "entries", "exits", "ended"}
  /\ file \in Seq(TradesOf)
  /\ dates \in Seq(ExtDates) /\ InOrder(dates)
  /\ barNo \in 0 .. Len(dates)
  /\ price \in Nat
  /\ ids \in [DOMAIN file -> 0 .. Len(opened)]
  /\ opened \in Seq(PositionType)
  /\ failed # "no" => phase = "ended"

\* Where the run on the symbol is.
WhereItIs ==
  /\ phase = "file" => barNo = 0 /\ opened = <<>> /\ due = {} /\ dates # <<>>
  /\ phase = "bars" => barNo < Len(dates) /\ due = {}
  /\ phase = "entries" => barNo > 0 /\ due \subseteq GetEntries(dates[barNo])
  /\ phase = "exits" => barNo > 0 /\ due \subseteq GetExits(dates[barNo])
  /\ phase = "ended" /\ failed = "no" => barNo = Len(dates) /\ due = {}

\* Every position is of a trade of its dates, and the one of a trade is its last.
PositionsAsWritten == \A n \in DOMAIN opened :
  LET p == opened[n] t == file[p.of] IN
  /\ p.of \in OwnTrades
  /\ p.at \in 1 .. barNo /\ dates[p.at] = t.entry
  /\ p.as = "limit" => IF t.long THEN t.price <= p.open ELSE t.price >= p.open
  /\ p.closed # 0 => p.closed \in p.at .. barNo /\ dates[p.closed] = t.exit

IdsOfPositions == \A k \in OwnTrades :
  IF ids[k] = 0 THEN PositionsOf(k) = {} ELSE ids[k] \in PositionsOf(k)

\* The bars on which a trade was entered, and those on which it was exited.
Entered(k) ==
  {b \in BarsOf(file[k].entry) :
     b < barNo \/ (b = barNo /\ (phase = "entries" => k \notin due))}
Exited(k) ==
  {b \in BarsOf(file[k].exit) :
     b < barNo \/ (b = barNo /\ phase # "entries" /\ (phase = "exits" => k \notin due))}

\* It has one position for each bar of its entry that is done.
OncePerBar ==
  /\ \A m, n \in DOMAIN opened :
       opened[m].of = opened[n].of /\ opened[m].at = opened[n].at => m = n
  /\ failed = "no" => \A k \in OwnTrades : {opened[n].at : n \in PositionsOf(k)} = Entered(k)

\* Its exit is still to be made on the bar.
Pending(k) ==
  phase \in {"entries", "exits"} /\ file[k].exit = dates[barNo] /\ (phase = "exits" => k \in due)

\* Once it was exited, only the entry of the bar that it is exited on is open.
ExitedIsClosed == failed = "no" => \A k \in OwnTrades : Exited(k) # {} =>
  /\ file[k].entry <= file[k].exit
  /\ ids[k] # 0
  /\ opened[ids[k]].closed # 0 \/ Pending(k)

NothingToExit == failed = "no position" =>
  \E k \in OwnTrades :
    file[k].exit = dates[barNo] /\ \A b \in BarsOf(file[k].entry) : b > barNo

ExternalInv ==
  /\ ExternalTypes /\ WhereItIs /\ PositionsAsWritten /\ IdsOfPositions
  /\ OncePerBar /\ ExitedIsClosed /\ NothingToExit

\* What is known of a trade of the symbol, and of its position.
LEMMA OfOwn ==
  ASSUME ExternalTypes, NEW k \in OwnTrades
  PROVE  /\ k \in DOMAIN file /\ k \in Nat /\ file[k] \in TradesOf
         /\ file[k].entry \in Nat \ {0} /\ file[k].exit \in Nat
         /\ file[k].price \in Nat /\ file[k].long \in BOOLEAN
         /\ ids[k] \in 0 .. Len(opened)
<1>1. k \in DOMAIN file /\ k \in Nat
  BY DEF OwnTrades, ExternalTypes
<1>2. file[k] \in TradesOf
  BY <1>1 DEF ExternalTypes
<1>3. /\ file[k].entry \in ExtDates /\ file[k].exit \in ExtDates \cup {NoDate}
      /\ file[k].price \in ExtPrices /\ file[k].long \in BOOLEAN
  BY <1>2 DEF TradesOf
<1>4. ids[k] \in 0 .. Len(opened)
  BY <1>1 DEF ExternalTypes
<1>5. ExtDates \subseteq Nat \ {0} /\ ExtPrices \subseteq Nat /\ NoDate = 0
  BY ExternalAssumption DEF NoDate
<1>6. file[k].entry \in Nat \ {0} /\ file[k].price \in Nat
  BY <1>3, <1>5
<1>7. file[k].exit \in Nat
  <2>1. ExtDates \cup {NoDate} \subseteq Nat
    BY <1>5
  <2>2. QED
    BY <1>3, <2>1, Zenon
<1>8. QED
  BY <1>1, <1>2, <1>3, <1>4, <1>6, <1>7

\* The numbers of the positions, and of the bars.
LEMMA OfOpened ==
  ASSUME ExternalTypes
  PROVE  /\ Len(opened) \in Nat /\ DOMAIN opened = 1 .. Len(opened)
         /\ \A n \in DOMAIN opened : opened[n] \in PositionType
         /\ Len(dates) \in Nat /\ DOMAIN dates = 1 .. Len(dates)
         /\ \A b \in DOMAIN dates : dates[b] \in Nat \ {0}
         /\ barNo \in Nat /\ barNo \in barNo .. Len(dates)
         /\ barNo = Len(dates) \/ barNo < Len(dates)
<1>1. \A b \in DOMAIN dates : dates[b] \in ExtDates
  BY DEF ExternalTypes
<1>2. \A b \in DOMAIN dates : dates[b] \in Nat \ {0}
  BY <1>1, ExternalAssumption DEF NoDate
<1>3. barNo \in 0 .. Len(dates) /\ Len(dates) \in Nat
  BY DEF ExternalTypes
<1>4. /\ barNo \in Nat /\ barNo \in barNo .. Len(dates)
      /\ barNo = Len(dates) \/ barNo < Len(dates)
  BY <1>3
<1>5. QED
  BY <1>2, <1>4 DEF ExternalTypes

\* The positions and the ids are as they were.
LEMMA BooksStay ==
  ASSUME ExternalInv, UNCHANGED <<file, dates, ids, opened>>, barNo' \in barNo .. Len(dates)
  PROVE  /\ PositionsAsWritten' /\ IdsOfPositions'
         /\ OwnTrades' = OwnTrades
         /\ \A k : PositionsOf(k)' = PositionsOf(k)
         /\ \A d : BarsOf(d)' = BarsOf(d)
<1>1. /\ OwnTrades' = OwnTrades
      /\ \A k : PositionsOf(k)' = PositionsOf(k)
      /\ \A d : BarsOf(d)' = BarsOf(d)
  BY DEF OwnTrades, PositionsOf, BarsOf
<1>2. PositionsAsWritten'
  <2> SUFFICES ASSUME NEW n \in DOMAIN opened
               PROVE LET p == opened[n] t == file[p.of] IN
                     /\ p.of \in OwnTrades
                     /\ p.at \in 1 .. barNo' /\ dates[p.at] = t.entry
                     /\ p.as = "limit" => IF t.long THEN t.price <= p.open ELSE t.price >= p.open
                     /\ p.closed # 0 => p.closed \in p.at .. barNo' /\ dates[p.closed] = t.exit
    BY <1>1 DEF PositionsAsWritten
  <2>1. barNo \in Nat /\ barNo' \in Nat /\ barNo <= barNo'
    BY OfOpened DEF ExternalInv
  <2>2. opened[n].at \in 1 .. barNo'
    BY <2>1 DEF ExternalInv, PositionsAsWritten
  <2>3. opened[n].closed # 0 => opened[n].closed \in opened[n].at .. barNo'
    BY <2>1 DEF ExternalInv, PositionsAsWritten
  <2>4. QED
    BY <2>2, <2>3 DEF ExternalInv, PositionsAsWritten
<1>3. IdsOfPositions'
  BY <1>1 DEF ExternalInv, IdsOfPositions
<1>4. QED
  BY <1>1, <1>2, <1>3

\* A step between two bars, or two passes, that leaves what was entered and exited.
LEMMA TurnKeeps ==
  ASSUME ExternalInv, UNCHANGED <<file, dates, ids, opened, failed>>, failed = "no",
         barNo' \in barNo .. Len(dates), price' \in Nat, WhereItIs',
         phase' \in {"file", "bars", "entries", "exits", "ended"},
         \A k \in OwnTrades : Entered(k)' = Entered(k) /\ Exited(k)' = Exited(k),
         \A k \in OwnTrades : Exited(k) # {} /\ Pending(k) => Pending(k)'
  PROVE  ExternalInv'
<1>1. ExternalTypes'
  <2>1. barNo' \in 0 .. Len(dates)
    BY OfOpened DEF ExternalInv
  <2>2. QED
    BY <2>1 DEF ExternalInv, ExternalTypes
<1>2. PositionsAsWritten' /\ IdsOfPositions'
  BY BooksStay
<1>3. OncePerBar'
  <2>1. OwnTrades' = OwnTrades /\ \A k : PositionsOf(k)' = PositionsOf(k)
    BY BooksStay
  <2>2. \A k \in OwnTrades : {opened[n].at : n \in PositionsOf(k)} = Entered(k)
    BY DEF ExternalInv, OncePerBar
  <2>3. QED
    BY <2>1, <2>2 DEF ExternalInv, OncePerBar
<1>4. ExitedIsClosed'
  <2>1. OwnTrades' = OwnTrades
    BY BooksStay
  <2>2. \A k \in OwnTrades : Exited(k) # {} =>
          /\ file[k].entry <= file[k].exit
          /\ ids[k] # 0
          /\ opened[ids[k]].closed # 0 \/ Pending(k)
    BY DEF ExternalInv, ExitedIsClosed
  <2>3. QED
    BY <2>1, <2>2 DEF ExitedIsClosed
<1>5. NothingToExit'
  BY DEF NothingToExit
<1>6. QED
  BY <1>1, <1>2, <1>3, <1>4, <1>5 DEF ExternalInv

\* A run that fails leaves what it did.
LEMMA FailsKeeps ==
  ASSUME ExternalInv, NEW reason, Fails(reason), reason # "no",
         reason = "no position" =>
           \E k \in OwnTrades :
             file[k].exit = dates[barNo] /\ \A b \in BarsOf(file[k].entry) : b > barNo
  PROVE  ExternalInv'
<1>1. /\ failed' = reason /\ phase' = "ended"
      /\ UNCHANGED <<file, dates, barNo, price, due, ids, opened>>
  BY DEF Fails
<1>2. ExternalTypes' /\ WhereItIs'
  BY <1>1 DEF ExternalInv, ExternalTypes, WhereItIs
<1>3. barNo' \in barNo .. Len(dates)
  <2>1. barNo \in barNo .. Len(dates)
    BY OfOpened DEF ExternalInv
  <2>2. barNo' = barNo
    BY <1>1
  <2>3. QED
    BY <2>1, <2>2, Zenon
<1>4. /\ PositionsAsWritten' /\ IdsOfPositions' /\ OwnTrades' = OwnTrades
      /\ \A d : BarsOf(d)' = BarsOf(d)
  BY <1>1, <1>3, BooksStay
<1>5. OncePerBar' /\ ExitedIsClosed'
  BY <1>1 DEF ExternalInv, OncePerBar, ExitedIsClosed
<1>6. NothingToExit'
  BY <1>1, <1>4 DEF NothingToExit
<1>7. QED
  BY <1>2, <1>4, <1>5, <1>6 DEF ExternalInv

\* It begins with the file, or is that of another part.
LEMMA ExternalStarts == ExternalInit \/ IdleExternal => ExternalInv
<1> SUFFICES ASSUME ExternalInit \/ IdleExternal PROVE ExternalInv
  OBVIOUS
<1>1. /\ file = <<>> /\ barNo = 0 /\ price = 0 /\ due = {} /\ ids = <<>> /\ opened = <<>>
      /\ failed = "no"
  BY DEF ExternalInit, IdleExternal
<1>2. dates \in Seq(ExtDates) /\ InOrder(dates) /\ (phase = "file" => dates # <<>>)
  <2>1. CASE IdleExternal
    BY <2>1 DEF IdleExternal, InOrder
  <2>2. CASE ExternalInit
    <3>1. PICK n \in 1 .. MaxBars : dates \in [1 .. n -> ExtDates]
      BY <2>2 DEF ExternalInit, Days
    <3>2. n \in Nat /\ n > 0
      BY ExternalAssumption
    <3>3. QED
      BY <3>1, <3>2, <2>2 DEF ExternalInit
  <2>3. QED
    BY <2>1, <2>2
<1>3. phase \in {"file", "ended"} /\ (phase = "ended" => dates = <<>>)
  BY DEF ExternalInit, IdleExternal
<1>4. ExternalTypes /\ WhereItIs
  BY <1>1, <1>2, <1>3 DEF ExternalTypes, WhereItIs
<1>5. OwnTrades = {}
  BY <1>1 DEF OwnTrades
<1>6. QED
  BY <1>1, <1>4, <1>5
     DEF ExternalInv, PositionsAsWritten, IdsOfPositions, OncePerBar, ExitedIsClosed, NothingToExit

-----------------------------------------------------------------------------
(* The steps *)

\* A line is read before there is a bar.
LEMMA ReadTradeKeeps ==
  ASSUME ExternalInv, ReadTrade
  PROVE  ExternalInv'
<1>1. PICK t \in TradesOf : file' = Append(file, t) /\ ids' = Append(ids, 0)
  BY DEF ReadTrade
<1>2. /\ phase = "file" /\ phase' = "file"
      /\ UNCHANGED <<dates, barNo, price, due, opened, failed>>
  BY DEF ReadTrade
<1>3. /\ opened = <<>> /\ barNo = 0 /\ due = {} /\ dates # <<>> /\ failed = "no"
      /\ DOMAIN opened = {}
  BY <1>2 DEF ExternalInv, ExternalTypes, WhereItIs
<1>4. file' \in Seq(TradesOf) /\ ids' \in [DOMAIN file' -> {0}]
  <2>1. file \in Seq(TradesOf) /\ ids \in [DOMAIN file -> {0}]
    <3>1. Len(opened) = 0
      BY <1>3
    <3>2. QED
      BY <3>1 DEF ExternalInv, ExternalTypes
  <2>2. ids \in Seq({0}) /\ Len(ids) = Len(file)
    BY <2>1
  <2>3. file' \in Seq(TradesOf) /\ Len(file') = Len(file) + 1
    BY <1>1, <2>1
  <2>4. ids' \in Seq({0}) /\ Len(ids') = Len(ids) + 1
    BY <1>1, <2>2
  <2>5. DOMAIN file' = 1 .. Len(file') /\ Len(ids') = Len(file')
    BY <2>2, <2>3, <2>4
  <2>6. QED
    BY <2>3, <2>4, <2>5
<1>5. ExternalTypes' /\ WhereItIs'
  BY <1>2, <1>3, <1>4 DEF ExternalInv, ExternalTypes, WhereItIs
<1>6. \A k \in OwnTrades' : ids'[k] = 0
  BY <1>4 DEF OwnTrades
<1>7. \A k : PositionsOf(k)' = {} /\ Entered(k)' = {} /\ Exited(k)' = {}
  BY <1>2, <1>3, OfOpened DEF PositionsOf, Entered, Exited, BarsOf, ExternalInv
<1>8. PositionsAsWritten' /\ NothingToExit'
  BY <1>2, <1>3 DEF PositionsAsWritten, NothingToExit
<1>9. IdsOfPositions' /\ OncePerBar' /\ ExitedIsClosed'
  BY <1>2, <1>3, <1>6, <1>7 DEF IdsOfPositions, OncePerBar, ExitedIsClosed
<1>10. QED
  BY <1>5, <1>8, <1>9 DEF ExternalInv

\* The file has ended, or a bar begins, or its entries or its exits are made.
LEMMA TurnsKeep ==
  ASSUME ExternalInv, ReadEnd \/ StartBar \/ EntriesMade \/ EndBar
  PROVE  ExternalInv'
<1>1. UNCHANGED <<file, dates, ids, opened, failed>>
  BY DEF ReadEnd, StartBar, EntriesMade, EndBar
<1>2. failed = "no"
  BY DEF ReadEnd, StartBar, EntriesMade, EndBar, ExternalInv, ExternalTypes
<1>3. /\ OwnTrades' = OwnTrades
      /\ \A k : PositionsOf(k)' = PositionsOf(k)
      /\ \A d : BarsOf(d)' = BarsOf(d)
  BY <1>1 DEF OwnTrades, PositionsOf, BarsOf
<1>4. Len(dates) \in Nat /\ DOMAIN dates = 1 .. Len(dates) /\ barNo \in 0 .. Len(dates)
  BY OfOpened DEF ExternalInv, ExternalTypes
<1>5. \A d : BarsOf(d) \subseteq 1 .. Len(dates) /\ BarsOf(d) = {b \in 1 .. Len(dates) : dates[b] = d}
  BY <1>4 DEF BarsOf
<1>6. CASE ReadEnd
  <2>1. /\ phase = "file" /\ phase' = "bars" /\ UNCHANGED <<barNo, price, due>>
        /\ barNo = 0 /\ due = {} /\ dates # <<>>
    BY <1>6 DEF ReadEnd, ExternalInv, WhereItIs
  <2>2. barNo < Len(dates)
    BY <2>1, <1>4 DEF ExternalInv, ExternalTypes
  <2>3. \A k \in OwnTrades : Entered(k)' = Entered(k) /\ Exited(k)' = Exited(k)
    BY <1>1, <1>3, <2>1 DEF Entered, Exited
  <2>4. \A k \in OwnTrades : ~Pending(k)
    BY <2>1 DEF Pending
  <2>5. WhereItIs' /\ price' \in Nat
    BY <1>1, <2>1, <2>2 DEF WhereItIs, ExternalInv, ExternalTypes
  <2>6. QED
    BY <1>1, <1>2, <1>4, <2>1, <2>3, <2>4, <2>5, TurnKeeps
<1>7. CASE StartBar
  <2>1. /\ phase = "bars" /\ phase' = "entries" /\ barNo' = barNo + 1 /\ price' \in ExtPrices
        /\ due' = GetEntries(dates[barNo + 1])
        /\ due = {} /\ barNo < Len(dates)
    BY <1>7 DEF StartBar, ExternalInv, WhereItIs
  <2>2. barNo' \in barNo .. Len(dates) /\ barNo' > 0
    BY <2>1, <1>4
  <2>3. \A k \in OwnTrades : Entered(k)' = Entered(k)
    <3> SUFFICES ASSUME NEW k \in OwnTrades, NEW b \in BarsOf(file[k].entry)
                 PROVE (b < barNo' \/ (b = barNo' /\ k \notin due')) <=> (b < barNo \/ b = barNo)
      BY <1>1, <1>3, <2>1 DEF Entered
    <3>1. b \in Nat
      BY <1>5
    <3>2. b = barNo' => k \in due'
      BY <2>1 DEF GetEntries, EntryDate, BarsOf
    <3>3. QED
      BY <3>1, <3>2, <2>1, <1>4
  <2>4. \A k \in OwnTrades : Exited(k)' = Exited(k)
    <3> SUFFICES ASSUME NEW k \in OwnTrades, NEW b \in BarsOf(file[k].exit)
                 PROVE b < barNo' <=> (b < barNo \/ b = barNo)
      BY <1>1, <1>3, <2>1 DEF Exited
    <3>1. b \in Nat
      BY <1>5
    <3>2. QED
      BY <3>1, <2>1, <1>4
  <2>5. \A k \in OwnTrades : ~Pending(k)
    BY <2>1 DEF Pending
  <2>6. WhereItIs' /\ price' \in Nat
    BY <1>1, <1>3, <2>1, <2>2, ExternalAssumption DEF WhereItIs, GetEntries
  <2>7. QED
    BY <1>1, <1>2, <2>1, <2>2, <2>3, <2>4, <2>5, <2>6, TurnKeeps
<1>8. CASE EntriesMade
  <2>1. /\ phase = "entries" /\ phase' = "exits" /\ UNCHANGED <<barNo, price>>
        /\ due = {} /\ due' = GetExits(dates[barNo]) /\ barNo > 0
    BY <1>8 DEF EntriesMade, ExternalInv, WhereItIs
  <2>2. barNo \in 1 .. Len(dates) /\ barNo' \in barNo .. Len(dates)
    BY <2>1, <1>4
  <2>3. \A k \in OwnTrades : Entered(k)' = Entered(k)
    BY <1>1, <1>3, <2>1 DEF Entered
  <2>4. \A k \in OwnTrades : file[k].exit = dates[barNo] <=> k \in due'
    BY <2>1 DEF GetExits, ExitDate
  <2>5. \A k \in OwnTrades : Exited(k)' = Exited(k)
    <3> SUFFICES ASSUME NEW k \in OwnTrades, NEW b \in BarsOf(file[k].exit)
                 PROVE ~(b = barNo /\ k \notin due')
      BY <1>1, <1>3, <2>1 DEF Exited
    <3>1. QED
      BY <2>4 DEF BarsOf
  <2>6. \A k \in OwnTrades : Pending(k) => Pending(k)'
    BY <1>1, <2>1, <2>4 DEF Pending
  <2>7. WhereItIs' /\ price' \in Nat
    BY <1>1, <1>3, <2>1 DEF WhereItIs, ExternalInv, ExternalTypes, GetExits
  <2>8. QED
    BY <1>1, <1>2, <2>1, <2>2, <2>3, <2>5, <2>6, <2>7, TurnKeeps
<1>9. CASE EndBar
  <2>1. /\ phase = "exits" /\ due = {} /\ UNCHANGED <<barNo, price, due>> /\ barNo > 0
        /\ phase' = IF barNo = Len(dates) THEN "ended" ELSE "bars"
    BY <1>9 DEF EndBar, ExternalInv, WhereItIs
  <2>2. \A k \in OwnTrades : Entered(k)' = Entered(k) /\ Exited(k)' = Exited(k)
    BY <1>1, <1>3, <2>1 DEF Entered, Exited
  <2>3. \A k \in OwnTrades : ~Pending(k)
    BY <2>1 DEF Pending
  <2>4. WhereItIs' /\ price' \in Nat
    <3>1. barNo = Len(dates) \/ barNo < Len(dates)
      BY OfOpened DEF ExternalInv
    <3>2. price' \in Nat
      BY <2>1 DEF ExternalInv, ExternalTypes
    <3>3. WhereItIs'
      BY <1>1, <1>2, <2>1, <3>1 DEF WhereItIs
    <3>4. QED
      BY <3>2, <3>3
  <2>5. barNo \in Nat /\ barNo \in barNo .. Len(dates)
    BY OfOpened DEF ExternalInv
  <2>6. barNo' \in barNo .. Len(dates)
    <3>1. barNo' = barNo
      BY <2>1
    <3>2. QED
      BY <2>5, <3>1, Zenon
  <2>7. phase' \in {"bars", "ended"}
    BY <2>1
  <2>8. QED
    BY <1>1, <1>2, <2>2, <2>3, <2>4, <2>6, <2>7, TurnKeeps
<1>10. QED
  BY <1>6, <1>7, <1>8, <1>9

\* A trade is entered on a bar of its entry on which it was not yet.
LEMMA EnterTradeKeeps ==
  ASSUME ExternalInv, NEW k \in due, EnterTrade(k)
  PROVE  ExternalInv'
<1> DEFINE p == [of |-> k, at |-> barNo, as |-> EntryOrder(file[k]), open |-> price,
                 closed |-> 0, with |-> "none"]
           last == Len(opened) + 1
<1>1. /\ phase = "entries" /\ opened' = Append(opened, p)
      /\ ids' = [ids EXCEPT ![k] = last]
      /\ due' = due \ {k}
      /\ UNCHANGED <<phase, file, dates, barNo, price, failed>>
  BY DEF EnterTrade
<1>2. failed = "no" /\ barNo \in 1 .. Len(dates) /\ due \subseteq GetEntries(dates[barNo])
  BY <1>1 DEF ExternalInv, ExternalTypes, WhereItIs
<1>3. k \in OwnTrades /\ file[k].entry = dates[barNo]
  BY <1>2 DEF GetEntries, EntryDate
<1>4. /\ k \in DOMAIN file /\ file[k] \in TradesOf /\ k \in Nat
      /\ file[k].price \in Nat /\ file[k].long \in BOOLEAN
  BY <1>3, OfOwn DEF ExternalInv
<1>5. price \in Nat /\ barNo \in Nat /\ Len(opened) \in Nat /\ DOMAIN opened = 1 .. Len(opened)
  BY OfOpened DEF ExternalInv, ExternalTypes
<1>6. EntryOrder(file[k]) \in {"market", "limit", "stop"}
  BY DEF EntryOrder
<1> HIDE DEF p, last
<1>7. p \in PositionType
  BY <1>4, <1>5, <1>6 DEF p, PositionType
<1>8. /\ opened' \in Seq(PositionType) /\ Len(opened') = last
      /\ DOMAIN opened' = 1 .. last
      /\ opened'[last] = p /\ \A n \in DOMAIN opened : opened'[n] = opened[n]
  BY <1>1, <1>5, <1>7 DEF last, ExternalInv, ExternalTypes
<1>9. /\ DOMAIN opened' = DOMAIN opened \cup {last} /\ last \notin DOMAIN opened
      /\ last \in Nat /\ last # 0
  BY <1>5, <1>8 DEF last
<1>10. /\ ids'[k] = last /\ \A j \in DOMAIN file : j # k => ids'[j] = ids[j]
       /\ ids' \in [DOMAIN file -> 0 .. last]
  <2>1. ids \in [DOMAIN file -> 0 .. Len(opened)]
    BY DEF ExternalInv, ExternalTypes
  <2>2. 0 .. Len(opened) \subseteq 0 .. last /\ last \in 0 .. last
    BY <1>5 DEF last
  <2>3. QED
    BY <1>1, <1>4, <2>1, <2>2
<1>11. OwnTrades' = OwnTrades /\ \A d : BarsOf(d)' = BarsOf(d)
  BY <1>1 DEF OwnTrades, BarsOf
<1>12. /\ PositionsOf(k)' = PositionsOf(k) \cup {last}
       /\ \A j : j # k => PositionsOf(j)' = PositionsOf(j)
  <2>1. opened'[last].of = k
    BY <1>8 DEF p
  <2>2. \A j : PositionsOf(j)' = {n \in DOMAIN opened : opened[n].of = j} \cup
                                  {n \in {last} : k = j}
    BY <1>8, <1>9, <2>1 DEF PositionsOf
  <2>3. QED
    BY <2>2 DEF PositionsOf
<1>13. ExternalTypes'
  BY <1>1, <1>8, <1>10 DEF ExternalInv, ExternalTypes
<1>14. WhereItIs'
  <2>1. GetEntries(dates[barNo])' = GetEntries(dates[barNo])
    BY <1>1, <1>11 DEF GetEntries
  <2>2. barNo > 0
    BY <1>2
  <2>3. QED
    BY <1>1, <1>2, <2>1, <2>2 DEF WhereItIs
<1>15. PositionsAsWritten'
  <2> SUFFICES ASSUME NEW n \in DOMAIN opened'
               PROVE LET q == opened'[n] t == file[q.of] IN
                     /\ q.of \in OwnTrades
                     /\ q.at \in 1 .. barNo /\ dates[q.at] = t.entry
                     /\ q.as = "limit" => IF t.long THEN t.price <= q.open ELSE t.price >= q.open
                     /\ q.closed # 0 => q.closed \in q.at .. barNo /\ dates[q.closed] = t.exit
    BY <1>1, <1>11 DEF PositionsAsWritten
  <2>1. CASE n = last
    <3>1. opened'[n] = p
      BY <1>8, <2>1
    <3>2. p.of = k /\ p.at = barNo /\ p.open = price /\ p.closed = 0 /\ p.as = EntryOrder(file[k])
      BY DEF p
    <3>3. p.as = "limit" =>
            IF file[k].long THEN file[k].price <= price ELSE file[k].price >= price
      BY <1>4, <1>5, <3>2 DEF EntryOrder
    <3>4. barNo \in 1 .. barNo
      BY <1>2, <1>5
    <3>5. QED
      BY <1>3, <3>1, <3>2, <3>3, <3>4
  <2>2. CASE n \in DOMAIN opened
    <3>1. opened'[n] = opened[n]
      BY <1>8, <2>2
    <3>2. QED
      BY <2>2, <3>1 DEF ExternalInv, PositionsAsWritten
  <2>3. QED
    BY <1>9, <2>1, <2>2
<1>16. IdsOfPositions'
  <2> SUFFICES ASSUME NEW j \in OwnTrades
               PROVE IF ids'[j] = 0 THEN PositionsOf(j)' = {} ELSE ids'[j] \in PositionsOf(j)'
    BY <1>11 DEF IdsOfPositions
  <2>1. CASE j = k
    BY <1>9, <1>10, <1>12, <2>1
  <2>2. CASE j # k
    <3>1. j \in DOMAIN file
      BY DEF OwnTrades
    <3>2. QED
      BY <1>10, <1>12, <2>2, <3>1 DEF ExternalInv, IdsOfPositions
  <2>3. QED
    BY <2>1, <2>2
<1>17. barNo \in BarsOf(file[k].entry) /\ barNo \notin Entered(k)
  <2>1. barNo \in DOMAIN dates
    BY <1>2, OfOpened DEF ExternalInv
  <2>2. ~(barNo < barNo)
    BY <1>5
  <2>3. QED
    BY <1>1, <1>3, <2>1, <2>2 DEF BarsOf, Entered
<1>18. {opened[n].at : n \in PositionsOf(k)} = Entered(k)
  BY <1>2, <1>3 DEF ExternalInv, OncePerBar
<1>19. \A j \in OwnTrades : Entered(j)' = IF j = k THEN Entered(k) \cup {barNo} ELSE Entered(j)
  <2> SUFFICES ASSUME NEW j \in OwnTrades
               PROVE Entered(j)' = IF j = k THEN Entered(k) \cup {barNo} ELSE Entered(j)
    OBVIOUS
  <2>1. Entered(j)' = {b \in BarsOf(file[j].entry) : b < barNo \/ (b = barNo /\ (j \notin due \/ j = k))}
    BY <1>1, <1>11 DEF Entered
  <2>2. Entered(j) = {b \in BarsOf(file[j].entry) : b < barNo \/ (b = barNo /\ j \notin due)}
    BY <1>1 DEF Entered
  <2>3. CASE j = k
    BY <1>17, <2>1, <2>2, <2>3
  <2>4. CASE j # k
    BY <2>1, <2>2, <2>4
  <2>5. QED
    BY <2>3, <2>4
<1>20. OncePerBar'
  <2>1. ASSUME NEW n \in DOMAIN opened, opened[n].of = k
        PROVE  opened[n].at # barNo
    BY <1>17, <1>18, <2>1 DEF PositionsOf
  <2>2. \A m, n \in DOMAIN opened' :
          opened'[m].of = opened'[n].of /\ opened'[m].at = opened'[n].at => m = n
    <3>1. \A m, n \in DOMAIN opened :
            opened[m].of = opened[n].of /\ opened[m].at = opened[n].at => m = n
      BY DEF ExternalInv, OncePerBar
    <3>2. opened'[last].of = k /\ opened'[last].at = barNo
      BY <1>8 DEF p
    <3>3. QED
      BY <1>8, <1>9, <2>1, <3>1, <3>2
  <2>3. \A j \in OwnTrades : {opened'[n].at : n \in PositionsOf(j)'} = Entered(j)'
    <3> SUFFICES ASSUME NEW j \in OwnTrades
                 PROVE {opened'[n].at : n \in PositionsOf(j)'} = Entered(j)'
      OBVIOUS
    <3>1. \A n \in PositionsOf(j) : n \in DOMAIN opened /\ opened'[n] = opened[n]
      BY <1>8 DEF PositionsOf
    <3>2. {opened[n].at : n \in PositionsOf(j)} = Entered(j)
      BY <1>2 DEF ExternalInv, OncePerBar
    <3>3. opened'[last].at = barNo
      BY <1>8 DEF p
    <3>4. QED
      BY <1>12, <1>19, <3>1, <3>2, <3>3
  <2>4. QED
    BY <1>11, <2>2, <2>3 DEF OncePerBar
<1>21. ExitedIsClosed'
  <2> SUFFICES ASSUME NEW j \in OwnTrades, Exited(j)' # {}
               PROVE /\ file[j].entry <= file[j].exit
                     /\ ids'[j] # 0
                     /\ opened'[ids'[j]].closed # 0 \/ Pending(j)'
    BY <1>1, <1>11 DEF ExitedIsClosed
  <2>1. Exited(j)' = Exited(j)
    BY <1>1, <1>11 DEF Exited
  <2>2. /\ file[j].entry <= file[j].exit
        /\ ids[j] # 0
        /\ opened[ids[j]].closed # 0 \/ Pending(j)
    BY <1>2, <2>1 DEF ExternalInv, ExitedIsClosed
  <2>3. CASE j = k
    <3>1. PICK b \in BarsOf(file[k].exit) : b < barNo
      BY <1>1, <2>1, <2>3 DEF Exited
    <3>2. b \in DOMAIN dates /\ dates[b] = file[k].exit /\ barNo \in DOMAIN dates
      BY <1>2, <3>1, OfOpened DEF BarsOf, ExternalInv
    <3>3. dates[b] <= dates[barNo]
      BY <3>1, <3>2 DEF ExternalInv, ExternalTypes, InOrder
    <3>4. dates[b] \in Nat /\ dates[barNo] \in Nat
      BY <3>2, OfOpened DEF ExternalInv
    <3>5. file[k].exit = dates[barNo]
      BY <1>3, <2>2, <2>3, <3>2, <3>3, <3>4
    <3>6. Pending(k)'
      BY <1>1, <3>5 DEF Pending
    <3>7. QED
      BY <1>9, <1>10, <2>2, <2>3, <3>6
  <2>4. CASE j # k
    <3>1. ids'[j] = ids[j] /\ ids[j] \in DOMAIN opened
      <4>1. j \in DOMAIN file
        BY DEF OwnTrades
      <4>2. ids[j] \in PositionsOf(j)
        BY <2>2 DEF ExternalInv, IdsOfPositions
      <4>3. QED
        BY <1>10, <2>4, <4>1, <4>2 DEF PositionsOf
    <3>2. Pending(j)' <=> Pending(j)
      BY <1>1, <2>4 DEF Pending
    <3>3. QED
      BY <1>8, <2>2, <3>1, <3>2
  <2>5. QED
    BY <2>3, <2>4
<1>22. NothingToExit'
  BY <1>1, <1>2 DEF NothingToExit
<1>23. QED
  BY <1>13, <1>14, <1>15, <1>16, <1>20, <1>21, <1>22 DEF ExternalInv

\* A trade is exited once on the bar of its exit.
LEMMA ExitTradeKeeps ==
  ASSUME ExternalInv, NEW k \in due, ExitTrade(k)
  PROVE  ExternalInv'
<1> DEFINE i == ids[k]
           p == [opened[i] EXCEPT !.closed = barNo, !.with = ExitOrder(file[k])]
<1>1. /\ phase = "exits" /\ ids[k] # 0 /\ opened[i].closed = 0
      /\ opened' = [opened EXCEPT ![i].closed = barNo, ![i].with = ExitOrder(file[k])]
      /\ due' = due \ {k}
      /\ UNCHANGED <<phase, file, dates, barNo, price, ids, failed>>
  BY DEF ExitTrade
<1>2. failed = "no" /\ barNo \in 1 .. Len(dates) /\ due \subseteq GetExits(dates[barNo])
  BY <1>1 DEF ExternalInv, ExternalTypes, WhereItIs
<1>3. k \in OwnTrades /\ file[k].exit = dates[barNo]
  BY <1>2 DEF GetExits, ExitDate
<1>4. i \in DOMAIN opened /\ opened[i].of = k /\ i \in PositionsOf(k)
  BY <1>1, <1>3 DEF ExternalInv, IdsOfPositions, PositionsOf
<1>5. barNo \in Nat /\ barNo # 0 /\ opened[i] \in PositionType
  BY <1>2, <1>4, OfOpened DEF ExternalInv, ExternalTypes
<1>6. ExitOrder(file[k]) \in {"market", "limit", "stop"}
  BY DEF ExitOrder
<1>7. opened' = [opened EXCEPT ![i] = p]
  BY <1>1, <1>4, <1>5 DEF PositionType
<1>8. /\ p \in PositionType /\ p.closed = barNo
      /\ p.of = opened[i].of /\ p.at = opened[i].at /\ p.as = opened[i].as
      /\ p.open = opened[i].open
  BY <1>5, <1>6 DEF PositionType
<1> HIDE DEF i, p
<1>9. /\ DOMAIN opened' = DOMAIN opened /\ opened'[i] = p
      /\ \A n \in DOMAIN opened : n # i => opened'[n] = opened[n]
      /\ opened' \in Seq(PositionType) /\ Len(opened') = Len(opened)
  BY <1>4, <1>7, <1>8 DEF ExternalInv, ExternalTypes
<1>10. \A n \in DOMAIN opened : opened'[n].of = opened[n].of /\ opened'[n].at = opened[n].at
  BY <1>8, <1>9
<1>11. /\ OwnTrades' = OwnTrades /\ \A d : BarsOf(d)' = BarsOf(d)
       /\ \A j : PositionsOf(j)' = PositionsOf(j)
  BY <1>1, <1>9, <1>10 DEF OwnTrades, BarsOf, PositionsOf
<1>12. ExternalTypes'
  BY <1>1, <1>9 DEF ExternalInv, ExternalTypes
<1>13. WhereItIs'
  <2>1. GetExits(dates[barNo])' = GetExits(dates[barNo])
    BY <1>1, <1>11 DEF GetExits
  <2>2. barNo > 0
    BY <1>2
  <2>3. QED
    BY <1>1, <1>2, <2>1, <2>2 DEF WhereItIs
<1>14. /\ opened[i].at \in 1 .. barNo /\ dates[opened[i].at] = file[k].entry
       /\ barNo \in opened[i].at .. barNo
  <2>1. opened[i].at \in 1 .. barNo /\ dates[opened[i].at] = file[k].entry
    BY <1>4 DEF ExternalInv, PositionsAsWritten
  <2>2. QED
    BY <1>5, <2>1
<1>15. PositionsAsWritten'
  <2> SUFFICES ASSUME NEW n \in DOMAIN opened
               PROVE LET q == opened'[n] t == file[q.of] IN
                     /\ q.of \in OwnTrades
                     /\ q.at \in 1 .. barNo /\ dates[q.at] = t.entry
                     /\ q.as = "limit" => IF t.long THEN t.price <= q.open ELSE t.price >= q.open
                     /\ q.closed # 0 => q.closed \in q.at .. barNo /\ dates[q.closed] = t.exit
    BY <1>1, <1>9, <1>11 DEF PositionsAsWritten
  <2>1. CASE n = i
    <3>1. /\ opened[i].of \in OwnTrades
          /\ opened[i].as = "limit" =>
               IF file[k].long THEN file[k].price <= opened[i].open
                               ELSE file[k].price >= opened[i].open
      BY <1>4 DEF ExternalInv, PositionsAsWritten
    <3>2. QED
      BY <1>3, <1>4, <1>8, <1>9, <1>14, <2>1, <3>1
  <2>2. CASE n # i
    <3>1. opened'[n] = opened[n]
      BY <1>9, <2>2
    <3>2. QED
      BY <3>1 DEF ExternalInv, PositionsAsWritten
  <2>3. QED
    BY <2>1, <2>2
<1>16. IdsOfPositions'
  BY <1>1, <1>11 DEF ExternalInv, IdsOfPositions
<1>17. OncePerBar'
  <2>1. \A j \in OwnTrades : Entered(j)' = Entered(j)
    BY <1>1, <1>11 DEF Entered
  <2>2. \A j \in OwnTrades : {opened[n].at : n \in PositionsOf(j)} = Entered(j)
    BY <1>2 DEF ExternalInv, OncePerBar
  <2>3. \A j \in OwnTrades : {opened'[n].at : n \in PositionsOf(j)'} = Entered(j)'
    <3> SUFFICES ASSUME NEW j \in OwnTrades
                 PROVE {opened'[n].at : n \in PositionsOf(j)} = Entered(j)
      BY <1>11, <2>1
    <3>1. \A n \in PositionsOf(j) : opened'[n].at = opened[n].at
      BY <1>10 DEF PositionsOf
    <3>2. QED
      BY <2>2, <3>1
  <2>4. \A m, n \in DOMAIN opened' :
          opened'[m].of = opened'[n].of /\ opened'[m].at = opened'[n].at => m = n
    BY <1>9, <1>10 DEF ExternalInv, OncePerBar
  <2>5. QED
    BY <1>11, <2>3, <2>4 DEF OncePerBar
<1>18. ExitedIsClosed'
  <2> SUFFICES ASSUME NEW j \in OwnTrades, Exited(j)' # {}
               PROVE /\ file[j].entry <= file[j].exit
                     /\ ids[j] # 0
                     /\ opened'[ids[j]].closed # 0 \/ Pending(j)'
    BY <1>1, <1>11 DEF ExitedIsClosed
  <2>1. CASE j = k
    <3>1. opened[i].at \in DOMAIN dates /\ barNo \in DOMAIN dates
      <4>1. DOMAIN dates = 1 .. Len(dates) /\ Len(dates) \in Nat
        BY OfOpened DEF ExternalInv
      <4>2. 1 .. barNo \subseteq 1 .. Len(dates)
        BY <1>2, <1>5, <4>1
      <4>3. QED
        BY <1>2, <1>14, <4>1, <4>2, Zenon
    <3>2. opened[i].at = barNo \/ opened[i].at < barNo
      BY <1>5, <1>14
    <3>3. dates[opened[i].at] <= dates[barNo]
      BY <3>1, <3>2, OfOpened DEF ExternalInv, ExternalTypes, InOrder
    <3>4. file[k].entry <= file[k].exit
      BY <1>3, <1>14, <3>3
    <3>5. opened'[ids[k]].closed # 0
      BY <1>5, <1>8, <1>9 DEF i
    <3>6. QED
      BY <1>1, <2>1, <3>4, <3>5
  <2>2. CASE j # k
    <3>1. Exited(j)' = Exited(j)
      BY <1>1, <1>11, <2>2 DEF Exited
    <3>2. /\ file[j].entry <= file[j].exit /\ ids[j] # 0
          /\ opened[ids[j]].closed # 0 \/ Pending(j)
      BY <1>2, <3>1 DEF ExternalInv, ExitedIsClosed
    <3>3. ids[j] \in DOMAIN opened /\ opened[ids[j]].of = j
      BY <3>2 DEF ExternalInv, IdsOfPositions, PositionsOf
    <3>4. opened'[ids[j]] = opened[ids[j]]
      BY <1>4, <1>9, <2>2, <3>3
    <3>5. Pending(j)' <=> Pending(j)
      BY <1>1, <2>2 DEF Pending
    <3>6. QED
      BY <3>2, <3>4, <3>5
  <2>3. QED
    BY <2>1, <2>2
<1>19. NothingToExit'
  BY <1>1, <1>2 DEF NothingToExit
<1>20. QED
  BY <1>12, <1>13, <1>15, <1>16, <1>17, <1>18, <1>19 DEF ExternalInv

\* A run that fails has no position to exit if the exit is before the entry.
LEMMA FailuresKeep ==
  ASSUME ExternalInv, NoTradesOfSymbol \/ \E k \in due : EntryNotFilled(k) \/ ExitNotMade(k)
  PROVE  ExternalInv'
<1>1. CASE NoTradesOfSymbol
  BY <1>1, FailsKeeps DEF NoTradesOfSymbol
<1>2. ASSUME NEW k \in due, EntryNotFilled(k)
      PROVE  ExternalInv'
  BY <1>2, FailsKeeps DEF EntryNotFilled
<1>3. ASSUME NEW k \in due, ExitNotMade(k), ids[k] # 0
      PROVE  ExternalInv'
  BY <1>3, FailsKeeps DEF ExitNotMade
<1>4. ASSUME NEW k \in due, ExitNotMade(k), ids[k] = 0
      PROVE  ExternalInv'
  <2>1. phase = "exits" /\ Fails("no position")
    BY <1>4 DEF ExitNotMade
  <2>2. failed = "no" /\ k \in OwnTrades /\ file[k].exit = dates[barNo]
    BY <2>1 DEF ExternalInv, ExternalTypes, WhereItIs, GetExits, ExitDate
  <2>3. PositionsOf(k) = {}
    BY <1>4, <2>2 DEF ExternalInv, IdsOfPositions
  <2>4. Entered(k) = {}
    BY <2>2, <2>3 DEF ExternalInv, OncePerBar
  <2>5. ASSUME NEW b \in BarsOf(file[k].entry)
        PROVE  b > barNo
    <3>1. ~(b < barNo \/ b = barNo)
      BY <2>1, <2>4 DEF Entered
    <3>2. b \in Nat /\ barNo \in Nat
      BY OfOpened DEF BarsOf, ExternalInv
    <3>3. QED
      BY <3>1, <3>2
  <2>6. QED
    BY <2>1, <2>2, <2>5, FailsKeeps
<1>5. QED
  BY <1>1, <1>2, <1>3, <1>4

\* Every step keeps it.
LEMMA ExternalStep ==
  ASSUME ExternalInv, ExternalNext \/ UNCHANGED externalVars
  PROVE  ExternalInv'
<1>1. CASE UNCHANGED externalVars
  <2>1. UNCHANGED <<phase, file, dates, barNo, price, due, ids, opened, failed>>
    BY <1>1 DEF externalVars
  <2>2. /\ OwnTrades' = OwnTrades
        /\ \A d : BarsOf(d)' = BarsOf(d) /\ GetEntries(d)' = GetEntries(d) /\ GetExits(d)' = GetExits(d)
    BY <2>1 DEF OwnTrades, BarsOf, GetEntries, GetExits
  <2>3. \A k : PositionsOf(k)' = PositionsOf(k)
    BY <2>1 DEF PositionsOf
  <2>4. \A k : Entered(k)' = Entered(k) /\ Exited(k)' = Exited(k)
    BY <2>1, <2>2 DEF Entered, Exited
  <2>5. \A k : Pending(k)' = Pending(k)
    BY <2>1 DEF Pending
  <2>6. ExternalTypes' /\ WhereItIs'
    BY <2>1, <2>2 DEF ExternalInv, ExternalTypes, WhereItIs
  <2>7. PositionsAsWritten' /\ IdsOfPositions'
    BY <2>1, <2>2, <2>3 DEF ExternalInv, PositionsAsWritten, IdsOfPositions
  <2>8. OncePerBar' /\ ExitedIsClosed' /\ NothingToExit'
    BY <2>1, <2>2, <2>3, <2>4, <2>5 DEF ExternalInv, OncePerBar, ExitedIsClosed, NothingToExit
  <2>9. QED
    BY <2>6, <2>7, <2>8 DEF ExternalInv
<1>2. CASE ExternalNext
  BY <1>2, ReadTradeKeeps, TurnsKeep, EnterTradeKeeps, ExitTradeKeeps, FailuresKeep
     DEF ExternalNext
<1>3. QED
  BY <1>1, <1>2

\* A trade has as many positions as its entry has bars.
LEMMA PositionsOfBars ==
  ASSUME ExternalInv, failed = "no", phase = "ended", NEW k \in OwnTrades
  PROVE  Cardinality(PositionsOf(k)) = Cardinality(BarsOf(file[k].entry))
<1> DEFINE f == [n \in PositionsOf(k) |-> opened[n].at]
<1>1. barNo = Len(dates) /\ DOMAIN dates = 1 .. Len(dates) /\ Len(dates) \in Nat
      /\ DOMAIN opened = 1 .. Len(opened) /\ Len(opened) \in Nat
  BY OfOpened DEF ExternalInv, WhereItIs
<1>2. Entered(k) = BarsOf(file[k].entry)
  BY <1>1 DEF Entered, BarsOf
<1>3. {f[n] : n \in PositionsOf(k)} = BarsOf(file[k].entry)
  BY <1>2 DEF ExternalInv, OncePerBar
<1>4. \A m, n \in PositionsOf(k) : f[m] = f[n] => m = n
  BY DEF ExternalInv, OncePerBar, PositionsOf
<1> HIDE DEF f
<1>5. f \in Bijection(PositionsOf(k), BarsOf(file[k].entry))
  <2>1. DOMAIN f = PositionsOf(k) /\ f = [n \in PositionsOf(k) |-> f[n]]
    BY DEF f
  <2>2. \A n \in PositionsOf(k) : f[n] \in BarsOf(file[k].entry)
    BY <1>3
  <2>3. f \in [PositionsOf(k) -> BarsOf(file[k].entry)]
    BY <2>1, <2>2
  <2>4. \A b \in BarsOf(file[k].entry) : \E n \in PositionsOf(k) : f[n] = b
    BY <1>3
  <2>5. IsInjective(f)
    BY <1>4, <2>1 DEF IsInjective
  <2>6. QED
    BY <2>3, <2>4, <2>5 DEF Bijection, Injection, Surjection
<1>6. IsFiniteSet(PositionsOf(k))
  <2>1. PositionsOf(k) \subseteq 1 .. Len(opened)
    BY <1>1 DEF PositionsOf
  <2>2. IsFiniteSet(1 .. Len(opened))
    BY <1>1, FS_Interval
  <2>3. QED
    BY <2>1, <2>2, FS_Subset
<1>7. QED
  BY <1>5, <1>6, FS_Bijection DEF ExistsBijection

\* The invariant gives the property.
LEMMA ExternalGives == ExternalInv => ExternalTradesAsWritten
<1> SUFFICES ASSUME ExternalInv PROVE ExternalTradesAsWritten
  OBVIOUS
<1>1. ASSUME NEW n \in DOMAIN opened
      PROVE  LET p == opened[n] t == file[p.of] IN
             /\ t.own /\ dates[p.at] = t.entry
             /\ p.as = "limit" => IF t.long THEN t.price <= p.open ELSE t.price >= p.open
             /\ p.closed # 0 => p.closed >= p.at /\ dates[p.closed] = t.exit
  BY DEF ExternalInv, PositionsAsWritten, OwnTrades
<1>2. ASSUME phase = "ended", failed = "no", NEW k \in OwnTrades,
             BarsOf(file[k].exit) # {}
      PROVE  ids[k] # 0 /\ opened[ids[k]].closed # 0
  <2>1. barNo = Len(dates) /\ DOMAIN dates = 1 .. Len(dates) /\ Len(dates) \in Nat
    BY <1>2, OfOpened DEF ExternalInv, WhereItIs
  <2>2. Exited(k) = BarsOf(file[k].exit)
    BY <1>2, <2>1 DEF Exited, BarsOf
  <2>3. ~Pending(k)
    BY <1>2 DEF Pending
  <2>4. QED
    BY <1>2, <2>2, <2>3 DEF ExternalInv, ExitedIsClosed
<1>3. QED
  BY <1>1, <1>2, PositionsOfBars
     DEF ExternalTradesAsWritten, ExternalInv, NothingToExit

\* However long the file, the run and the days: the trades of another program are made as
\* they are written, on each bar of their dates, or the run fails and says why.
THEOREM ExternalTradesMade == Spec => []ExternalTradesAsWritten
<1>1. Init => ExternalInv
  BY ExternalStarts DEF Init, Idle
<1>2. ExternalInv /\ [Next]_vars => ExternalInv'
  BY ExternalStep DEF Next, vars
<1>3. QED
  BY <1>1, <1>2, ExternalGives, PTL DEF Spec
=============================================================================
