----------------------------- MODULE Indicators -----------------------------
(***************************************************************************)
(* The indicators of core/Indicators.h: builders that make a series of the *)
(* size of their input, most of them by a call of TA-Lib, and that carry   *)
(* the id under which the series cache would keep it.                      *)
(*                                                                         *)
(* What a TA-Lib function computes is left out.  What matters is where it  *)
(* puts it: it leaves out as many elements as its lookback says, and       *)
(* writes the others one after the other from the address it is given.     *)
(* A cell of such a series is here the newest element of the input that    *)
(* its value was made of, or Untouched.  The lookbacks are those of        *)
(* TA-Lib's default settings, the sizes are the real ones.                 *)
(*                                                                         *)
(* The averages, Aroon and the arithmetic are computed here, with          *)
(* fractions scaled to integers.                                           *)
(***************************************************************************)
EXTENDS Integers, Sequences, FiniteSets, FiniteSetsExt

Untouched == -1

(* A builder: what it makes it of, the id it goes by, what it makes, the size *)
(* that must be exceeded, the lookback, the place of the first element        *)
(* written, the places that are addressed in this series and in scratch ones, *)
(* and whether the size is tested at all.  Id and output are a name with its  *)
(* parameters.                                                                *)
Builder(src, id, out, guard, lookback, at) ==
  [src |-> src, id |-> id, out |-> out, guard |-> guard, lookback |-> lookback,
   at |-> at, places |-> {at}, tested |-> TRUE]

\* MUTANT: a size that is the lookback is taken for enough.
UsualAtLookback(s, name, params, lookback) ==
  Builder(<<s>>, <<<<s>>, name, params>>, <<name, params>>, lookback - 1, lookback,
          lookback)

\* The usual one: the lookback is the guard and the place, and the id is made of
\* the id of the source, a name and the parameters.
Usual(s, name, params, lookback) ==
  Builder(<<s>>, <<<<s>>, name, params>>, <<name, params>>, lookback, lookback,
          lookback)

\* unsyncSize() > (unsigned int)lookback: a lookback of -1, TA-Lib's answer to a
\* parameter out of its range, is the greatest unsigned number
Exceeds(size, lookback) == lookback >= 0 /\ size > lookback

\* TA-Lib is called.
Calls(b, size) == b.tested => Exceeds(size, b.guard)

\* &at(place) throws when there is no such place.
Throws(b, size) ==
  Calls(b, size) /\ \E place \in b.places : place \notin 0 .. size - 1

\* The last element goes past the end of the vector.
Overruns(b, size) == Calls(b, size) /\ ~Throws(b, size) /\ b.at > b.lookback

\* The series that is made: element k of the output is of input lookback + k.
Cells(b, size) ==
  [n \in 0 .. size - 1 |->
     IF Calls(b, size) /\ n >= b.at /\ n - b.at + b.lookback < size
     THEN n - b.at + b.lookback ELSE Untouched]

-----------------------------------------------------------------------------
(* TA-Lib (external/ta-lib): how many elements a function leaves out with the *)
(* library's default settings, and -1 if a parameter is out of its range      *)

\* One element comes of the last period ones.
Windows ==
  {"MAX", "MIN", "MIDPOINT", "TRIMA", "LINEARREG", "LINEARREG_SLOPE",
   "LINEARREG_ANGLE", "LINEARREG_INTERCEPT", "TSF", "MAXINDEX", "MININDEX",
   "MIDPRICE", "CCI", "WILLR", "STDDEV", "VAR", "CORREL"}
\* One comes of these and the one before them.
Changes ==
  {"KAMA", "MOM", "ROC", "ROCP", "ROCR", "ROCR100", "RSI", "CMO", "ATR", "NATR",
   "DX", "MINUS_DI", "PLUS_DI", "MFI", "BETA"}
\* The shortest period is one for these, and two for the others.
FromOne ==
  {"MOM", "ROC", "ROCP", "ROCR", "ROCR100", "TRIX", "ATR", "NATR", "MINUS_DM",
   "PLUS_DM", "MINUS_DI", "PLUS_DI", "VAR", "CORREL", "BETA"}

EMALookback(period) == IF period < 2 THEN -1 ELSE period - 1
DEMALookback(period) == 2 * EMALookback(period)
TEMALookback(period) == 3 * EMALookback(period)
\* A period of one is in its range, but not in that of the average it is made of.
TRIXLookback(period) == 3 * EMALookback(period) + 1
DMLookback(period) == IF period > 1 THEN period - 1 ELSE 1
ADXLookback(period) == 2 * period - 1
ADXRLookback(period) == period + ADXLookback(period) - 1
T3Lookback(period) == 6 * (period - 1)

\* The average of a kind that is given by name
MATypes == {"SMA", "EMA", "WMA", "DEMA", "TEMA", "TRIMA", "KAMA", "MAMA", "T3"}
MALookback(period, ma) ==
  CASE period < 1    -> -1
    [] period = 1    -> 0
    [] ma = "DEMA"   -> DEMALookback(period)
    [] ma = "TEMA"   -> TEMALookback(period)
    [] ma = "KAMA"   -> period
    [] ma = "MAMA"   -> 32
    [] ma = "T3"     -> T3Lookback(period)
    [] OTHER         -> period - 1

\* The functions that have one period
PeriodLookback(f, period) ==
  CASE period < (IF f \in FromOne THEN 1 ELSE 2) -> -1
    [] f \in Windows  -> period - 1
    [] f \in Changes  -> period
    [] f = "DEMA"     -> DEMALookback(period)
    [] f = "TEMA"     -> TEMALookback(period)
    [] f = "TRIX"     -> TRIXLookback(period)
    [] f \in {"MINUS_DM", "PLUS_DM"} -> DMLookback(period)
    [] f = "ADX"      -> ADXLookback(period)
    [] f = "ADXR"     -> ADXRLookback(period)
    [] f = "T3"       -> T3Lookback(period)
    [] f = "BBANDS"   -> MALookback(period, "SMA")

Larger(a, b) == IF a > b THEN a ELSE b

\* Those of several periods: any of them may be out of its range.
APOLookback(fast, slow, ma) ==
  IF fast < 2 \/ slow < 2 THEN -1 ELSE MALookback(Larger(fast, slow), ma)
ADOSCLookback(fast, slow) ==
  IF fast < 2 \/ slow < 2 THEN -1 ELSE EMALookback(Larger(fast, slow))
MACDLookback(fast, slow, signal) ==
  IF fast < 2 \/ slow < 2 \/ signal < 1 THEN -1
  ELSE EMALookback(Larger(fast, slow)) + EMALookback(signal)
MACDEXTLookback(fast, fastMA, slow, slowMA, signal, signalMA) ==
  IF fast < 2 \/ slow < 2 \/ signal < 1 THEN -1
  ELSE Larger(MALookback(fast, fastMA), MALookback(slow, slowMA))
         + MALookback(signal, signalMA)
MACDFIXLookback(signal) ==
  IF signal < 1 THEN -1 ELSE EMALookback(26) + EMALookback(signal)
STOCHLookback(k, slowK, slowKMA, slowD, slowDMA) ==
  IF k < 1 \/ slowK < 1 \/ slowD < 1 THEN -1
  ELSE k - 1 + MALookback(slowK, slowKMA) + MALookback(slowD, slowDMA)
STOCHFLookback(k, d, ma) ==
  IF k < 1 \/ d < 1 THEN -1 ELSE k - 1 + MALookback(d, ma)
STOCHRSILookback(period, k, d, ma) ==
  IF period < 2 \/ k < 1 \/ d < 1 THEN -1
  ELSE PeriodLookback("RSI", period) + STOCHFLookback(k, d, ma)

\* The limits are hundredths.
MAMALookback(fast, slow) == IF {fast, slow} \subseteq 1 .. 99 THEN 32 ELSE -1

\* Functions without a period: the Hilbert transforms need 32 elements to begin
\* with, and some of them 31 more.
LongHilbert == 63
ShortHilbert == 32
OneBefore == 1
NoLookback == 0

\* Candles: the bars over which the library takes the average of a property of the
\* bar, the longest of those that a pattern asks for, and the bars of the pattern.
AvgPeriod == [BodyLong |-> 10, BodyShort |-> 10, BodyDoji |-> 10, ShadowLong |-> 0,
              ShadowVeryShort |-> 10, Near |-> 5]
Pattern(averages, bars) == Max({AvgPeriod[a] : a \in averages}) + bars
Candles ==
  [CDL3BLACKCROWS |-> Pattern({"ShadowVeryShort"}, 3),
   CDLDOJISTAR    |-> Pattern({"BodyDoji", "BodyLong"}, 1),
   CDLENGULFING   |-> 2,
   CDLHAMMER      |-> Pattern({"BodyShort", "ShadowLong", "ShadowVeryShort", "Near"}, 1),
   CDLHARAMI      |-> Pattern({"BodyShort", "BodyLong"}, 1),
   CDL2CROWS      |-> Pattern({"BodyLong"}, 2)]
PenetrationCandles ==
  [CDLABANDONEDBABY   |-> Pattern({"BodyDoji", "BodyLong", "BodyShort"}, 2),
   CDLEVENINGDOJISTAR |-> Pattern({"BodyDoji", "BodyLong", "BodyShort"}, 2),
   CDLMORNINGDOJISTAR |-> Pattern({"BodyDoji", "BodyLong", "BodyShort"}, 2),
   CDLEVENINGSTAR     |-> Pattern({"BodyShort", "BodyLong"}, 2),
   CDLMORNINGSTAR     |-> Pattern({"BodyShort", "BodyLong"}, 2),
   CDLDARKCLOUDCOVER  |-> Pattern({"BodyLong"}, 1),
   CDLMATHOLD         |-> Pattern({"BodyShort", "BodyLong"}, 4)]

-----------------------------------------------------------------------------
(* The builders on a series *)

SeriesTAFunc1(s, f, period) == Usual(s, f, <<period>>, PeriodLookback(f, period))
SeriesTAFunc1Int(s, f, period) == Usual(s, f, <<period>>, PeriodLookback(f, period))
BBandUpper(s, period, dev) ==
  Usual(s, "BBand upper", <<period, dev>>, PeriodLookback("BBANDS", period))
BBandLower(s, period, dev) ==
  Usual(s, "BBand lower", <<period, dev>>, PeriodLookback("BBANDS", period))
HTTrendline(s) == Usual(s, "HTTrendline", <<>>, LongHilbert)
MAMA(s, fast, slow) == Usual(s, "MAMA", <<fast, slow>>, MAMALookback(fast, slow))
FAMA(s, fast, slow) == Usual(s, "FAMA", <<fast, slow>>, MAMALookback(fast, slow))
T3(s, period, factor) == Usual(s, "T3", <<period, factor>>, PeriodLookback("T3", period))
APO(s, fast, slow, ma) == Usual(s, "APO", <<fast, slow, ma>>, APOLookback(fast, slow, ma))
PPO(s, fast, slow, ma) == Usual(s, "PPO", <<fast, slow, ma>>, APOLookback(fast, slow, ma))
MACD(s, fast, slow, signal) ==
  Usual(s, "MACD", <<fast, slow, signal>>, MACDLookback(fast, slow, signal))
MACDSignal(s, fast, slow, signal) ==
  Usual(s, "MACD Signal", <<fast, slow, signal>>, MACDLookback(fast, slow, signal))
MACDHist(s, fast, slow, signal) ==
  Usual(s, "MACD Hist", <<fast, slow, signal>>, MACDLookback(fast, slow, signal))
MACDExt(s, fast, slow, signal, ma) ==
  Usual(s, "MACD Ext", <<fast, ma, slow, ma, signal, ma>>,
        MACDEXTLookback(fast, ma, slow, ma, signal, ma))
MACDSignalExt(s, fast, slow, signal, ma) ==
  Usual(s, "MACD Signal Ext", <<fast, ma, slow, ma, signal, ma>>,
        MACDEXTLookback(fast, ma, slow, ma, signal, ma))
MACDHistExt(s, fast, slow, signal, ma) ==
  Usual(s, "MACD Hist Ext", <<fast, ma, slow, ma, signal, ma>>,
        MACDEXTLookback(fast, ma, slow, ma, signal, ma))
MACDFix(s, period) == Usual(s, "MACD Fix", <<period>>, MACDFIXLookback(period))
MACDSignalFix(s, period) ==
  Usual(s, "MACD Signal Fix", <<period>>, MACDFIXLookback(period))
MACDHistFix(s, period) ==
  Usual(s, "MACD Hist Fix", <<period>>, MACDFIXLookback(period))
HTDCPeriod(s) == Usual(s, "HT DC Period", <<>>, ShortHilbert)
HTDCPhase(s) == Usual(s, "HT DC Phase", <<>>, LongHilbert)
HTPhasorPhase(s) == Usual(s, "HT Phasor Phase", <<>>, ShortHilbert)
HTPhasorQuadrature(s) == Usual(s, "HT Phasor quadrature", <<>>, ShortHilbert)
\* The guard is the lookback of another function, which is smaller.
HTSine(s) ==
  [Usual(s, "HT Sine", <<>>, LongHilbert) EXCEPT !.guard = ShortHilbert]
\* So is the place: what is calculated for a bar is put 31 bars before it.
HTLeadSine(s) ==
  [Usual(s, "HT Lead sine", <<>>, LongHilbert) EXCEPT
     !.guard = ShortHilbert, !.at = ShortHilbert,
     !.places = {ShortHilbert, LongHilbert}]
HTTrendMode(s) == Usual(s, "HT Trend Mode", <<>>, LongHilbert)
StdDev(s, period, dev) ==
  Usual(s, "Standard deviation", <<period, dev>>, PeriodLookback("STDDEV", period))
Variance(s, period, dev) ==
  Usual(s, "Variance", <<period, dev>>, PeriodLookback("VAR", period))
StochRSIFastK(s, period, k, d, ma) ==
  [Usual(s, "Stochastic RSI Fast K", <<period, k, d, ma>>,
         STOCHRSILookback(period, k, d, ma)) EXCEPT !.id[2] = "Stochastic RSI"]
\* It has the id of the other one.
StochRSIFastD(s, period, k, d, ma) ==
  [StochRSIFastK(s, period, k, d, ma) EXCEPT
     !.out = <<"Stochastic RSI Fast D", <<period, k, d, ma>>>>]
\* The id of these does not name the series.
SeriesTAFunc0(s, f) == [Usual(s, f, <<>>, 0) EXCEPT !.id[1] = <<>>]
\* with a value, which is the first argument of the operation
SeriesOperation(s, op, value) == Usual(s, op, <<value>>, 0)
\* There is no guard, and no id: a size that is not greater than the lookback
\* throws, and so does a period that is out of its range.
Op2Period(s, f, period) ==
  [Usual(s, f, <<period>>, PeriodLookback(f, period)) EXCEPT
     !.id = <<<<>>, "", <<>>>>, !.tested = FALSE]

-----------------------------------------------------------------------------
(* The builders on bars *)

BarsHighLow(b, f, period) == Usual(b, f, <<period>>, PeriodLookback(f, period))
BarsHighLowClose(b, f, period) == Usual(b, f, <<period>>, PeriodLookback(f, period))
SAR(b, acceleration, maximum) ==
  Usual(b, "SAR", <<acceleration, maximum>>, OneBefore)
TR(b) == Usual(b, "True Range", <<>>, OneBefore)
MFI(b, period) == Usual(b, "MFI", <<period>>, PeriodLookback("MFI", period))
ChaikinAD(b) == Usual(b, "Chaikin A/D", <<>>, NoLookback)
ChaikinADOscillator(b, fast, slow) ==
  Usual(b, "Chaikin A/D Oscillator", <<fast, slow>>, ADOSCLookback(fast, slow))
OBV(b, s) ==
  Builder(<<b, s>>, <<<<b, s>>, "OBV", <<>>>>, <<"OBV", <<>>>>, 0, 0, NoLookback)
AvgPrice(b) == Usual(b, "Average Price", <<>>, NoLookback)
MedPrice(b) == Usual(b, "Median Price", <<>>, NoLookback)
TypPrice(b) == Usual(b, "Typical Price", <<>>, NoLookback)
WclPrice(b) == Usual(b, "Wighted Close Price", <<>>, NoLookback)
\* The integers are calculated into a vector of their own, and copied.
Candle(b, f) == Usual(b, f, <<>>, Candles[f])

\* The place is that of CDLABANDONEDBABY, whatever the function.
PenetrationPlace(f) == PenetrationCandles["CDLABANDONEDBABY"]
CandlePenetration(b, f, penetration) ==
  [Usual(b, f, <<penetration>>, PenetrationCandles[f]) EXCEPT
     !.at = PenetrationPlace(f), !.places = {PenetrationPlace(f)}]
StochSlowK(b, k, slowK, slowKMA, slowD, slowDMA) ==
  Usual(b, "Stochastic Slow K", <<k, slowK, slowKMA, slowD, slowDMA>>,
        STOCHLookback(k, slowK, slowKMA, slowD, slowDMA))
StochSlowD(b, k, slowK, slowKMA, slowD, slowDMA) ==
  Usual(b, "Stochastic Slow D", <<k, slowK, slowKMA, slowD, slowDMA>>,
        STOCHLookback(k, slowK, slowKMA, slowD, slowDMA))
StochFastK(b, k, d, ma) ==
  Usual(b, "Stochastic Fast K", <<k, d, ma>>, STOCHFLookback(k, d, ma))
StochFastD(b, k, d, ma) ==
  Usual(b, "Stochastic Fast D", <<k, d, ma>>, STOCHFLookback(k, d, ma))
BOP(b) == Usual(b, "BOP", <<>>, NoLookback)

-----------------------------------------------------------------------------
(* What a system may ask for *)

Periods == {0, 1, 2, 3, 5}
SeriesFunctions ==
  {"MAX", "MIN", "DEMA", "KAMA", "MIDPOINT", "TEMA", "TRIMA", "MOM", "ROC",
   "ROCP", "ROCR", "ROCR100", "RSI", "TRIX", "LINEARREG", "LINEARREG_SLOPE",
   "LINEARREG_ANGLE", "LINEARREG_INTERCEPT", "TSF", "CMO"}
BarsFunctions ==
  {"ATR", "ADX", "ADXR", "CCI", "DX", "MINUS_DI", "PLUS_DI", "WILLR", "NATR"}

\* SeriesImpl's calls of the series cache
OfSeries(s) ==
  {SeriesTAFunc1(s, f, p) : f \in SeriesFunctions, p \in Periods}
  \cup {SeriesTAFunc1Int(s, f, p) : f \in {"MAXINDEX", "MININDEX"}, p \in Periods}
  \cup {BBandUpper(s, p, 2) : p \in Periods} \cup {BBandLower(s, p, 2) : p \in Periods}
  \cup {HTTrendline(s), MAMA(s, 1, 2), MAMA(s, 2, 1), FAMA(s, 1, 2), HTDCPeriod(s),
        HTDCPhase(s), HTPhasorPhase(s), HTPhasorQuadrature(s), HTSine(s),
        HTLeadSine(s), HTTrendMode(s)}
  \cup {T3(s, p, 1) : p \in Periods}
  \cup {APO(s, 2, 4, ma) : ma \in MATypes} \cup {APO(s, 4, 2, "SMA"), PPO(s, 2, 4, "EMA")}
  \cup {MACD(s, 2, 4, 3), MACDSignal(s, 2, 4, 3), MACDHist(s, 2, 4, 3),
        MACDExt(s, 2, 4, 3, "SMA"), MACDSignalExt(s, 2, 4, 3, "DEMA"),
        MACDHistExt(s, 2, 4, 1, "TEMA")}
  \cup {MACDFix(s, 9), MACDSignalFix(s, 9), MACDHistFix(s, 9)}
  \cup {StdDev(s, p, 1) : p \in Periods} \cup {Variance(s, p, 1) : p \in Periods}
  \cup {StochRSIFastK(s, 5, 3, 2, "SMA"), StochRSIFastD(s, 5, 3, 2, "EMA")}
  \cup {SeriesTAFunc0(s, f) : f \in {"SIN", "COS", "LN"}}
  \cup {SeriesOperation(s, op, x) : x \in {1, 2}, op \in {"add", "subtract",
           "divide by", "divide value by", "subtract from", "multiply by"}}
  \cup {Op2Period(s, f, p) : f \in {"CORREL", "BETA"}, p \in Periods}

\* BarsImpl's calls of the series cache
OfBars(b, s) ==
  {BarsHighLow(b, f, p) : f \in {"MIDPRICE", "MINUS_DM", "PLUS_DM"}, p \in Periods}
  \cup {BarsHighLowClose(b, f, p) : f \in BarsFunctions, p \in Periods}
  \cup {SAR(b, 1, 2), TR(b), ChaikinAD(b), ChaikinADOscillator(b, 3, 5), OBV(b, s),
        AvgPrice(b), MedPrice(b), TypPrice(b), WclPrice(b), BOP(b)}
  \cup {MFI(b, p) : p \in Periods}
  \cup {Candle(b, f) : f \in DOMAIN Candles}
  \cup {CandlePenetration(b, f, q) : f \in DOMAIN PenetrationCandles, q \in {3, 5}}
  \cup {StochSlowK(b, 5, 3, "SMA", 1, "EMA"), StochSlowD(b, 5, 3, "DEMA", 3, "SMA"),
        StochFastK(b, 5, 3, "WMA"), StochFastD(b, 1, 1, "MAMA")}

-----------------------------------------------------------------------------
(* The indicators that are calculated here: v is a function on 0 .. size-1 *)

SizeOf(v) == Cardinality(DOMAIN v)
SumOver(v, a, b) == MapThenSumSet(LAMBDA i : v[i], a .. b)

\* SeriesImpl::minIndexInInterval: the first of the smallest
MinIndexInInterval(v, start, length) ==
  LET f[n \in start .. start + length - 1] ==
        IF n = start THEN start
        ELSE IF v[n] < v[f[n - 1]] THEN n ELSE f[n - 1]
  IN  f[start + length - 1]

\* SeriesImpl::maxIndexInInterval: here the interval ends with the series, whose
\* size is that of the reference when it is synchronized.
MaxIndexInInterval(v, size, start, length) ==
  LET last == IF start + length < size THEN start + length - 1 ELSE size - 1
      f[n \in start .. Larger(start, last)] ==
        IF n = start THEN start
        ELSE IF v[n] > v[f[n - 1]] THEN n ELSE f[n - 1]
  IN  f[Larger(start, last)]

\* The simple average, times the period: one element enters the window and one
\* leaves it.
SMA(v, p) ==
  LET f[n \in DOMAIN v] ==
        IF p >= SizeOf(v) \/ n < p - 1 THEN 0
        ELSE IF n = p - 1 THEN SumOver(v, 0, p - 1)
        ELSE f[n - 1] + v[n] - v[n - p]
  IN  f

\* The exponential average with the exponent num/den, as a fraction
EMA(v, p, num, den) ==
  LET f[n \in DOMAIN v] ==
        IF p >= SizeOf(v) \/ n < p - 1 THEN <<0, 1>>
        ELSE IF n = p - 1 THEN <<SumOver(v, 0, p - 1), p>>
        ELSE <<num * (v[n] * f[n - 1][2] - f[n - 1][1]) + den * f[n - 1][1],
               den * f[n - 1][2]>>
  IN  f
FixedExpEMA(v, p) == EMA(v, p, 2, p + 1)

\* The weighted average, times (period + 1) * period / 2, from the simple one
WMA(v, p) ==
  LET sma == SMA(v, p)
      f[n \in DOMAIN v] ==
        IF p >= SizeOf(v) \/ n < p - 1 THEN 0
        ELSE IF n = p - 1 THEN MapThenSumSet(LAMBDA i : (i + 1) * v[i], 0 .. p - 1)
        ELSE f[n - 1] - sma[n - 1] + p * v[n]
  IN  f

\* A period of zero divides by zero.
AroonDown(v, p) ==
  [n \in DOMAIN v |->
     IF n < p THEN 0
     ELSE ((p - n + MinIndexInInterval(v, n - p, p + 1)) * 100) \div p]
AroonUp(v, p, size) ==
  [n \in DOMAIN v |->
     IF n < p THEN 0
     ELSE LET x == p - n + MaxIndexInInterval(v, size, n - p, p + 1)
          IN  IF x < 0 THEN 0 ELSE (x * 100) \div p]

\* copy_backward and copy of all but n elements, if there are more than n
ShiftRight(v, n) ==
  [i \in DOMAIN v |-> IF n < SizeOf(v) /\ i >= n THEN v[i - n] ELSE 0]
ShiftLeft(v, n) ==
  [i \in DOMAIN v |-> IF n < SizeOf(v) /\ i + n < SizeOf(v) THEN v[i + n] ELSE 0]

\* std::transform: the operation is called with the value and the element
OpValue(v, Op(_, _), x) == [n \in DOMAIN v |-> Op(x, v[n])]
AddSeriesToValue(v, x) == OpValue(v, LAMBDA value, a : a + value, x)
SubtractValueFromSeries(v, x) == OpValue(v, LAMBDA value, a : a - value, x)
SubtractSeriesFromValue(v, x) == OpValue(v, LAMBDA value, a : value - a, x)
MultiplySeriesByValue(v, x) == OpValue(v, LAMBDA value, a : a * value, x)
DivideSeriesByValue(v, x) == OpValue(v, LAMBDA value, a : <<a, value>>, x)
DivideValueBySeries(v, x) == OpValue(v, LAMBDA value, a : <<value, a>>, x)

\* The sum of all elements so far: the period only counts in the id.
WSum(v, p) ==
  LET f[n \in DOMAIN v] == IF n = 0 THEN v[0] ELSE f[n - 1] + v[n] IN f

Distance(a, b) == IF a < b THEN b - a ELSE a - b
TrueRange(high, low, close) ==
  [n \in DOMAIN high |->
     IF n = 0 THEN high[0] - low[0]
     ELSE Max({high[n] - low[n], Distance(close[n - 1], high[n]),
               Distance(close[n - 1], low[n])})]

-----------------------------------------------------------------------------
(* Properties, of a builder and of a series *)

\* The indicators that do not put their values where they belong: two sine waves
\* of the Hilbert transform, and two candles whose lookback is not that of
\* CDLABANDONEDBABY.
Misplaced(b) ==
  b.out[1] \in {"HT Sine", "HT Lead sine", "CDLDARKCLOUDCOVER", "CDLMATHOLD"}

\* No other indicator throws, writes past the end of its series, puts into a bar
\* what was calculated of later bars, or leaves out a bar that TA-Lib has a
\* value for.  Those that do not test the size throw if the series is too short,
\* and only then.
BuilderIsCausal(b, size) == ~Misplaced(b) =>
  /\ Throws(b, size) <=> (~b.tested /\ ~Exceeds(size, b.lookback))
  /\ ~Overruns(b, size)
  /\ ~Throws(b, size) => \A n \in 0 .. size - 1 :
       Cells(b, size)[n] = IF b.lookback >= 0 /\ n >= b.lookback THEN n ELSE Untouched

\* The ids that do not tell what they stand for: those of functions without a
\* parameter and of operations on two series, and the two of the stochastic RSI.
SharedId(b) == b.id[1] = <<>> \/ b.id[2] = "Stochastic RSI"

\* Any other id stands for one indicator of one series: the cache would find the
\* right one.
IdIsUnique(b, others) == ~SharedId(b) =>
  \A c \in others : c.id = b.id => c.src = b.src /\ c.out = b.out

\* The averages are what their names say, though they are calculated from the
\* value before.
AveragesAreMeans(v, p) == \A n \in DOMAIN v : (p < SizeOf(v) /\ n >= p - 1) =>
  LET window == n - p + 1 .. n
      ema == FixedExpEMA(v, p)[n]
      seen == {v[i] : i \in 0 .. n}
  IN  /\ SMA(v, p)[n] = SumOver(v, n - p + 1, n)
      /\ SMA(v, p)[n] = WSum(v, p)[n] - (IF n = p - 1 THEN 0 ELSE WSum(v, p)[n - p])
      /\ WMA(v, p)[n] = MapThenSumSet(LAMBDA i : (i - n + p) * v[i], window)
      /\ Min(seen) * ema[2] <= ema[1] /\ ema[1] <= Max(seen) * ema[2]

\* Aroon's two lines tell how far back the lowest and the highest are, and mirror
\* each other on a series that is not synchronized.
AroonLooksBack(v, p) ==
  /\ \A n \in DOMAIN v : n >= p =>
       LET lowest == Min({i \in n - p .. n : \A j \in n - p .. n : v[i] <= v[j]})
       IN  AroonDown(v, p)[n] = ((p - (n - lowest)) * 100) \div p
  /\ AroonUp(v, p, SizeOf(v)) = AroonDown([n \in DOMAIN v |-> -v[n]], p)

\* The true range is that of a bar that begins at the close before.
TrueRangeIsRange(v, p) ==
  LET high == [n \in DOMAIN v |-> Larger(v[n], p)]
      low  == [n \in DOMAIN v |-> Min({v[n], 1})]
  IN  \A n \in DOMAIN v \ {0} : TrueRange(high, low, v)[n]
        = Max({high[n], low[n], v[n - 1]}) - Min({high[n], low[n], v[n - 1]})

\* What is done with a value is undone with it: its side in a subtraction and a
\* division is the one that the name says.
ArithmeticUndoes(v, x) ==
  /\ SubtractValueFromSeries(AddSeriesToValue(v, x), x) = v
  /\ SubtractSeriesFromValue(SubtractSeriesFromValue(v, x), x) = v
  /\ AddSeriesToValue(SubtractSeriesFromValue(v, x), -x) = MultiplySeriesByValue(v, -1)
  /\ \A n \in DOMAIN v : LET a == DivideSeriesByValue(v, x)[n]
                             b == DivideValueBySeries(v, x)[n]
                         IN  a = <<b[2], b[1]>> /\ a[1] = v[n]

\* Shifting back what was shifted restores what was not lost.
ShiftsUndo(v, n) ==
  \A i \in DOMAIN v : (i + n < SizeOf(v)) => ShiftLeft(ShiftRight(v, n), n)[i] = v[i]

=============================================================================
