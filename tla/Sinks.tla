-------------------------------- MODULE Sinks --------------------------------
(***************************************************************************)
(* The metric sinks and registry of metrics.py and the thresholds judged   *)
(* on them (thresholds.py), fed by the calls of Worker (worker.py).        *)
(*                                                                         *)
(* MetricEngine is about when samples reach the sinks; this module is      *)
(* about what the sinks make of them.  A sample is put and ingested in one *)
(* step here.  A snapshot may be taken between any two samples: it reads   *)
(* every sink, and a TrendSink sorts its list only when it is read.        *)
(*                                                                         *)
(* A trend is kept by TrendSink, or by HdrTrendSink when the native module *)
(* of the package can be imported; both are modelled.  Values are          *)
(* integers that stand for half thousandths, and a statistic is a fraction *)
(* <<numerator, denominator>>.  The histogram is given whole thousandths,  *)
(* and keeps of them three significant digits: it counts the values of a   *)
(* bucket together, and a bucket is the wider the greater its values are.  *)
(***************************************************************************)
EXTENDS Integers, Sequences, SequencesExt, FiniteSetsExt

CONSTANTS
  Sample,      \* what the user function may record: [metric, tag, value]
  Checked,     \* outcomes of the conditions of one check() call, in order
  Builtin,     \* _BUILTIN_METRICS: metric -> type
  AnyTag,      \* "no tag filter"
  Thresholds,  \* sequence of [metric, tag, agg, op, rhs], rhs a fraction
  Durations,   \* what the run may have lasted when thresholds are judged
  Inf,         \* math.inf, beyond every value
  Half,        \* half the buckets of width 1 that 3 significant digits need
  Widths,      \* bound: widths of the buckets
  MaxSamples   \* bound: samples in one behaviour

Types == {"counter", "gauge", "rate", "trend"}

ASSUME SinksAssumption ==
  /\ Builtin \in [DOMAIN Builtin -> Types]
  /\ "checks" \in DOMAIN Builtin
  /\ Durations \subseteq Nat /\ MaxSamples \in Nat
  /\ Inf \in Nat /\ 1 < Inf
  /\ Half \in Nat /\ 1000 <= Half
  /\ IsFiniteSet(Widths) /\ Widths \subseteq Nat \ {0} /\ 1 \in Widths
  /\ \A s \in Sample : s.value \in Int /\ -Inf < s.value /\ s.value < Inf
  /\ \A verdicts \in Checked : Len(verdicts) \in Nat /\ DOMAIN verdicts = 1 .. Len(verdicts)
  /\ \A i \in DOMAIN Thresholds : Thresholds[i].rhs \in Int \X (Nat \ {0})

VARIABLES
  native,    \* _USE_HDR
  metrics,   \* MetricRegistry._metrics: name -> type
  sinks,     \* _sinks and _sub_sinks: <<metric, tag>> -> sink
  results,   \* passed, for each threshold of the newest evaluation
  told,      \* what the newest check() call returned
  log,       \* history: the samples, in order
  judged     \* history: [upto, lasted] of the newest evaluation

sinksVars == <<native, metrics, sinks, results, told, log, judged>>

-----------------------------------------------------------------------------
(* Sinks.                                                                   *)

Histogram(sink) == DOMAIN sink.hdr
Zero == <<0, 1>>

(* create_sink(); Histogram(3) keeps a count per bucket.                    *)
CreateSink(type) ==
  CASE type = "counter" -> [type |-> "counter", value |-> 0]
    [] type = "gauge"   -> [type |-> "gauge", value |-> 0, min |-> Inf, max |-> -Inf]
    [] type = "rate"    -> [type |-> "rate", trues |-> 0, total |-> 0]
    [] type = "trend" /\ ~native -> [type |-> "trend", values |-> <<>>, sorted |-> FALSE]
    [] type = "trend" /\ native  -> [type |-> "hdr", hdr |-> <<>>]

(* HdrTrendSink.add(): max(0, int(value * 1000)).                           *)
Thousandths(v) == IF v < 0 THEN 0 ELSE v \div 2

(* Wrong: two significant digits.                                           *)
WidthOfTwoDigits(k) == Max({w \in Widths : w = 1 \/ (Half \div 8) * w <= k})

(* The buckets of Histogram(3), known by their lowest value: of width 1 up  *)
(* to 2 * Half, and twice as wide from each power of two to the next.       *)
Width(k) == Max({w \in Widths : w = 1 \/ Half * w <= k})
Lowest(k) == k - (k % Width(k))
Highest(b) == b + Width(b) - 1
Middle(b) == b + Width(b) \div 2

(* Where HdrTrendSink.add() counts the value v.                             *)
Bucket(v) == Lowest(Thousandths(v))

(* record(): one more value in a bucket.                                    *)
CountedIn(hdr, k) ==
  [x \in DOMAIN hdr \cup {k} |-> (IF x \in DOMAIN hdr THEN hdr[x] ELSE 0) + (IF x = k THEN 1 ELSE 0)]

(* Wrong: a list that was sorted counts as sorted ever after.               *)
ListedStillSorted(sink, v) == [sink EXCEPT !.values = Append(@, v)]

(* TrendSink.add()                                                          *)
Listed(sink, v) == [sink EXCEPT !.values = Append(@, v), !.sorted = FALSE]

(* add() of each sink.                                                      *)
Add(sink, v) ==
  CASE sink.type = "counter" -> [sink EXCEPT !.value = @ + v]
    [] sink.type = "gauge"   -> [sink EXCEPT !.value = v, !.min = Min({@, v}), !.max = Max({@, v})]
    [] sink.type = "rate"    -> [sink EXCEPT !.total = @ + 1, !.trues = IF v = 0 THEN @ ELSE @ + 1]
    [] sink.type = "trend"   -> Listed(sink, v)
    [] sink.type = "hdr"     -> [sink EXCEPT !.hdr = CountedIn(@, Bucket(v))]

(* list.sort(): the values in another order, none after a greater one.      *)
Ascending(s) == \A i, j \in DOMAIN s : i < j => s[i] <= s[j]
Reordered(s, p) == [i \in DOMAIN s |-> s[p[i]]]
Sorted(s) == Reordered(s, CHOOSE p \in Bijection(DOMAIN s, DOMAIN s) : Ascending(Reordered(s, p)))

(* _ensure_sorted(): what a snapshot does to a sink.                        *)
EnsureSorted(sink) ==
  IF sink.type = "trend" /\ ~sink.sorted /\ sink.values # <<>>
    THEN [sink EXCEPT !.values = Sorted(@), !.sorted = TRUE] ELSE sink

(* TrendSink.percentile(): linear between the two values around the rank.   *)
Percentile(s, p) ==
  LET n == Len(s)
      rank  == p * (n - 1)   \* in hundredths
      lower == rank \div 100
  IN  CASE n = 0 -> Zero
        [] n > 0 /\ lower + 1 >= n -> <<s[n], 1>>
        [] n > 0 /\ lower + 1 < n ->
             <<100 * s[lower + 1] + (rank % 100) * (s[lower + 2] - s[lower + 1]), 100>>

(* value_at_quantile() of the histogram: the bucket of nearest rank, which  *)
(* is shown as its highest value.                                           *)
Recorded(sink) == SumFunction(sink.hdr)
AtQuantile(sink, p) ==
  LET wanted  == Max({1, (p * Recorded(sink) + 99) \div 100})
      UpTo(k) == SumFunctionOnSet(sink.hdr, {x \in Histogram(sink) : x <= k})
  IN  Min({k \in Histogram(sink) : UpTo(k) >= wanted})

Percentiles == [x \in {"med", "p(90)", "p(95)", "p(99)"} |->
                  CASE x = "med" -> 50 [] x = "p(90)" -> 90 [] x = "p(95)" -> 95 [] x = "p(99)" -> 99]
TrendKeys == {"count", "avg", "min", "max"} \cup DOMAIN Percentiles

(* TrendSink.format(), of a list that is sorted.                            *)
FormatList(s) ==
  LET n == Len(s)
  IN  [x \in TrendKeys |->
         CASE n = 0 -> Zero
           [] n > 0 /\ x = "count" -> <<n, 1>>
           [] n > 0 /\ x = "avg"   -> <<SumFunction(s), n>>
           [] n > 0 /\ x = "min"   -> <<s[1], 1>>
           [] n > 0 /\ x = "max"   -> <<s[n], 1>>
           [] n > 0 /\ x \in DOMAIN Percentiles -> Percentile(s, Percentiles[x])]

(* HdrTrendSink.format() of format_stats(): every bucket stands for its     *)
(* middle in the mean, for its lowest value in the minimum, and for its     *)
(* highest one elsewhere.                                                   *)
FormatHistogram(sink) ==
  LET n == Recorded(sink)
      ks == Histogram(sink)
  IN  [x \in TrendKeys |->
         CASE n = 0 -> Zero
           [] n > 0 /\ x = "count" -> <<n, 1>>
           [] n > 0 /\ x = "avg"   -> <<2 * SumFunction([k \in ks |-> Middle(k) * sink.hdr[k]]), n>>
           [] n > 0 /\ x = "min"   -> <<2 * Min(ks), 1>>
           [] n > 0 /\ x = "max"   -> <<2 * Highest(Max(ks)), 1>>
           [] n > 0 /\ x \in DOMAIN Percentiles -> <<2 * Highest(AtQuantile(sink, Percentiles[x])), 1>>]

(* format() of each sink, for a sink EnsureSorted() was applied to.         *)
Format(sink, duration) ==
  CASE sink.type = "counter" ->
         [count |-> <<sink.value, 1>>,
          rate  |-> IF duration > 0 THEN <<sink.value, duration>> ELSE Zero]
    [] sink.type = "gauge" ->
         [value |-> <<sink.value, 1>>,
          min   |-> IF sink.min = Inf THEN Zero ELSE <<sink.min, 1>>,
          max   |-> IF sink.max = -Inf THEN Zero ELSE <<sink.max, 1>>]
    [] sink.type = "rate" ->
         [rate   |-> IF sink.total > 0 THEN <<sink.trues, sink.total>> ELSE Zero,
          passes |-> <<sink.trues, 1>>,
          fails  |-> <<sink.total - sink.trues, 1>>]
    [] sink.type = "trend" -> FormatList(sink.values)
    [] sink.type = "hdr" -> FormatHistogram(sink)

-----------------------------------------------------------------------------
(* Registry, ingestion and evaluation.                                      *)

(* MetricEngine._ingest(): a metric nobody registered becomes a TREND,      *)
(* whichever of counter(), gauge() and trend() recorded it.                 *)
Ingest(ss, s) ==
  LET known == IF <<s.metric, AnyTag>> \in DOMAIN ss THEN ss
               ELSE [key \in DOMAIN ss \cup {<<s.metric, AnyTag>>} |->
                       IF key \in DOMAIN ss THEN ss[key] ELSE CreateSink("trend")]
  IN  [key \in DOMAIN known |->
         IF key[1] = s.metric /\ key[2] \in {AnyTag, s.tag} THEN Add(known[key], s.value) ELSE known[key]]

(* register_builtins(), then get_or_create_sub_sink() for the thresholds    *)
(* with a tag filter, which is None for a metric that is not registered.    *)
SubSinks == {<<Thresholds[i].metric, Thresholds[i].tag>> :
               i \in {i \in DOMAIN Thresholds :
                        Thresholds[i].tag # AnyTag /\ Thresholds[i].metric \in DOMAIN Builtin}}

SinksInit ==
  /\ native \in BOOLEAN
  /\ metrics = Builtin
  /\ sinks = [key \in ((DOMAIN Builtin) \X {AnyTag}) \cup SubSinks |-> CreateSink(Builtin[key[1]])]
  /\ results = <<>> /\ told = TRUE /\ log = <<>> /\ judged = [upto |-> 0, lasted |-> 0]

(* get_or_create(): the type of a metric is the one it was first given.     *)
Registered(name, type) ==
  [m \in DOMAIN metrics \cup {name} |-> IF m \in DOMAIN metrics THEN metrics[m] ELSE type]

(* Worker.counter(), gauge() and trend(), and the samples of the program:   *)
(* the name, the value and the tags reach the queue, and no type does.      *)
Record(s) ==
  /\ Len(log) < MaxSamples
  /\ log' = Append(log, s)
  /\ sinks' = Ingest(sinks, s)
  /\ metrics' = Registered(s.metric, "trend")
  /\ UNCHANGED <<native, results, told, judged>>

(* Worker.check(): a sample for each condition, a condition that raises     *)
(* counting as one that failed; False if any of them failed.                *)
Outcomes(verdicts) ==
  [i \in DOMAIN verdicts |->
     [metric |-> "checks", tag |-> verdicts[i].name, value |-> IF verdicts[i].outcome = "true" THEN 1 ELSE 0]]

Check(verdicts) ==
  /\ Len(log) + Len(verdicts) <= MaxSamples
  /\ log' = log \o Outcomes(verdicts)
  /\ sinks' = FoldLeft(Ingest, sinks, Outcomes(verdicts))
  /\ told' = \A i \in DOMAIN verdicts : verdicts[i].outcome = "true"
  /\ UNCHANGED <<native, metrics, results, judged>>

(* _emit_snapshot(): format() of every base sink.                           *)
Snapshot ==
  /\ sinks' = [key \in DOMAIN sinks |-> IF key[2] = AnyTag THEN EnsureSorted(sinks[key]) ELSE sinks[key]]
  /\ sinks' # sinks
  /\ UNCHANGED <<native, metrics, results, told, log, judged>>

(* Wrong: the tag filter of a threshold is parsed, and forgotten.           *)
SoughtUntagged(th) == <<th.metric, AnyTag>>

(* evaluate_thresholds(): a tag filter is looked up among the sub-sinks.    *)
Sought(th) == <<th.metric, th.tag>>

Compare(x, op, rhs) ==
  LET l == x[1] * rhs[2]
      r == rhs[1] * x[2]
  IN  CASE op = "<" -> l < r [] op = "<=" -> l <= r [] op = ">" -> l > r [] op = ">=" -> l >= r
        [] op = "==" -> l = r [] op = "!=" -> l # r

(* evaluate_threshold(): formatted.get(key, 0.0).                           *)
Lhs(th, duration) ==
  LET formatted == Format(EnsureSorted(sinks[Sought(th)]), duration)
  IN  IF th.agg \in DOMAIN formatted THEN formatted[th.agg] ELSE Zero

(* A threshold whose sink does not exist passes.                            *)
Passed(th, duration) ==
  Sought(th) \in DOMAIN sinks => Compare(Lhs(th, duration), th.op, th.rhs)

(* The thresholds are judged, live or when the run is over.                 *)
Evaluate(duration) ==
  /\ results' = [i \in DOMAIN Thresholds |-> Passed(Thresholds[i], duration)]
  /\ sinks' = [key \in DOMAIN sinks |->
       IF \E i \in DOMAIN Thresholds : Sought(Thresholds[i]) = key THEN EnsureSorted(sinks[key]) ELSE sinks[key]]
  /\ judged' = [upto |-> Len(log), lasted |-> duration]
  /\ UNCHANGED <<native, metrics, told, log>>

SinksNext ==
  \/ \E s \in Sample : Record(s)
  \/ \E verdicts \in Checked : Check(verdicts)
  \/ Snapshot
  \/ \E d \in Durations : Evaluate(d)

SinksSpec == SinksInit /\ [][SinksNext]_sinksVars

-----------------------------------------------------------------------------
(* Reference definitions: statistics of the samples themselves, with no     *)
(* list to sort and no histogram.                                           *)

Fed(key, upto) == {i \in 1 .. upto : log[i].metric = key[1] /\ key[2] \in {AnyTag, log[i].tag}}

Raw(i) == log[i].value

(* What is left of a sample of a trend: all of it in a list, and the bucket *)
(* it fell into in a native build, which shows in three ways.               *)
Trend(i) == IF native THEN 2 * Highest(Bucket(Raw(i))) ELSE Raw(i)
Lower(i) == IF native THEN 2 * Bucket(Raw(i)) ELSE Raw(i)
Mean(i)  == IF native THEN 2 * Middle(Bucket(Raw(i))) ELSE Raw(i)

Same(x, y) == x[1] * y[2] = y[1] * x[2]

(* A percentile has enough values on either side: it lies between the two   *)
(* values of adjacent rank, whatever the interpolation.                     *)
Splits(x, I, p) ==
  LET lower == (p * (Cardinality(I) - 1)) \div 100
  IN  /\ Cardinality({i \in I : Trend(i) * x[2] <= x[1]}) >= lower + 1
      /\ Cardinality({i \in I : Trend(i) * x[2] >= x[1]}) >= Cardinality(I) - lower - 1

(* A sample of a trend in whole thousandths; a statistic within 0.1% of      *)
(* another; a sample with enough others on either side of it.               *)
Exact(i) == 2 * Thousandths(Raw(i))

Near(x, y) ==
  LET is  == x[1] * y[2]
      was == y[1] * x[2]
  IN  1000 * (is - was) <= was /\ 1000 * (was - is) <= was

Ranked(i, I, p) ==
  LET lower == (p * (Cardinality(I) - 1)) \div 100
  IN  /\ Cardinality({j \in I : Exact(j) <= Exact(i)}) >= lower + 1
      /\ Cardinality({j \in I : Exact(j) >= Exact(i)}) >= Cardinality(I) - lower - 1

(* The statistic agg of the samples I of a metric of the given type.        *)
Statistic(agg, type, I, duration) ==
  LET n == Cardinality(I)
      trues == Cardinality({i \in I : Raw(i) # 0})
  IN  CASE agg = "min" -> <<Min(IF type = "trend" THEN {Lower(i) : i \in I} ELSE {Raw(i) : i \in I}), 1>>
        [] agg = "max" -> <<Max(IF type = "trend" THEN {Trend(i) : i \in I} ELSE {Raw(i) : i \in I}), 1>>
        [] agg = "avg" -> <<SumFunction([i \in I |-> Mean(i)]), n>>
        [] agg = "value"  -> <<Raw(Max(I)), 1>>
        [] agg = "passes" -> <<trues, 1>>
        [] agg = "fails"  -> <<n - trues, 1>>
        [] agg = "count" -> IF type = "counter" THEN <<SumFunction([i \in I |-> Raw(i)]), 1>> ELSE <<n, 1>>
        [] agg = "rate" /\ type = "rate" -> <<trues, n>>
        [] agg = "rate" /\ type = "counter" -> IF duration > 0 THEN <<SumFunction([i \in I |-> Raw(i)]), duration>> ELSE Zero

-----------------------------------------------------------------------------
(* Properties.                                                              *)

(* Whenever a snapshot is taken, and however many were taken before, every  *)
(* statistic it shows of a metric or of a tagged view of one is that of     *)
(* exactly the samples recorded so far: of the samples themselves from a    *)
(* list, and of the buckets they fell into from a histogram (add(),         *)
(* format() and percentile() of the sinks, _ingest()).                      *)
StatisticsFollowSamples ==
  \A key \in DOMAIN sinks, d \in Durations :
    LET shown == Format(EnsureSorted(sinks[key]), d)
        I == Fed(key, Len(log))
    IN  \A agg \in DOMAIN shown :
          CASE I = {} -> shown[agg][1] = 0
            [] I # {} /\ agg \in DOMAIN Percentiles -> Splits(shown[agg], I, Percentiles[agg])
            [] I # {} /\ agg \notin DOMAIN Percentiles ->
                 Same(shown[agg], Statistic(agg, metrics[key[1]], I, d))

(* A threshold is passed or failed by the samples with its tag, and by no   *)
(* others: the statistic it names, of the samples in a list and of their    *)
(* buckets in a histogram, has that verdict, and of a percentile that is    *)
(* kept, or not kept, under a bound so many samples are on that side of it  *)
(* (evaluate_thresholds(), evaluate_threshold()).  Excepted are thresholds  *)
(* without a sink, which pass, and those on an aggregation that the metric  *)
(* does not have, which is read as 0.0.                                     *)
VerdictsFollowSamples ==
  \A i \in DOMAIN results :
    LET th   == Thresholds[i]
        I    == Fed(<<th.metric, th.tag>>, judged.upto)
        type == metrics[th.metric]
        n    == Cardinality(I)
        lower == (Percentiles[th.agg] * (n - 1)) \div 100
        Under(j) == Compare(<<Trend(j), 1>>, "<", th.rhs)
    IN  (I # {} /\ Sought(th) \in DOMAIN sinks /\ th.agg \in DOMAIN Format(sinks[Sought(th)], 0)) =>
          IF th.agg \in DOMAIN Percentiles
            THEN th.op = "<" =>
                   IF results[i] THEN Cardinality({j \in I : Under(j)}) >= lower + 1
                   ELSE Cardinality({j \in I : ~Under(j)}) >= n - lower - 1
            ELSE results[i] <=> Compare(Statistic(th.agg, type, I, judged.lasted), th.op, th.rhs)

(* Of a trend in a native build every statistic is within 0.1% of that of   *)
(* the samples in whole thousandths, as histogram.rs has it of three        *)
(* significant figures: the mean, the extremes, and for a percentile a      *)
(* sample with enough others on either side (format_stats(), format()).     *)
WithinPrecision ==
  \A key \in DOMAIN sinks :
    LET I     == Fed(key, Len(log))
        shown == Format(sinks[key], 0)
    IN  (native /\ metrics[key[1]] = "trend" /\ I # {}) =>
          /\ Near(shown["avg"], <<SumFunction([i \in I |-> Exact(i)]), Cardinality(I)>>)
          /\ Near(shown["min"], <<Min({Exact(i) : i \in I}), 1>>)
          /\ Near(shown["max"], <<Max({Exact(i) : i \in I}), 1>>)
          /\ \A agg \in DOMAIN Percentiles :
               \E i \in I : Near(shown[agg], <<Exact(i), 1>>) /\ Ranked(i, I, Percentiles[agg])
=============================================================================
