--------------------------- MODULE MCMetricEngine ---------------------------
(* Small instances of MetricEngine for TLC. *)
EXTENDS MetricEngine

CONSTANTS checks, custom, a, b, all

SampleOf(m, t, ok) == [metric |-> m, tag |-> t, ok |-> ok]

(* A passing and a failing check under two tags, and a metric that nobody  *)
(* registered.                                                             *)
MCSample == {SampleOf(checks, a, TRUE), SampleOf(checks, b, FALSE), SampleOf(custom, a, TRUE)}
MCBuiltin  == {checks}
MCSubSinks == {<<checks, a>>}

ThresholdOf(key, n, abort, grace) ==
  [key |-> key, atLeast |-> n, abortOnFail |-> abort, grace |-> grace]

(* One threshold with a grace period, one on a tagged sub-sink that never  *)
(* aborts; their expressions differ.                                       *)
DistinctTexts ==
  <<ThresholdOf(<<checks, all>>, 60, TRUE, 2), ThresholdOf(<<checks, a>>, 50, FALSE, 0)>>

OneUptime == {5}
=============================================================================
