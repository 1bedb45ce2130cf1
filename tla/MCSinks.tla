------------------------------- MODULE MCSinks -------------------------------
(* Up to three samples of a metric of each type, one of them not registered, *)
(* with values below zero, below a thousandth, and two in one bucket of     *)
(* width 2, and a threshold of every kind: tagged and untagged, next to a   *)
(* value, on a percentile, on an aggregation nobody has, and on metrics     *)
(* that come late or never.                                                 *)
EXTENDS Sinks

CONSTANTS NoFilter, a, b

S(m, t, v) == [metric |-> m, tag |-> t, value |-> v]
Samples ==
  {S("dur", t, v) : t \in {a, b}, v \in {1, 4101, 4103}} \cup
  {S("vus", a, 0), S("vus", a, 3), S("reqs", a, 2), S("reqs", b, 1), S("mine", a, -3), S("mine", a, 2)}

Verdict(n, o) == [name |-> n, outcome |-> o]
Checks == {<<Verdict(a, "true"), Verdict(b, "raises")>>, <<Verdict(a, "false")>>, <<Verdict(b, "true")>>}

Builtins == [dur |-> "trend", vus |-> "gauge", reqs |-> "counter", checks |-> "rate"]

Th(m, t, g, op, n, d) == [metric |-> m, tag |-> t, agg |-> g, op |-> op, rhs |-> <<n, d>>]
Limits == <<
  Th("dur", NoFilter, "p(95)", "<", 4102, 1), Th("dur", a, "med", "<", 4101, 1), Th("dur", b, "max", "<=", 4101, 1),
  Th("dur", a, "min", ">=", 4101, 1),
  Th("dur", NoFilter, "avg", ">", 8203, 2), Th("dur", NoFilter, "p(97)", "<", 4102, 1),
  Th("vus", NoFilter, "max", ">=", 1, 1), Th("vus", NoFilter, "value", "==", 0, 1),
  Th("reqs", NoFilter, "count", ">=", 3, 1), Th("reqs", b, "rate", "!=", 1, 2),
  Th("checks", NoFilter, "rate", ">", 1, 2), Th("checks", a, "rate", ">=", 1, 1),
  Th("mine", NoFilter, "count", "<", 2, 1), Th("mine", a, "max", "<", 0, 1), Th("none", NoFilter, "avg", ">", 0, 1) >>

Lasted == {0, 2}
PowersOfTwo == {1, 2, 4}
=============================================================================
