------------------------------- MODULE Metrics -------------------------------
(***************************************************************************)
(* The vocabulary of the metrics server (internal/metrics/model.go): the   *)
(* two kinds of metric, the metric a client submits, and what writing one  *)
(* metric does to the value stored under its key.                          *)
(*                                                                         *)
(* A stored value is an int64 (counter) or a float64 (gauge).  Only the    *)
(* counter does arithmetic, and it wraps; both are therefore members of    *)
(* Int64, the integers of a two's complement word that holds HalfRange     *)
(* negative and HalfRange non-negative values.                             *)
(***************************************************************************)
EXTENDS Integers, Sequences

CONSTANTS
    Names,      \* the metric names (Metrics.ID) clients use
    HalfRange,  \* 2^63 in the program, small in a model that TLC checks
    Nil,        \* a nil pointer: no Value, no Delta
    Absent      \* what a map holds for a key it does not have

Int64 == -HalfRange .. HalfRange - 1

Kinds == {"gauge", "counter"}

\* A client may submit any string as the type of a metric of a batch.
Types == Kinds \cup {"other"}

Metric == [type : Types, id : Names, val : Int64 \cup {Nil}]

\* The two maps Gauges and Counters as one map on pairs of kind and name.
Keys == Kinds \X Names

Values == Int64 \cup {Absent}

EmptyMaps == [key \in Keys |-> Absent]

Key(m) == <<m.type, m.id>>

\* Mutant of Wrap: the sum outgrows its word.
WrapUnbounded(x) == x

\* int64 addition.
Wrap(x) == ((x + HalfRange) % (2 * HalfRange)) - HalfRange

\* The value stored under Key(m) after m is written over the value old: a gauge
\* is replaced, a counter is added to, and a missing counter counts as zero.
Written(m, old) ==
    CASE m.type = "gauge" -> m.val
      [] m.type = "counter" ->
            Wrap((IF old = Absent THEN 0 ELSE old) + m.val)

Put(maps, m) == [maps EXCEPT ![Key(m)] = Written(m, @)]

\* A metric of an unknown type is passed over: the switch has no default.
Known(m) == m.type \in Kinds

PutKnown(maps, m) == IF Known(m) THEN Put(maps, m) ELSE maps

\* The maps after each of the metrics ms, which are written in order:
\* Puts(maps, ms)[i] is what the first i of them leave.
Puts(maps, ms) ==
    LET put[i \in 0 .. Len(ms)] ==
            IF i = 0 THEN maps ELSE PutKnown(put[i - 1], ms[i])
    IN  put

PutAll(maps, ms) == Puts(maps, ms)[Len(ms)]

ASSUME MetricsAssumption ==
    /\ HalfRange \in Nat \ {0}
    /\ Nil \notin Int
    /\ Absent \notin Int
=============================================================================
