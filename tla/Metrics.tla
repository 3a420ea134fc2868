------------------------------ MODULE Metrics ------------------------------
(***************************************************************************)
(* What wasi-otel makes of a guest's metrics (guest/metrics.rs,            *)
(* host/metrics_impl.rs): the numbers, the exemplars and the four kinds of *)
(* aggregation.  Counts, bounds and bucket counts are copied and left out. *)
(***************************************************************************)
EXTENDS Telemetry

CONSTANTS
  NaN     \* the number of an f64 that is none

-----------------------------------------------------------------------------
(* Numbers, in halves: those of an f64 may be odd, or NaN.                   *)

Trunc(h) == IF h >= 0 THEN h \div 2 ELSE -((-h) \div 2)

\* From<T: ToPrimitive> for DataValue: the first of u64, i64 and f64 that can
\* hold the number once its fraction is cut off.
DataValue(h) ==
  CASE h # NaN /\ h > -2 /\ h < 4 * Half -> [as |-> "u64", val |-> Trunc(h)]
    [] h # NaN /\ h <= -2 /\ h >= -2 * Half -> [as |-> "s64", val |-> Trunc(h)]
    [] OTHER -> [as |-> "f64", val |-> h]

\* v as i64 wraps; NumberValue and ExemplarValue.
NumberValue(d) ==
  CASE d.as = "u64" -> [as |-> "int", val |-> IF d.val >= Half THEN d.val - 2 * Half ELSE d.val]
    [] d.as = "s64" -> [as |-> "int", val |-> d.val]
    [] d.as = "f64" -> [as |-> "double", val |-> d.val]
\* From<DataValue> for f64, in halves.
Double(d) == IF d.as = "f64" THEN d.val ELSE 2 * d.val

-----------------------------------------------------------------------------
(* Exemplars.                                                                *)

\* A byte read as a character: the digit it is, 30 to 39, 41 to 46 or 61 to 66.
IsDigit(hi, lo) == (hi = 3 /\ lo <= 9) \/ (hi \in {4, 6} /\ lo \in 1..6)
Digit(hi, lo) == IF hi = 3 THEN lo ELSE lo + 9
\* The bytes of an identifier, not its digits, read as text and decoded.
DecodedBytes(id) ==
  LET bytes == 1..(Len(id) \div 2) IN
  IF \A i \in bytes : IsDigit(id[2 * i - 1], id[2 * i])
    THEN HexDecode([i \in bytes |-> Digit(id[2 * i - 1], id[2 * i])]) ELSE <<>>

WitExemplar(e) ==
  [time |-> Datetime(e.time), value |-> DataValue(e.value), bytes |-> e.span_id,
   attributes |-> WitAttributes(e.attributes)]
OtlpExemplar(e) ==
  [time |-> Ticks(e.time), value |-> NumberValue(e.value),
   span_id |-> DecodedBytes(e.bytes), attributes |-> OtlpAttributes(e.attributes)]

-----------------------------------------------------------------------------
(* Aggregations: data is gauge, sum, histogram or exponential.               *)

Optional(x, f(_)) == IF x = None THEN None ELSE f(x)
Each(seq, f(_)) == [i \in DOMAIN seq |-> f(seq[i])]

\* A point of a gauge or a sum has a value; one of a histogram a sum, a minimum
\* and a maximum.
WitPoint(data, p) ==
  IF data \in {"gauge", "sum"}
    THEN [value |-> DataValue(p.value), exemplars |-> Each(p.exemplars, WitExemplar),
          attributes |-> WitAttributes(p.attributes)]
    ELSE [sum |-> DataValue(p.sum), min |-> Optional(p.min, DataValue),
          max |-> Optional(p.max, DataValue), exemplars |-> Each(p.exemplars, WitExemplar),
          attributes |-> WitAttributes(p.attributes)]

WitMetric(m) ==
  [m EXCEPT !.start = Optional(@, Datetime), !.time = Datetime(@),
            !.points = Each(@, LAMBDA p : WitPoint(m.data, p))]

OtlpTemporality(t) == IF t = "low_memory" THEN "unspecified" ELSE t

\* OTLP has the times of the aggregation at each of its points.
OtlpPoint(m, p) ==
  LET start == IF m.start = None THEN 0 ELSE Ticks(m.start) IN
  IF m.data \in {"gauge", "sum"}
    THEN [start |-> start, time |-> Ticks(m.time), value |-> NumberValue(p.value),
          exemplars |-> Each(p.exemplars, OtlpExemplar),
          attributes |-> OtlpAttributes(p.attributes)]
    ELSE [start |-> start, time |-> Ticks(m.time), sum |-> Double(p.sum),
          min |-> Optional(p.min, Double), max |-> Optional(p.max, Double),
          exemplars |-> Each(p.exemplars, OtlpExemplar),
          attributes |-> OtlpAttributes(p.attributes)]

\* Only sums and histograms have a temporality.
OtlpMetric(m) ==
  [data |-> m.data, points |-> Each(m.points, LAMBDA p : OtlpPoint(m, p)),
   temporality |-> IF m.data = "gauge" THEN None ELSE OtlpTemporality(m.temporality)]

\* metrics export, of one metric.
ExportMetric(m) == OtlpMetric(WitMetric(m))
=============================================================================
