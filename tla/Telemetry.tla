----------------------------- MODULE Telemetry -----------------------------
(***************************************************************************)
(* What wasi-otel makes of a guest's telemetry: the SDK's values become    *)
(* wit values in the guest (guest/convert.rs, tracing.rs, metrics.rs),     *)
(* and wit values become an OTLP request in the host (host/types_impl.rs,  *)
(* tracing_impl.rs, metrics_impl.rs).                                      *)
(*                                                                         *)
(* An identifier is the sequence of its hexadecimal digits.  A number is   *)
(* given in halves, so that 5 stands for 2.5.  An instant is a number of   *)
(* ticks since the epoch, Sec to the second.  Names, texts and the fields  *)
(* that are copied from record to record are opaque or left out.           *)
(***************************************************************************)
EXTENDS Integers, Sequences, SequencesExt

CONSTANTS
  Half,   \* i64 runs from -Half to Half - 1 (2^63)
  Sec,    \* ticks of an instant to the second
  None    \* an absent option

-----------------------------------------------------------------------------
(* Attributes, resources and instants.                                       *)

WitType == [bool |-> "bool", i64 |-> "s64", f64 |-> "f64", string |-> "string"]
OtelType == [bool |-> "bool", s64 |-> "i64", f64 |-> "f64", string |-> "string"]
AnyType == [bool |-> "bool", s64 |-> "int", f64 |-> "double", string |-> "string"]

\* A value of the SDK: a scalar is a list of one item.
WitValue(v) == [v EXCEPT !.type = WitType[@]]
OtelValue(v) == [v EXCEPT !.type = OtelType[@]]
\* OTLP types an array item by item.
AnyValue(v) ==
  [array |-> v.array,
   items |-> [i \in DOMAIN v.items |-> [type |-> AnyType[v.type], item |-> v.items[i]]]]

WitAttributes(as) == [i \in DOMAIN as |-> [as[i] EXCEPT !.value = WitValue(@)]]
OtelAttributes(as) == [i \in DOMAIN as |-> [as[i] EXCEPT !.value = OtelValue(@)]]
OtlpAttributes(as) == [i \in DOMAIN as |-> [as[i] EXCEPT !.value = AnyValue(@)]]

\* The host's resource on its way into the guest's SDK and back out.
ResourceToGuest(r) == [r EXCEPT !.attributes = OtelAttributes(WitAttributes(@))]
ResourceToWit(r) == [r EXCEPT !.attributes = WitAttributes(@)]
ResourceToOtlp(r) ==
  OtlpAttributes(r.attributes) \o <<[key |-> "schema_url", value |-> r.schema_url]>>

\* An instant before the epoch counts as the epoch.
Datetime(t) ==
  LET since == IF t < 0 THEN 0 ELSE t IN [seconds |-> since \div Sec, ticks |-> since % Sec]
Ticks(d) == d.seconds * Sec + d.ticks

-----------------------------------------------------------------------------
(* Identifiers as text.                                                      *)

\* {:x} of an identifier prints it as a number, without the zeros in front.
LowerHex(id) ==
  LET digits == {i \in DOMAIN id : id[i] # 0} IN
  IF digits = {} THEN <<0>>
  ELSE SubSeq(id, CHOOSE i \in digits : \A j \in digits : i <= j, Len(id))
\* hex::decode(..).unwrap_or_default(): half a byte is no byte.
HexDecode(digits) == IF Len(digits) % 2 = 1 THEN <<>> ELSE digits

-----------------------------------------------------------------------------
(* Spans.                                                                    *)

WitContext(c) ==
  [c EXCEPT !.trace_id = LowerHex(@), !.span_id = LowerHex(@)]
WitLink(l) == [l EXCEPT !.context = WitContext(@), !.attributes = WitAttributes(@)]
WitEvent(e) == [e EXCEPT !.time = Datetime(@), !.attributes = WitAttributes(@)]
\* The parent's identifier is printed in full.
WitSpan(s) ==
  [s EXCEPT !.context = WitContext(@), !.start = Datetime(@), !.end = Datetime(@),
            !.attributes = WitAttributes(@),
            !.events = [i \in DOMAIN @ |-> WitEvent(@[i])],
            !.links = [i \in DOMAIN @ |-> WitLink(@[i])]]

\* Every span becomes a child of the host span around the export.
Reparented(s, host) ==
  [s EXCEPT !.context.trace_id = host.trace_id, !.context.is_remote = TRUE,
            !.parent_span_id = host.span_id]

\* The number of a kind is its place in the wit enum.
WitKinds == <<"client", "server", "producer", "consumer", "internal">>
KindNumber(kind) == (CHOOSE i \in DOMAIN WitKinds : WitKinds[i] = kind) - 1

OtlpContext(c) ==
  [trace_id |-> HexDecode(c.trace_id), span_id |-> HexDecode(c.span_id),
   flags |-> IF c.sampled THEN 1 ELSE 0]
OtlpLink(l) == [context |-> OtlpContext(l.context), attributes |-> OtlpAttributes(l.attributes)]
OtlpEvent(e) == [time |-> Ticks(e.time), attributes |-> OtlpAttributes(e.attributes)]
OtlpStatus(s) ==
  CASE s.status = "unset" -> [code |-> 0, message |-> None]
    [] s.status = "ok" -> [code |-> 1, message |-> None]
    [] s.status = "error" -> [code |-> 2, message |-> s.description]
OtlpSpan(s) ==
  [context |-> OtlpContext(s.context), parent_span_id |-> HexDecode(s.parent_span_id),
   kind |-> KindNumber(s.kind), start |-> Ticks(s.start), end |-> Ticks(s.end),
   attributes |-> OtlpAttributes(s.attributes),
   events |-> [i \in DOMAIN s.events |-> OtlpEvent(s.events[i])],
   links |-> [i \in DOMAIN s.links |-> OtlpLink(s.links[i])],
   status |-> OtlpStatus(s.status)]

\* A fault: a scope already in the map is not added to.
ByScopeFirst(spans) ==
  LET first(i) == \A j \in 1..(i - 1) : spans[j].scope # spans[i].scope IN
  [c \in {spans[i].scope : i \in DOMAIN spans} |->
     [i \in {i \in DOMAIN spans : spans[i].scope = c /\ first(i)} |-> spans[i]]]
\* The spans of an export, grouped by the scope they were made in: a group has its
\* spans at the places they have in the export.
ByScope(spans) ==
  [c \in {spans[i].scope : i \in DOMAIN spans} |->
     [i \in {i \in DOMAIN spans : spans[i].scope = c} |-> spans[i]]]

\* tracing export: what the collector is sent of a batch of the SDK's spans.
ExportTraces(spans, host) ==
  LET wit == [i \in DOMAIN spans |-> WitSpan(spans[i])]
      groups == ByScope([i \in DOMAIN wit |-> Reparented(wit[i], host)]) IN
  [c \in DOMAIN groups |-> [i \in DOMAIN groups[c] |-> OtlpSpan(groups[c][i])]]
=============================================================================
