---------------------------- MODULE GuestTelemetry ----------------------------
(***************************************************************************)
(* Telemetry inside one guest instance: the scopes #[instrument] opens     *)
(* (wasi-otel-attr), the provider and the exit guard behind init()         *)
(* (wasi-otel/src/guest/init.rs), the span processor and the metrics       *)
(* reader (guest/tracing.rs, guest/metrics.rs).                            *)
(*                                                                         *)
(* These are guards and effects on the record of one instance; HttpServer  *)
(* makes actions of them.  A scope has one span, of the same name.         *)
(***************************************************************************)
EXTENDS Naturals, FiniteSets

CONSTANT Scopes   \* the instrumented functions an instance may be in: 1..n, in order of entry

\* A spawned export: a copy of the spans, or the metrics.
Traces(spans) == [kind |-> "traces", spans |-> spans]
Metrics == [kind |-> "metrics", spans |-> {}]

\* A new instance: TRACING and METRICS unset, nothing entered.
Fresh == [provider |-> "unset",     \* unset, set, shut
          open |-> {},              \* scopes entered and not yet left
          entered |-> 0,            \* how many have been entered
          guard |-> 0,              \* the scope that holds the ExitGuard, or 0
          spans |-> {},             \* the processor's buffer
          exports |-> {},           \* the exports that are spawned
          exported |-> [s \in Scopes |-> 0],   \* what the host has sent on, and how often
          left |-> {},              \* history: scopes left before the first one was
          faulty |-> FALSE]         \* history: init failed, or an export did

MayEnter(t) == t.entered + 1 \in Scopes

\* init(), then the span: the guard goes to the first scope.  A guest with a
\* subscriber of its own makes try_init fail: the providers stay set, nobody has
\* the guard.
Enter(t, initialized) ==
  LET s == t.entered + 1
      first == t.provider = "unset" IN
  [t EXCEPT !.entered = s, !.open = @ \cup {s},
            !.provider = IF first THEN "set" ELSE @,
            !.guard = IF first /\ initialized THEN s ELSE @,
            !.faulty = @ \/ (first /\ ~initialized)]

\* on_end: a span that ends after the shutdown is dropped.
SpanEnds(t, s) == [t EXCEPT !.spans = IF t.provider = "set" THEN @ \cup {s} ELSE @,
                            !.left = IF 1 \in t.open THEN @ \cup {s} ELSE @]

\* ExitGuard::drop: the tracer's shutdown spawns an export of the spans it has,
\* unless it has none; the meter's spawns one always.
Shutdown(t) ==
  [t EXCEPT !.provider = "shut", !.guard = 0,
            !.exports = @ \cup {Metrics} \cup (IF t.spans = {} THEN {} ELSE {Traces(t.spans)})]

\* A fault: the guard is dropped before the span is.
LeaveGuardFirst(t, s) ==
  LET shut == IF t.guard = s THEN Shutdown(t) ELSE t IN
  [SpanEnds(shut, s) EXCEPT !.open = @ \ {s}]
\* The end of an instrumented function: its span, then its guard if it has it.
Leave(t, s) ==
  LET ended == [SpanEnds(t, s) EXCEPT !.open = @ \ {s}] IN
  IF ended.guard = s THEN Shutdown(ended) ELSE ended

\* A spawned export runs.  The host sends the spans on (tracing_impl.rs), or skips
\* them when it has no resource; an error is logged by the guest and that is all.
Export(t, e, resource, succeeds) ==
  [t EXCEPT !.exports = @ \ {e},
            !.exported = [s \in Scopes |-> IF s \in e.spans /\ succeeds /\ resource
                                           THEN @[s] + 1 ELSE @[s]],
            !.faulty = @ \/ (e # Metrics /\ ~succeeds)]

\* Nothing of the guest runs any more.
Quiet(t) == t.open = {} /\ t.exports = {}
=============================================================================
