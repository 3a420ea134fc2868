----------------------------- MODULE Algorithms -----------------------------
(***************************************************************************)
(* The parts of the system that compute without sharing state: header      *)
(* parsing, the conversions of telemetry, SQL values and outgoing          *)
(* requests, the two macros, and a request's way through the SDK.  A       *)
(* behaviour picks one of them and its input; all but the last are one     *)
(* step.                                                                   *)
(***************************************************************************)
EXTENDS CacheControl, SequencesExt, Functions

CONSTANTS
  None, NaN, Half, Sec,                              \* SqlValues, Metrics
  Denotes(_),                                        \* RuntimeMacro
  ContentType, PlainText,                            \* Sdk
  Host, ClientCert, Forbidden, Names,                \* Outgoing
  MaxDirectives, SpanBatches, HostSpans, GuestMetrics, Resources, Parameters,
  RuntimeSettings, Identifiers,                      \* what paths are made of
  GuestSettings, PatternLists, Topics, Letters,
  OutgoingRequests, Upstreams, Settings, Replies,
  Codes, Texts,                                      \* of the errors a handler raises
  Contexts, MaxContexts

V == INSTANCE SqlValues
T == INSTANCE Metrics
R == INSTANCE RuntimeMacro
G == INSTANCE GuestMacro
S == INSTANCE Sdk
O == INSTANCE Outgoing

-----------------------------------------------------------------------------
(* What the inputs are: SDK values as Rust types them, headers as http does. *)

ASSUME NumberAssumption ==
  /\ Half \in Nat \ {0} /\ Sec \in Nat \ {0}
  /\ None \notin Int \cup STRING /\ NaN \notin Int
  /\ None \notin [as: {"u64", "s64", "f64"}, val: Int \cup {NaN}]
  /\ None \notin [seconds: Nat, ticks: Nat]

Number == Int \cup {NaN}
Attribute == [key: STRING, value: [type: DOMAIN T!WitType, array: BOOLEAN, items: Seq(STRING)]]
\* An identifier is whole bytes, each of two digits.
Id == {id \in Seq(0..15) : id # <<>> /\ Len(id) % 2 = 0}
SpanContext == [trace_id: Id, span_id: Id, sampled: BOOLEAN, is_remote: BOOLEAN]
Span ==
  [context: SpanContext, parent_span_id: Id, kind: Range(T!WitKinds), start: Int, end: Int,
   attributes: Seq(Attribute), events: Seq([time: Int, attributes: Seq(Attribute)]),
   links: Seq([context: SpanContext, attributes: Seq(Attribute)]),
   status: [status: {"unset", "ok"}] \cup [status: {"error"}, description: STRING],
   scope: STRING]
Exemplar == [time: Int, value: Number, span_id: Id, attributes: Seq(Attribute)]
Point ==
  [value: Number, sum: Number, min: Number \cup {None}, max: Number \cup {None},
   attributes: Seq(Attribute), exemplars: Seq(Exemplar)]
Metric ==
  [data: {"gauge", "sum", "histogram", "exponential"}, start: Nat \cup {None}, time: Nat,
   temporality: {"delta", "cumulative", "low_memory"}, points: Seq(Point)]

ASSUME TelemetryAssumption ==
  /\ SpanBatches \subseteq Seq(Span) /\ HostSpans \subseteq [trace_id: Id, span_id: Id]
  /\ GuestMetrics \subseteq Metric
  /\ Resources \subseteq [attributes: Seq(Attribute), schema_url: STRING \cup {None}]

ASSUME ParameterAssumption ==
  \A p \in Parameters :
    /\ p = V!DataType(p.type, p.val) /\ V!WellTyped(p)
    /\ p.type = "boolean" => p.val \in BOOLEAN \cup {None}

\* A path is identifiers, at least one.
Deployable(hosts) ==
  /\ hosts \in Seq(Range(hosts))
  /\ \A j \in DOMAIN hosts : hosts[j].backend \in Seq(Identifiers) /\ hosts[j].backend # <<>>

ASSUME RuntimeAssumption ==
  /\ None \notin Identifiers
  /\ \A s \in RuntimeSettings :
       /\ s \in Seq(Range(s))
       /\ \A i \in DOMAIN s : "hosts" \in DOMAIN s[i] => Deployable(s[i].hosts)

ASSUME GuestAssumption ==
  /\ \A s \in GuestSettings :
       /\ s \in Seq(Range(s))
       /\ \A i \in DOMAIN s : s[i].name = "http" =>
            \A j \in DOMAIN s[i].value : /\ s[i].value[j].method \in {"get", "post"}
                                         /\ s[i].value[j].with \in {"none", "query", "body"}
  /\ Topics \subseteq Seq(Letters) /\ PatternLists \subseteq Seq(Topics)

CertificateValues == {"good", "not text", "not base64", "not pem"}
ASSUME OutgoingAssumption ==
  /\ {Host, ClientCert} \subseteq Names /\ None \notin CertificateValues
  /\ \A r \in OutgoingRequests :
       /\ r.headers \in Seq([name: Names, value: STRING]) /\ r.collected \in BOOLEAN
       /\ \A i \in DOMAIN r.headers :
            r.headers[i].name = ClientCert => r.headers[i].value \in CertificateValues

ASSUME SdkAssumption ==
  /\ Contexts \cap (Codes \cup Texts \cup {"server_error", "serde_json"}) = {}
  /\ \A r \in Replies : r = S!Reply(r.status, r.headers, r.body)

-----------------------------------------------------------------------------
VARIABLES
  given,   \* the algorithm and its input
  result   \* what it made of it

avars == <<given, result>>

Unstarted == given = [algorithm |-> "none"]
AInit == Unstarted /\ result = None

Run(algorithm, input, output) ==
  /\ given' = [algorithm |-> algorithm, in |-> input]
  /\ result' = output

ParseHeaders ==
  \E header \in UNION {[1..n -> Directives] : n \in 0..MaxDirectives}, etag \in EtagShapes :
    Run("headers", [header |-> header, etag |-> etag], Parse(header, etag))
ExportSpans ==
  \E spans \in SpanBatches, host \in HostSpans :
    Run("spans", [spans |-> spans, host |-> host], T!ExportTraces(spans, host))
ExportMetrics == \E m \in GuestMetrics : Run("metric", m, T!ExportMetric(m))
ShareResource ==
  \E r \in Resources :
    Run("resource", r, T!ResourceToOtlp(T!ResourceToWit(T!ResourceToGuest(r))))
StoreParameter == \E p \in Parameters : Run("parameter", p, V!FromSql(V!ToSql(p)))
SendOut ==
  \E request \in OutgoingRequests, upstream \in Upstreams :
    Run("outgoing", [request |-> request, upstream |-> upstream], O!SendRequest(request, upstream))
ExpandRuntime == \E s \in RuntimeSettings : Run("runtime", s, R!Expand(s))
ExpandGuest == \E s \in GuestSettings : Run("guest", s, G!Config(s))
MatchTopic == \E ps \in PatternLists : Run("topics", ps, [t \in Topics |-> G!Arm(ps, t)])

-----------------------------------------------------------------------------
(* A request's way through the SDK.  given keeps what was asked for, result  *)
(* how far it has come.                                                      *)

Errors ==
  [is: {"domain"}, variant: S!Variants, code: Codes, description: {<<t>> : t \in Texts}]
  \cup {S!Json(t) : t \in Texts} \cup {S!Foreign(t) : t \in Texts}

At(stage) == given.algorithm = "sdk" /\ result.stage = stage

NewRequest ==
  \E b \in {S!NewHandler, S!FromClient([owner |-> "o1", provider |-> "p1"], "r1")} :
    /\ given' = [algorithm |-> "sdk", set |-> b, raised |-> None, contexts |-> <<>>,
                 since |-> 0, bare |-> FALSE]
    /\ result' = [stage |-> "build", value |-> b]

SetPart ==
  /\ At("build")
  /\ \E s \in Settings :
       /\ S!MaySet(result.value, s.part)
       /\ result' = [result EXCEPT !.value = S!WithPart(@, s.part, s.value)]
       /\ given' = [given EXCEPT !.set[s.part] = s.value]

\* The handler runs, and replies or raises an error.
Handle ==
  /\ At("build") /\ S!MayHandle(result.value)
  /\ LET context == S!Context(result.value) IN
     \/ \E r \in Replies : /\ given' = [given EXCEPT !.raised = r]
                           /\ result' = [stage |-> "reply", value |-> r, context |-> context]
     \/ \E e \in Errors : /\ given' = [given EXCEPT !.raised = e]
                          /\ result' = [stage |-> "error", value |-> e, context |-> context]

\* On its way out of the handler an error is given contexts, and ? converts it.
Wrap ==
  /\ At("error") /\ Len(given.contexts) < MaxContexts
  /\ \E c \in Contexts : given' = [given EXCEPT !.contexts = Append(@, c), !.since = @ + 1]
  /\ result' = [result EXCEPT !.value = S!AddContext(@, Last(given'.contexts))]
Ask ==
  /\ At("error") /\ result.value.is # "domain"
  /\ result' = [result EXCEPT !.value = S!Question(@)]
  /\ given' = [given EXCEPT !.since = 0, !.bare = @ \/ given.contexts = <<>>]

Respond ==
  /\ \/ At("reply") /\ result' = [result EXCEPT !.stage = "response", !.value = S!Respond(@)]
     \/ /\ At("error") /\ result.value.is # "json"
        /\ result' = [result EXCEPT !.stage = "response", !.value = S!HttpError(@)]
  /\ UNCHANGED given

ANext ==
  \/ /\ Unstarted
     /\ \/ ParseHeaders \/ ExportSpans \/ ExportMetrics \/ ShareResource \/ StoreParameter
        \/ SendOut \/ ExpandRuntime \/ ExpandGuest \/ MatchTopic \/ NewRequest
  \/ SetPart \/ Handle \/ Wrap \/ Ask \/ Respond

ASpec == AInit /\ [][ANext]_avars

Ran(algorithm) == given.algorithm = algorithm

-----------------------------------------------------------------------------
(* Headers.                                                                  *)

\* However its directives are ordered and repeated, a Cache-Control header is read
\* as the documents say, the last max-age counting, and refused where they refuse it
\* (cache.rs:126-199); what the code takes beyond them it may not label.
HeadersReadAsAsked == Ran("headers") => ReadAsAsked(given.in.header, given.in.etag, result)

-----------------------------------------------------------------------------
(* Conversions.                                                              *)

\* An attribute is the same on both sides; each item has the OTLP name of its type.
OtlpName == [bool |-> "bool", i64 |-> "int", f64 |-> "double", string |-> "string"]
SameAttributes(sent, came) ==
  /\ Len(came) = Len(sent)
  /\ \A i \in DOMAIN sent :
       LET v == sent[i].value  w == came[i].value IN
       /\ came[i].key = sent[i].key /\ w.array = v.array
       /\ w.items = [j \in DOMAIN v.items |-> [type |-> OtlpName[v.type], item |-> v.items[j]]]

\* An identifier that does not begin with a zero gets through (tracing.wit:59 and 64
\* promise all of its bytes).
SameId(sent, came) == sent[1] # 0 => came = sent
SameFlags(sent, came) == came.flags = IF sent.sampled THEN 1 ELSE 0
\* An instant gets through unless it is before the epoch.
SameInstant(sent, came) == sent >= 0 => came = sent

SameLink(sent, came) ==
  /\ SameId(sent.context.trace_id, came.context.trace_id)
  /\ SameId(sent.context.span_id, came.context.span_id)
  /\ SameFlags(sent.context, came.context) /\ SameAttributes(sent.attributes, came.attributes)
SameEvent(sent, came) ==
  SameInstant(sent.time, came.time) /\ SameAttributes(sent.attributes, came.attributes)
SameStatus(sent, came) ==
  CASE sent.status = "unset" -> came = [code |-> 0, message |-> None]
    [] sent.status = "ok" -> came = [code |-> 1, message |-> None]
    [] sent.status = "error" -> came = [code |-> 2, message |-> sent.description]

\* A span joins the host's trace under the host's span, with all it had but its kind.
SameSpan(sent, came, host) ==
  /\ came.context.trace_id = host.trace_id /\ came.parent_span_id = host.span_id
  /\ SameId(sent.context.span_id, came.context.span_id) /\ SameFlags(sent.context, came.context)
  /\ SameInstant(sent.start, came.start) /\ SameInstant(sent.end, came.end)
  /\ SameAttributes(sent.attributes, came.attributes) /\ SameStatus(sent.status, came.status)
  /\ Len(came.links) = Len(sent.links) /\ Len(came.events) = Len(sent.events)
  /\ \A i \in DOMAIN sent.links : SameLink(sent.links[i], came.links[i])
  /\ \A i \in DOMAIN sent.events : SameEvent(sent.events[i], came.events[i])

\* Every span arrives once, in its place under the scope it was made in, and spans of
\* two kinds do not become spans of one (the number a kind has is another's in OTLP).
SpansArrive(spans, host, request) ==
  /\ DOMAIN request = {spans[i].scope : i \in DOMAIN spans}
  /\ \A c \in DOMAIN request :
       /\ DOMAIN request[c] = {i \in DOMAIN spans : spans[i].scope = c}
       /\ \A i \in DOMAIN request[c] : SameSpan(spans[i], request[c][i], host)
       /\ \A i, j \in DOMAIN request[c] :
            request[c][i].kind = request[c][j].kind <=> spans[i].kind = spans[j].kind

\* A number that is whole or beyond the integers arrives; a fraction is at most cut
\* off (metrics.wit:294 has f64 for it).  OTLP has no integers beyond i64, so a u64
\* there is left out.
Beyond(h) == h = NaN \/ h >= 4 * Half \/ h < -2 * Half
Near(h, n) == IF Beyond(h) \/ h % 2 = 0 THEN n = h ELSE n \in (h - 1)..(h + 1)
Halves(n) == IF n.as = "int" THEN 2 * n.val ELSE n.val
SameNumber(h, n) == Beyond(h) \/ h < 2 * Half => Near(h, Halves(n))
\* The sum, the minimum and the maximum of a histogram are doubles.
SameDouble(h, d) == IF h = None THEN d = None ELSE Near(h, d)

\* An exemplar arrives but for its span (metrics.wit:282), read as text and not as bytes.
SameExemplar(sent, came) ==
  /\ SameInstant(sent.time, came.time) /\ SameNumber(sent.value, came.value)
  /\ SameAttributes(sent.attributes, came.attributes)
SamePoint(m, sent, came) ==
  /\ came.time = m.time /\ came.start = IF m.start = None THEN 0 ELSE m.start
  /\ IF m.data \in {"gauge", "sum"} THEN SameNumber(sent.value, came.value)
     ELSE \A f \in {"sum", "min", "max"} : SameDouble(sent[f], came[f])
  /\ SameAttributes(sent.attributes, came.attributes)
  /\ Len(came.exemplars) = Len(sent.exemplars)
  /\ \A j \in DOMAIN sent.exemplars : SameExemplar(sent.exemplars[j], came.exemplars[j])
\* The points of a metric arrive with the times and the temporality of their
\* aggregation; OTLP has no word for low memory.
MetricArrives(m, came) ==
  /\ came.data = m.data
  /\ m.data # "gauge" /\ m.temporality # "low_memory" => came.temporality = m.temporality
  /\ Len(came.points) = Len(m.points)
  /\ \A i \in DOMAIN m.points : SamePoint(m, m.points[i], came.points[i])

\* The host's resource comes back from the guest, its schema as one attribute more.
ResourceArrives(r, came) ==
  /\ SameAttributes(r.attributes, Front(came))
  /\ Last(came) = [key |-> "schema_url", value |-> r.schema_url]

\* A request with nothing wrong is answered.  Upstream gets the last value of every
\* header but two, and the certificate only as an identity; nothing is sent under a
\* certificate that is no good.  The guest gets what it is allowed to see.
OutgoingArrives(request, upstream, answer) ==
  LET sent == request.headers IN
  /\ (/\ request.collected /\ upstream.ok
      /\ \A i \in DOMAIN sent : sent[i].name = ClientCert => sent[i].value = "good") => answer.ok
  /\ answer.ok =>
       /\ answer.sent[Host] = None /\ answer.sent[ClientCert] = None
       /\ \A i \in DOMAIN sent :
            sent[i].name \notin {Host, ClientCert} =>
              \E j \in i..Len(sent) :
                sent[j].name = sent[i].name /\ answer.sent[sent[i].name] = sent[j].value
       /\ answer.identity \in {None, "good"}
       /\ answer.identity = None <=> \A i \in DOMAIN sent : sent[i].name # ClientCert
       /\ \A i \in DOMAIN answer.headers : answer.headers[i].name \notin Forbidden
       /\ \A i \in DOMAIN upstream.headers :
            upstream.headers[i].name \notin Forbidden \cup {Host} =>
              i \in DOMAIN answer.headers /\ answer.headers[i] = upstream.headers[i]

\* A parameter that survives reads the same as JSON when it comes back.
ParameterArrives(p, came) == V!Survives(p) => V!Json(came) = V!Json(p)

\* What leaves one side arrives at the other, but for the losses named above: spans
\* (tracing_impl.rs:51-111), metrics (guest/metrics.rs:241-252, metrics_impl.rs:185-338),
\* the resource (metrics_impl.rs:74-90), SQL parameters (default_impl.rs:161-188 of
\* wasi-sql) and outgoing requests (default_impl.rs:72-119 of wasi-http).
DataArrives ==
  /\ Ran("spans") => SpansArrive(given.in.spans, given.in.host, result)
  /\ Ran("metric") => MetricArrives(given.in, result)
  /\ Ran("resource") => ResourceArrives(given.in, result)
  /\ Ran("parameter") => ParameterArrives(given.in, result)
  /\ Ran("outgoing") => OutgoingArrives(given.in.request, given.in.upstream, result)

-----------------------------------------------------------------------------
(* Macros.                                                                   *)

\* Every backend by its own name, and hosts with modules of their own.  (Of those named
\* through a module the parser keeps the first, runtime.rs:40.)
PlainlyNamed(hosts) ==
  /\ \A i \in DOMAIN hosts : Len(hosts[i].backend) = 1
  /\ R!NoTwo(hosts, LAMBDA h : R!WasiIdent(h.type_))

\* A list of plainly named hosts compiles, connects each backend once and gives each
\* host its own.
RuntimeIsFaithful(hosts, x) ==
  PlainlyNamed(hosts) =>
    /\ R!Compiles(x)
    /\ \A i \in DOMAIN hosts : \E k \in DOMAIN x.context :
         /\ {j \in DOMAIN x.context : x.context[j].path = hosts[i].backend} = {k}
         /\ x.store[i].from = x.context[k].field
    /\ \A k \in DOMAIN x.context : \E i \in DOMAIN hosts : hosts[i].backend = x.context[k].path

\* In a guest that compiles, a body goes to the handler that asks for one, parameters to
\* a get, and so does a query that has no parameters beside it.  (A post is given none
\* of its path's, where guest-macro/README.md:73 has them extracted.)
GuestIsFaithful(config) ==
  config.ok /\ G!Compiles(config) =>
    \A i \in DOMAIN config.http :
      LET r == config.http[i]
          params == G!Params(r.path) IN
      /\ r.with = "body" => G!Input(r) = [kind |-> "body"]
      /\ r.with = "query" /\ params = <<>> => G!Input(r) = [kind |-> "query"]
      /\ r.method = "get" /\ params # <<>> => G!Input(r) = [kind |-> "params", names |-> params]

\* A topic goes to the handler named after it, unless it holds the name of an earlier one
\* (guest-macro/README.md:87 has topics matched by name, messaging.rs:87 by contents).
TopicsAreReached(patterns, arms) ==
  \A i \in DOMAIN patterns :
    (\A j \in 1..(i - 1) : ~G!HasText(patterns[i], patterns[j])) => arms[patterns[i]] = i

\* The macros expand to what they were given (runtime-macro/src/expand.rs:140-245,
\* guest-macro/src/http.rs:142-285, guest-macro/src/messaging.rs:82-108).
ExpansionsAreFaithful ==
  /\ Ran("runtime") => RuntimeIsFaithful(R!Parsed(given.in).hosts, result)
  /\ Ran("guest") => GuestIsFaithful(result)
  /\ Ran("topics") => TopicsAreReached(given.in, result)

-----------------------------------------------------------------------------
(* Requests.                                                                 *)

\* The contexts in a text are these, in this order.
Shows(text, contexts) ==
  \E at \in [DOMAIN contexts -> DOMAIN text] :
    /\ \A i, j \in DOMAIN contexts : i < j => at[i] < at[j]
    /\ {at[i] : i \in DOMAIN contexts} = {j \in DOMAIN text : text[j] \in Contexts}
    /\ \A i \in DOMAIN contexts : text[at[i]] = contexts[i]

\* The contexts a response shows: all that were there at the last ?, and the newest of
\* those that came after it.
ContextsShown ==
  LET n == Len(given.contexts)
      before == SubSeq(given.contexts, 1, n - given.since) IN
  (IF given.since = 0 THEN <<>> ELSE <<Last(given.contexts)>>) \o Reverse(before)

\* The status of the error that was raised: JSON is the client's fault only if ?
\* met it before a context did.
StatusOf(e) ==
  CASE e.is = "domain" -> S!Status(e.variant)
    [] e.is = "json" -> IF given.bare THEN 400 ELSE 500
    [] e.is = "anyhow" -> 500

\* However often an error is wrapped and converted on its way out, its response has
\* the status it was raised with and the contexts in their order, and a reply that
\* can be encoded goes out as it is (error.rs:88-131, into_http.rs:28-75); the
\* handler was given what was set last, in whichever order (request.rs:163-307).
AnsweredAsDecided ==
  (Ran("sdk") /\ result.stage # "build") =>
    /\ result.context = S!Context(given.set)
    /\ result.stage = "response" =>
         LET r == given.raised IN
         IF "is" \in DOMAIN r
           THEN /\ result.value.status = StatusOf(r)
                /\ Shows(result.value.text, ContextsShown)
           ELSE /\ r.body # None => result.value.status = r.status /\ r.headers \subseteq result.value.headers
                /\ r.body = None => result.value.status = 500
                /\ \E h \in result.value.headers : h.name = ContentType
=============================================================================
