---------------------------- MODULE MCAlgorithms ----------------------------
(* Inputs: headers of up to four directives, batches of up to two spans, one *)
(* metric or parameter at a time, up to three hosts, routes and patterns.    *)
EXTENDS Algorithms, TLC

CONSTANTS h1, h2, c1, c2

UpTo(n, set) == UNION {[1..k -> set] : k \in 0..n}

MCAges == {0, 5, 60}
MCEtags == {"e1"}

\* A value of each type, and an array.
MCValues == {[type |-> t, array |-> x, items |-> <<"i1">>] : t \in {"bool", "i64", "f64", "string"}, x \in BOOLEAN}
MCAttributes == {<<>>} \cup {<<[key |-> "k1", value |-> v]>> : v \in MCValues}
MCAttribute == <<[key |-> "k1", value |-> [type |-> "i64", array |-> FALSE, items |-> <<"i1">>]]>>

\* Identifiers of two bytes.
MCIds == {<<a, b, c, d>> : a, b, c, d \in {0, 1, 3}} \ {<<0, 0, 0, 0>>}
ContextOf(id) == [trace_id |-> <<1, 2, 3, 4>>, span_id |-> id, sampled |-> TRUE, is_remote |-> FALSE]
BaseSpan ==
  [context |-> ContextOf(<<1, 2, 3, 4>>), parent_span_id |-> <<0, 0, 0, 0>>, kind |-> "internal",
   start |-> 3, end |-> 5, attributes |-> MCAttribute, events |-> <<>>, links |-> <<>>,
   status |-> [status |-> "unset"], scope |-> "s1"]
Spans ==
  {[BaseSpan EXCEPT !.context = ContextOf(i)] : i \in MCIds}
  \cup {[BaseSpan EXCEPT !.kind = k] : k \in {"client", "server", "producer", "consumer"}}
  \cup {[BaseSpan EXCEPT !.start = t, !.scope = "s2"] : t \in {-3, -1, 0, 4}}
  \cup {[BaseSpan EXCEPT !.attributes = a] : a \in MCAttributes}
  \cup {[BaseSpan EXCEPT !.events = <<[time |-> t, attributes |-> a]>>] : t \in {-1, 4}, a \in MCAttributes}
  \cup {[BaseSpan EXCEPT !.context.sampled = FALSE]}
  \cup {[BaseSpan EXCEPT !.links = <<[context |-> ContextOf(i), attributes |-> MCAttribute]>>] : i \in MCIds}
  \cup {[BaseSpan EXCEPT !.status = s] :
          s \in {[status |-> "ok"], [status |-> "error", description |-> "d1"]}}
MCBatches == {<<s>> : s \in Spans} \cup
  {<<s, u>> : s \in {x \in Spans : x.links = <<>>}, u \in {BaseSpan, [BaseSpan EXCEPT !.scope = "s2"]}}
\* The host's span; without one both identifiers are zero.
MCHosts == {[trace_id |-> <<0, 3, 0, 1>>, span_id |-> <<0, 1, 1, 1>>],
            [trace_id |-> <<0, 0, 0, 0>>, span_id |-> <<0, 0, 0, 0>>]}

\* An i64 runs from -4 to 3: halves on either side of every edge.
MCHalf == 4
Numbers == (-12)..20 \cup {NaN}
MCPoint(n, o, id) ==
  [value |-> n, sum |-> n, min |-> o, max |-> n, attributes |-> MCAttribute,
   exemplars |-> <<[time |-> 1, value |-> n, span_id |-> id, attributes |-> MCAttribute]>>]
MCMetrics ==
  {[data |-> d, start |-> s, time |-> 7, temporality |-> t, points |-> <<MCPoint(n, o, id), MCPoint(2, None, <<3, 1, 3, 1>>)>>] :
     d \in {"sum", "histogram", "exponential"}, s \in {2}, t \in {"delta", "cumulative", "low_memory"},
     n \in Numbers, o \in {None, 3}, id \in {<<0, 1, 3, 1>>, <<3, 3, 3, 1>>}}
  \cup {[data |-> "gauge", start |-> s, time |-> 7, temporality |-> "delta", points |-> <<MCPoint(n, None, <<1, 0, 3, 1>>)>>] :
          s \in {None, 2}, n \in Numbers}

MCResources == {[attributes |-> a, schema_url |-> u] : a \in MCAttributes, u \in {None, "u1"}}

MCParameters ==
  {V!DataType(t, v) : t \in V!Integral, v \in {None, 0, 3}}
  \cup {V!DataType("int64", -4), V!DataType("uint64", 4), V!DataType("uint64", 7)}
  \cup {V!DataType("boolean", v) : v \in {None, TRUE, FALSE}}
  \cup {V!DataType(t, v) : t \in V!Temporal \cup {"float", "double", "str", "binary"}, v \in {None, "x"}}
  \cup {V!DataType(t, V!NotFinite) : t \in {"float", "double"}}

\* Two types, one of them also known through a module; a third of the first's name.
Name1 == <<<<"redis">>>>
Name2 == <<<<"kafka">>, <<"client">>>>
Module1 == <<<<"m">>>>
Module2 == <<<<"n">>>>
MCIdentifiers == {Name1, Name2, Module1, Module2}
MCPaths == {<<Name1>>, <<Name2>>, <<Module1, Name1>>, <<Module2, Name1>>, <<Module1, Name2>>}
MCDenotes(p) == IF Last(p) = Name2 THEN "kafka" ELSE IF p[1] = Module2 THEN "other" ELSE "redis"
MCTypes == {<<<<<<"wasi">>, <<"key">>, <<"value">>>>>>, <<<<<<"wasi">>, <<"key", "value">>>>>>,
            <<<<<<"wasi">>, <<"http">>>>>>, <<Module1, <<<<"wasi">>, <<"otel">>>>>>}
MCRuntimeSettings ==
  {<<[main |-> TRUE], [hosts |-> hs]>> :
     hs \in UpTo(3, [type_ : MCTypes, backend : MCPaths])}
  \cup {<<[hosts |-> <<>>], [hosts |-> <<h>>]>> :
          h \in [type_ : MCTypes, backend : MCPaths]}

Plain(ws, s) == [braces |-> FALSE, words |-> ws, sep |-> s]
Braced(ws, s) == [braces |-> TRUE, words |-> ws, sep |-> s]
Segments == {Plain(<<"a">>, "_"), Plain(<<"a", "b">>, "-"), Plain(<<"b">>, "_"),
             Braced(<<"a">>, "_"), Braced(<<"a", "b">>, "-")}
MCRoutes == {[path |-> p, method |-> m, with |-> w] :
               p \in UpTo(2, Segments), m \in {"get", "post"}, w \in {"none", "query", "body"}}
Named(n) == [name |-> n]
Routes(rs) == [name |-> "http", value |-> rs]
Subscribed(ts) == [name |-> "messaging", value |-> ts]
MCGuestSettings ==
  {<<Named("owner"), Named("provider"), Routes(rs)>> :
     rs \in {<<r>> : r \in MCRoutes}
            \cup {<<r, q>> : r \in MCRoutes, q \in {x \in MCRoutes : Len(x.path) = 1 /\ x.with # "body"}}}
  \cup {<<Routes(<<r>>), Named("owner"), Subscribed(ts), Named("provider")>> :
           r \in MCRoutes, ts \in UpTo(2, [pattern : UpTo(1, Segments)])}
  \cup {<<Named("owner"), Named("owner")>>, <<Routes(<<>>)>>}

MCLetters == {"x", "y"}
MCTopics == UpTo(4, MCLetters)
MCPatternLists == UpTo(3, UpTo(2, MCLetters) \ {<<>>})

Header(n, v) == [name |-> n, value |-> v]
MCNames == {Host, ClientCert, h1, h2, "connection"}
MCForbidden == {Host, "connection"}
MCRequests ==
  {[headers |-> hs, collected |-> b] :
     hs \in UpTo(3, {Header(h1, "a1"), Header(h1, "a2"), Header(Host, "a1"), Header(ClientCert, "good"),
                     Header(ClientCert, "not text"), Header(ClientCert, "not pem")}), b \in BOOLEAN}
MCUpstreams ==
  {[ok |-> TRUE, headers |-> <<Header("connection", "a1"), Header(h2, "a1"), Header(Host, "a2")>>]}
  \cup {[ok |-> FALSE, is |-> i] : i \in SUBSET {"timeout", "connect", "request"}}

MCSettings == {[part |-> "owner", value |-> "o1"], [part |-> "owner", value |-> "o2"],
               [part |-> "provider", value |-> "p1"], [part |-> "request", value |-> "r1"],
               [part |-> "headers", value |-> "m1"], [part |-> "headers", value |-> "m2"]}
MCReplies == {S!Reply(s, hs, b) : s \in {200, 201, 202}, b \in {None, "body"},
                hs \in {{}, {Header(ContentType, "json")}, {Header(h1, "a1")}}}
=============================================================================
