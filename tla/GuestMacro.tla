----------------------------- MODULE GuestMacro -----------------------------
(***************************************************************************)
(* The guest macro (guest-macro): from the routes and topics a guest lists *)
(* to the functions that handle them, with what each is given.             *)
(*                                                                         *)
(* A route's path is the sequence of its segments, and a segment the words *)
(* that dashes, dots or underscores divide, in small letters, with or      *)
(* without braces around them; a topic is given a name as a path is.  What *)
(* is matched, a topic and a pattern, is a sequence of letters.            *)
(***************************************************************************)
EXTENDS Naturals, Sequences, SequencesExt, FiniteSets

-----------------------------------------------------------------------------
(* The parser.                                                               *)

\* Config: a second owner or provider is an error, a missing one too; of several
\* lists of routes, or of topics, the last one counts.
Config(settings) ==
  LET once(n) == Cardinality({i \in DOMAIN settings : settings[i].name = n}) = 1
      last(n) == SelectLastInSeq(settings, LAMBDA s : s.name = n)
      final(n) == IF last(n) = 0 THEN <<>> ELSE settings[last(n)].value IN
  [ok |-> once("owner") /\ once("provider"),
   http |-> final("http"), messaging |-> final("messaging")]

\* Handler: get takes no body, post no query.
Accepted(route) == ~(route.method = "get" /\ route.with = "body")
                   /\ ~(route.method = "post" /\ route.with = "query")

\* extract_params: the segments in braces, in order.
Params(path) == SelectSeq(path, LAMBDA s : s.braces)

\* handler_name: slashes, dashes and dots become underscores and braces go.
HandlerName(path) == FlattenSeq([i \in DOMAIN path |-> path[i].words])

-----------------------------------------------------------------------------
(* The generated functions.                                                  *)

\* expand_get_args and _input, expand_post_args and _input: what a function takes
\* from the request is what it hands to the request type.
Input(route) ==
  CASE route.method = "get" /\ Params(route.path) # <<>> ->
         [kind |-> "params", names |-> Params(route.path)]
    [] route.method = "get" /\ Params(route.path) = <<>> /\ route.with = "query" -> [kind |-> "query"]
    [] route.method = "post" /\ route.with = "body" -> [kind |-> "body"]
    [] OTHER -> [kind |-> "nothing"]

\* rustc: function names are identifiers, and each is defined once; so are the
\* parameters of a function, where a dash or a dot makes no identifier.
CompilesHttp(routes) ==
  /\ \A i \in DOMAIN routes :
       LET r == routes[i] IN
       /\ Accepted(r)
       /\ HandlerName(r.path) # <<>>
       /\ \A s \in {Params(r.path)[j] : j \in DOMAIN Params(r.path)} :
            s.words # <<>> /\ s.sep \notin {"-", "."}
       /\ r.method = "get" =>
            \A j, k \in DOMAIN Params(r.path) : Params(r.path)[j] = Params(r.path)[k] => j = k
  /\ \A i, j \in DOMAIN routes :
       HandlerName(routes[i].path) = HandlerName(routes[j].path) => i = j

\* A module of its own holds the functions of the topics, named as those of paths are.
CompilesMessaging(topics) ==
  /\ \A i \in DOMAIN topics : HandlerName(topics[i].pattern) # <<>>
  /\ \A i, j \in DOMAIN topics :
       HandlerName(topics[i].pattern) = HandlerName(topics[j].pattern) => i = j

Compiles(config) == CompilesHttp(config.http) /\ CompilesMessaging(config.messaging)

-----------------------------------------------------------------------------
(* Topics.                                                                   *)

HasText(topic, pattern) ==
  \E i \in 0..(Len(topic) - Len(pattern)) : SubSeq(topic, i + 1, i + Len(pattern)) = pattern

\* The match of the generated handle: the first arm that matches; 0 is the error
\* for a topic nobody handles.
Arm(patterns, topic) == SelectInSeq(patterns, LAMBDA p : HasText(topic, p))
=============================================================================
