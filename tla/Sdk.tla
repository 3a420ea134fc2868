-------------------------------- MODULE Sdk --------------------------------
(***************************************************************************)
(* A request in qwasr-sdk: the builder that configures it (api.rs,         *)
(* api/request.rs), the reply or the error of its handler (api/reply.rs,   *)
(* error.rs), and the HTTP response either becomes (api/into_http.rs).     *)
(*                                                                         *)
(* A description is the list of its parts: the contexts an error collected *)
(* and, last, what it was about.  Parts are opaque.                        *)
(***************************************************************************)
EXTENDS Naturals, Sequences, SequencesExt

CONSTANTS
  None,         \* a part of the builder that was not set, an empty map of headers, a
                \* body that cannot be encoded
  ContentType,  \* the name of that header
  PlainText     \* its default value

-----------------------------------------------------------------------------
(* The builder: each setter but headers moves to a type without it.          *)

NewHandler == [request |-> None, owner |-> None, provider |-> None, headers |-> None]
\* Client: owner and provider are set, headers are not.
FromClient(client, request) ==
  [NewHandler EXCEPT !.request = request, !.owner = client.owner, !.provider = client.provider]
MaySet(b, part) == part = "headers" \/ b[part] = None
WithPart(b, part, value) == [b EXCEPT ![part] = value]
MayHandle(b) == b.request # None /\ b.owner # None /\ b.provider # None
\* What the handler is given along with the request.
Context(b) == [owner |-> b.owner, provider |-> b.provider, headers |-> b.headers]

-----------------------------------------------------------------------------
(* Errors.                                                                   *)

Variants == {"BadRequest", "NotFound", "ServerError", "BadGateway"}
Status(variant) ==
  CASE variant = "BadRequest" -> 400 [] variant = "NotFound" -> 404
    [] variant = "ServerError" -> 500 [] variant = "BadGateway" -> 502

Domain(variant, code, description) ==
  [is |-> "domain", variant |-> variant, code |-> code, description |-> description]
Json(text) == [is |-> "json", description |-> <<text>>]
\* An error with contexts, the outermost first: anyhow::Error.
Wrapped(e, contexts) == [is |-> "anyhow", contexts |-> contexts, root |-> e]
\* An error of any other kind: anyhow!(..).
Foreign(text) == Wrapped([is |-> "foreign", description |-> <<text>>], <<>>)

\* Display: a domain error shows its code as well.
Shown(e) == IF e.is = "domain" THEN <<e.code>> \o e.description ELSE e.description

\* .context(c) on any of them.
AddContext(e, c) ==
  IF e.is = "anyhow" THEN [e EXCEPT !.contexts = <<c>> \o @] ELSE Wrapped(e, <<c>>)

\* A fault: only an error without context is recognised.
FromAnyhowBare(e) ==
  LET chain == e.contexts \o Shown(e.root) IN
  IF e.root.is = "domain" /\ e.contexts = <<>>
    THEN Domain(e.root.variant, e.root.code, chain)
    ELSE Domain("ServerError", "server_error", chain)
\* From<anyhow::Error>: the variant and the code of the error inside, if it is one.
FromAnyhow(e) ==
  LET chain == e.contexts \o Shown(e.root) IN
  IF e.root.is = "domain"
    THEN Domain(e.root.variant, e.root.code, chain)
    ELSE Domain("ServerError", "server_error", chain)
\* From<serde_json::Error>.
FromJson(e) == Domain("BadRequest", "serde_json", e.description)

\* The ? of a function whose error is the domain's.
Question(e) ==
  CASE e.is = "domain" -> e
    [] e.is = "json" -> FromJson(e)
    [] e.is = "anyhow" -> FromAnyhow(e)

-----------------------------------------------------------------------------
(* Responses.                                                                *)

Plain == {[name |-> ContentType, value |-> PlainText]}

\* HttpError, of a domain error and of an anyhow::Error: the latter shows its
\* outermost context and the error at the bottom.
HttpError(e) ==
  CASE e.is = "domain" -> [status |-> Status(e.variant), headers |-> Plain, text |-> Shown(e)]
    [] e.is = "anyhow" ->
         [status |-> IF e.root.is = "domain" THEN Status(e.root.variant) ELSE 500,
          headers |-> Plain,
          text |-> <<Head(e.contexts \o Shown(e.root))>> \o Shown(e.root)]

\* Reply::ok, created, accepted, status, headers, From<B>.
Reply(status, headers, body) == [status |-> status, headers |-> headers, body |-> body]
\* IntoResponse for Reply.
Respond(reply) ==
  IF reply.body = None THEN [status |-> 500, headers |-> Plain, text |-> <<"body encoding error">>]
  ELSE [status |-> reply.status, text |-> <<reply.body>>,
        headers |-> reply.headers \cup
                    (IF \E h \in reply.headers : h.name = ContentType THEN {} ELSE Plain)]
=============================================================================
