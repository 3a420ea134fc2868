------------------------------ MODULE Outgoing ------------------------------
(***************************************************************************)
(* The default backend of wasi-http for a guest's own requests             *)
(* (wasi-http/src/host/default_impl.rs, send_request): what goes upstream, *)
(* what comes back, and which error the guest gets.  Headers are sequences *)
(* of names and values; a certificate is good or fails in one of two ways. *)
(***************************************************************************)
EXTENDS Sequences, SequencesExt, Functions

CONSTANTS
  None,       \* no certificate; no header of that name
  Host, ClientCert,
  Forbidden,  \* the names wasmtime-wasi-http refuses in a response
  Names       \* all names

ForbiddenHeaders == Forbidden \cup {Host}

\* Some of the headers are left, at the places they had.
Without(headers, names) == RestrictValues(headers, LAMBDA h : h.name \notin names)

\* What is left of the headers is made the client's defaults, which keep one value
\* of each name, the last.
Upstream(headers) ==
  LET last(n) == SelectLastInSeq(headers, LAMBDA h : h.name = n) IN
  [n \in Names |-> IF n \in {Host, ClientCert} \/ last(n) = 0 THEN None ELSE headers[last(n)].value]

\* The first Client-Cert header, and what is wrong with it.
Certificate(headers) ==
  LET first == SelectInSeq(headers, LAMBDA h : h.name = ClientCert) IN
  IF first = 0 THEN None ELSE headers[first].value

Internal == "InternalError"
\* reqwest_error, by the first question that is answered with yes.
ReqwestError(is) ==
  CASE "timeout" \in is -> "ConnectionTimeout"
    [] "timeout" \notin is /\ "connect" \in is -> "ConnectionRefused"
    [] is \cap {"timeout", "connect"} = {} /\ "request" \in is -> "HttpRequestUriInvalid"
    [] OTHER -> Internal

Failed(e) == [ok |-> FALSE, error |-> e]
\* send_request: the body is collected, the certificate read and the client built
\* before anything is sent; upstream answers or the request fails in some way.
SendRequest(req, upstream) ==
  LET cert == Certificate(req.headers) IN
  IF ~req.collected \/ cert \in {"not text", "not base64", "not pem"} THEN Failed(Internal)
  ELSE IF ~upstream.ok THEN Failed(ReqwestError(upstream.is))
  ELSE [ok |-> TRUE, identity |-> cert, sent |-> Upstream(req.headers),
        headers |-> Without(upstream.headers, ForbiddenHeaders)]
=============================================================================
