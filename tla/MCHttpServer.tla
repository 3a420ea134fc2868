---------------------------- MODULE MCHttpServer ----------------------------
(* Two clients, two instances and three hosts, two of which listen and two   *)
(* of which share a backend.                                                 *)
EXTENDS HttpServer, TLC

CONSTANTS http, messaging, config, b1, b2, a1

MCBackendOf == http :> b1 @@ messaging :> b2 @@ config :> b1
MCDeployments == {{http, messaging, config}, {config}}
Tuple(n, v) == [name |-> n, value |-> v]
MCRequests ==
  {[forwarded |-> None, host |-> a1], [forwarded |-> None, host |-> None],
   [forwarded |-> <<Tuple("host", a1)>>, host |-> a1],
   [forwarded |-> <<Tuple("host", a1), Tuple("proto", "https")>>, host |-> None]}
=============================================================================
