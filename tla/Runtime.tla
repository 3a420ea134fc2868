------------------------------- MODULE Runtime -------------------------------
(***************************************************************************)
(* The life of the process a deployment runs: what runtime! generates      *)
(* (runtime-macro/src/expand.rs: run, Context::new, start) from the        *)
(* configured hosts, over qwasr/src/create.rs and otel/src/init.rs.        *)
(*                                                                         *)
(* Telemetry is set up, the component loaded, every host linked, the       *)
(* component pre-instantiated, every backend connected, and then every     *)
(* host's server run until one of them fails.  Each of these may fail, and *)
(* the first failure is the end.                                           *)
(***************************************************************************)
EXTENDS Integers, FiniteSets

CONSTANTS
  Hosts,        \* the hosts there are
  Deployments,  \* the sets of hosts that are configured together
  Listening,    \* those whose server really serves; the others keep the default run
  BackendOf     \* BackendOf[h]: the backend configured for host h

VARIABLES
  stage,      \* how far run() has come
  hosts,      \* the hosts of this deployment
  resource,   \* RESOURCE is set
  linked,     \* the hosts whose interfaces are in the linker
  connected,  \* the backends that are connected: the fields of Context
  server,     \* server[h]: what has become of h's run
  outcome     \* what run() returned

processVars == <<stage, hosts, resource, linked, connected, server, outcome>>

Stages == {"telemetry", "component", "linking", "connecting", "serving", "ended"}
Used == {BackendOf[h] : h \in hosts}

RuntimeInit ==
  /\ stage = "telemetry"
  /\ hosts \in Deployments
  /\ resource = FALSE
  /\ linked = {} /\ connected = {}
  /\ server = [h \in Hosts |-> "down"]
  /\ outcome = "none"

End(result) ==
  /\ stage' = "ended"
  /\ outcome' = result
  /\ UNCHANGED <<hosts, resource, linked, connected, server>>

\* Telemetry::build: the resource first.
SetResource ==
  /\ stage = "telemetry" /\ ~resource
  /\ resource' = TRUE
  /\ UNCHANGED <<stage, hosts, linked, connected, server, outcome>>

\* Exporters, layers and the global subscriber: init_env is done.
BuildTelemetry ==
  /\ stage = "telemetry" /\ resource
  /\ stage' = "component"
  /\ UNCHANGED <<hosts, resource, linked, connected, server, outcome>>

\* create: the component is deserialized or, with jit, compiled; the linker has WASI.
Create ==
  /\ stage = "component"
  /\ stage' = "linking"
  /\ UNCHANGED <<hosts, resource, linked, connected, server, outcome>>

Link(h) ==
  /\ stage = "linking"
  /\ h \in hosts \ linked
  /\ linked' = linked \cup {h}
  /\ UNCHANGED <<stage, hosts, resource, connected, server, outcome>>

\* Every import of the component has to be in the linker by now.
PreInstantiate ==
  /\ stage = "linking" /\ linked = hosts
  /\ stage' = "connecting"
  /\ UNCHANGED <<hosts, resource, linked, connected, server, outcome>>

\* One field of Context: hosts of one backend share its connection.
Connect(b) ==
  /\ stage = "connecting"
  /\ b \in Used \ connected
  /\ connected' = connected \cup {b}
  /\ UNCHANGED <<stage, hosts, resource, linked, server, outcome>>

\* start: all servers begin together, and the default run has returned already.
\* (A port that is taken is a ServerFails that comes at once.)
Start ==
  /\ stage = "connecting" /\ connected = Used
  /\ stage' = "serving"
  /\ server' = [h \in Hosts |-> IF h \notin hosts THEN "down"
                                ELSE IF h \in Listening THEN "up" ELSE "ok"]
  /\ UNCHANGED <<hosts, resource, linked, connected, outcome>>

\* The ? of any of these steps.
StartupFails ==
  /\ stage \in Stages \ {"serving", "ended"}
  /\ End("err")

\* A server gives up: its port is taken, or the accept of a connection fails.
ServerFails(h) ==
  /\ stage = "serving" /\ server[h] = "up"
  /\ server' = [server EXCEPT ![h] = "err"]
  /\ UNCHANGED <<stage, hosts, resource, linked, connected, outcome>>

\* A fault: the servers are joined, and all of them waited for.
JoinedAll == \A h \in hosts : server[h] \in {"ok", "err"}
\* try_join_all: one failure is enough, success takes all of them.
Joined == \/ \E h \in hosts : server[h] = "err"
          \/ \A h \in hosts : server[h] = "ok"

Join ==
  /\ stage = "serving" /\ Joined
  /\ End(IF \E h \in hosts : server[h] = "err" THEN "err" ELSE "ok")

StartUp ==
  \/ SetResource \/ BuildTelemetry \/ Create \/ PreInstantiate \/ Start
  \/ \E h \in Hosts : Link(h)
  \/ \E b \in {BackendOf[h] : h \in Hosts} : Connect(b)

Running == stage = "serving"
=============================================================================
