----------------------------- MODULE HttpServer -----------------------------
(***************************************************************************)
(* The HTTP server (wasi-http/src/host/server.rs) in the running process,  *)
(* with the guest instances it makes and the telemetry they send.          *)
(*                                                                         *)
(* A task serves each connection, one request after the other.  A request  *)
(* gets an instance and a oneshot channel of its own; the instance runs in *)
(* a task of its own, which sends the response and goes on: the body, and  *)
(* whatever the guest has spawned, come after.  So the next request of a   *)
(* connection may be served while the instance of the last one still runs, *)
(* and a client that leaves does not stop the instance it asked for.       *)
(***************************************************************************)
EXTENDS Runtime, GuestTelemetry, Sequences

CONSTANTS
  Http,         \* the host whose server this is
  Connections,  \* connections open at one time
  Instances,    \* instances alive at one time (bound; memory in the code)
  Requests,     \* the headers requests come with
  MaxRequests,  \* bound on the requests of all connections
  MaxTraced,    \* bound on the instances alive that are instrumented
  None          \* no such header

VARIABLES
  conn,   \* conn[c]: the connection's task and its client
  inst,   \* inst[i]: the instance, with the task that runs it
  fate    \* history: fate[n]: how the instance of request n ended up, while its client is there

serverVars == <<conn, inst, fate>>
vars == <<processVars, serverVars>>

Closed == [st |-> "closed"]
\* asked: the requests sent, by number; answers: what the client got for them.
Opened == [st |-> "open", asked |-> <<>>, answers |-> <<>>]
NoInstance == [st |-> "none"]

Init ==
  /\ RuntimeInit
  /\ conn = [c \in Connections |-> Closed]
  /\ inst = [i \in Instances |-> NoInstance]
  /\ fate = <<>>

Up == Running /\ server[Http] = "up"

-----------------------------------------------------------------------------
(* Requests.                                                                 *)

\* The last value of a parameter in a Forwarded header, a sequence of tuples.
Last(tuples, name) ==
  LET at == {k \in DOMAIN tuples : tuples[k].name = name} IN
  IF at = {} THEN None ELSE tuples[CHOOSE k \in at : \A j \in at : j <= k].value

\* fix_request: a URI for the guest.  Behind a proxy the Forwarded header alone
\* says where the request came in; without one Host is required.
Authority(r) == IF r.forwarded # None THEN Last(r.forwarded, "host") ELSE r.host
Scheme(r) == IF r.forwarded # None THEN Last(r.forwarded, "proto") ELSE "http"
\* Both or neither: the builder takes a bare path, but not half an origin.
FixRequest(r) ==
  /\ (Authority(r) = None) = (Scheme(r) = None)
  /\ r.forwarded = None => r.host # None

-----------------------------------------------------------------------------
(* Connections.                                                              *)

Open(c) == conn[c].st # "closed"
\* The request the connection's task is at.
Current(c) == conn[c].asked[Len(conn[c].answers) + 1]
Unanswered(c) == Open(c) /\ Len(conn[c].answers) < Len(conn[c].asked)
Answer(c, kind) ==
  conn' = [conn EXCEPT ![c].st = "open", ![c].answers = Append(@, [to |-> Current(c), kind |-> kind])]

\* The connection's task is over; what becomes of its requests is nobody's business.
Close(c) ==
  /\ conn' = [conn EXCEPT ![c] = Closed]
  /\ fate' = [n \in DOMAIN fate |-> IF \E k \in DOMAIN conn[c].asked : conn[c].asked[k] = n
                                     THEN "gone" ELSE fate[n]]

\* accept, and a task for the connection.
Accept(c) ==
  /\ Up /\ ~Open(c)
  /\ \A d \in Connections : ~Open(d) => c <= d
  /\ conn' = [conn EXCEPT ![c] = Opened]
  /\ UNCHANGED <<processVars, inst, fate>>

\* A client sends a request, before or after the last one was answered.
Ask(c) ==
  /\ Running /\ Open(c)
  /\ Len(fate) < MaxRequests
  /\ conn' = [conn EXCEPT ![c].asked = Append(@, Len(fate) + 1)]
  /\ fate' = Append(fate, "none")
  /\ UNCHANGED <<processVars, inst>>

\* handle: an instance, the channel, the task.
Handle(c) ==
  /\ Running /\ Unanswered(c) /\ conn[c].st = "open"
  /\ \E r \in Requests : FixRequest(r)
  /\ \E i \in Instances :
       /\ inst[i].st = "none"
       /\ \A j \in Instances : inst[j].st = "none" => i <= j
       /\ inst' = [inst EXCEPT ![i] = [st |-> "running", for |-> Current(c), body |-> "none",
                                       telemetry |-> Fresh]]
  /\ conn' = [conn EXCEPT ![c].st = "waiting"]
  /\ UNCHANGED <<processVars, fate>>

\* handle fails before there is a channel: the request cannot be fixed, or there
\* is no instance to be had.
Reject(c) ==
  /\ Running /\ Unanswered(c) /\ conn[c].st = "open"
  /\ (\E r \in Requests : ~FixRequest(r)) \/ (\A i \in Instances : inst[i].st # "none")
  /\ Answer(c, "error")
  /\ UNCHANGED <<processVars, inst, fate>>

\* Whether the connection's task holds the receiver of the instance's channel.
Receiver(c, i) == conn[c].st = "waiting" /\ Current(c) = inst[i].for

\* A fault: handle stops waiting for a guest that is still at work.
SenderTimedOut(c) ==
  /\ Running /\ Open(c) /\ conn[c].st = "waiting"
  /\ Answer(c, "error")
  /\ UNCHANGED <<processVars, inst, fate>>

\* A fault: the senders are kept in one map, cleared when no guest runs.
SenderKept(c) ==
  /\ Running /\ Open(c) /\ conn[c].st = "waiting"
  /\ \A i \in Instances : inst[i].st = "none"
  /\ Answer(c, "error")
  /\ UNCHANGED <<processVars, inst, fate>>

\* The sender is gone and nothing was sent: receiver.await fails, internal_error().
SenderDropped(c) ==
  /\ Running /\ Open(c) /\ conn[c].st = "waiting"
  /\ \A i \in Instances : inst[i].st # "none" => inst[i].for # Current(c)
  /\ Answer(c, "error")
  /\ UNCHANGED <<processVars, inst, fate>>

\* The head has been written; the body follows, and then the next request.  A body
\* that breaks off closes the connection.
BodyEnds(c) ==
  /\ Running /\ Open(c) /\ conn[c].st = "body"
  /\ \/ \E i \in Instances :
          /\ inst[i].st # "none" /\ inst[i].for = Current(c)
          /\ inst[i].body = "streaming"
          /\ inst' = [inst EXCEPT ![i].body = "complete"]
          /\ Answer(c, "guest")
          /\ UNCHANGED fate
     \/ /\ \A i \in Instances : inst[i].st # "none" => inst[i].for # Current(c)
        /\ Close(c)
        /\ UNCHANGED inst
  /\ UNCHANGED processVars

\* The client goes: its task ends, and with it the receiver and the body's reader.
Leaves(c) ==
  /\ Running /\ Open(c)
  /\ Close(c)
  /\ UNCHANGED <<processVars, inst>>

-----------------------------------------------------------------------------
(* Instances.                                                                *)

Alive(i) == Running /\ inst[i].st # "none"
Tell(i, t) == inst' = [inst EXCEPT ![i].telemetry = t]
Fated(i, f) == fate' = [fate EXCEPT ![inst[i].for] = IF @ = "gone" THEN @ ELSE f]

Traced(i) == inst[i].st # "none" /\ inst[i].telemetry.entered > 0

EnterScope(i) ==
  /\ Alive(i) /\ MayEnter(inst[i].telemetry)
  /\ Cardinality({j \in Instances : Traced(j)} \cup {i}) <= MaxTraced
  /\ \E initialized \in BOOLEAN : Tell(i, Enter(inst[i].telemetry, initialized))
  /\ UNCHANGED <<processVars, conn, fate>>

LeaveScope(i) ==
  /\ Alive(i)
  /\ \E s \in inst[i].telemetry.open : Tell(i, Leave(inst[i].telemetry, s))
  /\ UNCHANGED <<processVars, conn, fate>>

RunExport(i) ==
  /\ Alive(i)
  /\ \E e \in inst[i].telemetry.exports, succeeds \in BOOLEAN :
       Tell(i, Export(inst[i].telemetry, e, resource, succeeds))
  /\ UNCHANGED <<processVars, conn, fate>>

\* The guest returns a response: sender.send, whose failure - the receiver is gone -
\* is not looked at.  Then task.block, for the rest of the guest.
Respond(i) ==
  /\ Alive(i) /\ inst[i].st = "running"
  /\ LET waiting == {c \in Connections : Open(c) /\ Receiver(c, i)} IN
     /\ inst' = [inst EXCEPT ![i].st = "responded",
                             ![i].body = IF waiting = {} THEN "complete" ELSE "streaming"]
     /\ conn' = [c \in Connections |-> IF c \in waiting THEN [conn[c] EXCEPT !.st = "body"] ELSE conn[c]]
  /\ Fated(i, "responded")
  /\ UNCHANGED processVars

\* Nobody reads the body any more: the guest's write fails and it goes on.
ReaderGone(i) ==
  /\ Alive(i) /\ inst[i].body = "streaming"
  /\ \A c \in Connections : Open(c) /\ conn[c].st = "body" => Current(c) # inst[i].for
  /\ inst' = [inst EXCEPT ![i].body = "complete"]
  /\ UNCHANGED <<processVars, conn, fate>>

\* A fault: the host does not wait for what the guest has spawned.
DoneWithoutBlock(i) == inst[i].st = "responded" /\ inst[i].body = "complete" /\ inst[i].telemetry.open = {}
\* task.block: the response is out, and nothing of the guest runs any more.
Done(i) == inst[i].st = "responded" /\ inst[i].body = "complete" /\ Quiet(inst[i].telemetry)

\* The instance is dropped, having come to its end.
Finish(i) ==
  /\ Alive(i) /\ Done(i)
  /\ inst' = [inst EXCEPT ![i] = NoInstance]
  /\ UNCHANGED <<processVars, conn, fate>>

\* The guest returns an error code, or a response that cannot be converted: the
\* closure ends, and what the guest has spawned ends with it.  A guest may trap at
\* any time, which leaves as much.
Refuse(i) ==
  /\ Alive(i) /\ inst[i].st = "running"
  /\ inst' = [inst EXCEPT ![i] = NoInstance]
  /\ Fated(i, "failed")
  /\ UNCHANGED <<processVars, conn>>

Trap(i) ==
  /\ Alive(i)
  /\ inst' = [inst EXCEPT ![i] = NoInstance]
  /\ Fated(i, IF inst[i].st = "responded" THEN "trapped" ELSE "failed")
  /\ UNCHANGED <<processVars, conn>>

-----------------------------------------------------------------------------
\* The end of the process takes connections and instances with it.
ProcessEnds ==
  /\ Join
  /\ conn' = [c \in Connections |-> Closed]
  /\ inst' = [i \in Instances |-> NoInstance]
  /\ UNCHANGED fate

Serve(c) == Handle(c) \/ Reject(c) \/ SenderDropped(c) \/ BodyEnds(c)
Guest(i) == \/ EnterScope(i) \/ LeaveScope(i) \/ RunExport(i) \/ Respond(i) \/ ReaderGone(i)
            \/ Finish(i) \/ Refuse(i) \/ Trap(i)

Next ==
  \/ (StartUp \/ StartupFails) /\ UNCHANGED serverVars
  \/ \E h \in Hosts : ServerFails(h) /\ UNCHANGED serverVars
  \/ ProcessEnds
  \/ \E c \in Connections : Accept(c) \/ Ask(c) \/ Serve(c) \/ Leaves(c)
  \/ \E i \in Instances : Guest(i)

Spec == Init /\ [][Next]_vars

\* The runtime polls the joined servers and the tasks of the connections.  Nothing
\* is assumed of guests, nor of clients, who may read a body never.
FairSpec ==
  /\ Spec
  /\ WF_vars(ProcessEnds)
  /\ \A c \in Connections : WF_vars(Handle(c) \/ Reject(c) \/ SenderDropped(c))

-----------------------------------------------------------------------------
(* Properties.                                                               *)

\* A client gets one answer per request, in the order of its requests; it is the
\* guest's when - and only when - the guest of that very request has responded.
\* Otherwise it is the error page, and that only if that guest has not.
AnsweredInTurn ==
  \A c \in Connections : Open(c) =>
    \A k \in DOMAIN conn[c].answers :
      LET a == conn[c].answers[k] IN
      /\ a.to = conn[c].asked[k]
      /\ a.kind = "guest" <=> fate[a.to] \in {"responded", "trapped"}

\* An instance that comes to its end has had every span sent on, once, that ended
\* before its outermost scope did - whether or not its client is still there, and
\* though the export only begins when the response is out.
FlushedWhenDone ==
  [][\A i \in Instances :
       (Finish(i) /\ ~inst[i].telemetry.faulty) =>
         \A s \in Scopes : inst[i].telemetry.exported[s] = IF s \in inst[i].telemetry.left THEN 1 ELSE 0]_vars

\* A request whose turn has come is taken up, and once its guest has ended without a
\* response its client is not left waiting (server.rs:154: the sender is dropped
\* with the guest's task).  A guest that goes on for ever is waited for for ever.
Due(c) ==
  /\ Unanswered(c)
  /\ conn[c].st = "open" \/ (conn[c].st = "waiting" /\ fate[Current(c)] = "failed")
DecidedIsAnswered == \A c \in Connections : Due(c) ~> ~Due(c)

\* A server that fails ends the process, whatever the other servers and all the
\* guests are doing (try_join_all); a deployment nobody serves ends by itself.
OneDownAllDown ==
  /\ (\E h \in hosts : server[h] = "err") ~> (stage = "ended" /\ outcome = "err")
  /\ (Running /\ hosts \cap Listening = {}) ~> (stage = "ended" /\ outcome = "ok")
=============================================================================
