----------------------------- MODULE WebSockets ------------------------------
(***************************************************************************)
(* The wasi-websockets host: the server and its peer map (host/server.rs), *)
(* and the functions of a server handle over them (host/default_impl.rs).  *)
(*                                                                         *)
(* Every upgraded connection has a task of its own, which lists the        *)
(* connection in the peer map under its remote address and then does two   *)
(* things at once: it reads what the client sends, and it forwards what    *)
(* guests queued for it.  When either comes to its end the task takes the  *)
(* address out of the map and is over.  The map holds the only sender of   *)
(* the queue, so losing its entry ends a connection as well.               *)
(***************************************************************************)
EXTENDS Integers, Sequences, FiniteSets

CONSTANTS
  Addrs,      \* remote socket addresses
  Loopback,   \* those on the loopback interface: service peers
  Filters,    \* the JSON texts clients send
  NoFilter,   \* the query of a peer that sent none: the empty string
  NoPeer,     \* no entry in the peer map
  All,        \* the word "all" in a list of recipients
  MaxConns,   \* bound on the connections accepted
  MaxSent,    \* bound on the messages guests send
  MaxTo       \* bound on the recipients named in one call

ASSUME WebSocketsAssumption ==
  /\ Loopback \subseteq Addrs
  /\ All \notin Addrs
  /\ NoFilter \notin Filters
  /\ MaxConns \in Nat /\ MaxSent \in Nat /\ MaxTo \in Nat
  /\ NoPeer \notin [conn: 1..MaxConns, query: Filters \cup {NoFilter}]

VARIABLES
  served,    \* whether run_server has set PEER_MAP
  conns,     \* conns[c]: the connections accepted so far, in order
  peers,     \* peers[a]: the peer map
  client,    \* SERVICE_CLIENT: the connection of the health check; 0 before it
  sent,      \* the number of messages sent
  received,  \* history: what reached the client of each connection, while it is there
  heard,     \* history: what was sent to each client while its task was running
  asked,     \* history: the filter each client sent last, while its task runs
  met        \* history: connections whose address another one had at the same time

vars == <<served, conns, peers, client, sent, received, heard, asked, met>>
history == <<received, heard, asked, met>>

Ids == 1..Len(conns)
IsService(a) == a \in Loopback
Connection == [addr: Addrs, up: BOOLEAN, queue: Seq(Nat),
               pc: {"upgraded", "open", "closing", "gone"}]

Init ==
  /\ served = FALSE /\ conns = <<>> /\ client = 0 /\ sent = 0
  /\ peers = [a \in Addrs |-> NoPeer]
  /\ received = <<>> /\ heard = <<>> /\ asked = <<>> /\ met = {}

\* run_server: from here on functions find a peer map; before, get_peers finds
\* nobody and a send is an error.
Serve ==
  /\ ~served /\ served' = TRUE
  /\ UNCHANGED <<conns, peers, client, sent, history>>

-----------------------------------------------------------------------------
(* A connection.  up: the client still has its end of the socket.            *)

Accepted(a) ==
  /\ served /\ Len(conns) < MaxConns
  /\ \A c \in Ids : conns[c].addr = a => ~conns[c].up
  /\ conns' = Append(conns, [addr |-> a, up |-> TRUE, queue |-> <<>>, pc |-> "upgraded"])
  /\ received' = Append(received, <<>>) /\ heard' = Append(heard, <<>>)
  /\ asked' = Append(asked, NoFilter)
  /\ UNCHANGED <<served, peers, sent, met>>

\* A request that asks for an upgrade is answered, and its task spawned; no two
\* live sockets have one address, but the task of a dead one may still be there.
\* (Any other request is refused and leaves no trace.)
Connect == \E a \in Addrs : Accepted(a) /\ UNCHANGED client

\* health_check connects to the server itself, once; its pings are ignored.  A call that
\* finds no server panics before the cell is set, so that the next one tries again, and a
\* ping that cannot be sent is the caller's error: neither changes anything here.
HealthCheck ==
  /\ client = 0
  /\ \E a \in Loopback : Accepted(a)
  /\ client' = Len(conns) + 1

\* The client closes, or is lost; the server does not know yet.
Vanish(c) ==
  /\ conns[c].up
  /\ conns' = [conns EXCEPT ![c].up = FALSE]
  /\ received' = [received EXCEPT ![c] = <<>>] /\ heard' = [heard EXCEPT ![c] = <<>>]
  /\ UNCHANGED <<served, peers, client, sent, asked, met>>

\* A fault: the failed upgrade is cleaned up after as if it had been listed.
UpgradeFailsRemoves(c) ==
  /\ conns[c].pc = "upgraded" /\ ~conns[c].up
  /\ conns' = [conns EXCEPT ![c].pc = "gone"]
  /\ peers' = [peers EXCEPT ![conns[c].addr] = NoPeer]
  /\ UNCHANGED <<served, client, sent, history>>

\* The client went away before the upgrade was through: the task logs it.
UpgradeFails(c) ==
  /\ conns[c].pc = "upgraded" /\ ~conns[c].up
  /\ conns' = [conns EXCEPT ![c].pc = "gone"]
  /\ UNCHANGED <<served, peers, client, sent, history>>

\* A fault: a fresh entry has no query yet, not even an empty one.
RegisterUnset(c) ==
  /\ conns[c].pc = "upgraded"
  /\ conns' = [conns EXCEPT ![c].pc = "open"]
  /\ peers' = [peers EXCEPT ![conns[c].addr] = [conn |-> c, query |-> NoPeer]]
  /\ UNCHANGED <<served, client, sent, history>>

\* The task lists the connection.  An entry that was there is overwritten, and
\* with it goes the sender of the connection it belonged to.
Register(c) ==
  LET a == conns[c].addr
      others == {d \in Ids : d # c /\ conns[d].addr = a /\ conns[d].pc \in {"open", "closing"}} IN
  /\ conns[c].pc = "upgraded"
  /\ conns' = [conns EXCEPT ![c].pc = "open"]
  /\ peers' = [peers EXCEPT ![a] = [conn |-> c, query |-> NoFilter]]
  /\ met' = IF others = {} THEN met ELSE met \cup others \cup {c}
  /\ UNCHANGED <<served, client, sent, received, heard, asked>>

Reading(c) == conns[c].pc = "open" /\ conns[c].up /\ ~IsService(conns[c].addr)

\* A fault: a peer keeps the first filter it set.
FilterOnce(c) ==
  /\ Reading(c)
  /\ \E q \in Filters :
       /\ asked' = [asked EXCEPT ![c] = q]
       /\ peers' = [a \in Addrs |->
            IF a = conns[c].addr /\ peers[a] # NoPeer /\ peers[a].query = NoFilter
              THEN [peers[a] EXCEPT !.query = q] ELSE peers[a]]
  /\ UNCHANGED <<served, conns, client, sent, received, heard, met>>

\* The client sends a JSON text: the query of whatever entry its address has.
\* (What a service peer sends is ignored.)
Filter(c) ==
  /\ Reading(c)
  /\ \E q \in Filters :
       /\ asked' = [asked EXCEPT ![c] = q]
       /\ peers' = [a \in Addrs |->
            IF a = conns[c].addr /\ peers[a] # NoPeer
              THEN [peers[a] EXCEPT !.query = q] ELSE peers[a]]
  /\ UNCHANGED <<served, conns, client, sent, received, heard, met>>

Closing(c) ==
  /\ conns' = [conns EXCEPT ![c].pc = "closing"]
  /\ UNCHANGED <<served, peers, client, sent, history>>

\* A fault: a text that is no JSON ends the task on the spot.
BadTextReturns(c) ==
  /\ Reading(c)
  /\ conns' = [conns EXCEPT ![c].pc = "gone", ![c].queue = <<>>]
  /\ UNCHANGED <<served, peers, client, sent, history>>

\* The client sends any other text: the reading half ends.
BadText(c) == Reading(c) /\ Closing(c)

\* A fault: the end of the stream is noticed by writing to it only.
EndOfStreamOnWrite(c) == conns[c].pc = "open" /\ ~conns[c].up /\ conns[c].queue # <<>> /\ Closing(c)
\* The reading half meets the end of the stream, or either half an error.
EndOfStream(c) == conns[c].pc = "open" /\ ~conns[c].up /\ Closing(c)

\* The writing half takes the next message; a dead socket may swallow it.
Forward(c) ==
  /\ conns[c].pc = "open" /\ conns[c].queue # <<>>
  /\ conns' = [conns EXCEPT ![c].queue = Tail(@)]
  /\ received' = IF conns[c].up THEN [received EXCEPT ![c] = Append(@, Head(conns[c].queue))]
                                ELSE received
  /\ UNCHANGED <<served, peers, client, sent, heard, asked, met>>

Owns(c) == peers[conns[c].addr] # NoPeer /\ peers[conns[c].addr].conn = c

\* The queue is empty and its sender gone with the entry: the writing half ends.
SenderGone(c) == conns[c].pc = "open" /\ conns[c].queue = <<>> /\ ~Owns(c) /\ Closing(c)

\* The task is over: whatever its address is listed for is taken out, its
\* queue is dropped, its socket closed.
Remove(c) ==
  /\ conns[c].pc = "closing"
  /\ peers' = [peers EXCEPT ![conns[c].addr] = NoPeer]
  /\ conns' = [conns EXCEPT ![c].pc = "gone", ![c].queue = <<>>, ![c].up = FALSE]
  /\ received' = [received EXCEPT ![c] = <<>>] /\ heard' = [heard EXCEPT ![c] = <<>>]
  /\ asked' = [asked EXCEPT ![c] = NoFilter]
  /\ UNCHANGED <<served, client, sent, met>>

-----------------------------------------------------------------------------
(* What guests send.                                                         *)

\* The recipients named: joined by commas and split again, so that "all" alone
\* means every peer, and among others it is no address and means nobody.
Lists == UNION {[1..n -> Addrs \cup {All}] : n \in 0..MaxTo}
\* A fault: "all" anywhere in the list means every peer.
CopiesAnyAll(to, a) ==
  IF \E i \in DOMAIN to : to[i] = All THEN 1 ELSE Cardinality({i \in DOMAIN to : to[i] = a})
Named(to, a) == IF to = <<All>> THEN 1 ELSE Cardinality({i \in DOMAIN to : to[i] = a})
\* How often the peer at a is sent a message for to.
Copies(to, a) == Named(to, a)
Times(n, m) == [i \in 1..n |-> m]

\* send_message: under the lock of the map, a message to the queue of every
\* recipient listed, service peers excepted.  send_all is the list <<All>>.
Send ==
  /\ served /\ sent < MaxSent
  /\ sent' = sent + 1
  /\ \E to \in Lists :
       /\ conns' = [c \in Ids |->
            IF Owns(c) /\ ~IsService(conns[c].addr)
              THEN [conns[c] EXCEPT !.queue = @ \o Times(Copies(to, conns[c].addr), sent')]
              ELSE conns[c]]
       /\ heard' = [c \in Ids |->
            IF conns[c].pc = "open" /\ conns[c].up /\ ~IsService(conns[c].addr)
              THEN heard[c] \o Times(Named(to, conns[c].addr), sent') ELSE heard[c]]
  /\ UNCHANGED <<served, peers, client, received, asked, met>>

-----------------------------------------------------------------------------
\* What the task of a connection goes on with by itself.  Forward is apart: a
\* client that does not read holds the writing half up, and only that half.
Work(c) == Register(c) \/ UpgradeFails(c) \/ EndOfStream(c) \/ SenderGone(c) \/ Remove(c)

Next ==
  \/ Serve \/ Connect \/ HealthCheck \/ Send
  \/ \E c \in Ids : Vanish(c) \/ Filter(c) \/ BadText(c) \/ Forward(c) \/ Work(c)

Spec == Init /\ [][Next]_vars

\* The runtime polls the task of a connection while it can go on.
FairSpec == Spec /\ \A c \in 1..MaxConns : WF_vars(c \in Ids /\ Work(c))

-----------------------------------------------------------------------------
(* Properties.                                                               *)

\* The variables keep their types.
TypeOK ==
  /\ served \in BOOLEAN /\ client \in 0..Len(conns) /\ sent \in 0..MaxSent
  /\ conns \in Seq(Connection) /\ Len(conns) <= MaxConns
  /\ peers \in [Addrs -> [conn: Ids, query: Filters \cup {NoFilter}] \cup {NoPeer}]
  /\ received \in [Ids -> Seq(Nat)] /\ heard \in [Ids -> Seq(Nat)]
  /\ asked \in [Ids -> Filters \cup {NoFilter}] /\ met \subseteq Ids

\* "Get the peers connected to the server": an entry of the map is of a
\* connection at its address whose task is still there, so that no path through
\* accept_connection leaves an entry behind - however addresses are used again.
ListedIsAlive ==
  \A a \in Addrs : peers[a] # NoPeer =>
    LET p == peers[a].conn IN conns[p].addr = a /\ conns[p].pc \in {"open", "closing"}

\* A connection whose task runs is listed, until another one at its address is:
\* only an address in use by two tasks at once can hide a connected peer.
RunningIsListed ==
  \A c \in Ids : conns[c].pc = "open" /\ c \notin met => Owns(c)

\* A running connection was sent, or has in its queue, exactly the messages that
\* named it or everybody since it was listed, as often as they did and in the
\* order they were sent; a service peer nothing at all.
DeliveredInOrder ==
  \A c \in Ids :
    /\ conns[c].pc = "open" /\ conns[c].up /\ c \notin met
         => received[c] \o conns[c].queue = heard[c]
    /\ IsService(conns[c].addr) => received[c] \o conns[c].queue = <<>>

\* The query get_peers answers with is the filter that client sent last.
FilterIsItsOwn ==
  \A c \in Ids : Owns(c) /\ c \notin met => peers[conns[c].addr].query = asked[c]

\* A client that goes away is taken out of the map in the end, its task over and
\* its queue dropped, whether or not anybody sends to it.
VanishedIsRemoved ==
  \A c \in 1..MaxConns : (c \in Ids /\ ~conns[c].up) ~> (c \in Ids /\ conns[c].pc = "gone")
=============================================================================
