-------------------------- MODULE WebSockets_proofs --------------------------
(***************************************************************************)
(* Theorems about WebSockets for any addresses, filters and bounds: the     *)
(* peer map lists who is there, whoever is there is listed, with its own    *)
(* filter, and gets what it is sent.                                        *)
(***************************************************************************)
EXTENDS WebSockets, FiniteSetTheorems, SequenceTheorems, TLAPS

Peer == [conn: 1..MaxConns, query: Filters \cup {NoFilter}]
Tasks == {"open", "closing"}

\* Two tasks that are listed, or about to be taken out, at one address have met.
MetIsKnown ==
  \A c, d \in Ids :
    /\ c # d /\ conns[c].addr = conns[d].addr
    /\ conns[c].pc \in Tasks /\ conns[d].pc \in Tasks
    => c \in met /\ d \in met

\* The inductive invariant.
Core == ListedIsAlive /\ RunningIsListed /\ MetIsKnown
IInv == TypeOK /\ Core

-----------------------------------------------------------------------------
(* Sequences of connections.                                                 *)

\* What TypeOK says of one connection, and of an entry of the map.
LEMMA TypesApply ==
  ASSUME TypeOK
  PROVE  /\ Len(conns) \in 0..MaxConns /\ Ids = DOMAIN conns
         /\ \A c \in Ids : conns[c] \in Connection
         /\ \A a \in Addrs : peers[a] # NoPeer => peers[a] \in Peer /\ peers[a].conn \in Ids
<1>1. conns \in Seq(Connection) /\ Len(conns) <= MaxConns /\ MaxConns \in Nat
  BY WebSocketsAssumption DEF TypeOK
<1>2. Len(conns) \in 0..MaxConns /\ Ids = DOMAIN conns
  BY <1>1 DEF Ids
<1>3. \A c \in Ids : conns[c] \in Connection
  BY <1>1 DEF Ids
<1>4. ASSUME NEW a \in Addrs, peers[a] # NoPeer
      PROVE  peers[a] \in Peer /\ peers[a].conn \in Ids
  <2>1. peers[a] \in [conn: Ids, query: Filters \cup {NoFilter}]
    BY <1>4 DEF TypeOK
  <2>2. Ids \subseteq 1..MaxConns
    BY <1>1 DEF Ids
  <2> QED
    BY <2>1, <2>2 DEF Peer
<1> QED
  BY <1>2, <1>3, <1>4

\* A change of one connection that keeps it one leaves the others alone.
LEMMA OneConnection ==
  ASSUME TypeOK, NEW c \in Ids, NEW x \in Connection, conns' = [conns EXCEPT ![c] = x]
  PROVE  /\ conns' \in Seq(Connection) /\ Len(conns') = Len(conns)
         /\ conns'[c] = x /\ \A d \in Ids : d # c => conns'[d] = conns[d]
<1>1. conns \in Seq(Connection) /\ c \in 1..Len(conns)
  BY DEF TypeOK, Ids
<1> QED
  BY <1>1 DEF Ids

\* A new connection comes last.
LEMMA NewConnection ==
  ASSUME TypeOK, NEW x \in Connection, conns' = Append(conns, x)
  PROVE  /\ conns' \in Seq(Connection) /\ Len(conns') = Len(conns) + 1
         /\ Ids' = Ids \cup {Len(conns) + 1} /\ Len(conns) + 1 \notin Ids
         /\ conns'[Len(conns) + 1] = x /\ \A d \in Ids : conns'[d] = conns[d]
<1>1. conns \in Seq(Connection)
  BY DEF TypeOK
<1> QED
  BY <1>1 DEF Ids

\* A history of one message list per connection grows with the connections.
LEMMA NewHistory ==
  ASSUME NEW S, NEW h, NEW n \in Nat, h \in [1..n -> S], NEW x \in S
  PROVE  Append(h, x) \in [1..(n + 1) -> S]
<1>1. h \in Seq(S) /\ Len(h) = n
  OBVIOUS
<1>2. Append(h, x) \in Seq(S) /\ Len(Append(h, x)) = n + 1
  BY <1>1
<1> QED
  BY <1>2, LenProperties

\* An empty message list in it comes last.
LEMMA NewEmpty ==
  ASSUME NEW n \in Nat, NEW h \in [1..n -> Seq(Nat)], NEW g, g = Append(h, <<>>),
         NEW m, m = n + 1
  PROVE  g[m] = <<>> /\ \A i \in 1..n : g[i] = h[i]
<1>1. h \in Seq(Seq(Nat)) /\ Len(h) = n
  OBVIOUS
<1> QED
  BY <1>1

\* Concatenation of messages is associative.
LEMMA Concat3 ==
  ASSUME NEW s \in Seq(Nat), NEW t \in Seq(Nat), NEW u \in Seq(Nat)
  PROVE  (s \o t) \o u = s \o (t \o u)
  BY ConcatAssociative

-----------------------------------------------------------------------------
(* Steps that leave every task where it is.                                  *)

\* Steps that change neither a task's place nor an entry's connection keep who is listed.
LEMMA TasksStay ==
  ASSUME IInv, Ids' = Ids, met' = met,
         \A c \in Ids : conns'[c].addr = conns[c].addr /\ conns'[c].pc = conns[c].pc,
         \A a \in Addrs : /\ peers'[a] = NoPeer <=> peers[a] = NoPeer
                          /\ peers[a] # NoPeer => peers'[a].conn = peers[a].conn
  PROVE  Core'
<1>1. \A c \in Ids : conns[c].addr \in Addrs
  BY TypesApply DEF IInv, Connection
<1>2. ListedIsAlive'
  BY TypesApply DEF IInv, Core, ListedIsAlive
<1>3. RunningIsListed'
  BY <1>1 DEF IInv, Core, RunningIsListed, Owns
<1>4. MetIsKnown'
  BY DEF IInv, Core, MetIsKnown
<1> QED
  BY <1>2, <1>3, <1>4 DEF Core

-----------------------------------------------------------------------------
(* Types, action by action.                                                  *)

\* A step that changes one connection and, at most, the entry of its address and
\* what the histories say of it.
LEMMA OneTypes ==
  ASSUME TypeOK, NEW c \in Ids, NEW x \in Connection, conns' = [conns EXCEPT ![c] = x],
         served' = served, client' = client, sent' = sent,
         peers' \in [Addrs -> [conn: Ids, query: Filters \cup {NoFilter}] \cup {NoPeer}],
         received' \in [Ids -> Seq(Nat)], heard' \in [Ids -> Seq(Nat)],
         asked' \in [Ids -> Filters \cup {NoFilter}], met' \subseteq Ids
  PROVE  TypeOK'
<1>1. conns' \in Seq(Connection) /\ Len(conns') = Len(conns)
  BY OneConnection
<1>2. Ids' = Ids
  BY <1>1 DEF Ids
<1> QED
  BY <1>1, <1>2 DEF TypeOK

\* A new connection is well-typed.
LEMMA ConnectTypes ==
  ASSUME TypeOK, NEW a \in Addrs, Accepted(a), client' = client \/ client' = Len(conns) + 1
  PROVE  TypeOK'
<1> DEFINE x == [addr |-> a, up |-> TRUE, queue |-> <<>>, pc |-> "upgraded"]
<1>1. x \in Connection
  BY DEF Connection
<1>2. conns' = Append(conns, x)
  BY DEF Accepted
<1> HIDE DEF x
<1>3. /\ conns' \in Seq(Connection) /\ Len(conns') = Len(conns) + 1
      /\ Ids' = Ids \cup {Len(conns) + 1}
  BY <1>1, <1>2, NewConnection
<1>4. Len(conns) \in Nat /\ Len(conns') <= MaxConns
  BY <1>3, TypesApply, WebSocketsAssumption DEF Accepted
<1>5. Ids' = 1..(Len(conns) + 1) /\ Ids = 1..Len(conns)
  BY <1>3, <1>4 DEF Ids
<1>6. received' \in [Ids' -> Seq(Nat)] /\ heard' \in [Ids' -> Seq(Nat)]
  <2>1. <<>> \in Seq(Nat)
    OBVIOUS
  <2>2. received \in [1..Len(conns) -> Seq(Nat)] /\ heard \in [1..Len(conns) -> Seq(Nat)]
    BY <1>5 DEF TypeOK
  <2>3. received' = Append(received, <<>>) /\ heard' = Append(heard, <<>>)
    BY DEF Accepted
  <2> QED
    BY <1>4, <1>5, <2>1, <2>2, <2>3, NewHistory
<1>7. asked' \in [Ids' -> Filters \cup {NoFilter}]
  <2>1. asked \in [1..Len(conns) -> Filters \cup {NoFilter}] /\ asked' = Append(asked, NoFilter)
    BY <1>5 DEF TypeOK, Accepted
  <2> QED
    BY <1>4, <1>5, <2>1, NewHistory
<1>8. peers' \in [Addrs -> [conn: Ids', query: Filters \cup {NoFilter}] \cup {NoPeer}]
  BY <1>3 DEF TypeOK, Accepted
<1>9. client' \in 0..Len(conns') /\ met' \subseteq Ids' /\ served' \in BOOLEAN /\ sent' = sent
  BY <1>3, <1>4 DEF TypeOK, Accepted
<1> QED
  BY <1>3, <1>4, <1>6, <1>7, <1>8, <1>9 DEF TypeOK

\* Where a task goes: it keeps its address, and its queue or loses it.
LEMMA PcTypes ==
  ASSUME TypeOK, NEW c \in Ids, NEW p \in {"upgraded", "open", "closing", "gone"}
  PROVE  [conns[c] EXCEPT !.pc = p] \in Connection
  BY TypesApply DEF Connection

\* A peer that vanishes leaves a well-typed connection.
LEMMA VanishTypes == ASSUME TypeOK, NEW c \in Ids, Vanish(c) PROVE TypeOK'
<1> DEFINE x == [conns[c] EXCEPT !.up = FALSE]
<1>1. x \in Connection
  BY TypesApply DEF Connection
<1>2. conns' = [conns EXCEPT ![c] = x]
  BY DEF Vanish
<1>3. received' \in [Ids -> Seq(Nat)] /\ heard' \in [Ids -> Seq(Nat)]
  BY DEF Vanish, TypeOK
<1> HIDE DEF x
<1> QED
  BY <1>1, <1>2, <1>3, OneTypes DEF Vanish, TypeOK

\* A task that only moves on leaves its connection well-typed.
LEMMA TaskTypes ==
  ASSUME TypeOK, NEW c \in Ids, Register(c) \/ UpgradeFails(c) \/ BadText(c) \/ EndOfStream(c) \/ SenderGone(c)
  PROVE  TypeOK'
<1>1. ASSUME NEW p \in {"upgraded", "open", "closing", "gone"}, conns' = [conns EXCEPT ![c].pc = p],
             UNCHANGED <<served, peers, client, sent, history>>
      PROVE  TypeOK'
  <2>1. conns' = [conns EXCEPT ![c] = [conns[c] EXCEPT !.pc = p]]
    BY <1>1
  <2> QED
    BY <1>1, <2>1, PcTypes, OneTypes DEF TypeOK, history
<1>2. CASE Register(c)
  <2>1. conns' = [conns EXCEPT ![c] = [conns[c] EXCEPT !.pc = "open"]]
    BY <1>2 DEF Register
  <2>2. peers' \in [Addrs -> [conn: Ids, query: Filters \cup {NoFilter}] \cup {NoPeer}]
    BY <1>2 DEF Register, TypeOK
  <2>3. met' \subseteq Ids
    BY <1>2 DEF Register, TypeOK
  <2> QED
    BY <1>2, <2>1, <2>2, <2>3, PcTypes, OneTypes DEF Register, TypeOK
<1>3. CASE UpgradeFails(c)
  BY <1>1, <1>3 DEF UpgradeFails
<1>4. CASE BadText(c) \/ EndOfStream(c) \/ SenderGone(c)
  BY <1>1, <1>4 DEF BadText, EndOfStream, SenderGone, Closing
<1> QED
  BY <1>2, <1>3, <1>4

\* A filter message leaves its entry well-typed.
LEMMA FilterTypes == ASSUME TypeOK, NEW c \in Ids, Filter(c) PROVE TypeOK'
<1>1. PICK q \in Filters : 
        /\ asked' = [asked EXCEPT ![c] = q]
        /\ peers' = [a \in Addrs |-> IF a = conns[c].addr /\ peers[a] # NoPeer
                                      THEN [peers[a] EXCEPT !.query = q] ELSE peers[a]]
  BY DEF Filter
<1>2. asked' \in [Ids -> Filters \cup {NoFilter}]
  BY <1>1 DEF TypeOK
<1>3. peers' \in [Addrs -> [conn: Ids, query: Filters \cup {NoFilter}] \cup {NoPeer}]
  BY <1>1 DEF TypeOK
<1>4. conns' = [conns EXCEPT ![c] = conns[c]] /\ conns[c] \in Connection
  BY TypesApply DEF Filter, TypeOK
<1> QED
  BY <1>2, <1>3, <1>4, OneTypes DEF Filter, TypeOK

\* What is forwarded is taken from one queue and put at the end of others.
LEMMA ForwardTypes == ASSUME TypeOK, NEW c \in Ids, Forward(c) PROVE TypeOK'
<1> DEFINE q == conns[c].queue
           x == [conns[c] EXCEPT !.queue = Tail(q)]
<1>1. conns[c] \in Connection /\ q \in Seq(Nat) /\ q # <<>>
  BY TypesApply DEF Forward, Connection
<1>2. Tail(q) \in Seq(Nat) /\ Head(q) \in Nat
  BY <1>1, HeadTailProperties
<1>3. conns' = [conns EXCEPT ![c] = x]
  BY DEF Forward
<1>4. received' = IF conns[c].up THEN [received EXCEPT ![c] = Append(@, Head(q))] ELSE received
  BY DEF Forward
<1> HIDE DEF q
<1>5. x \in Connection
  BY <1>1, <1>2 DEF Connection
<1>6. received' \in [Ids -> Seq(Nat)]
  <2>1. received \in [Ids -> Seq(Nat)]
    BY DEF TypeOK
  <2>2. Append(received[c], Head(q)) \in Seq(Nat)
    BY <1>2, <2>1
  <2> QED
    BY <1>4, <2>1, <2>2
<1> HIDE DEF x
<1> QED
  BY <1>3, <1>5, <1>6, OneTypes DEF Forward, TypeOK

\* An entry that is removed is no peer.
LEMMA RemoveTypes == ASSUME TypeOK, NEW c \in Ids, Remove(c) PROVE TypeOK'
<1> DEFINE y == [conns[c] EXCEPT !.pc = "gone"]
           z == [y EXCEPT !.queue = <<>>]
           x == [z EXCEPT !.up = FALSE]
<1>1. x \in Connection
  <2>1. y \in Connection
    BY PcTypes
  <2> HIDE DEF y
  <2>2. <<>> \in Seq(Nat)
    OBVIOUS
  <2>3. z \in Connection
    BY <2>1, <2>2 DEF Connection
  <2> HIDE DEF z
  <2> QED
    BY <2>3 DEF Connection
<1>2. conns' = [conns EXCEPT ![c] = x]
  BY DEF Remove
<1>3. peers' \in [Addrs -> [conn: Ids, query: Filters \cup {NoFilter}] \cup {NoPeer}]
  BY DEF Remove, TypeOK
<1>4. /\ received' \in [Ids -> Seq(Nat)] /\ heard' \in [Ids -> Seq(Nat)]
      /\ asked' \in [Ids -> Filters \cup {NoFilter}]
  BY DEF Remove, TypeOK
<1> HIDE DEF x
<1> QED
  BY <1>1, <1>2, <1>3, <1>4, OneTypes DEF Remove, TypeOK

\* However often a list names an address, it is a number of times.
LEMMA NamedIsNat == ASSUME NEW to \in Lists, NEW a PROVE Named(to, a) \in Nat
<1>1. PICK n \in 0..MaxTo : to \in [1..n -> Addrs \cup {All}]
  BY DEF Lists
<1>2. n \in Nat /\ DOMAIN to = 1..n
  BY <1>1, WebSocketsAssumption
<1>3. IsFiniteSet({i \in DOMAIN to : to[i] = a})
  BY <1>2, FS_Interval, FS_Subset
<1>4. Cardinality({i \in DOMAIN to : to[i] = a}) \in Nat
  BY <1>3, FS_CardinalityType
<1> QED
  BY <1>4 DEF Named

\* A message repeated is a sequence of messages.
LEMMA TimesIsSeq == ASSUME NEW n \in Nat, NEW m \in Nat PROVE Times(n, m) \in Seq(Nat)
  BY DEF Times

\* A record of functions over Ids is one over the connections as a sequence.
LEMMA SendTypes == ASSUME TypeOK, Send PROVE TypeOK'
<1>1. PICK to \in Lists :
       /\ conns' = [c \in Ids |->
            IF Owns(c) /\ ~IsService(conns[c].addr)
              THEN [conns[c] EXCEPT !.queue = @ \o Times(Copies(to, conns[c].addr), sent')]
              ELSE conns[c]]
       /\ heard' = [c \in Ids |->
            IF conns[c].pc = "open" /\ conns[c].up /\ ~IsService(conns[c].addr)
              THEN heard[c] \o Times(Named(to, conns[c].addr), sent') ELSE heard[c]]
  BY DEF Send
<1>2. sent' \in 0..MaxSent /\ sent' \in Nat
  BY WebSocketsAssumption DEF TypeOK, Send
<1>3. \A a : Times(Named(to, a), sent') \in Seq(Nat)
  BY <1>2, NamedIsNat, TimesIsSeq
<1>4. \A c \in Ids : conns'[c] \in Connection
  <2> SUFFICES ASSUME NEW c \in Ids PROVE conns'[c] \in Connection
    OBVIOUS
  <2> DEFINE more == Times(Named(to, conns[c].addr), sent')
  <2>1. conns[c] \in Connection /\ more \in Seq(Nat)
    BY <1>3, TypesApply
  <2>2. conns'[c] = conns[c] \/ conns'[c] = [conns[c] EXCEPT !.queue = @ \o more]
    BY <1>1 DEF Copies
  <2> HIDE DEF more
  <2>3. conns[c].queue \o more \in Seq(Nat)
    BY <2>1, ConcatProperties DEF Connection
  <2> QED
    BY <2>1, <2>2, <2>3 DEF Connection
<1>5. conns' \in Seq(Connection) /\ Len(conns') = Len(conns)
  <2>1. conns' = [c \in Ids |-> conns'[c]]
    BY <1>1, Zenon
  <2>2. conns' \in [Ids -> Connection]
    BY <1>4, <2>1
  <2>3. Len(conns) \in Nat /\ Ids = 1..Len(conns)
    BY TypesApply DEF Ids
  <2> QED
    BY <2>2, <2>3
<1>6. Ids' = Ids
  BY <1>5 DEF Ids
<1>7. heard' \in [Ids -> Seq(Nat)]
  <2>1. \A c \in Ids : heard[c] \in Seq(Nat)
    BY DEF TypeOK
  <2>2. ASSUME NEW c \in Ids PROVE heard'[c] \in Seq(Nat)
    <3> DEFINE more == Times(Named(to, conns[c].addr), sent')
    <3>1. heard[c] \in Seq(Nat) /\ more \in Seq(Nat)
      BY <1>3, <2>1
    <3>2. heard'[c] = heard[c] \/ heard'[c] = heard[c] \o more
      BY <1>1
    <3> HIDE DEF more
    <3> QED
      BY <3>1, <3>2, ConcatProperties
  <2> QED
    BY <1>1, <2>2
<1> QED
  BY <1>2, <1>5, <1>6, <1>7 DEF Send, TypeOK

\* Every step keeps the types.
LEMMA NextTypes == TypeOK /\ [Next]_vars => TypeOK'
<1> SUFFICES ASSUME TypeOK, [Next]_vars PROVE TypeOK'
  OBVIOUS
<1>1. CASE UNCHANGED vars
  BY <1>1 DEF vars, TypeOK, Ids
<1>2. CASE Serve
  BY <1>2 DEF Serve, history, TypeOK, Ids
<1>3. CASE Connect
  BY <1>3, ConnectTypes DEF Connect
<1>4. CASE HealthCheck
  BY <1>4, ConnectTypes, WebSocketsAssumption DEF HealthCheck
<1>5. CASE Send
  BY <1>5, SendTypes
<1>6. ASSUME NEW c \in Ids, Vanish(c) \/ Filter(c) \/ BadText(c) \/ Forward(c) \/ Work(c)
      PROVE  TypeOK'
  BY <1>6, VanishTypes, FilterTypes, TaskTypes, ForwardTypes, RemoveTypes DEF Work
<1> QED
  BY <1>1, <1>2, <1>3, <1>4, <1>5, <1>6 DEF Next

-----------------------------------------------------------------------------
(* Who is listed, action by action.                                          *)

\* A new connection is not listed yet.
LEMMA AcceptedCore ==
  ASSUME IInv, TypeOK', NEW a \in Addrs, Accepted(a)
  PROVE  Core'
<1> DEFINE x == [addr |-> a, up |-> TRUE, queue |-> <<>>, pc |-> "upgraded"]
           n == Len(conns) + 1
<1>1. TypeOK /\ ListedIsAlive /\ RunningIsListed /\ MetIsKnown
  BY DEF IInv, Core
<1>2. x \in Connection /\ conns' = Append(conns, x)
  BY DEF Accepted, Connection
<1>3. x.pc = "upgraded"
  OBVIOUS
<1> HIDE DEF x
<1>4. /\ Ids' = Ids \cup {n} /\ n \notin Ids /\ conns'[n].pc = "upgraded"
      /\ \A d \in Ids : conns'[d] = conns[d]
  BY <1>1, <1>2, <1>3, NewConnection
<1> HIDE DEF n
<1>5. peers' = peers /\ met' = met
  BY DEF Accepted
<1>6. ListedIsAlive'
  BY <1>1, <1>4, <1>5, TypesApply DEF ListedIsAlive
<1>7. RunningIsListed'
  BY <1>1, <1>4, <1>5 DEF RunningIsListed, Owns
<1>8. MetIsKnown'
  BY <1>1, <1>4, <1>5 DEF MetIsKnown, Tasks
<1> QED
  BY <1>6, <1>7, <1>8 DEF Core

\* Serving, sending, vanishing, filtering and forwarding move no task.
LEMMA StayingCore ==
  ASSUME IInv, TypeOK', Serve \/ Send \/ \E c \in Ids : Vanish(c) \/ Filter(c) \/ Forward(c)
  PROVE  Core'
<1>1. TypeOK
  BY DEF IInv
<1>2. CASE Serve
  BY <1>2, TasksStay DEF Serve, history, Ids
<1>3. CASE Send
  <2>1. \A c \in Ids : conns[c] \in Connection
    BY <1>1, TypesApply
  <2>2. PICK to \in Lists : conns' = [c \in Ids |->
            IF Owns(c) /\ ~IsService(conns[c].addr)
              THEN [conns[c] EXCEPT !.queue = @ \o Times(Copies(to, conns[c].addr), sent')]
              ELSE conns[c]]
    BY <1>3 DEF Send
  <2>3. \A c \in Ids : conns'[c].addr = conns[c].addr /\ conns'[c].pc = conns[c].pc
    BY <2>1, <2>2 DEF Connection
  <2>4. Ids' = Ids
    <3>1. DOMAIN conns' = Ids
      BY <2>2
    <3>2. DOMAIN conns' = Ids'
      BY LenProperties DEF TypeOK, Ids
    <3> QED
      BY <3>1, <3>2
  <2> QED
    BY <1>3, <2>3, <2>4, TasksStay DEF Send
<1>4. ASSUME NEW c \in Ids, Vanish(c) \/ Forward(c)
      PROVE  Core'
  <2>1. conns[c] \in Connection
    BY <1>1, TypesApply
  <2>2. PICK x : /\ conns' = [conns EXCEPT ![c] = x]
                 /\ x = [conns[c] EXCEPT !.up = FALSE]
                    \/ x = [conns[c] EXCEPT !.queue = Tail(conns[c].queue)]
    BY <1>4 DEF Vanish, Forward
  <2>3. \A d \in Ids : conns'[d].addr = conns[d].addr /\ conns'[d].pc = conns[d].pc
    <3>1. x.addr = conns[c].addr /\ x.pc = conns[c].pc
      BY <2>1, <2>2 DEF Connection
    <3> QED
      BY <1>1, <2>2, <3>1, TypesApply
  <2>4. Ids' = Ids
    <3>1. DOMAIN conns' = DOMAIN conns
      BY <2>2
    <3>2. DOMAIN conns' = Ids' /\ DOMAIN conns = Ids
      BY <1>1, LenProperties DEF TypeOK, Ids
    <3> QED
      BY <3>1, <3>2
  <2>5. peers' = peers /\ met' = met
    BY <1>4 DEF Vanish, Forward
  <2> QED
    BY <2>3, <2>4, <2>5, TasksStay
<1>5. ASSUME NEW c \in Ids, Filter(c)
      PROVE  Core'
  <2>1. PICK q \in Filters : 
          peers' = [a \in Addrs |-> IF a = conns[c].addr /\ peers[a] # NoPeer
                                     THEN [peers[a] EXCEPT !.query = q] ELSE peers[a]]
    BY <1>5 DEF Filter
  <2>2. ASSUME NEW a \in Addrs, peers[a] # NoPeer
        PROVE  peers'[a] # NoPeer /\ peers'[a].conn = peers[a].conn
    <3>1. peers[a] \in Peer
      BY <1>1, <2>2, TypesApply
    <3>2. [peers[a] EXCEPT !.query = q] \in Peer /\ [peers[a] EXCEPT !.query = q].conn = peers[a].conn
      BY <3>1 DEF Peer
    <3>3. NoPeer \notin Peer
      BY WebSocketsAssumption DEF Peer
    <3> QED
      BY <2>1, <2>2, <3>1, <3>2, <3>3
  <2>3. \A a \in Addrs : peers[a] = NoPeer => peers'[a] = NoPeer
    BY <2>1
  <2> QED
    BY <1>5, <2>2, <2>3, TasksStay DEF Filter, Ids
<1> QED
  BY <1>2, <1>3, <1>4, <1>5

\* What the actions of a task do to its connection.
LEMMA TaskMoves ==
  ASSUME TypeOK, TypeOK', NEW c \in Ids, NEW p, NEW x, x.pc = p, x.addr = conns[c].addr,
         conns' = [conns EXCEPT ![c] = x]
  PROVE  /\ Ids' = Ids /\ \A d \in Ids : conns'[d].addr = conns[d].addr
         /\ conns'[c].pc = p /\ \A d \in Ids \ {c} : conns'[d].pc = conns[d].pc
<1>1. DOMAIN conns' = Ids' /\ DOMAIN conns = Ids
  BY LenProperties DEF TypeOK, Ids
<1>2. DOMAIN conns' = DOMAIN conns
  OBVIOUS
<1> QED
  BY <1>1, <1>2

\* A task that registers takes its address's entry over.
LEMMA RegisterCore == ASSUME IInv, TypeOK', NEW c \in Ids, Register(c) PROVE Core'
<1> DEFINE x == [conns[c] EXCEPT !.pc = "open"]
<1>1. TypeOK /\ ListedIsAlive /\ RunningIsListed /\ MetIsKnown /\ conns[c] \in Connection
  BY TypesApply DEF IInv, Core
<1>2. x.pc = "open" /\ x.addr = conns[c].addr /\ conns' = [conns EXCEPT ![c] = x]
  BY <1>1 DEF Register, Connection
<1> HIDE DEF x
<1>3. /\ Ids' = Ids /\ \A d \in Ids : conns'[d].addr = conns[d].addr
      /\ conns'[c].pc = "open" /\ \A d \in Ids \ {c} : conns'[d].pc = conns[d].pc
  BY <1>1, <1>2, TaskMoves
<1> DEFINE e == [conn |-> c, query |-> NoFilter]
<1>4. conns[c].addr \in Addrs /\ conns[c].pc = "upgraded"
  BY <1>1 DEF Connection, Register
<1>5. peers' = [peers EXCEPT ![conns[c].addr] = e] /\ DOMAIN peers = Addrs
  BY DEF Register, IInv, TypeOK
<1>6. e.conn = c /\ e # NoPeer
  <2>1. c \in 1..MaxConns
    BY <1>1, TypesApply, WebSocketsAssumption DEF Ids
  <2> QED
    BY <2>1, WebSocketsAssumption
<1> HIDE DEF e
<1>7. peers'[conns[c].addr] = e /\ \A a \in Addrs : a # conns[c].addr => peers'[a] = peers[a]
  BY <1>4, <1>5
<1>8. \A d \in Ids : conns[d].addr \in Addrs
  BY <1>1, TypesApply DEF Connection
<1>9. /\ met \subseteq met'
      /\ \A d \in Ids : d # c /\ conns[d].addr = conns[c].addr /\ conns[d].pc \in Tasks
                         => d \in met' /\ c \in met'
  BY DEF Register, Tasks
<1>10. ListedIsAlive'
  BY <1>1, <1>3, <1>6, <1>7, TypesApply DEF ListedIsAlive
<1>11. RunningIsListed'
  BY <1>1, <1>3, <1>4, <1>6, <1>7, <1>8, <1>9 DEF RunningIsListed, Owns, Tasks
<1>12. MetIsKnown'
  BY <1>1, <1>3, <1>9 DEF MetIsKnown
<1> QED
  BY <1>10, <1>11, <1>12 DEF Core

\* An end of the task on the way to its clean-up, or before it was listed.
LEMMA EndingCore ==
  ASSUME IInv, TypeOK', NEW c \in Ids,
         UpgradeFails(c) \/ BadText(c) \/ EndOfStream(c) \/ SenderGone(c)
  PROVE  Core'
<1>1. TypeOK /\ ListedIsAlive /\ RunningIsListed /\ MetIsKnown /\ conns[c] \in Connection
  BY TypesApply DEF IInv, Core
<1>2. peers' = peers /\ met' = met
  BY DEF UpgradeFails, BadText, EndOfStream, SenderGone, Closing, history
<1>3. PICK p \in {"closing", "gone"} :
        /\ conns' = [conns EXCEPT ![c].pc = p]
        /\ IF p = "gone" THEN conns[c].pc = "upgraded" ELSE conns[c].pc = "open"
  BY DEF UpgradeFails, BadText, EndOfStream, SenderGone, Closing, Reading
<1> DEFINE x == [conns[c] EXCEPT !.pc = p]
<1>4. x.pc = p /\ x.addr = conns[c].addr /\ conns' = [conns EXCEPT ![c] = x]
  BY <1>1, <1>3 DEF Connection
<1> HIDE DEF x
<1>5. /\ Ids' = Ids /\ \A d \in Ids : conns'[d].addr = conns[d].addr
      /\ conns'[c].pc = p /\ \A d \in Ids \ {c} : conns'[d].pc = conns[d].pc
  BY <1>1, <1>4, TaskMoves
<1>6. ListedIsAlive'
  BY <1>1, <1>2, <1>3, <1>5, TypesApply DEF ListedIsAlive
<1>7. RunningIsListed'
  BY <1>1, <1>2, <1>3, <1>5 DEF RunningIsListed, Owns
<1>8. MetIsKnown'
  BY <1>1, <1>2, <1>3, <1>5 DEF MetIsKnown, Tasks
<1> QED
  BY <1>6, <1>7, <1>8 DEF Core

\* The clean-up: a running connection it could unlist is one it has met.
LEMMA RemoveCore == ASSUME IInv, TypeOK', NEW c \in Ids, Remove(c) PROVE Core'
<1> DEFINE y == [conns[c] EXCEPT !.pc = "gone"]
           z == [y EXCEPT !.queue = <<>>]
           x == [z EXCEPT !.up = FALSE]
<1>1. TypeOK /\ ListedIsAlive /\ RunningIsListed /\ MetIsKnown /\ conns[c] \in Connection
  BY TypesApply DEF IInv, Core
<1>2. x.pc = "gone" /\ x.addr = conns[c].addr
  <2>1. y.pc = "gone" /\ y.addr = conns[c].addr /\ DOMAIN y = DOMAIN conns[c]
    BY <1>1 DEF Connection
  <2>2. DOMAIN conns[c] = {"addr", "up", "queue", "pc"}
    BY <1>1 DEF Connection
  <2> HIDE DEF y
  <2>3. z.pc = "gone" /\ z.addr = conns[c].addr /\ DOMAIN z = DOMAIN y
    BY <2>1, <2>2
  <2> HIDE DEF z
  <2> QED
    BY <2>1, <2>2, <2>3
<1>3. conns' = [conns EXCEPT ![c] = x]
  BY DEF Remove
<1> HIDE DEF x
<1>4. /\ Ids' = Ids /\ \A d \in Ids : conns'[d].addr = conns[d].addr
      /\ conns'[c].pc = "gone" /\ \A d \in Ids \ {c} : conns'[d].pc = conns[d].pc
  BY <1>1, <1>2, <1>3, TaskMoves
<1>5. conns[c].addr \in Addrs /\ conns[c].pc = "closing"
  BY <1>1 DEF Remove, Connection
<1>6. /\ peers'[conns[c].addr] = NoPeer /\ met' = met
      /\ \A a \in Addrs : a # conns[c].addr => peers'[a] = peers[a]
  BY <1>1, <1>5 DEF Remove, TypeOK
<1>7. \A d \in Ids : conns[d].addr \in Addrs
  BY <1>1, TypesApply DEF Connection
<1>8. ListedIsAlive'
  BY <1>1, <1>4, <1>6, TypesApply DEF ListedIsAlive
<1>9. RunningIsListed'
  BY <1>1, <1>4, <1>5, <1>6, <1>7 DEF RunningIsListed, MetIsKnown, Owns, Tasks
<1>10. MetIsKnown'
  BY <1>1, <1>4, <1>6 DEF MetIsKnown, Tasks
<1> QED
  BY <1>8, <1>9, <1>10 DEF Core

-----------------------------------------------------------------------------
(* What reaches a connection, and what its entry says, action by action.     *)

\* Nothing was queued for, sent to or asked by a connection not listed yet.
Fresh(c) ==
  conns[c].pc = "upgraded" =>
    /\ conns[c].queue = <<>> /\ received[c] = <<>> /\ heard[c] = <<>>
    /\ asked[c] = NoFilter

\* DeliveredInOrder of one connection, a service peer's two sequences apart.
InOrder(c) ==
  /\ conns[c].pc = "open" /\ conns[c].up /\ c \notin met
       => received[c] \o conns[c].queue = heard[c]
  /\ IsService(conns[c].addr) => received[c] = <<>> /\ conns[c].queue = <<>>

\* FilterIsItsOwn of one connection.
QueryFits(c) == Owns(c) /\ c \notin met => peers[conns[c].addr].query = asked[c]

Flows(c) == Fresh(c) /\ InOrder(c) /\ QueryFits(c)

\* The inductive invariant of what flows: the one of the map, and Flows.
FlowInv == IInv /\ \A c \in Ids : Flows(c)

\* An owner is at its address, with its task still there.
LEMMA OwnersLive ==
  ASSUME IInv, NEW c \in Ids, Owns(c)
  PROVE  conns[c].pc \in Tasks
  BY TypesApply DEF IInv, Core, ListedIsAlive, Owns, Tasks, Connection

\* A connection of which a step changes nothing but, perhaps, who else was met.
LEMMA LeftAlone ==
  ASSUME NEW d \in Ids, Flows(d), conns'[d] = conns[d], received'[d] = received[d],
         heard'[d] = heard[d], asked'[d] = asked[d], met \subseteq met',
         Owns(d)' /\ d \notin met' =>
           Owns(d) /\ peers'[conns[d].addr].query = peers[conns[d].addr].query
  PROVE  Flows(d)'
<1>1. Fresh(d)'
  BY DEF Flows, Fresh
<1>2. InOrder(d)'
  BY DEF Flows, InOrder, IsService
<1>3. QueryFits(d)'
  BY DEF Flows, QueryFits
<1> QED
  BY <1>1, <1>2, <1>3 DEF Flows

\* A new connection has nothing queued, heard or asked.
LEMMA AcceptedFlows ==
  ASSUME FlowInv, TypeOK', NEW a \in Addrs, Accepted(a)
  PROVE  \A c \in Ids' : Flows(c)'
<1> DEFINE x == [addr |-> a, up |-> TRUE, queue |-> <<>>, pc |-> "upgraded"]
<1>0. PICK n : n = Len(conns) + 1
  OBVIOUS
<1>1. IInv /\ TypeOK /\ \A c \in Ids : Flows(c)
  BY DEF FlowInv, IInv
<1>2. x \in Connection /\ conns' = Append(conns, x)
  BY DEF Accepted, Connection
<1>3. x.pc = "upgraded" /\ x.queue = <<>> /\ x.addr = a
  OBVIOUS
<1> HIDE DEF x
<1>4. /\ Ids' = Ids \cup {n} /\ n \notin Ids /\ conns'[n] = x
      /\ \A d \in Ids : conns'[d] = conns[d]
  BY <1>0, <1>1, <1>2, NewConnection
<1>5. Len(conns) \in Nat /\ Ids = 1..Len(conns)
  BY <1>1, TypesApply DEF Ids
<1>6. /\ received'[n] = <<>> /\ heard'[n] = <<>> /\ asked'[n] = NoFilter
      /\ \A d \in Ids : received'[d] = received[d] /\ heard'[d] = heard[d] /\ asked'[d] = asked[d]
  <2>1. /\ received \in [1..Len(conns) -> Seq(Nat)] /\ heard \in [1..Len(conns) -> Seq(Nat)]
        /\ asked \in [1..Len(conns) -> Filters \cup {NoFilter}]
    BY <1>1, <1>5 DEF TypeOK
  <2>2. asked \in Seq(Filters \cup {NoFilter}) /\ Len(asked) = Len(conns)
    BY <1>5, <2>1
  <2>3. /\ received' = Append(received, <<>>) /\ heard' = Append(heard, <<>>)
        /\ asked' = Append(asked, NoFilter)
    BY DEF Accepted
  <2>4. received'[n] = <<>> /\ \A d \in Ids : received'[d] = received[d]
    BY <1>0, <1>5, <2>1, <2>3, NewEmpty
  <2>5. heard'[n] = <<>> /\ \A d \in Ids : heard'[d] = heard[d]
    BY <1>0, <1>5, <2>1, <2>3, NewEmpty
  <2>6. asked'[n] = NoFilter /\ \A d \in Ids : asked'[d] = asked[d]
    BY <1>0, <1>5, <2>2, <2>3
  <2> QED
    BY <2>4, <2>5, <2>6
<1>7. peers' = peers /\ met' = met
  BY DEF Accepted
<1>8. ASSUME NEW d \in Ids PROVE Flows(d)'
  BY <1>1, <1>4, <1>6, <1>7, LeftAlone DEF Owns
<1>9. Flows(n)'
  <2>1. ~Owns(n)'
    BY <1>1, <1>3, <1>4, <1>7, TypesApply DEF Owns
  <2> QED
    BY <1>3, <1>4, <1>6, <2>1 DEF Flows, Fresh, InOrder, QueryFits
<1> QED
  BY <1>4, <1>8, <1>9

\* A step of one connection that leaves the map alone.
LEMMA OneFlows ==
  ASSUME FlowInv, NEW c \in Ids, NEW x \in Connection, conns' = [conns EXCEPT ![c] = x],
         x.addr = conns[c].addr, peers' = peers, met' = met, asked' = asked,
         \A d \in Ids \ {c} : received'[d] = received[d] /\ heard'[d] = heard[d],
         Fresh(c)', InOrder(c)'
  PROVE  \A d \in Ids' : Flows(d)'
<1>1. TypeOK /\ \A d \in Ids : Flows(d)
  BY DEF FlowInv, IInv
<1>2. Ids' = Ids /\ conns'[c] = x /\ \A d \in Ids \ {c} : conns'[d] = conns[d]
  BY <1>1, OneConnection DEF Ids
<1>3. Flows(c)'
  BY <1>1, <1>2 DEF Flows, QueryFits, Owns
<1>4. ASSUME NEW d \in Ids, d # c PROVE Flows(d)'
  BY <1>1, <1>2, <1>4, LeftAlone DEF Owns
<1> QED
  BY <1>2, <1>3, <1>4

\* What a vanished peer has heard stays heard.
LEMMA VanishFlows == ASSUME FlowInv, NEW c \in Ids, Vanish(c) PROVE \A d \in Ids' : Flows(d)'
<1> DEFINE x == [conns[c] EXCEPT !.up = FALSE]
<1>1. TypeOK /\ Flows(c) /\ conns[c] \in Connection
  BY TypesApply DEF FlowInv, IInv
<1>2. /\ x \in Connection /\ x.addr = conns[c].addr /\ x.pc = conns[c].pc
      /\ x.queue = conns[c].queue /\ x.up = FALSE
  BY <1>1 DEF Connection
<1>3. conns' = [conns EXCEPT ![c] = x]
  BY DEF Vanish
<1> HIDE DEF x
<1>4. conns'[c] = x
  BY <1>1, <1>2, <1>3, OneConnection
<1>5. /\ received'[c] = <<>> /\ heard'[c] = <<>> /\ asked' = asked /\ peers' = peers /\ met' = met
      /\ \A d \in Ids \ {c} : received'[d] = received[d] /\ heard'[d] = heard[d]
  BY <1>1 DEF Vanish, TypeOK
<1>6. Fresh(c)'
  BY <1>1, <1>2, <1>4, <1>5 DEF Flows, Fresh
<1>7. InOrder(c)'
  BY <1>1, <1>2, <1>4, <1>5 DEF Flows, InOrder, IsService
<1> QED
  BY <1>2, <1>3, <1>5, <1>6, <1>7, OneFlows

\* What was queued reaches the client in its turn.
LEMMA ForwardFlows == ASSUME FlowInv, NEW c \in Ids, Forward(c) PROVE \A d \in Ids' : Flows(d)'
<1> DEFINE q == conns[c].queue
           x == [conns[c] EXCEPT !.queue = Tail(q)]
<1>1. TypeOK /\ Flows(c) /\ conns[c] \in Connection
  BY TypesApply DEF FlowInv, IInv
<1>2. q \in Seq(Nat) /\ q # <<>> /\ conns[c].pc = "open"
  BY <1>1 DEF Forward, Connection
<1>3. Tail(q) \in Seq(Nat) /\ Head(q) \in Nat /\ q = <<Head(q)>> \o Tail(q)
  BY <1>2, HeadTailProperties
<1>4. conns' = [conns EXCEPT ![c] = x]
  BY DEF Forward
<1>5. received' = IF conns[c].up THEN [received EXCEPT ![c] = Append(@, Head(q))] ELSE received
  BY DEF Forward
<1>6. q = conns[c].queue
  OBVIOUS
<1> HIDE DEF q
<1>7. /\ x \in Connection /\ x.addr = conns[c].addr /\ x.pc = conns[c].pc
      /\ x.queue = Tail(q) /\ x.up = conns[c].up
  BY <1>1, <1>3 DEF Connection
<1> HIDE DEF x
<1>8. conns'[c] = x
  BY <1>1, <1>4, <1>7, OneConnection
<1>9. /\ heard' = heard /\ asked' = asked /\ peers' = peers /\ met' = met
      /\ \A d \in Ids \ {c} : received'[d] = received[d]
      /\ received'[c] = IF conns[c].up THEN Append(received[c], Head(q)) ELSE received[c]
  <2>1. DOMAIN received = Ids
    BY <1>1 DEF TypeOK
  <2> QED
    BY <1>5, <2>1 DEF Forward
<1>10. Fresh(c)'
  BY <1>2, <1>7, <1>8 DEF Fresh
<1>11. ~IsService(conns[c].addr)
  BY <1>1, <1>2, <1>6 DEF Flows, InOrder
<1>12. conns[c].up => received'[c] \o Tail(q) = received[c] \o q
  <2> SUFFICES ASSUME conns[c].up PROVE received'[c] \o Tail(q) = received[c] \o q
    OBVIOUS
  <2>1. received[c] \in Seq(Nat) /\ <<Head(q)>> \in Seq(Nat)
    BY <1>1, <1>3 DEF TypeOK
  <2>2. received'[c] = received[c] \o <<Head(q)>>
    BY <1>3, <1>9, <2>1, AppendIsConcat
  <2>3. (received[c] \o <<Head(q)>>) \o Tail(q) = received[c] \o (<<Head(q)>> \o Tail(q))
    BY <1>3, <2>1, Concat3
  <2> QED
    BY <1>3, <2>2, <2>3
<1>13. InOrder(c)'
  BY <1>1, <1>2, <1>6, <1>7, <1>8, <1>9, <1>11, <1>12 DEF Flows, InOrder, IsService
<1> QED
  BY <1>4, <1>7, <1>9, <1>10, <1>13, OneFlows

\* An end of the task on the way to its clean-up, or before it was listed.
LEMMA EndingFlows ==
  ASSUME FlowInv, NEW c \in Ids,
         UpgradeFails(c) \/ BadText(c) \/ EndOfStream(c) \/ SenderGone(c)
  PROVE  \A d \in Ids' : Flows(d)'
<1>1. TypeOK /\ Flows(c) /\ conns[c] \in Connection
  BY TypesApply DEF FlowInv, IInv
<1>2. /\ peers' = peers /\ met' = met /\ asked' = asked
      /\ received' = received /\ heard' = heard
  BY DEF UpgradeFails, BadText, EndOfStream, SenderGone, Closing, history
<1>3. PICK p \in {"closing", "gone"} : conns' = [conns EXCEPT ![c].pc = p]
  BY DEF UpgradeFails, BadText, EndOfStream, SenderGone, Closing
<1> DEFINE x == [conns[c] EXCEPT !.pc = p]
<1>4. /\ x \in Connection /\ x.pc = p /\ x.addr = conns[c].addr
      /\ x.queue = conns[c].queue /\ conns' = [conns EXCEPT ![c] = x]
  BY <1>1, <1>3 DEF Connection
<1> HIDE DEF x
<1>5. conns'[c] = x
  BY <1>1, <1>4, OneConnection
<1>6. Fresh(c)'
  BY <1>4, <1>5 DEF Fresh
<1>7. InOrder(c)'
  BY <1>1, <1>2, <1>4, <1>5 DEF Flows, InOrder, IsService
<1> QED
  BY <1>2, <1>4, <1>6, <1>7, OneFlows

\* A connection is listed with nothing sent and nothing asked.
LEMMA RegisterFlows ==
  ASSUME FlowInv, IInv', NEW c \in Ids, Register(c)
  PROVE  \A d \in Ids' : Flows(d)'
<1> DEFINE x == [conns[c] EXCEPT !.pc = "open"]
<1>1. TypeOK /\ Flows(c) /\ conns[c] \in Connection /\ \A d \in Ids : Flows(d)
  BY TypesApply DEF FlowInv, IInv
<1>2. /\ x \in Connection /\ x.pc = "open" /\ x.addr = conns[c].addr
      /\ x.queue = conns[c].queue /\ conns' = [conns EXCEPT ![c] = x]
  BY <1>1 DEF Register, Connection
<1> HIDE DEF x
<1>3. Ids' = Ids /\ conns'[c] = x /\ \A d \in Ids \ {c} : conns'[d] = conns[d]
  BY <1>1, <1>2, OneConnection DEF Ids
<1>4. /\ conns[c].pc = "upgraded" /\ conns[c].addr \in Addrs
      /\ received' = received /\ heard' = heard /\ asked' = asked /\ met \subseteq met'
      /\ peers'[conns[c].addr].conn = c /\ peers'[conns[c].addr].query = NoFilter
      /\ \A a \in Addrs : a # conns[c].addr => peers'[a] = peers[a]
  BY <1>1 DEF Register, Connection, TypeOK
<1>5. Flows(c)'
  <2>1. received[c] \o <<>> = received[c]
    BY <1>1, <1>4 DEF Flows, Fresh
  <2>2. InOrder(c)'
    BY <1>1, <1>2, <1>3, <1>4, <2>1 DEF Flows, Fresh, InOrder
  <2>3. QueryFits(c)'
    BY <1>1, <1>2, <1>3, <1>4 DEF Flows, Fresh, QueryFits
  <2> QED
    BY <1>2, <1>3, <2>2, <2>3 DEF Flows, Fresh
<1>6. ASSUME NEW d \in Ids, d # c PROVE Flows(d)'
  <2>1. conns[d].addr \in Addrs
    BY <1>1, TypesApply DEF Connection
  <2>2. Owns(d)' => Owns(d) /\ peers'[conns[d].addr].query = peers[conns[d].addr].query
    BY <1>3, <1>4, <1>6, <2>1 DEF Owns
  <2> QED
    BY <1>1, <1>3, <1>4, <1>6, <2>2, LeftAlone
<1> QED
  BY <1>3, <1>5, <1>6

\* The filter goes to the entry of its own connection, but for those it has met.
LEMMA FilterFlows == ASSUME FlowInv, NEW c \in Ids, Filter(c) PROVE \A d \in Ids' : Flows(d)'
<1>1. IInv /\ TypeOK /\ \A d \in Ids : Flows(d)
  BY DEF FlowInv, IInv
<1>2. PICK q \in Filters :
        /\ asked' = [asked EXCEPT ![c] = q]
        /\ peers' = [a \in Addrs |-> IF a = conns[c].addr /\ peers[a] # NoPeer
                                      THEN [peers[a] EXCEPT !.query = q] ELSE peers[a]]
  BY DEF Filter
<1>3. /\ conns' = conns /\ Ids' = Ids /\ received' = received /\ heard' = heard /\ met' = met
      /\ conns[c].pc = "open"
  BY DEF Filter, Ids, Reading
<1>4. asked'[c] = q /\ \A d \in Ids : d # c => asked'[d] = asked[d]
  BY <1>1, <1>2 DEF TypeOK
<1>5. ASSUME NEW a \in Addrs, peers'[a] # NoPeer
      PROVE  /\ peers[a] # NoPeer /\ peers'[a].conn = peers[a].conn
             /\ peers'[a].query = IF a = conns[c].addr THEN q ELSE peers[a].query
  <2>1. peers[a] # NoPeer
    BY <1>2, <1>5
  <2>2. peers[a] \in Peer
    BY <1>1, <2>1, TypesApply
  <2> QED
    BY <1>2, <1>5, <2>1, <2>2 DEF Peer
<1>6. \A d \in Ids : conns[d].addr \in Addrs
  BY <1>1, TypesApply DEF Connection
<1>7. Flows(c)'
  <2>1. QueryFits(c)'
    BY <1>3, <1>4, <1>5, <1>6 DEF QueryFits, Owns
  <2> QED
    BY <1>1, <1>3, <2>1 DEF Flows, Fresh, InOrder, IsService
<1>8. ASSUME NEW d \in Ids, d # c PROVE Flows(d)'
  <2>1. Owns(d)' => Owns(d)
    BY <1>3, <1>5, <1>6 DEF Owns
  <2>2. ASSUME Owns(d)', d \notin met'
        PROVE  peers'[conns[d].addr].query = peers[conns[d].addr].query
    <3>1. conns[d].pc \in Tasks
      BY <1>1, <2>1, <2>2, OwnersLive
    <3>2. conns[d].addr # conns[c].addr
      BY <1>1, <1>3, <1>8, <2>2, <3>1 DEF IInv, Core, MetIsKnown, Tasks
    <3> QED
      BY <1>3, <1>5, <1>6, <2>2, <3>2 DEF Owns
  <2> QED
    BY <1>1, <1>3, <1>4, <1>8, <2>1, <2>2, LeftAlone
<1> QED
  BY <1>3, <1>7, <1>8

\* Who is removed has nothing more to hear; the others' flows are as they were.
LEMMA RemoveFlows == ASSUME FlowInv, NEW c \in Ids, Remove(c) PROVE \A d \in Ids' : Flows(d)'
<1> DEFINE y == [conns[c] EXCEPT !.pc = "gone"]
           z == [y EXCEPT !.queue = <<>>]
           x == [z EXCEPT !.up = FALSE]
<1>1. TypeOK /\ Flows(c) /\ conns[c] \in Connection /\ \A d \in Ids : Flows(d)
  BY TypesApply DEF FlowInv, IInv
<1>2. x \in Connection /\ x.pc = "gone" /\ x.queue = <<>> /\ x.addr = conns[c].addr
  <2>1. y \in Connection /\ y.pc = "gone" /\ y.addr = conns[c].addr
    BY <1>1 DEF Connection
  <2> HIDE DEF y
  <2>2. <<>> \in Seq(Nat)
    OBVIOUS
  <2>3. z \in Connection /\ z.pc = "gone" /\ z.addr = conns[c].addr /\ z.queue = <<>>
    BY <2>1, <2>2 DEF Connection
  <2> HIDE DEF z
  <2> QED
    BY <2>3 DEF Connection
<1>3. conns' = [conns EXCEPT ![c] = x]
  BY DEF Remove
<1> HIDE DEF x
<1>4. Ids' = Ids /\ conns'[c] = x /\ \A d \in Ids \ {c} : conns'[d] = conns[d]
  BY <1>1, <1>2, <1>3, OneConnection DEF Ids
<1>5. conns[c].addr \in Addrs
  BY <1>1 DEF Connection
<1>6. /\ received'[c] = <<>> /\ met' = met /\ peers'[conns[c].addr] = NoPeer
      /\ \A d \in Ids \ {c} :
           received'[d] = received[d] /\ heard'[d] = heard[d] /\ asked'[d] = asked[d]
      /\ \A a \in Addrs : a # conns[c].addr => peers'[a] = peers[a]
  BY <1>1, <1>5 DEF Remove, TypeOK
<1>7. Flows(c)'
  BY <1>2, <1>4, <1>6 DEF Flows, Fresh, InOrder, QueryFits, Owns
<1>8. ASSUME NEW d \in Ids, d # c PROVE Flows(d)'
  <2>1. conns[d].addr \in Addrs
    BY <1>1, TypesApply DEF Connection
  <2>2. Owns(d)' => Owns(d) /\ peers'[conns[d].addr].query = peers[conns[d].addr].query
    BY <1>4, <1>6, <1>8, <2>1 DEF Owns
  <2> QED
    BY <1>1, <1>4, <1>6, <1>8, <2>2, LeftAlone
<1> QED
  BY <1>4, <1>7, <1>8

\* Under the lock of the map a message goes to those listed, and those who run
\* are listed: who was named hears it, as often as named.
LEMMA SendFlows == ASSUME FlowInv, IInv', Send PROVE \A d \in Ids' : Flows(d)'
<1>1. IInv /\ TypeOK /\ TypeOK' /\ RunningIsListed
  BY DEF FlowInv, IInv, Core
<1>2. PICK to \in Lists :
       /\ conns' = [c \in Ids |->
            IF Owns(c) /\ ~IsService(conns[c].addr)
              THEN [conns[c] EXCEPT !.queue = @ \o Times(Copies(to, conns[c].addr), sent')]
              ELSE conns[c]]
       /\ heard' = [c \in Ids |->
            IF conns[c].pc = "open" /\ conns[c].up /\ ~IsService(conns[c].addr)
              THEN heard[c] \o Times(Named(to, conns[c].addr), sent') ELSE heard[c]]
  BY DEF Send
<1>3. Ids' = Ids
  <2>1. DOMAIN conns' = Ids
    BY <1>2
  <2>2. DOMAIN conns' = Ids'
    BY <1>1, LenProperties DEF TypeOK, Ids
  <2> QED
    BY <2>1, <2>2
<1>4. peers' = peers /\ met' = met /\ asked' = asked /\ received' = received
  BY DEF Send
<1>5. sent' \in Nat
  BY <1>1, WebSocketsAssumption DEF TypeOK
<1> SUFFICES ASSUME NEW c \in Ids PROVE Flows(c)'
  BY <1>3
<1> DEFINE more == Times(Named(to, conns[c].addr), sent')
<1>6. Flows(c) /\ conns[c] \in Connection /\ more \in Seq(Nat)
  BY <1>1, <1>5, TypesApply, NamedIsNat, TimesIsSeq DEF FlowInv
<1>7. /\ conns'[c] = IF Owns(c) /\ ~IsService(conns[c].addr)
                       THEN [conns[c] EXCEPT !.queue = @ \o more] ELSE conns[c]
      /\ heard'[c] = IF conns[c].pc = "open" /\ conns[c].up /\ ~IsService(conns[c].addr)
                       THEN heard[c] \o more ELSE heard[c]
  BY <1>2 DEF Copies
<1> HIDE DEF more
<1>8. /\ conns'[c].addr = conns[c].addr /\ conns'[c].pc = conns[c].pc /\ conns'[c].up = conns[c].up
      /\ conns'[c].queue = IF Owns(c) /\ ~IsService(conns[c].addr)
                             THEN conns[c].queue \o more ELSE conns[c].queue
  BY <1>6, <1>7 DEF Connection
<1>9. Fresh(c)'
  <2>1. conns[c].pc = "upgraded" => ~Owns(c)
    BY <1>1, OwnersLive DEF Tasks
  <2> QED
    BY <1>4, <1>6, <1>7, <1>8, <2>1 DEF Flows, Fresh
<1>10. InOrder(c)'
  <2>1. received[c] \in Seq(Nat) /\ conns[c].queue \in Seq(Nat)
    BY <1>1, <1>6 DEF TypeOK, Connection
  <2>2. (received[c] \o conns[c].queue) \o more = received[c] \o (conns[c].queue \o more)
    BY <1>6, <2>1, Concat3
  <2>3. conns[c].pc = "open" /\ c \notin met => Owns(c)
    BY <1>1 DEF RunningIsListed
  <2>4. ASSUME conns[c].pc = "open", conns[c].up, c \notin met
        PROVE  received[c] \o conns'[c].queue = heard'[c]
    <3>1. Owns(c) /\ received[c] \o conns[c].queue = heard[c]
      BY <1>6, <2>3, <2>4 DEF Flows, InOrder
    <3>2. CASE IsService(conns[c].addr)
      BY <1>7, <1>8, <3>1, <3>2
    <3>3. CASE ~IsService(conns[c].addr)
      BY <1>7, <1>8, <2>2, <2>4, <3>1, <3>3
    <3> QED
      BY <3>2, <3>3
  <2>5. IsService(conns[c].addr) => received[c] = <<>> /\ conns'[c].queue = <<>>
    BY <1>6, <1>8 DEF Flows, InOrder
  <2> QED
    BY <1>4, <1>8, <2>4, <2>5 DEF InOrder, IsService
<1>11. QueryFits(c)'
  BY <1>4, <1>6, <1>8 DEF Flows, QueryFits, Owns
<1> QED
  BY <1>9, <1>10, <1>11 DEF Flows

-----------------------------------------------------------------------------
(* The theorems.                                                             *)

\* Nobody is connected at first.
LEMMA InitInv == Init => IInv
<1> SUFFICES ASSUME Init PROVE IInv
  OBVIOUS
<1>1. Len(conns) = 0 /\ Ids = {}
  BY DEF Init, Ids
<1>2. TypeOK
  <2>1. \A S : <<>> \in Seq(S) /\ <<>> \in [{} -> S]
    OBVIOUS
  <2>2. Len(conns) <= MaxConns /\ sent \in 0..MaxSent /\ client \in 0..Len(conns)
    BY <1>1, WebSocketsAssumption DEF Init
  <2> QED
    BY <1>1, <2>1, <2>2 DEF Init, TypeOK
<1>3. Core
  BY <1>1 DEF Init, Core, ListedIsAlive, RunningIsListed, MetIsKnown
<1> QED
  BY <1>2, <1>3 DEF IInv

\* Every step keeps who is listed.
LEMMA NextInv == IInv /\ [Next]_vars => IInv'
<1> SUFFICES ASSUME IInv, [Next]_vars PROVE IInv'
  OBVIOUS
<1>1. TypeOK'
  BY NextTypes DEF IInv
<1>2. CASE UNCHANGED vars
  BY <1>1, <1>2, TasksStay DEF IInv, vars, Ids
<1>3. CASE Connect \/ HealthCheck
  BY <1>1, <1>3, AcceptedCore, WebSocketsAssumption DEF IInv, Connect, HealthCheck
<1>4. CASE Serve \/ Send \/ \E c \in Ids : Vanish(c) \/ Filter(c) \/ Forward(c)
  BY <1>1, <1>4, StayingCore DEF IInv
<1>5. ASSUME NEW c \in Ids, BadText(c) \/ Work(c) PROVE IInv'
  BY <1>1, <1>5, RegisterCore, EndingCore, RemoveCore DEF IInv, Work
<1> QED
  BY <1>2, <1>3, <1>4, <1>5 DEF Next

\* Who is listed, at all times.
LEMMA AlwaysIInv == Spec => []IInv
<1> QED
  BY InitInv, NextInv, PTL DEF Spec

\* The variables of the websocket server keep their types.
THEOREM TypeCorrect == Spec => []TypeOK
<1>1. IInv => TypeOK
  BY DEF IInv
<1> QED
  BY <1>1, AlwaysIInv, PTL

\* Nobody is listed whose task is over, on any path through accept_connection and
\* however addresses are used again: get_peers names connections that exist.
THEOREM NobodyGoneIsListed == Spec => []ListedIsAlive
<1>1. IInv => ListedIsAlive
  BY DEF IInv, Core
<1> QED
  BY <1>1, AlwaysIInv, PTL

\* Only two tasks at one address at the same time can unlist a connection whose
\* task runs: whatever all other connections do, it stays in the map.
THEOREM EverybodyThereIsListed == Spec => []RunningIsListed
<1>1. IInv => RunningIsListed
  BY DEF IInv, Core
<1> QED
  BY <1>1, AlwaysIInv, PTL

\* Nothing flows at first.
LEMMA InitFlows == Init => FlowInv
<1>1. Init => Ids = {}
  BY DEF Init, Ids
<1> QED
  BY <1>1, InitInv DEF FlowInv

\* Every step keeps what flows.
LEMMA NextFlows == FlowInv /\ [Next]_vars => FlowInv'
<1> SUFFICES ASSUME FlowInv, [Next]_vars PROVE FlowInv'
  OBVIOUS
<1>1. IInv /\ IInv' /\ TypeOK' /\ \A c \in Ids : Flows(c)
  BY NextInv DEF FlowInv, IInv
<1>2. CASE Serve \/ UNCHANGED vars
  <2>1. /\ Ids' = Ids /\ conns' = conns /\ peers' = peers /\ met' = met
        /\ received' = received /\ heard' = heard /\ asked' = asked
    BY <1>2 DEF Serve, vars, history, Ids
  <2>2. ASSUME NEW c \in Ids PROVE Flows(c)'
    BY <1>1, <2>1, LeftAlone DEF Owns
  <2> QED
    BY <1>1, <2>1, <2>2 DEF FlowInv
<1>3. CASE Connect \/ HealthCheck
  BY <1>1, <1>3, AcceptedFlows, WebSocketsAssumption DEF FlowInv, Connect, HealthCheck
<1>4. CASE Send
  BY <1>1, <1>4, SendFlows DEF FlowInv
<1>5. ASSUME NEW c \in Ids, Vanish(c) \/ Filter(c) \/ BadText(c) \/ Forward(c) \/ Work(c)
      PROVE  FlowInv'
  BY <1>1, <1>5, VanishFlows, FilterFlows, EndingFlows, ForwardFlows, RegisterFlows, RemoveFlows
     DEF FlowInv, Work
<1> QED
  BY <1>2, <1>3, <1>4, <1>5 DEF Next

\* What flows, at all times.
LEMMA AlwaysFlows == Spec => []FlowInv
<1> QED
  BY InitFlows, NextFlows, PTL DEF Spec

\* A connection that runs alone at its address was sent, or has in its queue,
\* exactly what was sent to it since it was listed, in order and as often as it
\* was named, and a service peer nothing: of any number of connections, guests'
\* messages and recipients, and however they interleave with its writing half.
THEOREM SentInOrder == Spec => []DeliveredInOrder
<1>1. FlowInv => DeliveredInOrder
  <2>1. <<>> \o <<>> = <<>>
    OBVIOUS
  <2> QED
    BY <2>1 DEF FlowInv, Flows, InOrder, DeliveredInOrder
<1> QED
  BY <1>1, AlwaysFlows, PTL

\* get_peers answers for a connection with the filter its own client sent last,
\* though the reading half finds the entry by address and not by connection.
THEOREM QueriesAreTheirOwn == Spec => []FilterIsItsOwn
<1>1. FlowInv => FilterIsItsOwn
  BY DEF FlowInv, Flows, QueryFits, FilterIsItsOwn
<1> QED
  BY <1>1, AlwaysFlows, PTL
=============================================================================
