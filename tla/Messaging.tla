----------------------------- MODULE Messaging ------------------------------
(***************************************************************************)
(* The wasi-messaging host: message resources (host/types_impl.rs), the    *)
(* producer and request-reply functions, the in-memory broker              *)
(* (host/default_impl.rs, a tokio broadcast channel) and the server that   *)
(* feeds messages to guest instances (host/server.rs).                     *)
(*                                                                         *)
(* The broker keeps the last Cap messages for whoever subscribed before    *)
(* they were sent.  The server is the one subscriber that reads: it takes  *)
(* message after message and spawns a task for each, which makes an        *)
(* instance, hands it the message and logs a failure.  Guests - handlers   *)
(* and instances serving other triggers - send to the same broker.         *)
(***************************************************************************)
EXTENDS Integers, Sequences, FiniteSets

CONSTANTS
  Guests,    \* instances alive at one time
  Topics,
  Payloads,
  MetaKeys,  \* keys a message's metadata may have; their values are left out
  None,      \* what marks a message without metadata
  NoTopic,   \* the topic of a message that was not sent: the empty string
  Response,  \* the topic of the broker's answer to a request
  Ack,       \* the payload of that answer
  Slots,     \* message handles a guest can hold (bound)
  Cap,       \* capacity of the channel (32)
  MaxSent    \* bound on the messages sent

ASSUME MessagingAssumption ==
  /\ Cap \in Nat \ {0} /\ MaxSent \in Nat
  /\ None \notin MetaKeys
  /\ NoTopic \notin Topics /\ Ack \notin Payloads

VARIABLES
  log,      \* every message sent, in order; the channel holds the last Cap
  next,     \* the message the server's stream reads next; 0 before it subscribes
  pending,  \* messages whose task is spawned and has no instance yet
  inst,     \* inst[g]: the instance in slot g
  handed,   \* history: the messages handed to a task, in order
  since,    \* history: the first message the subscription covers
  ended     \* history: messages whose handler has returned

vars == <<log, next, pending, inst, handed, since, ended>>
history == <<handed, since, ended>>

NoMeta == {None}    \* metadata: None, which is not the empty map
Message == [topic: Topics \cup {NoTopic, Response}, data: Payloads \cup {Ack},
            meta: (SUBSET MetaKeys) \cup {NoMeta}]
Free == [free |-> TRUE]
NoInstance == [role |-> "none"]
\* table: the handles the guest holds; leaked: whether the resource table has
\* entries no handle reaches; of: the message a handler was spawned for.
Instance == [role: {"handler", "other"}, of: Nat, table: [Slots -> Message \cup {Free}],
             leaked: BOOLEAN]

Init ==
  /\ log = <<>> /\ next = 0 /\ pending = {}
  /\ inst = [g \in Guests |-> NoInstance]
  /\ handed = <<>> /\ since = 0 /\ ended = {}

NewMessage(d) == [topic |-> NoTopic, data |-> d, meta |-> NoMeta]
Answer == [topic |-> Response, data |-> Ack, meta |-> NoMeta]
NewTable == [s \in Slots |-> Free]

-----------------------------------------------------------------------------
(* The server.                                                               *)

\* A fault: the first message to come is left out.
SubscribePast ==
  /\ next = 0
  /\ next' = Len(log) + 2 /\ since' = Len(log) + 1
  /\ UNCHANGED <<log, pending, inst, handed, ended>>

\* subscribe: a receiver that starts after the last message sent so far.
Subscribe ==
  /\ next = 0
  /\ next' = Len(log) + 1 /\ since' = Len(log) + 1
  /\ UNCHANGED <<log, pending, inst, handed, ended>>

\* The oldest message the channel still holds; or, a fault, the one after it.
OldestButOne == IF Len(log) > Cap THEN Len(log) - Cap + 2 ELSE 1
Oldest == IF Len(log) > Cap THEN Len(log) - Cap + 1 ELSE 1

\* A fault: a receiver that fell behind reads no more.
ReceiveUntilLagged ==
  /\ next # 0 /\ next <= Len(log) /\ next >= Oldest
  /\ next' = next + 1
  /\ pending' = pending \cup {next}
  /\ handed' = Append(handed, next)
  /\ UNCHANGED <<log, inst, since, ended>>

\* stream.next(): a receiver that fell behind skips to the oldest message left
\* (the Lagged error is filtered out of the stream); any other read is spawned.
Receive ==
  /\ next # 0 /\ next <= Len(log)
  /\ IF next < Oldest
       THEN next' = Oldest /\ UNCHANGED <<pending, handed>>
       ELSE /\ next' = next + 1
            /\ pending' = pending \cup {next}
            /\ handed' = Append(handed, next)
  /\ UNCHANGED <<log, inst, since, ended>>

\* A fault: the message is not taken, and another instance is made for it.
InstantiateTwice(g) ==
  /\ inst[g] = NoInstance
  /\ \E i \in pending, s \in Slots :
       inst' = [inst EXCEPT ![g] = [role |-> "handler", of |-> i, leaked |-> FALSE,
                                    table |-> [NewTable EXCEPT ![s] = log[i]]]]
  /\ UNCHANGED <<log, next, pending, history>>

\* A spawned task makes its instance, with the message in a fresh table.
Instantiate(g) ==
  /\ inst[g] = NoInstance
  /\ \E i \in pending, s \in Slots :
       /\ pending' = pending \ {i}
       /\ inst' = [inst EXCEPT ![g] = [role |-> "handler", of |-> i, leaked |-> FALSE,
                                       table |-> [NewTable EXCEPT ![s] = log[i]]]]
  /\ UNCHANGED <<log, next, history>>

\* Making the instance fails: the error is logged, the server goes on.
FailToInstantiate ==
  /\ \E i \in pending : pending' = pending \ {i}
  /\ UNCHANGED <<log, next, inst, history>>

\* The guest's handler returns or traps; its store goes, table and all.
Exit(g) ==
  /\ inst[g] # NoInstance
  /\ inst' = [inst EXCEPT ![g] = NoInstance]
  /\ ended' = IF inst[g].role = "handler" THEN ended \cup {inst[g].of} ELSE ended
  /\ UNCHANGED <<log, next, pending, handed, since>>

\* An instance made for something else (an HTTP request, a socket message).
Enter(g) ==
  /\ inst[g] = NoInstance
  /\ inst' = [inst EXCEPT ![g] = [role |-> "other", of |-> 0, leaked |-> FALSE, table |-> NewTable]]
  /\ UNCHANGED <<log, next, pending, history>>

-----------------------------------------------------------------------------
(* What a guest may do with messages.                                        *)

Holds(g, s) == inst[g] # NoInstance /\ inst[g].table[s] # Free

\* message.new.
Create(g) ==
  /\ inst[g] # NoInstance
  /\ \E s \in Slots, d \in Payloads :
       /\ inst[g].table[s] = Free
       /\ inst' = [inst EXCEPT ![g].table[s] = NewMessage(d)]
  /\ UNCHANGED <<log, next, pending, history>>

\* The handle is dropped.
Drop(g) ==
  /\ \E s \in Slots : Holds(g, s) /\ inst' = [inst EXCEPT ![g].table[s] = Free]
  /\ UNCHANGED <<log, next, pending, history>>

Keys(m) == IF m.meta = NoMeta THEN {} ELSE m.meta
\* The broker's edited copies of m: set_payload, add_metadata (set_content_type
\* is one), set_metadata, remove_metadata.
WithData(m, d) == [m EXCEPT !.data = d]
WithKey(m, k) == [m EXCEPT !.meta = Keys(m) \cup {k}]
WithMeta(m, keys) == [m EXCEPT !.meta = keys]
WithoutKey(m, k) == IF m.meta = NoMeta THEN m ELSE [m EXCEPT !.meta = @ \ {k}]
Edits(m) ==
  {WithData(m, d) : d \in Payloads} \cup {WithKey(m, k) : k \in MetaKeys}
  \cup {WithMeta(m, keys) : keys \in SUBSET MetaKeys} \cup {WithoutKey(m, k) : k \in MetaKeys}

\* Every setter pushes the edited copy as a new entry, whose handle it throws
\* away; the guest's own handle keeps the message it had.
Edit(g, s, copy) ==
  /\ Holds(g, s)
  /\ copy \in Edits(inst[g].table[s])
  /\ inst' = [inst EXCEPT ![g].leaked = TRUE]
  /\ UNCHANGED <<log, next, pending, history>>

Publish(g, s, t) ==
  /\ Holds(g, s)
  /\ Len(log) < MaxSent
  /\ log' = Append(log, [inst[g].table[s] EXCEPT !.topic = t])

\* producer.send: a copy under the topic; it never waits for a reader.
Send(g) ==
  /\ \E s \in Slots, t \in Topics : Publish(g, s, t)
  /\ UNCHANGED <<next, pending, inst, history>>

\* request_reply.request: publishes, then answers itself; options are ignored.
Request(g) ==
  /\ \E s \in Slots, t \in Topics, a \in Slots :
       /\ Publish(g, s, t)
       /\ inst[g].table[a] = Free
       /\ inst' = [inst EXCEPT ![g].table[a] = Answer]
  /\ UNCHANGED <<next, pending, history>>

Edited(g) == \E s \in Slots : Holds(g, s) /\ \E copy \in Edits(inst[g].table[s]) : Edit(g, s, copy)

Next ==
  \/ Subscribe \/ Receive \/ FailToInstantiate
  \/ \E g \in Guests : \/ Instantiate(g) \/ Exit(g) \/ Enter(g)
                       \/ Create(g) \/ Drop(g) \/ Edited(g) \/ Send(g) \/ Request(g)

Spec == Init /\ [][Next]_vars

\* The server's task is polled while there is something to read.
FairSpec == Spec /\ WF_vars(Subscribe) /\ WF_vars(Receive)

-----------------------------------------------------------------------------
(* Properties.                                                               *)

\* Messages, instances and the reader's position keep their types.
TypeOK ==
  /\ log \in Seq(Message) /\ Len(log) <= MaxSent
  /\ next \in 0..(Len(log) + 1) /\ since \in 0..next
  /\ inst \in [Guests -> {NoInstance} \cup Instance]
  /\ pending \subseteq 1..Len(log) /\ ended \subseteq 1..Len(log)
  /\ handed \in Seq(1..Len(log))

\* A message is handed out at most once and in the order of sending, only after the
\* server subscribed, and never runs in two instances: spawned and not yet
\* instantiated, being handled and handled exclude each other.
HandedOnceInOrder ==
  /\ \A a, b \in DOMAIN handed : a < b => handed[a] < handed[b]
  /\ \A a \in DOMAIN handed : handed[a] \in since..(next - 1)
  /\ \A g \in Guests : inst[g].role = "handler" =>
       /\ \E a \in DOMAIN handed : handed[a] = inst[g].of
       /\ inst[g].of \notin pending \cup ended
       /\ \A h \in Guests : h # g /\ inst[h].role = "handler" => inst[h].of # inst[g].of

\* What the server skipped had been overwritten: a message inside the subscription
\* and behind the reader was handed out, or Cap newer ones were sent meanwhile.
SkippedOnlyWhenOverwritten ==
  \A i \in since..(next - 1) :
    since > 0 => (\E a \in DOMAIN handed : handed[a] = i) \/ Len(log) - i >= Cap

\* Every message sent once the server has subscribed is handed to a handler, unless
\* the channel overwrote it first; a failing handler does not stop the server.
DeliveredOrOverwritten ==
  \A i \in 1..MaxSent :
    (since > 0 /\ i >= since /\ i <= Len(log))
      ~> ((\E a \in DOMAIN handed : handed[a] = i) \/ Len(log) - i >= Cap)
=============================================================================
