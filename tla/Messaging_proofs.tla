-------------------------- MODULE Messaging_proofs ---------------------------
(***************************************************************************)
(* Theorems about Messaging for any guests, topics, metadata, capacity and *)
(* number of messages: what the server hands out, and what it skips.       *)
(***************************************************************************)
EXTENDS Messaging, TLAPS

\* Message i was handed to a task.
Was(i) == \E a \in DOMAIN handed : handed[a] = i

\* There is a position to read from, and something was handed out, only after the
\* server subscribed.
ReaderStarts == (next = 0 <=> since = 0) /\ (next = 0 => handed = <<>>)

\* Spawned tasks and handlers that returned had been handed out, and are not the same.
TasksAreHanded ==
  /\ \A i \in pending : Was(i) /\ i \notin ended
  /\ \A i \in ended : Was(i)

IInv ==
  /\ TypeOK /\ ReaderStarts /\ TasksAreHanded
  /\ HandedOnceInOrder /\ SkippedOnlyWhenOverwritten

\* The types of one instance: one that is there is an Instance.
LEMMA ThereIsInstance ==
  ASSUME TypeOK, NEW g \in Guests, inst[g] # NoInstance \/ inst[g].role = "handler"
  PROVE  inst[g] \in Instance /\ inst[g] # NoInstance
BY DEF TypeOK, NoInstance

\* Nothing is there where no instance is.
LEMMA NobodyThere == NoInstance \notin Instance /\ NoInstance.role = "none"
BY DEF NoInstance, Instance

\* Nobody subscribed and nothing sent satisfies the invariant.
LEMMA InitHolds == Init => IInv
<1> SUFFICES ASSUME Init PROVE IInv
  OBVIOUS
<1>1. TypeOK
  BY MessagingAssumption DEF Init, TypeOK
<1>2. ReaderStarts /\ TasksAreHanded
  BY DEF Init, ReaderStarts, TasksAreHanded
<1>3. HandedOnceInOrder
  BY NobodyThere DEF Init, HandedOnceInOrder
<1>4. SkippedOnlyWhenOverwritten
  BY DEF Init, SkippedOnlyWhenOverwritten
<1> QED
  BY <1>1, <1>2, <1>3, <1>4 DEF IInv

-----------------------------------------------------------------------------
(* Types.                                                                    *)

\* More messages: what was typed by their number still is.
LEMMA MoreMessages ==
  ASSUME NEW n \in Nat, NEW s \in Seq(1..n)
  PROVE  s \in Seq(1..(n + 1))
OBVIOUS

\* Instances change: one at g appears, changes or goes.
LEMMA OneInstance ==
  ASSUME TypeOK, NEW g \in Guests, NEW x \in Instance \cup {NoInstance}, inst' = [inst EXCEPT ![g] = x]
  PROVE  /\ inst' \in [Guests -> {NoInstance} \cup Instance]
         /\ inst'[g] = x /\ \A h \in Guests : h # g => inst'[h] = inst[h]
BY DEF TypeOK

\* What the guests put in their tables are messages.
LEMMA TableTypes ==
  ASSUME TypeOK
  PROVE  /\ NewTable \in [Slots -> Message \cup {Free}]
         /\ Answer \in Message /\ \A d \in Payloads : NewMessage(d) \in Message
         /\ \A i \in 1..Len(log) : log[i] \in Message
<1>1. NewTable \in [Slots -> Message \cup {Free}]
  BY DEF NewTable
<1>2. Answer \in Message /\ \A d \in Payloads : NewMessage(d) \in Message
  BY DEF Answer, NewMessage, Message, NoMeta
<1>3. log \in Seq(Message)
  BY DEF TypeOK
<1>4. \A i \in 1..Len(log) : log[i] \in Message
  BY <1>3
<1> QED
  BY <1>1, <1>2, <1>4

\* A table of an instance with one slot changed.
LEMMA OneSlot ==
  ASSUME NEW x \in Instance, NEW s \in Slots, NEW m \in Message \cup {Free}
  PROVE  LET y == [x EXCEPT !.table[s] = m] IN
         y \in Instance /\ y.role = x.role /\ y.of = x.of
BY DEF Instance

-----------------------------------------------------------------------------
(* Steps of guests that neither begin nor end a handler.                     *)

\* The log may grow; the server's side and the handlers stay.
LEMMA GuestsKeep ==
  ASSUME IInv, UNCHANGED <<next, pending, history>>,
         log' = log \/ (Len(log) < MaxSent /\ \E m \in Message : log' = Append(log, m)),
         inst' \in [Guests -> {NoInstance} \cup Instance],
         \A h \in Guests : inst'[h].role = "handler" => inst[h].role = "handler" /\ inst'[h].of = inst[h].of
  PROVE  IInv'
<1>1. log \in Seq(Message) /\ Len(log) \in Nat /\ Len(log) <= MaxSent /\ MaxSent \in Nat
  BY MessagingAssumption DEF IInv, TypeOK
<1>2. /\ log' \in Seq(Message) /\ Len(log') \in Nat /\ Len(log') <= MaxSent
      /\ Len(log') = Len(log) \/ Len(log') = Len(log) + 1
  BY <1>1
<1>3. TypeOK'
  <2>1. next' \in 0..(Len(log') + 1) /\ since' \in 0..next'
    BY <1>1, <1>2 DEF IInv, TypeOK, history
  <2>2. pending' \subseteq 1..Len(log') /\ ended' \subseteq 1..Len(log')
    BY <1>1, <1>2 DEF IInv, TypeOK, history
  <2>3. handed' \in Seq(1..Len(log'))
    BY <1>1, <1>2, MoreMessages DEF IInv, TypeOK, history
  <2> QED
    BY <1>2, <2>1, <2>2, <2>3 DEF TypeOK
<1>4. ReaderStarts' /\ TasksAreHanded'
  BY DEF IInv, ReaderStarts, TasksAreHanded, Was, history
<1>5. HandedOnceInOrder'
  BY DEF IInv, HandedOnceInOrder, history
<1>6. SkippedOnlyWhenOverwritten'
  <2> SUFFICES ASSUME NEW i \in since..(next - 1), since > 0
               PROVE  Was(i) \/ Len(log') - i >= Cap
    BY DEF SkippedOnlyWhenOverwritten, Was, history
  <2>1. Was(i) \/ Len(log) - i >= Cap
    BY DEF IInv, SkippedOnlyWhenOverwritten, Was
  <2>2. i \in Int /\ Cap \in Nat
    BY MessagingAssumption
  <2> QED
    BY <1>1, <1>2, <2>1, <2>2
<1> QED
  BY <1>3, <1>4, <1>5, <1>6 DEF IInv

\* One guest's table changes.
LEMMA TableKeeps ==
  ASSUME IInv, NEW g \in Guests, inst[g] # NoInstance, NEW x \in Instance,
         x.role = inst[g].role, x.of = inst[g].of, inst' = [inst EXCEPT ![g] = x],
         UNCHANGED <<next, pending, history>>,
         log' = log \/ (Len(log) < MaxSent /\ \E m \in Message : log' = Append(log, m))
  PROVE  IInv'
<1>1. /\ inst' \in [Guests -> {NoInstance} \cup Instance]
      /\ inst'[g] = x /\ \A h \in Guests : h # g => inst'[h] = inst[h]
  BY OneInstance DEF IInv
<1> QED
  BY <1>1, GuestsKeep

\* What is published is a message.
LEMMA Published ==
  ASSUME IInv, NEW g \in Guests, NEW s \in Slots, NEW t \in Topics, Publish(g, s, t)
  PROVE  Len(log) < MaxSent /\ \E m \in Message : log' = Append(log, m)
<1>1. inst[g] \in Instance /\ inst[g].table[s] # Free
  BY ThereIsInstance DEF Publish, Holds, IInv
<1>2. inst[g].table[s] \in Message
  BY <1>1 DEF Instance
<1>3. [inst[g].table[s] EXCEPT !.topic = t] \in Message
  BY <1>2 DEF Message
<1> QED
  BY <1>3 DEF Publish

\* Instances made for something else, and all that guests do with messages.
LEMMA GuestStepsKeep ==
  ASSUME IInv, NEW g \in Guests,
         Enter(g) \/ Create(g) \/ Drop(g) \/ Edited(g) \/ Send(g) \/ Request(g)
  PROVE  IInv'
<1>1. CASE Enter(g)
  <2> DEFINE x == [role |-> "other", of |-> 0, leaked |-> FALSE, table |-> NewTable]
  <2>1. x \in Instance /\ x.role # "handler"
    BY TableTypes DEF Instance, IInv
  <2>2. inst' = [inst EXCEPT ![g] = x] /\ log' = log /\ UNCHANGED <<next, pending, history>>
    BY <1>1 DEF Enter
  <2> HIDE DEF x
  <2>3. /\ inst' \in [Guests -> {NoInstance} \cup Instance]
        /\ inst'[g] = x /\ \A h \in Guests : h # g => inst'[h] = inst[h]
    BY <2>1, <2>2, OneInstance DEF IInv
  <2> QED
    BY <2>1, <2>2, <2>3, GuestsKeep
<1>2. CASE Create(g)
  <2>1. PICK s \in Slots, d \in Payloads :
          inst' = [inst EXCEPT ![g].table[s] = NewMessage(d)] /\ inst[g] # NoInstance
          /\ log' = log /\ UNCHANGED <<next, pending, history>>
    BY <1>2 DEF Create
  <2> DEFINE x == [inst[g] EXCEPT !.table[s] = NewMessage(d)]
  <2>2. x \in Instance /\ x.role = inst[g].role /\ x.of = inst[g].of
    BY <2>1, ThereIsInstance, TableTypes, OneSlot DEF IInv
  <2>3. inst' = [inst EXCEPT ![g] = x]
    BY <2>1
  <2> HIDE DEF x
  <2> QED
    BY <2>1, <2>2, <2>3, TableKeeps
<1>3. CASE Drop(g)
  <2>1. PICK s \in Slots :
          inst' = [inst EXCEPT ![g].table[s] = Free] /\ inst[g] # NoInstance
          /\ log' = log /\ UNCHANGED <<next, pending, history>>
    BY <1>3 DEF Drop, Holds
  <2> DEFINE x == [inst[g] EXCEPT !.table[s] = Free]
  <2>2. x \in Instance /\ x.role = inst[g].role /\ x.of = inst[g].of
    BY <2>1, ThereIsInstance, OneSlot DEF IInv
  <2>3. inst' = [inst EXCEPT ![g] = x]
    BY <2>1
  <2> HIDE DEF x
  <2> QED
    BY <2>1, <2>2, <2>3, TableKeeps
<1>4. CASE Edited(g)
  <2>1. inst' = [inst EXCEPT ![g].leaked = TRUE] /\ inst[g] # NoInstance
        /\ log' = log /\ UNCHANGED <<next, pending, history>>
    BY <1>4 DEF Edited, Edit, Holds
  <2> DEFINE x == [inst[g] EXCEPT !.leaked = TRUE]
  <2>2. inst[g] \in Instance
    BY <2>1, ThereIsInstance DEF IInv
  <2>3. x \in Instance /\ x.role = inst[g].role /\ x.of = inst[g].of
    BY <2>2 DEF Instance
  <2>4. inst' = [inst EXCEPT ![g] = x]
    BY <2>1
  <2> HIDE DEF x
  <2> QED
    BY <2>1, <2>3, <2>4, TableKeeps
<1>5. CASE Send(g)
  <2>1. PICK s \in Slots, t \in Topics : Publish(g, s, t)
    BY <1>5 DEF Send
  <2>2. inst' = inst /\ UNCHANGED <<next, pending, history>>
    BY <1>5 DEF Send
  <2> QED
    BY <2>1, <2>2, Published, GuestsKeep DEF IInv, TypeOK
<1>6. CASE Request(g)
  <2>1. PICK s \in Slots, t \in Topics, a \in Slots :
          Publish(g, s, t) /\ inst' = [inst EXCEPT ![g].table[a] = Answer]
    BY <1>6 DEF Request
  <2> DEFINE x == [inst[g] EXCEPT !.table[a] = Answer]
  <2>2. inst[g] # NoInstance /\ inst[g] \in Instance
    BY <2>1, ThereIsInstance DEF IInv, Publish, Holds
  <2>3. x \in Instance /\ x.role = inst[g].role /\ x.of = inst[g].of
    BY <2>2, TableTypes, OneSlot DEF IInv
  <2>4. inst' = [inst EXCEPT ![g] = x] /\ UNCHANGED <<next, pending, history>>
    BY <1>6, <2>1 DEF Request
  <2> HIDE DEF x
  <2> QED
    BY <2>1, <2>2, <2>3, <2>4, Published, TableKeeps
<1> QED
  BY <1>1, <1>2, <1>3, <1>4, <1>5, <1>6

-----------------------------------------------------------------------------
(* The server's steps.                                                       *)

\* Nothing was handed out before, and nothing is skipped yet.
LEMMA SubscribeKeeps ==
  ASSUME IInv, Subscribe
  PROVE  IInv'
<1>1. /\ next' = Len(log) + 1 /\ since' = Len(log) + 1 /\ Len(log) \in Nat /\ handed = <<>>
      /\ UNCHANGED <<log, pending, inst, handed, ended>>
  BY DEF Subscribe, IInv, TypeOK, ReaderStarts
<1>2. TypeOK'
  BY <1>1 DEF IInv, TypeOK
<1>3. ReaderStarts' /\ TasksAreHanded'
  BY <1>1 DEF IInv, ReaderStarts, TasksAreHanded, Was
<1>4. HandedOnceInOrder'
  BY <1>1 DEF IInv, HandedOnceInOrder
<1>5. SkippedOnlyWhenOverwritten'
  BY <1>1 DEF SkippedOnlyWhenOverwritten
<1> QED
  BY <1>2, <1>3, <1>4, <1>5 DEF IInv

\* A receiver that fell behind: what it skips is Cap messages old.
LEMMA SkipKeeps ==
  ASSUME IInv, Receive, next < Oldest
  PROVE  IInv'
<1>1. /\ next' = Oldest /\ UNCHANGED <<log, inst, since, ended, pending, handed>>
      /\ next \in Nat /\ next > 0 /\ Len(log) \in Nat /\ next <= Len(log)
  BY DEF Receive, IInv, TypeOK
<1>2. Cap \in Nat /\ Cap > 0
  BY MessagingAssumption
<1>3. Oldest \in 1..Len(log) /\ Len(log) > Cap /\ Oldest = Len(log) - Cap + 1
  BY <1>1, <1>2 DEF Oldest
<1>4. since \in 0..next
  BY DEF IInv, TypeOK
<1>5. TypeOK'
  BY <1>1, <1>3, <1>4 DEF IInv, TypeOK
<1>6. ReaderStarts' /\ TasksAreHanded'
  BY <1>1, <1>3 DEF IInv, ReaderStarts, TasksAreHanded, Was
<1>7. HandedOnceInOrder'
  <2>1. \A a \in DOMAIN handed : handed[a] \in since..(Oldest - 1)
    BY <1>1, <1>3, <1>4 DEF IInv, HandedOnceInOrder
  <2> QED
    BY <1>1, <2>1 DEF IInv, HandedOnceInOrder
<1>8. SkippedOnlyWhenOverwritten'
  <2> SUFFICES ASSUME NEW i \in since..(Oldest - 1), since > 0
               PROVE  Was(i) \/ Len(log) - i >= Cap
    BY <1>1 DEF SkippedOnlyWhenOverwritten, Was
  <2>1. CASE i <= next - 1
    BY <1>1, <1>4, <2>1 DEF IInv, SkippedOnlyWhenOverwritten, Was
  <2>2. CASE i > next - 1
    BY <1>1, <1>2, <1>3, <2>2
  <2> QED
    BY <1>1, <1>4, <2>1, <2>2
<1> QED
  BY <1>5, <1>6, <1>7, <1>8 DEF IInv

\* A message read is newer than all that were handed out, so nobody has it yet.
LEMMA ReadKeeps ==
  ASSUME IInv, Receive, ~(next < Oldest)
  PROVE  IInv'
<1>1. /\ next' = next + 1 /\ pending' = pending \cup {next} /\ handed' = Append(handed, next)
      /\ UNCHANGED <<log, inst, since, ended>>
      /\ next \in Nat /\ next > 0 /\ Len(log) \in Nat /\ next <= Len(log)
  BY DEF Receive, IInv, TypeOK
<1>2. since \in 1..next
  BY <1>1 DEF IInv, TypeOK, ReaderStarts
<1>3. handed \in Seq(1..Len(log)) /\ Len(handed) \in Nat /\ DOMAIN handed = 1..Len(handed)
  BY DEF IInv, TypeOK
<1>4. /\ handed' \in Seq(1..Len(log)) /\ DOMAIN handed' = 1..(Len(handed) + 1)
      /\ handed'[Len(handed) + 1] = next
      /\ \A a \in DOMAIN handed : handed'[a] = handed[a]
  BY <1>1, <1>3
<1>5. \A a \in DOMAIN handed : handed[a] \in since..(next - 1)
  BY DEF IInv, HandedOnceInOrder
<1>6. ~Was(next)
  BY <1>1, <1>5, <1>2 DEF Was
<1>7. \A i : Was(i)' <=> Was(i) \/ i = next
  BY <1>3, <1>4 DEF Was
<1>8. TypeOK'
  BY <1>1, <1>2, <1>4 DEF IInv, TypeOK
<1>9. ReaderStarts'
  BY <1>1, <1>2 DEF ReaderStarts
<1>10. TasksAreHanded'
  BY <1>1, <1>6, <1>7 DEF IInv, TasksAreHanded
<1>11. HandedOnceInOrder'
  <2>1. \A a, b \in DOMAIN handed' : a < b => handed'[a] < handed'[b]
    <3> SUFFICES ASSUME NEW a \in DOMAIN handed', NEW b \in DOMAIN handed', a < b
                 PROVE  handed'[a] < handed'[b]
      OBVIOUS
    <3>1. a \in DOMAIN handed
      BY <1>3, <1>4
    <3>2. CASE b \in DOMAIN handed
      BY <1>4, <3>1, <3>2 DEF IInv, HandedOnceInOrder
    <3>3. CASE b = Len(handed) + 1
      <4>1. handed[a] \in since..(next - 1)
        BY <1>5, <3>1
      <4> QED
        BY <1>1, <1>2, <1>4, <3>1, <3>3, <4>1
    <3> QED
      BY <1>3, <1>4, <3>2, <3>3
  <2>2. \A a \in DOMAIN handed' : handed'[a] \in since'..(next' - 1)
    <3> SUFFICES ASSUME NEW a \in DOMAIN handed'
                 PROVE  handed'[a] \in since..next
      BY <1>1
    <3>1. CASE a \in DOMAIN handed
      BY <1>1, <1>2, <1>4, <1>5, <3>1
    <3>2. CASE a = Len(handed) + 1
      BY <1>1, <1>2, <1>4, <3>2
    <3> QED
      BY <1>3, <1>4, <3>1, <3>2
  <2>3. ASSUME NEW g \in Guests, inst[g].role = "handler"
        PROVE  /\ Was(inst[g].of)' /\ inst[g].of \notin pending' \cup ended'
               /\ \A h \in Guests : h # g /\ inst[h].role = "handler" => inst[h].of # inst[g].of
    <3>1. Was(inst[g].of) /\ inst[g].of \notin pending \cup ended
      BY <2>3 DEF IInv, HandedOnceInOrder, Was
    <3>2. inst[g].of # next
      BY <3>1, <1>6
    <3> QED
      BY <2>3, <3>1, <3>2, <1>1, <1>7 DEF IInv, HandedOnceInOrder
  <2> QED
    BY <2>1, <2>2, <2>3, <1>1 DEF HandedOnceInOrder, Was
<1>12. SkippedOnlyWhenOverwritten'
  <2> SUFFICES ASSUME NEW i \in since..next
               PROVE  Was(i)' \/ Len(log) - i >= Cap
    BY <1>1 DEF SkippedOnlyWhenOverwritten, Was
  <2>1. CASE i = next
    BY <2>1, <1>7
  <2>2. CASE i # next
    <3>1. i \in since..(next - 1) /\ since > 0
      BY <2>2, <1>1, <1>2
    <3> QED
      BY <3>1, <1>7 DEF IInv, SkippedOnlyWhenOverwritten, Was
  <2> QED
    BY <2>1, <2>2
<1> QED
  BY <1>8, <1>9, <1>10, <1>11, <1>12 DEF IInv

\* A spawned task becomes a handler, or nothing.
LEMMA SpawnedKeeps ==
  ASSUME IInv, FailToInstantiate \/ \E g \in Guests : Instantiate(g)
  PROVE  IInv'
<1>1. PICK i \in pending : pending' = pending \ {i}
  BY DEF FailToInstantiate, Instantiate
<1>2. UNCHANGED <<log, next, handed, since, ended>>
  BY DEF FailToInstantiate, Instantiate, history
<1>3. ReaderStarts' /\ TasksAreHanded'
  BY <1>1, <1>2 DEF IInv, ReaderStarts, TasksAreHanded, Was
<1>4. SkippedOnlyWhenOverwritten'
  BY <1>2 DEF IInv, SkippedOnlyWhenOverwritten
<1>5. CASE FailToInstantiate
  <2>1. inst' = inst
    BY <1>5 DEF FailToInstantiate
  <2>2. TypeOK'
    BY <1>1, <1>2, <2>1 DEF IInv, TypeOK
  <2>3. HandedOnceInOrder'
    BY <1>1, <1>2, <2>1 DEF IInv, HandedOnceInOrder
  <2> QED
    BY <1>3, <1>4, <2>2, <2>3 DEF IInv
<1>6. ASSUME NEW g \in Guests, Instantiate(g)
      PROVE  IInv'
  <2>1. PICK k \in pending, s \in Slots :
          /\ pending' = pending \ {k}
          /\ inst' = [inst EXCEPT ![g] = [role |-> "handler", of |-> k, leaked |-> FALSE,
                                          table |-> [NewTable EXCEPT ![s] = log[k]]]]
    BY <1>6 DEF Instantiate
  <2>2. k \in 1..Len(log) /\ k \in Nat
    BY DEF IInv, TypeOK
  <2>3. [NewTable EXCEPT ![s] = log[k]] \in [Slots -> Message \cup {Free}]
    BY <2>2, TableTypes DEF IInv
  <2>4. PICK x : /\ x = [role |-> "handler", of |-> k, leaked |-> FALSE,
                         table |-> [NewTable EXCEPT ![s] = log[k]]]
                 /\ inst' = [inst EXCEPT ![g] = x]
    BY <2>1
  <2>5. x \in Instance /\ x.role = "handler" /\ x.of = k
    BY <2>2, <2>3, <2>4 DEF Instance
  <2>6. /\ inst' \in [Guests -> {NoInstance} \cup Instance]
        /\ inst'[g] = x /\ \A h \in Guests : h # g => inst'[h] = inst[h]
    BY <2>4, <2>5, OneInstance DEF IInv
  <2>7. TypeOK'
    BY <2>1, <1>2, <2>6 DEF IInv, TypeOK
  <2>8. Was(k) /\ k \notin ended
    BY DEF IInv, TasksAreHanded
  <2>9. ASSUME NEW h \in Guests, inst'[h].role = "handler"
        PROVE  /\ Was(inst'[h].of) /\ inst'[h].of \notin pending' \cup ended
               /\ \A j \in Guests : j # h /\ inst'[j].role = "handler" => inst'[j].of # inst'[h].of
    <3>1. ASSUME NEW j \in Guests, j # g, inst[j].role = "handler"
          PROVE  /\ Was(inst[j].of) /\ inst[j].of \notin pending \cup ended /\ inst[j].of # k
      BY <3>1 DEF IInv, HandedOnceInOrder, Was
    <3>2. CASE h = g
      BY <3>2, <3>1, <2>1, <2>5, <2>6, <2>8
    <3>3. CASE h # g
      <4>1. inst'[h] = inst[h] /\ inst[h].role = "handler"
        BY <3>3, <2>6, <2>9
      <4>2. \A j \in Guests : j # h /\ inst[j].role = "handler" => inst[j].of # inst[h].of
        BY <4>1 DEF IInv, HandedOnceInOrder
      <4>3. inst[h].of # k /\ Was(inst[h].of) /\ inst[h].of \notin pending \cup ended
        BY <3>1, <3>3, <4>1
      <4> QED
        BY <4>1, <4>2, <4>3, <2>1, <2>5, <2>6
    <3> QED
      BY <3>2, <3>3
  <2>10. HandedOnceInOrder'
    <3>1. /\ \A a, b \in DOMAIN handed : a < b => handed[a] < handed[b]
          /\ \A a \in DOMAIN handed : handed[a] \in since..(next - 1)
      BY DEF IInv, HandedOnceInOrder
    <3> QED
      BY <1>2, <2>9, <3>1 DEF HandedOnceInOrder, Was
  <2> QED
    BY <1>3, <1>4, <2>7, <2>10 DEF IInv
<1> QED
  BY <1>5, <1>6

\* A handler returns: what it handled is over.
LEMMA ExitKeeps ==
  ASSUME IInv, NEW g \in Guests, Exit(g)
  PROVE  IInv'
<1>1. UNCHANGED <<log, next, pending, handed, since>> /\ inst[g] # NoInstance
      /\ inst' = [inst EXCEPT ![g] = NoInstance]
  BY DEF Exit
<1>2. /\ inst' \in [Guests -> {NoInstance} \cup Instance]
      /\ inst'[g] = NoInstance /\ \A h \in Guests : h # g => inst'[h] = inst[h]
  BY <1>1, OneInstance DEF IInv
<1>3. inst'[g].role # "handler"
  BY <1>2, NobodyThere
<1>4. \A i \in ended' : i \in ended \/ (inst[g].role = "handler" /\ i = inst[g].of)
  BY DEF Exit
<1>5. inst[g].role = "handler" => Was(inst[g].of) /\ inst[g].of \notin pending
  BY DEF IInv, HandedOnceInOrder, Was
<1>6. ended' \subseteq 1..Len(log)
  <2>1. \A i : Was(i) => i \in 1..Len(log)
    <3>1. handed \in Seq(1..Len(log))
      BY DEF IInv, TypeOK
    <3> QED
      BY <3>1 DEF Was
  <2> QED
    BY <1>4, <1>5, <2>1 DEF IInv, TypeOK
<1>7. TypeOK'
  BY <1>1, <1>2, <1>6 DEF IInv, TypeOK
<1>8. ReaderStarts' /\ TasksAreHanded'
  BY <1>1, <1>4, <1>5 DEF IInv, ReaderStarts, TasksAreHanded, Was
<1>9. HandedOnceInOrder'
  <2>1. /\ \A a, b \in DOMAIN handed : a < b => handed[a] < handed[b]
        /\ \A a \in DOMAIN handed : handed[a] \in since..(next - 1)
    BY DEF IInv, HandedOnceInOrder
  <2>2. ASSUME NEW h \in Guests, inst'[h].role = "handler"
        PROVE  /\ Was(inst'[h].of) /\ inst'[h].of \notin pending \cup ended'
               /\ \A j \in Guests : j # h /\ inst'[j].role = "handler" => inst'[j].of # inst'[h].of
    <3>1. h # g /\ inst'[h] = inst[h]
      BY <2>2, <1>2, <1>3
    <3>2. /\ Was(inst[h].of) /\ inst[h].of \notin pending \cup ended
          /\ \A j \in Guests : j # h /\ inst[j].role = "handler" => inst[j].of # inst[h].of
      BY <2>2, <3>1 DEF IInv, HandedOnceInOrder, Was
    <3> QED
      BY <3>1, <3>2, <1>2, <1>3, <1>4
  <2> QED
    BY <1>1, <2>1, <2>2 DEF HandedOnceInOrder, Was
<1>10. SkippedOnlyWhenOverwritten'
  BY <1>1 DEF IInv, SkippedOnlyWhenOverwritten
<1> QED
  BY <1>7, <1>8, <1>9, <1>10 DEF IInv

-----------------------------------------------------------------------------

\* Every step keeps the invariant.
LEMMA NextKeeps == IInv /\ [Next]_vars => IInv'
<1> SUFFICES ASSUME IInv, [Next]_vars PROVE IInv'
  OBVIOUS
<1>1. CASE UNCHANGED vars
  <2>1. TypeOK' /\ ReaderStarts' /\ TasksAreHanded'
    BY <1>1 DEF IInv, TypeOK, ReaderStarts, TasksAreHanded, Was, vars, history
  <2>2. HandedOnceInOrder' /\ SkippedOnlyWhenOverwritten'
    BY <1>1 DEF IInv, HandedOnceInOrder, SkippedOnlyWhenOverwritten, vars, history
  <2> QED
    BY <2>1, <2>2 DEF IInv
<1>2. CASE Subscribe
  BY <1>2, SubscribeKeeps
<1>3. CASE Receive
  BY <1>3, SkipKeeps, ReadKeeps
<1>4. CASE FailToInstantiate \/ \E g \in Guests : Instantiate(g)
  BY <1>4, SpawnedKeeps
<1>5. CASE \E g \in Guests : Exit(g)
  BY <1>5, ExitKeeps
<1>6. CASE \E g \in Guests : \/ Enter(g) \/ Create(g) \/ Drop(g) \/ Edited(g) \/ Send(g) \/ Request(g)
  BY <1>6, GuestStepsKeep
<1> QED
  BY <1>1, <1>2, <1>3, <1>4, <1>5, <1>6 DEF Next

\* So it always holds.
LEMMA Invariant == Spec => []IInv
BY InitHolds, NextKeeps, PTL DEF Spec

\* Messages, instances and the reader's position keep their types.
THEOREM TypeCorrect == Spec => []TypeOK
<1>1. IInv => TypeOK
  BY DEF IInv
<1> QED
  BY <1>1, Invariant, PTL

\* The server hands a message out at most once and in the order of sending, and it
\* never runs in two instances, however far the server falls behind (server.rs).
THEOREM HandedOnce == Spec => []HandedOnceInOrder
<1>1. IInv => HandedOnceInOrder
  BY DEF IInv
<1> QED
  BY <1>1, Invariant, PTL

\* What the server skips had been overwritten by a full channel of newer messages.
THEOREM SkippedWasOverwritten == Spec => []SkippedOnlyWhenOverwritten
<1>1. IInv => SkippedOnlyWhenOverwritten
  BY DEF IInv
<1> QED
  BY <1>1, Invariant, PTL
=============================================================================
