--------------------------- MODULE KeyValue_proofs ---------------------------
(***************************************************************************)
(* Proofs about KeyValue, for any number of guests, buckets, keys and      *)
(* table slots, any width of the integers, any arguments, with and without *)
(* a backend that fails, whether arithmetic wraps or panics.               *)
(*                                                                         *)
(* IInv strengthens the type invariant with what a call under way has read *)
(* so far: an increment between its two awaits holds one item, its own     *)
(* key with a value that was there.                                        *)
(*                                                                         *)
(* The second part shows, action by action, that a step of the host which  *)
(* does not depart from KeyValueContract in one of the three known ways    *)
(* implements a step of it, under the mapping of KeyValue: from IInv,      *)
(* because an access that lies behind a call is one of its arguments.      *)
(*                                                                         *)
(* The third part is about KeyValueHistory: HInv adds to IInv that a key a *)
(* guest wrote last holds what the guest was told it wrote, and that what  *)
(* a writing call has behind it is in the store already.                   *)
(***************************************************************************)
EXTENDS KeyValueHistory, SequenceTheorems, WellFoundedInduction, TLAPS

\* Wrapping gives an i64 of any integer.
LEMMA WrapInWords ==
  ASSUME NEW x \in Int
  PROVE  Wrap(x) \in Words
<1>1. Half \in Nat \ {0}
  BY ConstantsAssumption
<1> DEFINE n == 2 * Half
           y == x + Half
<1>2. n \in Nat \ {0} /\ y \in Int
  BY <1>1
<1>3. y % n \in 0..(n - 1)
  BY <1>2
<1>4. (y % n) - Half \in -Half..(Half - 1)
  BY <1>1, <1>3
<1> QED
  BY <1>4 DEF Wrap, Words

\* An i64 is an integer.
LEMMA WordsAreInts == \A w \in Words : w \in Int
  BY ConstantsAssumption DEF Words

\* The number read out of a value is an i64, and so is the one written back.
LEMMA DecodeInWords ==
  ASSUME NEW v \in Values
  PROVE  Decode(v) \in Words
<1>1. CASE v.full
  BY <1>1 DEF Values, Decode
<1>2. CASE ~v.full
  <2>1. v.n \in Nat /\ Top \in Nat
    BY <1>2, ConstantsAssumption DEF Values
  <2>2. v.n * Top \in Int
    BY <2>1
  <2> QED
    BY <1>2, <2>2, WrapInWords DEF Decode
<1> QED
  BY <1>1, <1>2

\* What increment writes: eight bytes that hold the wrapped sum.
LEMMA IncrementedIsFull ==
  ASSUME NEW v \in Values, NEW d \in Values
  PROVE  /\ Incremented(v, d) \in Values
         /\ Incremented(v, d).full
         /\ Decode(Incremented(v, d)) = Wrap(Decode(v) + Decode(d))
<1>1. Decode(v) + Decode(d) \in Int
  BY DecodeInWords, WordsAreInts
<1>2. Wrap(Decode(v) + Decode(d)) \in Words
  BY <1>1, WrapInWords
<1> QED
  BY <1>2 DEF Incremented, Sum, Full, Values, Decode

\* A list of arguments is a sequence of items; an increment has one, a value.
LEMMA ArgumentsAreItems ==
  ASSUME NEW op \in AllOps, NEW args \in Arguments(op)
  PROVE  /\ args \in Seq(Item)
         /\ op \in {"increment", "get", "exists", "cas_new"} => Len(args) = 1
         /\ op = "increment" => args[1].key \in Keys /\ args[1].val \in Values /\ args[1].val.full
<1>1. \A k \in Keys : Ask(k) \in Item
  BY DEF Ask, Item
<1>2. \A k \in Keys, v \in Values : Put(k, v) \in Item
  BY DEF Put, Item
<1>3. Written \subseteq Values /\ MaxBatch \in Nat /\ Deltas \subseteq Words
  BY ConstantsAssumption
<1>4. \A d \in Deltas : Full(d) \in Values
  BY <1>3 DEF Full, Values
<1>5. ASSUME NEW S, S \subseteq Item, NEW n \in 0..MaxBatch, NEW f \in [1..n -> S]
      PROVE  f \in Seq(Item)
  <2>1. n \in Nat /\ f \in [1..n -> Item]
    BY <1>3, <1>5
  <2> QED
    BY <2>1, SeqDef
<1>6. CASE op \in {"get", "exists", "cas_new", "delete"}
  <2>1. PICK k \in Keys : args = <<Ask(k)>>
    BY <1>6 DEF Arguments
  <2> QED
    BY <1>1, <1>6, <2>1
<1>7. CASE op \in {"get_many", "delete_many"}
  <2>1. PICK n \in 0..MaxBatch : args \in [1..n -> {Ask(k) : k \in Keys}]
    BY <1>7 DEF Arguments
  <2>2. {Ask(k) : k \in Keys} \subseteq Item
    BY <1>1
  <2> QED
    BY <1>5, <1>7, <2>1, <2>2
<1>8. CASE op = "set"
  <2>1. PICK k \in Keys, v \in Written : args = <<Put(k, v)>>
    BY <1>8 DEF Arguments
  <2> QED
    BY <1>2, <1>3, <1>8, <2>1
<1>9. CASE op = "set_many"
  <2>1. PICK n \in 0..MaxBatch : args \in [1..n -> {Put(k, v) : k \in Keys, v \in Written}]
    BY <1>9 DEF Arguments
  <2>2. {Put(k, v) : k \in Keys, v \in Written} \subseteq Item
    BY <1>2, <1>3
  <2> QED
    BY <1>5, <1>9, <2>1, <2>2
<1>10. CASE op = "increment"
  <2>1. PICK k \in Keys, d \in Deltas : args = <<Put(k, Full(d))>>
    BY <1>10 DEF Arguments
  <2>2. Full(d) \in Values /\ Full(d).full /\ Put(k, Full(d)) \in Item
    BY <1>2, <1>4 DEF Full
  <2>3. args[1] = Put(k, Full(d)) /\ Len(args) = 1 /\ args \in Seq(Item)
    BY <2>1, <2>2
  <2> QED
    BY <2>2, <2>3, <1>10 DEF Put
<1>11. CASE op = "list_keys"
  <2>1. args = <<>>
    BY <1>11 DEF Arguments
  <2> QED
    BY <1>11, <2>1
<1> QED
  BY <1>6, <1>7, <1>8, <1>9, <1>10, <1>11 DEF AllOps

-----------------------------------------------------------------------------

\* What is known of a call under way.
CallInv(g) ==
  Running(g) =>
    /\ task[g].op \in {"increment", "get", "exists", "cas_new"} => Len(task[g].args) = 1
    /\ task[g].op = "increment" => task[g].args[1].val \in Values /\ task[g].args[1].val.full
    /\ task[g].pos = 1 => task[g].got = {}
    /\ task[g].op = "cas_new" /\ task[g].pos = 2 =>
         \E v \in Values \cup {Missing} : task[g].got = {Put(task[g].args[1].key, v)}
    /\ task[g].op = "increment" /\ task[g].pos = 2 =>
         \E v \in Values : task[g].got = {Put(task[g].args[1].key, v)}

\* The inductive invariant.
IInv == TypeOK /\ \A g \in Guests : CallInv(g)

\* An empty store, empty tables and no call: the invariant holds at the start.
LEMMA InitInv == Init => IInv
<1> SUFFICES ASSUME Init PROVE IInv
  OBVIOUS
<1>1. TypeOK
  BY DEF Init, TypeOK, Entry, Free, Idle
<1>2. \A g \in Guests : CallInv(g)
  BY DEF Init, CallInv, Running, Idle
<1> QED
  BY <1>1, <1>2 DEF IInv

\* The call a guest waits for is a Task, and its next item one of its arguments.
LEMMA RunningTask ==
  ASSUME IInv, NEW g \in Guests, Running(g)
  PROVE  /\ task[g] \in Task
         /\ task[g].bucket \in Buckets /\ task[g].pos \in Nat \ {0}
         /\ task[g].args \in Seq(Item) /\ task[g].got \in SUBSET Item
<1>1. task[g] \in {Idle} \cup Task \cup Snapshot /\ task[g].st = "run"
  BY DEF IInv, TypeOK, Running
<1>2. task[g] \in Task
  BY <1>1 DEF Idle, Snapshot
<1> QED
  BY <1>2 DEF Task

\* The item a call is at is one of its arguments, and its key is one the store has.
LEMMA NextItem ==
  ASSUME IInv, NEW g \in Guests, More(g)
  PROVE  /\ Next1(g) \in Item /\ Next1(g).key \in Keys /\ Next1(g).val \in Values \cup {Missing}
         /\ task[g].pos \in DOMAIN task[g].args
         /\ At(g, Next1(g).key) \in Values \cup {Missing}
<1>1. Running(g) /\ task[g].pos <= Len(task[g].args)
  BY DEF More
<1>2. task[g].args \in Seq(Item) /\ task[g].pos \in Nat \ {0} /\ task[g].bucket \in Buckets
  BY <1>1, RunningTask
<1>3. task[g].pos \in DOMAIN task[g].args /\ Next1(g) \in Item
  BY <1>1, <1>2 DEF Next1
<1>4. Next1(g).key \in Keys /\ Next1(g).val \in Values \cup {Missing}
  BY <1>3 DEF Item
<1>5. store \in [Buckets -> [Keys -> Values \cup {Missing}]]
  BY DEF IInv, TypeOK
<1> QED
  BY <1>2, <1>3, <1>4, <1>5 DEF At

\* An action that changes the state of the guest g alone keeps the invariant if
\* it keeps the types and what is known of g's call.
LEMMA OneGuest ==
  ASSUME IInv, NEW g \in Guests, NEW new \in {Idle} \cup Task \cup Snapshot,
         task' = [task EXCEPT ![g] = new],
         store' \in [Buckets -> [Keys -> Values \cup {Missing}]],
         table' \in [Guests -> [Slots -> Entry]],
         CallInv(g)'
  PROVE  IInv'
<1>1. task' \in [Guests -> {Idle} \cup Task \cup Snapshot]
  BY DEF IInv, TypeOK
<1>2. ASSUME NEW h \in Guests PROVE CallInv(h)'
  <2>1. CASE h = g
    BY <2>1
  <2>2. CASE h # g
    <3>1. task'[h] = task[h]
      BY <2>2 DEF IInv, TypeOK
    <3> QED
      BY <3>1 DEF IInv, CallInv, Running
  <2> QED
    BY <2>1, <2>2
<1> QED
  BY <1>1, <1>2 DEF IInv, TypeOK

\* An entry of the guest's own table is replaced.
LEMMA OneEntry ==
  ASSUME IInv, NEW g \in Guests, NEW s \in Slots, NEW e \in Entry
  PROVE  [table EXCEPT ![g][s] = e] \in [Guests -> [Slots -> Entry]]
  BY DEF IInv, TypeOK

\* The instance ends.
LEMMA EndInv ==
  ASSUME IInv, NEW g \in Guests, End(g)
  PROVE  IInv'
<1> DEFINE new == Idle
<1>1. task' = [task EXCEPT ![g] = new] /\ task'[g] = Idle
  BY DEF End, IInv, TypeOK
<1>2. CallInv(g)'
  BY <1>1 DEF CallInv, Running, Idle
<1>3. table' \in [Guests -> [Slots -> Entry]]
  BY DEF End, IInv, TypeOK, Entry
<1>4. store' \in [Buckets -> [Keys -> Values \cup {Missing}]]
  BY DEF End, IInv, TypeOK
<1>5. new \in {Idle} \cup Task \cup Snapshot
  OBVIOUS
<1> HIDE DEF new
<1> QED
  BY <1>1, <1>2, <1>3, <1>4, <1>5, OneGuest

\* A call begins: its arguments are those of its operation, and nothing is read.
LEMMA CallStarts ==
  ASSUME IInv, NEW g \in Guests, Call(g)
  PROVE  IInv'
<1>0. PICK op \in Ops, s \in Slots : \E args \in Arguments(op) :
        /\ table[g][s].kind = "bucket"
        /\ task' = [task EXCEPT ![g] = [st |-> "run", op |-> op, bucket |-> table[g][s].name,
                                        args |-> args, pos |-> 1, got |-> {}]]
  BY DEF Call
<1>1. PICK args \in Arguments(op) :
        /\ table[g][s].kind = "bucket"
        /\ task' = [task EXCEPT ![g] = [st |-> "run", op |-> op, bucket |-> table[g][s].name,
                                        args |-> args, pos |-> 1, got |-> {}]]
  BY <1>0
<1> DEFINE new == [st |-> "run", op |-> op, bucket |-> table[g][s].name,
                   args |-> args, pos |-> 1, got |-> {}]
<1>2. op \in AllOps
  BY ConstantsAssumption
<1>3. table[g][s] \in Entry
  BY DEF IInv, TypeOK
<1>4. table[g][s].name \in Buckets
  BY <1>1, <1>3 DEF Entry, Free
<1>5. /\ args \in Seq(Item)
      /\ op \in {"increment", "get", "exists", "cas_new"} => Len(args) = 1
      /\ op = "increment" => args[1].val \in Values /\ args[1].val.full
  BY <1>2, ArgumentsAreItems
<1>6. new \in Task
  BY <1>2, <1>4, <1>5 DEF Task
<1>7. task' = [task EXCEPT ![g] = new]
  BY <1>1
<1>8. task'[g] = new
  BY <1>7 DEF IInv, TypeOK
<1>9. CallInv(g)'
  BY <1>5, <1>8 DEF CallInv
<1>10. /\ store' \in [Buckets -> [Keys -> Values \cup {Missing}]]
       /\ table' \in [Guests -> [Slots -> Entry]]
  BY DEF Call, IInv, TypeOK
<1> HIDE DEF new
<1> QED
  BY <1>6, <1>7, <1>9, <1>10, OneGuest

\* Where a call goes on from: the same call, at another place with other findings.
Moved(t, p, got) == [t EXCEPT !.pos = p, !.got = got]

\* Moving a call on changes its place and its findings alone.
LEMMA MovedTask ==
  ASSUME NEW t \in Task, NEW p \in Nat \ {0}, NEW got \in SUBSET Item
  PROVE  /\ Moved(t, p, got) \in Task
         /\ Moved(t, p, got).op = t.op
         /\ Moved(t, p, got).args = t.args
         /\ Moved(t, p, got).pos = p
         /\ Moved(t, p, got).got = got
<1>1. Moved(t, p, got) \in Task
  BY DEF Task, Moved
<1> QED
  BY DEF Task, Moved

\* A backend read: what is found joins what the call has got.
LEMMA GetSteps ==
  ASSUME IInv, NEW g \in Guests, GetStep(g)
  PROVE  IInv'
<1> DEFINE k == Next1(g).key
           found == IF task[g].op = "get_many" /\ At(g, k) = Missing THEN {} ELSE {Put(k, At(g, k))}
           new == Moved(task[g], task[g].pos + 1, task[g].got \cup found)
<1>1. Running(g) /\ More(g) /\ task[g].op \in {"get", "exists", "get_many", "cas_new"}
  BY DEF GetStep, More
<1>2. /\ task[g] \in Task /\ task[g].pos \in Nat \ {0} /\ task[g].args \in Seq(Item)
      /\ task[g].got \in SUBSET Item
  BY <1>1, RunningTask
<1>3. k \in Keys /\ At(g, k) \in Values \cup {Missing} /\ k = task[g].args[task[g].pos].key
  BY <1>1, NextItem DEF Next1
<1>4. found \in SUBSET Item
  BY <1>3 DEF Put, Item
<1>5. task' = [task EXCEPT ![g] = new]
  BY <1>2 DEF GetStep, IInv, TypeOK, Moved
<1>6. /\ new \in Task /\ new.op = task[g].op /\ new.args = task[g].args
      /\ new.pos = task[g].pos + 1 /\ new.got = task[g].got \cup found
  <2>1. task[g].pos + 1 \in Nat \ {0} /\ (task[g].got \cup found) \in SUBSET Item
    BY <1>2, <1>4
  <2> HIDE DEF found
  <2> QED
    BY <1>2, <2>1, MovedTask
<1>7. task'[g] = new
  BY <1>5 DEF IInv, TypeOK
<1>8. CallInv(g)'
  <2>1. /\ task[g].op \in {"get", "exists", "cas_new"} => Len(task[g].args) = 1
        /\ task[g].pos = 1 => task[g].got = {}
    BY <1>1 DEF IInv, CallInv
  <2>2. new.op = "cas_new" /\ new.pos = 2 =>
          \E v \in Values \cup {Missing} : new.got = {Put(new.args[1].key, v)}
    <3> SUFFICES ASSUME new.op = "cas_new", new.pos = 2
                 PROVE  \E v \in Values \cup {Missing} : new.got = {Put(new.args[1].key, v)}
      OBVIOUS
    <3>1. task[g].op = "cas_new" /\ task[g].pos = 1 /\ task[g].got = {}
      BY <1>2, <1>6, <2>1
    <3>2. new.got = {Put(k, At(g, k))}
      BY <1>6, <3>1
    <3>3. k = new.args[1].key
      BY <1>3, <1>6, <3>1
    <3> QED
      BY <1>3, <3>2, <3>3
  <2>3. new.pos # 1 /\ new.op # "increment"
    BY <1>1, <1>2, <1>6
  <2> HIDE DEF new
  <2> QED
    BY <1>6, <1>7, <2>1, <2>2, <2>3 DEF CallInv
<1>9. /\ store' \in [Buckets -> [Keys -> Values \cup {Missing}]]
      /\ table' \in [Guests -> [Slots -> Entry]]
  BY DEF GetStep, IInv, TypeOK
<1> HIDE DEF new
<1> QED
  BY <1>5, <1>6, <1>8, <1>9, OneGuest

\* A backend write: it stores a value or Missing and moves the call on.
LEMMA SetSteps ==
  ASSUME IInv, NEW g \in Guests, SetStep(g)
  PROVE  IInv'
<1>1. Running(g) /\ More(g) /\ task[g].op \in {"set", "delete", "set_many", "delete_many"}
  BY DEF SetStep, More
<1>2. task[g] \in Task /\ task[g].pos \in Nat \ {0} /\ task[g].bucket \in Buckets
  BY <1>1, RunningTask
<1>3. Next1(g).key \in Keys /\ Next1(g).val \in Values \cup {Missing}
  BY <1>1, NextItem
<1> DEFINE p == task[g].pos + 1
           new == [task[g] EXCEPT !.pos = p]
<1>4. p \in Nat \ {0} /\ p # 1
  BY <1>2
<1>5. task' = [task EXCEPT ![g] = new]
  BY DEF SetStep, IInv, TypeOK
<1> HIDE DEF p
<1>6. new \in Task /\ new.op = task[g].op /\ new.pos = p
  BY <1>2, <1>4 DEF Task
<1> HIDE DEF new
<1>7. task'[g] = new
  BY <1>5 DEF IInv, TypeOK
<1>8. CallInv(g)'
  BY <1>1, <1>4, <1>6, <1>7 DEF CallInv
<1>9. /\ store' \in [Buckets -> [Keys -> Values \cup {Missing}]]
      /\ table' \in [Guests -> [Slots -> Entry]]
  BY <1>2, <1>3 DEF SetStep, IInv, TypeOK
<1> QED
  BY <1>5, <1>6, <1>8, <1>9, OneGuest

\* A listing: the names of the keys that are there.
LEMMA ListSteps ==
  ASSUME IInv, NEW g \in Guests, ListStep(g)
  PROVE  IInv'
<1>1. Running(g) /\ task[g].op = "list_keys"
  BY DEF ListStep
<1>2. task[g] \in Task
  BY <1>1, RunningTask
<1> DEFINE found == {Ask(k) : k \in {k \in Keys : At(g, k) # Missing}}
           two == 2
           new == Moved(task[g], two, found)
<1>3. found \in SUBSET Item
  BY DEF Ask, Item
<1>4. task' = [task EXCEPT ![g] = new]
  BY DEF ListStep, IInv, TypeOK, Moved
<1>0. two = 2 /\ two \in Nat \ {0}
  OBVIOUS
<1> HIDE DEF found, two
<1>5. new \in Task /\ new.op = "list_keys" /\ new.pos = 2
  BY <1>0, <1>1, <1>2, <1>3, MovedTask
<1> HIDE DEF new
<1>6. task'[g] = new
  BY <1>4 DEF IInv, TypeOK
<1>7. CallInv(g)'
  BY <1>5, <1>6 DEF CallInv
<1>8. /\ store' \in [Buckets -> [Keys -> Values \cup {Missing}]]
      /\ table' \in [Guests -> [Slots -> Entry]]
  BY DEF ListStep, IInv, TypeOK
<1> QED
  BY <1>4, <1>5, <1>7, <1>8, OneGuest

\* A call that ends, with an answer or an error, has nothing more to keep.
LEMMA CallEnds ==
  ASSUME IInv, NEW g \in Guests, NEW new \in Task, new.st # "run",
         task' = [task EXCEPT ![g] = new], UNCHANGED store,
         table' \in [Guests -> [Slots -> Entry]]
  PROVE  IInv'
<1>1. task'[g] = new
  BY DEF IInv, TypeOK
<1>2. CallInv(g)'
  BY <1>1 DEF CallInv, Running
<1>3. store' \in [Buckets -> [Keys -> Values \cup {Missing}]]
  BY DEF IInv, TypeOK
<1> QED
  BY <1>2, <1>3, OneGuest

\* An error answer.
LEMMA CallFails ==
  ASSUME IInv, NEW g \in Guests, Running(g),
         task' = [task EXCEPT ![g].st = "err", ![g].got = {}], UNCHANGED <<store, table>>
  PROVE  IInv'
<1> DEFINE new == [task[g] EXCEPT !.st = "err", !.got = {}]
<1>1. task[g] \in Task
  BY RunningTask
<1>2. new \in Task /\ new.st # "run"
  BY <1>1 DEF Task
<1>3. task' = [task EXCEPT ![g] = new]
  BY DEF IInv, TypeOK
<1>4. table' \in [Guests -> [Slots -> Entry]]
  BY DEF IInv, TypeOK
<1> HIDE DEF new
<1> QED
  BY <1>2, <1>3, <1>4, CallEnds

\* The first await of increment: its one finding is its own key, with a value.
LEMMA IncrementGets ==
  ASSUME IInv, NEW g \in Guests, IncrementGet(g)
  PROVE  IInv'
<1> DEFINE k == Next1(g).key
           v == At(g, k)
<1>1. Running(g) /\ More(g) /\ task[g].op = "increment"
  BY DEF IncrementGet, More
<1>2. /\ task[g] \in Task /\ task[g].pos \in Nat \ {0} /\ task[g].args \in Seq(Item)
      /\ task[g].got \in SUBSET Item
  BY <1>1, RunningTask
<1>3. k \in Keys /\ v \in Values \cup {Missing}
  BY <1>1, NextItem
<1>4. /\ Len(task[g].args) = 1 /\ task[g].args[1].val \in Values
      /\ task[g].args[1].val.full /\ task[g].pos = 1
  <2>1. /\ Len(task[g].args) = 1 /\ task[g].args[1].val \in Values
        /\ task[g].args[1].val.full
    BY <1>1 DEF IInv, CallInv
  <2>2. task[g].pos <= Len(task[g].args)
    BY <1>1 DEF More
  <2> QED
    BY <1>2, <2>1, <2>2
<1>5. CASE /\ task' = [task EXCEPT ![g].st = "err", ![g].got = {}]
           /\ UNCHANGED <<store, table>>
  BY <1>1, <1>5, CallFails
<1>6. CASE End(g)
  BY <1>6, EndInv
<1>7. CASE /\ v # Missing
           /\ task' = [task EXCEPT ![g].pos = 2, ![g].got = {Put(k, v)}]
           /\ UNCHANGED <<store, table>>
  <2> DEFINE found == {Put(k, v)}
             two == 2
             new == Moved(task[g], two, found)
  <2>0. two = 2 /\ two \in Nat \ {0}
    OBVIOUS
  <2>1. found \in SUBSET Item
    BY <1>3 DEF Put, Item
  <2>2. task' = [task EXCEPT ![g] = new]
    BY <1>7 DEF IInv, TypeOK, Moved
  <2>3. found = {Put(task[g].args[1].key, v)} /\ v \in Values
    BY <1>3, <1>4, <1>7 DEF Next1
    <2> HIDE DEF found, two
  <2>4. /\ new \in Task /\ new.op = "increment" /\ new.pos = 2 /\ new.got = found
        /\ new.args = task[g].args
    BY <1>1, <1>2, <2>0, <2>1, MovedTask
  <2> HIDE DEF new
  <2>5. task'[g] = new
    BY <2>2 DEF IInv, TypeOK
  <2>6. CallInv(g)'
    <3> HIDE DEF v
    <3> QED
      BY <1>4, <2>3, <2>4, <2>5 DEF CallInv
  <2>7. /\ store' \in [Buckets -> [Keys -> Values \cup {Missing}]]
        /\ table' \in [Guests -> [Slots -> Entry]]
    BY <1>7 DEF IInv, TypeOK
  <2> QED
    BY <2>2, <2>4, <2>6, <2>7, OneGuest
<1> QED
  BY <1>5, <1>6, <1>7 DEF IncrementGet

\* What an increment between its awaits has read, and what it will write.
LEMMA IncrementHolds ==
  ASSUME IInv, NEW g \in Guests, Running(g), task[g].op = "increment", task[g].pos = 2
  PROVE  /\ task[g].args[1].key \in Keys /\ task[g].args[1].val \in Values
         /\ task[g].args[1].val.full /\ Len(task[g].args) = 1
         /\ \E v \in Values : task[g].got = {Put(task[g].args[1].key, v)}
<1>1. /\ Len(task[g].args) = 1 /\ task[g].args[1].val \in Values /\ task[g].args[1].val.full
      /\ \E v \in Values : task[g].got = {Put(task[g].args[1].key, v)}
  BY DEF IInv, CallInv
<1>2. task[g].args \in Seq(Item)
  BY RunningTask
<1>3. task[g].args[1] \in Item
  BY <1>1, <1>2
<1> QED
  BY <1>1, <1>3 DEF Item

\* The second await of increment: it writes a value, an i64, to its own key.
LEMMA IncrementSets ==
  ASSUME IInv, NEW g \in Guests, IncrementSet(g)
  PROVE  IInv'
<1>1. Running(g) /\ task[g].op = "increment" /\ task[g].pos = 2
  BY DEF IncrementSet
<1>2. task[g] \in Task /\ task[g].bucket \in Buckets
  BY <1>1, RunningTask
<1> DEFINE k == task[g].args[1].key
           d == task[g].args[1].val
<1>3. PICK v \in Values : task[g].got = {Put(k, v)}
  BY <1>1, IncrementHolds
<1>4. k \in Keys /\ d \in Values
  BY <1>1, IncrementHolds
<1> DEFINE w == Incremented(v, d)
           found == {Put(k, w)}
           three == 3
           new == Moved(task[g], three, found)
<1>5. w \in Values
  BY <1>4, IncrementedIsFull
<1>6. Put(k, v).key = k /\ Put(k, v).val = v
  BY DEF Put
<1>7. /\ store' = [store EXCEPT ![task[g].bucket][k] = w]
      /\ task' = [task EXCEPT ![g].pos = 3, ![g].got = found]
      /\ table' = table
  BY <1>3, <1>6 DEF IncrementSet
<1>8. task' = [task EXCEPT ![g] = new]
  BY <1>7 DEF IInv, TypeOK, Moved
<1>9. found \in SUBSET Item
  BY <1>4, <1>5 DEF Put, Item
<1>0. three = 3 /\ three \in Nat \ {0}
  OBVIOUS
<1> HIDE DEF w, found, three
<1>10. new \in Task /\ new.op = "increment" /\ new.pos = 3 /\ new.args = task[g].args
  BY <1>0, <1>1, <1>2, <1>9, MovedTask
<1> HIDE DEF new
<1>11. task'[g] = new
  BY <1>8 DEF IInv, TypeOK
<1>12. CallInv(g)'
  BY <1>1, <1>10, <1>11 DEF IInv, CallInv
<1>13. /\ store' \in [Buckets -> [Keys -> Values \cup {Missing}]]
       /\ table' \in [Guests -> [Slots -> Entry]]
  BY <1>2, <1>4, <1>5, <1>7 DEF IInv, TypeOK
<1> QED
  BY <1>8, <1>10, <1>12, <1>13, OneGuest

\* An ok answer; cas.new puts its one finding behind a handle.
LEMMA Finishes ==
  ASSUME IInv, NEW g \in Guests, Finish(g)
  PROVE  IInv'
<1> DEFINE new == [task[g] EXCEPT !.st = "ok"]
<1>1. task[g] \in Task /\ task[g].got \in SUBSET Item
  BY RunningTask DEF Finish
<1>2. new \in Task /\ new.st # "run"
  BY <1>1 DEF Task
<1>3. task' = [task EXCEPT ![g] = new]
  BY DEF Finish, IInv, TypeOK
<1>4. table' \in [Guests -> [Slots -> Entry]]
  <2>1. CASE task[g].op = "cas_new"
    <3>1. PICK s \in Slots, seen \in task[g].got :
            table' = [table EXCEPT ![g][s] = Cas(seen.key, seen.val)]
      BY <2>1 DEF Finish
    <3>2. seen \in Item
      BY <1>1
    <3>3. Cas(seen.key, seen.val) \in Entry
      BY <3>2 DEF Cas, Entry, Item
    <3> QED
      BY <3>1, <3>3, OneEntry
  <2>2. CASE task[g].op # "cas_new"
    BY <2>2 DEF Finish, IInv, TypeOK
  <2> QED
    BY <2>1, <2>2
<1> HIDE DEF new
<1> QED
  BY <1>2, <1>3, <1>4, CallEnds DEF Finish

\* A handle is opened or dropped: only the guest's table changes.
LEMMA OneHandle ==
  ASSUME IInv, NEW g \in Guests, NEW s \in Slots, NEW e \in Entry,
         table' = [table EXCEPT ![g][s] = e], UNCHANGED <<store, task>>
  PROVE  IInv'
<1>1. table' \in [Guests -> [Slots -> Entry]]
  BY OneEntry
<1>2. TypeOK'
  BY <1>1 DEF IInv, TypeOK
<1>3. \A h \in Guests : CallInv(h)'
  BY DEF IInv, CallInv, Running
<1> QED
  BY <1>2, <1>3 DEF IInv

\* Every step keeps the invariant: one step of the proof per action.
LEMMA NextInv == IInv /\ [Next]_vars => IInv'
<1> SUFFICES ASSUME IInv, [Next]_vars PROVE IInv'
  OBVIOUS
<1>1. CASE UNCHANGED vars
  BY <1>1 DEF vars, IInv, TypeOK, CallInv, Running
<1>2. ASSUME NEW g \in Guests, Open(g) PROVE IInv'
  <2>1. PICK s \in Slots, b \in Buckets : table' = [table EXCEPT ![g][s] = BucketProxy(b)]
    BY <1>2 DEF Open
  <2>2. BucketProxy(b) \in Entry
    BY DEF BucketProxy, Entry
  <2> QED
    BY <1>2, <2>1, <2>2, OneHandle DEF Open
<1>3. ASSUME NEW g \in Guests, Drop(g) PROVE IInv'
  <2>1. PICK s \in Slots : table' = [table EXCEPT ![g][s] = Free]
    BY <1>3 DEF Drop
  <2>2. Free \in Entry
    BY DEF Entry
  <2> QED
    BY <1>3, <2>1, <2>2, OneHandle DEF Drop
<1>4. ASSUME NEW g \in Guests, CasCurrent(g) PROVE IInv'
  <2>1. PICK s \in Slots :
          /\ table[g][s].kind = "cas"
          /\ task' = [task EXCEPT ![g] =
                        [st |-> "ok", op |-> "cas_current",
                         got |-> {[key |-> table[g][s].key, val |-> table[g][s].current]}]]
    BY <1>4 DEF CasCurrent
  <2> DEFINE new == [st |-> "ok", op |-> "cas_current",
                     got |-> {[key |-> table[g][s].key, val |-> table[g][s].current]}]
  <2>2. table[g][s].key \in Keys /\ table[g][s].current \in Values \cup {Missing}
    <3>1. table[g][s] \in Entry
      BY DEF IInv, TypeOK
    <3> QED
      BY <2>1, <3>1 DEF Entry, Free
  <2>3. new \in Snapshot /\ new.st = "ok"
    BY <2>2 DEF Snapshot, Item
  <2>4. task' = [task EXCEPT ![g] = new] /\ UNCHANGED <<store, table>>
    BY <1>4, <2>1 DEF CasCurrent
  <2> HIDE DEF new
  <2>5. task'[g] = new
    BY <2>4 DEF IInv, TypeOK
  <2>6. CallInv(g)'
    BY <2>3, <2>5 DEF CallInv, Running
  <2>7. /\ store' \in [Buckets -> [Keys -> Values \cup {Missing}]]
        /\ table' \in [Guests -> [Slots -> Entry]]
    BY <2>4 DEF IInv, TypeOK
  <2> QED
    BY <2>3, <2>4, <2>6, <2>7, OneGuest
<1>5. ASSUME NEW g \in Guests, Swap(g) \/ End(g) PROVE IInv'
  BY <1>5, EndInv DEF Swap
<1>6. ASSUME NEW g \in Guests, Call(g) PROVE IInv'
  BY <1>6, CallStarts
<1>7. ASSUME NEW g \in Guests, Step(g) PROVE IInv'
  BY <1>7, GetSteps, SetSteps, ListSteps, IncrementGets, IncrementSets, Finishes DEF Step
<1>8. ASSUME NEW g \in Guests, Fail(g) PROVE IInv'
  BY <1>8, CallFails DEF Fail
<1>9. ASSUME NEW g \in Guests, Receive(g) PROVE IInv'
  <2> DEFINE new == Idle
  <2>1. task' = [task EXCEPT ![g] = new] /\ task'[g] = Idle /\ UNCHANGED <<store, table>>
    BY <1>9 DEF Receive, IInv, TypeOK
  <2>2. CallInv(g)'
    BY <2>1 DEF CallInv, Running, Idle
  <2>3. /\ store' \in [Buckets -> [Keys -> Values \cup {Missing}]]
        /\ table' \in [Guests -> [Slots -> Entry]]
    BY <2>1 DEF IInv, TypeOK
  <2>4. new \in {Idle} \cup Task \cup Snapshot
    OBVIOUS
  <2> HIDE DEF new
  <2> QED
    BY <2>1, <2>2, <2>3, <2>4, OneGuest
<1> QED
  BY <1>1, <1>2, <1>3, <1>4, <1>5, <1>6, <1>7, <1>8, <1>9 DEF Next

\* The invariant holds in every reachable state.
LEMMA AlwaysIInv == Spec => []IInv
<1> QED
  BY InitInv, NextInv, PTL DEF Spec

\* The store, the tables and the calls keep their types: above all, every number
\* increment writes back is an i64, whatever it read and was asked to add.
THEOREM TypeCorrect == Spec => []TypeOK
<1>1. IInv => TypeOK
  BY DEF IInv
<1> QED
  BY <1>1, AlwaysIInv, PTL

---------------------------------------------------------------
(* The refinement of the contract.                                           *)

\* What the contract sees of the calls and of the tables.
Seen == [g \in Guests |-> CallOf(task[g])]
Snaps == [g \in Guests |-> SnapshotsOf(table[g])]

\* A call under way or answered, as the contract sees it.
View == [st: {"run", "ok", "err"}, op: AllOps, bucket: Buckets, args: Seq(Item),
         done: SUBSET Int, got: SUBSET Item]

\* The contract's view of a call under way.
LEMMA SeenTask ==
  ASSUME NEW t \in Task
  PROVE  /\ CallOf(t) = [st |-> t.st, op |-> t.op, bucket |-> t.bucket, args |-> t.args,
                         done |-> DoneOf(t), got |-> GotOf(t)]
         /\ CallOf(t) \in View
<1>1. "pos" \in DOMAIN t
  BY DEF Task
<1>2. CallOf(t) = [st |-> t.st, op |-> t.op, bucket |-> t.bucket, args |-> t.args,
                   done |-> DoneOf(t), got |-> GotOf(t)]
  BY <1>1 DEF CallOf
<1>3. DoneOf(t) \in SUBSET Int /\ GotOf(t) \in SUBSET Item
  BY DEF Task, DoneOf, GotOf
<1> QED
  BY <1>2, <1>3 DEF View, Task

\* An idle guest and an answered cas.current look as they are.
LEMMA SeenOther ==
  ASSUME NEW t \in {Idle} \cup Snapshot
  PROVE  CallOf(t) = t
<1>1. "pos" \notin DOMAIN t
  BY DEF Idle, Snapshot
<1> QED
  BY <1>1 DEF CallOf

\* Two views with the same fields are the same.
LEMMA SameView ==
  ASSUME NEW v \in View, NEW w \in View,
         v.st = w.st, v.op = w.op, v.bucket = w.bucket, v.args = w.args,
         v.done = w.done, v.got = w.got
  PROVE  v = w
BY DEF View

\* The view of a call further on.
Further(v, done, got) == [v EXCEPT !.done = done, !.got = got]

\* Moving a view on leaves the rest of it.
LEMMA FurtherView ==
  ASSUME NEW v \in View, NEW done \in SUBSET Int, NEW got \in SUBSET Item
  PROVE  /\ Further(v, done, got) \in View
         /\ Further(v, done, got).st = v.st /\ Further(v, done, got).op = v.op
         /\ Further(v, done, got).bucket = v.bucket /\ Further(v, done, got).args = v.args
         /\ Further(v, done, got).done = done /\ Further(v, done, got).got = got
BY DEF View, Further

\* The view of a call that moves on.
LEMMA SeenMoved ==
  ASSUME NEW t \in Task, NEW p \in Nat \ {0}, NEW got \in SUBSET Item,
         NEW done, done = DoneOf(Moved(t, p, got)), got = GotOf(Moved(t, p, got))
  PROVE  CallOf(Moved(t, p, got)) = Further(CallOf(t), done, got)
<1> DEFINE v == CallOf(Moved(t, p, got))
           w == Further(CallOf(t), done, got)
<1>1. /\ Moved(t, p, got) \in Task /\ Moved(t, p, got).pos = p /\ Moved(t, p, got).got = got
      /\ Moved(t, p, got).st = t.st /\ Moved(t, p, got).op = t.op
      /\ Moved(t, p, got).bucket = t.bucket /\ Moved(t, p, got).args = t.args
  BY MovedTask DEF Moved, Task
<1>2. /\ v \in View /\ v.st = t.st /\ v.op = t.op /\ v.bucket = t.bucket
      /\ v.args = t.args /\ v.done = done /\ v.got = got
  BY <1>1, SeenTask
<1>3. /\ CallOf(t) \in View /\ CallOf(t).st = t.st /\ CallOf(t).op = t.op
      /\ CallOf(t).bucket = t.bucket /\ CallOf(t).args = t.args
  BY SeenTask
<1>4. done \in SUBSET Int
  BY <1>1 DEF DoneOf
<1>5. /\ w \in View /\ w.st = t.st /\ w.op = t.op /\ w.bucket = t.bucket
      /\ w.args = t.args /\ w.done = done /\ w.got = got
  BY <1>3, <1>4, FurtherView
<1> HIDE DEF w, v
<1>6. v = w
  BY <1>2, <1>5, SameView
<1> QED
  BY <1>6 DEF v, w

\* The view of one guest's step.
LEMMA OneSeen ==
  ASSUME IInv, NEW g \in Guests, NEW new, task' = [task EXCEPT ![g] = new]
  PROVE  /\ Seen' = [Seen EXCEPT ![g] = CallOf(new)]
         /\ Seen[g] = CallOf(task[g])
<1>1. \A h \in Guests : CallOf(task'[h]) = IF h = g THEN CallOf(new) ELSE CallOf(task[h])
  BY DEF IInv, TypeOK
<1>2. Seen' = [h \in Guests |-> CallOf(task'[h])]
  BY DEF Seen
<1> HIDE DEF IInv
<1> QED
  BY <1>1, <1>2 DEF Seen

\* A step that leaves the tables alone leaves the snapshots alone.
LEMMA SameSnaps == UNCHANGED table => UNCHANGED Snaps
BY DEF Snaps, SnapshotsOf

\* What is seen once the call of g is further on.
SeenFurther(g, done, got) == [Seen EXCEPT ![g].done = done, ![g].got = got]

\* What is seen of a call under way.
SeenRuns(g) ==
  /\ Seen[g].st = "run" /\ Seen[g].op = task[g].op /\ Seen[g].args = task[g].args
  /\ Seen[g].bucket = task[g].bucket /\ Seen[g].done = DoneOf(task[g])
  /\ Seen[g].got = GotOf(task[g])

\* A step that moves a call on: what is seen of it before and after.
LEMMA MovesOn ==
  ASSUME IInv, NEW g \in Guests, Running(g), NEW p \in Nat \ {0}, NEW got \in SUBSET Item,
         task' = [task EXCEPT ![g] = Moved(task[g], p, got)],
         NEW done, done = DoneOf(Moved(task[g], p, got)), got = GotOf(Moved(task[g], p, got))
  PROVE  Seen' = SeenFurther(g, done, got) /\ SeenRuns(g)
<1>1. task[g] \in Task
  BY RunningTask
<1>2. Seen[g] = CallOf(task[g])
  BY DEF Seen
<1>3. CallOf(Moved(task[g], p, got)) = Further(Seen[g], done, got)
  BY <1>1, <1>2, SeenMoved
<1>4. Seen' = [Seen EXCEPT ![g] = CallOf(Moved(task[g], p, got))]
  BY OneSeen
<1>5. Seen' = [Seen EXCEPT ![g] = Further(Seen[g], done, got)]
  BY <1>3, <1>4
<1>6. Seen' = SeenFurther(g, done, got)
  BY <1>5 DEF Further, SeenFurther
<1> QED
  BY <1>1, <1>2, <1>6, SeenTask DEF Running, SeenRuns

\* The same of a call that is no increment, whose accesses are its backend calls.
LEMMA PlainMovesOn ==
  ASSUME IInv, NEW g \in Guests, Running(g), task[g].op # "increment",
         NEW p \in Nat \ {0}, NEW got \in SUBSET Item,
         task' = [task EXCEPT ![g] = Moved(task[g], p, got)],
         NEW done, done = 1..(p - 1)
  PROVE  /\ Seen' = SeenFurther(g, done, got) /\ SeenRuns(g)
         /\ Seen[g].done = 1..(task[g].pos - 1) /\ Seen[g].got = task[g].got
<1> DEFINE new == Moved(task[g], p, got)
<1>1. task[g] \in Task
  BY RunningTask
<1>2. new.op = task[g].op /\ new.pos = p /\ new.got = got
  BY <1>1, MovedTask
<1> HIDE DEF new
<1>3. done = DoneOf(new) /\ got = GotOf(new)
  BY <1>2 DEF DoneOf, GotOf
<1> USE DEF new
<1>4. Seen' = SeenFurther(g, done, got) /\ SeenRuns(g)
  BY <1>3, MovesOn
<1> QED
  BY <1>4 DEF SeenRuns, DoneOf, GotOf

\* A backend read is a read of the contract, unless get_many passes over its key.
LEMMA GetIsRead ==
  ASSUME IInv, NEW g \in Guests, GetStep(g), ~LeavesOut(g)
  PROVE  Contract!Read(g)
<1> DEFINE k == Next1(g).key
           p == task[g].pos
           q == p + 1
           found == IF task[g].op = "get_many" /\ At(g, k) = Missing THEN {} ELSE {Put(k, At(g, k))}
           more == task[g].got \cup found
           done == (1..(p - 1)) \cup {p}
<1>1. Running(g) /\ More(g) /\ task[g].op \in {"get", "exists", "get_many", "cas_new"}
  BY DEF GetStep, More
<1>2. /\ task[g] \in Task /\ p \in Nat \ {0} /\ task[g].args \in Seq(Item)
      /\ task[g].got \in SUBSET Item
  BY <1>1, RunningTask
<1>3. p \in DOMAIN task[g].args /\ k \in Keys /\ At(g, k) \in Values \cup {Missing}
  BY <1>1, NextItem
<1>4. found \in SUBSET Item
  BY <1>3 DEF Put, Item
<1>5. task' = [task EXCEPT ![g] = Moved(task[g], q, more)] /\ UNCHANGED <<store, table>>
  BY <1>2 DEF GetStep, IInv, TypeOK, Moved
<1>6. more \in SUBSET Item /\ q \in Nat \ {0} /\ done = 1..(q - 1)
  BY <1>2, <1>4
<1>7. /\ Seen' = SeenFurther(g, done, more)
      /\ Seen[g].st = "run" /\ Seen[g].op = task[g].op /\ Seen[g].args = task[g].args
      /\ Seen[g].bucket = task[g].bucket /\ Seen[g].done = 1..(p - 1)
      /\ Seen[g].got = task[g].got
  <2> HIDE DEF more, q, done, found, k
  <2>1. /\ Seen' = SeenFurther(g, done, more) /\ SeenRuns(g)
        /\ Seen[g].done = 1..(p - 1) /\ Seen[g].got = task[g].got
    BY <1>1, <1>5, <1>6, PlainMovesOn
  <2> QED
    BY <2>1 DEF SeenRuns
<1>8. p \in DOMAIN Seen[g].args \ Seen[g].done /\ Seen[g].op \in Contract!Readers
  BY <1>1, <1>2, <1>3, <1>7 DEF Contract!Readers
<1>9. /\ Seen[g].args[p].key = k
      /\ store[Seen[g].bucket][Seen[g].args[p].key] = At(g, k)
  BY <1>7 DEF Next1, At
<1>10. found = {[key |-> k, val |-> At(g, k)]}
  BY DEF Put, LeavesOut
<1>11. UNCHANGED Snaps
  BY <1>5, SameSnaps
<1>12. Seen' = [Seen EXCEPT ![g].done = @ \cup {p}, ![g].got = @ \cup found]
  BY <1>7 DEF SeenFurther
<1> HIDE DEF found, p
<1>13. LET kk == Seen[g].args[p].key IN
       Seen' = [Seen EXCEPT ![g].done = @ \cup {p},
                               ![g].got = @ \cup {[key |-> kk, val |-> store[Seen[g].bucket][kk]]}]
  BY <1>9, <1>10, <1>12, Zenon
<1> QED
  BY <1>5, <1>7, <1>8, <1>11, <1>13, Zenon DEF Contract!Read, Contract!Running, Seen, Snaps

\* A backend write is a write of the contract.
LEMMA SetIsWrite ==
  ASSUME IInv, NEW g \in Guests, SetStep(g)
  PROVE  Contract!Write(g)
<1> DEFINE p == task[g].pos
           q == p + 1
           got == task[g].got
           done == (1..(p - 1)) \cup {p}
<1>1. Running(g) /\ More(g) /\ task[g].op \in {"set", "delete", "set_many", "delete_many"}
  BY DEF SetStep, More
<1>2. /\ task[g] \in Task /\ p \in Nat \ {0} /\ task[g].args \in Seq(Item)
      /\ got \in SUBSET Item
  BY <1>1, RunningTask
<1>3. p \in DOMAIN task[g].args
  BY <1>1, NextItem
<1>4. Moved(task[g], q, got) = [task[g] EXCEPT !.pos = q]
  BY <1>2 DEF Moved, Task
<1>5. task' = [task EXCEPT ![g] = Moved(task[g], q, got)] /\ UNCHANGED table
  BY <1>2, <1>4 DEF SetStep, IInv, TypeOK
<1>6. q \in Nat \ {0} /\ done = 1..(q - 1)
  BY <1>2
<1>7. /\ Seen' = SeenFurther(g, done, got)
      /\ Seen[g].st = "run" /\ Seen[g].op = task[g].op /\ Seen[g].args = task[g].args
      /\ Seen[g].bucket = task[g].bucket /\ Seen[g].done = 1..(p - 1)
      /\ Seen[g].got = task[g].got /\ Seen[g] \in View
  <2>1. Seen[g] \in View
    BY <1>2, SeenTask DEF Seen
  <2> HIDE DEF q, done, got
  <2>2. /\ Seen' = SeenFurther(g, done, got) /\ SeenRuns(g)
        /\ Seen[g].done = 1..(p - 1) /\ Seen[g].got = task[g].got
    BY <1>1, <1>2, <1>5, <1>6, PlainMovesOn
  <2> USE DEF got
  <2> QED
    BY <2>1, <2>2 DEF SeenRuns
<1>8. p \in DOMAIN Seen[g].args \ Seen[g].done /\ Seen[g].op \in Contract!Writers
  BY <1>1, <1>2, <1>3, <1>7 DEF Contract!Writers
<1>9. store' = [store EXCEPT ![Seen[g].bucket][Seen[g].args[p].key] = Seen[g].args[p].val]
  BY <1>7 DEF SetStep, Next1
<1>10. UNCHANGED Snaps
  BY <1>5, SameSnaps
<1>11. Seen' = [Seen EXCEPT ![g].done = @ \cup {p}]
  <2>1. Further(Seen[g], done, got) = [Seen[g] EXCEPT !.done = done]
    BY <1>7 DEF View, Further
  <2>2. Seen' = [Seen EXCEPT ![g] = Further(Seen[g], done, got)]
    BY <1>7 DEF SeenFurther, Further
  <2> QED
    BY <1>7, <2>1, <2>2
<1> HIDE DEF p
<1> QED
  BY <1>7, <1>8, <1>9, <1>10, <1>11, Zenon DEF Contract!Write, Contract!Running, Seen, Snaps

\* A listing is a listing of the contract.
LEMMA ListIsList ==
  ASSUME IInv, NEW g \in Guests, ListStep(g)
  PROVE  Contract!List(g)
<1> DEFINE found == {Ask(k) : k \in {k \in Keys : At(g, k) # Missing}}
           two == 2
           one == {1}
<1>1. Running(g) /\ task[g].op = "list_keys" /\ task[g].pos = 1
  BY DEF ListStep
<1>2. found \in SUBSET Item /\ two \in Nat \ {0} /\ one = 1..(two - 1)
  BY DEF Ask, Item
<1>3. task' = [task EXCEPT ![g] = Moved(task[g], two, found)] /\ UNCHANGED <<store, table>>
  BY DEF ListStep, IInv, TypeOK, Moved
<1>4. /\ Seen' = SeenFurther(g, one, found)
      /\ Seen[g].st = "run" /\ Seen[g].op = task[g].op /\ Seen[g].bucket = task[g].bucket
  <2> HIDE DEF found, two, one
  <2>1. Seen' = SeenFurther(g, one, found) /\ SeenRuns(g)
    BY <1>1, <1>2, <1>3, PlainMovesOn
  <2> QED
    BY <2>1 DEF SeenRuns
<1>5. found = LET present == {k \in Keys : store[Seen[g].bucket][k] # Missing} IN
              {[key |-> k, val |-> Missing] : k \in present}
  BY <1>4 DEF Ask, At
<1>6. LET present == {k \in Keys : store[Seen[g].bucket][k] # Missing} IN
      Seen' = [Seen EXCEPT ![g].done = {1}, ![g].got = {[key |-> k, val |-> Missing] : k \in present}]
  <2> HIDE DEF found
  <2> QED
    BY <1>4, <1>5 DEF SeenFurther
<1>7. UNCHANGED Snaps
  BY <1>3, SameSnaps
<1> QED
  BY <1>1, <1>3, <1>4, <1>6, <1>7, Zenon DEF Contract!List, Contract!Running, Seen, Snaps

\* The view of an answer.
Concluded(v, st, got) == [v EXCEPT !.st = st, !.got = got]

\* Answering a call changes what is seen of it in the same two fields.
LEMMA SeenEnded ==
  ASSUME NEW t \in Task, NEW st \in {"ok", "err"}, NEW got \in SUBSET Item,
         t.op = "increment" /\ t.pos = 2 => got = {}
  PROVE  CallOf(Concluded(t, st, got)) = Concluded(CallOf(t), st, got)
<1> DEFINE u == Concluded(t, st, got)
           v == CallOf(u)
           w == Concluded(CallOf(t), st, got)
<1>1. /\ u \in Task /\ u.pos = t.pos /\ u.got = got /\ u.st = st /\ u.op = t.op
      /\ u.bucket = t.bucket /\ u.args = t.args
  BY DEF Concluded, Task
<1>2. /\ v \in View /\ v.st = st /\ v.op = t.op /\ v.bucket = t.bucket
      /\ v.args = t.args /\ v.done = DoneOf(t) /\ v.got = got
  <2> HIDE DEF u
  <2>1. DoneOf(u) = DoneOf(t) /\ GotOf(u) = got
    BY <1>1 DEF DoneOf, GotOf
  <2> QED
    BY <1>1, <2>1, SeenTask
<1>3. /\ CallOf(t) \in View /\ CallOf(t).op = t.op /\ CallOf(t).done = DoneOf(t)
      /\ CallOf(t).bucket = t.bucket /\ CallOf(t).args = t.args
  BY SeenTask
<1>4. /\ w \in View /\ w.st = st /\ w.op = CallOf(t).op /\ w.bucket = CallOf(t).bucket
      /\ w.args = CallOf(t).args /\ w.done = CallOf(t).done /\ w.got = got
  BY <1>3 DEF Concluded, View
<1> HIDE DEF w, v, u
<1>5. v = w
  BY <1>2, <1>3, <1>4, SameView
<1> QED
  BY <1>5 DEF v, w, u

\* What is seen once the call of g is answered.
SeenAnswered(g, st, got) == [Seen EXCEPT ![g].st = st, ![g].got = got]

\* A step that answers a call: what is seen of it before and after.
LEMMA AnswersCall ==
  ASSUME IInv, NEW g \in Guests, Running(g), NEW st \in {"ok", "err"}, NEW got \in SUBSET Item,
         task[g].op = "increment" /\ task[g].pos = 2 => got = {},
         task' = [task EXCEPT ![g] = Concluded(task[g], st, got)]
  PROVE  /\ Seen' = SeenAnswered(g, st, got)
         /\ Seen[g].st = "run" /\ Seen[g].op = task[g].op /\ Seen[g].args = task[g].args
         /\ Seen[g].done = DoneOf(task[g]) /\ Seen[g].got = GotOf(task[g])
         /\ Seen[g] \in View
<1>1. task[g] \in Task
  BY RunningTask
<1>2. Seen[g] = CallOf(task[g])
  BY DEF Seen
<1>3. CallOf(Concluded(task[g], st, got)) = Concluded(Seen[g], st, got)
  BY <1>1, <1>2, SeenEnded
<1>4. Seen' = [Seen EXCEPT ![g] = CallOf(Concluded(task[g], st, got))]
  BY OneSeen
<1>5. Seen' = [Seen EXCEPT ![g] = Concluded(Seen[g], st, got)]
  BY <1>3, <1>4
<1>6. Seen' = SeenAnswered(g, st, got)
  BY <1>5 DEF Concluded, SeenAnswered
<1> QED
  BY <1>1, <1>2, <1>6, SeenTask DEF Running, SeenRuns

\* The error answer of a store that may fail is one of the contract.
LEMMA FailIsFail ==
  ASSUME IInv, NEW g \in Guests, Fail(g)
  PROVE  Contract!Fail(g)
<1> DEFINE st == "err"
           got == {}
<1>1. task' = [task EXCEPT ![g] = Concluded(task[g], st, got)] /\ Running(g)
  BY DEF Concluded, Fail
<1>2. st \in {"ok", "err"} /\ got \in SUBSET Item /\ got = {}
  OBVIOUS
<1>3. Seen' = SeenAnswered(g, st, got) /\ Seen[g].st = "run"
  <2> HIDE DEF st, got
  <2> QED
    BY <1>1, <1>2, AnswersCall
<1>4. Seen' = [Seen EXCEPT ![g].st = "err", ![g].got = {}]
  BY <1>3 DEF SeenAnswered
<1>5. UNCHANGED Snaps /\ UNCHANGED store /\ Faulty
  BY SameSnaps DEF Fail
<1> QED
  BY <1>3, <1>4, <1>5, Zenon DEF Contract!Fail, Contract!Running, Seen, Snaps

\* The tables of one guest change: so do its snapshots alone.
LEMMA OneSnap ==
  ASSUME IInv, NEW g \in Guests, NEW new, table' = [table EXCEPT ![g] = new]
  PROVE  /\ Snaps' = [Snaps EXCEPT ![g] = SnapshotsOf(new)]
         /\ Snaps'[g] = SnapshotsOf(new)
         /\ Snaps[g] = SnapshotsOf(table[g])
<1>1. \A h \in Guests :
        SnapshotsOf(table'[h]) = IF h = g THEN SnapshotsOf(new) ELSE SnapshotsOf(table[h])
  BY DEF IInv, TypeOK
<1>2. Snaps' = [h \in Guests |-> SnapshotsOf(table'[h])]
  BY DEF Snaps, SnapshotsOf
<1> HIDE DEF IInv
<1> QED
  BY <1>1, <1>2 DEF Snaps

\* A table of free entries alone holds no snapshot.
LEMMA NoSnaps == SnapshotsOf([s \in Slots |-> Free]) = {}
BY DEF SnapshotsOf, Free

\* The end of an instance is one of the contract.
LEMMA EndIsEnd ==
  ASSUME IInv, NEW g \in Guests, End(g)
  PROVE  Contract!End(g)
<1> DEFINE none == [s \in Slots |-> Free]
           new == Idle
<1>1. task' = [task EXCEPT ![g] = new] /\ table' = [table EXCEPT ![g] = none] /\ UNCHANGED store
  BY DEF End
<1>2. Seen' = [Seen EXCEPT ![g] = CallOf(new)]
  <2> HIDE DEF new
  <2> QED
    BY <1>1, OneSeen
<1>3. CallOf(new) = Contract!Idle
  BY SeenOther DEF Idle, Contract!Idle
<1>4. Snaps' = [Snaps EXCEPT ![g] = SnapshotsOf(none)]
  <2> HIDE DEF none
  <2> QED
    BY <1>1, OneSnap
<1>5. Seen' = [Seen EXCEPT ![g] = Contract!Idle] /\ Snaps' = [Snaps EXCEPT ![g] = {}]
  BY <1>2, <1>3, <1>4, NoSnaps
<1> QED
  BY <1>1, <1>5, Zenon DEF Contract!End, Seen, Snaps

\* An increment that has read its key shows nothing of it; one that has not found
\* it departs from the contract, and an overflow may take the instance down.
LEMMA IncrementGetMaps ==
  ASSUME IInv, NEW g \in Guests, IncrementGet(g), ~RefusesAbsent(g)
  PROVE  UNCHANGED Contract!vars \/ Contract!End(g)
<1> DEFINE k == Next1(g).key
           v == At(g, k)
           found == {Put(k, v)}
           two == 2
<1>1. Running(g) /\ More(g) /\ task[g].op = "increment" /\ v # Missing
  BY DEF IncrementGet, More, RefusesAbsent
<1>2. CASE End(g)
  BY <1>2, EndIsEnd
<1>3. CASE /\ task' = [task EXCEPT ![g].pos = 2, ![g].got = {Put(k, v)}]
           /\ UNCHANGED <<store, table>>
  <2>1. task[g].pos = 1 /\ task[g].got = {}
    <3>1. task[g].pos \in Nat \ {0} /\ Len(task[g].args) = 1 /\ task[g].pos <= Len(task[g].args)
      BY <1>1, RunningTask DEF More, IInv, CallInv
    <3>2. task[g].pos = 1
      BY <3>1
    <3> QED
      BY <1>1, <3>2 DEF IInv, CallInv
  <2>2. found \in SUBSET Item /\ two \in Nat \ {0} /\ two = 2
    <3>1. k \in Keys /\ v \in Values \cup {Missing}
      BY <1>1, NextItem
    <3> QED
      BY <3>1 DEF Put, Item
  <2> DEFINE new == Moved(task[g], two, found)
  <2>3. task' = [task EXCEPT ![g] = new]
    BY <1>3 DEF IInv, TypeOK, Moved
  <2>4. task[g] \in Task
    BY <1>1, RunningTask
  <2>5. CallOf(new) = CallOf(task[g])
    <3> HIDE DEF found, two
    <3>1. /\ new \in Task /\ new.pos = 2 /\ new.st = task[g].st /\ new.op = task[g].op
          /\ new.bucket = task[g].bucket /\ new.args = task[g].args
      BY <2>2, <2>4, MovedTask DEF Moved, Task
    <3> HIDE DEF new
    <3>2. DoneOf(new) = DoneOf(task[g]) /\ GotOf(new) = GotOf(task[g])
      BY <1>1, <2>1, <3>1 DEF DoneOf, GotOf
    <3> QED
      BY <2>4, <3>1, <3>2, SeenTask
  <2>6. Seen' = Seen
    <3> HIDE DEF new
    <3>1. Seen' = [Seen EXCEPT ![g] = CallOf(new)] /\ Seen[g] = CallOf(task[g])
      BY <2>3, OneSeen
    <3>2. Seen' = [Seen EXCEPT ![g] = Seen[g]]
      BY <2>5, <3>1
    <3> QED
      BY <3>2 DEF Seen
  <2>7. UNCHANGED <<store, Snaps>>
    BY <1>3, SameSnaps
  <2> QED
    BY <2>6, <2>7, Zenon DEF Contract!vars, Seen, Snaps
<1> QED
  BY <1>1, <1>2, <1>3 DEF IncrementGet

\* The remainder of a number at most one turn away from it.
LEMMA OneTurn ==
  ASSUME NEW m \in Nat \ {0}, NEW x \in Int
  PROVE  /\ x \in 0..(m - 1) => x % m = x
         /\ x - m \in 0..(m - 1) => x % m = x - m
         /\ x + m \in 0..(m - 1) => x % m = x + m
<1>1. x \in 0..(m - 1) => x % m = x
  OBVIOUS
<1>2. x - m \in 0..(m - 1) => x % m = x - m
  OBVIOUS
<1>3. x + m \in 0..(m - 1) => x % m = x + m
  OBVIOUS
<1> QED
  BY <1>1, <1>2, <1>3

\* Two numbers of eight bytes are added as an i64 is, one turn further at most.
LEMMA AddedIsIncremented ==
  ASSUME NEW v \in Values, NEW d \in Values, d.full
  PROVE  Added(v, d) = Incremented(v, d)
<1>1. CASE ~v.full
  BY <1>1 DEF Added
<1>2. CASE v.full
  <2>1. v.n \in Words /\ d.n \in Words /\ Half \in Nat \ {0}
    BY <1>2, ConstantsAssumption DEF Values
  <2> DEFINE n == v.n + d.n
             m == 2 * Half
             x == n + Half
  <2>2. m \in Nat \ {0} /\ n \in Int /\ x \in Int /\ -m <= n /\ n < m
    BY <2>1 DEF Words
  <2>3. /\ x \in 0..(m - 1) => x % m = x
        /\ x - m \in 0..(m - 1) => x % m = x - m
        /\ x + m \in 0..(m - 1) => x % m = x + m
    <3> HIDE DEF m, x
    <3> QED
      BY <2>2, OneTurn
  <2>4. Wrap(n) = (x % m) - Half
    BY DEF Wrap
  <2>5. Incremented(v, d) = Full(Wrap(n))
    BY <1>2 DEF Incremented, Sum, Decode
  <2>6. Wrap(n) = IF n >= Half THEN n - m ELSE IF n < -Half THEN n + m ELSE n
    <3>1. CASE n >= Half
      <4>1. x - m \in 0..(m - 1)
        BY <2>1, <2>2, <3>1
      <4>2. x % m = x - m
        BY <2>3, <4>1
      <4> QED
        BY <2>1, <2>2, <2>4, <3>1, <4>2
    <3>2. CASE n < -Half
      <4>1. x + m \in 0..(m - 1)
        BY <2>1, <2>2, <3>2
      <4>2. x % m = x + m
        BY <2>3, <4>1
      <4> QED
        BY <2>1, <2>2, <2>4, <3>2, <4>2
    <3>3. CASE ~(n >= Half) /\ ~(n < -Half)
      <4>1. x \in 0..(m - 1)
        BY <2>1, <2>2, <3>3
      <4>2. x % m = x
        BY <2>3, <4>1
      <4> QED
        BY <2>1, <2>2, <2>4, <3>3, <4>2
    <3> QED
      BY <3>1, <3>2, <3>3
  <2> QED
    BY <1>2, <2>5, <2>6 DEF Added
<1> QED
  BY <1>1, <1>2

\* The second half of an increment is the whole of it when its key still holds what
\* the first half found.
LEMMA IncrementSetIsIncrement ==
  ASSUME IInv, NEW g \in Guests, IncrementSet(g), ~OverwritesUnseen(g)
  PROVE  Contract!Increment(g)
<1> DEFINE k == task[g].args[1].key
           d == task[g].args[1].val
<1>1. Running(g) /\ task[g].op = "increment" /\ task[g].pos = 2
  BY DEF IncrementSet
<1>2. PICK v \in Values : task[g].got = {Put(k, v)}
  BY <1>1, IncrementHolds
<1>3. k \in Keys /\ d \in Values /\ d.full
  BY <1>1, IncrementHolds
<1> DEFINE w == Incremented(v, d)
           found == {[key |-> k, val |-> w]}
           three == 3
           done == {1}
<1>4. Put(k, v).key = k /\ Put(k, v).val = v /\ Put(k, w) = [key |-> k, val |-> w]
  BY DEF Put
<1>5. /\ store' = [store EXCEPT ![task[g].bucket][k] = w]
      /\ task' = [task EXCEPT ![g].pos = 3, ![g].got = found]
      /\ table' = table
  BY <1>2, <1>4 DEF IncrementSet
<1>6. w \in Values
  BY <1>3, IncrementedIsFull
<1>7. found \in SUBSET Item /\ three \in Nat \ {0} /\ three = 3 /\ done = {1}
  BY <1>3, <1>6 DEF Item
<1>8. task' = [task EXCEPT ![g] = Moved(task[g], three, found)]
  BY <1>5 DEF IInv, TypeOK, Moved
<1>9. /\ Seen' = SeenFurther(g, done, found)
      /\ Seen[g].st = "run" /\ Seen[g].op = task[g].op /\ Seen[g].args = task[g].args
      /\ Seen[g].bucket = task[g].bucket /\ Seen[g].done = DoneOf(task[g])
  <2>1. Running(g) /\ task[g] \in Task
    BY <1>1, RunningTask
  <2> HIDE DEF found, three, done, k, d, w
  <2> DEFINE new == Moved(task[g], three, found)
  <2>2. new.op = "increment" /\ new.pos = 3 /\ new.got = found
    BY <1>1, <1>7, <2>1, MovedTask
  <2> HIDE DEF new
  <2>3. done = DoneOf(new) /\ found = GotOf(new)
    BY <1>7, <2>2 DEF DoneOf, GotOf
  <2> USE DEF new
  <2> QED
    BY <2>1, <1>7, <1>8, <2>3, MovesOn DEF SeenRuns
<1>10. Seen[g].done = {}
  BY <1>1, <1>9 DEF DoneOf
<1>11. store[Seen[g].bucket][k] = v /\ v # Missing
  <2>1. Put(k, v) \in task[g].got
    BY <1>2
  <2>2. At(g, Put(k, v).key) = Put(k, v).val
    BY <2>1 DEF OverwritesUnseen
  <2> QED
    BY <1>4, <1>9, <2>2, ConstantsAssumption DEF At
<1>12. LET item == Seen[g].args[1]
           val == store[Seen[g].bucket][item.key]
           new == IF val = Missing THEN item.val ELSE Added(val, item.val) IN
       /\ store' = [store EXCEPT ![Seen[g].bucket][item.key] = new]
       /\ Seen' = [Seen EXCEPT ![g].done = {1}, ![g].got = {[key |-> item.key, val |-> new]}]
  <2>1. Added(v, d) = w
    BY <1>3, AddedIsIncremented
  <2>2. Seen' = [Seen EXCEPT ![g].done = {1}, ![g].got = {[key |-> k, val |-> w]}]
    BY <1>9 DEF SeenFurther
  <2>3. Seen[g].args[1].key = k /\ Seen[g].args[1].val = d /\ Seen[g].bucket = task[g].bucket
    BY <1>9
  <2> HIDE DEF w, k, d
  <2> QED
    BY <1>5, <1>11, <2>1, <2>2, <2>3
<1>13. UNCHANGED Snaps
  BY <1>5, SameSnaps
<1> QED
  BY <1>1, <1>9, <1>10, <1>12, <1>13, Zenon
     DEF Contract!Increment, Contract!Running, Seen, Snaps

\* A call returns ok when every access is behind it; cas.new hands out what it read.
LEMMA FinishIsSucceed ==
  ASSUME IInv, NEW g \in Guests, Finish(g)
  PROVE  Contract!Succeed(g)
<1> DEFINE st == "ok"
           got == task[g].got
<1>1. Running(g) /\ task[g].pos = Accesses(task[g]) + 1 /\ UNCHANGED store
  BY DEF Finish
<1>2. task[g] \in Task /\ got \in SUBSET Item /\ task[g].args \in Seq(Item)
  BY <1>1, RunningTask
<1>3. Concluded(task[g], st, got) = [task[g] EXCEPT !.st = "ok"]
  BY <1>2 DEF Concluded, Task
<1>4. task' = [task EXCEPT ![g] = Concluded(task[g], st, got)]
  BY <1>3 DEF Finish
<1>5. /\ Seen' = SeenAnswered(g, st, got)
      /\ Seen[g].st = "run" /\ Seen[g].op = task[g].op /\ Seen[g].args = task[g].args
      /\ Seen[g].done = DoneOf(task[g]) /\ Seen[g].got = task[g].got
      /\ Seen[g] \in View
  <2>1. st \in {"ok", "err"}
    OBVIOUS
  <2>2. task[g].op = "increment" => task[g].pos = 3
    BY <1>1 DEF Accesses
  <2>3. GotOf(task[g]) = task[g].got
    BY <2>2 DEF GotOf
  <2>5. task[g].op = "increment" /\ task[g].pos = 2 => got = {}
    BY <2>2
  <2> HIDE DEF st, got
  <2>4. /\ Seen' = SeenAnswered(g, st, got)
        /\ Seen[g].st = "run" /\ Seen[g].op = task[g].op /\ Seen[g].args = task[g].args
        /\ Seen[g].done = DoneOf(task[g]) /\ Seen[g].got = GotOf(task[g])
        /\ Seen[g] \in View
    BY <1>1, <1>2, <1>4, <2>1, <2>5, AnswersCall
  <2> QED
    BY <2>3, <2>4
<1>6. Seen' = [Seen EXCEPT ![g].st = "ok"]
  <2>1. Concluded(Seen[g], st, got) = [Seen[g] EXCEPT !.st = "ok"]
    BY <1>5 DEF View, Concluded
  <2>2. Seen' = [Seen EXCEPT ![g] = Concluded(Seen[g], st, got)]
    BY <1>5 DEF SeenAnswered, Concluded
  <2> QED
    BY <2>1, <2>2
<1>7. Seen[g].done = Contract!Accesses(Seen[g])
  <2>1. CASE task[g].op = "increment"
    <3>1. task[g].pos = 3 /\ Len(task[g].args) = 1
      BY <1>1, <2>1 DEF Accesses, IInv, CallInv
    <3>2. DOMAIN task[g].args = {1}
      BY <1>2, <3>1
    <3> QED
      BY <1>5, <2>1, <3>1, <3>2 DEF Contract!Accesses, DoneOf
  <2>2. CASE task[g].op = "list_keys"
    BY <1>1, <1>5, <2>2 DEF Accesses, Contract!Accesses, DoneOf
  <2>3. CASE task[g].op \notin {"increment", "list_keys"}
    <3>1. Accesses(task[g]) = Len(task[g].args) /\ Contract!Accesses(Seen[g]) = DOMAIN task[g].args
      BY <1>5, <2>3 DEF Accesses, Contract!Accesses
    <3>2. Seen[g].done = 1..Len(task[g].args)
      BY <1>1, <1>2, <1>5, <2>3, <3>1 DEF DoneOf
    <3> QED
      BY <1>2, <3>1, <3>2
  <2> QED
    BY <2>1, <2>2, <2>3
<1>8. Snaps' = IF Seen[g].op = "cas_new" THEN [Snaps EXCEPT ![g] = @ \cup Seen[g].got] ELSE Snaps
  <2>1. CASE task[g].op = "cas_new"
    <3>1. PICK s \in Slots, seen \in task[g].got :
            /\ table[g][s] = Free
            /\ table' = [table EXCEPT ![g][s] = Cas(seen.key, seen.val)]
      BY <2>1 DEF Finish
    <3> DEFINE new == [table[g] EXCEPT ![s] = Cas(seen.key, seen.val)]
    <3>2. table' = [table EXCEPT ![g] = new]
      BY <3>1
    <3>3. Snaps' = [Snaps EXCEPT ![g] = SnapshotsOf(new)] /\ Snaps[g] = SnapshotsOf(table[g])
      <4> HIDE DEF new
      <4> QED
        BY <3>2, OneSnap
    <3>4. seen \in Item /\ task[g].got = {seen}
      <4>1. Len(task[g].args) = 1 /\ task[g].pos = 2
        <5>1. Len(task[g].args) = 1
          BY <1>1, <2>1 DEF IInv, CallInv
        <5>2. Accesses(task[g]) = Len(task[g].args)
          BY <2>1 DEF Accesses
        <5> QED
          BY <1>1, <5>1, <5>2
      <4> QED
        BY <1>1, <1>2, <2>1, <3>1, <4>1 DEF IInv, CallInv
    <3>5. seen = [key |-> seen.key, val |-> seen.val]
      BY <3>4 DEF Item
    <3>6. SnapshotsOf(new) = SnapshotsOf(table[g]) \cup {seen}
      <4>1. table[g] \in [Slots -> Entry]
        BY DEF IInv, TypeOK
      <4>2. /\ new[s].kind = "cas" /\ new[s].key = seen.key /\ new[s].current = seen.val
            /\ \A x \in Slots \ {s} : new[x] = table[g][x]
            /\ table[g][s].kind # "cas"
        BY <3>1, <4>1 DEF Cas, Free
      <4> HIDE DEF new
      <4>3. [key |-> new[s].key, val |-> new[s].current] = seen
        BY <3>5, <4>2
      <4> QED
        BY <4>2, <4>3 DEF SnapshotsOf
    <3> HIDE DEF new
    <3> QED
      BY <1>5, <2>1, <3>3, <3>4, <3>6
  <2>2. CASE task[g].op # "cas_new"
    <3>1. UNCHANGED Snaps
      BY <2>2, SameSnaps DEF Finish
    <3> QED
      BY <1>5, <2>2, <3>1
  <2> QED
    BY <2>1, <2>2
<1> QED
  BY <1>1, <1>5, <1>6, <1>7, <1>8, Zenon DEF Contract!Succeed, Contract!Running, Seen, Snaps

\* The answer is taken.
LEMMA ReceiveIsReceive ==
  ASSUME IInv, NEW g \in Guests, Receive(g)
  PROVE  Contract!Receive(g)
<1> DEFINE new == Idle
<1>1. /\ task[g].st \in {"ok", "err"} /\ task' = [task EXCEPT ![g] = new]
      /\ UNCHANGED <<store, table>>
  BY DEF Receive
<1>2. Seen' = [Seen EXCEPT ![g] = CallOf(new)] /\ Seen[g] = CallOf(task[g])
  <2> HIDE DEF new
  <2> QED
    BY <1>1, OneSeen
<1>3. CallOf(new) = Contract!Idle
  BY SeenOther DEF Idle, Contract!Idle
<1>4. Seen[g].st \in {"ok", "err"}
  <2>1. task[g] \in {Idle} \cup Task \cup Snapshot
    BY DEF IInv, TypeOK
  <2> QED
    BY <1>1, <1>2, <2>1, SeenTask, SeenOther
<1>5. Seen' = [Seen EXCEPT ![g] = Contract!Idle] /\ UNCHANGED Snaps
  BY <1>1, <1>2, <1>3, SameSnaps
<1> QED
  BY <1>1, <1>4, <1>5, Zenon DEF Contract!Receive, Seen, Snaps

\* cas.current is answered out of the snapshots of the instance.
LEMMA CasCurrentIsCurrent ==
  ASSUME IInv, NEW g \in Guests, CasCurrent(g)
  PROVE  Contract!Current(g)
<1>1. PICK s \in Slots :
        /\ table[g][s].kind = "cas"
        /\ task' = [task EXCEPT ![g] =
                      [st |-> "ok", op |-> "cas_current",
                       got |-> {[key |-> table[g][s].key, val |-> table[g][s].current]}]]
  BY DEF CasCurrent
<1> DEFINE seen == [key |-> table[g][s].key, val |-> table[g][s].current]
           new == [st |-> "ok", op |-> "cas_current", got |-> {seen}]
<1>2. task' = [task EXCEPT ![g] = new]
  BY <1>1
<1>3. seen \in Item
  <2>1. table[g][s] \in Entry
    BY DEF IInv, TypeOK
  <2> QED
    BY <1>1, <2>1 DEF Entry, Free, Item
<1>4. new \in Snapshot
  BY <1>3 DEF Snapshot
<1>5. seen \in Snaps[g]
  BY <1>1 DEF Snaps, SnapshotsOf
<1>6. Seen' = [Seen EXCEPT ![g] = CallOf(new)] /\ Seen[g] = CallOf(task[g])
  <2> HIDE DEF new
  <2> QED
    BY <1>2, OneSeen
<1>7. CallOf(new) = new
  <2> HIDE DEF new
  <2> QED
    BY <1>4, SeenOther
<1>8. Seen[g] = Contract!Idle
  BY <1>6, SeenOther DEF CasCurrent, Idle, Contract!Idle
<1>9. UNCHANGED <<store, Snaps>>
  BY SameSnaps DEF CasCurrent
<1>10. Seen' = [Seen EXCEPT ![g] = [st |-> "ok", op |-> "cas_current", got |-> {seen}]]
  BY <1>6, <1>7
<1> HIDE DEF seen
<1> QED
  BY <1>5, <1>8, <1>9, <1>10, Zenon DEF Contract!Current, Seen, Snaps

\* A call begins as the contract has it: with nothing accessed.
LEMMA CallIsInvoke ==
  ASSUME IInv, NEW g \in Guests, Call(g)
  PROVE  Contract!Invoke(g)
<1>0. PICK op \in Ops, s \in Slots : \E args \in Arguments(op) :
        /\ table[g][s].kind = "bucket"
        /\ task' = [task EXCEPT ![g] = [st |-> "run", op |-> op, bucket |-> table[g][s].name,
                                        args |-> args, pos |-> 1, got |-> {}]]
  BY DEF Call
<1>1. PICK args \in Arguments(op) :
        /\ table[g][s].kind = "bucket"
        /\ task' = [task EXCEPT ![g] = [st |-> "run", op |-> op, bucket |-> table[g][s].name,
                                        args |-> args, pos |-> 1, got |-> {}]]
  BY <1>0
<1> DEFINE new == [st |-> "run", op |-> op, bucket |-> table[g][s].name,
                   args |-> args, pos |-> 1, got |-> {}]
           view == [st |-> "run", op |-> op, bucket |-> table[g][s].name,
                    args |-> args, done |-> {}, got |-> {}]
<1>2. op \in AllOps
  BY ConstantsAssumption
<1>3. table[g][s].name \in Buckets
  <2>1. table[g][s] \in Entry
    BY DEF IInv, TypeOK
  <2> QED
    BY <1>1, <2>1 DEF Entry, Free
<1>4. args \in Seq(Item)
  BY <1>2, ArgumentsAreItems
<1>5. new \in Task /\ new.pos = 1 /\ new.got = {}
  BY <1>2, <1>3, <1>4 DEF Task
<1>6. CallOf(new) = view
  <2>1. CallOf(new) = [st |-> new.st, op |-> new.op, bucket |-> new.bucket, args |-> new.args,
                       done |-> DoneOf(new), got |-> GotOf(new)]
    <3> HIDE DEF new
    <3> QED
      BY <1>5, SeenTask
  <2>2. DoneOf(new) = {} /\ GotOf(new) = {}
    <3> HIDE DEF new
    <3> QED
      BY <1>5 DEF DoneOf, GotOf
  <2> QED
    BY <2>1, <2>2
<1>7. Seen' = [Seen EXCEPT ![g] = view] /\ Seen[g] = Contract!Idle
  <2>1. Seen' = [Seen EXCEPT ![g] = CallOf(new)] /\ Seen[g] = CallOf(task[g])
    <3>1. task' = [task EXCEPT ![g] = new]
      BY <1>1
    <3> HIDE DEF new
    <3> QED
      BY <3>1, OneSeen
  <2>2. CallOf(task[g]) = Contract!Idle
    BY SeenOther DEF Call, Idle, Contract!Idle
  <2> HIDE DEF new, view
  <2> QED
    BY <1>6, <2>1, <2>2
<1>8. /\ Seen' = [Seen EXCEPT ![g] = Seen'[g]]
      /\ Seen'[g] = view
  <2> HIDE DEF view
  <2> QED
    BY <1>7 DEF Seen
<1>9. Seen'[g] \in [st: {"run"}, op: Contract!Writers \cup Contract!Readers \cup {"list_keys", "increment"},
                    bucket: Buckets, args: Seq(Contract!Item), done: {{}}, got: {{}}]
  <2>1. Contract!Item = Item
    BY DEF Contract!Item, Item
  <2>2. op \in Contract!Writers \cup Contract!Readers \cup {"list_keys", "increment"}
    BY <1>2 DEF Contract!Writers, Contract!Readers, AllOps
  <2> QED
    BY <1>3, <1>4, <1>8, <2>1, <2>2
<1>10. UNCHANGED <<store, Snaps>>
  BY SameSnaps DEF Call
<1> HIDE DEF view
<1> QED
  BY <1>7, <1>8, <1>9, <1>10, Zenon DEF Contract!Invoke, Seen, Snaps

\* Opening and dropping handles: the contract sees at most snapshots forgotten.
LEMMA HandleIsForget ==
  ASSUME IInv, NEW g \in Guests, NEW s \in Slots, NEW e, e.kind # "cas",
         table' = [table EXCEPT ![g][s] = e], UNCHANGED <<store, task>>
  PROVE  Contract!Forget(g)
<1> DEFINE new == [table[g] EXCEPT ![s] = e]
<1>1. table' = [table EXCEPT ![g] = new]
  OBVIOUS
<1>2. /\ Snaps' = [Snaps EXCEPT ![g] = SnapshotsOf(new)] /\ Snaps'[g] = SnapshotsOf(new)
      /\ Snaps[g] = SnapshotsOf(table[g])
  <2> HIDE DEF new
  <2> QED
    BY <1>1, OneSnap
<1>3. SnapshotsOf(new) \subseteq SnapshotsOf(table[g])
  <2>1. table[g] \in [Slots -> Entry]
    BY DEF IInv, TypeOK
  <2>2. new[s] = e /\ \A x \in Slots \ {s} : new[x] = table[g][x]
    BY <2>1
  <2> HIDE DEF new
  <2> QED
    BY <2>2 DEF SnapshotsOf
<1> HIDE DEF new
<1>4. Snaps' = [Snaps EXCEPT ![g] = Snaps'[g]] /\ Snaps'[g] \subseteq Snaps[g]
  BY <1>2, <1>3
<1>5. UNCHANGED Seen
  BY DEF Seen, CallOf
<1> QED
  BY <1>4, <1>5, Zenon DEF Contract!Forget, Seen, Snaps

\* Every step of the host is one of the contract, or one it does not see, or one of
\* the three that depart from it.
LEMMA StepIsContractStep ==
  IInv /\ [Next]_vars => (\E g \in Guests : Departs(g)) \/ [Contract!Next]_(Contract!vars)
<1> SUFFICES ASSUME IInv, [Next]_vars, ~ \E g \in Guests : Departs(g)
             PROVE  [Contract!Next]_(Contract!vars)
  OBVIOUS
<1>1. CASE UNCHANGED vars
  <2>1. UNCHANGED <<store, Seen, Snaps>>
    BY <1>1 DEF vars, Seen, Snaps, CallOf, SnapshotsOf
  <2> QED
    BY <2>1, Zenon DEF Contract!vars, Seen, Snaps
<1>2. ASSUME NEW g \in Guests,
             \/ Open(g) \/ Drop(g) \/ CasCurrent(g) \/ Swap(g) \/ End(g)
             \/ Call(g) \/ Step(g) \/ Fail(g) \/ Receive(g)
      PROVE  Contract!Next \/ UNCHANGED Contract!vars
  <2>0. ~OverwritesUnseen(g) /\ ~RefusesAbsent(g) /\ ~LeavesOut(g)
    BY DEF Departs
  <2>1. CASE Open(g)
    <3>1. PICK s \in Slots, b \in Buckets : table' = [table EXCEPT ![g][s] = BucketProxy(b)]
      BY <2>1 DEF Open
    <3>2. BucketProxy(b).kind # "cas"
      BY DEF BucketProxy
    <3>3. Contract!Forget(g)
      BY <2>1, <3>1, <3>2, HandleIsForget DEF Open
    <3> QED
      BY <3>3 DEF Contract!Next
  <2>2. CASE Drop(g)
    <3>1. PICK s \in Slots : table' = [table EXCEPT ![g][s] = Free]
      BY <2>2 DEF Drop
    <3>2. Free.kind # "cas"
      BY DEF Free
    <3>3. Contract!Forget(g)
      BY <2>2, <3>1, <3>2, HandleIsForget DEF Drop
    <3> QED
      BY <3>3 DEF Contract!Next
  <2>3. CASE CasCurrent(g)
    BY <2>3, CasCurrentIsCurrent DEF Contract!Next
  <2>4. CASE Swap(g) \/ End(g)
    BY <2>4, EndIsEnd DEF Swap, Contract!Next
  <2>5. CASE Call(g)
    BY <2>5, CallIsInvoke DEF Contract!Next
  <2>6. CASE Step(g)
    BY <2>0, <2>6, GetIsRead, SetIsWrite, ListIsList, IncrementGetMaps, IncrementSetIsIncrement,
       FinishIsSucceed DEF Step, Contract!Next
  <2>7. CASE Fail(g)
    BY <2>7, FailIsFail DEF Contract!Next
  <2>8. CASE Receive(g)
    BY <2>8, ReceiveIsReceive DEF Contract!Next
  <2> QED
    BY <1>2, <2>1, <2>2, <2>3, <2>4, <2>5, <2>6, <2>7, <2>8
<1> QED
  BY <1>1, <1>2 DEF Next

\* The host starts where the contract starts.
LEMMA InitIsContractInit == Init => Contract!Init
<1> SUFFICES ASSUME Init PROVE Contract!Init
  OBVIOUS
<1>1. CallOf(Idle) = Contract!Idle
  BY SeenOther DEF Idle, Contract!Idle
<1>2. Seen = [g \in Guests |-> Contract!Idle]
  BY <1>1 DEF Init, Seen
<1>3. Snaps = [g \in Guests |-> {}]
  BY NoSnaps DEF Init, Snaps
<1> QED
  BY <1>2, <1>3, Zenon DEF Init, Contract!Init, Seen, Snaps

\* The host keeps the contract of wasi:keyvalue but for the three departures, for any
\* number of guests, buckets, keys and handles, batches of any length and a backend
\* that may fail: every access is made once, an ok answer means all of them were, a cas
\* handle keeps its snapshot, an increment nobody gets into is one access.
THEOREM KeepsTheContract == Spec => KeepsContractElsewhere
<1>1. IInv /\ [Next]_vars =>
        [(\E g \in Guests : Departs(g)) \/ [Contract!Next]_(Contract!vars)]_vars
  BY StepIsContractStep
<1> QED
  BY InitIsContractInit, <1>1, AlwaysIInv, PTL DEF Spec, KeepsContractElsewhere

\* A call that runs is one of those the guests make.
OpsInv == \A g \in Guests : Running(g) => task[g].op \in Ops

LEMMA OpsStay == IInv /\ OpsInv /\ [Next]_vars => OpsInv'
<1> SUFFICES ASSUME IInv, OpsInv, [Next]_vars, NEW h \in Guests, Running(h)'
             PROVE  task'[h].op \in Ops
  BY DEF OpsInv
<1>1. task \in [Guests -> {Idle} \cup Task \cup Snapshot]
  BY DEF IInv, TypeOK
<1>2. CASE UNCHANGED vars
  BY <1>2 DEF OpsInv, vars, Running
<1>3. ASSUME NEW g \in Guests,
             Open(g) \/ Drop(g) \/ CasCurrent(g) \/ Swap(g) \/ End(g) \/ Fail(g) \/ Receive(g)
      PROVE  task'[h].op \in Ops
  <2>1. CASE Open(g) \/ Drop(g)
    BY <2>1 DEF Open, Drop, OpsInv, Running
  <2>2. CASE Swap(g) \/ End(g) \/ Receive(g)
    BY <1>1, <2>2 DEF Swap, End, Receive, OpsInv, Running, Idle
  <2>3. CASE Fail(g)
    <3>1. task[g] \in Task
      BY <2>3, RunningTask DEF Fail
    <3>2. task'[h] = task[h] \/ task'[h].st = "err"
      BY <1>1, <2>3, <3>1 DEF Fail, Task
    <3> QED
      BY <3>2 DEF OpsInv, Running
  <2>4. CASE CasCurrent(g)
    <3>1. task'[h] = task[h] \/ task'[h].st = "ok"
      BY <1>1, <2>4 DEF CasCurrent
    <3> QED
      BY <3>1 DEF OpsInv, Running
  <2> QED
    BY <1>3, <2>1, <2>2, <2>3, <2>4
<1>4. ASSUME NEW g \in Guests, Call(g)
      PROVE  task'[h].op \in Ops
  <2>1. \E op \in Ops, s \in Slots : \E args \in Arguments(op) :
          task' = [task EXCEPT ![g] = [st |-> "run", op |-> op, bucket |-> table[g][s].name,
                                       args |-> args, pos |-> 1, got |-> {}]]
    BY <1>4 DEF Call
  <2>2. task'[h] = task[h] \/ task'[h].op \in Ops
    BY <1>1, <2>1
  <2> QED
    BY <2>2 DEF OpsInv, Running
<1>5. ASSUME NEW g \in Guests, Step(g)
      PROVE  task'[h].op \in Ops
  <2>1. Running(g)
    BY <1>5 DEF Step, GetStep, SetStep, ListStep, IncrementGet, IncrementSet, Finish, More
  <2>2. task[g] \in Task
    BY <2>1, RunningTask
  <2>3. task'[h] = task[h] \/ task'[h] = Idle \/ (h = g /\ task'[g].op = task[g].op)
    BY <1>1, <1>5, <2>2
       DEF Step, GetStep, SetStep, ListStep, IncrementGet, IncrementSet, Finish, End, Task
  <2> QED
    BY <2>1, <2>3 DEF OpsInv, Running, Idle
<1> QED
  BY <1>2, <1>3, <1>4, <1>5 DEF Next

\* Guests that call neither increment nor get_many have what wasi:keyvalue says in
\* every step: none of the three departures is in their reach.
THEOREM KeepsTheWhole ==
  ASSUME Ops \cap {"increment", "get_many"} = {}
  PROVE  Spec => ImplementsContract
<1>1. IInv /\ OpsInv /\ [Next]_vars => [Contract!Next]_(Contract!vars)
  <2> SUFFICES ASSUME IInv, OpsInv, [Next]_vars PROVE [Contract!Next]_(Contract!vars)
    OBVIOUS
  <2>1. ASSUME NEW g \in Guests PROVE ~Departs(g)
    BY DEF OpsInv, Departs, OverwritesUnseen, RefusesAbsent, LeavesOut,
           IncrementSet, IncrementGet, GetStep, More
  <2> QED
    BY <2>1, StepIsContractStep
<1>2. Init => OpsInv
  BY DEF Init, OpsInv, Running, Idle
<1> QED
  BY <1>1, <1>2, OpsStay, InitIsContractInit, AlwaysIInv, PTL
     DEF Spec, ImplementsContract, Contract!Spec

-----------------------------------------------------------------------------
(* What a guest may expect to read back (KeyValueHistory).                   *)

Marks == Values \cup {Missing, Unknown}
HTypes ==
  /\ lastWriter \in [Buckets -> [Keys -> Guests \cup {Nobody}]]
  /\ sent \in [Guests -> [Buckets -> [Keys -> Marks]]]

\* A key that g wrote last holds what g was told it had written.
Remembered(g) ==
  \A b \in Buckets, k \in Keys :
    lastWriter[b][k] = g /\ sent[g][b][k] # Unknown => store[b][k] = sent[g][b][k]

\* A call that writes has been told of nothing yet.
Unsettled(g) ==
  Running(g) /\ Writing(task[g]) =>
    \A k \in KeysOf(task[g]) : sent[g][task[g].bucket][k] = Unknown

\* The i-th argument is the last before n that names k.
LastBefore(args, n, i, k) == args[i].key = k /\ \A j \in 1..(n - 1) : args[j].key = k => j <= i

\* What lies behind a call that writes is in the store, where it wrote last.
Behind(g) ==
  Running(g) /\ Writing(task[g]) =>
    /\ task[g].op = "increment" /\ task[g].pos = 3 =>
         \E w \in Values :
           /\ task[g].got = {Put(task[g].args[1].key, w)}
           /\ lastWriter[task[g].bucket][task[g].args[1].key] = g =>
                store[task[g].bucket][task[g].args[1].key] = w
    /\ task[g].op # "increment" =>
         \A k \in Keys : lastWriter[task[g].bucket][k] = g =>
           \A i \in 1..(task[g].pos - 1) :
             LastBefore(task[g].args, task[g].pos, i, k) => store[task[g].bucket][k] = task[g].args[i].val

Expects(g) == Remembered(g) /\ Unsettled(g) /\ Behind(g)

HInv == IInv /\ HTypes /\ \A g \in Guests : Expects(g)

\* A step of another guest takes keys from g at most; a call of g's own that does
\* not write takes none.
LEMMA ExpectsStay ==
  ASSUME HInv, NEW g \in Guests,
         task'[g] = task[g] \/ ~(Running(g)' /\ Writing(task'[g])),
         sent'[g] = sent[g],
         \A b \in Buckets, k \in Keys :
           lastWriter'[b][k] = g => lastWriter[b][k] = g /\ store'[b][k] = store[b][k]
  PROVE  Expects(g)'
<1>1. Expects(g)
  BY DEF HInv
<1>2. Remembered(g)'
  BY <1>1 DEF Expects, Remembered
<1>3. CASE ~(Running(g)' /\ Writing(task'[g]))
  BY <1>2, <1>3 DEF Expects, Unsettled, Behind
<1>4. CASE task'[g] = task[g] /\ Running(g)' /\ Writing(task'[g])
  <2>1. Running(g) /\ Writing(task[g])
    BY <1>4 DEF Running
  <2>2. Unsettled(g)'
    BY <1>1, <1>4, <2>1 DEF Expects, Unsettled
  <2>3. task[g].bucket \in Buckets /\ task[g].args \in Seq(Item) /\ task[g].got \in SUBSET Item
    BY <2>1, RunningTask DEF HInv
  <2>4. ASSUME task'[g].op = "increment", task'[g].pos = 3
        PROVE  \E w \in Values :
                 /\ task'[g].got = {Put(task'[g].args[1].key, w)}
                 /\ lastWriter'[task'[g].bucket][task'[g].args[1].key] = g =>
                      store'[task'[g].bucket][task'[g].args[1].key] = w
    <3>1. PICK w \in Values :
                 /\ task[g].got = {Put(task[g].args[1].key, w)}
                 /\ lastWriter[task[g].bucket][task[g].args[1].key] = g =>
                      store[task[g].bucket][task[g].args[1].key] = w
      BY <1>1, <1>4, <2>1, <2>4 DEF Expects, Behind
    <3>2. Put(task[g].args[1].key, w) \in Item /\ Put(task[g].args[1].key, w).key = task[g].args[1].key
      BY <2>3, <3>1 DEF Put
    <3>3. task[g].args[1].key \in Keys
      BY <3>2 DEF Item
    <3> QED
      BY <1>4, <2>3, <3>1, <3>3
  <2>5. Behind(g)'
    BY <1>1, <1>4, <2>1, <2>3, <2>4 DEF Expects, Behind
  <2> QED
    BY <1>2, <2>2, <2>5 DEF Expects
<1> QED
  BY <1>3, <1>4


\* A step of KeyValueHistory is one of KeyValue.
LEMMA HistoryHides == HNext => Next
  BY DEF HNext, Next, Step, Started, Wrote, Acknowledged, Ended, Other

\* A set of numbers has a least one.
LEMMA LeastNumber ==
  ASSUME NEW T \in SUBSET Nat, T # {}
  PROVE  \E n \in T : \A m \in T : n <= m
<1> DEFINE R == OpToRel(<, Nat)
<1>1. \A x, y \in Nat : x < y => <<x, y>> \in R
  BY DEF OpToRel
<1>2. IsWellFoundedOn(R, Nat)
  BY NatLessThanWellFounded
<1> HIDE DEF R
<1>3. PICK n \in T : \A m \in T : <<m, n>> \notin R
  BY <1>2, WFMin
<1>4. ASSUME NEW m \in T PROVE n <= m
  <2>1. ~(m < n)
    BY <1>1, <1>3
  <2> QED
    BY <2>1
<1> QED
  BY <1>4

\* A key that is among the arguments is there a last time, with the value LastOf says.
LEMMA LastIsThere ==
  ASSUME NEW t \in Task, NEW k \in KeysOf(t)
  PROVE  \E i \in 1..Len(t.args) : LastBefore(t.args, Len(t.args) + 1, i, k) /\ LastOf(t, k) = t.args[i].val
<1>0. PICK n : n = Len(t.args)
  OBVIOUS
<1>1. t.args \in Seq(Item) /\ n \in Nat /\ DOMAIN t.args = 1..n
  BY <1>0 DEF Task
<1> DEFINE T == {d \in Nat : n - d \in 1..n /\ t.args[n - d].key = k}
<1>2. T # {}
  <2>1. PICK i \in 1..n : t.args[i].key = k
    BY <1>1 DEF KeysOf
  <2>2. n - i \in Nat /\ n - (n - i) = i
    BY <1>1
  <2> QED
    BY <2>1, <2>2
<1>3. PICK d \in T : \A m \in T : d <= m
  <2> HIDE DEF T
  <2>1. T \in SUBSET Nat
    BY DEF T
  <2> QED
    BY <1>2, <2>1, LeastNumber
<1>4. PICK i \in 1..n : t.args[i].key = k /\ i = n - d /\ d \in Nat
  BY <1>3
<1>5. ASSUME NEW j \in 1..n, t.args[j].key = k PROVE j <= i
  <2>1. n - j \in Nat /\ n - (n - j) = j
    BY <1>1
  <2>2. n - j \in T
    BY <1>5, <2>1
  <2>3. d <= n - j
    BY <1>3, <2>2
  <2> QED
    BY <1>1, <1>4, <2>3
<1>6. LastOf(t, k) = t.args[i].val
  <2>1. \A j \in 1..n : t.args[j].key = k /\ (\A l \in 1..n : t.args[l].key = k => l <= j) => j = i
    BY <1>1, <1>4, <1>5
  <2>2. i = CHOOSE j \in 1..n : t.args[j].key = k /\ \A l \in 1..n : t.args[l].key = k => l <= j
    BY <1>4, <1>5, <2>1
  <2> QED
    BY <1>1, <2>2 DEF LastOf
<1>7. LastBefore(t.args, n + 1, i, k)
  <2>1. (n + 1) - 1 = n
    BY <1>1
  <2> HIDE DEF T
  <2>2. t.args[i].key = k /\ \A j \in 1..n : t.args[j].key = k => j <= i
    BY <1>4, <1>5
  <2>3. t.args[i].key = k /\ \A j \in 1..((n + 1) - 1) : t.args[j].key = k => j <= i
    BY <2>1, <2>2, Zenon
  <2> QED
    BY <2>3, Zenon DEF LastBefore
<1> HIDE DEF T
<1> QED
  BY <1>0, <1>4, <1>6, <1>7

\* Which calls write.
LEMMA WritingTask ==
  ASSUME NEW t \in Task
  PROVE  Writing(t) <=> t.op \in {"set", "delete", "set_many", "delete_many", "increment"}
  BY DEF Writing, Task

\* The keys a call names are keys.
LEMMA KeysOfTask ==
  ASSUME NEW t \in Task
  PROVE  KeysOf(t) \subseteq Keys
<1>1. \A i \in DOMAIN t.args : t.args[i] \in Item
  BY DEF Task
<1> QED
  BY <1>1 DEF KeysOf, Item

\* g is told m of the keys of b, and nobody of anything else.
Told(g, b, m) ==
  /\ sent' \in [Guests -> [Buckets -> [Keys -> Marks]]]
  /\ sent'[g][b] = m
  /\ \A c \in Buckets : c # b => sent'[g][c] = sent[g][c]
  /\ \A h \in Guests : h # g => sent'[h] = sent[h]

LEMMA ToldOnly ==
  ASSUME HTypes, NEW g \in Guests, NEW b \in Buckets, NEW m \in [Keys -> Marks],
         sent' = [sent EXCEPT ![g][b] = m]
  PROVE  Told(g, b, m)
  BY DEF HTypes, Told

\* A call begins: it is told of its keys when it ends.
LEMMA StartedKeeps ==
  ASSUME HInv, IInv', NEW g \in Guests, Started(g)
  PROVE  HInv'
<1>1. PICK t : t = task'[g]
  OBVIOUS
<1>2. /\ t.st = "run" /\ t.pos = 1 /\ t.got = {}
      /\ \A h \in Guests : h # g => task'[h] = task[h]
      /\ store' = store /\ lastWriter' = lastWriter
  BY <1>1 DEF Started, Call, HInv, IInv, TypeOK
<1>3. t \in Task
  <2>1. t \in {Idle} \cup Task \cup Snapshot
    BY <1>1 DEF IInv, TypeOK
  <2> QED
    BY <1>2, <2>1 DEF Idle, Snapshot
<1>4. t.bucket \in Buckets
  BY <1>3 DEF Task
<1>5. CASE ~Writing(t)
  <2>1. sent' = sent
    BY <1>1, <1>5 DEF Started
  <2>2. \A h \in Guests : Expects(h)'
    BY <1>1, <1>2, <1>5, <2>1, ExpectsStay
  <2> QED
    BY <1>2, <2>1, <2>2 DEF HInv, HTypes
<1>6. CASE Writing(t)
  <2>1. sent' = [sent EXCEPT ![g][t.bucket] = [k \in Keys |-> IF k \in KeysOf(t) THEN Unknown ELSE @[k]]]
    BY <1>1, <1>6 DEF Started, Expect
  <2> DEFINE m == [k \in Keys |-> IF k \in KeysOf(t) THEN Unknown ELSE sent[g][t.bucket][k]]
  <2>2. sent' = [sent EXCEPT ![g][t.bucket] = m]
    BY <2>1
  <2>3. m \in [Keys -> Marks]
    BY <1>4 DEF HInv, HTypes, Marks
  <2>4. \A k \in Keys : m[k] = IF k \in KeysOf(t) THEN Unknown ELSE sent[g][t.bucket][k]
    OBVIOUS
  <2> HIDE DEF m
  <2>5. Told(g, t.bucket, m)
    BY <1>4, <2>2, <2>3, ToldOnly DEF HInv
  <2>6. ASSUME NEW h \in Guests, h # g PROVE Expects(h)'
    BY <1>2, <2>5, <2>6, ExpectsStay DEF Told
  <2>7. Remembered(g)'
    <3> SUFFICES ASSUME NEW b \in Buckets, NEW k \in Keys, lastWriter'[b][k] = g, sent'[g][b][k] # Unknown
                 PROVE  store'[b][k] = sent'[g][b][k]
      BY DEF Remembered
    <3>1. sent'[g][b][k] = sent[g][b][k]
      BY <2>4, <2>5 DEF Told
    <3> QED
      BY <1>2, <3>1 DEF HInv, Expects, Remembered
  <2>8. Unsettled(g)'
    BY <1>1, <1>3, <2>4, <2>5, KeysOfTask DEF Unsettled, Told
  <2>9. Behind(g)'
    BY <1>1, <1>2 DEF Behind
  <2> QED
    BY <1>2, <2>5, <2>6, <2>7, <2>8, <2>9 DEF HInv, HTypes, Told, Expects
<1> QED
  BY <1>5, <1>6

\* A call ends: it is told what it wrote, and where it was the last to write that
\* is what the store holds.
LEMMA AcknowledgedKeeps ==
  ASSUME HInv, IInv', NEW g \in Guests, Acknowledged(g)
  PROVE  HInv'
<1>1. PICK t : t = task[g]
  OBVIOUS
<1>2. Running(g) /\ t \in Task /\ t.pos = Accesses(t) + 1
  BY <1>1, RunningTask DEF Acknowledged, Finish, HInv
<1>3. /\ t.bucket \in Buckets /\ t.args \in Seq(Item) /\ t.pos \in Nat \ {0}
      /\ Len(t.args) \in Nat
  BY <1>2 DEF Task
<1>4. /\ ~Running(g)' /\ store' = store /\ lastWriter' = lastWriter
      /\ \A h \in Guests : h # g => task'[h] = task[h]
  BY <1>1, <1>2 DEF Acknowledged, Finish, HInv, IInv, TypeOK, Running, Task
<1>5. CASE ~Writing(t)
  <2>1. sent' = sent
    BY <1>1, <1>5 DEF Acknowledged
  <2>2. \A h \in Guests : Expects(h)'
    BY <1>4, <2>1, ExpectsStay
  <2> QED
    BY <1>4, <2>1, <2>2 DEF HInv, HTypes
<1>6. CASE Writing(t)
  <2> DEFINE v(k) == IF t.op = "increment" THEN (CHOOSE p \in t.got : p.key = k).val ELSE LastOf(t, k)
             m == [k \in Keys |-> IF k \in KeysOf(t) THEN v(k) ELSE sent[g][t.bucket][k]]
  <2>1. sent' = [sent EXCEPT ![g][t.bucket] = m]
    BY <1>1, <1>6 DEF Acknowledged, Expect
  <2>2. ASSUME NEW k \in KeysOf(t)
        PROVE  /\ v(k) \in Marks
               /\ lastWriter[t.bucket][k] = g => store[t.bucket][k] = v(k)
    <3>1. Expects(g) /\ k \in Keys
      BY <1>2, KeysOfTask DEF HInv
    <3>2. CASE t.op = "increment"
      <4>1. t.pos = 3 /\ Len(t.args) = 1
        BY <1>1, <1>2, <3>2 DEF Accesses, HInv, IInv, CallInv
      <4>2. k = t.args[1].key
        BY <1>3, <4>1 DEF KeysOf
      <4>3. PICK w \in Values : /\ t.got = {Put(k, w)}
                                /\ lastWriter[t.bucket][k] = g => store[t.bucket][k] = w
        BY <1>1, <1>2, <1>6, <3>1, <3>2, <4>1, <4>2 DEF Expects, Behind
      <4>4. Put(k, w).key = k /\ Put(k, w).val = w
        BY DEF Put
      <4>5. v(k) = w
        <5>1. Put(k, w) = CHOOSE p \in t.got : p.key = k
          BY <4>3, <4>4
        <5> QED
          BY <3>2, <4>4, <5>1
      <4> HIDE DEF v
      <4> QED
        BY <4>3, <4>5 DEF Marks
    <3>3. CASE t.op # "increment"
      <4>1. t.pos = Len(t.args) + 1 /\ t.pos - 1 = Len(t.args)
        BY <1>2, <1>3, <1>6, <3>3, WritingTask DEF Accesses
      <4>2. PICK i \in 1..Len(t.args) : LastBefore(t.args, t.pos, i, k) /\ LastOf(t, k) = t.args[i].val
        BY <1>2, <4>1, LastIsThere
      <4>3. lastWriter[t.bucket][k] = g => store[t.bucket][k] = t.args[i].val
        BY <1>1, <1>2, <1>6, <3>1, <3>3, <4>1, <4>2 DEF Expects, Behind
      <4>4. t.args[i] \in Item
        BY <1>3
      <4>5. v(k) = t.args[i].val
        BY <3>3, <4>2
      <4> HIDE DEF v
      <4> QED
        BY <4>3, <4>4, <4>5 DEF Item, Marks
    <3> QED
      BY <3>2, <3>3
  <2> HIDE DEF v
  <2>3. m \in [Keys -> Marks]
    BY <1>3, <2>2 DEF HInv, HTypes
  <2>4. \A k \in Keys : m[k] = IF k \in KeysOf(t) THEN v(k) ELSE sent[g][t.bucket][k]
    OBVIOUS
  <2> HIDE DEF m
  <2>5. Told(g, t.bucket, m)
    BY <1>3, <2>1, <2>3, ToldOnly DEF HInv
  <2>6. ASSUME NEW h \in Guests, h # g PROVE Expects(h)'
    BY <1>4, <2>5, <2>6, ExpectsStay DEF Told
  <2>7. Remembered(g)'
    <3> SUFFICES ASSUME NEW b \in Buckets, NEW k \in Keys, lastWriter'[b][k] = g, sent'[g][b][k] # Unknown
                 PROVE  store'[b][k] = sent'[g][b][k]
      BY DEF Remembered
    <3>1. CASE b = t.bucket /\ k \in KeysOf(t)
      BY <1>4, <2>2, <2>4, <2>5, <3>1 DEF Told
    <3>2. CASE ~(b = t.bucket /\ k \in KeysOf(t))
      <4>1. sent'[g][b][k] = sent[g][b][k]
        BY <2>4, <2>5, <3>2 DEF Told
      <4> QED
        BY <1>4, <4>1 DEF HInv, Expects, Remembered
    <3> QED
      BY <3>1, <3>2
  <2>8. Unsettled(g)' /\ Behind(g)'
    BY <1>4 DEF Unsettled, Behind
  <2> QED
    BY <1>4, <2>5, <2>6, <2>7, <2>8 DEF HInv, HTypes, Told, Expects
<1> QED
  BY <1>5, <1>6

\* g writes key k of bucket b: only g's view of that key can change.
Put1(g, b, k, v) ==
  /\ store' = [store EXCEPT ![b][k] = v] /\ lastWriter' = [lastWriter EXCEPT ![b][k] = g]
  /\ sent' = sent

\* What that leaves.
PutDone(g, b, k, v) ==
  /\ HTypes' /\ store'[b][k] = v /\ lastWriter'[b][k] = g
  /\ \A c \in Buckets, l \in Keys : c # b \/ l # k =>
       store'[c][l] = store[c][l] /\ lastWriter'[c][l] = lastWriter[c][l]

\* What a write changes, and what it does not.
LEMMA PutOnly ==
  ASSUME HInv, NEW g \in Guests, NEW b \in Buckets, NEW k \in Keys, NEW v, Put1(g, b, k, v)
  PROVE  PutDone(g, b, k, v)
  BY DEF HInv, HTypes, IInv, TypeOK, Put1, PutDone

\* A write of a call: what others expect stands, and so does what the call knows.
LEMMA WroteKeeps ==
  ASSUME HInv, IInv', NEW g \in Guests, Wrote(g)
  PROVE  HInv'
<1>1. PICK t : t = task[g]
  OBVIOUS
<1>2. /\ Running(g) /\ t \in Task /\ Writing(t)
      /\ SetStep(g) => t.op # "increment" /\ More(g) /\ Next1(g) = t.args[t.pos]
      /\ IncrementSet(g) => t.op = "increment" /\ t.pos = 2
  <2>1. Running(g)
    BY DEF Wrote, SetStep, More, IncrementSet
  <2>2. t \in Task
    BY <1>1, <2>1, RunningTask DEF HInv
  <2> QED
    BY <1>1, <2>1, <2>2, WritingTask DEF Wrote, SetStep, IncrementSet, Next1
<1>3. t.bucket \in Buckets /\ t.args \in Seq(Item) /\ t.pos \in Nat \ {0} /\ Len(t.args) \in Nat
  BY <1>2 DEF Task
<1>4. Expects(g)
  BY DEF HInv
<1>5. PICK k \in Keys : \E v : Put1(g, t.bucket, k, v) /\ k \in KeysOf(t)
                        /\ (SetStep(g) => k = t.args[t.pos].key /\ v = t.args[t.pos].val)
                        /\ (IncrementSet(g) => k = t.args[1].key
                              /\ \E w \in Values : v = w /\ task' = [task EXCEPT ![g].pos = 3, ![g].got = {Put(k, w)}])
  <2>1. CASE SetStep(g)
    <3>1. Next1(g).key \in Keys /\ t.pos \in DOMAIN t.args
      BY <1>1, <1>2, <2>1, NextItem DEF HInv
    <3>2. Put1(g, t.bucket, Next1(g).key, Next1(g).val)
      BY <1>1, <1>2, <2>1 DEF Put1, Wrote, SetStep
    <3>3. Next1(g).key \in KeysOf(t) /\ ~IncrementSet(g)
      BY <1>2, <2>1, <3>1 DEF KeysOf
    <3> QED
      BY <1>2, <2>1, <3>1, <3>2, <3>3
  <2>2. CASE IncrementSet(g)
    <3>1. /\ t.args[1].key \in Keys /\ t.args[1].val \in Values /\ Len(t.args) = 1
          /\ \E u \in Values : t.got = {Put(t.args[1].key, u)}
      BY <1>1, <1>2, <2>2, IncrementHolds DEF HInv, IInv, CallInv
    <3>2. PICK u \in Values : t.got = {Put(t.args[1].key, u)}
      BY <3>1
    <3>3. PICK w : w = Incremented(u, t.args[1].val)
      OBVIOUS
    <3>4. w \in Values
      BY <3>1, <3>3, IncrementedIsFull
    <3>5. /\ store' = [store EXCEPT ![t.bucket][t.args[1].key] = w]
          /\ task' = [task EXCEPT ![g].pos = 3, ![g].got = {Put(t.args[1].key, w)}]
      <4>1. Put(t.args[1].key, u).key = t.args[1].key /\ Put(t.args[1].key, u).val = u
        BY DEF Put
      <4> QED
        BY <1>1, <2>2, <3>2, <3>3, <4>1 DEF IncrementSet
    <3>6. Put1(g, t.bucket, t.args[1].key, w)
      BY <1>1, <1>2, <2>2, <3>5 DEF Put1, Wrote
    <3>7. t.args[1].key \in KeysOf(t) /\ ~SetStep(g)
      BY <1>2, <1>3, <2>2, <3>1 DEF KeysOf
    <3> QED
      BY <3>1, <3>4, <3>5, <3>6, <3>7
  <2> QED
    BY <2>1, <2>2 DEF Wrote
<1>6. PICK v : /\ Put1(g, t.bucket, k, v) /\ k \in KeysOf(t)
               /\ SetStep(g) => k = t.args[t.pos].key /\ v = t.args[t.pos].val
               /\ IncrementSet(g) => k = t.args[1].key
                     /\ \E w \in Values : v = w /\ task' = [task EXCEPT ![g].pos = 3, ![g].got = {Put(k, w)}]
  BY <1>5
<1>7. /\ HTypes' /\ store'[t.bucket][k] = v /\ lastWriter'[t.bucket][k] = g /\ sent' = sent
      /\ \A c \in Buckets, l \in Keys : c # t.bucket \/ l # k =>
           store'[c][l] = store[c][l] /\ lastWriter'[c][l] = lastWriter[c][l]
  <2>1. PutDone(g, t.bucket, k, v)
    BY <1>3, <1>6, PutOnly
  <2> QED
    BY <1>6, <2>1 DEF Put1, PutDone
<1>8. PICK u : u = task'[g]
  OBVIOUS
<1>9. /\ u.op = t.op /\ u.args = t.args /\ u.bucket = t.bucket /\ u.st = t.st
      /\ SetStep(g) => u.pos = t.pos + 1
      /\ IncrementSet(g) => u.pos = 3 /\ u.got = {Put(k, v)} /\ v \in Values
      /\ \A h \in Guests : h # g => task'[h] = task[h]
  <2>1. task \in [Guests -> {Idle} \cup Task \cup Snapshot]
    BY DEF HInv, IInv, TypeOK
  <2>2. CASE SetStep(g)
    <3>1. task' = [task EXCEPT ![g] = [t EXCEPT !.pos = t.pos + 1]]
      BY <1>1, <2>1, <2>2 DEF SetStep
    <3>2. u = [t EXCEPT !.pos = t.pos + 1] /\ \A h \in Guests : h # g => task'[h] = task[h]
      BY <1>8, <2>1, <3>1
    <3> QED
      BY <1>2, <2>2, <3>2 DEF Task
  <2>3. CASE IncrementSet(g)
    <3>1. v \in Values /\ task' = [task EXCEPT ![g] = [t EXCEPT !.pos = 3, !.got = {Put(k, v)}]]
      BY <1>1, <1>6, <2>1, <2>3
    <3>2. u = [t EXCEPT !.pos = 3, !.got = {Put(k, v)}] /\ \A h \in Guests : h # g => task'[h] = task[h]
      BY <1>8, <2>1, <3>1
    <3> QED
      BY <1>2, <2>3, <3>1, <3>2 DEF Task
  <2> QED
    BY <2>2, <2>3 DEF Wrote
<1>10. ASSUME NEW h \in Guests, h # g PROVE Expects(h)'
  <2>1. ASSUME NEW b \in Buckets, NEW l \in Keys, lastWriter'[b][l] = h
        PROVE  lastWriter[b][l] = h /\ store'[b][l] = store[b][l]
    BY <1>7, <1>10, <2>1
  <2> QED
    BY <1>7, <1>9, <1>10, <2>1, ExpectsStay
<1>11. \A l \in KeysOf(t) : sent[g][t.bucket][l] = Unknown
  BY <1>1, <1>2, <1>4 DEF Expects, Unsettled
<1>12. Remembered(g)'
  <2> SUFFICES ASSUME NEW b \in Buckets, NEW l \in Keys, lastWriter'[b][l] = g, sent'[g][b][l] # Unknown
               PROVE  store'[b][l] = sent'[g][b][l]
    BY DEF Remembered
  <2>1. b # t.bucket \/ l # k
    BY <1>6, <1>7, <1>11
  <2> QED
    BY <1>4, <1>7, <2>1 DEF Expects, Remembered
<1>13. Unsettled(g)'
  BY <1>7, <1>8, <1>9, <1>11 DEF Unsettled, KeysOf
<1>14. Behind(g)'
  <2>1. CASE IncrementSet(g)
    BY <1>2, <1>6, <1>7, <1>8, <1>9, <2>1 DEF Behind
  <2>2. CASE SetStep(g)
    <3>1. t.pos \in 1..Len(t.args) /\ u.pos - 1 = t.pos /\ u.op # "increment"
      BY <1>1, <1>2, <1>3, <1>9, <2>2 DEF More
    <3>2. ASSUME NEW l \in Keys, lastWriter'[t.bucket][l] = g, NEW i \in 1..t.pos,
                 LastBefore(t.args, t.pos + 1, i, l)
          PROVE  store'[t.bucket][l] = t.args[i].val
      <4>1. \A j \in 1..t.pos : t.args[j].key = l => j <= i
        BY <1>3, <3>2 DEF LastBefore
      <4>2. t.args[i].key = l
        BY <3>2 DEF LastBefore
      <4>3. CASE l = k
        <5>1. t.pos <= i
          BY <1>3, <1>6, <2>2, <4>1, <4>3
        <5>2. i = t.pos
          BY <1>3, <5>1
        <5> QED
          BY <1>6, <1>7, <2>2, <4>3, <5>2
      <4>4. CASE l # k
        <5>1. i # t.pos
          BY <1>6, <2>2, <4>2, <4>4
        <5>2. i \in 1..(t.pos - 1) /\ LastBefore(t.args, t.pos, i, l)
          BY <1>3, <4>1, <4>2, <5>1 DEF LastBefore
        <5>3. lastWriter[t.bucket][l] = g /\ store'[t.bucket][l] = store[t.bucket][l]
          BY <1>3, <1>7, <3>2, <4>4
        <5> QED
          BY <1>1, <1>2, <1>4, <2>2, <5>2, <5>3 DEF Expects, Behind
      <4> QED
        BY <4>3, <4>4
    <3>3. u.pos = t.pos + 1
      BY <1>9, <2>2
    <3> QED
      BY <1>8, <1>9, <3>1, <3>2, <3>3 DEF Behind
  <2> QED
    BY <2>1, <2>2 DEF Wrote
<1> QED
  BY <1>7, <1>10, <1>12, <1>13, <1>14 DEF HInv, Expects

\* An instance that ends takes its expectations with it, and nobody else's.
LEMMA EndedKeeps ==
  ASSUME HInv, IInv', NEW g \in Guests, Ended(g)
  PROVE  HInv'
<1>1. /\ task'[g] = Idle /\ store' = store
      /\ \A h \in Guests : h # g => task'[h] = task[h]
  BY DEF Ended, Forgot, End, Swap, IncrementGet, HInv, IInv, TypeOK
<1>2. PICK none \in [Buckets -> [Keys -> Marks]] : none = [b \in Buckets |-> [k \in Keys |-> Unknown]]
  BY DEF Marks
<1>3. /\ sent' = [sent EXCEPT ![g] = none]
      /\ lastWriter' = [b \in Buckets |-> [k \in Keys |->
                          IF lastWriter[b][k] = g THEN Nobody ELSE lastWriter[b][k]]]
  BY <1>2 DEF Ended, Forgot
<1>4. /\ sent'[g] = none /\ sent' \in [Guests -> [Buckets -> [Keys -> Marks]]]
      /\ \A h \in Guests : h # g => sent'[h] = sent[h]
  BY <1>2, <1>3 DEF HInv, HTypes
<1>5. \A b \in Buckets, k \in Keys :
        lastWriter'[b][k] = IF lastWriter[b][k] = g THEN Nobody ELSE lastWriter[b][k]
  BY <1>3
<1>6. HTypes'
  BY <1>3, <1>4 DEF HInv, HTypes
<1>7. ASSUME NEW h \in Guests, h # g PROVE Expects(h)'
  <2>1. ASSUME NEW b \in Buckets, NEW k \in Keys, lastWriter'[b][k] = h
        PROVE  lastWriter[b][k] = h /\ store'[b][k] = store[b][k]
    BY <1>1, <1>5, <2>1, HistoryAssumption
  <2> QED
    BY <1>1, <1>4, <1>7, <2>1, ExpectsStay
<1>8. Expects(g)'
  <2>1. Remembered(g)'
    BY <1>2, <1>4 DEF Remembered
  <2>2. ~Running(g)'
    BY <1>1 DEF Running, Idle
  <2> QED
    BY <2>1, <2>2 DEF Expects, Unsettled, Behind
<1> QED
  BY <1>6, <1>7, <1>8 DEF HInv

\* The steps that write nothing and answer no call that does.
LEMMA OtherKeeps ==
  ASSUME HInv, IInv', NEW g \in Guests, Other(g)
  PROVE  HInv'
<1>1. /\ store' = store /\ lastWriter' = lastWriter /\ sent' = sent
      /\ \A h \in Guests : h # g => task'[h] = task[h]
  BY DEF Other, Open, Drop, CasCurrent, GetStep, ListStep, Fail, Receive, IncrementGet, End, HInv, IInv, TypeOK, Idle
<1>2. ASSUME NEW h \in Guests, task'[h] = task[h] \/ ~(Running(h)' /\ Writing(task'[h]))
      PROVE  Expects(h)'
  BY <1>1, <1>2, ExpectsStay
<1>3. CASE task'[g] = task[g] \/ ~(Running(g)' /\ Writing(task'[g]))
  BY <1>1, <1>2, <1>3 DEF HInv, HTypes
<1>4. CASE IncrementGet(g) /\ Running(g)' /\ Writing(task'[g])
  <2>1. PICK t, u : t = task[g] /\ u = task'[g]
    OBVIOUS
  <2>2. Running(g) /\ t \in Task /\ t.op = "increment"
    BY <1>4, <2>1, RunningTask DEF IncrementGet, More, HInv
  <2>3. \E got : u = [t EXCEPT !.pos = 2, !.got = got]
    <3>1. task \in [Guests -> {Idle} \cup Task \cup Snapshot]
      BY DEF HInv, IInv, TypeOK
    <3>2. \/ \E got : task' = [task EXCEPT ![g].pos = 2, ![g].got = got]
          \/ task' = [task EXCEPT ![g].st = "err", ![g].got = {}]
          \/ task' = [task EXCEPT ![g] = Idle]
      BY <1>4 DEF IncrementGet, End
    <3>3. CASE \E got : task' = [task EXCEPT ![g].pos = 2, ![g].got = got]
      BY <2>1, <3>1, <3>3
    <3>4. CASE task' = [task EXCEPT ![g].st = "err", ![g].got = {}]
      <4>1. task'[g] = [t EXCEPT !.st = "err", !.got = {}]
        BY <2>1, <3>1, <3>4
      <4> QED
        BY <1>4, <2>2, <4>1 DEF Running, Task
    <3>5. CASE task' = [task EXCEPT ![g] = Idle]
      BY <1>4, <3>1, <3>5 DEF Running, Idle
    <3> QED
      BY <3>2, <3>3, <3>4, <3>5
  <2>4. u.op = t.op /\ u.args = t.args /\ u.bucket = t.bucket /\ u.pos = 2
    BY <2>2, <2>3 DEF Task
  <2>5. Writing(t)
    BY <2>2, WritingTask
  <2>6. Remembered(g)'
    BY <1>1 DEF HInv, Expects, Remembered
  <2>7. Unsettled(g)'
    BY <1>1, <2>1, <2>2, <2>4, <2>5 DEF HInv, Expects, Unsettled, KeysOf
  <2>8. Behind(g)'
    BY <2>1, <2>2, <2>4 DEF Behind
  <2>9. Expects(g)'
    BY <2>6, <2>7, <2>8 DEF Expects
  <2> QED
    BY <1>1, <1>2, <2>9 DEF HInv, HTypes
<1>5. (task'[g] = task[g] \/ ~(Running(g)' /\ Writing(task'[g])))
      \/ (IncrementGet(g) /\ Running(g)' /\ Writing(task'[g]))
  <2>1. CASE Open(g) \/ Drop(g)
    BY <2>1 DEF Open, Drop
  <2>2. CASE CasCurrent(g) \/ Fail(g) \/ Receive(g)
    <3>1. task \in [Guests -> {Idle} \cup Task \cup Snapshot]
      BY DEF HInv, IInv, TypeOK
    <3>2. CASE CasCurrent(g) \/ Receive(g)
      <4>1. task'[g].st # "run"
        BY <3>1, <3>2 DEF CasCurrent, Receive, Idle
      <4> QED
        BY <4>1 DEF Running
    <3>3. CASE Fail(g)
      <4>1. task[g] \in Task /\ task'[g] = [task[g] EXCEPT !.st = "err", !.got = {}]
        BY <3>1, <3>3, RunningTask DEF Fail, HInv
      <4>2. task'[g].st = "err"
        BY <4>1 DEF Task
      <4> QED
        BY <4>2 DEF Running
    <3> QED
      BY <2>2, <3>2, <3>3
  <2>3. CASE GetStep(g) \/ ListStep(g)
    <3>1. task'[g] \in {Idle} \cup Task \cup Snapshot
      BY DEF IInv, TypeOK
    <3>2. task'[g].st = "run" => task'[g] \in Task
      BY <3>1 DEF Idle, Snapshot
    <3>3. Running(g) /\ task[g] \in Task
      BY <2>3, RunningTask DEF GetStep, ListStep, More, HInv
    <3>4. task'[g].op = task[g].op /\ task[g].op \in {"get", "exists", "get_many", "cas_new", "list_keys"}
      BY <2>3, <3>3 DEF GetStep, ListStep, HInv, IInv, TypeOK, Task
    <3>5. ~(Running(g)' /\ Writing(task'[g]))
      BY <3>2, <3>4, WritingTask DEF Running
    <3> QED
      BY <3>5
  <2>4. CASE IncrementGet(g)
    BY <2>4
  <2> QED
    BY <2>1, <2>2, <2>3, <2>4 DEF Other
<1> QED
  BY <1>3, <1>4, <1>5

\* Nothing is expected at the start.
LEMMA HInitInv == HInit => HInv
<1> SUFFICES ASSUME HInit PROVE HInv
  OBVIOUS
<1>1. IInv
  BY InitInv DEF HInit
<1>2. HTypes
  BY DEF HInit, HTypes, Marks
<1>3. ASSUME NEW g \in Guests PROVE Expects(g)
  <2>1. ~Running(g)
    BY DEF HInit, Init, Running, Idle
  <2>2. Remembered(g)
    BY DEF HInit, Remembered
  <2> QED
    BY <2>1, <2>2 DEF Expects, Unsettled, Behind
<1> QED
  BY <1>1, <1>2, <1>3 DEF HInv

\* Every step keeps what is expected true.
LEMMA HNextInv == HInv /\ [HNext]_hvars => HInv'
<1> SUFFICES ASSUME HInv, [HNext]_hvars PROVE HInv'
  OBVIOUS
<1>1. [Next]_vars
  BY HistoryHides DEF hvars
<1>2. IInv'
  BY <1>1, NextInv DEF HInv
<1>3. CASE UNCHANGED hvars
  <2>1. task' = task /\ store' = store /\ lastWriter' = lastWriter /\ sent' = sent
    BY <1>3 DEF hvars, vars
  <2>2. ASSUME NEW g \in Guests PROVE Expects(g)'
    BY <2>1, ExpectsStay
  <2> QED
    BY <1>2, <2>1, <2>2 DEF HInv, HTypes
<1>4. CASE HNext
  BY <1>2, <1>4, StartedKeeps, WroteKeeps, AcknowledgedKeeps, EndedKeeps, OtherKeeps DEF HNext
<1> QED
  BY <1>3, <1>4

\* What is expected is true in every reachable state.
LEMMA AlwaysHInv == HSpec => []HInv
<1> QED
  BY HInitInv, HNextInv, PTL DEF HSpec

\* A call that reads moves on by a read of its own, and by nothing else.
LEMMA ReadsMoveByGet ==
  ASSUME HInv, HNext, NEW g \in Guests, task[g].st = "run", task'[g].st = "run",
         task[g].op \in {"get", "exists", "get_many", "cas_new"}, task'[g].pos > task[g].pos
  PROVE  GetStep(g)
<1>1. PICK h \in Guests : Started(h) \/ Wrote(h) \/ Acknowledged(h) \/ Ended(h) \/ Other(h)
  BY DEF HNext
<1>2. /\ task \in [Guests -> {Idle} \cup Task \cup Snapshot] /\ task[g] \in Task
      /\ task[g].pos \in Nat \ {0}
  BY RunningTask DEF HInv, IInv, TypeOK, Running
<1>3. Next /\ \/ Open(h) \/ Drop(h) \/ CasCurrent(h) \/ Swap(h) \/ End(h) \/ Call(h)
              \/ GetStep(h) \/ SetStep(h) \/ ListStep(h) \/ IncrementGet(h) \/ IncrementSet(h)
              \/ Finish(h) \/ Fail(h) \/ Receive(h)
  BY <1>1, HistoryHides DEF Started, Wrote, Acknowledged, Ended, Other
<1>4. task'[g] # task[g]
  BY <1>2
<1>5. h = g
  BY <1>2, <1>3, <1>4 DEF Open, Drop, CasCurrent, Swap, End, Call, GetStep, SetStep, ListStep, IncrementGet,
       IncrementSet, Finish, Fail, Receive
<1>6. task[g] # Idle
  BY DEF Idle
<1>7. ~(Open(g) \/ Drop(g) \/ CasCurrent(g) \/ Swap(g) \/ Call(g))
  BY <1>6 DEF Open, Drop, CasCurrent, Swap, Call
<1>8. ~(End(g) \/ Receive(g))
  BY <1>2 DEF End, Receive, Idle
<1>9. ~(SetStep(g) \/ ListStep(g) \/ IncrementGet(g) \/ IncrementSet(g))
  BY DEF SetStep, ListStep, IncrementGet, IncrementSet
<1>10. ~Fail(g)
  <2>1. Fail(g) => task'[g] = [task[g] EXCEPT !.st = "err", !.got = {}]
    BY <1>2 DEF Fail
  <2> QED
    BY <1>2, <2>1 DEF Task
<1>11. ~Finish(g)
  <2>1. Finish(g) => task'[g] = [task[g] EXCEPT !.st = "ok"]
    BY <1>2 DEF Finish
  <2> QED
    BY <1>2, <2>1 DEF Task
<1> QED
  BY <1>3, <1>5, <1>7, <1>8, <1>9, <1>10, <1>11

\* A key whose last write was g's own, and acknowledged, reads as what g wrote,
\* through whatever handle and by whatever call: with any number of guests,
\* buckets and keys, whatever the others read and write elsewhere meanwhile.
THEOREM ReadsOwnWrites == HSpec => ReadYourWrites
<1> DEFINE Reads(g, b, k) ==
      /\ task[g].st = "run" /\ task'[g].st = "run"
      /\ task[g].op \in {"get", "exists", "get_many", "cas_new"} /\ task[g].bucket = b
      /\ task'[g].pos > task[g].pos /\ Next1(g).key = k
      /\ lastWriter[b][k] = g /\ sent[g][b][k] # Unknown
      => /\ task'[g].got \ task[g].got \subseteq {Put(k, sent[g][b][k])}
         /\ (sent[g][b][k] = Missing \/ Put(k, sent[g][b][k]) \in task'[g].got)
<1>1. HInv /\ [HNext]_hvars => [\A g \in Guests, b \in Buckets, k \in Keys : Reads(g, b, k)]_hvars
  <2> SUFFICES ASSUME HInv, HNext, NEW g \in Guests, NEW b \in Buckets, NEW k \in Keys
               PROVE  Reads(g, b, k)
    OBVIOUS
  <2> SUFFICES ASSUME task[g].st = "run", task'[g].st = "run",
                      task[g].op \in {"get", "exists", "get_many", "cas_new"}, task[g].bucket = b,
                      task'[g].pos > task[g].pos, Next1(g).key = k,
                      lastWriter[b][k] = g, sent[g][b][k] # Unknown
               PROVE  /\ task'[g].got \ task[g].got \subseteq {Put(k, sent[g][b][k])}
                      /\ sent[g][b][k] = Missing \/ Put(k, sent[g][b][k]) \in task'[g].got
    OBVIOUS
  <2>1. GetStep(g)
    BY ReadsMoveByGet
  <2>2. At(g, k) = sent[g][b][k]
    BY DEF HInv, Expects, Remembered, At
  <2>3. task[g] \in Task /\ task \in [Guests -> {Idle} \cup Task \cup Snapshot]
    BY RunningTask DEF HInv, IInv, TypeOK, Running
  <2>4. PICK found : /\ found = IF task[g].op = "get_many" /\ At(g, k) = Missing
                                 THEN {} ELSE {Put(k, At(g, k))}
                     /\ task' = [task EXCEPT ![g].pos = @ + 1, ![g].got = @ \cup found]
    BY <2>1 DEF GetStep
  <2>5. task'[g].got = task[g].got \cup found
    BY <2>3, <2>4 DEF Task
  <2> QED
    BY <2>2, <2>4, <2>5
<1> QED
  BY <1>1, AlwaysHInv, PTL DEF HSpec, ReadYourWrites
=============================================================================
