------------------------------ MODULE KeyValue ------------------------------
(***************************************************************************)
(* The wasi-keyvalue host: the functions a guest imports                   *)
(* (host/store_impl.rs, atomics_impl.rs, batch_impl.rs) over the in-memory *)
(* backend (host/default_impl.rs).                                         *)
(*                                                                         *)
(* Every request runs in an instance of its own with its own resource      *)
(* table; the backend is shared by all of them.  A host function looks its *)
(* handle up, clones the bucket out of the table and then awaits one       *)
(* backend call per key.  Each backend call takes the lock for itself, so  *)
(* the calls of other instances run between any two of them.               *)
(*                                                                         *)
(* A guest has one call in flight at a time: two calls of one instance     *)
(* meet only at the store, exactly as the calls of two instances do.       *)
(***************************************************************************)
EXTENDS Integers, Sequences, FiniteSets

CONSTANTS
  Guests,         \* instances alive at one time; an ended one is replaced
  Buckets,        \* bucket identifiers
  Keys,           \* keys of a bucket
  Slots,          \* entries of a resource table (bound; u32 in wasmtime)
  Missing,        \* what get returns for an absent key: None
  Half,           \* i64 runs from -Half to Half - 1 (2^63)
  Top,            \* the weight of the first of the eight bytes (2^56)
  Written,        \* the values guests write
  Deltas,         \* the deltas guests increment by
  MaxBatch,       \* bound on the keys of a batch call
  Ops,            \* the functions the guests of this instance of the model call
  Faulty          \* whether the backend may fail a call (the in-memory one never does)

Words == -Half..(Half - 1)

\* A value is eight bytes or more, of which the first eight are a word, or
\* it is shorter; one byte stands for every shorter value.
Full(n) == [full |-> TRUE, n |-> n]
Short(n) == [full |-> FALSE, n |-> n]
Values == [full: {TRUE}, n: Words] \cup [full: {FALSE}, n: Nat]

AllOps == {"get", "exists", "get_many", "cas_new", "set", "delete", "set_many", "delete_many",
           "list_keys", "increment"}

ASSUME ConstantsAssumption ==
  /\ Missing \notin Values
  /\ Half \in Nat \ {0} /\ Top \in Nat \ {0}
  /\ Written \subseteq Values
  /\ Deltas \subseteq Words
  /\ MaxBatch \in Nat
  /\ Ops \subseteq AllOps
  /\ Faulty \in BOOLEAN

VARIABLES
  store,  \* store[b][k]: the HashMap of HashMaps behind the RwLock
  table,  \* table[g][s]: the resource table of instance g
  task    \* task[g]: the host function instance g is in

vars == <<store, table, task>>

Item == [key: Keys, val: Values \cup {Missing}]

Free == [kind |-> "free"]
BucketProxy(b) == [kind |-> "bucket", name |-> b]
CasSwapped(k, v) == [kind |-> "cas", key |-> v, current |-> k]   \* a fault: the fields mixed up
Cas(k, v) == [kind |-> "cas", key |-> k, current |-> v]
Entry == {Free} \cup [kind: {"bucket"}, name: Buckets]
                \cup [kind: {"cas"}, key: Keys, current: Values \cup {Missing}]

Idle == [st |-> "idle"]
\* A call: its bucket (cloned at the start), its arguments, the position of the
\* next backend call and what it has read so far.
Task == [st: {"run", "ok", "err"}, op: AllOps, bucket: Buckets, args: Seq(Item),
         pos: Nat \ {0}, got: SUBSET Item]
Snapshot == [st: {"ok"}, op: {"cas_current"}, got: SUBSET Item]

Init ==
  /\ store = [b \in Buckets |-> [k \in Keys |-> Missing]]
  /\ table = [g \in Guests |-> [s \in Slots |-> Free]]
  /\ task = [g \in Guests |-> Idle]

-----------------------------------------------------------------------------
(* Numbers: increment copies up to eight bytes to the front of a zeroed      *)
(* buffer and reads it big-endian, so a short value is read from the top.    *)

Wrap(x) == ((x + Half) % (2 * Half)) - Half
Decode(v) == IF v.full THEN v.n ELSE Wrap(v.n * Top)
Sum(v, d) == Decode(v) + Decode(d)
\* A fault: the sum stays at the edge it ran into.
IncrementedStays(v, d) ==
  Full(IF Sum(v, d) >= Half THEN Half - 1 ELSE IF Sum(v, d) < -Half THEN -Half ELSE Sum(v, d))
Incremented(v, d) == Full(Wrap(Sum(v, d)))

-----------------------------------------------------------------------------
(* Handles.                                                                  *)

\* open: the bucket exists from now on (an empty one and none read alike).
Open(g) ==
  /\ task[g] = Idle
  /\ \E s \in Slots, b \in Buckets :
       /\ table[g][s] = Free
       /\ table' = [table EXCEPT ![g][s] = BucketProxy(b)]
  /\ UNCHANGED <<store, task>>

\* A fault: dropping the handle of a bucket empties the bucket.
DropEmpties(g) ==
  /\ task[g] = Idle
  /\ \E s \in Slots :
       /\ table[g][s].kind = "bucket"
       /\ table' = [table EXCEPT ![g][s] = Free]
       /\ store' = [store EXCEPT ![table[g][s].name] = [k \in Keys |-> Missing]]
  /\ UNCHANGED task

\* Dropping a handle forgets the entry, never the bucket.  A handle is only
\* lent for the length of a call, so it is not dropped under a running one.
Drop(g) ==
  /\ task[g] = Idle
  /\ \E s \in Slots :
       /\ table[g][s] # Free
       /\ table' = [table EXCEPT ![g][s] = Free]
  /\ UNCHANGED <<store, task>>

\* cas.current answers from the handle alone.
CasCurrent(g) ==
  /\ task[g] = Idle
  /\ \E s \in Slots :
       /\ table[g][s].kind = "cas"
       /\ task' = [task EXCEPT ![g] =
                     [st |-> "ok", op |-> "cas_current",
                      got |-> {[key |-> table[g][s].key, val |-> table[g][s].current]}]]
  /\ UNCHANGED <<store, table>>

\* The instance ends between two awaits: its request is over, or it trapped.
End(g) ==
  /\ task' = [task EXCEPT ![g] = Idle]
  /\ table' = [table EXCEPT ![g] = [s \in Slots |-> Free]]
  /\ UNCHANGED store

\* swap is not implemented: it consumes the cas handle and traps the instance.
Swap(g) ==
  /\ task[g] = Idle
  /\ \E s \in Slots : table[g][s].kind = "cas"
  /\ End(g)

-----------------------------------------------------------------------------
(* Calls.                                                                    *)

Ask(k) == [key |-> k, val |-> Missing]
Put(k, v) == [key |-> k, val |-> v]

\* The arguments op may come with.
Arguments(op) ==
  LET batch(S) == UNION {[1..n -> S] : n \in 0..MaxBatch} IN
  CASE op \in {"get", "exists", "cas_new", "delete"} -> {<<Ask(k)>> : k \in Keys}
    [] op \in {"get_many", "delete_many"} -> batch({Ask(k) : k \in Keys})
    [] op = "set" -> {<<Put(k, v)>> : k \in Keys, v \in Written}
    [] op = "set_many" -> batch({Put(k, v) : k \in Keys, v \in Written})
    [] op = "increment" -> {<<Put(k, Full(d))>> : k \in Keys, d \in Deltas}
    [] op = "list_keys" -> {<<>>}

\* A call starts by cloning the bucket out of the table; later steps use the
\* clone.  (cas.new also needs an entry to put its handle in.)
Call(g) ==
  /\ task[g] = Idle
  /\ \E op \in Ops, s \in Slots : \E args \in Arguments(op) :
       /\ table[g][s].kind = "bucket"
       /\ op = "cas_new" => \E f \in Slots : table[g][f] = Free
       /\ task' = [task EXCEPT ![g] = [st |-> "run", op |-> op, bucket |-> table[g][s].name,
                                       args |-> args, pos |-> 1, got |-> {}]]
  /\ UNCHANGED <<store, table>>

Running(g) == task[g].st = "run"
\* The next item of a call, and whether there is one.
More(g) == Running(g) /\ task[g].pos <= Len(task[g].args)
Next1(g) == task[g].args[task[g].pos]
At(g, k) == store[task[g].bucket][k]

\* get, exists, get_many and cas.new: one bucket.get; get_many leaves out the
\* keys it does not find.
GetStep(g) ==
  /\ More(g)
  /\ task[g].op \in {"get", "exists", "get_many", "cas_new"}
  /\ LET k == Next1(g).key
         found == IF task[g].op = "get_many" /\ At(g, k) = Missing
                  THEN {} ELSE {Put(k, At(g, k))} IN
     task' = [task EXCEPT ![g].pos = @ + 1, ![g].got = @ \cup found]
  /\ UNCHANGED <<store, table>>

\* set, delete and their batch forms: one bucket.set or bucket.delete.
SetStep(g) ==
  /\ More(g)
  /\ task[g].op \in {"set", "delete", "set_many", "delete_many"}
  /\ store' = [store EXCEPT ![task[g].bucket][Next1(g).key] = Next1(g).val]
  /\ task' = [task EXCEPT ![g].pos = @ + 1]
  /\ UNCHANGED table

\* list_keys: one bucket.keys, and the names it found.
ListStep(g) ==
  /\ Running(g)
  /\ task[g].op = "list_keys" /\ task[g].pos = 1
  /\ task' = [task EXCEPT ![g].pos = 2,
                          ![g].got = {Ask(k) : k \in {k \in Keys : At(g, k) # Missing}}]
  /\ UNCHANGED <<store, table>>

\* increment, up to its second await: the value as it is now.  On overflow a
\* release build wraps and a debug build panics, which takes the instance with it.
IncrementGet(g) ==
  /\ More(g)
  /\ task[g].op = "increment"
  /\ LET k == Next1(g).key
         v == At(g, k) IN
     \/ /\ v = Missing
        /\ task' = [task EXCEPT ![g].st = "err", ![g].got = {}]
        /\ UNCHANGED <<store, table>>
     \/ /\ v # Missing
        /\ task' = [task EXCEPT ![g].pos = 2, ![g].got = {Put(k, v)}]
        /\ UNCHANGED <<store, table>>
     \/ /\ v # Missing
        /\ Sum(v, Next1(g).val) \notin Words
        /\ End(g)

\* increment, after its second await began: the sum made from the value read
\* before replaces whatever the key holds now.
IncrementSet(g) ==
  /\ Running(g)
  /\ task[g].op = "increment" /\ task[g].pos = 2
  /\ \E seen \in task[g].got :
       LET new == Incremented(seen.val, task[g].args[1].val) IN
       /\ store' = [store EXCEPT ![task[g].bucket][seen.key] = new]
       /\ task' = [task EXCEPT ![g].pos = 3, ![g].got = {Put(seen.key, new)}]
  /\ UNCHANGED table

\* A fault: a batch ends before its last key.
AccessesShort(c) == CASE c.op = "increment" -> 2
                      [] c.op = "list_keys" -> 1
                      [] OTHER -> Len(c.args) - 1
\* The backend calls op makes: the loop has ended once all are behind it.
Accesses(c) == CASE c.op = "increment" -> 2
                 [] c.op = "list_keys" -> 1
                 [] OTHER -> Len(c.args)

\* The call returns Ok; cas.new pushes its handle first.
Finish(g) ==
  /\ Running(g)
  /\ task[g].pos = Accesses(task[g]) + 1
  /\ IF task[g].op = "cas_new"
       THEN \E s \in Slots, seen \in task[g].got :
              /\ table[g][s] = Free
              /\ table' = [table EXCEPT ![g][s] = Cas(seen.key, seen.val)]
       ELSE UNCHANGED table
  /\ task' = [task EXCEPT ![g].st = "ok"]
  /\ UNCHANGED store

\* A backend call fails, with or without having had its effect: the first
\* failure ends the call, and what earlier calls did stays.
Fail(g) ==
  /\ Faulty
  /\ Running(g)
  /\ task' = [task EXCEPT ![g].st = "err", ![g].got = {}]
  /\ UNCHANGED <<store, table>>

\* The guest takes the answer.
Receive(g) ==
  /\ task[g].st \in {"ok", "err"}
  /\ task' = [task EXCEPT ![g] = Idle]
  /\ UNCHANGED <<store, table>>

Step(g) == GetStep(g) \/ SetStep(g) \/ ListStep(g) \/ IncrementGet(g) \/ IncrementSet(g) \/ Finish(g)

Next == \E g \in Guests :
  \/ Open(g) \/ Drop(g) \/ CasCurrent(g) \/ Swap(g) \/ End(g)
  \/ Call(g) \/ Step(g) \/ Fail(g) \/ Receive(g)

Spec == Init /\ [][Next]_vars

-----------------------------------------------------------------------------
(* Properties.                                                               *)

\* The variables keep their types: a slot holds at most one kind of resource, a
\* call's position stays inside its arguments, and a stored number is an i64.
TypeOK ==
  /\ store \in [Buckets -> [Keys -> Values \cup {Missing}]]
  /\ table \in [Guests -> [Slots -> Entry]]
  /\ task \in [Guests -> {Idle} \cup Task \cup Snapshot]

\* What the contract sees of a call: which items are behind it, not the order.
\* The one access of an increment is its write.
DoneOf(t) == IF t.op # "increment" THEN 1..(t.pos - 1) ELSE IF t.pos = 3 THEN {1} ELSE {}
GotOf(t) == IF t.op = "increment" /\ t.pos = 2 THEN {} ELSE t.got
CallOf(t) ==
  IF "pos" \in DOMAIN t
    THEN [st |-> t.st, op |-> t.op, bucket |-> t.bucket, args |-> t.args,
          done |-> DoneOf(t), got |-> GotOf(t)]
    ELSE t
SnapshotsOf(tbl) ==
  {[key |-> tbl[s].key, val |-> tbl[s].current] : s \in {s \in Slots : tbl[s].kind = "cas"}}

\* What adding means, for two numbers of eight bytes: an i64 in two's complement,
\* one turn further at most.  No document says what number a shorter value is.
Added(v, d) ==
  IF ~v.full THEN Incremented(v, d)
  ELSE LET n == v.n + d.n IN
       Full(IF n >= Half THEN n - 2 * Half ELSE IF n < -Half THEN n + 2 * Half ELSE n)

Contract == INSTANCE KeyValueContract WITH
  Values <- Values, Incremented <- Added,
  db <- store,
  call <- [g \in Guests |-> CallOf(task[g])],
  snap <- [g \in Guests |-> SnapshotsOf(table[g])]

\* Where the host does not do what the interface says: an increment that writes over
\* a value it has not seen (atomic.wit: "single, indivisible"), one that finds no value
\* and gives up (it "creates a new key-value pair"), a get_many that passes over an
\* absent key (batch.wit: "a `none` value for that pair in the list").
OverwritesUnseen(g) ==
  /\ IncrementSet(g)
  /\ \E seen \in task[g].got : At(g, seen.key) # seen.val
RefusesAbsent(g) == IncrementGet(g) /\ At(g, Next1(g).key) = Missing
LeavesOut(g) == GetStep(g) /\ task[g].op = "get_many" /\ At(g, Next1(g).key) = Missing
Departs(g) == OverwritesUnseen(g) \/ RefusesAbsent(g) \/ LeavesOut(g)

\* The host functions of store_impl.rs, batch_impl.rs and atomics_impl.rs do what
\* the wasi:keyvalue interface says in every step but those three: every access hits
\* the bucket the handle named when the call began, an ok answer means all of them
\* were made, a failed batch undoes nothing, a cas handle keeps answering with its
\* own snapshot, and an increment that nobody gets into adds its delta at once.
KeepsContractElsewhere ==
  /\ Contract!Init
  /\ [][(\E g \in Guests : Departs(g)) \/ [Contract!Next]_(Contract!vars)]_vars

\* Guests that call neither increment nor get_many have the whole contract.
ImplementsContract == Contract!Spec

\* The step in which an increment of g stores its sum.
Increments(g) ==
  /\ task[g].st = "run" /\ task'[g].st = "run"
  /\ task[g].op = "increment" /\ task[g].pos = 2 /\ task'[g].pos = 3
Adds(g) ==
  LET b == task[g].bucket
      k == task[g].args[1].key IN
  /\ store[b][k] # Missing
  /\ Decode(store'[b][k]) = Wrap(Decode(store[b][k]) + Decode(task[g].args[1].val))

\* "Atomically increment the value associated with the key in the store by the
\* given delta" (atomics_impl.rs:14): the store moves by the delta, always.
AtomicIncrement == [][\A g \in Guests : Increments(g) => Adds(g)]_vars
=============================================================================
