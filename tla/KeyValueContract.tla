-------------------------- MODULE KeyValueContract --------------------------
(***************************************************************************)
(* What wasi:keyvalue promises a guest (wit/deps/keyvalue/*.wit), with no  *)
(* resource table, no handle and no host function in sight.                *)
(*                                                                         *)
(* A call names a bucket and a list of items.  While the call runs, every  *)
(* item is accessed once, atomically, in an order the contract leaves      *)
(* open ("not guaranteed to be set in the order they are provided").  An   *)
(* ok answer means that every access was made; an error leaves whatever    *)
(* was done in place ("does not rollback").  A guest may end between any   *)
(* two accesses.                                                           *)
(*                                                                         *)
(* It is written from the interface alone: increment is one access that    *)
(* also creates its key, get-many answers for every key, and no call       *)
(* fails unless the store does.  One thing is stricter than the text: a    *)
(* read finds what is there, where a replicated store "MAY show an         *)
(* out-of-date value".                                                     *)
(***************************************************************************)
EXTENDS Integers, Sequences

CONSTANTS
  Guests,     \* guest instances
  Buckets,    \* bucket identifiers
  Keys,       \* keys of a bucket
  Values,     \* the byte strings a key may hold
  Missing,    \* what a read of an absent key finds
  Incremented(_, _),  \* the value that adding the second value to the first gives
  Faulty      \* whether the store itself may fail a call ("any other error")

VARIABLES
  db,     \* db[b][k]: the value of key k of bucket b, or Missing
  call,   \* call[g]: what guest g is waiting for
  snap    \* snap[g]: the key and value each of g's cas handles stands for

vars == <<db, call, snap>>

Item == [key: Keys, val: Values \cup {Missing}]

\* The calls that store each item's value; deleting stores Missing.
Writers == {"set", "delete", "set_many", "delete_many"}
\* The calls that report what they find at each item's key.
Readers == {"get", "exists", "get_many", "cas_new"}

Idle == [st |-> "idle"]

\* The accesses a call has to make: one per item; a listing looks at the whole
\* bucket once.
Accesses(c) == IF c.op = "list_keys" THEN {1} ELSE DOMAIN c.args

Running(g) == call[g].st = "run"

Init ==
  /\ db = [b \in Buckets |-> [k \in Keys |-> Missing]]
  /\ call = [g \in Guests |-> Idle]
  /\ snap = [g \in Guests |-> {}]

Invoke(g) ==
  /\ call[g] = Idle
  /\ call' = [call EXCEPT ![g] = call'[g]]
  /\ call'[g] \in [st: {"run"}, op: Writers \cup Readers \cup {"list_keys", "increment"},
                   bucket: Buckets, args: Seq(Item), done: {{}}, got: {{}}]
  /\ UNCHANGED <<db, snap>>

\* One item of a set, set_many, delete or delete_many takes effect.
Write(g) ==
  /\ Running(g)
  /\ call[g].op \in Writers
  /\ \E i \in DOMAIN call[g].args \ call[g].done :
       /\ db' = [db EXCEPT ![call[g].bucket][call[g].args[i].key] = call[g].args[i].val]
       /\ call' = [call EXCEPT ![g].done = @ \cup {i}]
  /\ UNCHANGED snap

\* One item of a get, exists, get_many or cas.new is read: the answer has a
\* value for its key, or "a `none` value for that pair in the list".
Read(g) ==
  /\ Running(g)
  /\ call[g].op \in Readers
  /\ \E i \in DOMAIN call[g].args \ call[g].done :
       LET k == call[g].args[i].key IN
       call' = [call EXCEPT ![g].done = @ \cup {i},
                            ![g].got = @ \cup {[key |-> k, val |-> db[call[g].bucket][k]]}]
  /\ UNCHANGED <<db, snap>>

\* The keys of a bucket, all at one moment; a listed key comes without a value.
List(g) ==
  /\ Running(g)
  /\ call[g].op = "list_keys"
  /\ LET present == {k \in Keys : db[call[g].bucket][k] # Missing} IN
     call' = [call EXCEPT ![g].done = {1},
                          ![g].got = {[key |-> k, val |-> Missing] : k \in present}]
  /\ UNCHANGED <<db, snap>>

\* increment: "single, indivisible".  An absent key is created "with the value
\* set to the given delta".
Increment(g) ==
  /\ Running(g)
  /\ call[g].op = "increment" /\ call[g].done = {}
  /\ LET item == call[g].args[1]
         v == db[call[g].bucket][item.key]
         new == IF v = Missing THEN item.val ELSE Incremented(v, item.val) IN
     /\ db' = [db EXCEPT ![call[g].bucket][item.key] = new]
     /\ call' = [call EXCEPT ![g].done = {1}, ![g].got = {[key |-> item.key, val |-> new]}]
  /\ UNCHANGED snap

\* An ok answer: every access has been made.  cas.new hands out a snapshot.
Succeed(g) ==
  /\ Running(g)
  /\ call[g].done = Accesses(call[g])
  /\ call' = [call EXCEPT ![g].st = "ok"]
  /\ snap' = IF call[g].op = "cas_new" THEN [snap EXCEPT ![g] = @ \cup call[g].got] ELSE snap
  /\ UNCHANGED db

\* An error answer carries no data and undoes nothing.
Fail(g) ==
  /\ Faulty
  /\ Running(g)
  /\ call' = [call EXCEPT ![g].st = "err", ![g].got = {}]
  /\ UNCHANGED <<db, snap>>

\* A cas handle answers with its own snapshot, whatever the key holds by now.
Current(g) ==
  /\ call[g] = Idle
  /\ \E s \in snap[g] :
       call' = [call EXCEPT ![g] = [st |-> "ok", op |-> "cas_current", got |-> {s}]]
  /\ UNCHANGED <<db, snap>>

Receive(g) ==
  /\ call[g].st \in {"ok", "err"}
  /\ call' = [call EXCEPT ![g] = Idle]
  /\ UNCHANGED <<db, snap>>

\* cas handles are dropped.
Forget(g) ==
  /\ snap' = [snap EXCEPT ![g] = snap'[g]]
  /\ snap'[g] \subseteq snap[g]
  /\ UNCHANGED <<db, call>>

\* The instance ends: it forgets everything, and the store keeps everything.
End(g) ==
  /\ call' = [call EXCEPT ![g] = Idle]
  /\ snap' = [snap EXCEPT ![g] = {}]
  /\ UNCHANGED db

Next == \E g \in Guests :
  \/ Invoke(g) \/ Write(g) \/ Read(g) \/ List(g) \/ Increment(g)
  \/ Succeed(g) \/ Fail(g) \/ Current(g) \/ Receive(g) \/ Forget(g) \/ End(g)

Spec == Init /\ [][Next]_vars
=============================================================================
