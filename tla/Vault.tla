-------------------------------- MODULE Vault --------------------------------
(***************************************************************************)
(* The wasi-vault host: lockers of secrets (host/vault_impl.rs) over the   *)
(* in-memory backend (host/default_impl.rs).                               *)
(*                                                                         *)
(* As in the key-value host, every instance has a resource table of its    *)
(* own and the store behind the lock belongs to all of them.  A function   *)
(* clones the locker out of the table, awaits one backend call, and        *)
(* returns.  open itself awaits: the locker is made sure of in the store   *)
(* before its handle is pushed.                                            *)
(***************************************************************************)
EXTENDS Integers, Sequences, FiniteSets

CONSTANTS
  Guests,   \* instances alive at one time; an ended one is replaced
  Lockers,  \* locker identifiers
  Secrets,  \* identifiers of secrets
  Values,   \* what a secret may hold
  Slots,    \* entries of a resource table (bound; u32 in wasmtime)
  Missing,  \* what get returns for an absent secret: None
  Faulty    \* whether the backend may fail a call (the in-memory one never does)

VARIABLES
  store,    \* store[l][k]: the HashMap of HashMaps behind the RwLock
  lockers,  \* lockers[g][s]: the LockerProxy in slot s of g's table, or Free
  task      \* task[g]: the host function instance g is in

vars == <<store, lockers, task>>

Free == "free"
Idle == [st |-> "idle"]
Readers == {"get", "exists"}
Writers == {"set", "delete"}

Init ==
  /\ store = [l \in Lockers |-> [k \in Secrets |-> Missing]]
  /\ lockers = [g \in Guests |-> [s \in Slots |-> Free]]
  /\ task = [g \in Guests |-> Idle]

\* A fault: opening a locker inserts an empty one.
EnsureLockerAnew(l) == store' = [store EXCEPT ![l] = [k \in Secrets |-> Missing]]
\* store.entry(identifier).or_default(): an empty locker and none read alike.
EnsureLocker(l) == UNCHANGED store

\* open: the backend's part, then the push of the handle.
Open(g) ==
  /\ task[g] = Idle
  /\ \E s \in Slots, l \in Lockers :
       /\ lockers[g][s] = Free
       /\ \A x \in Slots : lockers[g][x] = Free => s <= x   \* the first free slot
       /\ EnsureLocker(l)
       /\ lockers' = [lockers EXCEPT ![g][s] = l]
  /\ UNCHANGED task

Drop(g) ==
  /\ task[g] = Idle
  /\ \E s \in Slots :
       /\ lockers[g][s] # Free
       /\ lockers' = [lockers EXCEPT ![g][s] = Free]
  /\ UNCHANGED <<store, task>>

\* The items a function may be called with: set brings a value, delete stores
\* what an absent secret reads as.
Items(op) == CASE op = "set" -> [key: Secrets, val: Values]
               [] op = "list_keys" -> {}
               [] OTHER -> [key: Secrets, val: {Missing}]
Arguments(op) == IF op = "list_keys" THEN {<<>>} ELSE {<<i>> : i \in Items(op)}

\* get_locker: later steps use the clone of the locker, not the handle.
Call(g) ==
  /\ task[g] = Idle
  /\ \E op \in Readers \cup Writers \cup {"list_keys"}, s \in Slots : \E args \in Arguments(op) :
       /\ lockers[g][s] # Free
       /\ task' = [task EXCEPT ![g] = [st |-> "run", op |-> op, bucket |-> lockers[g][s],
                                       args |-> args, done |-> {}, got |-> {}]]
  /\ UNCHANGED <<store, lockers>>

Awaiting(g, ops) == task[g].st = "run" /\ task[g].op \in ops /\ task[g].done = {}
Secret(g) == task[g].args[1].key
Answered(g, found) == task' = [task EXCEPT ![g].done = {1}, ![g].got = found]

\* get, and exists by way of get.
Get(g) ==
  /\ Awaiting(g, Readers)
  /\ Answered(g, {[key |-> Secret(g), val |-> store[task[g].bucket][Secret(g)]]})
  /\ UNCHANGED <<store, lockers>>

\* set inserts, delete removes.
Set(g) ==
  /\ Awaiting(g, Writers)
  /\ store' = [store EXCEPT ![task[g].bucket][Secret(g)] = task[g].args[1].val]
  /\ Answered(g, {})
  /\ UNCHANGED lockers

ListIds(g) ==
  /\ Awaiting(g, {"list_keys"})
  /\ Answered(g, {[key |-> k, val |-> Missing] :
                    k \in {k \in Secrets : store[task[g].bucket][k] # Missing}})
  /\ UNCHANGED <<store, lockers>>

\* The await is over: Ok, or the error of the backend in an Error::Other.
Return(g) ==
  /\ task[g].st = "run" /\ task[g].done = {1}
  /\ task' = [task EXCEPT ![g].st = "ok"]
  /\ UNCHANGED <<store, lockers>>

Fail(g) ==
  /\ Faulty
  /\ task[g].st = "run"
  /\ task' = [task EXCEPT ![g].st = "err", ![g].got = {}]
  /\ UNCHANGED <<store, lockers>>

\* The guest takes the answer.
Receive(g) ==
  /\ task[g].st \in {"ok", "err"}
  /\ task' = [task EXCEPT ![g] = Idle]
  /\ UNCHANGED <<store, lockers>>

End(g) ==
  /\ lockers' = [lockers EXCEPT ![g] = [s \in Slots |-> Free]]
  /\ task' = [task EXCEPT ![g] = Idle]
  /\ UNCHANGED store

Next == \E g \in Guests :
  \/ Open(g) \/ Drop(g) \/ Call(g) \/ Get(g) \/ Set(g) \/ ListIds(g)
  \/ Return(g) \/ Fail(g) \/ Receive(g) \/ End(g)

Spec == Init /\ [][Next]_vars

-----------------------------------------------------------------------------
\* The variables keep their types.
TypeOK ==
  /\ store \in [Lockers -> [Secrets -> Values \cup {Missing}]]
  /\ lockers \in [Guests -> [Slots -> Lockers \cup {Free}]]
  /\ task \in [Guests -> {Idle} \cup
       [st: {"run", "ok", "err"}, op: Readers \cup Writers \cup {"list_keys"}, bucket: Lockers,
        args: Seq([key: Secrets, val: Values \cup {Missing}]), done: SUBSET {1},
        got: SUBSET [key: Secrets, val: Values \cup {Missing}]]]

NoSum(v, d) == v   \* a vault has no increment
Contract == INSTANCE KeyValueContract WITH
  Buckets <- Lockers, Keys <- Secrets, Incremented <- NoSum,
  db <- store, call <- task, snap <- [g \in Guests |-> {}]

\* The vault keeps the promises of a key-value store: each function makes one
\* access to the locker its handle named when it began, opening and dropping
\* handles never touches a secret, and secrets outlive every instance.
ImplementsContract == Contract!Spec
=============================================================================
