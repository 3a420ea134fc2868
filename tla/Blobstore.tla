------------------------------ MODULE Blobstore ------------------------------
(***************************************************************************)
(* The wasi-blobstore host: containers, objects and the values that carry  *)
(* their bytes (host/blobstore_impl.rs, container_impl.rs, types_impl.rs)  *)
(* over the in-memory backend (host/default_impl.rs).                      *)
(*                                                                         *)
(* A container is a body of objects behind a lock of its own; the store    *)
(* maps names to bodies, and a handle holds a body, not a name.  A body    *)
(* that was deleted or replaced therefore lives on behind its handles.     *)
(*                                                                         *)
(* A function that makes one backend call is one action: its lock is the   *)
(* only point where it meets others.  delete_objects and clear make one    *)
(* call per object, and other instances run between them.                  *)
(***************************************************************************)
EXTENDS Integers, Sequences, FiniteSets

CONSTANTS
  Guests,     \* instances alive at one time
  Names,      \* container names
  Objects,    \* object names
  Chunks,     \* what a guest writes to an outgoing value at once
  Limit,      \* the chunks an outgoing value has room for (1024 bytes)
  Missing,    \* no such object
  MaxSlots,   \* bound on the entries of a resource table
  MaxBodies,  \* bound on the containers created
  MaxBatch    \* bound on the names delete_objects is given

Data == UNION {[1..n -> Chunks] : n \in 0..Limit}

ASSUME BlobstoreAssumption ==
  /\ Limit \in Nat /\ MaxSlots \in Nat /\ MaxBodies \in Nat /\ MaxBatch \in Nat
  /\ Missing \notin Data

VARIABLES
  bodies,  \* bodies[b]: the objects of the b-th container created
  store,   \* store[n]: the container listed under n, 0 for none
  table,   \* table[g][s]: the resource table of instance g
  task     \* task[g]: the deletion g has under way

vars == <<bodies, store, table, task>>

Slots == 1..MaxSlots
Bodies == DOMAIN bodies
Empty == [o \in Objects |-> Missing]

Free == [kind |-> "free"]
Container(b, n) == [kind |-> "container", body |-> b, name |-> n]
Outgoing(d) == [kind |-> "outgoing", data |-> d]
\* An incoming value or a list of names: a copy of what was read, which only its
\* instance sees (a list not even that: reading it is not implemented).
Copy == [kind |-> "copy"]
Entry == {Free, Copy} \cup [kind: {"container"}, body: 1..MaxBodies, name: Names]
                \cup [kind: {"outgoing"}, data: Data]

Idle == [busy |-> FALSE]
\* body, name: of the container the handle stood for.  todo: the names still to
\* be deleted.  History: due, those it began with and nobody wrote since.
Task == [busy: {TRUE}, body: 1..MaxBodies, name: Names, todo: Seq(Objects),
         due: SUBSET Objects]

Init ==
  /\ bodies = <<>>
  /\ store = [n \in Names |-> 0]
  /\ table = [g \in Guests |-> [s \in Slots |-> Free]]
  /\ task = [g \in Guests |-> Idle]

\* The table hands out its first free entry.
FreeSlots(g) == {s \in Slots : table[g][s] = Free}
Push(g, e) ==
  \E s \in FreeSlots(g) : /\ \A t \in FreeSlots(g) : s <= t
                          /\ table' = [table EXCEPT ![g][s] = e]
\* The instance is over, and its handles with it.
Release(g) == table' = [table EXCEPT ![g] = [s \in Slots |-> Free]]
Held(g, kind) == {table[g][s] : s \in {s \in Slots : table[g][s].kind = kind}}

-----------------------------------------------------------------------------
(* Containers.                                                               *)

\* create_container: a fresh body under its name, whatever was listed there.  In a full
\* table there is no place for its handle: the call traps, and the container is listed.
Create(g) ==
  /\ task[g] = Idle /\ Len(bodies) < MaxBodies
  /\ \E n \in Names :
       /\ bodies' = Append(bodies, Empty)
       /\ store' = [store EXCEPT ![n] = Len(bodies) + 1]
       /\ \/ Push(g, Container(Len(bodies) + 1, n))
          \/ FreeSlots(g) = {} /\ Release(g)
  /\ UNCHANGED task

\* get_container: a handle of the body listed now.
Get(g) ==
  /\ task[g] = Idle
  /\ \E n \in Names : store[n] # 0 /\ Push(g, Container(store[n], n))
  /\ UNCHANGED <<bodies, store, task>>

\* delete_container: the name is unlisted; the objects stay with the handles.
Delete(g) ==
  /\ task[g] = Idle
  /\ \E n \in Names : store' = [store EXCEPT ![n] = 0]
  /\ UNCHANGED <<bodies, table, task>>

-----------------------------------------------------------------------------
(* Values.                                                                   *)

\* new_outgoing_value.
NewValue(g) ==
  /\ task[g] = Idle
  /\ Push(g, Outgoing(<<>>))
  /\ UNCHANGED <<bodies, store, task>>

\* A fault: the room left in the value is not looked at.
WriteBodyOverrun(g) ==
  /\ task[g] = Idle
  /\ \E s \in Slots, c \in Chunks :
       /\ table[g][s].kind = "outgoing"
       /\ table' = [table EXCEPT ![g][s].data = Append(@, c)]
  /\ UNCHANGED <<bodies, store, task>>

\* The stream of outgoing_value_write_body takes a chunk, while there is room.
WriteBody(g) ==
  /\ task[g] = Idle
  /\ \E s \in Slots, c \in Chunks :
       /\ table[g][s].kind = "outgoing" /\ Len(table[g][s].data) < Limit
       /\ table' = [table EXCEPT ![g][s].data = Append(@, c)]
  /\ UNCHANGED <<bodies, store, task>>

\* get_data: a copy of the object's bytes, all of them whatever the range.
GetData(g) ==
  /\ task[g] = Idle
  /\ \E h \in Held(g, "container"), o \in Objects :
       bodies[h.body][o] # Missing /\ Push(g, Copy)
  /\ UNCHANGED <<bodies, store, task>>

\* write_data: the object is what the value holds now; the value stays as it is.
WriteData(g) ==
  /\ task[g] = Idle
  /\ \E h \in Held(g, "container"), v \in Held(g, "outgoing"), o \in Objects :
       /\ bodies' = [bodies EXCEPT ![h.body][o] = v.data]
       /\ task' = [x \in Guests |->
            IF task[x].busy /\ task[x].body = h.body
              THEN [task[x] EXCEPT !.due = @ \ {o}] ELSE task[x]]
  /\ UNCHANGED <<store, table>>

-----------------------------------------------------------------------------
(* Objects.                                                                  *)

Present(b) == {o \in Objects : bodies[b][o] # Missing}

\* list_objects: the names as they are now.
List(g) ==
  /\ task[g] = Idle
  /\ Held(g, "container") # {} /\ Push(g, Copy)
  /\ UNCHANGED <<bodies, store, task>>

Forget(b, o) == bodies' = [bodies EXCEPT ![b][o] = Missing]

\* delete_object.
DeleteObject(g) ==
  /\ task[g] = Idle
  /\ \E h \in Held(g, "container"), o \in Objects :
       Forget(h.body, o)
  /\ UNCHANGED <<store, table, task>>

Begin(g, h, names) ==
  task' = [task EXCEPT ![g] =
    IF names = <<>> THEN Idle
    ELSE [busy |-> TRUE, body |-> h.body, name |-> h.name, todo |-> names,
          due |-> {names[i] : i \in DOMAIN names}]]

\* delete_objects: the body is fixed by the handle, the names by the caller.
DeleteObjects(g) ==
  /\ task[g] = Idle
  /\ \E h \in Held(g, "container"), n \in 0..MaxBatch :
       \E names \in [1..n -> Objects] : Begin(g, h, names)
  /\ UNCHANGED <<bodies, store, table>>

\* The orders a hash map may list S in.
Orders(S) == {f \in [1..Cardinality(S) -> S] : \A i, j \in DOMAIN f : f[i] = f[j] => i = j}

\* clear, up to its first deletion: the names are those listed now.
Clear(g) ==
  /\ task[g] = Idle
  /\ \E h \in Held(g, "container") : \E names \in Orders(Present(h.body)) : Begin(g, h, names)
  /\ UNCHANGED <<bodies, store, table>>

AfterOne(t) == IF Len(t.todo) = 1 THEN Idle ELSE [t EXCEPT !.todo = Tail(@)]

\* Faults: the container is looked up by its name again; the loop stops one
\* short; the last call empties the container.
DeleteNextByName(g) ==
  /\ task[g].busy
  /\ IF store[task[g].name] = 0 THEN UNCHANGED bodies
     ELSE Forget(store[task[g].name], Head(task[g].todo))
  /\ task' = [task EXCEPT ![g] = AfterOne(@)]
  /\ UNCHANGED <<store, table>>
DeleteNextButLast(g) ==
  /\ task[g].busy
  /\ IF Len(task[g].todo) = 1 THEN UNCHANGED bodies
     ELSE Forget(task[g].body, Head(task[g].todo))
  /\ task' = [task EXCEPT ![g] = AfterOne(@)]
  /\ UNCHANGED <<store, table>>

DeleteNextWipes(g) ==
  /\ task[g].busy
  /\ IF Len(task[g].todo) = 1 THEN bodies' = [bodies EXCEPT ![task[g].body] = Empty]
     ELSE Forget(task[g].body, Head(task[g].todo))
  /\ task' = [task EXCEPT ![g] = AfterOne(@)]
  /\ UNCHANGED <<store, table>>

\* The next deletion of delete_objects or clear; after the last one it returns.
DeleteNext(g) ==
  /\ task[g].busy
  /\ Forget(task[g].body, Head(task[g].todo))
  /\ task' = [task EXCEPT ![g] = AfterOne(@)]
  /\ UNCHANGED <<store, table>>

-----------------------------------------------------------------------------
(* Handles and instances.                                                    *)

\* Dropping a handle of any kind forgets the entry.
Drop(g) ==
  /\ task[g] = Idle
  /\ \E s \in Slots : table[g][s] # Free /\ table' = [table EXCEPT ![g][s] = Free]
  /\ UNCHANGED <<bodies, store, task>>

\* The instance ends between two calls: it is over, or it trapped in a function
\* that is not implemented (copy_object, move_object, reading a list of names).
End(g) ==
  /\ task' = [task EXCEPT ![g] = Idle]
  /\ Release(g)
  /\ UNCHANGED <<bodies, store>>

Next == \E g \in Guests :
  \/ Create(g) \/ Get(g) \/ Delete(g)
  \/ NewValue(g) \/ WriteBody(g) \/ GetData(g) \/ WriteData(g)
  \/ List(g) \/ DeleteObject(g) \/ DeleteObjects(g) \/ Clear(g) \/ DeleteNext(g)
  \/ Drop(g) \/ End(g)

Spec == Init /\ [][Next]_vars

-----------------------------------------------------------------------------
(* Properties.                                                               *)

\* The variables keep their types; names and handles stand for containers made,
\* and a value never holds more than the pipe behind it takes (types_impl.rs:48).
TypeOK ==
  /\ bodies \in Seq([Objects -> Data \cup {Missing}]) /\ Len(bodies) <= MaxBodies
  /\ store \in [Names -> {0} \cup Bodies]
  /\ table \in [Guests -> [Slots -> Entry]]
  /\ task \in [Guests -> {Idle} \cup Task]
  /\ \A g \in Guests : /\ \A h \in Held(g, "container") : h.body \in Bodies
                       /\ task[g].busy => task[g].body \in Bodies /\ task[g].todo # <<>>

\* Once clear or delete_objects has returned, an object it set out to delete is
\* there only if somebody wrote it in the meantime, whatever became of the name
\* and of the container's other handles.  (That clear leaves "the container empty",
\* container.wit:50, holds only if nobody writes to it.)
DeletedUnlessRewritten ==
  [][\A g \in Guests :
       /\ task[g].busy /\ ~task'[g].busy
       /\ table' = table      \* it returned: the instance did not end
       => \A o \in task[g].due : bodies'[task[g].body][o] = Missing]_vars

\* A container that replaced another under its name is out of reach of the handles
\* of the old one: a call changes the container its handle was made for, or none.
OldHandlesMissTheNew ==
  [][\A b \in Bodies : bodies'[b] # bodies[b] =>
       \E g \in Guests : \/ \E h \in Held(g, "container") : h.body = b
                         \/ task[g].busy /\ task[g].body = b]_vars

\* Objects change one at a time, and not because a value is written on, a name or a
\* handle goes, or another object is deleted.  An object gets the bytes of a value from
\* an instance with a handle of its container; it is gone only if such an instance
\* deletes it, or a clear or delete_objects of its container has come to its name.
BytesAreAsWritten ==
  [][\A b \in Bodies, o \in Objects : bodies'[b][o] # bodies[b][o] =>
       /\ UNCHANGED <<store, table>>
       /\ \A c \in Bodies, p \in Objects : <<c, p>> # <<b, o>> => bodies'[c][p] = bodies[c][p]
       /\ \E g \in Guests :
            \/ /\ \E h \in Held(g, "container") : h.body = b
               /\ \/ \E v \in Held(g, "outgoing") : v.data = bodies'[b][o]
                  \/ bodies'[b][o] = Missing /\ UNCHANGED task
            \/ /\ bodies'[b][o] = Missing /\ task'[g] # task[g]
               /\ task[g].busy /\ task[g].body = b /\ Head(task[g].todo) = o]_vars
=============================================================================
