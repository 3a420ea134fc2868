--------------------------- MODULE Blobstore_proofs ---------------------------
(***************************************************************************)
(* Theorems about Blobstore for any instances, names, objects and bounds:  *)
(* what a deletion promises, whom a handle can touch, and what bytes an    *)
(* object holds.                                                           *)
(***************************************************************************)
EXTENDS Blobstore, FiniteSetTheorems, SequenceTheorems, TLAPS

Content == Data \cup {Missing}
Body == [Objects -> Content]

\* The names a deletion still has before it.
Ahead(t) == {t.todo[i] : i \in DOMAIN t.todo}

\* What a deletion set out to delete and nobody wrote since is gone or still
\* before it; and its instance holds a handle, so that its end is seen in its table.
DueLeft(g) ==
  task[g].busy =>
    /\ \A o \in task[g].due : bodies[task[g].body][o] = Missing \/ o \in Ahead(task[g])
    /\ \E s \in Slots : table[g][s] # Free

\* However many object names there are, a container has finitely many objects, so
\* that clear has a list of names to begin with.
FinitelyMany == \A b \in Bodies : IsFiniteSet(Present(b))

\* The inductive invariant.
IInv == TypeOK /\ FinitelyMany /\ \A g \in Guests : DueLeft(g)

-----------------------------------------------------------------------------
(* What the types say of one task, one handle, one container.                *)

\* An instance is idle, or busy with a call on a container that is there.
LEMMA TaskKinds ==
  ASSUME TypeOK, NEW g \in Guests
  PROVE  \/ task[g] = Idle /\ ~task[g].busy
         \/ task[g] \in Task /\ task[g].busy /\ task[g].body \in Bodies /\ task[g].todo # <<>>
<1>1. task[g] \in {Idle} \cup Task /\ (task[g].busy => task[g].body \in Bodies /\ task[g].todo # <<>>)
  BY DEF TypeOK
<1>2. ~Idle.busy
  BY DEF Idle
<1>3. ASSUME NEW t \in Task PROVE t.busy
  <2>1. t.busy \in {TRUE}
    BY DEF Task
  <2> QED
    BY <2>1
<1> QED
  BY <1>1, <1>2, <1>3

\* An entry's kind tells what else it has.
LEMMA EntryKinds ==
  ASSUME NEW e \in Entry
  PROVE  /\ e.kind = "container" => e.body \in 1..MaxBodies /\ e.name \in Names
         /\ e.kind = "outgoing" => e.data \in Data
  BY DEF Entry, Free, Copy

\* A container handle names a container that was made; a value's data is within its limit.
LEMMA HandleKinds ==
  ASSUME TypeOK, NEW g \in Guests
  PROVE  /\ \A h \in Held(g, "container") :
              h \in Entry /\ h.body \in Bodies /\ h.body \in 1..MaxBodies /\ h.name \in Names
         /\ \A v \in Held(g, "outgoing") : v \in Entry /\ v.data \in Data
<1>1. \A s \in Slots : table[g][s] \in Entry
  BY DEF TypeOK
<1>2. \A h \in Held(g, "container") : h.body \in Bodies
  BY DEF TypeOK
<1> QED
  BY <1>1, <1>2, EntryKinds DEF Held

\* A handle held is an entry of the table that is not free.
LEMMA HolderHolds ==
  ASSUME NEW g \in Guests, NEW h \in Held(g, "container")
  PROVE  \E s \in Slots : table[g][s] # Free
<1>1. PICK s \in Slots : table[g][s].kind = "container"
  BY DEF Held
<1> QED
  BY <1>1 DEF Free

\* Containers are numbered in the order they were made.
LEMMA BodyTypes ==
  ASSUME TypeOK
  PROVE  /\ Len(bodies) \in Nat /\ Len(bodies) <= MaxBodies /\ Bodies = 1..Len(bodies)
         /\ \A b \in Bodies : bodies[b] \in Body
  BY BlobstoreAssumption DEF TypeOK, Bodies, Body, Content

\* One object of one container changes, and nothing else.
Touched(b, o, d) ==
  /\ bodies' \in Seq(Body) /\ Len(bodies') = Len(bodies) /\ Bodies' = Bodies
  /\ bodies'[b][o] = d
  /\ \A c \in Bodies : c # b => bodies'[c] = bodies[c]
  /\ \A p \in Objects : p # o => bodies'[b][p] = bodies[b][p]

\* An assignment to one object changes that object of that container and nothing else.
LEMMA OneObject ==
  ASSUME TypeOK, NEW b \in Bodies, NEW o \in Objects, NEW d \in Content,
         bodies' = [bodies EXCEPT ![b][o] = d]
  PROVE  Touched(b, o, d)
<1>1. bodies \in Seq(Body) /\ Bodies = 1..Len(bodies) /\ bodies[b] \in Body
  BY BodyTypes DEF TypeOK, Body, Content
<1> DEFINE x == [bodies[b] EXCEPT ![o] = d]
<1>2. x \in Body /\ x[o] = d /\ \A p \in Objects : p # o => x[p] = bodies[b][p]
  BY <1>1 DEF Body
<1>3. bodies' = [bodies EXCEPT ![b] = x]
  OBVIOUS
<1> HIDE DEF x
<1>4. /\ bodies' \in Seq(Body) /\ Len(bodies') = Len(bodies)
      /\ bodies'[b] = x /\ \A c \in Bodies : c # b => bodies'[c] = bodies[c]
  BY <1>1, <1>2, <1>3
<1>5. Bodies' = Bodies
  BY <1>3 DEF Bodies
<1> QED
  BY <1>2, <1>4, <1>5 DEF Touched

-----------------------------------------------------------------------------
(* The parts of TypeOK, each with the steps that change it.                  *)

TableOK ==
  /\ table \in [Guests -> [Slots -> Entry]]
  /\ \A g \in Guests : \A h \in Held(g, "container") : h.body \in Bodies
TaskOK ==
  /\ task \in [Guests -> {Idle} \cup Task]
  /\ \A g \in Guests : task[g].busy => task[g].body \in Bodies /\ task[g].todo # <<>>

\* The parts make up TypeOK.
LEMMA TypeParts ==
  ASSUME bodies' \in Seq(Body), Len(bodies') <= MaxBodies, store' \in [Names -> {0} \cup Bodies'],
         TableOK', TaskOK'
  PROVE  TypeOK'
  BY DEF TypeOK, TableOK, TaskOK, Body, Content

\* An entry of a table is replaced, by a handle of a container that is there if
\* it is one.
LEMMA OneEntry ==
  ASSUME TypeOK, NEW g \in Guests, NEW s \in Slots, NEW e \in Entry,
         table' = [table EXCEPT ![g][s] = e], Bodies \subseteq Bodies',
         e.kind = "container" => e.body \in Bodies'
  PROVE  /\ TableOK'
         /\ \A x \in Guests : x # g => table'[x] = table[x]
<1>1. table \in [Guests -> [Slots -> Entry]]
  BY DEF TypeOK
<1>2. table' \in [Guests -> [Slots -> Entry]]
  BY <1>1
<1>3. /\ table'[g][s] = e /\ \A t \in Slots : t # s => table'[g][t] = table[g][t]
      /\ \A x \in Guests : x # g => table'[x] = table[x]
  BY <1>1
<1>4. ASSUME NEW x \in Guests, NEW t \in Slots, table'[x][t].kind = "container"
      PROVE  table'[x][t].body \in Bodies'
  <2>1. CASE x = g /\ t = s
    BY <1>3, <1>4, <2>1
  <2>2. CASE ~(x = g /\ t = s)
    <3>1. table'[x][t] = table[x][t]
      BY <1>3, <2>2
    <3>2. table[x][t] \in Held(x, "container")
      BY <1>4, <3>1 DEF Held
    <3> QED
      BY <3>1, <3>2 DEF TypeOK
  <2> QED
    BY <2>1, <2>2
<1> QED
  BY <1>2, <1>3, <1>4 DEF TableOK, Held

\* A new handle leaves the tables well-typed, and the others' as they were.
LEMMA PushEntry ==
  ASSUME TypeOK, NEW g \in Guests, NEW e \in Entry, Push(g, e), e # Free,
         Bodies \subseteq Bodies', e.kind = "container" => e.body \in Bodies'
  PROVE  /\ TableOK' /\ \A x \in Guests : x # g => table'[x] = table[x]
<1>1. PICK s \in Slots : table' = [table EXCEPT ![g][s] = e]
  BY DEF Push, FreeSlots
<1> QED
  BY <1>1, OneEntry

\* An instance that ends leaves the others' handles as they were.
LEMMA Released ==
  ASSUME TypeOK, NEW g \in Guests, Release(g), Bodies \subseteq Bodies'
  PROVE  TableOK' /\ \A x \in Guests : x # g => table'[x] = table[x]
<1>1. /\ table' \in [Guests -> [Slots -> Entry]] /\ \A x \in Guests : x # g => table'[x] = table[x]
      /\ table'[g] = [s \in Slots |-> Free]
  BY DEF Release, TypeOK, Entry
<1>2. Held(g, "container")' = {}
  BY <1>1 DEF Held, Free
<1>3. \A x \in Guests : x # g => Held(x, "container")' = Held(x, "container")
  BY <1>1 DEF Held
<1> QED
  BY <1>1, <1>2, <1>3 DEF TableOK, TypeOK

\* A table that stays, while containers stay or are added.
LEMMA SameTable ==
  ASSUME TypeOK, table' = table, Bodies \subseteq Bodies'
  PROVE  TableOK'
  BY DEF TypeOK, TableOK, Held

\* Objects that stay, or go.
Kept(b, o) == bodies'[b][o] \in {bodies[b][o], Missing}

\* An instance whose own state a step leaves alone.
LEMMA OtherStays ==
  ASSUME IInv, NEW g \in Guests, task'[g] = task[g], task[g].busy => table'[g] = table[g],
         \A b \in Bodies, o \in Objects : Kept(b, o)
  PROVE  DueLeft(g)'
<1>1. DueLeft(g) /\ (task[g].busy => task[g] \in Task /\ task[g].body \in Bodies)
  BY TaskKinds DEF IInv
<1>2. task[g].busy => task[g].due \subseteq Objects
  BY <1>1 DEF Task
<1> QED
  BY <1>1, <1>2 DEF DueLeft, Kept, Ahead

\* Where nothing is written, there are finitely many objects still.
LEMMA FewerAreFinite ==
  ASSUME IInv, Bodies' = Bodies, \A b \in Bodies, o \in Objects : Kept(b, o)
  PROVE  FinitelyMany'
<1>1. ASSUME NEW b \in Bodies PROVE IsFiniteSet(Present(b)')
  <2>1. Present(b)' \subseteq Present(b)
    BY DEF Present, Kept
  <2> QED
    BY <2>1, FS_Subset DEF IInv, FinitelyMany
<1> QED
  BY <1>1 DEF FinitelyMany

\* A step of an instance between two calls that starts no deletion, and does not
\* write an object.
LEMMA QuietStep ==
  ASSUME IInv, NEW g \in Guests, task[g] = Idle, UNCHANGED task,
         \A x \in Guests : x # g => table'[x] = table[x],
         Bodies \subseteq Bodies', \A b \in Bodies, o \in Objects : Kept(b, o)
  PROVE  TaskOK' /\ \A x \in Guests : DueLeft(x)'
<1>1. TypeOK /\ ~task[g].busy
  BY DEF IInv, Idle
<1>2. TaskOK'
  BY <1>1 DEF TypeOK, TaskOK
<1>3. \A x \in Guests : DueLeft(x)'
  BY <1>1, OtherStays
<1> QED
  BY <1>2, <1>3

-----------------------------------------------------------------------------
(* The actions.                                                              *)

\* create_container makes a container without objects, the newest of all.
LEMMA CreateInv == ASSUME IInv, NEW g \in Guests, Create(g) PROVE IInv'
<1>1. TypeOK
  BY DEF IInv
<1>2. PICK n \in Names :
        /\ bodies' = Append(bodies, Empty)
        /\ store' = [store EXCEPT ![n] = Len(bodies) + 1]
        /\ Push(g, Container(Len(bodies) + 1, n)) \/ Release(g)
  BY DEF Create
<1>3. Empty \in Body
  BY DEF Empty, Body, Content
<1>4. bodies \in Seq(Body) /\ Len(bodies) \in Nat /\ Bodies = 1..Len(bodies) /\ Len(bodies) < MaxBodies
  BY <1>1, BodyTypes DEF TypeOK, Body, Content, Create
<1>5. /\ bodies' \in Seq(Body) /\ Len(bodies') = Len(bodies) + 1
      /\ \A b \in Bodies : bodies'[b] = bodies[b]
  BY <1>2, <1>3, <1>4
<1>6. Bodies' = 1..(Len(bodies) + 1) /\ Bodies \subseteq Bodies' /\ Len(bodies') <= MaxBodies
  BY <1>4, <1>5, BlobstoreAssumption DEF Bodies
<1>7. store' \in [Names -> {0} \cup Bodies']
  BY <1>1, <1>2, <1>4, <1>6 DEF TypeOK
<1> DEFINE e == Container(Len(bodies) + 1, n)
<1>8. e \in Entry /\ e.body = Len(bodies) + 1 /\ e # Free
  BY <1>4, BlobstoreAssumption DEF Container, Entry, Free
<1> HIDE DEF e
<1>9. TableOK' /\ \A x \in Guests : x # g => table'[x] = table[x]
  <2>1. CASE Push(g, e)
    BY <1>1, <1>4, <1>6, <1>8, <2>1, PushEntry
  <2>2. CASE Release(g)
    BY <1>1, <1>6, <2>2, Released
  <2> QED
    BY <1>2, <2>1, <2>2 DEF e
<1>10. task[g] = Idle /\ UNCHANGED task
  BY DEF Create
<1>11. TaskOK' /\ \A x \in Guests : DueLeft(x)'
  BY <1>5, <1>6, <1>9, <1>10, QuietStep DEF Kept
<1>12. FinitelyMany'
  <2> PICK m : m = Len(bodies) + 1
    OBVIOUS
  <2>1. bodies'[m] = Empty /\ Bodies' = Bodies \cup {m}
    BY <1>2, <1>3, <1>4, <1>6
  <2>2. Present(m)' = {}
    BY <2>1 DEF Present, Empty
  <2>3. \A b \in Bodies : Present(b)' = Present(b)
    BY <1>5 DEF Present
  <2> QED
    BY <2>1, <2>2, <2>3, FS_EmptySet DEF IInv, FinitelyMany
<1> QED
  BY <1>5, <1>6, <1>7, <1>9, <1>11, <1>12, TypeParts DEF IInv

\* Steps that change no container.
LEMMA TableInv ==
  ASSUME IInv, NEW g \in Guests, task[g] = Idle, UNCHANGED <<bodies, task>>,
         TableOK', \A x \in Guests : x # g => table'[x] = table[x],
         store' \in [Names -> {0} \cup Bodies]
  PROVE  IInv'
<1>1. bodies \in Seq(Body) /\ Len(bodies) <= MaxBodies /\ Bodies' = Bodies
  BY DEF IInv, TypeOK, Body, Content, Bodies
<1>2. TaskOK' /\ FinitelyMany' /\ \A x \in Guests : DueLeft(x)'
  BY <1>1, QuietStep, FewerAreFinite DEF Kept
<1> QED
  BY <1>1, <1>2, TypeParts DEF IInv

\* A call that only returns a handle keeps the invariant.
LEMMA PushInv ==
  ASSUME IInv, NEW g \in Guests, NEW e \in Entry, task[g] = Idle,
         UNCHANGED <<bodies, store, task>>, Push(g, e), e # Free,
         e.kind = "container" => e.body \in Bodies
  PROVE  IInv'
<1>1. TypeOK /\ Bodies' = Bodies /\ store' \in [Names -> {0} \cup Bodies]
  BY DEF IInv, TypeOK, Bodies
<1>2. TableOK' /\ \A x \in Guests : x # g => table'[x] = table[x]
  BY <1>1, PushEntry
<1> QED
  BY <1>1, <1>2, TableInv

\* get_container hands out a container that is there.
LEMMA GetInv == ASSUME IInv, NEW g \in Guests, Get(g) PROVE IInv'
<1>1. PICK n \in Names : store[n] # 0 /\ Push(g, Container(store[n], n))
  BY DEF Get
<1> DEFINE e == Container(store[n], n)
<1>2. store[n] \in Bodies /\ store[n] \in 1..MaxBodies
  BY <1>1, BodyTypes, BlobstoreAssumption DEF IInv, TypeOK
<1>3. e \in Entry /\ e.body \in Bodies /\ e # Free
  BY <1>2 DEF Container, Entry, Free
<1> HIDE DEF e
<1> QED
  BY <1>1, <1>3, PushInv DEF Get, e

\* delete_container takes the name away and leaves the objects to those who hold a handle.
LEMMA DeleteInv == ASSUME IInv, NEW g \in Guests, Delete(g) PROVE IInv'
<1>1. TypeOK /\ store' \in [Names -> {0} \cup Bodies]
  BY DEF IInv, TypeOK, Delete
<1>2. TableOK'
  BY <1>1, SameTable DEF Delete, Bodies
<1> QED
  BY <1>1, <1>2, TableInv DEF Delete

\* Calls that make a value, or read one object or all names, change no container.
LEMMA ValueInv == ASSUME IInv, NEW g \in Guests, NewValue(g) \/ GetData(g) \/ List(g) PROVE IInv'
<1>1. CASE GetData(g) \/ List(g)
  <2>1. Copy \in Entry /\ Copy # Free /\ Copy.kind # "container"
    BY DEF Entry, Copy, Free
  <2> QED
    BY <1>1, <2>1, PushInv DEF GetData, List
<1>2. CASE NewValue(g)
  <2>1. <<>> \in Data
    <3>1. <<>> \in [1..0 -> Chunks] /\ 0 \in 0..Limit
      BY BlobstoreAssumption
    <3> QED
      BY <3>1 DEF Data
  <2> DEFINE e == Outgoing(<<>>)
  <2>2. e \in Entry /\ e # Free /\ e.kind # "container"
    BY <2>1 DEF Outgoing, Entry, Free
  <2> HIDE DEF e
  <2> QED
    BY <1>2, <2>2, PushInv DEF NewValue, e
<1> QED
  BY <1>1, <1>2

\* A chunk appended to a value below its limit leaves it within it.
LEMMA DataGrows ==
  ASSUME NEW d \in Data, NEW c \in Chunks, Len(d) < Limit
  PROVE  Append(d, c) \in Data
<1>1. PICK n \in 0..Limit : d \in [1..n -> Chunks]
  BY DEF Data
<1>2. d \in Seq(Chunks) /\ Len(d) = n /\ n + 1 \in 0..Limit
  BY <1>1, BlobstoreAssumption
<1>3. Append(d, c) \in Seq(Chunks) /\ Len(Append(d, c)) = n + 1
  BY <1>2
<1>4. Append(d, c) \in [1..(n + 1) -> Chunks]
  BY <1>3, LenProperties
<1> QED
  BY <1>2, <1>4 DEF Data

\* A write to a value's body changes that value and no container.
LEMMA WriteBodyInv == ASSUME IInv, NEW g \in Guests, WriteBody(g) PROVE IInv'
<1>1. PICK s \in Slots, c \in Chunks :
        /\ table[g][s].kind = "outgoing" /\ Len(table[g][s].data) < Limit
        /\ table' = [table EXCEPT ![g][s].data = Append(@, c)]
  BY DEF WriteBody
<1>2. TypeOK /\ table[g][s] \in Entry /\ table \in [Guests -> [Slots -> Entry]]
  BY DEF IInv, TypeOK
<1>3. table[g][s] \in [kind: {"outgoing"}, data: Data]
  BY <1>1, <1>2 DEF Entry, Free, Copy
<1> DEFINE e == [table[g][s] EXCEPT !.data = Append(@, c)]
<1>4. e \in Entry /\ e.kind = "outgoing"
  <2>1. Append(table[g][s].data, c) \in Data
    BY <1>1, <1>3, DataGrows
  <2>2. e \in [kind: {"outgoing"}, data: Data] /\ e.kind = "outgoing"
    BY <1>3, <2>1
  <2> QED
    BY <2>2 DEF Entry
<1>5. table' = [table EXCEPT ![g][s] = e]
  BY <1>1
<1> HIDE DEF e
<1>6. Bodies' = Bodies /\ store' \in [Names -> {0} \cup Bodies]
  BY <1>2 DEF WriteBody, Bodies, TypeOK
<1>7. TableOK' /\ \A x \in Guests : x # g => table'[x] = table[x]
  BY <1>2, <1>4, <1>5, <1>6, OneEntry
<1> QED
  BY <1>6, <1>7, TableInv DEF WriteBody

\* A handle that is dropped leaves a free place behind.
LEMMA DropInv == ASSUME IInv, NEW g \in Guests, Drop(g) PROVE IInv'
<1>1. PICK s \in Slots : table' = [table EXCEPT ![g][s] = Free]
  BY DEF Drop
<1>2. Free \in Entry /\ Free.kind # "container"
  BY DEF Entry, Free
<1>3. TypeOK /\ Bodies' = Bodies /\ store' \in [Names -> {0} \cup Bodies]
  BY DEF Drop, Bodies, IInv, TypeOK
<1>4. TableOK' /\ \A x \in Guests : x # g => table'[x] = table[x]
  BY <1>1, <1>2, <1>3, OneEntry
<1> QED
  BY <1>3, <1>4, TableInv DEF Drop

\* write_data puts what was collected, and an object written is due for nothing any more.
LEMMA WriteDataInv == ASSUME IInv, NEW g \in Guests, WriteData(g) PROVE IInv'
<1>1. TypeOK /\ task[g] = Idle
  BY DEF IInv, WriteData
<1>2. PICK h \in Held(g, "container"), v \in Held(g, "outgoing"), o \in Objects :
        /\ bodies' = [bodies EXCEPT ![h.body][o] = v.data]
        /\ task' = [x \in Guests |->
             IF task[x].busy /\ task[x].body = h.body
               THEN [task[x] EXCEPT !.due = @ \ {o}] ELSE task[x]]
  BY DEF WriteData
<1>3. PICK b \in Bodies : b = h.body
  BY <1>1, HandleKinds
<1>4. PICK d \in Content : d = v.data
  BY <1>1, HandleKinds DEF Content
<1>5. /\ bodies' \in Seq(Body) /\ Len(bodies') = Len(bodies) /\ Bodies' = Bodies
      /\ \A c \in Bodies : c # b => bodies'[c] = bodies[c]
      /\ \A p \in Objects : p # o => bodies'[b][p] = bodies[b][p]
  <2>1. bodies' = [bodies EXCEPT ![b][o] = d]
    BY <1>2, <1>3, <1>4
  <2> QED
    BY <1>1, <2>1, OneObject DEF Touched
<1>6. ASSUME NEW x \in Guests
      PROVE  /\ task'[x] \in {Idle} \cup Task
             /\ task'[x].busy => task'[x].body \in Bodies' /\ task'[x].todo # <<>>
             /\ DueLeft(x)'
  <2>1. DueLeft(x) /\ table' = table
    BY DEF IInv, WriteData
  <2>2. CASE task[x].busy /\ task[x].body = b
    <3>1. task[x] \in Task /\ task[x].todo # <<>>
      BY <1>1, <2>2, TaskKinds
    <3>2. task'[x] = [task[x] EXCEPT !.due = @ \ {o}]
      BY <1>2, <1>3, <2>2
    <3>3. /\ task'[x] \in Task /\ task'[x].body = b /\ task'[x].todo = task[x].todo
          /\ task'[x].due = task[x].due \ {o} /\ task[x].due \subseteq Objects
      BY <2>2, <3>1, <3>2 DEF Task
    <3> QED
      BY <1>5, <2>1, <2>2, <3>1, <3>3 DEF DueLeft, Ahead
  <2>3. CASE ~(task[x].busy /\ task[x].body = b)
    <3>1. task'[x] = task[x]
      BY <1>2, <1>3, <2>3
    <3> QED
      BY <1>1, <1>5, <2>1, <2>3, <3>1, TaskKinds DEF DueLeft, Ahead
  <2> QED
    BY <2>2, <2>3
<1>7. TaskOK'
  BY <1>2, <1>6 DEF TaskOK
<1>8. TableOK' /\ store' \in [Names -> {0} \cup Bodies'] /\ Len(bodies') <= MaxBodies
  BY <1>1, <1>5, SameTable DEF WriteData, TypeOK
<1>9. FinitelyMany'
  <2>1. ASSUME NEW c \in Bodies PROVE IsFiniteSet(Present(c)')
    <3>1. Present(c)' \subseteq Present(c) \cup {o}
      BY <1>5 DEF Present
    <3>2. IsFiniteSet(Present(c) \cup {o})
      BY FS_AddElement DEF IInv, FinitelyMany
    <3> QED
      BY <3>1, <3>2, FS_Subset
  <2> QED
    BY <1>5, <2>1 DEF FinitelyMany
<1> QED
  BY <1>5, <1>6, <1>7, <1>8, <1>9, TypeParts DEF IInv

\* An object that goes.
Gone(b, o) ==
  /\ bodies' \in Seq(Body) /\ Len(bodies') <= MaxBodies /\ Bodies' = Bodies
  /\ bodies'[b][o] = Missing
  /\ \A c \in Bodies : c # b => bodies'[c] = bodies[c]
  /\ \A c \in Bodies, p \in Objects : Kept(c, p)

\* What is removed is gone, and all other objects are as they were.
LEMMA ForgetKeeps ==
  ASSUME TypeOK, NEW b \in Bodies, NEW o \in Objects, Forget(b, o)
  PROVE  Gone(b, o)
<1>1. Missing \in Content
  BY DEF Content
<1>2. Touched(b, o, Missing)
  BY <1>1, OneObject DEF Forget
<1> QED
  BY <1>2, BodyTypes DEF Kept, Gone, Touched

\* delete_object removes one object in one step.
LEMMA DeleteObjectInv == ASSUME IInv, NEW g \in Guests, DeleteObject(g) PROVE IInv'
<1>1. TypeOK
  BY DEF IInv
<1>2. PICK h \in Held(g, "container"), o \in Objects : Forget(h.body, o)
  BY DEF DeleteObject
<1>3. h.body \in Bodies
  BY <1>1, HandleKinds
<1>4. /\ bodies' \in Seq(Body) /\ Len(bodies') <= MaxBodies /\ Bodies' = Bodies
      /\ \A c \in Bodies, p \in Objects : Kept(c, p)
  BY <1>1, <1>2, <1>3, ForgetKeeps DEF Gone
<1>5. TableOK' /\ store' \in [Names -> {0} \cup Bodies']
  BY <1>1, <1>4, SameTable DEF DeleteObject, TypeOK
<1>6. TaskOK' /\ FinitelyMany' /\ \A x \in Guests : DueLeft(x)'
  BY <1>4, QuietStep, FewerAreFinite DEF DeleteObject
<1> QED
  BY <1>4, <1>5, <1>6, TypeParts DEF IInv

\* A step that changes one task, and lets objects stay or go.
LEMMA OneTask ==
  ASSUME IInv, NEW g \in Guests, NEW t \in {Idle} \cup Task, task' = [task EXCEPT ![g] = t],
         t.busy => t.body \in Bodies /\ t.todo # <<>>,
         DueLeft(g)', TableOK', \A x \in Guests : x # g => table'[x] = table[x],
         store' = store, bodies' \in Seq(Body), Len(bodies') <= MaxBodies, Bodies' = Bodies,
         \A b \in Bodies, o \in Objects : Kept(b, o)
  PROVE  IInv'
<1>1. /\ task \in [Guests -> {Idle} \cup Task] /\ store' \in [Names -> {0} \cup Bodies']
      /\ \A x \in Guests : task[x].busy => task[x].body \in Bodies /\ task[x].todo # <<>>
  BY DEF IInv, TypeOK
<1>2. /\ task' \in [Guests -> {Idle} \cup Task] /\ task'[g] = t
      /\ \A x \in Guests : x # g => task'[x] = task[x]
  BY <1>1
<1>3. TaskOK'
  BY <1>1, <1>2 DEF TaskOK
<1>4. \A x \in Guests : DueLeft(x)'
  BY <1>2, OtherStays
<1>5. FinitelyMany'
  BY FewerAreFinite
<1> QED
  BY <1>1, <1>3, <1>4, <1>5, TypeParts DEF IInv

\* The names a deletion begins with are a sequence of object names.
LEMMA BeginInv ==
  ASSUME IInv, NEW g \in Guests, NEW h \in Held(g, "container"), NEW names \in Seq(Objects),
         Begin(g, h, names), UNCHANGED <<bodies, store, table>>
  PROVE  IInv'
<1> DEFINE t == IF names = <<>> THEN Idle
                ELSE [busy |-> TRUE, body |-> h.body, name |-> h.name, todo |-> names,
                      due |-> {names[i] : i \in DOMAIN names}]
<1>1. TypeOK
  BY DEF IInv
<1>2. h.body \in Bodies /\ h.body \in 1..MaxBodies /\ h.name \in Names
  BY <1>1, HandleKinds
<1>3. {names[i] : i \in DOMAIN names} \in SUBSET Objects
  OBVIOUS
<1>4. t \in {Idle} \cup Task /\ (t.busy => t.body \in Bodies /\ t.todo # <<>> /\ t.due = Ahead(t))
  BY <1>2, <1>3 DEF Task, Idle, Ahead
<1>5. task' = [task EXCEPT ![g] = t]
  BY DEF Begin
<1> HIDE DEF t
<1>6. task'[g] = t
  BY <1>1, <1>5 DEF TypeOK
<1>7. DueLeft(g)'
  <2>1. \E s \in Slots : table'[g][s] # Free
    BY HolderHolds
  <2> QED
    BY <1>4, <1>6, <2>1 DEF DueLeft, Ahead
<1>8. TableOK' /\ Bodies' = Bodies
  BY <1>1, SameTable DEF Bodies
<1>9. bodies' \in Seq(Body) /\ Len(bodies') <= MaxBodies
  BY <1>1 DEF TypeOK, Body, Content
<1> QED
  BY <1>4, <1>5, <1>7, <1>8, <1>9, OneTask DEF Kept

\* The calls that delete several objects begin with all of them ahead.
LEMMA BeginsInv == ASSUME IInv, NEW g \in Guests, DeleteObjects(g) \/ Clear(g) PROVE IInv'
<1>1. CASE DeleteObjects(g)
  <2>1. PICK h \in Held(g, "container"), n \in 0..MaxBatch :
          \E names \in [1..n -> Objects] : Begin(g, h, names)
    BY <1>1 DEF DeleteObjects
  <2>2. PICK names \in [1..n -> Objects] : Begin(g, h, names)
    BY <2>1
  <2>3. names \in Seq(Objects)
    BY <2>1
  <2> QED
    BY <1>1, <2>2, <2>3, BeginInv DEF DeleteObjects
<1>2. CASE Clear(g)
  <2>1. PICK h \in Held(g, "container") : \E names \in Orders(Present(h.body)) : Begin(g, h, names)
    BY <1>2 DEF Clear
  <2>2. PICK names \in Orders(Present(h.body)) : Begin(g, h, names)
    BY <2>1
  <2>3. IsFiniteSet(Present(h.body))
    BY HandleKinds DEF IInv, FinitelyMany
  <2>4. PICK n \in Nat : n = Cardinality(Present(h.body))
    BY <2>3, FS_CardinalityType
  <2>5. names \in Seq(Objects)
    <3>1. names \in [1..n -> Present(h.body)] /\ Present(h.body) \subseteq Objects
      BY <2>4 DEF Orders, Present
    <3>2. names \in [1..n -> Objects]
      BY <3>1
    <3> QED
      BY <3>2
  <2> QED
    BY <1>2, <2>2, <2>5, BeginInv DEF Clear
<1> QED
  BY <1>1, <1>2

\* What is in a sequence is its head or in its tail.
LEMMA FirstAndRest ==
  ASSUME NEW S, NEW q \in Seq(S), q # <<>>
  PROVE  /\ Head(q) \in S /\ Tail(q) \in Seq(S)
         /\ Len(q) # 1 => Tail(q) # <<>>
         /\ \A i \in DOMAIN q :
              q[i] = Head(q) \/ (Len(q) # 1 /\ \E j \in DOMAIN Tail(q) : q[i] = Tail(q)[j])
<1>1. /\ Head(q) \in S /\ Tail(q) \in Seq(S) /\ Len(Tail(q)) = Len(q) - 1
      /\ \A i \in 1..Len(Tail(q)) : Tail(q)[i] = q[i + 1]
  BY HeadTailProperties
<1>2. /\ Head(q) = q[1] /\ Len(q) \in Nat /\ DOMAIN q = 1..Len(q)
      /\ DOMAIN Tail(q) = 1..Len(Tail(q))
  BY <1>1
<1>3. ASSUME NEW i \in DOMAIN q, i # 1
      PROVE  Len(q) # 1 /\ i - 1 \in DOMAIN Tail(q) /\ q[i] = Tail(q)[i - 1]
  BY <1>1, <1>2, <1>3
<1>4. Len(q) # 1 => Tail(q) # <<>>
  <2>1. Len(<<>>) = 0
    OBVIOUS
  <2>2. Tail(q) = <<>> => Len(Tail(q)) = 0
    BY <2>1, Zenon
  <2> QED
    BY <1>1, <1>2, <2>2
<1>5. ASSUME NEW i \in DOMAIN q
      PROVE  q[i] = Head(q) \/ (Len(q) # 1 /\ \E j \in DOMAIN Tail(q) : q[i] = Tail(q)[j])
  <2>1. CASE i = 1
    BY <1>2, <2>1
  <2>2. CASE i # 1
    BY <1>3, <2>2
  <2> QED
    BY <2>1, <2>2
<1> QED
  BY <1>1, <1>4, <1>5

\* The next deletion: what was before it is deleted now, or still before it.
LEMMA DeleteNextInv == ASSUME IInv, NEW g \in Guests, DeleteNext(g) PROVE IInv'
<1> DEFINE q == task[g].todo
           t == AfterOne(task[g])
<1>1. TypeOK /\ DueLeft(g) /\ task[g] \in Task /\ task[g].busy /\ task[g].body \in Bodies /\ q # <<>>
  BY TaskKinds DEF IInv, DeleteNext
<1>2. q \in Seq(Objects) /\ task[g].due \subseteq Objects
  BY <1>1 DEF Task
<1>3. /\ Head(q) \in Objects /\ Tail(q) \in Seq(Objects)
      /\ Len(q) # 1 => Tail(q) # <<>>
      /\ \A i \in DOMAIN q : q[i] = Head(q) \/ (Len(q) # 1 /\ \E j \in DOMAIN Tail(q) : q[i] = Tail(q)[j])
  BY <1>1, <1>2, FirstAndRest
<1>4. task' = [task EXCEPT ![g] = t]
  BY DEF DeleteNext
<1>5. t = IF Len(q) = 1 THEN Idle ELSE [task[g] EXCEPT !.todo = Tail(q)]
  BY DEF AfterOne
<1> HIDE DEF t
<1>6. /\ t \in {Idle} \cup Task
      /\ t.busy => /\ t.body = task[g].body /\ t.todo = Tail(q) /\ t.due = task[g].due
                   /\ Len(q) # 1
  BY <1>1, <1>3, <1>5 DEF Task, Idle
<1>7. Forget(task[g].body, Head(q))
  BY DEF DeleteNext
<1> HIDE DEF q
<1>8. /\ bodies' \in Seq(Body) /\ Len(bodies') <= MaxBodies /\ Bodies' = Bodies
      /\ bodies'[task[g].body][Head(q)] = Missing
      /\ \A c \in Bodies, p \in Objects : Kept(c, p)
  BY <1>1, <1>3, <1>7, ForgetKeeps DEF Gone
<1>9. task'[g] = t
  BY <1>1, <1>4 DEF TypeOK
<1>10. DueLeft(g)'
  <2>1. q = task[g].todo
    BY DEF q
  <2>2. ASSUME t.busy, NEW o \in task[g].due
        PROVE  bodies'[task[g].body][o] = Missing \/ o \in Ahead(t)
    <3>1. bodies[task[g].body][o] = Missing \/ \E i \in DOMAIN q : q[i] = o
      BY <1>1, <2>1, <2>2 DEF DueLeft, Ahead
    <3>2. o = Head(q) \/ bodies[task[g].body][o] = Missing => bodies'[task[g].body][o] = Missing
      BY <1>1, <1>2, <1>8, <2>2 DEF Kept
    <3>3. ASSUME NEW i \in DOMAIN q, q[i] = o, o # Head(q) PROVE o \in Ahead(t)
      BY <1>3, <1>6, <2>2, <3>3 DEF Ahead
    <3> QED
      BY <3>1, <3>2, <3>3
  <2>3. \E s \in Slots : table'[g][s] # Free
    BY <1>1 DEF DueLeft, DeleteNext
  <2>4. Ahead(task[g])' = Ahead(t)
    BY <1>9 DEF Ahead
  <2> QED
    BY <1>6, <1>9, <2>2, <2>3, <2>4 DEF DueLeft
<1>11. TableOK' /\ store' = store /\ table' = table
  BY <1>1, <1>8, SameTable DEF DeleteNext
<1> QED
  BY <1>1, <1>3, <1>4, <1>6, <1>8, <1>10, <1>11, OneTask

\* A call that has gone through its objects leaves none of those due.
LEMMA EndInv == ASSUME IInv, NEW g \in Guests, End(g) PROVE IInv'
<1>1. TypeOK /\ Bodies' = Bodies
  BY DEF IInv, End, Bodies
<1>2. ~Idle.busy /\ task' = [task EXCEPT ![g] = Idle]
  BY DEF Idle, End
<1>3. task'[g] = Idle
  BY <1>1, <1>2 DEF TypeOK
<1>4. DueLeft(g)'
  BY <1>2, <1>3 DEF DueLeft
<1>5. Release(g)
  BY DEF End
<1>6. TableOK' /\ \A x \in Guests : x # g => table'[x] = table[x]
  BY <1>1, <1>5, Released
<1>7. bodies' \in Seq(Body) /\ Len(bodies') <= MaxBodies /\ store' = store
  BY <1>1 DEF End, TypeOK, Body, Content
<1> QED
  BY <1>1, <1>2, <1>4, <1>6, <1>7, OneTask DEF Kept, End

-----------------------------------------------------------------------------
(* The theorems.                                                             *)

\* The invariant holds of a host that has just started.
LEMMA InitInv == Init => IInv
<1> SUFFICES ASSUME Init PROVE IInv
  OBVIOUS
<1>1. Bodies = {} /\ Len(bodies) <= MaxBodies /\ bodies \in Seq(Body)
  BY BlobstoreAssumption DEF Init, Bodies
<1>2. TypeOK
  <2>1. \A g \in Guests : ~task[g].busy /\ task[g] = Idle /\ Held(g, "container") = {}
    BY DEF Init, Idle, Held, Free
  <2>2. table \in [Guests -> [Slots -> Entry]] /\ store \in [Names -> {0} \cup Bodies]
    BY DEF Init, Entry
  <2>3. task \in [Guests -> {Idle} \cup Task]
    BY DEF Init
  <2> QED
    BY <1>1, <2>1, <2>2, <2>3 DEF TypeOK, Body, Content
<1>3. \A g \in Guests : DueLeft(g)
  BY DEF Init, Idle, DueLeft
<1> QED
  BY <1>1, <1>2, <1>3 DEF IInv, FinitelyMany

\* Every step keeps the invariant.
LEMMA NextInv == IInv /\ [Next]_vars => IInv'
<1> SUFFICES ASSUME IInv, [Next]_vars PROVE IInv'
  OBVIOUS
<1>1. CASE UNCHANGED vars
  BY <1>1 DEF vars, IInv, TypeOK, DueLeft, FinitelyMany, Present, Bodies, Held, Ahead
<1>2. ASSUME NEW g \in Guests,
             \/ Create(g) \/ Get(g) \/ Delete(g)
             \/ NewValue(g) \/ WriteBody(g) \/ GetData(g) \/ WriteData(g)
             \/ List(g) \/ DeleteObject(g) \/ DeleteObjects(g) \/ Clear(g) \/ DeleteNext(g)
             \/ Drop(g) \/ End(g)
      PROVE  IInv'
  BY <1>2, CreateInv, GetInv, DeleteInv, ValueInv, WriteBodyInv, WriteDataInv, DeleteObjectInv,
     BeginsInv, DeleteNextInv, DropInv, EndInv
<1> QED
  BY <1>1, <1>2 DEF Next

\* The invariant holds of whatever the host does.
LEMMA AlwaysIInv == Spec => []IInv
<1> QED
  BY InitInv, NextInv, PTL DEF Spec

\* Names and handles stand for containers that were made, and a value never holds
\* more than the pipe behind it takes, whatever is written to it.
THEOREM TypeCorrect == Spec => []TypeOK
<1>1. IInv => TypeOK
  BY DEF IInv
<1> QED
  BY <1>1, AlwaysIInv, PTL

\* A task is over when its deletions are, or its instance is.
LEMMA OverWhenDone ==
  ASSUME IInv, [Next]_vars, NEW g \in Guests, task[g].busy, ~task'[g].busy, table' = table,
         NEW o \in task[g].due
  PROVE  bodies'[task[g].body][o] = Missing
<1>1. TypeOK /\ DueLeft(g) /\ task[g] # Idle
  BY DEF IInv, Idle
<1>2. task[g] \in Task /\ task[g].body \in Bodies /\ task[g].todo # <<>> /\ task \in [Guests -> {Idle} \cup Task]
  BY <1>1, TaskKinds DEF TypeOK
<1>3. task' # task
  OBVIOUS
<1>4. PICK x \in Guests : WriteData(x) \/ DeleteObjects(x) \/ Clear(x) \/ DeleteNext(x) \/ End(x)
  BY <1>3 DEF Next, vars, Create, Get, Delete, NewValue, WriteBody, GetData, List, DeleteObject, Drop
<1>5. CASE WriteData(x)
  <2>1. PICK b, p : task' = [y \in Guests |->
                      IF task[y].busy /\ task[y].body = b
                        THEN [task[y] EXCEPT !.due = task[y].due \ {p}] ELSE task[y]]
    BY <1>5 DEF WriteData
  <2>2. task'[g] = task[g] \/ task'[g] = [task[g] EXCEPT !.due = task[g].due \ {p}]
    BY <2>1
  <2>3. task'[g].busy = task[g].busy
    BY <1>2, <2>2 DEF Task
  <2> QED
    BY <2>3
<1>6. CASE DeleteObjects(x) \/ Clear(x)
  <2>1. task[x] = Idle /\ \E t : task' = [task EXCEPT ![x] = t]
    BY <1>6 DEF DeleteObjects, Clear, Begin
  <2>2. task'[g] = task[g]
    BY <1>1, <1>2, <2>1
  <2> QED
    BY <2>2
<1>7. CASE DeleteNext(x)
  <2>1. task' = [task EXCEPT ![x] = AfterOne(task[x])]
    BY <1>7 DEF DeleteNext
  <2>2. x = g /\ task'[g] = AfterOne(task[g])
    BY <1>2, <2>1
  <2> DEFINE q == task[g].todo
  <2>3. q \in Seq(Objects) /\ q # <<>> /\ task[g].due \subseteq Objects
    BY <1>2 DEF Task
  <2>4. Len(q) = 1
    <3>1. SUFFICES ASSUME Len(q) # 1 PROVE FALSE
      OBVIOUS
    <3>2. task'[g] = [task[g] EXCEPT !.todo = Tail(q)]
      BY <2>2, <3>1 DEF AfterOne
    <3>3. task'[g].busy = task[g].busy
      BY <1>2, <3>2 DEF Task
    <3> QED
      BY <3>3
  <2>5. Head(q) \in Objects /\ \A i \in DOMAIN q : q[i] = Head(q)
    BY <2>3, <2>4, FirstAndRest
  <2>6. Forget(task[g].body, Head(q))
    BY <1>7, <2>2 DEF DeleteNext
  <2>7. bodies'[task[g].body][Head(q)] = Missing /\ Kept(task[g].body, o)
    BY <1>1, <1>2, <2>3, <2>5, <2>6, ForgetKeeps DEF Gone
  <2>8. bodies[task[g].body][o] = Missing \/ o = Head(q)
    BY <1>1, <2>5 DEF DueLeft, Ahead
  <2> QED
    BY <2>7, <2>8 DEF Kept
<1>8. CASE End(x)
  <2>1. x = g
    BY <1>2, <1>8 DEF End
  <2>2. \A s \in Slots : table'[g][s] = Free
    BY <1>1, <1>8, <2>1 DEF End, Release, TypeOK
  <2> QED
    BY <1>1, <2>2 DEF DueLeft
<1> QED
  BY <1>4, <1>5, <1>6, <1>7, <1>8

\* Once clear or delete_objects has returned, an object it set out to delete is
\* there only if somebody wrote it meanwhile: in any number of deletions, and
\* whatever became of the container's name and its other handles between two.
THEOREM DeletionsDelete == Spec => DeletedUnlessRewritten
<1>1. IInv /\ [Next]_vars =>
        [\A g \in Guests :
           /\ task[g].busy /\ ~task'[g].busy
           /\ table' = table
           => \A o \in task[g].due : bodies'[task[g].body][o] = Missing]_vars
  BY OverWhenDone
<1> QED
  BY <1>1, AlwaysIInv, PTL DEF Spec, DeletedUnlessRewritten

\* One object changes, by a write, by delete_object, or by a deletion under way.
Changed(g, b, o) ==
  /\ UNCHANGED <<store, table>>
  /\ \A c \in Bodies, p \in Objects : c # b \/ p # o => bodies'[c][p] = bodies[c][p]
  /\ \/ /\ \E h \in Held(g, "container") : h.body = b
        /\ \/ \E v \in Held(g, "outgoing") : v.data = bodies'[b][o]
           \/ bodies'[b][o] = Missing /\ UNCHANGED task
     \/ /\ bodies'[b][o] = Missing /\ task'[g] # task[g]
        /\ task[g].busy /\ task[g].body = b /\ Head(task[g].todo) = o

\* An object that is touched is the only one.
LEMMA OnlyOne ==
  ASSUME NEW b \in Bodies, NEW o \in Objects, NEW d, Touched(b, o, d)
  PROVE  /\ bodies'[b][o] = d
         /\ \A c \in Bodies, p \in Objects : c # b \/ p # o => bodies'[c][p] = bodies[c][p]
BY DEF Touched

\* What a step does to the containers that are there.
LEMMA ContainersChange ==
  ASSUME IInv, [Next]_vars, NEW b \in Bodies, bodies'[b] # bodies[b]
  PROVE  \E g \in Guests, o \in Objects : Changed(g, b, o)
<1>1. TypeOK
  BY DEF IInv
<1>2. PICK g \in Guests : Create(g) \/ WriteData(g) \/ DeleteObject(g) \/ DeleteNext(g)
  BY DEF Next, vars, Get, Delete, NewValue, WriteBody, GetData, List, DeleteObjects, Clear, Drop, End
<1>3. CASE Create(g)
  <2>1. bodies' = Append(bodies, Empty)
    BY <1>3 DEF Create
  <2>2. bodies \in Seq(Body) /\ Bodies = 1..Len(bodies) /\ Empty \in Body
    BY <1>1, BodyTypes DEF TypeOK, Body, Content, Empty
  <2> QED
    BY <2>1, <2>2
<1>4. CASE WriteData(g)
  <2>1. PICK h \in Held(g, "container"), v \in Held(g, "outgoing"), o \in Objects :
          bodies' = [bodies EXCEPT ![h.body][o] = v.data]
    BY <1>4 DEF WriteData
  <2>2. PICK c \in Bodies, d \in Content : c = h.body /\ d = v.data
    BY <1>1, HandleKinds DEF Content
  <2>3. bodies' = [bodies EXCEPT ![c][o] = d]
    BY <2>1, <2>2
  <2>4. Touched(c, o, d)
    BY <1>1, <2>3, OneObject
  <2>5. c = b
    BY <2>4 DEF Touched
  <2>6. UNCHANGED <<store, table>>
    BY <1>4 DEF WriteData
  <2>7. Touched(b, o, d)
    BY <2>4, <2>5
  <2>8. /\ bodies'[b][o] = d
        /\ \A x \in Bodies, p \in Objects : x # b \/ p # o => bodies'[x][p] = bodies[x][p]
    BY <2>7, OnlyOne
  <2>9. Changed(g, b, o)
    BY <2>2, <2>5, <2>6, <2>8 DEF Changed
  <2> QED
    BY <2>9
<1>5. CASE DeleteObject(g)
  <2>1. PICK h \in Held(g, "container"), o \in Objects : Forget(h.body, o)
    BY <1>5 DEF DeleteObject
  <2>2. PICK c \in Bodies : c = h.body
    BY <1>1, HandleKinds
  <2>3. bodies' = [bodies EXCEPT ![c][o] = Missing] /\ Missing \in Content
    BY <2>1, <2>2 DEF Forget, Content
  <2>4. Touched(c, o, Missing)
    BY <1>1, <2>3, OneObject
  <2>5. c = b
    BY <2>4 DEF Touched
  <2>6. UNCHANGED <<store, table, task>>
    BY <1>5 DEF DeleteObject
  <2>7. Touched(b, o, Missing)
    BY <2>4, <2>5
  <2>8. /\ bodies'[b][o] = Missing
        /\ \A x \in Bodies, p \in Objects : x # b \/ p # o => bodies'[x][p] = bodies[x][p]
    BY <2>7, OnlyOne
  <2>9. Changed(g, b, o)
    BY <2>2, <2>5, <2>6, <2>8 DEF Changed
  <2> QED
    BY <2>9
<1>6. CASE DeleteNext(g)
  <2>1. task[g].busy /\ Forget(task[g].body, Head(task[g].todo)) /\ UNCHANGED <<store, table>>
    BY <1>6 DEF DeleteNext
  <2>2. /\ task[g] \in Task /\ task[g].body \in Bodies /\ task[g].todo \in Seq(Objects)
        /\ task[g].todo # <<>>
    BY <1>1, <2>1, TaskKinds DEF Task, Idle
  <2>3. PICK o \in Objects : o = Head(task[g].todo)
    BY <2>2, FirstAndRest
  <2>4. PICK c \in Bodies : c = task[g].body
    BY <2>2
  <2>5. bodies' = [bodies EXCEPT ![c][o] = Missing] /\ Missing \in Content
    BY <2>1, <2>3, <2>4 DEF Forget, Content
  <2>6. Touched(c, o, Missing)
    BY <1>1, <2>5, OneObject
  <2>7. c = b
    BY <2>6 DEF Touched
  <2>8. task'[g] # task[g]
    <3>1. task'[g] = AfterOne(task[g])
      BY <1>1, <1>6 DEF DeleteNext, TypeOK
    <3>2. Tail(task[g].todo) # task[g].todo
      <4>1. Len(Tail(task[g].todo)) = Len(task[g].todo) - 1 /\ Len(task[g].todo) \in Nat
        BY <2>2, HeadTailProperties
      <4>2. Len(Tail(task[g].todo)) # Len(task[g].todo)
        BY <4>1
      <4> QED
        BY <4>2, Zenon
    <3>3. ~Idle.busy
      BY DEF Idle
    <3>4. CASE Len(task[g].todo) = 1
      BY <2>1, <3>1, <3>3, <3>4 DEF AfterOne
    <3>5. CASE Len(task[g].todo) # 1
      <4>1. task'[g].todo = Tail(task[g].todo)
        BY <2>2, <3>1, <3>5 DEF AfterOne, Task
      <4> QED
        BY <3>2, <4>1
    <3> QED
      BY <3>4, <3>5
  <2>9. Touched(b, o, Missing)
    BY <2>6, <2>7
  <2>10. /\ bodies'[b][o] = Missing
         /\ \A x \in Bodies, p \in Objects : x # b \/ p # o => bodies'[x][p] = bodies[x][p]
    BY <2>9, OnlyOne
  <2>11. Changed(g, b, o)
    BY <2>1, <2>3, <2>4, <2>7, <2>8, <2>10 DEF Changed
  <2> QED
    BY <2>11
<1> QED
  BY <1>2, <1>3, <1>4, <1>5, <1>6

\* A container is changed only through a handle made for it or by a deletion
\* begun through one: those of a container it replaced under its name miss it.
THEOREM HandlesKeepTheirContainer == Spec => OldHandlesMissTheNew
<1>1. IInv /\ [Next]_vars =>
        [\A b \in Bodies : bodies'[b] # bodies[b] =>
           \E g \in Guests : \/ \E h \in Held(g, "container") : h.body = b
                             \/ task[g].busy /\ task[g].body = b]_vars
  BY ContainersChange DEF Changed
<1> QED
  BY <1>1, AlwaysIInv, PTL DEF Spec, OldHandlesMissTheNew

\* Objects change one at a time, by those who may: what is written gets the bytes of a
\* value, and what is gone was deleted through a handle or by a deletion that had come
\* to its name.
THEOREM WrittenBytesStay == Spec => BytesAreAsWritten
<1>1. IInv /\ [Next]_vars =>
        [\A b \in Bodies, o \in Objects : bodies'[b][o] # bodies[b][o] =>
           /\ UNCHANGED <<store, table>>
           /\ \A c \in Bodies, p \in Objects : <<c, p>> # <<b, o>> => bodies'[c][p] = bodies[c][p]
           /\ \E g \in Guests :
                \/ /\ \E h \in Held(g, "container") : h.body = b
                   /\ \/ \E v \in Held(g, "outgoing") : v.data = bodies'[b][o]
                      \/ bodies'[b][o] = Missing /\ UNCHANGED task
                \/ /\ bodies'[b][o] = Missing /\ task'[g] # task[g]
                   /\ task[g].busy /\ task[g].body = b /\ Head(task[g].todo) = o]_vars
  <2>1. ASSUME IInv, [Next]_vars, NEW b \in Bodies, NEW o \in Objects, bodies'[b][o] # bodies[b][o]
        PROVE  \E g \in Guests : Changed(g, b, o)
    <3>1. PICK g \in Guests, p \in Objects : Changed(g, b, p)
      BY <2>1, ContainersChange
    <3>2. p = o
      BY <2>1, <3>1 DEF Changed
    <3> QED
      BY <3>1, <3>2
  <2> QED
    BY <2>1 DEF Changed
<1> QED
  BY <1>1, AlwaysIInv, PTL DEF Spec, BytesAreAsWritten
=============================================================================
