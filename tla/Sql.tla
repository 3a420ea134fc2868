--------------------------------- MODULE Sql ---------------------------------
(***************************************************************************)
(* The wasi-sql host: connections, prepared statements and errors behind   *)
(* handles (host/types_impl.rs), query and exec (host/readwrite_impl.rs)   *)
(* over SQLite (host/default_impl.rs).                                     *)
(*                                                                         *)
(* Every open makes an SQLite connection of its own: to the one file of    *)
(* SQL_DATABASE, or to a new and empty database when that is ":memory:".   *)
(* The name the guest gave is not used.  A query runs whole under the lock *)
(* of its connection, between two awaits.                                  *)
(*                                                                         *)
(* SQLite is external: one table of one column without affinity, to which  *)
(* statements create, insert and select.                                   *)
(***************************************************************************)
EXTENDS SqlValues, Sequences

CONSTANTS
  Guests,   \* instances alive at one time
  Slots,    \* entries of a resource table (bound; u32 in wasmtime)
  Params,   \* the DataTypes guests insert
  MaxRows,  \* bound on the rows of a table
  NoTable   \* what a database holds before its table is created

VARIABLES
  path,        \* SQL_DATABASE, read once when the back end connects
  rows,        \* rows[d]: the table of database d, or NoTable
  table,       \* table[g][s]: the resource table of instance g
  call,        \* call[g]: the host function instance g is in
  given        \* history: given[d]: the inserts done through the handles that see d

vars == <<path, rows, table, call, given>>

Shared == <<"file", 0>>
OnFile == path = "file"
\* In memory a connection has a database of its own, named after its handle.
Databases == {Shared} \cup (Guests \X Slots)

Queries == {"create", "insert", "select"}
Free == [kind |-> "free"]
Error == [kind |-> "error"]
Connection(d) == [kind |-> "connection", db |-> d]
Statement(q, p) == [kind |-> "statement", query |-> q, param |-> p]
Idle == [st |-> "idle"]

\* connect_with: the path is tried, then kept.
Init ==
  /\ path \in {":memory:", "file"}
  /\ rows = [d \in Databases |-> NoTable]
  /\ table = [g \in Guests |-> [s \in Slots |-> Free]]
  /\ call = [g \in Guests |-> Idle]
  /\ given = [d \in Databases |-> <<>>]

-----------------------------------------------------------------------------
(* Handles.                                                                  *)

\* A new entry takes the first free slot.
Push(g, s, entry) ==
  /\ table[g][s] = Free
  /\ \A x \in Slots : table[g][x] = Free => s <= x
  /\ table' = [table EXCEPT ![g][s] = entry]

\* Bound: a guest drops a statement before it prepares the next one, and an error
\* before it does anything else.
Holds(g, kind) == \E s \in Slots : table[g][s].kind = kind
Ready(g) == call[g] = Idle /\ ~Holds(g, "error")

\* A fault: in memory, all the connections of an instance share a database.
DatabaseByInstance(g, s) == IF OnFile THEN Shared ELSE <<g, CHOOSE x \in Slots : TRUE>>
\* SqliteConnection::open(&database_path).
DatabaseOf(g, s) == IF OnFile THEN Shared ELSE <<g, s>>

\* open: a new connection, or an error resource when SQLite fails.
Open(g) ==
  /\ Ready(g)
  /\ \E s \in Slots : \/ Push(g, s, Connection(DatabaseOf(g, s)))
                      \/ Push(g, s, Error)
  /\ UNCHANGED <<path, rows, call, given>>

\* prepare: query and parameters are kept as they are; SQLite does not see them yet.
Prepare(g) ==
  /\ Ready(g)
  /\ ~Holds(g, "statement")
  /\ \E s \in Slots, q \in Queries, p \in Params :
       /\ q # "insert" => p = CHOOSE x \in Params : TRUE   \* only inserts have a parameter
       /\ Push(g, s, Statement(q, p))
  /\ UNCHANGED <<path, rows, call, given>>

\* The last reference to a connection closes it, and a database in memory goes with it.
Close(gone) ==
  /\ rows' = [d \in Databases |-> IF d \in gone THEN NoTable ELSE rows[d]]
  /\ given' = [d \in Databases |-> IF d \in gone THEN <<>> ELSE given[d]]

Drop(g) ==
  /\ call[g] = Idle
  /\ \E s \in Slots :
       /\ table[g][s] # Free
       /\ table' = [table EXCEPT ![g][s] = Free]
       /\ Close(IF table[g][s].kind = "connection" THEN {<<g, s>>} ELSE {})
  /\ UNCHANGED <<path, call>>

End(g) ==
  /\ table' = [table EXCEPT ![g] = [s \in Slots |-> Free]]
  /\ call' = [call EXCEPT ![g] = Idle]
  /\ Close({g} \X Slots)
  /\ UNCHANGED path

-----------------------------------------------------------------------------
(* query and exec.                                                           *)

\* What a connection is to see: the file, or what went through itself.
Scope(g, c) == IF OnFile THEN Shared ELSE <<g, c>>

\* get_connection, get_statement: both are cloned out of the table before the
\* await.  before is history: the inserts the connection is to see already.
Call(g) ==
  /\ Ready(g)
  /\ \E f \in {"query", "exec"}, c \in Slots, q \in Slots :
       /\ table[g][c].kind = "connection" /\ table[g][q].kind = "statement"
       /\ table[g][q].query # "select" => f = "exec"   \* the others run alike under both
       /\ call' = [call EXCEPT ![g] =
            [st |-> "run", f |-> f, db |-> table[g][c].db, query |-> table[g][q].query,
             param |-> table[g][q].param, scope |-> Scope(g, c), got |-> <<>>,
             before |-> IF table[g][q].query = "select" THEN Len(given[Scope(g, c)]) ELSE 0]]
  /\ UNCHANGED <<path, rows, table, given>>

Running(g) == call[g].st = "run"
Returned(g) == call' = [call EXCEPT ![g] = Idle]

\* CREATE TABLE fails when the table is there.
Create(g) ==
  LET d == call[g].db IN
  /\ call[g].query = "create" /\ rows[d] = NoTable
  /\ rows' = [rows EXCEPT ![d] = <<>>]
  /\ Returned(g)
  /\ UNCHANGED given

\* INSERT runs to its end under query as under exec.
Insert(g) ==
  LET d == call[g].db IN
  /\ call[g].query = "insert" /\ rows[d] # NoTable
  /\ Len(rows[d]) < MaxRows
  /\ rows' = [rows EXCEPT ![d] = Append(@, ToSql(call[g].param))]
  /\ given' = [given EXCEPT ![call[g].scope] = Append(@, call[g].param)]
  /\ Returned(g)

\* SELECT under query: the rows, in order, each field converted.
Select(g) ==
  LET d == call[g].db IN
  /\ call[g].query = "select" /\ call[g].f = "query" /\ rows[d] # NoTable
  /\ call' = [call EXCEPT ![g].st = "rows", ![g].got = [i \in DOMAIN rows[d] |-> FromSql(rows[d][i])]]
  /\ UNCHANGED <<rows, given>>

Execute(g) ==
  /\ Running(g)
  /\ Create(g) \/ Insert(g) \/ Select(g)
  /\ UNCHANGED <<path, table>>

\* What SQLite refuses: no such table, table exists, a SELECT under exec - or, on
\* a file, any statement because another process holds the lock.
Refused(g) ==
  \/ (call[g].query = "create") = (rows[call[g].db] # NoTable)
  \/ call[g].query = "select" /\ call[g].f = "exec"
  \/ OnFile

\* The error is pushed as a resource; with no room for it the guest traps.
Refuse(g) ==
  /\ Running(g) /\ Refused(g)
  /\ \E s \in Slots : Push(g, s, Error)
  /\ Returned(g)
  /\ UNCHANGED <<path, rows, given>>

NoRoomForError(g) ==
  /\ Running(g) /\ Refused(g)
  /\ \A s \in Slots : table[g][s] # Free
  /\ End(g)

\* The guest takes the rows.
Receive(g) ==
  /\ call[g].st = "rows"
  /\ Returned(g)
  /\ UNCHANGED <<path, rows, table, given>>

Next == \E g \in Guests :
  \/ Open(g) \/ Prepare(g) \/ Drop(g) \/ End(g) \/ Call(g) \/ Execute(g)
  \/ Refuse(g) \/ NoRoomForError(g) \/ Receive(g)

Spec == Init /\ [][Next]_vars

-----------------------------------------------------------------------------
(* Properties.                                                               *)

\* The variables keep their types.
TypeOK ==
  /\ path \in {":memory:", "file"}
  /\ rows \in [Databases -> {NoTable} \cup Seq([class: {"null", "integer", "real", "text", "blob"},
                                                val: UNION {{ToSql(p).val} : p \in Params}])]
  /\ \A g \in Guests, s \in Slots :
       table[g][s].kind \in {"free", "error", "connection", "statement"}
  /\ \A g \in Guests : call[g].st \in {"idle", "run", "rows"}

\* The rows a guest is answered with are the inserts its connection is to see,
\* each once and in order: all that were done when the query began, nothing nobody
\* inserted, and in memory nothing that went through another handle.  As JSON, a
\* value reads as it was given exactly when it survives the conversions.
RowsAsInserted ==
  \A g \in Guests :
    call[g].st = "rows" =>
      LET got == call[g].got
          due == given[call[g].scope] IN
      /\ Len(got) \in call[g].before..Len(due)
      /\ \A i \in DOMAIN got : (Json(got[i]) = Json(due[i])) <=> Survives(due[i])
=============================================================================
