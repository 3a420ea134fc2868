---------------------------- MODULE Stores_proofs ----------------------------
(***************************************************************************)
(* Proofs about Vault and Sql, by way of Stores, which instantiates both:   *)
(* for any instances, handles, lockers, secrets and parameters.             *)
(***************************************************************************)
EXTENDS Stores, SequenceTheorems, TLAPS

-----------------------------------------------------------------------------
(* Sql: values.                                                              *)

\* A row as it is stored, and a field as it comes back.
Stored == {Sql!ToSql(p) : p \in Params}
Fields == {Sql!FromSql(Sql!ToSql(p)) : p \in Params}

\* A parameter comes back as JSON as it was given exactly when it survives: not
\* booleans, not instants, and no u64 beyond i64.
LEMMA ValuesReadBack ==
  ASSUME NEW p \in Params
  PROVE  (Sql!Json(Sql!FromSql(Sql!ToSql(p))) = Sql!Json(p)) <=> Sql!Survives(p)
<1> DEFINE back == Sql!FromSql(Sql!ToSql(p))
<1>0. Sql!WellTyped(p) /\ Half \in Nat \ {0}
  BY StoresAssumption
<1>1. CASE p.val = None
  <2>1. back = [type |-> "str", val |-> None]
    BY <1>1 DEF Sql!ToSql, Sql!Null, Sql!Stored, Sql!FromSql, Sql!DataType
  <2> QED
    BY <1>1, <2>1 DEF Sql!Json, Sql!NoNumber, Sql!Survives
<1>2. CASE p.val # None /\ p.type \in Sql!Temporal
  <2>1. back = [type |-> "str", val |-> None]
    BY <1>2 DEF Sql!ToSql, Sql!Null, Sql!Stored, Sql!FromSql, Sql!DataType, Sql!Temporal, Sql!Integral
  <2>2. Sql!Json(back) = [json |-> "null"]
    BY <2>1 DEF Sql!Json
  <2>3. Sql!Json(p) = [json |-> "string", val |-> p.val]
    BY <1>2 DEF Sql!Json, Sql!NoNumber, Sql!Temporal, Sql!Integral
  <2>4. ~Sql!Survives(p)
    BY <1>2 DEF Sql!Survives
  <2>5. Sql!Json(back).json = "null" /\ Sql!Json(p).json = "string"
    BY <2>2, <2>3
  <2> QED
    BY <2>4, <2>5
<1>3. CASE p.val # None /\ p.type = "boolean"
  <2>1. back = [type |-> "int64", val |-> Sql!BooleanAsInt(p.val)]
    BY <1>3 DEF Sql!ToSql, Sql!Null, Sql!Stored, Sql!FromSql, Sql!DataType, Sql!Temporal, Sql!Integral
  <2>2. Sql!Json(back).json \in {"null", "number"}
    BY <2>1 DEF Sql!Json, Sql!NoNumber, Sql!Temporal, Sql!Integral
  <2>3. Sql!Json(p).json = "bool"
    BY <1>3 DEF Sql!Json, Sql!NoNumber, Sql!Temporal, Sql!Integral
  <2>4. ~Sql!Survives(p)
    BY <1>3 DEF Sql!Survives
  <2> QED
    BY <2>2, <2>3, <2>4
<1>4. CASE p.val # None /\ p.type \in Sql!Integral
  <2> DEFINE n == Sql!AsI64(p.val)
  <2>1. back = [type |-> "int64", val |-> n]
    BY <1>4 DEF Sql!ToSql, Sql!Null, Sql!Stored, Sql!FromSql, Sql!DataType, Sql!Temporal, Sql!Integral
  <2>2. Sql!Json(p) = [json |-> "number", val |-> p.val]
    BY <1>4 DEF Sql!Json, Sql!NoNumber, Sql!Temporal, Sql!Integral
  <2>3. p.val \in Int /\ (p.type # "uint64" => p.val < Half)
    BY <1>0, <1>4 DEF Sql!WellTyped
  <2>4. CASE p.val < Half
    <3>1. n = p.val /\ Sql!Survives(p)
      BY <1>0, <1>4, <2>3, <2>4 DEF Sql!AsI64, Sql!Survives, Sql!Integral, Sql!Temporal
    <3>2. Sql!Json(back) = [json |-> "number", val |-> n]
      BY <1>4, <2>1, <3>1 DEF Sql!Json, Sql!NoNumber, Sql!Temporal, Sql!Integral
    <3> QED
      BY <2>2, <3>1, <3>2
  <2>5. CASE ~(p.val < Half)
    <3>1. n # p.val /\ ~Sql!Survives(p)
      BY <1>0, <1>4, <2>3, <2>5 DEF Sql!AsI64, Sql!Survives, Sql!Integral, Sql!Temporal
    <3>2. Sql!Json(back) \in {[json |-> "null"], [json |-> "number", val |-> n]}
      <4> HIDE DEF n
      <4> QED
        BY <1>4, <2>1 DEF Sql!Json, Sql!NoNumber, Sql!Temporal, Sql!Integral
    <3>3. Sql!Json(back).json = "null" \/ Sql!Json(back).val = n
      BY <3>2
    <3>4. Sql!Json(p).json = "number" /\ Sql!Json(p).val = p.val
      BY <2>2
    <3> QED
      BY <3>1, <3>3, <3>4
  <2> QED
    BY <2>4, <2>5
<1>5. CASE p.val # None /\ p.type \in {"float", "double"}
  <2>1. back = [type |-> "double", val |-> p.val]
    BY <1>5 DEF Sql!ToSql, Sql!Null, Sql!Stored, Sql!FromSql, Sql!DataType, Sql!Temporal, Sql!Integral
  <2> QED
    BY <1>5, <2>1 DEF Sql!Json, Sql!NoNumber, Sql!Survives, Sql!Temporal, Sql!Integral
<1>6. CASE p.val # None /\ p.type = "str"
  <2>1. back = [type |-> "str", val |-> p.val]
    BY <1>6 DEF Sql!ToSql, Sql!Null, Sql!Stored, Sql!FromSql, Sql!DataType, Sql!Temporal, Sql!Integral
  <2> QED
    BY <1>6, <2>1 DEF Sql!Json, Sql!NoNumber, Sql!Survives, Sql!Temporal, Sql!Integral
<1>7. CASE p.val # None /\ p.type = "binary"
  <2>1. back = [type |-> "binary", val |-> p.val]
    BY <1>7 DEF Sql!ToSql, Sql!Null, Sql!Stored, Sql!FromSql, Sql!DataType, Sql!Temporal, Sql!Integral
  <2> QED
    BY <1>7, <2>1 DEF Sql!Json, Sql!NoNumber, Sql!Survives, Sql!Temporal, Sql!Integral
<1> QED
  BY <1>0, <1>1, <1>2, <1>3, <1>4, <1>5, <1>6, <1>7 DEF Sql!WellTyped

-----------------------------------------------------------------------------
(* Sql: the inductive invariant.                                             *)

SqlEntry == {Sql!Free, Sql!Error}
              \cup [kind: {"connection"}, db: Sql!Databases]
              \cup [kind: {"statement"}, query: Sql!Queries, param: Params]
SqlCall == [st: {"run", "rows"}, f: {"query", "exec"}, db: Sql!Databases, query: Sql!Queries,
            param: Params, scope: Sql!Databases, got: Seq(Fields), before: Nat]
SqlTypes ==
  /\ path \in {":memory:", "file"}
  /\ rows \in [Sql!Databases -> {NoTable} \cup Seq(Stored)]
  /\ table \in [Guests -> [Slots -> SqlEntry]]
  /\ call \in [Guests -> {Sql!Idle} \cup SqlCall]
  /\ given \in [Sql!Databases -> Seq(Params)]

\* A table holds the inserts done through the handles that see it, as SQLite has them.
TableInv(d) ==
  /\ rows[d] = NoTable => given[d] = <<>>
  /\ rows[d] # NoTable => /\ Len(rows[d]) = Len(given[d])
                          /\ \A i \in 1..Len(given[d]) : rows[d][i] = Sql!ToSql(given[d][i])
\* The connection in a slot is to the database of that slot.
HandleInv(g) ==
  \A s \in Slots : table[g][s].kind = "connection" => table[g][s].db = Sql!DatabaseOf(g, s)
\* A call runs on the database it is to see, one of its instance's; what it has got
\* are the first rows of it, no fewer than were there when it began.
SqlCallInv(g) ==
  call[g] # Sql!Idle =>
    LET c == call[g] IN
    /\ c.scope = c.db /\ \E s \in Slots : c.db = Sql!DatabaseOf(g, s)
    /\ c.before <= Len(given[c.scope])
    /\ c.st = "rows" =>
         /\ c.before <= Len(c.got) /\ Len(c.got) <= Len(given[c.scope])
         /\ \A i \in 1..Len(c.got) : c.got[i] = Sql!FromSql(Sql!ToSql(given[c.scope][i]))

SqlInv ==
  /\ SqlTypes
  /\ \A d \in Sql!Databases : TableInv(d)
  /\ \A g \in Guests : HandleInv(g) /\ SqlCallInv(g)

\* The inserts into a database are still there, and perhaps more.
Extends(d) ==
  /\ Len(given[d]) <= Len(given'[d])
  /\ \A i \in 1..Len(given[d]) : given'[d][i] = given[d][i]

\* Every handle sees a database of its own, or all see the one on file.
LEMMA DatabaseIsOwn ==
  ASSUME NEW g \in Guests, NEW s \in Slots
  PROVE  /\ Sql!DatabaseOf(g, s) \in Sql!Databases
         /\ \A h \in Guests : h # g => Sql!DatabaseOf(g, s) \notin {h} \X Slots
         /\ Sql!DatabaseOf(g, s) = Sql!Scope(g, s)
BY StoresAssumption DEF Sql!DatabaseOf, Sql!Databases, Sql!Shared, Sql!Scope

\* What is known of a call survives inserts.
LEMMA CallSurvives ==
  ASSUME SqlInv, SqlTypes', NEW h \in Guests, call'[h] = call[h], path' = path,
         \A s \in Slots : Extends(Sql!DatabaseOf(h, s))
  PROVE  SqlCallInv(h)'
<1> SUFFICES ASSUME call[h] # Sql!Idle PROVE SqlCallInv(h)'
  BY DEF SqlCallInv
<1> DEFINE c == call[h]
           d == c.scope
<1>1. c \in SqlCall
  BY DEF SqlInv, SqlTypes
<1>2. PICK s \in Slots : d = Sql!DatabaseOf(h, s) /\ c.db = d
  BY DEF SqlInv, SqlCallInv
<1>3. /\ c.before <= Len(given[d])
      /\ c.st = "rows" =>
           /\ c.before <= Len(c.got) /\ Len(c.got) <= Len(given[d])
           /\ \A i \in 1..Len(c.got) : c.got[i] = Sql!FromSql(Sql!ToSql(given[d][i]))
  BY DEF SqlInv, SqlCallInv
<1>4. d \in Sql!Databases /\ c.before \in Nat /\ c.got \in Seq(Fields)
  BY <1>1 DEF SqlCall
<1>5. Len(given[d]) \in Nat /\ Len(given'[d]) \in Nat /\ Len(c.got) \in Nat
  BY <1>4 DEF SqlInv, SqlTypes
<1>6. Len(given[d]) <= Len(given'[d]) /\ \A i \in 1..Len(given[d]) : given'[d][i] = given[d][i]
  BY <1>2 DEF Extends
<1>7. c.before <= Len(given'[d])
  BY <1>3, <1>4, <1>5, <1>6
<1>8. ASSUME c.st = "rows"
      PROVE  /\ c.before <= Len(c.got) /\ Len(c.got) <= Len(given'[d])
             /\ \A i \in 1..Len(c.got) : c.got[i] = Sql!FromSql(Sql!ToSql(given'[d][i]))
  <2>1. Len(c.got) <= Len(given'[d])
    BY <1>3, <1>5, <1>6, <1>8
  <2>2. \A i \in 1..Len(c.got) : i \in 1..Len(given[d])
    BY <1>3, <1>5, <1>8
  <2> QED
    BY <1>3, <1>6, <1>8, <2>1, <2>2
<1>9. \E x \in Slots : c.db = Sql!DatabaseOf(h, x)'
  BY <1>2 DEF Sql!DatabaseOf, Sql!OnFile, Sql!Shared
<1> QED
  BY <1>2, <1>7, <1>8, <1>9 DEF SqlCallInv

\* A step of instance g keeps the invariant if it keeps the types, the tables and
\* what is known of g, and takes no insert from the databases of the others.
LEMMA OneInstance ==
  ASSUME SqlInv, SqlTypes', NEW g \in Guests, path' = path,
         \A h \in Guests : h # g => call'[h] = call[h] /\ table'[h] = table[h],
         \A h \in Guests, s \in Slots : h # g => Extends(Sql!DatabaseOf(h, s)),
         \A d \in Sql!Databases : TableInv(d)',
         HandleInv(g)', SqlCallInv(g)'
  PROVE  SqlInv'
<1>1. ASSUME NEW h \in Guests, h # g PROVE HandleInv(h)' /\ SqlCallInv(h)'
  <2>1. SqlCallInv(h)'
    BY <1>1, CallSurvives
  <2>2. HandleInv(h)'
    BY <1>1 DEF SqlInv, HandleInv, Sql!DatabaseOf, Sql!OnFile, Sql!Shared
  <2> QED
    BY <2>1, <2>2
<1> QED
  BY <1>1 DEF SqlInv

\* As long as no insert is done, all databases are as they were.
LEMMA NoInsert ==
  ASSUME SqlInv, given' = given
  PROVE  \A g \in Guests, s \in Slots : Extends(Sql!DatabaseOf(g, s))
<1>1. \A d \in Sql!Databases : Len(given[d]) \in Nat
  BY DEF SqlInv, SqlTypes
<1> QED
  BY <1>1, DatabaseIsOwn DEF Extends

\* The tables stay as they are.
LEMMA SameTables ==
  ASSUME SqlInv, UNCHANGED <<rows, given>>
  PROVE  \A d \in Sql!Databases : TableInv(d)'
BY DEF SqlInv, TableInv

-----------------------------------------------------------------------------
(* Sql: every action keeps the invariant.                                    *)

\* A new entry of g's table.
LEMMA Pushes ==
  ASSUME SqlInv, NEW g \in Guests, NEW s \in Slots, NEW e \in SqlEntry,
         table' = [table EXCEPT ![g][s] = e], path' = path,
         e.kind = "connection" => e.db = Sql!DatabaseOf(g, s)
  PROVE  /\ table' \in [Guests -> [Slots -> SqlEntry]]
         /\ \A h \in Guests : h # g => table'[h] = table[h]
         /\ HandleInv(g)'
<1>1. table \in [Guests -> [Slots -> SqlEntry]]
  BY DEF SqlInv, SqlTypes
<1>2. table'[g] = [table[g] EXCEPT ![s] = e]
  BY <1>1
<1>3. ASSUME NEW x \in Slots, table'[g][x].kind = "connection"
      PROVE  table'[g][x].db = Sql!DatabaseOf(g, x)'
  <2>1. Sql!DatabaseOf(g, x)' = Sql!DatabaseOf(g, x)
    BY DEF Sql!DatabaseOf, Sql!OnFile, Sql!Shared
  <2>2. CASE x = s
    BY <1>1, <1>2, <1>3, <2>1, <2>2
  <2>3. CASE x # s
    BY <1>1, <1>2, <1>3, <2>1, <2>3 DEF SqlInv, HandleInv
  <2> QED
    BY <2>2, <2>3
<1> QED
  BY <1>1, <1>3 DEF HandleInv

\* Nothing but g's table changes: a handle is opened.
LEMMA NewHandle ==
  ASSUME SqlInv, NEW g \in Guests, NEW s \in Slots, NEW e \in SqlEntry,
         table' = [table EXCEPT ![g][s] = e],
         e.kind = "connection" => e.db = Sql!DatabaseOf(g, s),
         UNCHANGED <<path, rows, call, given>>
  PROVE  SqlInv'
<1>1. /\ table' \in [Guests -> [Slots -> SqlEntry]]
      /\ \A h \in Guests : h # g => table'[h] = table[h]
      /\ HandleInv(g)'
  BY Pushes
<1>2. SqlTypes'
  BY <1>1 DEF SqlInv, SqlTypes
<1>3. \A h \in Guests, x \in Slots : Extends(Sql!DatabaseOf(h, x))
  BY NoInsert
<1>4. SqlCallInv(g)'
  BY <1>2, <1>3, CallSurvives
<1>5. \A d \in Sql!Databases : TableInv(d)'
  BY SameTables
<1> QED
  BY <1>1, <1>2, <1>3, <1>4, <1>5, OneInstance

\* open and prepare.
LEMMA OpenKeeps ==
  ASSUME SqlInv, NEW g \in Guests, Sql!Open(g) \/ Sql!Prepare(g)
  PROVE  SqlInv'
<1>1. CASE Sql!Open(g)
  <2>1. PICK s \in Slots : Sql!Push(g, s, Sql!Connection(Sql!DatabaseOf(g, s))) \/ Sql!Push(g, s, Sql!Error)
    BY <1>1 DEF Sql!Open
  <2> DEFINE e == Sql!Connection(Sql!DatabaseOf(g, s))
  <2>2. e \in SqlEntry /\ e.kind = "connection" /\ e.db = Sql!DatabaseOf(g, s)
    BY DatabaseIsOwn DEF Sql!Connection, SqlEntry
  <2>3. Sql!Error \in SqlEntry /\ Sql!Error.kind # "connection"
    BY DEF Sql!Error, SqlEntry
  <2> HIDE DEF e
  <2>4. CASE table' = [table EXCEPT ![g][s] = e]
    BY <1>1, <2>2, <2>4, NewHandle DEF Sql!Open
  <2>5. CASE table' = [table EXCEPT ![g][s] = Sql!Error]
    BY <1>1, <2>3, <2>5, NewHandle DEF Sql!Open
  <2> QED
    BY <2>1, <2>4, <2>5 DEF Sql!Push, e
<1>2. CASE Sql!Prepare(g)
  <2>1. PICK s \in Slots, q \in Sql!Queries, p \in Params : Sql!Push(g, s, Sql!Statement(q, p))
    BY <1>2 DEF Sql!Prepare
  <2> DEFINE e == Sql!Statement(q, p)
  <2>2. e \in SqlEntry /\ e.kind # "connection"
    BY DEF Sql!Statement, SqlEntry
  <2>3. table' = [table EXCEPT ![g][s] = e]
    BY <2>1 DEF Sql!Push
  <2> HIDE DEF e
  <2> QED
    BY <1>2, <2>2, <2>3, NewHandle DEF Sql!Prepare
<1> QED
  BY <1>1, <1>2

\* Closing databases of g's own: those of the others stay, the tables stay true.
LEMMA Closes ==
  ASSUME SqlInv, NEW g \in Guests, NEW gone \in SUBSET ({g} \X Slots), Sql!Close(gone)
  PROVE  /\ rows' \in [Sql!Databases -> {NoTable} \cup Seq(Stored)]
         /\ given' \in [Sql!Databases -> Seq(Params)]
         /\ \A d \in Sql!Databases : TableInv(d)'
         /\ \A h \in Guests, s \in Slots : h # g => Extends(Sql!DatabaseOf(h, s))
<1>1. /\ rows \in [Sql!Databases -> {NoTable} \cup Seq(Stored)]
      /\ given \in [Sql!Databases -> Seq(Params)]
  BY DEF SqlInv, SqlTypes
<1>2. \A d \in Sql!Databases : /\ rows'[d] = IF d \in gone THEN NoTable ELSE rows[d]
                               /\ given'[d] = IF d \in gone THEN <<>> ELSE given[d]
  BY DEF Sql!Close
<1>3. <<>> \in Seq(Params)
  OBVIOUS
<1>4. /\ rows' \in [Sql!Databases -> {NoTable} \cup Seq(Stored)]
      /\ given' \in [Sql!Databases -> Seq(Params)]
  BY <1>1, <1>3 DEF Sql!Close
<1>5. \A d \in Sql!Databases : TableInv(d)'
  BY <1>2 DEF SqlInv, TableInv
<1>6. ASSUME NEW h \in Guests, NEW s \in Slots, h # g PROVE Extends(Sql!DatabaseOf(h, s))
  <2> DEFINE d == Sql!DatabaseOf(h, s)
  <2>1. d \in Sql!Databases /\ d \notin gone
    BY <1>6, DatabaseIsOwn
  <2>2. given'[d] = given[d] /\ Len(given[d]) \in Nat
    BY <1>1, <1>2, <2>1
  <2> HIDE DEF d
  <2>3. Extends(d)
    BY <2>2 DEF Extends
  <2> QED
    BY <2>3 DEF d
<1> QED
  BY <1>4, <1>5, <1>6

\* An idle instance has no call to know anything of.
LEMMA IdleKnows ==
  ASSUME NEW g \in Guests, call'[g] = Sql!Idle
  PROVE  SqlCallInv(g)'
BY DEF SqlCallInv, Sql!Idle

\* Dropping a handle.
LEMMA DropKeeps ==
  ASSUME SqlInv, NEW g \in Guests, Sql!Drop(g)
  PROVE  SqlInv'
<1>1. PICK s \in Slots :
        /\ table' = [table EXCEPT ![g][s] = Sql!Free]
        /\ Sql!Close(IF table[g][s].kind = "connection" THEN {<<g, s>>} ELSE {})
  BY DEF Sql!Drop
<1> DEFINE gone == IF table[g][s].kind = "connection" THEN {<<g, s>>} ELSE {}
<1>2. gone \in SUBSET ({g} \X Slots) /\ Sql!Close(gone)
  BY <1>1
<1> HIDE DEF gone
<1>3. /\ rows' \in [Sql!Databases -> {NoTable} \cup Seq(Stored)]
      /\ given' \in [Sql!Databases -> Seq(Params)]
      /\ \A d \in Sql!Databases : TableInv(d)'
      /\ \A h \in Guests, x \in Slots : h # g => Extends(Sql!DatabaseOf(h, x))
  BY <1>2, Closes
<1>4. Sql!Free \in SqlEntry /\ Sql!Free.kind # "connection"
  BY DEF SqlEntry, Sql!Free
<1>5. /\ table' \in [Guests -> [Slots -> SqlEntry]]
      /\ \A h \in Guests : h # g => table'[h] = table[h]
      /\ HandleInv(g)'
  BY <1>1, <1>4, Pushes DEF Sql!Drop
<1>6. SqlTypes'
  BY <1>3, <1>5 DEF SqlInv, SqlTypes, Sql!Drop
<1>7. SqlCallInv(g)' /\ path' = path /\ call' = call
  BY IdleKnows DEF Sql!Drop
<1> QED
  BY <1>3, <1>5, <1>6, <1>7, OneInstance

\* The instance ends, and its databases in memory with it.
LEMMA EndKeeps ==
  ASSUME SqlInv, NEW g \in Guests, Sql!End(g)
  PROVE  SqlInv'
<1>1. /\ rows' \in [Sql!Databases -> {NoTable} \cup Seq(Stored)]
      /\ given' \in [Sql!Databases -> Seq(Params)]
      /\ \A d \in Sql!Databases : TableInv(d)'
      /\ \A h \in Guests, x \in Slots : h # g => Extends(Sql!DatabaseOf(h, x))
  BY Closes DEF Sql!End
<1>2. /\ table' \in [Guests -> [Slots -> SqlEntry]]
      /\ table'[g] = [s \in Slots |-> Sql!Free]
      /\ \A h \in Guests : h # g => table'[h] = table[h]
  BY DEF SqlInv, SqlTypes, SqlEntry, Sql!End
<1>3. /\ call' \in [Guests -> {Sql!Idle} \cup SqlCall] /\ call'[g] = Sql!Idle
      /\ \A h \in Guests : h # g => call'[h] = call[h]
  BY DEF SqlInv, SqlTypes, Sql!End
<1>4. SqlTypes' /\ path' = path
  BY <1>1, <1>2, <1>3 DEF SqlInv, SqlTypes, Sql!End
<1>5. HandleInv(g)' /\ SqlCallInv(g)'
  BY <1>2, <1>3, IdleKnows DEF HandleInv, Sql!Free
<1> QED
  BY <1>1, <1>2, <1>3, <1>4, <1>5, OneInstance

\* The call of g alone changes, and no table does.
LEMMA OneCall ==
  ASSUME SqlInv, NEW g \in Guests, NEW c \in {Sql!Idle} \cup SqlCall,
         call' = [call EXCEPT ![g] = c], UNCHANGED <<path, rows, table, given>>,
         SqlCallInv(g)'
  PROVE  SqlInv'
<1>1. /\ call' \in [Guests -> {Sql!Idle} \cup SqlCall]
      /\ \A h \in Guests : h # g => call'[h] = call[h] /\ table'[h] = table[h]
  BY DEF SqlInv, SqlTypes
<1>2. SqlTypes'
  BY <1>1 DEF SqlInv, SqlTypes
<1>3. HandleInv(g)'
  BY DEF SqlInv, HandleInv, Sql!DatabaseOf, Sql!OnFile, Sql!Shared
<1>4. \A h \in Guests, x \in Slots : Extends(Sql!DatabaseOf(h, x))
  BY NoInsert
<1>5. \A d \in Sql!Databases : TableInv(d)'
  BY SameTables
<1> QED
  BY <1>1, <1>2, <1>3, <1>4, <1>5, OneInstance

\* A call begins on the database of its connection's slot.
LEMMA CallKeeps ==
  ASSUME SqlInv, NEW g \in Guests, Sql!Call(g)
  PROVE  SqlInv'
<1>1. PICK f \in {"query", "exec"}, c \in Slots, q \in Slots :
        /\ table[g][c].kind = "connection" /\ table[g][q].kind = "statement"
        /\ call' = [call EXCEPT ![g] =
             [st |-> "run", f |-> f, db |-> table[g][c].db, query |-> table[g][q].query,
              param |-> table[g][q].param, scope |-> Sql!Scope(g, c), got |-> <<>>,
              before |-> IF table[g][q].query = "select" THEN Len(given[Sql!Scope(g, c)]) ELSE 0]]
  BY DEF Sql!Call
<1> DEFINE d == Sql!DatabaseOf(g, c)
           n == IF table[g][q].query = "select" THEN Len(given[d]) ELSE 0
           new == [st |-> "run", f |-> f, db |-> d, query |-> table[g][q].query,
                   param |-> table[g][q].param, scope |-> d, got |-> <<>>, before |-> n]
<1>2. table[g][c].db = d /\ Sql!Scope(g, c) = d /\ d \in Sql!Databases
  BY <1>1, DatabaseIsOwn DEF SqlInv, HandleInv
<1>3. call' = [call EXCEPT ![g] = new]
  BY <1>1, <1>2
<1>4. table[g][q].query \in Sql!Queries /\ table[g][q].param \in Params
  <2>1. table[g][q] \in SqlEntry
    BY DEF SqlInv, SqlTypes
  <2> QED
    BY <1>1, <2>1 DEF SqlEntry, Sql!Free, Sql!Error
<1>5. n \in Nat /\ n <= Len(given[d])
  BY <1>2 DEF SqlInv, SqlTypes
<1>6. new \in SqlCall
  <2> HIDE DEF n, d
  <2> QED
    BY <1>2, <1>4, <1>5 DEF SqlCall
<1>7. call'[g] = new
  BY <1>3 DEF SqlInv, SqlTypes
<1>8. given' = given /\ UNCHANGED <<path, rows, table, given>>
  BY DEF Sql!Call
<1>9. SqlCallInv(g)'
  <2>1. d = Sql!DatabaseOf(g, c)'
    BY <1>8 DEF Sql!DatabaseOf, Sql!OnFile, Sql!Shared
  <2>2. /\ new.scope = d /\ new.db = d /\ new.before = n /\ new.st = "run"
    OBVIOUS
  <2> HIDE DEF d, n, new
  <2> QED
    BY <1>5, <1>7, <1>8, <2>1, <2>2 DEF SqlCallInv
<1> HIDE DEF new
<1> QED
  BY <1>3, <1>6, <1>8, <1>9, OneCall

\* What is known of a call of g.
LEMMA Calling ==
  ASSUME SqlInv, NEW g \in Guests, call[g].st \in {"run", "rows"}
  PROVE  /\ call[g] \in SqlCall /\ call[g] # Sql!Idle
         /\ call[g].scope = call[g].db /\ call[g].db \in Sql!Databases
         /\ \E s \in Slots : call[g].db = Sql!DatabaseOf(g, s)
         /\ call[g].before \in Nat /\ call[g].before <= Len(given[call[g].db])
         /\ call[g].param \in Params
<1>1. call[g] \in SqlCall /\ call[g] # Sql!Idle
  BY DEF SqlInv, SqlTypes, Sql!Idle
<1> QED
  BY <1>1 DEF SqlInv, SqlCallInv, SqlCall

\* A call that returns without a change: refused, or its rows taken.
LEMMA ReturnKeeps ==
  ASSUME SqlInv, NEW g \in Guests, Sql!Receive(g)
  PROVE  SqlInv'
<1> DEFINE new == Sql!Idle
<1>1. call' = [call EXCEPT ![g] = new] /\ UNCHANGED <<path, rows, table, given>>
  BY DEF Sql!Receive, Sql!Returned
<1>2. SqlCallInv(g)'
  BY <1>1, IdleKnows DEF SqlInv, SqlTypes
<1>3. new \in {Sql!Idle} \cup SqlCall
  OBVIOUS
<1> HIDE DEF new
<1> QED
  BY <1>1, <1>2, <1>3, OneCall

\* A refusal: the error's handle, and the call is over.
LEMMA RefuseKeeps ==
  ASSUME SqlInv, NEW g \in Guests, Sql!Refuse(g)
  PROVE  SqlInv'
<1>1. PICK s \in Slots : table' = [table EXCEPT ![g][s] = Sql!Error]
  BY DEF Sql!Refuse, Sql!Push
<1>2. Sql!Error \in SqlEntry /\ Sql!Error.kind # "connection"
  BY DEF Sql!Error, SqlEntry
<1>3. /\ table' \in [Guests -> [Slots -> SqlEntry]]
      /\ \A h \in Guests : h # g => table'[h] = table[h]
      /\ HandleInv(g)'
  BY <1>1, <1>2, Pushes DEF Sql!Refuse
<1>4. /\ call' \in [Guests -> {Sql!Idle} \cup SqlCall] /\ call'[g] = Sql!Idle
      /\ \A h \in Guests : h # g => call'[h] = call[h]
  BY DEF SqlInv, SqlTypes, Sql!Refuse, Sql!Returned
<1>5. SqlTypes' /\ path' = path /\ SqlCallInv(g)'
  BY <1>3, <1>4, IdleKnows DEF SqlInv, SqlTypes, Sql!Refuse
<1>6. \A h \in Guests, x \in Slots : Extends(Sql!DatabaseOf(h, x))
  BY NoInsert DEF Sql!Refuse
<1>7. \A d \in Sql!Databases : TableInv(d)'
  BY SameTables DEF Sql!Refuse
<1> QED
  BY <1>3, <1>4, <1>5, <1>6, <1>7, OneInstance

\* Statements that write: the database of the call changes, and the call is over.
LEMMA Writes ==
  ASSUME SqlInv, NEW g \in Guests, Sql!Running(g), NEW d, d = call[g].db,
         NEW r \in Seq(Stored), rows' = [rows EXCEPT ![d] = r],
         NEW s \in Seq(Params), given' = [given EXCEPT ![d] = s],
         Len(r) = Len(s), \A i \in 1..Len(s) : r[i] = Sql!ToSql(s[i]),
         Len(given[d]) <= Len(s), \A i \in 1..Len(given[d]) : s[i] = given[d][i],
         Sql!Returned(g), UNCHANGED <<path, table>>
  PROVE  SqlInv'
<1>1. d \in Sql!Databases
  BY Calling DEF Sql!Running
<1>2. /\ rows \in [Sql!Databases -> {NoTable} \cup Seq(Stored)]
      /\ given \in [Sql!Databases -> Seq(Params)]
  BY DEF SqlInv, SqlTypes
<1>3. /\ call' \in [Guests -> {Sql!Idle} \cup SqlCall] /\ call'[g] = Sql!Idle
      /\ \A h \in Guests : h # g => call'[h] = call[h] /\ table'[h] = table[h]
  BY DEF SqlInv, SqlTypes, Sql!Returned
<1>4. SqlTypes'
  BY <1>2, <1>3 DEF SqlInv, SqlTypes
<1>5. ASSUME NEW e \in Sql!Databases PROVE TableInv(e)'
  <2>1. CASE e = d
    <3>1. rows'[d] = r /\ given'[d] = s
      BY <1>1, <1>2
    <3>2. r # NoTable
      BY StoresAssumption DEF Stored
    <3> QED
      BY <2>1, <3>1, <3>2 DEF TableInv
  <2>2. CASE e # d
    <3>1. rows'[e] = rows[e] /\ given'[e] = given[e]
      BY <1>2, <2>2
    <3> QED
      BY <3>1 DEF SqlInv, TableInv
  <2> QED
    BY <2>1, <2>2
<1>6. \A e \in Sql!Databases : Extends(e)
  <2>1. \A e \in Sql!Databases : given'[e] = IF e = d THEN s ELSE given[e]
    BY <1>2
  <2>2. \A e \in Sql!Databases : Len(given[e]) \in Nat
    BY <1>2
  <2> QED
    BY <2>1, <2>2 DEF Extends
<1>7. \A h \in Guests, x \in Slots : Extends(Sql!DatabaseOf(h, x))
  BY <1>6, DatabaseIsOwn
<1>8. HandleInv(g)' /\ SqlCallInv(g)'
  BY <1>3, IdleKnows DEF SqlInv, HandleInv, Sql!DatabaseOf, Sql!OnFile, Sql!Shared
<1> QED
  BY <1>3, <1>4, <1>5, <1>7, <1>8, OneInstance

\* A table is created where none was: it holds no row, as no insert was done.
LEMMA CreateKeeps ==
  ASSUME SqlInv, NEW g \in Guests, Sql!Execute(g), Sql!Create(g)
  PROVE  SqlInv'
<1> DEFINE d == call[g].db
           r == <<>>
           s == <<>>
<1>1. /\ Sql!Running(g) /\ Sql!Returned(g) /\ UNCHANGED <<path, table>>
      /\ rows' = [rows EXCEPT ![d] = r]
  BY DEF Sql!Execute, Sql!Create
<1>2. d \in Sql!Databases
  BY <1>1, Calling DEF Sql!Running
<1>3. given[d] = s /\ given' = [given EXCEPT ![d] = s]
  BY <1>2 DEF SqlInv, TableInv, SqlTypes, Sql!Create
<1>4. /\ r \in Seq(Stored) /\ s \in Seq(Params) /\ Len(r) = Len(s)
      /\ \A i \in 1..Len(s) : r[i] = Sql!ToSql(s[i])
      /\ Len(given[d]) <= Len(s) /\ \A i \in 1..Len(given[d]) : s[i] = given[d][i]
  BY <1>3
<1> HIDE DEF r, s, d
<1> QED
  BY <1>1, <1>3, <1>4, Writes DEF d

\* A sequence with one element more.
LEMMA LongerByOne ==
  ASSUME NEW S, NEW x \in Seq(S), NEW e \in S
  PROVE  /\ Append(x, e) \in Seq(S) /\ Len(x) \in Nat /\ Len(Append(x, e)) = Len(x) + 1
         /\ \A i \in 1..Len(x) : Append(x, e)[i] = x[i]
         /\ Append(x, e)[Len(x) + 1] = e
OBVIOUS

\* A row is inserted: in the table and in the history of the database it goes to.
LEMMA InsertKeeps ==
  ASSUME SqlInv, NEW g \in Guests, Sql!Execute(g), Sql!Insert(g)
  PROVE  SqlInv'
<1> DEFINE d == call[g].db
           p == call[g].param
           r == Append(rows[d], Sql!ToSql(p))
           s == Append(given[d], p)
<1>1. /\ Sql!Running(g) /\ Sql!Returned(g) /\ UNCHANGED <<path, table>>
      /\ rows' = [rows EXCEPT ![d] = r] /\ rows[d] # NoTable
  BY DEF Sql!Execute, Sql!Insert
<1>2. d \in Sql!Databases /\ call[g].scope = d /\ p \in Params
  BY <1>1, Calling DEF Sql!Running
<1>3. given' = [given EXCEPT ![d] = s]
  BY <1>2 DEF Sql!Insert
<1>4. /\ rows[d] \in Seq(Stored) /\ given[d] \in Seq(Params) /\ Sql!ToSql(p) \in Stored
      /\ Len(rows[d]) = Len(given[d])
      /\ \A i \in 1..Len(given[d]) : rows[d][i] = Sql!ToSql(given[d][i])
  BY <1>1, <1>2 DEF SqlInv, SqlTypes, TableInv, Stored
<1>5. /\ r \in Seq(Stored) /\ Len(r) = Len(rows[d]) + 1 /\ r[Len(rows[d]) + 1] = Sql!ToSql(p)
      /\ \A i \in 1..Len(rows[d]) : r[i] = rows[d][i]
  <2> DEFINE q == Sql!ToSql(p)
  <2>1. q \in Stored /\ rows[d] \in Seq(Stored) /\ r = Append(rows[d], q)
    BY <1>4
  <2> HIDE DEF q, r, d
  <2> QED
    BY <2>1, LongerByOne DEF q
<1>6. /\ s \in Seq(Params) /\ Len(s) = Len(given[d]) + 1 /\ s[Len(given[d]) + 1] = p
      /\ Len(given[d]) \in Nat /\ \A i \in 1..Len(given[d]) : s[i] = given[d][i]
  BY <1>2, <1>4, LongerByOne
<1> HIDE DEF r, s, d, p
<1>7. /\ Len(r) = Len(s) /\ Len(given[d]) <= Len(s)
      /\ \A i \in 1..Len(s) : r[i] = Sql!ToSql(s[i])
  <2>1. ASSUME NEW i \in 1..Len(s) PROVE r[i] = Sql!ToSql(s[i])
    <3>1. i = Len(given[d]) + 1 \/ i \in 1..Len(given[d])
      BY <1>6
    <3> QED
      BY <1>4, <1>5, <1>6, <3>1
  <2> QED
    BY <1>4, <1>5, <1>6, <2>1
<1> QED
  BY <1>1, <1>3, <1>5, <1>6, <1>7, Writes DEF d

\* The rows of a table as fields.
FieldsOf(r) == [i \in DOMAIN r |-> Sql!FromSql(r[i])]

\* A query finds the rows of its database, each converted.
LEMMA SelectKeeps ==
  ASSUME SqlInv, NEW g \in Guests, Sql!Execute(g), Sql!Select(g)
  PROVE  SqlInv'
<1> DEFINE c == call[g]
           d == call[g].db
           got == FieldsOf(rows[d])
           new == [call[g] EXCEPT !.st = "rows", !.got = got]
<1>1. /\ Sql!Running(g) /\ rows[d] # NoTable /\ UNCHANGED <<path, rows, table, given>>
      /\ call' = [call EXCEPT ![g].st = "rows", ![g].got = got]
  BY DEF Sql!Execute, Sql!Select, FieldsOf
<1>2. /\ c \in SqlCall /\ d \in Sql!Databases /\ c.scope = d
      /\ c.before \in Nat /\ c.before <= Len(given[d])
  BY <1>1, Calling DEF Sql!Running
<1>3. /\ rows[d] \in Seq(Stored) /\ given[d] \in Seq(Params) /\ Len(rows[d]) = Len(given[d])
      /\ \A i \in 1..Len(given[d]) : rows[d][i] = Sql!ToSql(given[d][i])
  BY <1>1, <1>2 DEF SqlInv, SqlTypes, TableInv
<1>4. /\ got \in Seq(Fields) /\ Len(got) = Len(given[d])
      /\ \A i \in 1..Len(got) : got[i] = Sql!FromSql(Sql!ToSql(given[d][i]))
  <2>1. got = [i \in 1..Len(given[d]) |-> Sql!FromSql(Sql!ToSql(given[d][i]))]
    BY <1>3 DEF FieldsOf
  <2>2. got \in [1..Len(given[d]) -> Fields]
    BY <1>3, <2>1 DEF Fields
  <2> HIDE DEF got
  <2>3. got \in Seq(Fields) /\ Len(got) = Len(given[d])
    BY <1>3, <2>2
  <2> QED
    BY <2>1, <2>3
<1> HIDE DEF got
<1>5. /\ new \in SqlCall /\ new.st = "rows" /\ new.got = got /\ new.db = d /\ new.scope = d
      /\ new.before = c.before
  BY <1>2, <1>4 DEF SqlCall
<1>6. call' = [call EXCEPT ![g] = new] /\ call'[g] = new
  BY <1>1 DEF SqlInv, SqlTypes
<1> HIDE DEF new
<1>7. SqlCallInv(g)'
  <2>1. PICK s \in Slots : d = Sql!DatabaseOf(g, s)
    BY <1>1, Calling DEF Sql!Running
  <2>2. d = Sql!DatabaseOf(g, s)'
    BY <1>1, <2>1 DEF Sql!DatabaseOf, Sql!OnFile, Sql!Shared
  <2>3. Len(got) <= Len(given[d])
    BY <1>3, <1>4
  <2> HIDE DEF d
  <2> QED
    BY <1>1, <1>2, <1>4, <1>5, <1>6, <2>2, <2>3 DEF SqlCallInv
<1> QED
  BY <1>1, <1>5, <1>6, <1>7, OneCall

\* At the start no table is there and nothing was inserted.
LEMMA SqlStarts == Sql!Init => SqlInv
<1> SUFFICES ASSUME Sql!Init PROVE SqlInv
  OBVIOUS
<1>1. SqlTypes
  BY DEF Sql!Init, SqlTypes, SqlEntry
<1>2. \A d \in Sql!Databases : TableInv(d)
  BY DEF Sql!Init, TableInv
<1>3. \A g \in Guests : HandleInv(g) /\ SqlCallInv(g)
  BY DEF Sql!Init, HandleInv, SqlCallInv, Sql!Free, Sql!Idle
<1> QED
  BY <1>1, <1>2, <1>3 DEF SqlInv

\* Every step of the SQL host keeps the invariant.
LEMMA SqlKeeps == SqlInv /\ Sql!Next => SqlInv'
<1> SUFFICES ASSUME SqlInv, NEW g \in Guests,
                    \/ Sql!Open(g) \/ Sql!Prepare(g) \/ Sql!Drop(g) \/ Sql!End(g) \/ Sql!Call(g)
                    \/ Sql!Execute(g) \/ Sql!Refuse(g) \/ Sql!NoRoomForError(g) \/ Sql!Receive(g)
             PROVE  SqlInv'
  BY DEF Sql!Next
<1>1. CASE Sql!Open(g) \/ Sql!Prepare(g)
  BY <1>1, OpenKeeps
<1>2. CASE Sql!Drop(g)
  BY <1>2, DropKeeps
<1>3. CASE Sql!End(g) \/ Sql!NoRoomForError(g)
  BY <1>3, EndKeeps DEF Sql!NoRoomForError
<1>4. CASE Sql!Call(g)
  BY <1>4, CallKeeps
<1>5. CASE Sql!Execute(g)
  BY <1>5, CreateKeeps, InsertKeeps, SelectKeeps DEF Sql!Execute
<1>6. CASE Sql!Refuse(g)
  BY <1>6, RefuseKeeps
<1>7. CASE Sql!Receive(g)
  BY <1>7, ReturnKeeps
<1> QED
  BY <1>1, <1>2, <1>3, <1>4, <1>5, <1>6, <1>7

\* A vault beside it changes nothing of what is known of SQL.
LEMMA SqlStays == SqlInv /\ UNCHANGED sqlVars => SqlInv'
<1> SUFFICES ASSUME SqlInv, UNCHANGED sqlVars PROVE SqlInv'
  OBVIOUS
<1>1. UNCHANGED <<path, rows, table, call, given>>
  BY DEF sqlVars
<1>2. SqlTypes' /\ \A d \in Sql!Databases : TableInv(d)'
  BY <1>1 DEF SqlInv, SqlTypes, TableInv
<1>3. \A g \in Guests : HandleInv(g)' /\ SqlCallInv(g)'
  BY <1>1 DEF SqlInv, HandleInv, SqlCallInv, Sql!DatabaseOf, Sql!OnFile, Sql!Shared
<1> QED
  BY <1>2, <1>3 DEF SqlInv

\* A query is answered with the inserts its connection is to see, each once, in
\* order and none left out that was there when it began; a value reads as it was
\* given exactly when it survives the conversions.
THEOREM SqlReadsAsInserted == Spec => []SqlRowsAsInserted
<1>1. Init => SqlInv
  BY SqlStarts DEF Init
<1>2. SqlInv /\ [Next]_vars => SqlInv'
  BY SqlKeeps, SqlStays DEF Next, vars, sqlVars
<1>3. SqlInv => SqlRowsAsInserted
  <2> SUFFICES ASSUME SqlInv, NEW g \in Guests, call[g].st = "rows"
               PROVE  LET got == call[g].got
                          due == given[call[g].scope] IN
                      /\ Len(got) \in call[g].before..Len(due)
                      /\ \A i \in DOMAIN got :
                           (Sql!Json(got[i]) = Sql!Json(due[i])) <=> Sql!Survives(due[i])
    BY DEF SqlRowsAsInserted, Sql!RowsAsInserted
  <2> DEFINE got == call[g].got
             due == given[call[g].scope]
  <2>1. /\ call[g] \in SqlCall /\ call[g] # Sql!Idle /\ call[g].before \in Nat
        /\ call[g].scope \in Sql!Databases
    BY Calling
  <2>2. got \in Seq(Fields) /\ due \in Seq(Params)
    BY <2>1 DEF SqlCall, SqlInv, SqlTypes
  <2>3. /\ call[g].before <= Len(got) /\ Len(got) <= Len(due)
        /\ \A i \in 1..Len(got) : got[i] = Sql!FromSql(Sql!ToSql(due[i]))
    BY <2>1 DEF SqlInv, SqlCallInv
  <2>4. Len(got) \in call[g].before..Len(due)
    BY <2>1, <2>2, <2>3
  <2>5. ASSUME NEW i \in DOMAIN got
        PROVE  (Sql!Json(got[i]) = Sql!Json(due[i])) <=> Sql!Survives(due[i])
    <3>1. i \in 1..Len(got) /\ i \in 1..Len(due)
      BY <2>2, <2>3
    <3>2. due[i] \in Params /\ got[i] = Sql!FromSql(Sql!ToSql(due[i]))
      BY <2>2, <2>3, <3>1
    <3> QED
      BY <3>2, ValuesReadBack
  <2> QED
    BY <2>4, <2>5
<1> QED
  BY <1>1, <1>2, <1>3, PTL DEF Spec

-----------------------------------------------------------------------------
(* Vault: the inductive invariant.                                           *)

Items == [key: Secrets, val: Values \cup {Missing}]
Ops == Vault!Readers \cup Vault!Writers \cup {"list_keys"}
VaultCall == [st: {"run", "ok", "err"}, op: Ops, bucket: Lockers, args: Seq(Items),
              done: SUBSET {1}, got: SUBSET Items]

\* A call under way has one item, or is a listing; before its await it has nothing.
VaultCallInv(g) ==
  task[g].st = "run" =>
    /\ task[g].op # "list_keys" => Len(task[g].args) = 1
    /\ task[g].done = {} => task[g].got = {}

VaultInv == Vault!TypeOK /\ \A g \in Guests : VaultCallInv(g)

\* What the type invariant says of one call.
LEMMA VaultTask ==
  ASSUME VaultInv
  PROVE  /\ task \in [Guests -> {Vault!Idle} \cup VaultCall]
         /\ \A g \in Guests : task[g].st \in {"run", "ok", "err"} =>
              /\ task[g] \in VaultCall /\ task[g].bucket \in Lockers
              /\ task[g].args \in Seq(Items) /\ task[g].got \in SUBSET Items
<1>1. task \in [Guests -> {Vault!Idle} \cup VaultCall]
  BY DEF VaultInv, Vault!TypeOK, VaultCall, Items, Ops
<1>2. \A g \in Guests : task[g].st \in {"run", "ok", "err"} => task[g] \in VaultCall
  BY <1>1 DEF Vault!Idle
<1> QED
  BY <1>1, <1>2 DEF VaultCall

\* The await of a call other than a listing is about its one item.
LEMMA OneItem ==
  ASSUME VaultInv, NEW g \in Guests, NEW ops, Vault!Awaiting(g, ops), "list_keys" \notin ops
  PROVE  /\ task[g].args[1] \in Items /\ Vault!Secret(g) \in Secrets
         /\ 1 \in DOMAIN task[g].args /\ task[g].done = {} /\ task[g].got = {}
         /\ task[g].st = "run" /\ task[g] \in VaultCall
<1>1. task[g].st = "run" /\ task[g].done = {} /\ task[g].op # "list_keys"
  BY DEF Vault!Awaiting
<1>2. task[g] \in VaultCall /\ task[g].args \in Seq(Items)
  BY <1>1, VaultTask
<1>3. Len(task[g].args) = 1 /\ task[g].got = {}
  BY <1>1 DEF VaultInv, VaultCallInv
<1>4. 1 \in DOMAIN task[g].args /\ task[g].args[1] \in Items
  BY <1>2, <1>3
<1>5. Vault!Secret(g) \in Secrets
  BY <1>4 DEF Vault!Secret, Items
<1> QED
  BY <1>1, <1>2, <1>3, <1>4, <1>5

\* A step of g that keeps the types and what is known of g's call keeps it all.
LEMMA OneVaultCall ==
  ASSUME VaultInv, NEW g \in Guests, NEW c \in {Vault!Idle} \cup VaultCall,
         task' = [task EXCEPT ![g] = c],
         store' \in [Lockers -> [Secrets -> Values \cup {Missing}]],
         lockers' \in [Guests -> [Entries -> Lockers \cup {Vault!Free}]],
         VaultCallInv(g)'
  PROVE  VaultInv'
<1>1. task \in [Guests -> {Vault!Idle} \cup VaultCall]
  BY VaultTask
<1>2. task' \in [Guests -> {Vault!Idle} \cup VaultCall]
  BY <1>1
<1>3. Vault!TypeOK'
  BY <1>2 DEF Vault!TypeOK, VaultCall, Items, Ops
<1>4. \A h \in Guests : h # g => task'[h] = task[h]
  BY <1>1
<1>5. \A h \in Guests : VaultCallInv(h)'
  BY <1>4 DEF VaultInv, VaultCallInv
<1> QED
  BY <1>3, <1>5 DEF VaultInv

\* The answer to a call's await.
LEMMA VaultAnswers ==
  ASSUME VaultInv, NEW g \in Guests, task[g].st = "run", NEW found \in SUBSET Items,
         Vault!Answered(g, found)
  PROVE  /\ task' \in [Guests -> {Vault!Idle} \cup VaultCall]
         /\ task'[g].st = "run" /\ task'[g].done = {1} /\ task'[g].args = task[g].args
         /\ task'[g].op = task[g].op
         /\ \E c \in VaultCall : task' = [task EXCEPT ![g] = c]
<1> DEFINE c == [task[g] EXCEPT !.done = {1}, !.got = found]
<1>1. task \in [Guests -> {Vault!Idle} \cup VaultCall] /\ task[g] \in VaultCall
  BY VaultTask
<1>2. /\ c \in VaultCall /\ c.st = "run" /\ c.done = {1} /\ c.args = task[g].args
      /\ c.op = task[g].op
  BY <1>1 DEF VaultCall
<1>3. task' = [task EXCEPT ![g] = c]
  BY DEF Vault!Answered
<1> HIDE DEF c
<1> QED
  BY <1>1, <1>2, <1>3

\* An await that is answered keeps the invariant.
LEMMA AnswerKeeps ==
  ASSUME VaultInv, NEW g \in Guests, task[g].st = "run", NEW found \in SUBSET Items,
         Vault!Answered(g, found), UNCHANGED lockers,
         store' \in [Lockers -> [Secrets -> Values \cup {Missing}]]
  PROVE  VaultInv'
<1>1. /\ task'[g].st = "run" /\ task'[g].done = {1} /\ task'[g].args = task[g].args
      /\ task'[g].op = task[g].op
  BY VaultAnswers
<1>2. PICK c \in VaultCall : task' = [task EXCEPT ![g] = c]
  BY VaultAnswers
<1>3. VaultCallInv(g)'
  BY <1>1 DEF VaultInv, VaultCallInv
<1>4. lockers' \in [Guests -> [Entries -> Lockers \cup {Vault!Free}]]
  BY DEF VaultInv, Vault!TypeOK
<1> QED
  BY <1>2, <1>3, <1>4, OneVaultCall

\* A call that is over knows nothing that could change.
LEMMA OverKeeps ==
  ASSUME VaultInv, NEW g \in Guests, NEW c \in {Vault!Idle} \cup VaultCall, c.st # "run",
         task' = [task EXCEPT ![g] = c], UNCHANGED store,
         lockers' \in [Guests -> [Entries -> Lockers \cup {Vault!Free}]]
  PROVE  VaultInv'
<1>1. task'[g] = c
  BY VaultTask
<1>2. VaultCallInv(g)'
  BY <1>1 DEF VaultCallInv
<1>3. store' \in [Lockers -> [Secrets -> Values \cup {Missing}]]
  BY DEF VaultInv, Vault!TypeOK
<1> QED
  BY <1>2, <1>3, OneVaultCall

\* Handles come and go without touching calls or secrets.
LEMMA HandlesKeep ==
  ASSUME VaultInv, UNCHANGED <<store, task>>,
         lockers' \in [Guests -> [Entries -> Lockers \cup {Vault!Free}]]
  PROVE  VaultInv'
<1>1. Vault!TypeOK'
  BY DEF VaultInv, Vault!TypeOK
<1>2. \A g \in Guests : VaultCallInv(g)'
  BY DEF VaultInv, VaultCallInv
<1> QED
  BY <1>1, <1>2 DEF VaultInv

-----------------------------------------------------------------------------
(* Vault: every action keeps the invariant and the contract.                 *)

\* A read, of one secret of the locker the handle named.
LEMMA GetReads ==
  ASSUME VaultInv, NEW g \in Guests, Vault!Get(g)
  PROVE  VaultInv' /\ Vault!Contract!Read(g)
<1> DEFINE k == Vault!Secret(g)
           v == store[task[g].bucket][k]
           found == {[key |-> k, val |-> v]}
<1>1. /\ Vault!Awaiting(g, Vault!Readers) /\ Vault!Answered(g, found)
      /\ UNCHANGED <<store, lockers>>
  BY DEF Vault!Get
<1>2. /\ k \in Secrets /\ 1 \in DOMAIN task[g].args /\ task[g].done = {} /\ task[g].got = {}
      /\ task[g].st = "run" /\ task[g] \in VaultCall
  BY <1>1, OneItem DEF Vault!Readers
<1>3. store \in [Lockers -> [Secrets -> Values \cup {Missing}]]
  BY DEF VaultInv, Vault!TypeOK
<1>4. found \in SUBSET Items
  BY <1>2, <1>3, VaultTask DEF Items
<1>5. VaultInv'
  BY <1>1, <1>2, <1>3, <1>4, AnswerKeeps
<1>6. task' = [task EXCEPT ![g].done = @ \cup {1}, ![g].got = @ \cup found]
  <2> HIDE DEF found
  <2> QED
    BY <1>1, <1>2 DEF Vault!Answered
<1>7. /\ Vault!Contract!Running(g) /\ task[g].op \in Vault!Contract!Readers
      /\ 1 \in DOMAIN task[g].args \ task[g].done
  BY <1>1, <1>2 DEF Vault!Contract!Running, Vault!Contract!Readers, Vault!Readers, Vault!Awaiting
<1>8. k = task[g].args[1].key
  BY DEF Vault!Secret
<1>9. Vault!Contract!Read(g)
  <2>1. LET kk == task[g].args[1].key IN
        task' = [task EXCEPT ![g].done = @ \cup {1},
                             ![g].got = @ \cup {[key |-> kk, val |-> store[task[g].bucket][kk]]}]
    BY <1>6, <1>8
  <2> QED
    BY <1>1, <1>7, <2>1, Zenon DEF Vault!Contract!Read
<1> QED
  BY <1>5, <1>9

\* A write, of one secret of the locker the handle named.
LEMMA SetWrites ==
  ASSUME VaultInv, NEW g \in Guests, Vault!Set(g)
  PROVE  VaultInv' /\ Vault!Contract!Write(g)
<1> DEFINE none == {}
<1>1. /\ Vault!Awaiting(g, Vault!Writers) /\ Vault!Answered(g, none) /\ UNCHANGED lockers
      /\ store' = [store EXCEPT ![task[g].bucket][Vault!Secret(g)] = task[g].args[1].val]
  BY DEF Vault!Set
<1>2. /\ task[g].args[1] \in Items /\ Vault!Secret(g) \in Secrets
      /\ 1 \in DOMAIN task[g].args /\ task[g].done = {} /\ task[g].got = {}
      /\ task[g].st = "run" /\ task[g] \in VaultCall
  BY <1>1, OneItem DEF Vault!Writers
<1>3. store' \in [Lockers -> [Secrets -> Values \cup {Missing}]]
  BY <1>1, <1>2 DEF VaultInv, Vault!TypeOK, Items
<1>4. none \in SUBSET Items
  OBVIOUS
<1>5. VaultInv'
  <2> HIDE DEF none
  <2> QED
    BY <1>1, <1>2, <1>3, <1>4, AnswerKeeps
<1>6. task' = [task EXCEPT ![g].done = @ \cup {1}]
  <2> DEFINE c == [task[g] EXCEPT !.done = {1}, !.got = none]
  <2>1. c = [task[g] EXCEPT !.done = {1}]
    BY <1>2 DEF VaultCall
  <2>2. task' = [task EXCEPT ![g] = c]
    BY <1>1 DEF Vault!Answered
  <2> QED
    BY <1>2, <2>1, <2>2
<1>7. /\ Vault!Contract!Running(g) /\ task[g].op \in Vault!Contract!Writers
      /\ 1 \in DOMAIN task[g].args \ task[g].done
  BY <1>1, <1>2 DEF Vault!Contract!Running, Vault!Contract!Writers, Vault!Writers, Vault!Awaiting
<1>8. store' = [store EXCEPT ![task[g].bucket][task[g].args[1].key] = task[g].args[1].val]
  BY <1>1 DEF Vault!Secret
<1>9. Vault!Contract!Write(g)
  BY <1>6, <1>7, <1>8, Zenon DEF Vault!Contract!Write
<1> QED
  BY <1>5, <1>9

\* A listing of the secrets that are there.
LEMMA ListLists ==
  ASSUME VaultInv, NEW g \in Guests, Vault!ListIds(g)
  PROVE  VaultInv' /\ Vault!Contract!List(g)
<1> DEFINE found == {[key |-> k, val |-> Missing] :
                       k \in {k \in Secrets : store[task[g].bucket][k] # Missing}}
<1>1. /\ task[g].st = "run" /\ task[g].op = "list_keys"
      /\ Vault!Answered(g, found) /\ UNCHANGED <<store, lockers>>
  BY DEF Vault!ListIds, Vault!Awaiting
<1>2. found \in SUBSET Items
  BY DEF Items
<1>3. store' \in [Lockers -> [Secrets -> Values \cup {Missing}]]
  BY <1>1 DEF VaultInv, Vault!TypeOK
<1>4. VaultInv'
  <2> HIDE DEF found
  <2> QED
    BY <1>1, <1>2, <1>3, AnswerKeeps
<1>5. Vault!Contract!List(g)
  BY <1>1, Zenon DEF Vault!Contract!List, Vault!Contract!Running, Vault!Answered
<1> QED
  BY <1>4, <1>5

\* An ok answer comes after the one access of the call.
LEMMA ReturnSucceeds ==
  ASSUME VaultInv, NEW g \in Guests, Vault!Return(g)
  PROVE  VaultInv' /\ Vault!Contract!Succeed(g)
<1> DEFINE c == [task[g] EXCEPT !.st = "ok"]
<1>1. /\ task[g].st = "run" /\ task[g].done = {1} /\ task' = [task EXCEPT ![g] = c]
      /\ UNCHANGED <<store, lockers>>
  BY DEF Vault!Return
<1>2. task[g] \in VaultCall /\ task[g].args \in Seq(Items) /\ task[g].op \in Ops
  BY <1>1, VaultTask DEF VaultCall
<1>3. c \in VaultCall /\ c.st # "run"
  BY <1>2 DEF VaultCall
<1>4. VaultInv'
  <2>1. lockers' \in [Guests -> [Entries -> Lockers \cup {Vault!Free}]]
    BY <1>1 DEF VaultInv, Vault!TypeOK
  <2> HIDE DEF c
  <2> QED
    BY <1>1, <1>3, <2>1, OverKeeps
<1>5. task[g].done = Vault!Contract!Accesses(task[g]) /\ task[g].op # "cas_new"
  <2>1. CASE task[g].op = "list_keys"
    BY <1>1, <2>1 DEF Vault!Contract!Accesses
  <2>2. CASE task[g].op # "list_keys"
    <3>1. Len(task[g].args) = 1 /\ task[g].op \notin {"increment", "cas_new"}
      BY <1>1, <1>2, <2>2 DEF VaultInv, VaultCallInv, Ops, Vault!Readers, Vault!Writers
    <3>2. DOMAIN task[g].args = {1}
      BY <1>2, <3>1
    <3>3. Vault!Contract!Accesses(task[g]) = DOMAIN task[g].args
      BY <2>2, <3>1 DEF Vault!Contract!Accesses
    <3> QED
      BY <1>1, <3>1, <3>2, <3>3
  <2> QED
    BY <2>1, <2>2
<1>6. task' = [task EXCEPT ![g].st = "ok"]
  BY <1>1
<1>7. Vault!Contract!Succeed(g)
  BY <1>1, <1>5, <1>6 DEF Vault!Contract!Succeed, Vault!Contract!Running
<1> QED
  BY <1>4, <1>7

\* An error answer.
LEMMA FailFails ==
  ASSUME VaultInv, NEW g \in Guests, Vault!Fail(g)
  PROVE  VaultInv' /\ Vault!Contract!Fail(g)
<1> DEFINE c == [task[g] EXCEPT !.st = "err", !.got = {}]
<1>1. task[g].st = "run" /\ task' = [task EXCEPT ![g] = c] /\ UNCHANGED <<store, lockers>>
  BY DEF Vault!Fail
<1>2. task[g] \in VaultCall
  BY <1>1, VaultTask
<1>3. c \in VaultCall /\ c.st # "run"
  BY <1>2 DEF VaultCall
<1>4. VaultInv'
  <2>1. lockers' \in [Guests -> [Entries -> Lockers \cup {Vault!Free}]]
    BY <1>1 DEF VaultInv, Vault!TypeOK
  <2> HIDE DEF c
  <2> QED
    BY <1>1, <1>3, <2>1, OverKeeps
<1>5. Vault!Contract!Fail(g)
  BY DEF Vault!Fail, Vault!Contract!Fail, Vault!Contract!Running
<1> QED
  BY <1>4, <1>5

\* A call begins: nothing accessed yet.
LEMMA CallInvokes ==
  ASSUME VaultInv, NEW g \in Guests, Vault!Call(g)
  PROVE  VaultInv' /\ Vault!Contract!Invoke(g)
<1>1. PICK op \in Ops, s \in Entries : \E args \in Vault!Arguments(op) :
        /\ lockers[g][s] # Vault!Free
        /\ task' = [task EXCEPT ![g] = [st |-> "run", op |-> op, bucket |-> lockers[g][s],
                                        args |-> args, done |-> {}, got |-> {}]]
  BY DEF Vault!Call, Ops
<1>2. PICK args \in Vault!Arguments(op) :
        /\ lockers[g][s] # Vault!Free
        /\ task' = [task EXCEPT ![g] = [st |-> "run", op |-> op, bucket |-> lockers[g][s],
                                        args |-> args, done |-> {}, got |-> {}]]
  BY <1>1
<1> DEFINE c == [st |-> "run", op |-> op, bucket |-> lockers[g][s],
                 args |-> args, done |-> {}, got |-> {}]
<1>3. lockers[g][s] \in Lockers
  BY <1>2 DEF VaultInv, Vault!TypeOK
<1>4. args \in Seq(Items) /\ (op # "list_keys" => Len(args) = 1)
  <2>1. CASE op = "list_keys"
    BY <1>2, <2>1 DEF Vault!Arguments
  <2>2. CASE op # "list_keys"
    <3>1. PICK i \in Vault!Items(op) : args = <<i>>
      BY <1>2, <2>2 DEF Vault!Arguments
    <3>2. i \in Items
      BY <2>2, <3>1 DEF Vault!Items, Items
    <3> QED
      BY <3>1, <3>2
  <2> QED
    BY <2>1, <2>2
<1>5. c \in VaultCall
  BY <1>3, <1>4 DEF VaultCall
<1>6. task' = [task EXCEPT ![g] = c]
  BY <1>2
<1>7. task'[g] = c
  BY <1>6, VaultTask
<1>8. VaultInv'
  <2>1. VaultCallInv(g)'
    BY <1>4, <1>7 DEF VaultCallInv
  <2>2. /\ lockers' \in [Guests -> [Entries -> Lockers \cup {Vault!Free}]]
        /\ store' \in [Lockers -> [Secrets -> Values \cup {Missing}]]
    BY DEF VaultInv, Vault!TypeOK, Vault!Call
  <2> HIDE DEF c
  <2> QED
    BY <1>5, <1>6, <2>1, <2>2, OneVaultCall
<1>9. Vault!Contract!Invoke(g)
  <2>1. Vault!Contract!Item = Items
    BY DEF Vault!Contract!Item, Items
  <2>2. op \in Vault!Contract!Writers \cup Vault!Contract!Readers \cup {"list_keys", "increment"}
    BY DEF Vault!Contract!Writers, Vault!Contract!Readers, Ops, Vault!Readers, Vault!Writers
  <2>3. task'[g] \in [st: {"run"},
                      op: Vault!Contract!Writers \cup Vault!Contract!Readers
                            \cup {"list_keys", "increment"},
                      bucket: Lockers, args: Seq(Vault!Contract!Item), done: {{}}, got: {{}}]
    BY <1>3, <1>4, <1>7, <2>1, <2>2
  <2>4. task' = [task EXCEPT ![g] = task'[g]]
    <3> HIDE DEF c
    <3> QED
      BY <1>6, <1>7
  <2>5. task[g] = Vault!Contract!Idle /\ UNCHANGED store
    BY DEF Vault!Call, Vault!Idle, Vault!Contract!Idle
  <2> QED
    BY <2>3, <2>4, <2>5, Zenon DEF Vault!Contract!Invoke
<1> QED
  BY <1>8, <1>9

\* The answer is taken, or the instance ends: nothing is left of the call.
LEMMA IdleAgain ==
  ASSUME VaultInv, NEW g \in Guests, Vault!Receive(g) \/ Vault!End(g)
  PROVE  VaultInv' /\ (Vault!Contract!Receive(g) \/ Vault!Contract!End(g))
<1> DEFINE c == Vault!Idle
<1>1. task' = [task EXCEPT ![g] = c] /\ UNCHANGED store
  BY DEF Vault!Receive, Vault!End
<1>2. lockers' \in [Guests -> [Entries -> Lockers \cup {Vault!Free}]]
  BY DEF Vault!Receive, Vault!End, VaultInv, Vault!TypeOK
<1>3. c \in {Vault!Idle} \cup VaultCall /\ c.st # "run"
  BY DEF Vault!Idle
<1>4. VaultInv'
  <2> HIDE DEF c
  <2> QED
    BY <1>1, <1>2, <1>3, OverKeeps
<1>5. Vault!Contract!Receive(g) \/ Vault!Contract!End(g)
  <2>1. ASSUME Vault!Receive(g) PROVE Vault!Contract!Receive(g)
    BY <2>1 DEF Vault!Receive, Vault!Contract!Receive, Vault!Idle, Vault!Contract!Idle
  <2>2. ASSUME Vault!End(g) PROVE Vault!Contract!End(g)
    <3>1. [h \in Guests |-> {}] = [[h \in Guests |-> {}] EXCEPT ![g] = {}]
      OBVIOUS
    <3> QED
      BY <2>2, <3>1 DEF Vault!End, Vault!Contract!End, Vault!Idle, Vault!Contract!Idle
  <2> QED
    BY <2>1, <2>2
<1> QED
  BY <1>4, <1>5

\* Every step of the vault keeps the invariant and is a step of the contract, or
\* one the contract does not see.
LEMMA VaultKeeps ==
  VaultInv /\ Vault!Next => VaultInv' /\ [Vault!Contract!Next]_(Vault!Contract!vars)
<1> SUFFICES ASSUME VaultInv, NEW g \in Guests,
                    \/ Vault!Open(g) \/ Vault!Drop(g) \/ Vault!Call(g) \/ Vault!Get(g)
                    \/ Vault!Set(g) \/ Vault!ListIds(g) \/ Vault!Return(g) \/ Vault!Fail(g)
                    \/ Vault!Receive(g) \/ Vault!End(g)
             PROVE  VaultInv' /\ [Vault!Contract!Next]_(Vault!Contract!vars)
  BY DEF Vault!Next
<1>1. CASE Vault!Open(g) \/ Vault!Drop(g)
  <2>1. lockers \in [Guests -> [Entries -> Lockers \cup {Vault!Free}]]
    BY DEF VaultInv, Vault!TypeOK
  <2>2. /\ lockers' \in [Guests -> [Entries -> Lockers \cup {Vault!Free}]]
        /\ UNCHANGED <<store, task>>
    <3>1. CASE Vault!Open(g)
      <4>1. PICK s \in Entries, l \in Lockers : lockers' = [lockers EXCEPT ![g][s] = l]
        BY <3>1 DEF Vault!Open
      <4> QED
        BY <2>1, <3>1, <4>1 DEF Vault!Open, Vault!EnsureLocker
    <3>2. CASE Vault!Drop(g)
      <4>1. PICK s \in Entries : lockers' = [lockers EXCEPT ![g][s] = Vault!Free]
        BY <3>2 DEF Vault!Drop
      <4> QED
        BY <2>1, <3>2, <4>1 DEF Vault!Drop
    <3> QED
      BY <1>1, <3>1, <3>2
  <2> QED
    BY <2>2, HandlesKeep DEF Vault!Contract!vars
<1>2. CASE Vault!Call(g)
  BY <1>2, CallInvokes DEF Vault!Contract!Next
<1>3. CASE Vault!Get(g)
  BY <1>3, GetReads DEF Vault!Contract!Next
<1>4. CASE Vault!Set(g)
  BY <1>4, SetWrites DEF Vault!Contract!Next
<1>5. CASE Vault!ListIds(g)
  BY <1>5, ListLists DEF Vault!Contract!Next
<1>6. CASE Vault!Return(g)
  BY <1>6, ReturnSucceeds DEF Vault!Contract!Next
<1>7. CASE Vault!Fail(g)
  BY <1>7, FailFails DEF Vault!Contract!Next
<1>8. CASE Vault!Receive(g) \/ Vault!End(g)
  BY <1>8, IdleAgain DEF Vault!Contract!Next
<1> QED
  BY <1>1, <1>2, <1>3, <1>4, <1>5, <1>6, <1>7, <1>8

\* SQL beside it changes nothing of the vault.
LEMMA VaultStays ==
  VaultInv /\ UNCHANGED vaultVars => VaultInv' /\ UNCHANGED Vault!Contract!vars
<1> SUFFICES ASSUME VaultInv, UNCHANGED vaultVars
             PROVE  VaultInv' /\ UNCHANGED Vault!Contract!vars
  OBVIOUS
<1>1. UNCHANGED <<store, lockers, task>>
  BY DEF vaultVars
<1>2. VaultInv'
  BY <1>1, HandlesKeep DEF VaultInv, Vault!TypeOK
<1> QED
  BY <1>1, <1>2 DEF Vault!Contract!vars

\* The vault starts empty, as the contract does.
LEMMA VaultStarts == Vault!Init => VaultInv /\ Vault!Contract!Init
<1> SUFFICES ASSUME Vault!Init PROVE VaultInv /\ Vault!Contract!Init
  OBVIOUS
<1>1. Vault!TypeOK
  BY DEF Vault!Init, Vault!TypeOK
<1>2. \A g \in Guests : VaultCallInv(g)
  BY DEF Vault!Init, VaultCallInv, Vault!Idle
<1>3. Vault!Contract!Init
  BY DEF Vault!Init, Vault!Contract!Init, Vault!Idle, Vault!Contract!Idle
<1> QED
  BY <1>1, <1>2, <1>3 DEF VaultInv

\* The vault keeps the contract of a key-value store, for any number of instances,
\* lockers, secrets and handles and with a backend that may fail.
THEOREM VaultKeepsTheContract == Spec => VaultImplementsContract
<1>1. Init => VaultInv /\ Vault!Contract!Init
  BY VaultStarts DEF Init
<1>2. VaultInv /\ [Next]_vars => VaultInv' /\ [Vault!Contract!Next]_(Vault!Contract!vars)
  BY VaultKeeps, VaultStays DEF Next, vars
<1> QED
  BY <1>1, <1>2, PTL
     DEF Spec, VaultImplementsContract, Vault!ImplementsContract, Vault!Contract!Spec
=============================================================================
