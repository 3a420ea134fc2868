-------------------------------- MODULE Stores -------------------------------
(***************************************************************************)
(* The vault and the SQL host side by side.  They share nothing - a        *)
(* deployment may link either or both (runtime-macro) - so a behaviour     *)
(* follows one of them, chosen when it starts, and the other one stays as  *)
(* it was.                                                                 *)
(***************************************************************************)
EXTENDS Integers, Sequences

CONSTANTS Guests, Slots, Entries, Lockers, Secrets, Values, Missing, Faulty, Half, None, Params, MaxRows, NoTable

VARIABLES
  host,                                \* the host the guests of this behaviour call
  store, lockers, task,                \* of Vault
  path, rows, table, call, given       \* of Sql

Vault == INSTANCE Vault WITH Slots <- Entries
Sql == INSTANCE Sql

\* Parameters are DataTypes; a database in memory is not the one on file; a table,
\* be it empty, is not mistaken for none.
ASSUME StoresAssumption ==
  /\ Half \in Nat \ {0}
  /\ \A p \in Params : Sql!WellTyped(p)
  /\ Sql!Shared \notin Guests \X Slots
  /\ NoTable \notin Seq({Sql!ToSql(p) : p \in Params})

vaultVars == <<store, lockers, task>>
sqlVars == <<path, rows, table, call, given>>
vars == <<host, vaultVars, sqlVars>>

Init == host \in {"vault", "sql"} /\ Vault!Init /\ Sql!Init
Next ==
  \/ host = "vault" /\ Vault!Next /\ UNCHANGED <<host, sqlVars>>
  \/ host = "sql" /\ Sql!Next /\ UNCHANGED <<host, vaultVars>>

Spec == Init /\ [][Next]_vars

\* Vault.ImplementsContract: every function is one access to the locker its handle
\* named, handles do not touch secrets, secrets outlive instances.
VaultImplementsContract == Vault!ImplementsContract

\* Sql.RowsAsInserted: a query's rows are the inserts its connection is to see.
SqlRowsAsInserted == Sql!RowsAsInserted
=============================================================================
