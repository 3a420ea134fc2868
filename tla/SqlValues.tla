------------------------------ MODULE SqlValues ------------------------------
(***************************************************************************)
(* What happens to a value on its way through wasi-sql: from a parameter   *)
(* of a statement to an SQLite value (datatype_to_rusqlite_value), back to *)
(* a field of a row (rusqlite_value_to_datatype), and on to JSON           *)
(* (guest.rs into_json).  Payloads other than integers are opaque.         *)
(***************************************************************************)
EXTENDS Integers

CONSTANTS
  Half,   \* i64 runs from -Half to Half - 1 (2^63)
  None    \* the payload of a None variant

Integral == {"int32", "int64", "uint32", "uint64"}
Temporal == {"date", "time", "timestamp"}

\* A DataType: variant and payload.
DataType(t, v) == [type |-> t, val |-> v]
\* An SQLite value: storage class and payload.
Stored(c, v) == [class |-> c, val |-> v]
Null == Stored("null", None)

\* A DataType as Rust types it: the narrower integers fit an i64, a u64 may not.
WellTyped(p) ==
  /\ p.type \in Integral \cup Temporal \cup {"boolean", "float", "double", "str", "binary"}
  /\ p.type \in Integral /\ p.val # None =>
       /\ p.val \in Int
       /\ p.type # "uint64" => p.val < Half

AsI64(n) == IF n >= Half THEN n - 2 * Half ELSE n
BooleanAsInt(b) == IF b THEN 1 ELSE 0

\* datatype_to_rusqlite_value: dates, times and timestamps have no arm of their
\* own and fall through to the one for None.
ToSql(p) ==
  CASE p.val = None \/ p.type \in Temporal -> Null
    [] p.val # None /\ p.type = "boolean" -> Stored("integer", BooleanAsInt(p.val))
    [] p.val # None /\ p.type \in Integral -> Stored("integer", AsI64(p.val))
    [] p.val # None /\ p.type \in {"float", "double"} -> Stored("real", p.val)
    [] p.val # None /\ p.type = "str" -> Stored("text", p.val)
    [] p.val # None /\ p.type = "binary" -> Stored("blob", p.val)

\* rusqlite_value_to_datatype.
FromSql(v) ==
  CASE v.class = "null" -> DataType("str", None)
    [] v.class = "integer" -> DataType("int64", v.val)
    [] v.class = "real" -> DataType("double", v.val)
    [] v.class = "text" -> DataType("str", v.val)
    [] v.class = "blob" -> DataType("binary", v.val)

\* A NaN or an infinity has no JSON number: into_json makes a null of it.
NotFinite == "not finite"
NoNumber(p) == p.type \in {"float", "double"} /\ p.val = NotFinite

\* into_json: one JSON value per field.
Json(p) ==
  CASE p.val = None \/ NoNumber(p) -> [json |-> "null"]
    [] p.val # None /\ p.type = "boolean" -> [json |-> "bool", val |-> p.val]
    [] p.val # None /\ ~NoNumber(p) /\ p.type \in Integral \cup {"float", "double"} ->
         [json |-> "number", val |-> p.val]
    [] p.val # None /\ p.type = "binary" -> [json |-> "base64", val |-> p.val]
    [] p.val # None /\ p.type \in Temporal \cup {"str"} -> [json |-> "string", val |-> p.val]

\* What survives the trip: everything but booleans (which come back as numbers),
\* instants (which come back as null) and u64 beyond i64 (which come back negative).
Survives(p) ==
  \/ p.val = None
  \/ /\ p.type \notin Temporal \cup {"boolean"}
     /\ p.type = "uint64" => p.val < Half
=============================================================================
