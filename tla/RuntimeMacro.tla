---------------------------- MODULE RuntimeMacro ----------------------------
(***************************************************************************)
(* The runtime macro (runtime-macro): from the hosts a deployment lists to *)
(* the fields of its Context and StoreCtx, and what rustc makes of them.   *)
(*                                                                         *)
(* A path is the sequence of its segments.  A segment is the sequence of   *)
(* its words, as capitals divide them, and a word a sequence of syllables: *)
(* KeyValue is two words, Keyvalue one of two syllables.                   *)
(***************************************************************************)
EXTENDS Naturals, Sequences, SequencesExt, FiniteSets

CONSTANTS
  None,        \* the identifier of a path of several segments
  Denotes(_)   \* the type a path names

Syllables(seq) == FlattenSeq(seq)
NoTwo(seq, f(_)) == \A i, j \in DOMAIN seq : f(seq[i]) = f(seq[j]) => i = j

-----------------------------------------------------------------------------
(* The parser.                                                               *)

\* Settings may be repeated: the last one counts.
Setting(settings, name, default) ==
  LET last == SelectLastInSeq(settings, LAMBDA s : name \in DOMAIN s) IN
  IF last = 0 THEN default ELSE settings[last][name]
Parsed(settings) ==
  [gen_main |-> Setting(settings, "main", FALSE), hosts |-> Setting(settings, "hosts", <<>>)]

GetIdent(path) == IF Len(path) = 1 THEN path[1] ELSE None

\* Where a list first has each of its keys: a list without what it repeats is the
\* function on these places.
Firsts(seq, key(_)) ==
  {i \in DOMAIN seq : \A j \in DOMAIN seq : key(seq[j]) = key(seq[i]) => i <= j}

\* A fault: the search stops at a repeated backend instead of passing over it.
BackendsUntilRepeat(hosts) ==
  LET firsts == Firsts(hosts, LAMBDA h : GetIdent(h.backend)) IN
  [i \in {k \in firsts : 1..k \subseteq firsts} |-> hosts[i].backend]
\* The backends of the hosts, told apart by the identifier that paths of one
\* segment have and all others lack.
Backends(hosts) ==
  [i \in Firsts(hosts, LAMBDA h : GetIdent(h.backend)) |-> hosts[i].backend]

-----------------------------------------------------------------------------
(* The expansion.                                                            *)

\* Snake case puts a mark between the words, which stay apart; the name of a wasi
\* module has none, and its words run together.
FieldIdent(path) == Last(path)
WasiIdent(path) == Syllables(Last(path))

\* A second look for the same text finds nothing that Backends has left.
ContextFields(backends) ==
  [i \in Firsts(backends, LAMBDA b : b) |->
     [field |-> FieldIdent(backends[i]), path |-> backends[i]]]

StoreFields(hosts) ==
  [i \in DOMAIN hosts |->
     [field |-> WasiIdent(hosts[i].type_), path |-> hosts[i].backend,
      from |-> FieldIdent(hosts[i].backend)]]

Expand(settings) ==
  LET c == Parsed(settings) IN
  [context |-> ContextFields(Backends(c.hosts)), store |-> StoreFields(c.hosts),
   linked |-> [i \in DOMAIN c.hosts |-> c.hosts[i].type_],
   main |-> c.gen_main]

\* rustc: fields have names of their own, and each field of StoreCtx is cloned
\* from a field of Context of its own type.
Compiles(x) ==
  /\ NoTwo(x.context, LAMBDA f : f.field)
  /\ NoTwo(x.store, LAMBDA f : f.field)
  /\ \A i \in DOMAIN x.store : \E j \in DOMAIN x.context :
       /\ x.context[j].field = x.store[i].from
       /\ Denotes(x.context[j].path) = Denotes(x.store[i].path)
=============================================================================
