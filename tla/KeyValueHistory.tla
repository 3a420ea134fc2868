-------------------------- MODULE KeyValueHistory ---------------------------
(***************************************************************************)
(* KeyValue with two history variables, to say what a guest may expect to  *)
(* read back.  No step of KeyValue is restricted.                          *)
(***************************************************************************)
EXTENDS KeyValue

CONSTANTS
  Nobody,   \* the writer of a key no live guest wrote last
  Unknown   \* what an acknowledged write left, when there was none

ASSUME HistoryAssumption == Nobody \notin Guests

VARIABLES
  lastWriter,  \* lastWriter[b][k]: the guest whose write to the key came last
  sent         \* sent[g][b][k]: the value of g's last write to the key, once it
               \* was acknowledged; Unknown while one is under way or after an error

hvars == <<vars, lastWriter, sent>>

HInit ==
  /\ Init
  /\ lastWriter = [b \in Buckets |-> [k \in Keys |-> Nobody]]
  /\ sent = [g \in Guests |-> [b \in Buckets |-> [k \in Keys |-> Unknown]]]

Writing(t) == "pos" \in DOMAIN t /\ t.op \in {"set", "delete", "set_many", "delete_many", "increment"}
KeysOf(t) == {t.args[i].key : i \in DOMAIN t.args}

\* g's expectation of the keys its call names is now what val says.
Expect(g, t, val(_)) ==
  sent' = [sent EXCEPT ![g][t.bucket] =
             [k \in Keys |-> IF k \in KeysOf(t) THEN val(k) ELSE @[k]]]

\* The last value a call's arguments give a key.
LastOf(t, k) ==
  t.args[CHOOSE i \in DOMAIN t.args :
           t.args[i].key = k /\ \A j \in DOMAIN t.args : t.args[j].key = k => j <= i].val

Started(g) ==
  /\ Call(g)
  /\ IF Writing(task'[g]) THEN Expect(g, task'[g], LAMBDA k : Unknown) ELSE UNCHANGED sent
  /\ UNCHANGED lastWriter

Wrote(g) ==
  /\ SetStep(g) \/ IncrementSet(g)
  /\ LET t == task[g]
         k == IF t.op = "increment" THEN t.args[1].key ELSE Next1(g).key IN
     lastWriter' = [lastWriter EXCEPT ![t.bucket][k] = g]
  /\ UNCHANGED sent

Acknowledged(g) ==
  /\ Finish(g)
  /\ LET t == task[g] IN
     IF Writing(t)
       THEN Expect(g, t, LAMBDA k : IF t.op = "increment"
                                      THEN (CHOOSE p \in t.got : p.key = k).val
                                      ELSE LastOf(t, k))
       ELSE UNCHANGED sent
  /\ UNCHANGED lastWriter

\* An instance that ends takes its expectations with it.
Forgot(g) ==
  /\ task'[g] = Idle /\ \A s \in Slots : table'[g][s] = Free
  /\ sent' = [sent EXCEPT ![g] = [b \in Buckets |-> [k \in Keys |-> Unknown]]]
  /\ lastWriter' = [b \in Buckets |-> [k \in Keys |->
                      IF lastWriter[b][k] = g THEN Nobody ELSE lastWriter[b][k]]]

Ended(g) ==
  /\ End(g) \/ Swap(g) \/ (IncrementGet(g) /\ task'[g] = Idle)
  /\ Forgot(g)

Other(g) ==
  /\ \/ Open(g) \/ Drop(g) \/ CasCurrent(g) \/ GetStep(g) \/ ListStep(g) \/ Fail(g) \/ Receive(g)
     \/ IncrementGet(g) /\ task'[g] # Idle
  /\ UNCHANGED <<lastWriter, sent>>

HNext == \E g \in Guests : Started(g) \/ Wrote(g) \/ Acknowledged(g) \/ Ended(g) \/ Other(g)

HSpec == HInit /\ [][HNext]_hvars

-----------------------------------------------------------------------------

\* "Once a write request is committed by a specific client, all subsequent read
\* requests by the same client will reflect that write or any subsequent writes"
\* (store.wit): a key whose last write was g's own, and acknowledged, reads as
\* what g wrote, through whatever handle and by whatever call.
ReadYourWrites ==
  [][\A g \in Guests, b \in Buckets, k \in Keys :
       /\ task[g].st = "run" /\ task'[g].st = "run"
       /\ task[g].op \in {"get", "exists", "get_many", "cas_new"} /\ task[g].bucket = b
       /\ task'[g].pos > task[g].pos /\ Next1(g).key = k
       /\ lastWriter[b][k] = g /\ sent[g][b][k] # Unknown
       => /\ task'[g].got \ task[g].got \subseteq {Put(k, sent[g][b][k])}
          /\ (sent[g][b][k] = Missing \/ Put(k, sent[g][b][k]) \in task'[g].got)]_hvars
=============================================================================
