------------------------------ MODULE TtlCache ------------------------------
(***************************************************************************)
(* The guest-side cache of qwasr-wasi-keyvalue (src/guest/cache.rs): get,  *)
(* set and delete over one bucket, expiry kept in an envelope around the   *)
(* value because the store has none of its own.                            *)
(*                                                                         *)
(* Each of the functions awaits the host once or several times, and the    *)
(* calls of other guests and the clock run in between: pc names the await  *)
(* or the decision a call has reached.                                     *)
(***************************************************************************)
EXTENDS Integers

CONSTANTS
  Guests,    \* callers: guest instances that opened the same bucket
  Keys,
  Payloads,  \* the values callers store
  Missing,   \* None
  Ttls,      \* the ttl_secs callers pass, in seconds: u64
  Never,     \* ttl_secs is None: no envelope; and the expiry of such an entry
  Sec,       \* ticks of the clock in a second
  Half,      \* u64 runs to 2 * Half - 1, i64 from -Half to Half - 1 (2^63)
  FirstDate, \* the dates chrono can represent, in ticks (external): what
  LastDate,  \* Duration can hold is a thousand times as much
  MaxTime,   \* bound on the clock
  Faulty     \* whether the bucket's calls may fail

ASSUME TtlAssumption ==
  /\ Missing \notin Payloads
  /\ Half \in Nat \ {0}
  /\ Ttls \subseteq 0..(2 * Half - 1) /\ Never \notin Int
  /\ Sec \in Nat \ {0} /\ MaxTime \in Nat
  /\ FirstDate \in Int /\ LastDate \in 0..(Half * Sec - 1)
  /\ Faulty \in BOOLEAN

VARIABLES
  bucket,  \* bucket[k]: the stored entry, or Missing
  now,     \* Utc::now(), in ticks
  task     \* task[g]: the cache call guest g is in

tvars == <<bucket, now, task>>

\* exp is what the envelope says, due the instant the caller asked for (a
\* history field: the code keeps exp alone).
Entry == [val: Payloads, exp: Int \cup {Never}, due: Nat \cup {Never}]

Idle == [pc |-> "idle"]
PCs == {"read", "check", "expire", "write", "remove", "ok", "err"}
\* new: the entry a set will store.  entry: what the call read.  res: what get
\* found, which is also the previous value set returns.
Task == [pc: PCs, op: {"get", "set", "delete"}, key: Keys, new: Entry \cup {Missing},
         entry: Entry \cup {Missing}, res: Payloads \cup {Missing}]

Init ==
  /\ bucket = [k \in Keys |-> Missing]
  /\ now = 0
  /\ task = [g \in Guests |-> Idle]

-----------------------------------------------------------------------------

\* cast_signed: the u64 is taken for an i64, bit by bit.
Signed(secs) == IF secs < Half THEN secs ELSE secs - 2 * Half
\* What Utc::now() and the Duration of so many seconds add up to.
ExpiresAt(secs) == now + Signed(secs) * Sec
\* Otherwise Duration::seconds or the addition panics.
HasDate(secs) == ExpiresAt(secs) \in FirstDate..LastDate

\* The envelope is serialised with second precision, rounding down.
Envelope(v, ttl) ==
  [val |-> v, exp |-> (ExpiresAt(ttl) \div Sec) * Sec, due |-> now + ttl * Sec]
Raw(v) == [val |-> v, exp |-> Never, due |-> Never]

\* A fault: the instant of expiry itself still counts as live.
IsExpiredLate(e) == e.exp # Never /\ now > e.exp
\* Only an envelope can expire; an entry without one is returned as it is.
IsExpired(e) == e.exp # Never /\ now >= e.exp

Call(op, k, new) ==
  [pc |-> IF op = "delete" THEN "remove" ELSE "read", op |-> op, key |-> k, new |-> new,
   entry |-> Missing, res |-> Missing]

BeginGet(g, k) ==
  /\ task[g] = Idle
  /\ task' = [task EXCEPT ![g] = Call("get", k, Missing)]
  /\ UNCHANGED <<bucket, now>>

\* set builds its envelope first, and only then looks for the previous value.  An
\* expiry that is no date takes the instance before it gets there.
BeginSet(g, k, v, ttl) ==
  /\ task[g] = Idle
  /\ ttl # Never => HasDate(ttl)
  /\ task' = [task EXCEPT ![g] = Call("set", k, IF ttl = Never THEN Raw(v) ELSE Envelope(v, ttl))]
  /\ UNCHANGED <<bucket, now>>

BeginDelete(g, k) ==
  /\ task[g] = Idle
  /\ task' = [task EXCEPT ![g] = Call("delete", k, Missing)]
  /\ UNCHANGED <<bucket, now>>

\* bucket.get.
Read(g) ==
  /\ task[g].pc = "read"
  /\ task' = [task EXCEPT ![g].pc = "check", ![g].entry = bucket[task[g].key]]
  /\ UNCHANGED <<bucket, now>>

\* get is done with res: it returns, or set goes on to store its entry.
GetDone(g, res) ==
  task' = [task EXCEPT ![g].pc = IF task[g].op = "get" THEN "ok" ELSE "write", ![g].res = res]

\* A fault: the condition is the wrong way round.
CheckInverted(g) ==
  /\ task[g].pc = "check"
  /\ LET e == task[g].entry IN
     CASE e = Missing  -> GetDone(g, Missing)
       [] e # Missing /\ IsExpired(e) -> GetDone(g, e.val)
       [] OTHER -> task' = [task EXCEPT ![g].pc = "expire"]
  /\ UNCHANGED <<bucket, now>>

\* The entry read some time ago is judged by the clock as it is now.
Check(g) ==
  /\ task[g].pc = "check"
  /\ LET e == task[g].entry IN
     CASE e = Missing  -> GetDone(g, Missing)
       [] e # Missing /\ IsExpired(e) -> task' = [task EXCEPT ![g].pc = "expire"]
       [] OTHER -> GetDone(g, e.val)
  /\ UNCHANGED <<bucket, now>>

\* bucket.delete of the key whose entry had expired, whatever it holds by now.
Expire(g) ==
  /\ task[g].pc = "expire"
  /\ bucket' = [bucket EXCEPT ![task[g].key] = Missing]
  /\ GetDone(g, Missing)
  /\ UNCHANGED now

\* A fault: a previous value, when there is one, is stored in place of the new entry.
WritePrevious(g) ==
  /\ task[g].pc = "write"
  /\ bucket' = [bucket EXCEPT ![task[g].key] =
                  IF task[g].res = Missing THEN task[g].new ELSE task[g].res]
  /\ task' = [task EXCEPT ![g].pc = "ok"]
  /\ UNCHANGED now

\* bucket.set.
Write(g) ==
  /\ task[g].pc = "write"
  /\ bucket' = [bucket EXCEPT ![task[g].key] = task[g].new]
  /\ task' = [task EXCEPT ![g].pc = "ok"]
  /\ UNCHANGED now

\* bucket.delete, asked for by the caller.
Remove(g) ==
  /\ task[g].pc = "remove"
  /\ bucket' = [bucket EXCEPT ![task[g].key] = Missing]
  /\ task' = [task EXCEPT ![g].pc = "ok"]
  /\ UNCHANGED now

\* A call of the bucket fails, having had its effect or not, and the cache call
\* with it.
Fail(g) ==
  /\ Faulty
  /\ task[g].pc \in {"read", "expire", "write", "remove"}
  /\ LET k == task[g].key IN
     \/ UNCHANGED bucket
     \/ task[g].pc \in {"expire", "remove"} /\ bucket' = [bucket EXCEPT ![k] = Missing]
     \/ task[g].pc = "write" /\ bucket' = [bucket EXCEPT ![k] = task[g].new]
  /\ task' = [task EXCEPT ![g].pc = "err", ![g].res = Missing]
  /\ UNCHANGED now

\* The caller takes the answer.
Return(g) ==
  /\ task[g].pc \in {"ok", "err"}
  /\ task' = [task EXCEPT ![g] = Idle]
  /\ UNCHANGED <<bucket, now>>

\* The guest instance ends in the middle of a call.
End(g) ==
  /\ task[g] # Idle
  /\ task' = [task EXCEPT ![g] = Idle]
  /\ UNCHANGED <<bucket, now>>

Tick ==
  /\ now < MaxTime
  /\ now' = now + 1
  /\ UNCHANGED <<bucket, task>>

Begin(g) == \E k \in Keys :
  \/ BeginGet(g, k)
  \/ \E v \in Payloads, ttl \in Ttls \cup {Never} : BeginSet(g, k, v, ttl)
  \/ BeginDelete(g, k)

Work(g) == Read(g) \/ Check(g) \/ Expire(g) \/ Write(g) \/ Remove(g)

Next ==
  \/ \E g \in Guests : Begin(g) \/ Work(g) \/ Fail(g) \/ Return(g) \/ End(g)
  \/ Tick

Spec == Init /\ [][Next]_tvars

-----------------------------------------------------------------------------
(* Properties.                                                               *)

\* The bucket holds entries, the clock is a time, a call knows where it is.
TypeOK ==
  /\ bucket \in [Keys -> Entry \cup {Missing}]
  /\ now \in Nat
  /\ task \in [Guests -> {Idle} \cup Task]

\* A value set for ttl seconds is never handed out once they have passed, however
\* long the caller waited for the bucket and whatever u64 the ttl was; and one set
\* for less than 2^63 seconds is only taken for expired in the last second
\* (expires_at is cut to whole seconds when it is stored).
TtlHonoured ==
  [][\A g \in Guests :
       task[g].pc = "check" /\ task[g].entry # Missing /\ task[g].entry.exp # Never =>
         LET due == task[g].entry.due IN
         /\ task'[g].pc \in {"ok", "write"} /\ task'[g].res # Missing => now < due
         /\ task'[g].pc = "expire" /\ due < Half * Sec => now + Sec > due]_tvars

\* A live entry is removed only by a caller's delete, or by a get or set that had
\* read another entry, one which was due: the clean-up of expired entries costs a
\* fresh value only when it was stored between that call's read and its delete.
CleanupTakesOnlyTheDue ==
  [][\A g \in Guests :
       LET k == task[g].key
           e == bucket[k] IN
       /\ task[g].pc = "expire" /\ task'[g] # task[g] /\ bucket'[k] # e
       => /\ task[g].entry.exp # Never /\ now >= task[g].entry.exp
          /\ ~IsExpired(e) => e # task[g].entry]_tvars
=============================================================================
