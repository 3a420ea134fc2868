-------------------------- MODULE HttpCache_proofs ---------------------------
(***************************************************************************)
(* Theorems about the guest-side caches, for any guests, keys, times to    *)
(* live and clock: TtlCache alone, then what the parser of CacheControl    *)
(* leaves in a Control, then the response cache of HttpCache on top of     *)
(* both.                                                                   *)
(***************************************************************************)
EXTENDS HttpCache, WellFoundedInduction, TLAPS

-----------------------------------------------------------------------------
(* TtlCache: the inductive invariant.                                        *)

\* An entry with an expiry expires no later than it is due, and within the second
\* before unless it was set for more seconds than an i64 holds; one without is never
\* due.
Honest(e) ==
  e # Missing =>
    /\ e.exp = Never <=> e.due = Never
    /\ e.exp # Never => e.exp <= e.due
    /\ e.exp # Never /\ e.due < Half * Sec => e.due < e.exp + Sec

\* Every entry there is, stored, read or about to be stored, is honest.
EntriesHonest ==
  /\ \A k \in Keys : Honest(bucket[k])
  /\ \A g \in Guests : task[g] # Idle => Honest(task[g].new) /\ Honest(task[g].entry)

\* A call is about to delete only when what it read has expired.
ExpiringHasExpired ==
  \A g \in Guests : task[g].pc = "expire" => task[g].entry # Missing /\ IsExpired(task[g].entry)

TInv == TypeOK /\ EntriesHonest /\ ExpiringHasExpired

\* Whoever is at an await or a decision is in a call.
LEMMA RunningIsTask ==
  ASSUME TypeOK, NEW g \in Guests, task[g].pc \in PCs
  PROVE  task[g] # Idle /\ task[g] \in Task
BY DEF TypeOK, Idle, PCs

\* Nobody idle is in one.
LEMMA IdleIsNoTask == Idle \notin Task /\ Idle.pc \notin PCs
BY DEF Idle, Task, PCs

\* Rounding down to a multiple of m.
LEMMA RoundDown ==
  ASSUME NEW n \in Int, NEW m \in Nat \ {0}
  PROVE  /\ (n \div m) * m \in Int
         /\ (n \div m) * m <= n /\ n < (n \div m) * m + m
<1>1. n \div m \in Int
  OBVIOUS
<1>2. n = (n \div m) * m + (n % m)
  OBVIOUS
<1>3. n % m \in 0..(m - 1)
  OBVIOUS
<1>4. (n \div m) * m \in Int
  BY <1>1
<1> QED
  BY <1>2, <1>3, <1>4

\* Multiplication is monotonic.
LEMMA TimesGrows ==
  ASSUME NEW a \in Int, NEW b \in Int, NEW m \in Nat, a <= b
  PROVE  a * m \in Int /\ b * m \in Int /\ a * m <= b * m
OBVIOUS

\* A time to live as a signed number, from the instant it was given.
LEMMA ExpiryIsNoLater ==
  ASSUME now \in Nat, NEW ttl \in Ttls
  PROVE  /\ ExpiresAt(ttl) \in Int /\ now + ttl * Sec \in Nat
         /\ ExpiresAt(ttl) <= now + ttl * Sec
         /\ now + ttl * Sec < Half * Sec => ExpiresAt(ttl) = now + ttl * Sec
<1>1. /\ Half \in Nat \ {0} /\ Sec \in Nat \ {0} /\ ttl \in Nat
      /\ Signed(ttl) \in Int /\ Signed(ttl) <= ttl
  BY TtlAssumption DEF Signed
<1>2. /\ Signed(ttl) * Sec \in Int /\ ttl * Sec \in Int /\ Signed(ttl) * Sec <= ttl * Sec
      /\ 0 * Sec <= ttl * Sec
  BY <1>1, TimesGrows
<1>3. CASE ttl < Half
  BY <1>1, <1>2, <1>3 DEF Signed, ExpiresAt
<1>4. CASE ~(ttl < Half)
  <2>1. Half <= ttl /\ Half * Sec \in Int /\ Half * Sec <= ttl * Sec
    BY <1>1, <1>4, TimesGrows
  <2> QED
    BY <1>1, <1>2, <2>1 DEF ExpiresAt
<1> QED
  BY <1>3, <1>4

\* What set stores: an honest entry.
LEMMA NewEntries ==
  ASSUME now \in Nat, NEW v \in Payloads
  PROVE  /\ Raw(v) \in Entry /\ Honest(Raw(v))
         /\ \A ttl \in Ttls : Envelope(v, ttl) \in Entry /\ Honest(Envelope(v, ttl))
<1>1. Raw(v) \in Entry /\ Honest(Raw(v))
  BY DEF Raw, Entry, Honest
<1>2. ASSUME NEW ttl \in Ttls
      PROVE  Envelope(v, ttl) \in Entry /\ Honest(Envelope(v, ttl))
  <2> DEFINE at == ExpiresAt(ttl)
             due == now + ttl * Sec
             exp == (at \div Sec) * Sec
  <2>1. Sec \in Nat \ {0} /\ Never \notin Int /\ Half * Sec \in Int
    BY TtlAssumption
  <2>2. at \in Int /\ due \in Nat /\ at <= due /\ (due < Half * Sec => at = due)
    BY ExpiryIsNoLater
  <2>3. Envelope(v, ttl) = [val |-> v, exp |-> exp, due |-> due]
    BY DEF Envelope
  <2> HIDE DEF at, due
  <2>4. exp \in Int /\ exp <= at /\ at < exp + Sec
    BY <2>1, <2>2, RoundDown
  <2> HIDE DEF exp
  <2>5. exp <= due /\ (due < Half * Sec => due < exp + Sec)
    BY <2>1, <2>2, <2>4
  <2>6. exp # Never /\ due # Never
    BY <2>1, <2>2, <2>4
  <2> QED
    BY <2>2, <2>3, <2>4, <2>5, <2>6 DEF Entry, Honest
<1> QED
  BY <1>1, <1>2

\* One guest's task changes, to a call or to none.
LEMMA OneTask ==
  ASSUME TInv, NEW g \in Guests, NEW t, t \in Task \/ t = Idle, task' = [task EXCEPT ![g] = t],
         t # Idle => Honest(t.new) /\ Honest(t.entry),
         t.pc = "expire" => t.entry # Missing /\ IsExpired(t.entry),
         now' = now, bucket' \in [Keys -> Entry \cup {Missing}], \A k \in Keys : Honest(bucket'[k])
  PROVE  TInv'
<1>1. task' \in [Guests -> {Idle} \cup Task] /\ task'[g] = t
  BY DEF TInv, TypeOK
<1>2. \A h \in Guests : h # g => task'[h] = task[h]
  BY DEF TInv, TypeOK
<1>3. TypeOK'
  BY <1>1 DEF TInv, TypeOK
<1>4. EntriesHonest'
  BY <1>1, <1>2 DEF TInv, EntriesHonest, Honest
<1>5. ExpiringHasExpired'
  BY <1>1, <1>2 DEF TInv, ExpiringHasExpired, IsExpired
<1> QED
  BY <1>3, <1>4, <1>5 DEF TInv

-----------------------------------------------------------------------------
(* TtlCache: its theorems.                                                   *)

\* An empty bucket and idle guests satisfy the invariant.
LEMMA TtlInit == Init => TInv
<1> SUFFICES ASSUME Init PROVE TInv
  OBVIOUS
<1>1. TypeOK
  BY DEF Init, TypeOK
<1>2. EntriesHonest
  BY DEF Init, EntriesHonest, Honest
<1>3. ExpiringHasExpired
  BY DEF Init, ExpiringHasExpired, Idle
<1> QED
  BY <1>1, <1>2, <1>3 DEF TInv

\* The calls begin with an honest entry or none.
LEMMA BeginKeeps ==
  ASSUME TInv, NEW g \in Guests, Begin(g)
  PROVE  TInv'
<1> USE DEF TInv
<1>1. bucket' = bucket /\ now' = now /\ now \in Nat
  BY DEF Begin, BeginGet, BeginSet, BeginDelete, TypeOK
<1>2. \A k \in Keys : Honest(bucket[k])
  BY DEF EntriesHonest
<1>3. PICK op \in {"get", "set", "delete"}, k \in Keys, e \in Entry \cup {Missing} :
        task' = [task EXCEPT ![g] = Call(op, k, e)] /\ Honest(e)
  <2>1. PICK k \in Keys :
          \/ BeginGet(g, k)
          \/ \E v \in Payloads, ttl \in Ttls \cup {Never} : BeginSet(g, k, v, ttl)
          \/ BeginDelete(g, k)
    BY DEF Begin
  <2>2. Honest(Missing)
    BY DEF Honest
  <2>3. CASE BeginGet(g, k)
    BY <2>2, <2>3 DEF BeginGet
  <2>4. ASSUME NEW v \in Payloads, NEW ttl \in Ttls \cup {Never}, BeginSet(g, k, v, ttl)
        PROVE  \E e \in Entry : task' = [task EXCEPT ![g] = Call("set", k, e)] /\ Honest(e)
    BY <1>1, <2>4, NewEntries DEF BeginSet
  <2>5. CASE BeginDelete(g, k)
    BY <2>2, <2>5 DEF BeginDelete
  <2> QED
    BY <2>1, <2>3, <2>4, <2>5
<1>4. Call(op, k, e) \in Task /\ Call(op, k, e).pc # "expire"
  BY DEF Call, Task, PCs
<1>5. Call(op, k, e).new = e /\ Call(op, k, e).entry = Missing
  BY DEF Call
<1> HIDE DEF TInv
<1> QED
  BY <1>1, <1>2, <1>3, <1>4, <1>5, OneTask DEF TInv, TypeOK, Honest

\* The awaits and decisions of a call.
LEMMA WorkKeeps ==
  ASSUME TInv, NEW g \in Guests, Work(g)
  PROVE  TInv'
<1>1. task[g] # Idle /\ task[g] \in Task
  BY RunningIsTask DEF TInv, Work, Read, Check, Expire, Write, Remove, PCs
<1>2. Honest(task[g].new) /\ Honest(task[g].entry)
  BY <1>1 DEF TInv, EntriesHonest
<1>3. \A k \in Keys : bucket[k] \in Entry \cup {Missing} /\ Honest(bucket[k])
  BY DEF TInv, TypeOK, EntriesHonest
<1>4. /\ task[g].key \in Keys /\ task[g].op \in {"get", "set", "delete"}
      /\ task[g].new \in Entry \cup {Missing} /\ task[g].entry \in Entry \cup {Missing}
  BY <1>1 DEF Task
<1>5. bucket \in [Keys -> Entry \cup {Missing}]
  BY DEF TInv, TypeOK
<1>6. Honest(Missing)
  BY DEF Honest
<1>7. CASE Read(g)
  <2> DEFINE t == [task[g] EXCEPT !.pc = "check", !.entry = bucket[task[g].key]]
  <2>1. t \in Task /\ t.pc # "expire" /\ t.new = task[g].new /\ t.entry = bucket[task[g].key]
    BY <1>1, <1>3, <1>4 DEF Task, PCs
  <2>2. task' = [task EXCEPT ![g] = t] /\ bucket' = bucket /\ now' = now
    BY <1>7 DEF Read
  <2> HIDE DEF t
  <2> QED
    BY <2>1, <2>2, <1>2, <1>3, <1>4, <1>5, OneTask
<1>8. ASSUME NEW res \in Payloads \cup {Missing}, GetDone(g, res), now' = now,
             bucket' = bucket \/ bucket' = [bucket EXCEPT ![task[g].key] = Missing]
      PROVE  TInv'
  <2> DEFINE t == [task[g] EXCEPT !.pc = IF task[g].op = "get" THEN "ok" ELSE "write", !.res = res]
  <2>1. t \in Task /\ t.pc # "expire" /\ t.new = task[g].new /\ t.entry = task[g].entry
    BY <1>1, <1>4 DEF Task, PCs
  <2>2. task' = [task EXCEPT ![g] = t]
    BY <1>8 DEF GetDone
  <2> HIDE DEF t
  <2>3. bucket' \in [Keys -> Entry \cup {Missing}] /\ \A k \in Keys : Honest(bucket'[k])
    BY <1>3, <1>4, <1>5, <1>6, <1>8
  <2> QED
    BY <2>1, <2>2, <2>3, <1>2, <1>8, OneTask
<1>9. CASE Check(g)
  <2>1. CASE GetDone(g, Missing) \/ (task[g].entry # Missing /\ GetDone(g, task[g].entry.val))
    BY <2>1, <1>4, <1>8, <1>9 DEF Check, Entry
  <2>2. CASE task[g].entry # Missing /\ IsExpired(task[g].entry)
             /\ task' = [task EXCEPT ![g].pc = "expire"]
    <3> DEFINE t == [task[g] EXCEPT !.pc = "expire"]
    <3>1. t \in Task /\ t.new = task[g].new /\ t.entry = task[g].entry
      BY <1>1 DEF Task, PCs
    <3>2. task' = [task EXCEPT ![g] = t] /\ bucket' = bucket /\ now' = now
      BY <1>9, <2>2 DEF Check
    <3> HIDE DEF t
    <3> QED
      BY <3>1, <3>2, <2>2, <1>2, <1>3, <1>5, OneTask
  <2> QED
    BY <2>1, <2>2, <1>9 DEF Check
<1>10. CASE Expire(g)
  BY <1>8, <1>10 DEF Expire
<1>11. ASSUME NEW e \in Entry \cup {Missing}, Honest(e), now' = now,
              bucket' = [bucket EXCEPT ![task[g].key] = e], task' = [task EXCEPT ![g].pc = "ok"]
       PROVE  TInv'
  <2> DEFINE t == [task[g] EXCEPT !.pc = "ok"]
  <2>1. t \in Task /\ t.pc # "expire" /\ t.new = task[g].new /\ t.entry = task[g].entry
    BY <1>1 DEF Task, PCs
  <2>2. task' = [task EXCEPT ![g] = t]
    BY <1>11
  <2> HIDE DEF t
  <2>3. bucket' \in [Keys -> Entry \cup {Missing}] /\ \A k \in Keys : Honest(bucket'[k])
    BY <1>3, <1>4, <1>5, <1>11
  <2> QED
    BY <2>1, <2>2, <2>3, <1>2, <1>11, OneTask
<1>12. CASE Write(g)
  BY <1>2, <1>4, <1>11, <1>12 DEF Write
<1>13. CASE Remove(g)
  BY <1>6, <1>11, <1>13 DEF Remove
<1> QED
  BY <1>7, <1>9, <1>10, <1>12, <1>13 DEF Work

\* A failure, which may have had its effect, and a return or the end of the instance.
LEMMA LeaveKeeps ==
  ASSUME TInv, NEW g \in Guests, Fail(g) \/ Return(g) \/ End(g)
  PROVE  TInv'
<1>1. now' = now /\ bucket \in [Keys -> Entry \cup {Missing}] /\ \A k \in Keys : Honest(bucket[k])
  BY DEF TInv, TypeOK, EntriesHonest, Fail, Return, End
<1>2. CASE Fail(g)
  <2> DEFINE t == [task[g] EXCEPT !.pc = "err", !.res = Missing]
  <2>1. task[g] # Idle /\ task[g] \in Task
    BY <1>2, RunningIsTask DEF TInv, Fail, PCs
  <2>2. t \in Task /\ t.pc # "expire" /\ t.new = task[g].new /\ t.entry = task[g].entry
    BY <2>1 DEF Task, PCs
  <2>3. Honest(t.new) /\ Honest(t.entry)
    BY <2>1, <2>2 DEF TInv, EntriesHonest
  <2>4. task' = [task EXCEPT ![g] = t]
    BY <1>2 DEF Fail
  <2>5. bucket' \in [Keys -> Entry \cup {Missing}] /\ \A k \in Keys : Honest(bucket'[k])
    <3>1. /\ task[g].key \in Keys /\ task[g].new \in Entry \cup {Missing}
          /\ Honest(task[g].new) /\ Honest(Missing)
      BY <2>1, <2>2, <2>3 DEF Task, Honest
    <3>2. \/ bucket' = bucket \/ bucket' = [bucket EXCEPT ![task[g].key] = Missing]
          \/ bucket' = [bucket EXCEPT ![task[g].key] = task[g].new]
      BY <1>2 DEF Fail
    <3> QED
      BY <1>1, <3>1, <3>2
  <2> HIDE DEF t
  <2> QED
    BY <2>2, <2>3, <2>4, <2>5, <1>1, OneTask
<1>3. CASE Return(g) \/ End(g)
  <2>1. task' = [task EXCEPT ![g] = Idle] /\ Idle.pc # "expire"
    BY <1>3 DEF Return, End, Idle
  <2>2. bucket' = bucket
    BY <1>3 DEF Return, End
  <2> QED
    BY <2>1, <2>2, <1>1, OneTask
<1> QED
  BY <1>2, <1>3

\* What has expired stays so.
LEMMA TickKeeps ==
  ASSUME TInv, Tick
  PROVE  TInv'
<1>1. TypeOK' /\ EntriesHonest'
  BY DEF TInv, TypeOK, EntriesHonest, Honest, Tick
<1>2. ASSUME NEW g \in Guests, task[g].pc = "expire"
      PROVE  IsExpired(task[g].entry)'
  <2>1. task[g] \in Task /\ task[g].entry # Missing /\ IsExpired(task[g].entry)
    BY <1>2, RunningIsTask DEF TInv, ExpiringHasExpired, PCs
  <2>2. task[g].entry.exp \in Int /\ now \in Nat /\ now' = now + 1
    BY <2>1 DEF Task, Entry, IsExpired, TInv, TypeOK, Tick
  <2> QED
    BY <2>1, <2>2 DEF IsExpired, Tick
<1> QED
  BY <1>1, <1>2 DEF TInv, ExpiringHasExpired, Tick

\* Every step of TtlCache keeps it.
LEMMA TtlNext == TInv /\ [Next]_tvars => TInv'
<1> SUFFICES ASSUME TInv, [Next]_tvars PROVE TInv'
  OBVIOUS
<1>1. ASSUME NEW g \in Guests, Begin(g) \/ Work(g) \/ Fail(g) \/ Return(g) \/ End(g)
      PROVE  TInv'
  BY <1>1, BeginKeeps, WorkKeeps, LeaveKeeps
<1>2. CASE Tick
  BY <1>2, TickKeeps
<1>3. CASE UNCHANGED tvars
  BY <1>3 DEF TInv, TypeOK, EntriesHonest, Honest, ExpiringHasExpired, IsExpired, tvars
<1> QED
  BY <1>1, <1>2, <1>3 DEF Next

\* So it always holds.
LEMMA TtlInvariant == Spec => []TInv
BY TtlInit, TtlNext, PTL DEF Spec

\* The cache of wasi-keyvalue's guest side keeps its types, whatever the ttls.
THEOREM TtlTypeCorrect == Spec => []TypeOK
<1>1. TInv => TypeOK
  BY DEF TInv
<1> QED
  BY <1>1, TtlInvariant, PTL

\* One step of TtlCache keeps the promise of the time to live.
LEMMA TtlStep ==
  ASSUME TInv, [Next]_tvars, NEW g \in Guests,
         task[g].pc = "check", task[g].entry # Missing, task[g].entry.exp # Never
  PROVE  LET due == task[g].entry.due IN
         /\ task'[g].pc \in {"ok", "write"} /\ task'[g].res # Missing => now < due
         /\ task'[g].pc = "expire" /\ due < Half * Sec => now + Sec > due
<1>1. task[g] # Idle /\ task[g] \in Task /\ Honest(task[g].entry)
  BY RunningIsTask DEF TInv, EntriesHonest, PCs
<1>2. /\ task[g].entry.exp \in Int /\ task[g].entry.due \in Nat /\ now \in Nat
      /\ task[g].entry.exp <= task[g].entry.due
      /\ task[g].entry.due < Half * Sec => task[g].entry.due < task[g].entry.exp + Sec
  BY <1>1 DEF Honest, Task, Entry, TInv, TypeOK
<1>3. CASE Check(g)
  <2>1. CASE IsExpired(task[g].entry)
    <3>1. task'[g].pc = "expire"
      BY <1>1, <1>3, <2>1 DEF Check, TInv, TypeOK, Task
    <3> QED
      BY <3>1, <1>2, <2>1, TtlAssumption DEF IsExpired
  <2>2. CASE ~IsExpired(task[g].entry)
    <3>1. task'[g].pc \in {"ok", "write"}
      BY <1>1, <1>3, <2>2 DEF Check, GetDone, TInv, TypeOK, Task
    <3> QED
      BY <3>1, <1>2, <2>2 DEF IsExpired
  <2> QED
    BY <2>1, <2>2
<1>4. CASE task'[g] = task[g] \/ task'[g] = Idle
  BY <1>4 DEF Idle
<1>5. Check(g) \/ task'[g] = task[g] \/ task'[g] = Idle
  <2>1. CASE UNCHANGED tvars \/ Tick
    BY <2>1 DEF tvars, Tick
  <2>2. ASSUME NEW h \in Guests, h # g, Begin(h) \/ Work(h) \/ Fail(h) \/ Return(h) \/ End(h)
        PROVE  task'[g] = task[g]
    <3>1. \E t : task' = [task EXCEPT ![h] = t]
      BY <2>2 DEF Begin, BeginGet, BeginSet, BeginDelete, Work, Read, Check, GetDone, Expire,
                  Write, Remove, Fail, Return, End
    <3> QED
      BY <3>1, <2>2 DEF TInv, TypeOK
  <2>3. CASE Begin(g) \/ Work(g) \/ Fail(g) \/ Return(g) \/ End(g)
    BY <1>1, <2>3 DEF Begin, BeginGet, BeginSet, BeginDelete, Work, Read, Expire,
                  Write, Remove, Fail, Return, End, TInv, TypeOK
  <2> QED
    BY <2>1, <2>2, <2>3 DEF Next
<1> QED
  BY <1>3, <1>4, <1>5

\* A value set for any number of seconds, of all that a u64 holds, is never handed
\* out once they have passed; set for fewer than 2^63 it is taken for expired only in
\* the last of them: cache.rs get(), for any clock and however long the bucket's
\* answers take.
THEOREM TtlsAreHonoured == Spec => TtlHonoured
<1>1. TInv /\ [Next]_tvars =>
        [\A g \in Guests :
           task[g].pc = "check" /\ task[g].entry # Missing /\ task[g].entry.exp # Never =>
             LET due == task[g].entry.due IN
             /\ task'[g].pc \in {"ok", "write"} /\ task'[g].res # Missing => now < due
             /\ task'[g].pc = "expire" /\ due < Half * Sec => now + Sec > due]_tvars
  BY TtlStep
<1> QED
  BY <1>1, TtlInvariant, PTL DEF Spec, TtlHonoured

\* The clean-up of get(), one that fails included, takes a fresh value only when it
\* replaced the entry that was read: what it read was due, so what was not due is
\* another entry.
THEOREM CleanupTakesTheDue == Spec => CleanupTakesOnlyTheDue
<1>1. TInv /\ [Next]_tvars =>
        [\A g \in Guests :
           LET k == task[g].key
               e == bucket[k] IN
           /\ task[g].pc = "expire" /\ task'[g] # task[g] /\ bucket'[k] # e
           => /\ task[g].entry.exp # Never /\ now >= task[g].entry.exp
              /\ ~IsExpired(e) => e # task[g].entry]_tvars
  BY DEF TInv, ExpiringHasExpired, IsExpired
<1> QED
  BY <1>1, TtlInvariant, PTL DEF Spec, CleanupTakesOnlyTheDue

-----------------------------------------------------------------------------
(* CacheControl: the loop over the directives, for headers of any length.    *)

\* Every nonempty set of naturals has a least element.
LEMMA LeastNumber ==
  ASSUME NEW T \in SUBSET Nat, T # {}
  PROVE  \E n \in T : \A m \in T : n <= m
<1> DEFINE R == OpToRel(<, Nat)
<1>1. \A x, y \in Nat : x < y => <<x, y>> \in R
  BY DEF OpToRel
<1>2. IsWellFoundedOn(R, Nat)
  BY NatLessThanWellFounded
<1> HIDE DEF R
<1>3. PICK n \in T : \A m \in T : <<m, n>> \notin R
  BY <1>2, WFMin
<1>4. ASSUME NEW m \in T PROVE n <= m
  <2>1. ~(m < n)
    BY <1>1, <1>3
  <2> QED
    BY <2>1
<1> QED
  BY <1>4

\* What a set of numbers up to N that holds 0 and every successor is.
LEMMA UpToN ==
  ASSUME NEW N \in Nat, NEW S, 0 \in S, \A n \in 0..N : n # N /\ n \in S => n + 1 \in S
  PROVE  0..N \subseteq S
<1> DEFINE T == {n \in 0..N : n \notin S}
<1>1. SUFFICES ASSUME T # {} PROVE FALSE
  OBVIOUS
<1>2. T \in SUBSET Nat
  OBVIOUS
<1> HIDE DEF T
<1>3. PICK n \in T : \A m \in T : n <= m
  BY <1>1, <1>2, LeastNumber
<1>4. n \in 0..N /\ n \notin S /\ n # 0
  BY DEF T
<1>5. n - 1 \in 0..N /\ n - 1 # N /\ n - 1 \notin T /\ (n - 1) + 1 = n
  BY <1>3, <1>4
<1>6. n - 1 \in S
  BY <1>5 DEF T
<1> QED
  BY <1>4, <1>5, <1>6

\* The ages of the headers are numbers.
LEMMA AgesAreNat == \A n \in Ttls \cup {0} : n \in Nat
BY TtlAssumption

\* A directive carries a number.
LEMMA AgeType ==
  ASSUME NEW d \in C!Directives
  PROVE  d.age \in Nat /\ (d.name = "max-age" => d.age \in Ttls)
BY TtlAssumption DEF C!Directives, C!NoStore, C!NoCache, C!BadAge, C!Unknown, C!MaxAge, C!Bytes

\* One turn of the loop keeps a Control one.
LEMMA DirectiveType ==
  ASSUME NEW d \in C!Directives, NEW c \in Control
  PROVE  C!Directive(d, c) \in Control
<1>1. d.age \in Nat
  BY AgeType
<1>2. C!Refused \in Control
  BY DEF C!Refused, C!Default, Control
<1> QED
  BY <1>1, <1>2 DEF C!Directive, Control

\* The loop is what its definition says: there is a function that is.
LEMMA AfterIs ==
  ASSUME NEW ds \in Seq(C!Directives)
  PROVE  \A n \in 0..Len(ds) : C!After(ds)[n] = IF n = 0 THEN C!Default ELSE C!Directive(ds[n], C!After(ds)[n - 1])
<1> DEFINE N == Len(ds)
<1> DEFINE Loop(n, g) == g[0] = C!Default /\ \A i \in 1..n : g[i] = C!Directive(ds[i], g[i - 1])
<1> DEFINE S == {n \in 0..N : \E g \in [0..n -> Control] : Loop(n, g)}
<1>1. N \in Nat /\ \A i \in 1..N : ds[i] \in C!Directives
  OBVIOUS
<1>2. 0 \in S
  <2> DEFINE g == [i \in 0..0 |-> C!Default]
  <2>1. g \in [0..0 -> Control] /\ g[0] = C!Default /\ \A i \in 1..0 : g[i] = C!Directive(ds[i], g[i - 1])
    BY DEF C!Default, Control
  <2> HIDE DEF g
  <2> QED
    BY <2>1, <1>1
<1>3. ASSUME NEW n \in 0..N, n # N, n \in S
      PROVE  n + 1 \in S
  <2>1. PICK g \in [0..n -> Control] : Loop(n, g)
    BY <1>3
  <2> DEFINE h == [i \in 0..(n + 1) |-> IF i = n + 1 THEN C!Directive(ds[n + 1], g[n]) ELSE g[i]]
  <2>2. n + 1 \in 1..N /\ n \in Nat
    BY <1>1, <1>3
  <2>3. C!Directive(ds[n + 1], g[n]) \in Control
    BY <1>1, <2>2, DirectiveType
  <2>4. h \in [0..(n + 1) -> Control]
    BY <2>1, <2>2, <2>3
  <2>5. h[0] = C!Default /\ \A i \in 1..(n + 1) : h[i] = C!Directive(ds[i], h[i - 1])
    BY <2>1, <2>2
  <2> HIDE DEF h
  <2> QED
    BY <2>2, <2>4, <2>5
<1>4. N \in S
  <2>1. N \in 0..N
    BY <1>1
  <2> HIDE DEF S, N
  <2> QED
    BY <1>1, <1>2, <1>3, <2>1, UpToN
<1>5. PICK g \in [0..N -> Control] : Loop(N, g)
  BY <1>4
<1>6. g = [n \in 0..Len(ds) |-> IF n = 0 THEN C!Default ELSE C!Directive(ds[n], g[n - 1])]
  BY <1>5, <1>1
<1>7. C!After(ds) = [n \in 0..Len(ds) |-> IF n = 0 THEN C!Default ELSE C!Directive(ds[n], C!After(ds)[n - 1])]
  BY <1>6 DEF C!After
<1> QED
  BY <1>7

\* What the loop makes of directives: its max-age is one that was sent, and it
\* leaves the etag alone.
Plain(c) == c \in Control /\ c.max_age \in Ttls \cup {0} /\ c.etag = C!NoEtag

LEMMA StartsPlain == Plain(C!Default) /\ Plain(C!Refused)
BY DEF Plain, C!Default, C!Refused, Control

LEMMA DirectivePlain ==
  ASSUME NEW d \in C!Directives, NEW c, Plain(c)
  PROVE  Plain(C!Directive(d, c))
<1> DEFINE r == C!Directive(d, c)
<1>1. c \in Control /\ r \in Control
  BY DirectiveType DEF Plain
<1>2. \/ r = c \/ r = C!Refused
      \/ r = [c EXCEPT !.no_store = TRUE] \/ r = [c EXCEPT !.no_cache = TRUE]
      \/ d.name = "max-age" /\ r = [c EXCEPT !.max_age = d.age]
  <2>1. d.name = "malformed" => d = C!BadAge
    BY DEF C!Directives, C!NoStore, C!NoCache, C!BadAge, C!Unknown, C!MaxAge, C!Bytes
  <2> QED
    BY <2>1 DEF C!Directive
<1>3. d.name = "max-age" => d.age \in Ttls
  BY AgeType
<1>4. r.etag = C!NoEtag /\ r.max_age \in Ttls \cup {0}
  <2>1. CASE r = c \/ r = C!Refused
    BY <2>1, StartsPlain DEF Plain
  <2>2. CASE r = [c EXCEPT !.no_store = TRUE] \/ r = [c EXCEPT !.no_cache = TRUE]
    BY <2>2, <1>1 DEF Plain, Control
  <2>3. CASE d.name = "max-age" /\ r = [c EXCEPT !.max_age = d.age]
    BY <2>3, <1>1, <1>3 DEF Plain, Control
  <2> QED
    BY <1>2, <2>1, <2>2, <2>3
<1> QED
  BY <1>1, <1>4 DEF Plain

\* The max-age in force changes only with a max-age directive.
LEMMA AgeAfterNext ==
  ASSUME NEW ds, NEW n \in Nat
  PROVE  C!AgeAfter(ds, n + 1) = IF ds[n + 1].name = "max-age" THEN ds[n + 1].age ELSE C!AgeAfter(ds, n)
<1> DEFINE ages(k) == {i \in 1..k : ds[i].name = "max-age"}
<1>1. CASE ds[n + 1].name = "max-age"
  <2>1. n + 1 \in ages(n + 1) /\ \A j \in ages(n + 1) : j <= n + 1
    BY <1>1
  <2>2. (CHOOSE i \in ages(n + 1) : \A j \in ages(n + 1) : j <= i) = n + 1
    <3>1. \A i \in ages(n + 1) : (\A j \in ages(n + 1) : j <= i) => i = n + 1
      BY <2>1
    <3> HIDE DEF ages
    <3> QED
      BY <2>1, <3>1
  <2> QED
    BY <1>1, <2>1, <2>2 DEF C!AgeAfter
<1>2. CASE ds[n + 1].name # "max-age"
  <2>1. ages(n + 1) = ages(n)
    BY <1>2
  <2> HIDE DEF ages
  <2>2. \A k \in {n, n + 1} : C!AgeAfter(ds, k) =
          IF ages(k) = {} THEN 0 ELSE ds[CHOOSE i \in ages(k) : \A j \in ages(k) : j <= i].age
    BY DEF C!AgeAfter, ages
  <2> QED
    BY <1>2, <2>1, <2>2
<1> QED
  BY <1>1, <1>2

\* What the Control remembers of the first n directives as long as none was refused.
Remembers(ds, n, c) ==
  c.ok => /\ (\E i \in 1..n : ds[i] = C!NoStore) => c.no_store
          /\ c.max_age = C!AgeAfter(ds, n)

LEMMA DirectiveRemembers ==
  ASSUME NEW ds \in Seq(C!Directives), NEW n \in Nat, n + 1 \in 1..Len(ds),
         NEW c, Plain(c), Remembers(ds, n, c)
  PROVE  Remembers(ds, n + 1, C!Directive(ds[n + 1], c))
<1> DEFINE d == ds[n + 1]
<1> DEFINE r == C!Directive(d, c)
<1>1. c \in Control
  BY DEF Plain
<1>2. C!AgeAfter(ds, n + 1) = IF d.name = "max-age" THEN d.age ELSE C!AgeAfter(ds, n)
  BY AgeAfterNext
<1>3. (\E i \in 1..(n + 1) : ds[i] = C!NoStore) <=> (\E i \in 1..n : ds[i] = C!NoStore) \/ d = C!NoStore
  OBVIOUS
<1>4. ASSUME r.ok
      PROVE  c.ok /\ (c.no_store => r.no_store) /\ (d = C!NoStore => r.no_store)
             /\ r.max_age = IF d.name = "max-age" THEN d.age ELSE c.max_age
  <2>1. d \in C!Directives
    OBVIOUS
  <2>2. ~C!Refused.ok
    BY DEF C!Refused, C!Default
  <2>3. d.name = "malformed" => d = C!BadAge
    BY <2>1 DEF C!Directives, C!NoStore, C!NoCache, C!BadAge, C!Unknown, C!MaxAge, C!Bytes
  <2>4. /\ d = C!NoStore => d.name = "no-store" /\ d # C!NoCache
        /\ d = C!NoCache => d.name = "no-cache"
    BY DEF C!NoStore, C!NoCache
  <2> HIDE DEF d
  <2>5. CASE ~c.ok
    BY <1>4, <2>5 DEF C!Directive
  <2>6. CASE c.ok /\ d = C!NoStore
    BY <1>1, <1>4, <2>2, <2>4, <2>6 DEF C!Directive, Control
  <2>7. CASE c.ok /\ d = C!NoCache
    BY <1>1, <1>4, <2>2, <2>4, <2>7 DEF C!Directive, Control
  <2>8. CASE c.ok /\ d.name \in {"max-age", "malformed"}
    BY <1>1, <1>4, <2>2, <2>3, <2>4, <2>8 DEF C!Directive, Control
  <2>9. CASE c.ok /\ d # C!NoStore /\ d # C!NoCache /\ d.name \notin {"max-age", "malformed"}
    BY <1>1, <2>9 DEF C!Directive, Control
  <2> QED
    BY <2>5, <2>6, <2>7, <2>8, <2>9
<1> HIDE DEF d, r
<1>5. Remembers(ds, n + 1, r)
  BY <1>2, <1>3, <1>4 DEF Remembers
<1> QED
  BY <1>5 DEF r, d

\* After any number of turns.
LEMMA LoopIsPlain ==
  ASSUME NEW ds \in Seq(C!Directives)
  PROVE  \A n \in 0..Len(ds) : Plain(C!After(ds)[n]) /\ Remembers(ds, n, C!After(ds)[n])
<1> DEFINE N == Len(ds)
<1> DEFINE S == {n \in 0..N : Plain(C!After(ds)[n]) /\ Remembers(ds, n, C!After(ds)[n])}
<1>1. N \in Nat /\ \A i \in 1..N : ds[i] \in C!Directives
  OBVIOUS
<1>2. 0 \in S
  <2>1. C!After(ds)[0] = C!Default
    BY <1>1, AfterIs
  <2>2. Remembers(ds, 0, C!Default)
    BY DEF Remembers, C!Default, C!AgeAfter
  <2> QED
    BY <1>1, <2>1, <2>2, StartsPlain
<1>3. ASSUME NEW n \in 0..N, n # N, n \in S
      PROVE  n + 1 \in S
  <2>1. n \in Nat /\ n + 1 \in 1..N /\ n + 1 \in 0..N /\ (n + 1) - 1 = n /\ n + 1 # 0
    BY <1>1, <1>3
  <2>2. C!After(ds)[n + 1] = C!Directive(ds[n + 1], C!After(ds)[n])
    BY <2>1, AfterIs
  <2>3. ds[n + 1] \in C!Directives /\ Plain(C!After(ds)[n]) /\ Remembers(ds, n, C!After(ds)[n])
    BY <1>1, <1>3, <2>1
  <2>4. Plain(C!After(ds)[n + 1])
    BY <2>2, <2>3, DirectivePlain
  <2>5. Remembers(ds, n + 1, C!After(ds)[n + 1])
    BY <2>1, <2>2, <2>3, DirectiveRemembers
  <2> QED
    BY <2>1, <2>4, <2>5
<1> HIDE DEF S, N
<1>4. 0..N \subseteq S
  BY <1>1, <1>2, <1>3, UpToN
<1> QED
  BY <1>4 DEF S, N

\* What handle() relies on in a parsed Control: its max-age is one that was sent,
\* the etag it may be read under is the one that was asked for, and it lets a
\* response be stored only if the directives, as sent, do.
LEMMA ParsedControl ==
  ASSUME NEW h \in Headers \cup {NoHeader}, NEW shape \in Shapes,
         NEW c, c = IF h = NoHeader THEN C!Default ELSE C!Parse(h, shape)
  PROVE  /\ c \in Control /\ c.max_age \in Ttls \cup {0}
         /\ c.etag # C!NoEtag => c.etag = shape
         /\ MayStore(c) => C!Keepable(h)
<1>0. ~MayStore(C!Default) /\ ~MayStore(C!Refused)
  BY DEF MayStore, C!Default, C!Refused
<1>1. CASE h = NoHeader
  BY <1>0, <1>1, StartsPlain DEF Plain
<1>2. CASE h # NoHeader
  <2>1. h \in Seq(C!Directives)
    BY <1>2, RequestsAssumption
  <2>2. PICK last : last = C!After(h)[Len(h)] /\ Plain(last) /\ Remembers(h, Len(h), last)
    BY <2>1, LoopIsPlain
  <2>3. c = C!WithEtag(last, shape) \/ c = C!Refused
    BY <1>2, <2>2 DEF C!Parse
  <2>4. \/ c = last \/ c = C!Refused
        \/ last.ok /\ ~last.no_store /\ shape \in Keys /\ c = [last EXCEPT !.etag = shape]
    BY <2>3 DEF C!WithEtag
  <2>5. CASE c = last \/ c = C!Refused
    <3>1. c.etag = C!NoEtag
      BY <2>2, <2>5, StartsPlain DEF Plain
    <3> QED
      BY <2>2, <2>5, <3>1, StartsPlain DEF Plain, MayStore
  <2>6. CASE last.ok /\ ~last.no_store /\ shape \in Keys /\ c = [last EXCEPT !.etag = shape]
    <3>1. c \in Control /\ c.max_age = last.max_age /\ c.etag = shape
      BY <2>2, <2>6 DEF Plain, Control
    <3>2. ~(\E i \in 1..Len(h) : h[i] = C!NoStore) /\ last.max_age = C!AgeAfter(h, Len(h))
      BY <2>2, <2>6 DEF Remembers
    <3>3. MayStore(c) => C!Keepable(h)
      BY <2>1, <3>1, <3>2 DEF MayStore, C!Keepable, C!Occurs
    <3> QED
      BY <2>2, <3>1, <3>3 DEF Plain
  <2> QED
    BY <2>4, <2>5, <2>6
<1> QED
  BY <1>1, <1>2

-----------------------------------------------------------------------------
(* HttpCache: the inductive invariant.                                       *)

\* The bucket may hold v under etag e: it was fetched for e, but for header values
\* that were not text, and is labelled with it.
Kept(e, v) == v.etag = e /\ \E resp \in fetched[e] : v = Serialized(resp)

\* A request carries an age that was sent, may be answered only under the etag it
\* asked for, has been by a response that was fetched under it, and stores only what
\* its directives, as sent, let it store.
RequestWell(g) ==
  LET q == req[g] IN
  q # NoRequest =>
    /\ q.control.max_age \in Ttls \cup {0}
    /\ q.control.etag # C!NoEtag => q.control.etag = q.shape
    /\ MayStore(q.control) => C!Keepable(q.header)
    /\ q.pc = "open" => MayRead(q.control)
    /\ q.pc \in {"body", "put"} => q.resp \in Response
    /\ q.pc = "put" => MayStore(q.control) /\ q.resp.etag = q.control.etag
                      /\ q.resp \in fetched[q.control.etag]
    /\ q.hit => q.pc = "ok" /\ MayRead(q.control) /\ Kept(q.control.etag, q.resp)

\* The cache call of guest g is about k, and all it carries was fetched for k.
CallFor(g, k) ==
  LET t == task[g] IN
  /\ t.key = k /\ t.pc # "remove"
  /\ t.new # Missing => Kept(k, t.new.val) /\ t.new.exp # Never
  /\ t.entry # Missing => Kept(k, t.entry.val)
  /\ t.res # Missing => Kept(k, t.res) /\ t.pc # "err"

\* A request waits for a call about its own etag, and only when its Control allows it.
CallWell(g) ==
  /\ req[g].pc = "lookup" => MayRead(req[g].control) /\ CallFor(g, req[g].control.etag)
  /\ req[g].pc = "store" => MayStore(req[g].control) /\ CallFor(g, req[g].control.etag)

\* What the bucket holds under an etag it may hold, and will expire.
BucketWell == \A e \in Keys : bucket[e] # Missing => bucket[e].exp # Never /\ Kept(e, bucket[e].val)

HInv ==
  /\ HTypeOK /\ TInv /\ BucketWell
  /\ \A g \in Guests : RequestWell(g) /\ CallWell(g)

\* Serialising keeps a response one, and its label.
LEMMA SerializedIs ==
  ASSUME NEW r \in Response
  PROVE  Serialized(r) \in Payloads /\ Serialized(r).etag = r.etag
BY PayloadsAssumption DEF Serialized, Response

\* Whoever handles a request has one.
LEMMA HandlingIsRequest ==
  ASSUME HTypeOK, NEW g \in Guests, req[g].pc \in ReqPCs
  PROVE  req[g] # NoRequest /\ req[g] \in Request
BY DEF HTypeOK, NoRequest, ReqPCs

\* Whoever waits for the cache is in a call of it, about its own etag.
LEMMA WaitingIsCalling ==
  ASSUME HInv, NEW g \in Guests, req[g].pc \in {"lookup", "store"}
  PROVE  /\ req[g] # NoRequest /\ req[g] \in Request /\ req[g].control.etag \in Keys
         /\ task[g] # Idle /\ task[g] \in Task /\ CallFor(g, req[g].control.etag)
<1>1. req[g] # NoRequest /\ req[g] \in Request
  BY HandlingIsRequest DEF HInv, ReqPCs
<1>2. task[g] # Idle
  BY DEF HInv, HTypeOK
<1>3. task[g] \in Task
  BY <1>2 DEF HInv, TInv, TypeOK
<1>4. CallFor(g, req[g].control.etag) /\ req[g].control.etag # C!NoEtag
  BY DEF HInv, CallWell, MayRead, MayStore
<1> QED
  BY <1>1, <1>2, <1>3, <1>4 DEF Request, Control

\* One guest moves: what has to be shown of the others follows.
LEMMA OneGuest ==
  ASSUME HInv, TInv', NEW g \in Guests, NEW q \in Request \cup {NoRequest},
         req' = [req EXCEPT ![g] = q], \A h \in Guests : h # g => task'[h] = task[h],
         task'[g] # Idle <=> q.pc \in {"lookup", "store"},
         fetched' \in [Keys -> SUBSET Response], \A e \in Keys : fetched[e] \subseteq fetched'[e],
         BucketWell', RequestWell(g)', CallWell(g)'
  PROVE  HInv'
<1>1. req' \in [Guests -> {NoRequest} \cup Request] /\ req'[g] = q
  BY DEF HInv, HTypeOK
<1>2. ASSUME NEW h \in Guests, h # g
      PROVE  /\ task'[h] # Idle <=> req'[h].pc \in {"lookup", "store"}
             /\ RequestWell(h)' /\ CallWell(h)'
  <2>1. req'[h] = req[h] /\ task'[h] = task[h]
    BY <1>2 DEF HInv, HTypeOK
  <2>2. RequestWell(h) /\ CallWell(h) /\ (task[h] # Idle <=> req[h].pc \in {"lookup", "store"})
    BY DEF HInv, HTypeOK
  <2>3. RequestWell(h)'
    <3>1. req[h] # NoRequest => req[h] \in Request
      BY DEF HInv, HTypeOK
    <3>2. (MayRead(req[h].control) \/ MayStore(req[h].control)) /\ req[h] \in Request
            => req[h].control.etag \in Keys
      BY DEF MayRead, MayStore, Request, Control
    <3>3. \A e \in Keys : \A v : Kept(e, v) => Kept(e, v)'
      BY DEF Kept
    <3> HIDE DEF Kept
    <3> QED
      BY <2>1, <2>2, <3>1, <3>2, <3>3 DEF RequestWell
  <2>4. CallWell(h)'
    <3>1. req[h].pc \in {"lookup", "store"} => req[h].control.etag \in Keys
      BY WaitingIsCalling
    <3>2. \A e \in Keys : \A v : Kept(e, v) => Kept(e, v)'
      BY DEF Kept
    <3> QED
      BY <2>1, <2>2, <3>1, <3>2 DEF CallWell, CallFor
  <2> QED
    BY <2>1, <2>2, <2>3, <2>4
<1>3. HTypeOK'
  BY <1>1, <1>2 DEF HTypeOK, TInv
<1> QED
  BY <1>2, <1>3 DEF HInv

\* Nothing asked and nothing fetched satisfies the invariant.
LEMMA HttpInit == HInit => HInv
<1> SUFFICES ASSUME HInit PROVE HInv
  OBVIOUS
<1>1. TInv
  BY TtlInit DEF HInit
<1>2. HTypeOK
  BY <1>1 DEF HInit, Init, HTypeOK, TInv, NoRequest
<1>3. BucketWell
  BY DEF HInit, Init, BucketWell
<1>4. \A g \in Guests : RequestWell(g) /\ CallWell(g)
  BY DEF HInit, RequestWell, CallWell, NoRequest
<1> QED
  BY <1>1, <1>2, <1>3, <1>4 DEF HInv

-----------------------------------------------------------------------------
(* HttpCache: handle() uses the cache as one of its callers.                 *)

\* A request about to look its etag up has one.
LEMMA Opening ==
  ASSUME HInv, NEW g \in Guests, Lookup(g)
  PROVE  /\ req[g] # NoRequest /\ req[g] \in Request /\ MayRead(req[g].control)
         /\ req[g].control.etag \in Keys
<1>1. req[g] # NoRequest /\ req[g] \in Request
  BY HandlingIsRequest DEF Lookup, HInv, ReqPCs
<1>2. MayRead(req[g].control)
  BY <1>1 DEF Lookup, HInv, RequestWell
<1> QED
  BY <1>1, <1>2 DEF MayRead, Request, Control

\* A request about to store its response has one, an etag and an age.
LEMMA Putting ==
  ASSUME HInv, NEW g \in Guests, req[g].pc = "put"
  PROVE  /\ req[g] # NoRequest /\ req[g] \in Request /\ MayStore(req[g].control) /\ ~req[g].hit
         /\ req[g].control.etag \in Keys /\ req[g].control.max_age \in Ttls
         /\ req[g].resp \in Response /\ Kept(req[g].control.etag, Serialized(req[g].resp))
         /\ Serialized(req[g].resp) \in Payloads
<1>1. req[g] # NoRequest /\ req[g] \in Request
  BY HandlingIsRequest DEF HInv, ReqPCs
<1>2. /\ MayStore(req[g].control) /\ req[g].resp \in Response /\ ~req[g].hit
      /\ req[g].resp \in fetched[req[g].control.etag] /\ req[g].resp.etag = req[g].control.etag
      /\ req[g].control.max_age \in Ttls \cup {0}
  BY <1>1 DEF HInv, RequestWell
<1>3. req[g].control.etag \in Keys /\ req[g].control.max_age \in Ttls
  BY <1>1, <1>2 DEF MayStore, Request, Control
<1> QED
  BY <1>1, <1>2, <1>3, SerializedIs DEF Kept

\* A step of handle() is a step of the cache, or leaves it alone.
LEMMA HandleIsCacheStep ==
  ASSUME HInv, HNext
  PROVE  [Next]_tvars
<1>1. CASE Clock
  BY <1>1 DEF Clock, Next
<1>2. ASSUME NEW g \in Guests, Lookup(g)
      PROVE  [Next]_tvars
  <2>1. req[g].control.etag \in Keys
    BY <1>2, Opening
  <2> QED
    BY <1>2, <2>1 DEF Lookup, Next, Begin
<1>3. ASSUME NEW g \in Guests, Store(g)
      PROVE  [Next]_tvars
  <2>1. /\ req[g].control.etag \in Keys /\ req[g].control.max_age \in Ttls
        /\ Serialized(req[g].resp) \in Payloads
    BY <1>3, Putting DEF Store
  <2>2. BeginSet(g, req[g].control.etag, Serialized(req[g].resp), req[g].control.max_age)
    BY <1>3 DEF Store
  <2> QED
    BY <2>1, <2>2 DEF Next, Begin
<1>4. ASSUME NEW g \in Guests, LookedUp(g) \/ Stored(g) \/ InCache(g) \/ Abandon(g)
      PROVE  [Next]_tvars
  BY <1>4 DEF LookedUp, Stored, InCache, Abandon, Next
<1>5. ASSUME NEW g \in Guests,
             Start(g) \/ OpenFails(g) \/ Forward(g) \/ ReadBody(g) \/ Panic(g) \/ Answer(g)
      PROVE  UNCHANGED tvars
  BY <1>5 DEF Start, OpenFails, Forward, ReadBody, Panic, Answer
<1> QED
  BY <1>1, <1>2, <1>3, <1>4, <1>5 DEF HNext, Handle

\* So the cache keeps its invariant under handle().
LEMMA CacheKeeps ==
  ASSUME HInv, [HNext]_hvars
  PROVE  TInv'
<1>1. [Next]_tvars
  BY HandleIsCacheStep DEF hvars
<1> QED
  BY <1>1, TtlNext DEF HInv

-----------------------------------------------------------------------------
(* HttpCache: the invariant, action by action.                               *)

\* handle() parses the headers, and goes where they send it.
LEMMA StartKeeps ==
  ASSUME HInv, TInv', NEW g \in Guests, Start(g)
  PROVE  HInv'
<1> DEFINE Parsed(h, shape) == IF h = NoHeader THEN C!Default ELSE C!Parse(h, shape)
<1> DEFINE Turning(c) == IF ~c.ok THEN "err" ELSE IF MayRead(c) THEN "open" ELSE "forward"
<1> DEFINE New(h, shape, c, pc) == [pc |-> pc, header |-> h, shape |-> shape, control |-> c,
                                    hit |-> FALSE, resp |-> Missing]
<1>0. PICK h \in Headers \cup {NoHeader}, shape \in Shapes :
        req' = [req EXCEPT ![g] = New(h, shape, Parsed(h, shape), Turning(Parsed(h, shape)))]
  BY Zenon DEF Start
<1>1. PICK c, pc : /\ c = Parsed(h, shape) /\ pc = Turning(c)
                   /\ req' = [req EXCEPT ![g] = New(h, shape, c, pc)]
  <2> HIDE DEF Parsed, Turning, New
  <2> QED
    BY <1>0
<1>2. /\ c \in Control /\ c.max_age \in Ttls \cup {0}
      /\ c.etag # C!NoEtag => c.etag = shape
      /\ MayStore(c) => C!Keepable(h)
  BY <1>1, ParsedControl
<1>3. PICK q : q = New(h, shape, c, pc)
  OBVIOUS
<1>4. pc \in {"err", "open", "forward"} /\ (pc = "open" => MayRead(c))
  BY <1>1
<1>5. /\ q.pc = pc /\ q.control = c /\ q.shape = shape /\ q.hit = FALSE
      /\ q.header = h
  BY <1>3, Zenon
<1>6. q \in Request
  BY <1>2, <1>3, <1>4 DEF Request, ReqPCs
<1>7. req' = [req EXCEPT ![g] = q] /\ req'[g] = q
  BY <1>1, <1>3 DEF HInv, HTypeOK
<1>8. fetched' = fetched /\ bucket' = bucket /\ task' = task
  BY DEF Start, tvars
<1>9. task[g] = Idle
  BY DEF Start, HInv, HTypeOK, NoRequest
<1>10. q.pc \notin {"lookup", "store", "body", "put"}
  BY <1>4, <1>5
<1> HIDE DEF Parsed, Turning, New
<1>11. RequestWell(g)'
  BY <1>2, <1>4, <1>5, <1>7, <1>10 DEF RequestWell
<1>12. CallWell(g)'
  BY <1>7, <1>10 DEF CallWell
<1> QED
  BY <1>6, <1>7, <1>8, <1>9, <1>10, <1>11, <1>12, OneGuest
     DEF HInv, HTypeOK, BucketWell, Kept

\* The bucket is open, and the entry asked for.
LEMMA LookupKeeps ==
  ASSUME HInv, TInv', NEW g \in Guests, Lookup(g)
  PROVE  HInv'
<1>1. /\ req[g] # NoRequest /\ req[g] \in Request /\ MayRead(req[g].control)
      /\ req[g].control.etag \in Keys
  BY Opening
<1>2. PICK q : q = [req[g] EXCEPT !.pc = "lookup"] /\ req' = [req EXCEPT ![g] = q]
  BY DEF Lookup
<1>3. /\ q \in Request /\ q.control = req[g].control /\ q.shape = req[g].shape
      /\ q.header = req[g].header /\ q.hit = req[g].hit /\ q.pc = "lookup"
  BY <1>1, <1>2 DEF Request, ReqPCs
<1>4. ~req[g].hit
  BY <1>1 DEF HInv, RequestWell, Lookup
<1>5. /\ task' = [task EXCEPT ![g] = Call("get", req[g].control.etag, Missing)]
      /\ bucket' = bucket /\ fetched' = fetched
  BY DEF Lookup, BeginGet
<1>6. /\ task'[g] = Call("get", req[g].control.etag, Missing)
      /\ \A h \in Guests : h # g => task'[h] = task[h]
  BY <1>5 DEF HInv, TInv, TypeOK
<1>7. req'[g] = q
  BY <1>2 DEF HInv, HTypeOK
<1>8. task'[g] # Idle
  BY <1>6 DEF Call, Idle
<1>9. RequestWell(g)'
  BY <1>1, <1>3, <1>4, <1>7 DEF HInv, RequestWell
<1>10. CallWell(g)'
  BY <1>1, <1>3, <1>6, <1>7 DEF CallWell, CallFor, Call
<1>11. BucketWell' /\ fetched' \in [Keys -> SUBSET Response]
  BY <1>5 DEF HInv, HTypeOK, BucketWell, Kept
<1> QED
  BY <1>2, <1>3, <1>5, <1>6, <1>8, <1>9, <1>10, <1>11, OneGuest

\* The request changes, the cache does not, and no call is waited for.
LEMMA AloneKeeps ==
  ASSUME HInv, TInv', NEW g \in Guests, NEW q \in Request \cup {NoRequest},
         req' = [req EXCEPT ![g] = q], fetched' = fetched, UNCHANGED bucket,
         task'[g] = Idle, \A h \in Guests : h # g => task'[h] = task[h],
         q.pc \notin {"lookup", "store"},
         q # NoRequest => /\ q.control = req[g].control /\ q.shape = req[g].shape
                          /\ q.header = req[g].header /\ req[g] # NoRequest
                          /\ q.pc \notin {"open", "put"}
                          /\ q.pc = "body" => q.resp \in Response
                          /\ q.hit => q.pc = "ok" /\ MayRead(q.control) /\ Kept(q.control.etag, q.resp)
  PROVE  HInv'
<1>1. req'[g] = q
  BY DEF HInv, HTypeOK
<1>2. RequestWell(g)'
  BY <1>1 DEF HInv, RequestWell, Kept
<1>3. CallWell(g)'
  BY <1>1 DEF CallWell
<1> QED
  BY <1>2, <1>3, OneGuest DEF HInv, HTypeOK, BucketWell, Kept

\* cache.get returned.
LEMMA LookedUpKeeps ==
  ASSUME HInv, TInv', NEW g \in Guests, LookedUp(g)
  PROVE  HInv'
<1>1. /\ req[g] # NoRequest /\ req[g] \in Request /\ req[g].control.etag \in Keys
      /\ task[g] \in Task /\ CallFor(g, req[g].control.etag)
  BY WaitingIsCalling DEF LookedUp
<1>2. MayRead(req[g].control) /\ ~req[g].hit
  BY <1>1 DEF HInv, CallWell, RequestWell, LookedUp
<1> DEFINE found == task[g].res
<1> DEFINE pc == IF task[g].pc = "err" THEN "err" ELSE IF found # Missing THEN "ok" ELSE "forward"
<1> DEFINE answered == [req[g] EXCEPT !.pc = pc, !.hit = found # Missing, !.resp = found]
<1> DEFINE unread == [req[g] EXCEPT !.pc = "err"]
<1>3. PICK q : /\ q = answered \/ q = unread
               /\ req' = [req EXCEPT ![g] = q]
  <2>1. req' = [req EXCEPT ![g] = answered] \/ req' = [req EXCEPT ![g] = unread]
    BY DEF LookedUp
  <2> HIDE DEF answered, unread
  <2> QED
    BY <2>1
<1>4. found \in Response \cup {Missing} /\ (found # Missing) \in BOOLEAN
  BY <1>1, PayloadsAssumption DEF Task
<1>5. /\ fetched' = fetched /\ bucket' = bucket /\ task' = [task EXCEPT ![g] = Idle]
  BY DEF LookedUp, Return
<1>6. task'[g] = Idle /\ \A k \in Guests : k # g => task'[k] = task[k]
  BY <1>5 DEF HInv, TInv, TypeOK
<1>7. CASE q = unread
  <2>1. /\ q \in Request /\ q.control = req[g].control /\ q.shape = req[g].shape
        /\ q.header = req[g].header /\ q.hit = req[g].hit /\ q.pc = "err"
    BY <1>1, <1>7 DEF Request, ReqPCs
  <2> QED
    BY <1>1, <1>2, <1>3, <1>5, <1>6, <2>1, AloneKeeps
<1>8. CASE q = answered
  <2>1. /\ q \in Request /\ q.pc = pc /\ q.control = req[g].control /\ q.shape = req[g].shape
        /\ q.header = req[g].header /\ q.resp = found /\ (q.hit <=> found # Missing)
    BY <1>1, <1>4, <1>8 DEF Request, ReqPCs
  <2>2. found # Missing => q.pc = "ok" /\ Kept(req[g].control.etag, found)
    BY <1>1, <2>1 DEF CallFor
  <2>3. q.pc \in {"ok", "err", "forward"}
    BY <2>1
  <2> HIDE DEF found, pc
  <2> QED
    BY <1>1, <1>2, <1>3, <1>5, <1>6, <2>1, <2>2, <2>3, AloneKeeps
<1> QED
  BY <1>3, <1>7, <1>8

\* The proxy answered, or failed.
LEMMA ForwardKeeps ==
  ASSUME HInv, TInv', NEW g \in Guests, Forward(g)
  PROVE  HInv'
<1>1. req[g] # NoRequest /\ req[g] \in Request /\ ~req[g].hit /\ task[g] = Idle
  BY HandlingIsRequest DEF Forward, HInv, HTypeOK, ReqPCs, RequestWell
<1>2. bucket' = bucket /\ task' = task /\ fetched' = fetched
  BY DEF Forward, tvars
<1>3. PICK q : /\ \/ \E b \in Bodies, v \in Values : q = [req[g] EXCEPT !.pc = "body",
                                              !.resp = [body |-> b, whole |-> TRUE, value |-> v, etag |-> "upstream"]]
                  \/ q = [req[g] EXCEPT !.pc = "err"]
               /\ req' = [req EXCEPT ![g] = q]
  BY ZenonT(30) DEF Forward
<1> DEFINE Fine == /\ q \in Request /\ q.control = req[g].control /\ q.shape = req[g].shape
                   /\ q.header = req[g].header /\ q.hit = req[g].hit
                   /\ q.pc \in {"body", "err"} /\ (q.pc = "body" => q.resp \in Response)
<1>4. Fine
  <2>1. CASE q = [req[g] EXCEPT !.pc = "err"]
    BY <1>1, <2>1 DEF Request, ReqPCs
  <2>2. ASSUME NEW b \in Bodies, NEW v \in Values,
               q = [req[g] EXCEPT !.pc = "body", !.resp = [body |-> b, whole |-> TRUE, value |-> v, etag |-> "upstream"]]
        PROVE  Fine
    <3>1. [body |-> b, whole |-> TRUE, value |-> v, etag |-> "upstream"] \in Response
      BY RequestsAssumption DEF Response
    <3> QED
      BY <1>1, <2>2, <3>1 DEF Request, ReqPCs
  <2> QED
    BY <1>3, <2>1, <2>2
<1> QED
  BY <1>1, <1>2, <1>3, <1>4, AloneKeeps

\* A bucket cannot be opened, cache.set returned, the answer is taken, or the
\* instance ends.
LEMMA LeavingKeeps ==
  ASSUME HInv, TInv', NEW g \in Guests, OpenFails(g) \/ Stored(g) \/ Panic(g) \/ Answer(g) \/ Abandon(g)
  PROVE  HInv'
<1>1. CASE Stored(g)
  <2>1. req[g] # NoRequest /\ req[g] \in Request /\ ~req[g].hit
    BY <1>1, HandlingIsRequest DEF Stored, HInv, ReqPCs, RequestWell
  <2>2. bucket' = bucket /\ task' = [task EXCEPT ![g] = Idle] /\ fetched' = fetched
    BY <1>1 DEF Stored, Return
  <2>3. PICK q : /\ q = [req[g] EXCEPT !.pc = task[g].pc,
                                       !.resp = IF task[g].pc = "err" THEN Missing ELSE req[g].resp]
                 /\ req' = [req EXCEPT ![g] = q]
    BY <1>1 DEF Stored
  <2>4. task[g].pc \in {"ok", "err"}
    BY <1>1 DEF Stored, Return
  <2>5. /\ q \in Request /\ q.control = req[g].control /\ q.shape = req[g].shape /\ q.hit = req[g].hit
        /\ q.header = req[g].header /\ q.pc \in {"ok", "err"}
    BY <2>1, <2>3, <2>4 DEF Request, ReqPCs
  <2>6. task'[g] = Idle /\ \A h \in Guests : h # g => task'[h] = task[h]
    BY <2>2 DEF HInv, TInv, TypeOK
  <2> QED
    BY <2>1, <2>2, <2>3, <2>5, <2>6, AloneKeeps
<1>2. CASE Panic(g) \/ Answer(g) \/ Abandon(g)
  <2>1. req' = [req EXCEPT ![g] = NoRequest] /\ fetched' = fetched /\ bucket' = bucket
    BY <1>2 DEF Panic, Answer, Abandon, End, tvars
  <2>2. task'[g] = Idle /\ \A h \in Guests : h # g => task'[h] = task[h]
    BY <1>2 DEF Panic, Answer, Abandon, End, tvars, HInv, HTypeOK, TInv, TypeOK
  <2>3. NoRequest.pc \notin {"lookup", "store"}
    BY DEF NoRequest
  <2> QED
    BY <2>1, <2>2, <2>3, AloneKeeps
<1>3. CASE OpenFails(g)
  <2>1. /\ req[g] # NoRequest /\ req[g] \in Request /\ ~req[g].hit /\ task[g] = Idle
    BY <1>3, HandlingIsRequest DEF OpenFails, HInv, HTypeOK, ReqPCs, RequestWell
  <2>2. bucket' = bucket /\ task' = task /\ fetched' = fetched
    BY <1>3 DEF OpenFails, tvars
  <2>3. PICK q : q = [req[g] EXCEPT !.pc = "err", !.resp = Missing] /\ req' = [req EXCEPT ![g] = q]
    <3>1. req' = [req EXCEPT ![g].pc = "err", ![g].resp = Missing]
      BY <1>3 DEF OpenFails
    <3> QED
      BY <3>1
  <2>4. /\ q \in Request /\ q.control = req[g].control /\ q.shape = req[g].shape /\ q.hit = req[g].hit
        /\ q.header = req[g].header /\ q.pc = "err"
    BY <2>1, <2>3 DEF Request, ReqPCs
  <2> QED
    BY <2>1, <2>2, <2>3, <2>4, AloneKeeps
<1> QED
  BY <1>1, <1>2, <1>3

\* The body ended: the response is labelled, and on its way into the cache if it may
\* be kept.
LEMMA ReadBodyKeeps ==
  ASSUME HInv, TInv', NEW g \in Guests, ReadBody(g)
  PROVE  HInv'
<1> DEFINE c == req[g].control
<1> DEFINE pc == IF Cached(req[g]) /\ MayStore(c) THEN "put" ELSE "ok"
<1> DEFINE keeps == Cached(req[g]) /\ req[g].shape \in Keys /\ C!Keepable(req[g].header)
<1> DEFINE e == req[g].shape
<1>1. /\ req[g] # NoRequest /\ req[g] \in Request /\ ~req[g].hit /\ task[g] = Idle
      /\ req[g].resp \in Response /\ c \in Control
  BY HandlingIsRequest DEF ReadBody, HInv, HTypeOK, ReqPCs, RequestWell, Request
<1>2. /\ c.etag # C!NoEtag => c.etag = e
      /\ MayStore(c) => C!Keepable(req[g].header)
  BY <1>1 DEF HInv, RequestWell
<1>3. MayStore(c) => c.etag \in Keys /\ c.etag = e
  BY <1>1, <1>2 DEF MayStore, Control
<1>4. pc = "put" => keeps /\ MayStore(c)
  BY <1>2, <1>3
<1>0. PICK whole \in BOOLEAN :
        /\ req' = [req EXCEPT ![g].pc = pc, ![g].resp = Labelled(req[g], whole)]
        /\ fetched' = IF keeps THEN [fetched EXCEPT ![e] = @ \cup {Labelled(req[g], whole)}] ELSE fetched
  BY DEF ReadBody
<1>5. PICK resp : resp = Labelled(req[g], whole)
  OBVIOUS
<1>6. resp \in Response /\ (Cached(req[g]) => resp.etag = c.etag)
  BY <1>1, <1>5 DEF Labelled, Response, Control
<1>7. PICK q : q = [req[g] EXCEPT !.pc = pc, !.resp = resp] /\ req' = [req EXCEPT ![g] = q]
  <2>1. req' = [req EXCEPT ![g].pc = pc, ![g].resp = resp]
    BY <1>0, <1>5
  <2> HIDE DEF pc
  <2> QED
    BY <2>1
<1>8. /\ q \in Request /\ q.control = c /\ q.shape = e /\ q.hit = req[g].hit /\ q.pc = pc
      /\ q.header = req[g].header /\ q.resp = resp
  <2>1. pc \in ReqPCs
    BY DEF ReqPCs
  <2> HIDE DEF pc
  <2> QED
    BY <1>1, <1>6, <1>7, <2>1 DEF Request
<1>9. /\ fetched' \in [Keys -> SUBSET Response]
      /\ \A x \in Keys : fetched[x] \subseteq fetched'[x]
      /\ keeps => resp \in fetched'[e]
  <2>1. fetched \in [Keys -> SUBSET Response]
    BY DEF HInv, HTypeOK
  <2>2. CASE ~keeps
    BY <1>0, <2>1, <2>2
  <2>3. CASE keeps
    <3>1. e \in Keys /\ fetched' = [fetched EXCEPT ![e] = @ \cup {resp}]
      BY <1>0, <1>5, <2>3
    <3> HIDE DEF keeps, e
    <3> QED
      BY <1>6, <2>1, <3>1
  <2> QED
    BY <2>2, <2>3
<1>10. bucket' = bucket /\ task' = task
  BY DEF ReadBody, tvars
<1>11. BucketWell'
  BY <1>9, <1>10 DEF HInv, BucketWell, Kept
<1>12. req'[g] = q
  BY <1>7 DEF HInv, HTypeOK
<1>13. q.pc \in {"put", "ok"}
  BY <1>8
<1>14. q.pc = "put" => /\ MayStore(c) /\ q.resp.etag = c.etag /\ q.resp \in fetched'[c.etag]
                      /\ q.resp \in Response
  BY <1>3, <1>4, <1>6, <1>8, <1>9
<1> HIDE DEF c, e, pc, keeps
<1>15. RequestWell(g)'
  <2>1. RequestWell(g)
    BY DEF HInv
  <2> QED
    BY <1>1, <1>8, <1>12, <1>13, <1>14, <2>1 DEF RequestWell, c, e
<1>16. CallWell(g)'
  BY <1>12, <1>13 DEF CallWell
<1> QED
  BY <1>1, <1>7, <1>8, <1>9, <1>10, <1>11, <1>13, <1>15, <1>16, OneGuest

\* The bucket is open, and the response on its way into it.
LEMMA StoreKeeps ==
  ASSUME HInv, TInv', NEW g \in Guests, Store(g)
  PROVE  HInv'
<1>0. PICK c, v : c = req[g].control /\ v = Serialized(req[g].resp)
  OBVIOUS
<1>1. /\ req[g] # NoRequest /\ req[g] \in Request /\ MayStore(c) /\ ~req[g].hit
      /\ c.etag \in Keys /\ c.max_age \in Ttls
      /\ v \in Payloads /\ Kept(c.etag, v)
  BY <1>0, Putting DEF Store
<1>2. BeginSet(g, c.etag, v, c.max_age) /\ fetched' = fetched
  BY <1>0 DEF Store
<1>3. PICK q : q = [req[g] EXCEPT !.pc = "store"] /\ req' = [req EXCEPT ![g] = q]
  BY DEF Store
<1>4. /\ q \in Request /\ q.control = c /\ q.shape = req[g].shape
      /\ q.header = req[g].header /\ q.hit = req[g].hit /\ q.pc = "store"
  BY <1>0, <1>1, <1>3 DEF Request, ReqPCs
<1>5. PICK new : /\ new.val = v /\ new.exp # Never
                 /\ task' = [task EXCEPT ![g] = Call("set", c.etag, new)] /\ bucket' = bucket
  <2>1. c.max_age # Never
    <3>1. c.max_age \in Ttls
      BY <1>1
    <3>2. c.max_age \in Nat
      BY <3>1, AgesAreNat
    <3>3. Never \notin Nat
      BY TtlAssumption
    <3> QED
      BY <3>2, <3>3
  <2>2. Envelope(v, c.max_age).val = v
    BY DEF Envelope
  <2>3. Envelope(v, c.max_age).exp # Never
    <3>1. now \in Nat /\ Sec \in Nat \ {0} /\ Never \notin Int
      BY TtlAssumption DEF HInv, TInv, TypeOK
    <3>2. ExpiresAt(c.max_age) \in Int
      BY <1>1, <3>1, ExpiryIsNoLater
    <3>3. (ExpiresAt(c.max_age) \div Sec) * Sec \in Int
      BY <3>1, <3>2, RoundDown
    <3> QED
      BY <3>1, <3>3 DEF Envelope
  <2> QED
    BY <1>2, <2>1, <2>2, <2>3 DEF BeginSet
<1>6. /\ task'[g] = Call("set", c.etag, new)
      /\ \A h \in Guests : h # g => task'[h] = task[h]
  BY <1>5 DEF HInv, TInv, TypeOK
<1>7. req'[g] = q
  BY <1>3 DEF HInv, HTypeOK
<1>8. task'[g] # Idle
  BY <1>6 DEF Call, Idle
<1>9. RequestWell(g)'
  BY <1>0, <1>1, <1>4, <1>7 DEF HInv, RequestWell
<1>10. CallWell(g)'
  <2>1. Kept(c.etag, v)'
    BY <1>1, <1>2 DEF Kept
  <2> QED
    BY <1>1, <1>4, <1>5, <1>6, <1>7, <2>1 DEF CallWell, CallFor, Call
<1>11. BucketWell' /\ fetched' \in [Keys -> SUBSET Response]
  BY <1>2, <1>5 DEF HInv, HTypeOK, BucketWell, Kept
<1> QED
  BY <1>2, <1>3, <1>4, <1>5, <1>6, <1>8, <1>9, <1>10, <1>11, OneGuest

\* A step inside a call carries on what was fetched for its etag, and no other.
LEMMA InCacheKeeps ==
  ASSUME HInv, TInv', NEW g \in Guests, InCache(g)
  PROVE  HInv'
<1> DEFINE k == req[g].control.etag
<1> DEFINE t == task[g]
<1>1. t # Idle /\ t \in Task
  BY RunningIsTask DEF HInv, TInv, InCache, Work, Read, Check, Expire, Write, Remove, Fail, PCs
<1>2. req[g].pc \in {"lookup", "store"}
  BY <1>1 DEF HInv, HTypeOK
<1>3. req[g] \in Request /\ k \in Keys /\ CallFor(g, k)
  BY <1>2, WaitingIsCalling
<1>4. fetched' = fetched /\ req' = req
  BY DEF InCache
<1>5. /\ t.key = k /\ t.pc # "remove"
      /\ t.new # Missing => Kept(k, t.new.val) /\ t.new.exp # Never
      /\ t.entry # Missing => Kept(k, t.entry.val)
      /\ t.res # Missing => Kept(k, t.res) /\ t.pc # "err"
  BY <1>3 DEF CallFor
<1> DEFINE Good(u) ==
      /\ u \in Task /\ task' = [task EXCEPT ![g] = u]
      /\ u.key = k /\ u.pc # "remove" /\ u.new = t.new
      /\ u.entry # Missing => Kept(k, u.entry.val)
      /\ u.res # Missing => Kept(k, u.res) /\ u.pc # "err"
<1>6. \E u : Good(u)
  <2>1. CASE Read(g)
    <3> DEFINE u == [t EXCEPT !.pc = "check", !.entry = bucket[t.key]]
    <3>1. bucket[k] # Missing => Kept(k, bucket[k].val)
      BY <1>3 DEF HInv, BucketWell
    <3>2. bucket[k] \in Entry \cup {Missing}
      BY <1>3 DEF HInv, TInv, TypeOK
    <3>3. Good(u)
      BY <1>1, <1>5, <2>1, <3>1, <3>2 DEF Read, Task, PCs
    <3> QED
      BY <3>3
  <2>2. ASSUME NEW res \in Payloads \cup {Missing}, res # Missing => Kept(k, res), GetDone(g, res)
        PROVE  \E u : Good(u)
    <3> DEFINE u == [t EXCEPT !.pc = IF t.op = "get" THEN "ok" ELSE "write", !.res = res]
    <3>1. Good(u)
      BY <1>1, <1>5, <2>2 DEF GetDone, Task, PCs
    <3> QED
      BY <3>1
  <2>3. CASE Check(g)
    <3>1. CASE GetDone(g, Missing) \/ (t.entry # Missing /\ GetDone(g, t.entry.val))
      BY <1>1, <1>5, <2>2, <3>1 DEF Task, Entry
    <3>2. CASE task' = [task EXCEPT ![g].pc = "expire"]
      <4> DEFINE u == [t EXCEPT !.pc = "expire"]
      <4>1. Good(u)
        BY <1>1, <1>5, <3>2 DEF Task, PCs
      <4> QED
        BY <4>1
    <3> QED
      BY <2>3, <3>1, <3>2 DEF Check
  <2>4. CASE Expire(g)
    BY <2>2, <2>4 DEF Expire
  <2>5. CASE Write(g)
    <3> DEFINE u == [t EXCEPT !.pc = "ok"]
    <3>1. Good(u)
      BY <1>1, <1>5, <2>5 DEF Write, Task, PCs
    <3> QED
      BY <3>1
  <2>6. CASE Fail(g)
    <3> DEFINE u == [t EXCEPT !.pc = "err", !.res = Missing]
    <3>1. Good(u)
      BY <1>1, <1>5, <2>6 DEF Fail, Task, PCs
    <3> QED
      BY <3>1
  <2>7. ~Remove(g)
    BY <1>5 DEF Remove
  <2> QED
    BY <2>1, <2>3, <2>4, <2>5, <2>6, <2>7 DEF InCache, Work
<1>7. BucketWell'
  <2>1. \/ bucket' = bucket \/ bucket' = [bucket EXCEPT ![k] = Missing]
        \/ bucket' = [bucket EXCEPT ![k] = t.new]
    BY <1>5 DEF InCache, Work, Read, Check, Expire, Write, Remove, Fail
  <2> QED
    BY <1>3, <1>4, <1>5, <2>1 DEF HInv, TInv, TypeOK, BucketWell, Kept
<1>8. PICK u : Good(u)
  BY <1>6
<1>9. task'[g] = u /\ \A h \in Guests : h # g => task'[h] = task[h]
  BY <1>8 DEF HInv, TInv, TypeOK
<1>10. CallFor(g, k)'
  BY <1>4, <1>5, <1>8, <1>9 DEF CallFor, Kept
<1>11. RequestWell(g)' /\ CallWell(g)'
  BY <1>4, <1>10 DEF HInv, RequestWell, CallWell, Kept
<1>12. u # Idle
  BY <1>8, IdleIsNoTask
<1>13. req' = [req EXCEPT ![g] = req[g]]
  BY <1>4 DEF HInv, HTypeOK
<1>14. fetched' \in [Keys -> SUBSET Response]
  BY <1>4 DEF HInv, HTypeOK
<1> HIDE DEF Good, t, k
<1> QED
  BY <1>2, <1>3, <1>4, <1>7, <1>9, <1>11, <1>12, <1>13, <1>14, OneGuest

\* Every step of HttpCache keeps the invariant.
LEMMA HttpNext == HInv /\ [HNext]_hvars => HInv'
<1> SUFFICES ASSUME HInv, [HNext]_hvars PROVE HInv'
  OBVIOUS
<1>1. TInv'
  BY CacheKeeps
<1>2. CASE Clock \/ UNCHANGED hvars
  <2>1. req' = req /\ fetched' = fetched /\ task' = task /\ bucket' = bucket
    BY <1>2 DEF Clock, Tick, hvars, tvars
  <2>2. HTypeOK'
    BY <1>1, <2>1 DEF HInv, HTypeOK, TInv
  <2>3. BucketWell'
    BY <2>1 DEF HInv, BucketWell, Kept
  <2>4. \A g \in Guests : RequestWell(g)' /\ CallWell(g)'
    BY <2>1 DEF HInv, RequestWell, CallWell, CallFor, Kept
  <2> QED
    BY <1>1, <2>2, <2>3, <2>4 DEF HInv
<1>3. ASSUME NEW g \in Guests, Handle(g) \/ Abandon(g)
      PROVE  HInv'
  BY <1>1, <1>3, StartKeeps, LookupKeeps, LookedUpKeeps, ForwardKeeps, ReadBodyKeeps, StoreKeeps,
     LeavingKeeps, InCacheKeeps DEF Handle
<1> QED
  BY <1>2, <1>3 DEF HNext

\* So it always holds.
LEMMA HttpInvariant == HSpec => []HInv
BY HttpInit, HttpNext, PTL DEF HSpec

-----------------------------------------------------------------------------
(* HttpCache: its theorems.                                                  *)

\* The caches and the requests keep their types, and a request is in a cache call
\* exactly when it waits for one, for any headers guests may send.
THEOREM HttpTypeCorrect == HSpec => []HTypeOK
<1>1. HInv => HTypeOK
  BY DEF HInv
<1> QED
  BY <1>1, HttpInvariant, PTL

\* handle() is a proper user of TtlCache: what it does to the cache is what callers
\* of the cache may do, so all that is proved of the cache holds under it too.
THEOREM HandleUsesTheCache == HSpec => Spec
<1>1. HInit => Init
  BY DEF HInit
<1>2. HInv /\ [HNext]_hvars => [Next]_tvars
  BY HandleIsCacheStep DEF hvars
<1> QED
  BY <1>1, <1>2, HttpInvariant, PTL DEF HSpec, Spec

\* What the bucket holds under an etag was fetched for a request that carried the
\* etag and whose directives, as they were sent, said neither no-store nor, in the
\* end, a max-age of zero; and it will expire.
THEOREM OnlyStorableIsStored == HSpec => []BucketHoldsOnlyStorable
<1>1. HInv => BucketHoldsOnlyStorable
  BY DEF HInv, BucketWell, Kept, BucketHoldsOnlyStorable
<1> QED
  BY <1>1, HttpInvariant, PTL

\* A cached answer is a response fetched before under the etag the request asked
\* for, but for header values that were not text, labelled with it, and given only
\* to a request that allows it.
THEOREM HitsAreEarlierResponses == HSpec => []HitIsEarlierResponse
<1>1. HInv => HitIsEarlierResponse
  <2> SUFFICES ASSUME HInv, NEW g \in Guests, req[g].pc = "ok", req[g].hit
               PROVE  /\ MayRead(req[g].control)
                      /\ \E resp \in fetched[req[g].control.etag] : req[g].resp = Serialized(resp)
                      /\ req[g].resp.etag = req[g].shape
    BY DEF HitIsEarlierResponse
  <2>1. req[g] # NoRequest
    BY HandlingIsRequest DEF HInv, ReqPCs
  <2>2. /\ MayRead(req[g].control) /\ Kept(req[g].control.etag, req[g].resp)
        /\ req[g].control.etag # C!NoEtag => req[g].control.etag = req[g].shape
    BY <2>1 DEF HInv, RequestWell
  <2> QED
    BY <2>2 DEF MayRead, Kept
<1> QED
  BY <1>1, HttpInvariant, PTL

\* A response is never handed out once its max-age has passed, whatever u64 that
\* was, nor taken for expired before its last second if it was less than 2^63; and
\* the clean-up takes only what was due, as of any user of TtlCache.
THEOREM MaxAgeIsHonoured == HSpec => TtlHonoured /\ CleanupTakesOnlyTheDue
BY HandleUsesTheCache, TtlsAreHonoured, CleanupTakesTheDue
=============================================================================
