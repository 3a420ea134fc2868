-------------------------- MODULE HttpServer_proofs --------------------------
(***************************************************************************)
(* Theorems about HttpServer for any connections, instances, requests,     *)
(* scopes and deployments: clients are answered in turn by the guests of   *)
(* their own requests, and what the guests trace is sent on once.          *)
(***************************************************************************)
EXTENDS HttpServer, SequenceTheorems, TLAPS

-----------------------------------------------------------------------------
(* The telemetry of one instance.                                            *)

Spawned == [kind: {"traces", "metrics"}, spans: SUBSET Nat]
Telemetry ==
  [provider: {"unset", "set", "shut"}, open: SUBSET Nat, entered: Nat, guard: Nat,
   spans: SUBSET Nat, exports: SUBSET Spawned, exported: [Scopes -> Nat],
   left: SUBSET Nat, faulty: BOOLEAN]

\* What Enter does, field by field.
LEMMA EnterFields ==
  ASSUME NEW t \in Telemetry, NEW b \in BOOLEAN, NEW u, u = Enter(t, b)
  PROVE  /\ u \in Telemetry
         /\ u.provider = (IF t.provider = "unset" THEN "set" ELSE t.provider)
         /\ u.open = t.open \cup {t.entered + 1}
         /\ u.entered = t.entered + 1
         /\ u.guard = (IF t.provider = "unset" /\ b THEN t.entered + 1 ELSE t.guard)
         /\ u.spans = t.spans /\ u.exports = t.exports /\ u.exported = t.exported
         /\ u.left = t.left
         /\ t.faulty => u.faulty
         /\ t.provider = "unset" /\ ~b => u.faulty
<1> DEFINE first == t.provider = "unset"
           f == t.faulty \/ (first /\ ~b)
           p == IF first THEN "set" ELSE t.provider
           g == IF first /\ b THEN t.entered + 1 ELSE t.guard
           n == t.entered + 1
           o == t.open \cup {n}
<1>1. f \in BOOLEAN /\ (t.faulty => f) /\ (first /\ ~b => f)
  OBVIOUS
<1>2. p \in {"unset", "set", "shut"} /\ g \in Nat /\ n \in Nat /\ o \in SUBSET Nat
  BY DEF Telemetry
<1>3. u = [t EXCEPT !.entered = n, !.open = o, !.provider = p, !.guard = g, !.faulty = f]
  BY DEF Enter
<1>4. /\ p = (IF t.provider = "unset" THEN "set" ELSE t.provider) /\ n = t.entered + 1
      /\ g = (IF t.provider = "unset" /\ b THEN t.entered + 1 ELSE t.guard)
      /\ o = t.open \cup {t.entered + 1}
  OBVIOUS
<1>5. first <=> t.provider = "unset"
  OBVIOUS
<1> HIDE DEF f, p, g, n, o, first
<1>6. /\ u \in Telemetry /\ u.entered = n /\ u.open = o /\ u.provider = p /\ u.guard = g
      /\ u.spans = t.spans /\ u.exports = t.exports /\ u.exported = t.exported /\ u.left = t.left
  BY <1>1, <1>2, <1>3 DEF Telemetry
<1>7. u.faulty = f
  BY <1>1, <1>3 DEF Telemetry
<1> QED
  BY <1>1, <1>4, <1>5, <1>6, <1>7

\* t, with the span of scope s ended.
SpanEnded(t, s, u) ==
  /\ u \in Telemetry
  /\ u.provider = t.provider /\ u.open = t.open /\ u.entered = t.entered
  /\ u.guard = t.guard /\ u.exports = t.exports /\ u.exported = t.exported
  /\ u.spans = (IF t.provider = "set" THEN t.spans \cup {s} ELSE t.spans)
  /\ u.left = (IF 1 \in t.open THEN t.left \cup {s} ELSE t.left)
  /\ u.faulty = t.faulty

\* What SpanEnds does.
LEMMA SpanEndsFields ==
  ASSUME NEW t \in Telemetry, NEW s \in Nat, NEW u, u = SpanEnds(t, s)
  PROVE  SpanEnded(t, s, u)
  BY DEF SpanEnded, SpanEnds, Telemetry

\* What Shutdown does.
LEMMA ShutdownFields ==
  ASSUME NEW t \in Telemetry, NEW u, u = Shutdown(t)
  PROVE  /\ u \in Telemetry
         /\ u.provider = "shut" /\ u.open = t.open /\ u.entered = t.entered
         /\ u.guard = 0 /\ u.exported = t.exported /\ u.spans = t.spans /\ u.left = t.left
         /\ u.exports = t.exports \cup {Metrics} \cup (IF t.spans = {} THEN {} ELSE {Traces(t.spans)})
         /\ u.faulty = t.faulty
<1>1. Metrics \in Spawned /\ (t.spans # {} => Traces(t.spans) \in Spawned)
  BY DEF Metrics, Traces, Spawned, Telemetry
<1> QED
  BY <1>1 DEF Shutdown, Telemetry

\* t, with the export e run, to success or failure.
Exported(t, e, b, u) ==
  /\ u \in Telemetry
  /\ u.provider = t.provider /\ u.open = t.open /\ u.entered = t.entered
  /\ u.guard = t.guard /\ u.exports = t.exports \ {e} /\ u.spans = t.spans /\ u.left = t.left
  /\ \A s \in Scopes : u.exported[s] = IF s \in e.spans /\ b THEN t.exported[s] + 1 ELSE t.exported[s]
  /\ t.faulty => u.faulty
  /\ e # Metrics /\ ~b => u.faulty

\* What Export does, once there is a resource.
LEMMA ExportFields ==
  ASSUME NEW t \in Telemetry, NEW e \in t.exports, NEW b \in BOOLEAN, NEW u, u = Export(t, e, TRUE, b)
  PROVE  Exported(t, e, b, u)
<1> DEFINE f == t.faulty \/ (e # Metrics /\ ~b)
           x == t.exports \ {e}
           y == [s \in Scopes |-> IF s \in e.spans /\ b THEN t.exported[s] + 1 ELSE t.exported[s]]
<1>1. f \in BOOLEAN /\ (t.faulty => f) /\ (e # Metrics /\ ~b => f)
  OBVIOUS
<1>2. x \in SUBSET Spawned /\ y \in [Scopes -> Nat]
  BY DEF Telemetry
<1>3. u = [t EXCEPT !.exports = x, !.exported = y, !.faulty = f]
  BY DEF Export
<1>4. /\ x = t.exports \ {e}
      /\ \A s \in Scopes : y[s] = IF s \in e.spans /\ b THEN t.exported[s] + 1 ELSE t.exported[s]
  OBVIOUS
<1> HIDE DEF f, x, y
<1>5. /\ u \in Telemetry /\ u.exports = x /\ u.exported = y
      /\ u.entered = t.entered /\ u.open = t.open /\ u.provider = t.provider /\ u.guard = t.guard
      /\ u.spans = t.spans /\ u.left = t.left
  BY <1>1, <1>2, <1>3 DEF Telemetry
<1>6. u.faulty = f
  BY <1>1, <1>3 DEF Telemetry
<1> QED
  BY <1>1, <1>4, <1>5, <1>6 DEF Exported

\* Nothing exported, nothing on its way.
Unused(t) == t.exports = {} /\ \A s \in Scopes : t.exported[s] = 0
\* Before the first scope, while it is open, after it.
Before(t) == /\ t.provider = "unset" /\ t.guard = 0 /\ t.entered = 0
             /\ t.spans = {} /\ t.left = {} /\ Unused(t)
During(t) == t.provider = "set" /\ t.guard = 1 /\ 1 \in t.open /\ t.spans = t.left /\ Unused(t)
After(t) ==
  /\ t.provider = "shut" /\ t.guard = 0 /\ t.entered # 0 /\ 1 \notin t.open /\ t.left # {}
  /\ t.exports \subseteq {Metrics, Traces(t.left)}
  /\ \A s \in Scopes :
       t.exported[s] = IF s \in t.left /\ Traces(t.left) \notin t.exports THEN 1 ELSE 0

\* The invariant of one instance's telemetry.
TelOK(t) ==
  /\ t \in Telemetry /\ t.open \subseteq 1..t.entered
  /\ t.faulty \/ Before(t) \/ During(t) \/ After(t)

\* A new instance is before its first scope.
LEMMA FreshOK == TelOK(Fresh)
<1>1. Fresh \in Telemetry
  BY DEF Fresh, Telemetry
<1> QED
  BY <1>1 DEF Fresh, TelOK, Before, Unused

\* To enter a scope makes the first one the guard's, unless init failed.
LEMMA EnterOK ==
  ASSUME NEW t, TelOK(t), NEW b \in BOOLEAN
  PROVE  TelOK(Enter(t, b))
<1>1. PICK u : u = Enter(t, b)
  OBVIOUS
<1>2. t \in Telemetry /\ t.entered \in Nat /\ t.open \subseteq 1..t.entered
  BY DEF TelOK, Telemetry
<1>3. /\ u \in Telemetry
      /\ u.provider = (IF t.provider = "unset" THEN "set" ELSE t.provider)
      /\ u.open = t.open \cup {t.entered + 1}
      /\ u.entered = t.entered + 1
      /\ u.guard = (IF t.provider = "unset" /\ b THEN t.entered + 1 ELSE t.guard)
      /\ u.spans = t.spans /\ u.exports = t.exports /\ u.exported = t.exported
      /\ u.left = t.left
      /\ t.faulty => u.faulty
      /\ t.provider = "unset" /\ ~b => u.faulty
  BY <1>1, <1>2, EnterFields
<1>4. u.open \subseteq 1..u.entered
  BY <1>2, <1>3
<1>5. Before(t) => u.faulty \/ During(u)
  BY <1>2, <1>3 DEF Before, During, Unused
<1>6. During(t) => During(u)
  BY <1>2, <1>3 DEF During, Unused
<1>7. After(t) => After(u)
  BY <1>2, <1>3 DEF After
<1> QED
  BY <1>1, <1>3, <1>4, <1>5, <1>6, <1>7 DEF TelOK

\* To leave a scope keeps its span for the export; to leave the first one begins it.
LEMMA LeaveOK ==
  ASSUME NEW t, TelOK(t), NEW s \in t.open
  PROVE  TelOK(Leave(t, s))
<1>1. /\ t \in Telemetry /\ t.entered \in Nat /\ t.open \subseteq 1..t.entered
      /\ s \in Nat /\ s # 0
  BY DEF TelOK, Telemetry
<1>2. PICK v : v = SpanEnds(t, s)
  OBVIOUS
<1>3. SpanEnded(t, s, v)
  BY <1>1, <1>2, SpanEndsFields
<1>4. PICK w : w = [v EXCEPT !.open = v.open \ {s}]
  OBVIOUS
<1>5. /\ w \in Telemetry
      /\ w.provider = v.provider /\ w.open = v.open \ {s} /\ w.entered = v.entered
      /\ w.guard = v.guard /\ w.exports = v.exports /\ w.exported = v.exported
      /\ w.spans = v.spans /\ w.left = v.left /\ w.faulty = v.faulty
  BY <1>3, <1>4 DEF Telemetry, SpanEnded
<1>6. Leave(t, s) = IF w.guard = s THEN Shutdown(w) ELSE w
  BY <1>2, <1>4 DEF Leave
<1>7. w.open \subseteq 1..w.entered
  BY <1>1, <1>3, <1>5 DEF SpanEnded
<1>8. CASE w.guard # s
  <2>1. ~Before(t)
    BY <1>1 DEF Before
  <2>2. During(t) => During(w)
    BY <1>3, <1>5, <1>8 DEF During, Unused, SpanEnded
  <2>3. After(t) => After(w)
    BY <1>3, <1>5 DEF After, SpanEnded
  <2>4. w.faulty \/ During(w) \/ After(w)
    BY <1>3, <1>5, <2>1, <2>2, <2>3 DEF TelOK, SpanEnded
  <2> QED
    BY <1>5, <1>6, <1>7, <1>8, <2>4 DEF TelOK
<1>9. CASE w.guard = s
  <2>1. PICK u : u = Shutdown(w)
    OBVIOUS
  <2>2. /\ u \in Telemetry
        /\ u.provider = "shut" /\ u.open = w.open /\ u.entered = w.entered
        /\ u.guard = 0 /\ u.exported = w.exported /\ u.spans = w.spans /\ u.left = w.left
        /\ u.exports = w.exports \cup {Metrics} \cup (IF w.spans = {} THEN {} ELSE {Traces(w.spans)})
        /\ u.faulty = w.faulty
    BY <1>5, <2>1, ShutdownFields
  <2>3. ~Before(t) /\ ~After(t)
    BY <1>1, <1>3, <1>5, <1>9 DEF Before, After, SpanEnded
  <2>4. During(t) => After(u)
    <3> SUFFICES ASSUME During(t) PROVE After(u)
      OBVIOUS
    <3>1. s = 1 /\ u.left = t.left \cup {1} /\ w.spans = u.left /\ t.exports = {}
      BY <1>3, <1>5, <1>9, <2>2 DEF During, Unused, SpanEnded
    <3>2. u.exports = {Metrics, Traces(u.left)} /\ u.left # {}
      BY <1>3, <1>5, <2>2, <3>1 DEF SpanEnded
    <3>3. \A x \in Scopes : u.exported[x] = 0
      BY <1>3, <1>5, <2>2 DEF During, Unused, SpanEnded
    <3>4. 1 \notin u.open /\ u.entered # 0
      BY <1>1, <1>3, <1>5, <2>2, <3>1 DEF SpanEnded
    <3> QED
      BY <2>2, <3>2, <3>3, <3>4 DEF After
  <2>5. u.faulty \/ After(u)
    BY <1>3, <1>5, <2>2, <2>3, <2>4 DEF TelOK, SpanEnded
  <2> QED
    BY <1>6, <1>7, <1>9, <2>1, <2>2, <2>5 DEF TelOK
<1> QED
  BY <1>8, <1>9

\* An export, whichever of the two comes first, sends the spans on or is a fault.
LEMMA ExportOK ==
  ASSUME NEW t, TelOK(t), NEW e \in t.exports, NEW b \in BOOLEAN
  PROVE  TelOK(Export(t, e, TRUE, b))
<1>1. PICK u : u = Export(t, e, TRUE, b)
  OBVIOUS
<1>2. t \in Telemetry
  BY DEF TelOK
<1>3. Exported(t, e, b, u)
  BY <1>1, <1>2, ExportFields
<1>4. ~Before(t) /\ ~During(t)
  BY DEF Before, During, Unused
<1>5. After(t) => u.faulty \/ After(u)
  <2> SUFFICES ASSUME After(t), ~u.faulty PROVE After(u)
    OBVIOUS
  <2>1. Metrics # Traces(t.left) /\ Metrics.spans = {} /\ Traces(t.left).spans = t.left
    BY DEF Metrics, Traces
  <2>2. CASE e = Metrics
    <3>1. \A s \in Scopes : u.exported[s] = t.exported[s]
      BY <1>3, <2>1, <2>2 DEF Exported
    <3> QED
      BY <1>3, <2>1, <2>2, <3>1 DEF After, Exported
  <2>3. CASE e = Traces(t.left)
    <3>1. b = TRUE
      BY <1>3, <2>1, <2>3 DEF Exported
    <3>2. \A s \in Scopes : t.exported[s] = 0 /\ u.exported[s] = IF s \in t.left THEN 1 ELSE 0
      BY <1>3, <2>1, <2>3, <3>1 DEF After, Exported
    <3> QED
      BY <1>3, <2>1, <2>3, <3>2 DEF After, Exported
  <2> QED
    BY <2>2, <2>3 DEF After
<1> QED
  BY <1>1, <1>3, <1>4, <1>5 DEF TelOK, Exported

\* What is exported when nothing of the guest runs any more.
LEMMA QuietIsFlushed ==
  ASSUME NEW t, TelOK(t), Quiet(t), ~t.faulty, NEW s \in Scopes
  PROVE  t.exported[s] = IF s \in t.left THEN 1 ELSE 0
<1>1. ~During(t) /\ (Before(t) \/ After(t))
  BY DEF TelOK, During, Quiet
<1> QED
  BY <1>1 DEF Before, After, Unused, Quiet
-----------------------------------------------------------------------------
(* The inductive invariant.                                                  *)

Fates == {"none", "responded", "trapped", "failed", "gone"}
Answered == {"responded", "trapped"}
Request == 1..Len(fate)

AnswerType == [to: Nat, kind: {"guest", "error"}]
Connection == [st: {"open", "waiting", "body"}, asked: Seq(Nat), answers: Seq(AnswerType)]
Instance == [st: {"running", "responded"}, for: Nat, body: {"none", "streaming", "complete"},
             telemetry: Telemetry]

Types ==
  /\ fate \in Seq(Fates)
  /\ conn \in [Connections -> {Closed} \cup Connection]
  /\ inst \in [Instances -> {NoInstance} \cup Instance]

\* The instance of request n, and the three things a request can be: not taken
\* up; taken up, its guest yet to respond if it still runs; done with, its guest
\* at most at work on what comes after the response.
WorksFor(i, n) == inst[i].st # "none" /\ inst[i].for = n
Untouched(n) == fate[n] = "none" /\ \A i \in Instances : ~WorksFor(i, n)
Awaited(n) == fate[n] \notin Answered \cup {"gone"}
              /\ \A i \in Instances : WorksFor(i, n) => inst[i].st = "running"
Settled(n) == \A i \in Instances : WorksFor(i, n) => inst[i].st = "responded"

\* What the k-th request of connection c, number n, is by its turn.
AtTurn(c, k, n) ==
  /\ k <= Len(conn[c].answers) =>
       /\ Settled(n) /\ conn[c].answers[k].to = n
       /\ conn[c].answers[k].kind = "guest" <=> fate[n] \in Answered
  /\ k = Len(conn[c].answers) + 1 =>
       /\ conn[c].st = "open" => Untouched(n)
       /\ conn[c].st = "waiting" => Awaited(n)
       /\ conn[c].st = "body" => Settled(n) /\ fate[n] \in Answered
  /\ k > Len(conn[c].answers) + 1 => Untouched(n)

Asks(c, k, n) == k \in DOMAIN conn[c].asked /\ conn[c].asked[k] = n

Turns(c) ==
  Open(c) =>
    /\ Len(conn[c].answers) <= Len(conn[c].asked)
    /\ conn[c].st # "open" => Len(conn[c].answers) < Len(conn[c].asked)
    /\ \A k, n \in Nat : Asks(c, k, n) => n \in Request /\ AtTurn(c, k, n)

\* No request is asked twice, or by two connections.
AskedOnce ==
  \A c, d \in Connections : Open(c) /\ Open(d) =>
    \A k, l, n \in Nat : Asks(c, k, n) /\ Asks(d, l, n) => c = d /\ k = l

\* A request has one instance, which has told fate of its response.
OneEach ==
  \A i \in Instances, n \in Nat : WorksFor(i, n) =>
    /\ n \in Request
    /\ inst[i].st = "responded" => fate[n] \in {"responded", "gone"}
    /\ \A j \in Instances : WorksFor(j, n) => j = i

Tels == \A i \in Instances : inst[i].st # "none" => TelOK(inst[i].telemetry)

\* The resource is set before anything is served.
Ready == resource \in BOOLEAN /\ (stage \notin {"telemetry", "ended"} => resource = TRUE)

IInv ==
  /\ Types /\ (\A c \in Connections : Turns(c)) /\ AskedOnce /\ OneEach /\ Tels /\ Ready

-----------------------------------------------------------------------------
(* What the types say of one connection and one instance.                    *)

\* A connection is closed, or a record with a queue and its answers.
LEMMA ConnTypes ==
  ASSUME Types, NEW c \in Connections
  PROVE  /\ Open(c) => conn[c] \in Connection
         /\ ~Open(c) => conn[c] = Closed
  BY DEF Types, Open, Closed, Connection

\* An instance is none, or a record with a request and its telemetry.
LEMMA InstTypes ==
  ASSUME Types, NEW i \in Instances
  PROVE  /\ inst[i].st # "none" => inst[i] \in Instance
         /\ inst[i].st = "none" => inst[i] = NoInstance
  BY DEF Types, NoInstance, Instance

\* The request a connection's task is at.
LEMMA CurrentAsked ==
  ASSUME Types, NEW c \in Connections, Unanswered(c)
  PROVE  Current(c) \in Nat /\ Asks(c, Len(conn[c].answers) + 1, Current(c))
         /\ Len(conn[c].answers) + 1 \in Nat
<1>1. conn[c].asked \in Seq(Nat) /\ conn[c].answers \in Seq(AnswerType)
  BY ConnTypes DEF Unanswered, Connection
<1>2. PICK asked, n : asked = conn[c].asked /\ n = Len(conn[c].answers)
  OBVIOUS
<1>3. asked \in Seq(Nat) /\ n \in Nat /\ n < Len(asked)
  BY <1>1, <1>2 DEF Unanswered
<1>4. n + 1 \in Nat /\ n + 1 \in DOMAIN asked /\ asked[n + 1] \in Nat
  BY <1>3
<1> QED
  BY <1>2, <1>4 DEF Current, Asks

\* A request asked is a number, and its place is one.
LEMMA AsksNat ==
  ASSUME Types, NEW c \in Connections, Open(c), NEW k \in DOMAIN conn[c].asked
  PROVE  k \in Nat /\ conn[c].asked[k] \in Nat /\ Asks(c, k, conn[c].asked[k])
<1>1. conn[c].asked \in Seq(Nat)
  BY ConnTypes DEF Connection
<1> QED
  BY <1>1 DEF Asks

-----------------------------------------------------------------------------
(* What a step does to one request, and to the connections it leaves alone.  *)

Moves(n) ==
  /\ Untouched(n) => Untouched(n)'
  /\ Awaited(n) => Awaited(n)'
  /\ Settled(n) => Settled(n)' /\ (fate'[n] \in Answered <=> fate[n] \in Answered)

\* Instances may go, or work on.
LEMMA FewerMoves ==
  ASSUME NEW n \in Nat, fate'[n] = fate[n],
         \A i \in Instances : WorksFor(i, n)' => WorksFor(i, n) /\ inst'[i].st = inst[i].st
  PROVE  Moves(n)
  BY DEF Moves, Untouched, Awaited, Settled

\* A connection that does not move keeps its turns, if its requests do.
LEMMA ConnStays ==
  ASSUME NEW c \in Connections, Turns(c), conn'[c] = conn[c], Request \subseteq Request',
         \A k, n \in Nat : Open(c) /\ Asks(c, k, n) => Moves(n)
  PROVE  Turns(c)'
<1> SUFFICES ASSUME Open(c)'
             PROVE  Turns(c)'
  BY DEF Turns
<1>1. Open(c)
  BY DEF Open
<1>2. ASSUME NEW k \in Nat, NEW n \in Nat, Asks(c, k, n)'
      PROVE  n \in Request' /\ AtTurn(c, k, n)'
  <2>1. Asks(c, k, n)
    BY <1>2 DEF Asks
  <2>2. n \in Request /\ AtTurn(c, k, n) /\ Moves(n)
    BY <1>1, <2>1 DEF Turns
  <2> QED
    BY <2>2 DEF AtTurn, Moves
<1> QED
  BY <1>1, <1>2 DEF Turns

\* Connections that close or stay ask nothing twice.
LEMMA AskedOnceStays ==
  ASSUME AskedOnce, \A c \in Connections : conn'[c] = conn[c] \/ ~Open(c)'
  PROVE  AskedOnce'
  BY DEF AskedOnce, Asks, Open

-----------------------------------------------------------------------------
(* Steps that change an instance, and steps that answer a request.           *)

\* Nobody works for a request who did not before, or has gone further for it.
NobodyNew ==
  \A i \in Instances, n \in Nat : WorksFor(i, n)' => WorksFor(i, n) /\ inst'[i].st = inst[i].st

\* An instance goes, or works on for its request.
LEMMA InstanceWorks ==
  ASSUME IInv, NEW i \in Instances, NEW x, inst' = [inst EXCEPT ![i] = x],
         \/ x = NoInstance
         \/ /\ inst[i] \in Instance /\ x \in Instance /\ x.st = inst[i].st /\ x.for = inst[i].for
            /\ TelOK(x.telemetry),
         fate' = fate
  PROVE  inst' \in [Instances -> {NoInstance} \cup Instance] /\ NobodyNew /\ OneEach' /\ Tels'
<1>1. inst \in [Instances -> {NoInstance} \cup Instance] /\ x \in {NoInstance} \cup Instance
  BY DEF IInv, Types
<1>2. /\ inst' \in [Instances -> {NoInstance} \cup Instance]
      /\ inst'[i] = x /\ \A j \in Instances : j # i => inst'[j] = inst[j]
  BY <1>1
<1>3. NoInstance.st = "none"
  BY DEF NoInstance
<1>4. NobodyNew
  BY <1>2, <1>3 DEF NobodyNew, WorksFor
<1>5. OneEach'
  BY <1>4 DEF NobodyNew, OneEach, IInv, Request
<1>6. Tels'
  BY <1>2, <1>3 DEF Tels, IInv
<1> QED
  BY <1>2, <1>4, <1>5, <1>6

\* A step of an instance alone.
LEMMA InstanceAlone ==
  ASSUME IInv, NEW i \in Instances, NEW x, inst' = [inst EXCEPT ![i] = x],
         \/ x = NoInstance
         \/ /\ inst[i] \in Instance /\ x \in Instance /\ x.st = inst[i].st /\ x.for = inst[i].for
            /\ TelOK(x.telemetry),
         UNCHANGED <<processVars, conn, fate>>
  PROVE  IInv'
<1>1. inst' \in [Instances -> {NoInstance} \cup Instance] /\ NobodyNew /\ OneEach' /\ Tels'
  BY InstanceWorks
<1>2. Types'
  BY <1>1 DEF IInv, Types
<1>3. \A n \in Nat : Moves(n)
  BY <1>1, FewerMoves DEF NobodyNew
<1>4. \A c \in Connections : Turns(c)'
  BY <1>3, ConnStays DEF IInv, Request
<1>5. AskedOnce' /\ Ready'
  BY AskedOnceStays DEF IInv, Ready, processVars
<1> QED
  BY <1>1, <1>2, <1>4, <1>5 DEF IInv

\* One connection changes, to something of its type.
LEMMA OneConn ==
  ASSUME Types, NEW c \in Connections, NEW x \in {Closed} \cup Connection,
         conn' = [conn EXCEPT ![c] = x]
  PROVE  /\ conn' \in [Connections -> {Closed} \cup Connection] /\ conn'[c] = x
         /\ \A d \in Connections : d # c => conn'[d] = conn[d]
  BY DEF Types

\* The current request is answered: the next one has its turn.
LEMMA AnswerStep ==
  ASSUME IInv, NEW c \in Connections, NEW kind \in {"guest", "error"},
         Unanswered(c), Answer(c, kind), NobodyNew, fate' = fate,
         Settled(Current(c)), kind = "guest" <=> fate[Current(c)] \in Answered
  PROVE  /\ conn' \in [Connections -> {Closed} \cup Connection]
         /\ AskedOnce' /\ \A d \in Connections : Turns(d)'
<1> DEFINE m == Len(conn[c].answers)
           y == [conn[c] EXCEPT !.st = "open"]
<1>1. Types /\ Open(c) /\ conn[c] \in Connection /\ Turns(c)
  BY ConnTypes DEF IInv, Unanswered
<1>2. PICK cur \in Nat : cur = Current(c)
  BY <1>1, CurrentAsked
<1>3. PICK a \in AnswerType : a.to = cur /\ a.kind = kind /\ a = [to |-> Current(c), kind |-> kind]
  <2>1. [to |-> cur, kind |-> kind] \in AnswerType
    BY DEF AnswerType
  <2> QED
    BY <1>2, <2>1
<1> DEFINE x == [y EXCEPT !.answers = Append(conn[c].answers, a)]
<1>4. m \in Nat /\ conn[c].answers \in Seq(AnswerType)
  BY <1>1 DEF Connection
<1>5. /\ Append(conn[c].answers, a) \in Seq(AnswerType) /\ Len(Append(conn[c].answers, a)) = m + 1
      /\ Append(conn[c].answers, a)[m + 1] = a
      /\ \A k \in 1..m : Append(conn[c].answers, a)[k] = conn[c].answers[k]
  BY <1>4
<1>6. /\ x \in Connection /\ x.st = "open" /\ x.asked = conn[c].asked
      /\ x.answers = Append(conn[c].answers, a)
  <2>1. y \in Connection /\ y.st = "open" /\ y.asked = conn[c].asked
    BY <1>1 DEF Connection
  <2> HIDE DEF y
  <2> QED
    BY <1>5, <2>1 DEF Connection
<1>7. conn' = [conn EXCEPT ![c] = x]
  <2>1. conn' = [conn EXCEPT ![c].st = "open", ![c].answers = Append(conn[c].answers, a)]
    BY <1>3 DEF Answer
  <2> QED
    BY <1>1, <2>1 DEF Types, Connection
<1> HIDE DEF x, y
<1>8. /\ conn' \in [Connections -> {Closed} \cup Connection] /\ conn'[c] = x
      /\ \A d \in Connections : d # c => conn'[d] = conn[d]
  BY <1>1, <1>6, <1>7, OneConn
<1>9. \A n \in Nat : Moves(n)
  BY FewerMoves DEF NobodyNew
<1>10. Request' = Request
  BY DEF Request
<1>11. Turns(c)'
  <2>1. Len(x.answers) <= Len(x.asked)
    BY <1>1, <1>4, <1>5, <1>6 DEF Unanswered, Connection
  <2>2. ASSUME NEW k \in Nat, NEW n \in Nat, Asks(c, k, n)'
        PROVE  n \in Request' /\ AtTurn(c, k, n)'
    <3>1. Asks(c, k, n)
      BY <1>6, <1>8, <2>2 DEF Asks
    <3>2. n \in Request /\ AtTurn(c, k, n) /\ Moves(n)
      BY <1>1, <1>9, <3>1 DEF Turns
    <3>3. CASE k <= m
      <4>1. k \in 1..m
        BY <1>1, <1>4, <3>1, <3>3 DEF Asks, Connection
      <4>2. x.answers[k] = conn[c].answers[k] /\ k <= Len(x.answers)
        BY <1>4, <1>5, <1>6, <4>1
      <4>3. /\ Settled(n)' /\ conn'[c].answers[k].to = n
            /\ conn'[c].answers[k].kind = "guest" <=> fate'[n] \in Answered
        BY <1>4, <1>8, <3>2, <3>3, <4>2 DEF AtTurn, Moves
      <4>4. Len(conn'[c].answers) = m + 1
        BY <1>5, <1>6, <1>8
      <4> QED
        BY <1>4, <1>10, <3>2, <3>3, <4>3, <4>4 DEF AtTurn
    <3>4. CASE k = m + 1
      <4>1. n = cur
        BY <1>2, <3>1, <3>4 DEF Current, Asks
      <4>2. Settled(n) /\ (kind = "guest" <=> fate[n] \in Answered)
        BY <1>2, <4>1
      <4>3. x.answers[k] = a /\ Len(x.answers) = k
        BY <1>5, <1>6, <3>4
      <4> QED
        BY <1>3, <1>4, <1>8, <1>10, <3>2, <3>4, <4>1, <4>2, <4>3 DEF AtTurn, Moves
    <3>5. CASE k > m + 1
      <4>1. Untouched(n)'
        BY <1>4, <3>2, <3>5 DEF AtTurn, Moves
      <4> QED
        BY <1>4, <1>5, <1>6, <1>8, <1>10, <3>2, <3>5, <4>1 DEF AtTurn
    <3> QED
      BY <1>4, <3>3, <3>4, <3>5
  <2> QED
    BY <1>6, <1>8, <2>1, <2>2 DEF Turns
<1>12. ASSUME NEW d \in Connections, d # c PROVE Turns(d)'
  BY <1>8, <1>9, <1>10, <1>12, ConnStays DEF IInv
<1>13. AskedOnce'
  BY <1>1, <1>6, <1>8 DEF IInv, AskedOnce, Asks, Open
<1> QED
  BY <1>8, <1>11, <1>12, <1>13

-----------------------------------------------------------------------------
(* Steps of the process.                                                     *)

\* What a place in the queue is, when its connection's task does not move on.
LEMMA AtTurnStays ==
  ASSUME NEW c \in Connections, NEW k \in Nat, NEW n \in Nat, AtTurn(c, k, n), Moves(n),
         conn'[c].answers = conn[c].answers,
         k = Len(conn[c].answers) + 1 => conn'[c].st = conn[c].st
  PROVE  AtTurn(c, k, n)'
  BY DEF AtTurn, Moves

\* The server sees nothing of a step of the process.
LEMMA ServerStays ==
  ASSUME IInv, UNCHANGED serverVars, Ready'
  PROVE  IInv'
<1>1. conn' = conn /\ inst' = inst /\ fate' = fate
  BY DEF serverVars
<1>2. Types' /\ AskedOnce' /\ OneEach' /\ Tels'
  BY <1>1 DEF IInv, Types, AskedOnce, Asks, Open, OneEach, WorksFor, Request, Tels
<1>3. \A n \in Nat : Moves(n)
  BY <1>1, FewerMoves DEF WorksFor
<1>4. \A c \in Connections : Turns(c)'
  BY <1>1, <1>3, ConnStays DEF IInv, Request
<1> QED
  BY <1>2, <1>4 DEF IInv

\* Telemetry is built on the resource, and nothing unsets it.
LEMMA ReadyStays ==
  ASSUME Ready, StartUp \/ StartupFails \/ (\E h \in Hosts : ServerFails(h)) \/ Join
  PROVE  Ready'
<1>1. ASSUME StartUp PROVE Ready'
  BY <1>1 DEF StartUp, Ready, SetResource, BuildTelemetry, Create, PreInstantiate, Start, Link, Connect
<1>2. ASSUME StartupFails \/ (\E h \in Hosts : ServerFails(h)) \/ Join PROVE Ready'
  BY <1>2 DEF Ready, StartupFails, ServerFails, Join, End
<1> QED
  BY <1>1, <1>2

\* The invariant holds before anything is set up.
LEMMA InitInv == Init => IInv
<1> SUFFICES ASSUME Init PROVE IInv
  OBVIOUS
<1>1. Types /\ \A c \in Connections : ~Open(c)
  BY DEF Init, Types, Open, Closed
<1>2. \A i \in Instances : inst[i].st = "none"
  BY DEF Init, NoInstance
<1>3. Ready
  BY DEF Init, RuntimeInit, Ready
<1> QED
  BY <1>1, <1>2, <1>3 DEF IInv, Turns, AskedOnce, OneEach, WorksFor, Tels

\* The process ends, with all connections and instances.
LEMMA ProcessEndsStep ==
  ASSUME IInv, ProcessEnds
  PROVE  IInv'
<1>1. Types' /\ \A c \in Connections : ~Open(c)'
  BY DEF ProcessEnds, IInv, Types, Open, Closed
<1>2. \A i \in Instances : inst'[i].st = "none"
  BY DEF ProcessEnds, NoInstance
<1>3. Ready'
  BY ReadyStays DEF ProcessEnds, IInv
<1> QED
  BY <1>1, <1>2, <1>3 DEF IInv, Turns, AskedOnce, OneEach, WorksFor, Tels

-----------------------------------------------------------------------------
(* Steps of the connections.                                                 *)

\* A new connection has asked nothing.
LEMMA AcceptStep ==
  ASSUME IInv, NEW c \in Connections, Accept(c)
  PROVE  IInv'
<1>1. /\ conn' = [conn EXCEPT ![c] = Opened] /\ inst' = inst /\ fate' = fate
      /\ stage' = stage /\ resource' = resource
  BY DEF Accept, processVars
<1>2. Opened \in Connection /\ Opened.asked = <<>> /\ Opened.answers = <<>> /\ Opened.st = "open"
  BY DEF Opened, Connection
<1>3. /\ conn' \in [Connections -> {Closed} \cup Connection] /\ conn'[c] = Opened
      /\ \A d \in Connections : d # c => conn'[d] = conn[d]
  BY <1>1, <1>2, OneConn DEF IInv
<1>4. Types' /\ OneEach' /\ Tels' /\ Ready'
  BY <1>1, <1>3 DEF IInv, Types, OneEach, WorksFor, Request, Tels, Ready
<1>5. \A n \in Nat : Moves(n)
  BY <1>1, FewerMoves DEF WorksFor
<1>6. Len(<<>>) = 0 /\ DOMAIN <<>> = {}
  OBVIOUS
<1>7. \A k, n \in Nat : ~Asks(c, k, n)'
  BY <1>2, <1>3, <1>6 DEF Asks
<1>8. Turns(c)'
  BY <1>2, <1>3, <1>6, <1>7 DEF Turns
<1>9. ASSUME NEW d \in Connections, d # c PROVE Turns(d)'
  BY <1>1, <1>3, <1>5, <1>9, ConnStays DEF IInv, Request
<1>10. AskedOnce'
  BY <1>3, <1>7 DEF IInv, AskedOnce, Asks, Open
<1> QED
  BY <1>4, <1>8, <1>9, <1>10 DEF IInv

\* A connection is closed: what was asked on it is nobody's any more.
LEMMA CloseStep ==
  ASSUME IInv, NEW c \in Connections, Open(c), Close(c), UNCHANGED <<processVars, inst>>
  PROVE  IInv'
<1>1. /\ conn' = [conn EXCEPT ![c] = Closed] /\ inst' = inst
      /\ stage' = stage /\ resource' = resource
  BY DEF Close, processVars
<1>2. /\ conn' \in [Connections -> {Closed} \cup Connection] /\ conn'[c] = Closed
      /\ \A d \in Connections : d # c => conn'[d] = conn[d]
  BY <1>1, OneConn DEF IInv
<1>3. ~Open(c)'
  BY <1>2 DEF Open, Closed
<1>4. fate' \in Seq(Fates) /\ Len(fate') = Len(fate)
  <2>1. fate \in Seq(Fates)
    BY DEF IInv, Types
  <2>2. fate' = [n \in 1..Len(fate) |-> IF \E k \in DOMAIN conn[c].asked : conn[c].asked[k] = n
                                        THEN "gone" ELSE fate[n]]
    BY <2>1 DEF Close
  <2>3. \A n \in 1..Len(fate) : (IF \E k \in DOMAIN conn[c].asked : conn[c].asked[k] = n
                                 THEN "gone" ELSE fate[n]) \in Fates
    BY <2>1 DEF Fates
  <2> QED
    BY <2>1, <2>2, <2>3
<1>5. \A n \in Request : fate'[n] = fate[n] \/ fate'[n] = "gone"
  BY DEF Close, IInv, Types, Request
<1>6. Types' /\ Tels' /\ Ready' /\ Request' = Request
  BY <1>1, <1>2, <1>4 DEF IInv, Types, Tels, Ready, Request
<1>7. OneEach'
  BY <1>1, <1>5, <1>6 DEF IInv, OneEach, WorksFor
<1>8. ASSUME NEW d \in Connections, d # c PROVE Turns(d)'
  <2>1. ASSUME Open(d), NEW l \in Nat, NEW n \in Nat, Asks(d, l, n) PROVE Moves(n)
    <3>1. n \in Request
      BY <2>1 DEF IInv, Turns
    <3>2. \A k \in DOMAIN conn[c].asked : conn[c].asked[k] # n
      BY <1>8, <2>1, AsksNat DEF IInv, AskedOnce, Asks
    <3>3. fate'[n] = fate[n]
      BY <3>1, <3>2 DEF Close, IInv, Types, Request
    <3> QED
      BY <1>1, <3>3, FewerMoves DEF WorksFor
  <2> QED
    BY <1>2, <1>6, <1>8, <2>1, ConnStays DEF IInv
<1>9. Turns(c)' /\ AskedOnce'
  BY <1>2, <1>3, AskedOnceStays DEF IInv, Turns
<1> QED
  BY <1>6, <1>7, <1>8, <1>9 DEF IInv

\* A request is asked: a number nobody has asked before, or works for.
LEMMA AskStep ==
  ASSUME IInv, NEW c \in Connections, Ask(c)
  PROVE  IInv'
<1>0. PICK new : new = Len(fate) + 1
  OBVIOUS
<1> DEFINE x == [conn[c] EXCEPT !.asked = Append(@, new)]
<1>1. /\ inst' = inst /\ stage' = stage /\ resource' = resource
      /\ fate' = Append(fate, "none") /\ fate \in Seq(Fates) /\ new \in Nat
      /\ Open(c) /\ conn[c] \in Connection /\ Turns(c)
  BY <1>0, ConnTypes DEF Ask, processVars, IInv, Types
<1>2. /\ fate' \in Seq(Fates) /\ Len(fate') = new /\ fate'[new] = "none"
      /\ \A n \in Request : fate'[n] = fate[n]
  BY <1>0, <1>1 DEF Fates, Request
<1>3. Request' = Request \cup {new} /\ new \notin Request
  BY <1>0, <1>1, <1>2 DEF Request
<1>4. /\ conn[c].asked \in Seq(Nat) /\ conn[c].answers \in Seq(AnswerType)
      /\ Len(conn[c].answers) \in Nat /\ Len(conn[c].asked) \in Nat
  BY <1>1 DEF Connection
<1>5. /\ Append(conn[c].asked, new) \in Seq(Nat)
      /\ Len(Append(conn[c].asked, new)) = Len(conn[c].asked) + 1
      /\ Append(conn[c].asked, new)[Len(conn[c].asked) + 1] = new
      /\ \A k \in 1..Len(conn[c].asked) : Append(conn[c].asked, new)[k] = conn[c].asked[k]
  BY <1>1, <1>4
<1>6. /\ x \in Connection /\ x.st = conn[c].st /\ x.answers = conn[c].answers
      /\ x.asked = Append(conn[c].asked, new)
  BY <1>1, <1>5 DEF Connection
<1>7. conn' = [conn EXCEPT ![c] = x]
  BY <1>0 DEF Ask
<1> HIDE DEF x
<1>8. /\ conn' \in [Connections -> {Closed} \cup Connection] /\ conn'[c] = x
      /\ \A d \in Connections : d # c => conn'[d] = conn[d]
  BY <1>6, <1>7, OneConn DEF IInv
<1>9. Types' /\ Tels' /\ Ready'
  BY <1>1, <1>2, <1>8 DEF IInv, Types, Tels, Ready
<1>10. OneEach'
  <2>1. \A i \in Instances, n \in Nat : WorksFor(i, n)' <=> WorksFor(i, n)
    BY <1>1 DEF WorksFor
  <2> QED
    BY <1>1, <1>2, <1>3, <2>1 DEF IInv, OneEach
<1>11. \A n \in Request : Moves(n)
  <2>1. \A n \in Request : n \in Nat
    BY DEF Request
  <2> QED
    BY <1>1, <1>2, <2>1, FewerMoves DEF WorksFor
<1>12. Untouched(new)'
  <2>1. \A i \in Instances : ~WorksFor(i, new)
    BY <1>1, <1>3 DEF IInv, OneEach
  <2>2. \A i \in Instances : ~(inst'[i].st # "none" /\ inst'[i].for = new)
    BY <1>1, <2>1 DEF WorksFor
  <2> QED
    BY <1>2, <2>2 DEF Untouched, WorksFor
<1>13. \A k, n \in Nat : Asks(c, k, n)' =>
          Asks(c, k, n) \/ (k = Len(conn[c].asked) + 1 /\ n = new)
  <2> SUFFICES ASSUME NEW k \in Nat, NEW n \in Nat, Asks(c, k, n)'
               PROVE  Asks(c, k, n) \/ (k = Len(conn[c].asked) + 1 /\ n = new)
    OBVIOUS
  <2>1. k \in 1..(Len(conn[c].asked) + 1) /\ Append(conn[c].asked, new)[k] = n
    <3>1. conn'[c].asked = Append(conn[c].asked, new)
      BY <1>6, <1>8
    <3>2. k \in DOMAIN Append(conn[c].asked, new) /\ Append(conn[c].asked, new)[k] = n
      BY <3>1 DEF Asks
    <3> QED
      BY <1>4, <1>5, <3>2
  <2>2. CASE k = Len(conn[c].asked) + 1
    BY <1>5, <2>1, <2>2
  <2>3. CASE k # Len(conn[c].asked) + 1
    <3>1. k \in 1..Len(conn[c].asked)
      BY <1>4, <2>1, <2>3
    <3>2. conn[c].asked[k] = n
      BY <1>5, <2>1, <3>1
    <3> QED
      BY <1>4, <3>1, <3>2 DEF Asks
  <2> QED
    BY <2>2, <2>3
<1>14. Turns(c)'
  <2>1. Len(conn[c].answers) <= Len(conn[c].asked) /\ Len(x.asked) = Len(conn[c].asked) + 1
    BY <1>1, <1>5, <1>6 DEF Turns
  <2>2. conn[c].st # "open" => Len(conn[c].answers) < Len(conn[c].asked)
    BY <1>1 DEF Turns
  <2>3. ASSUME NEW k \in Nat, NEW n \in Nat, Asks(c, k, n)'
        PROVE  n \in Request' /\ AtTurn(c, k, n)'
    <3>1. CASE Asks(c, k, n)
      <4>1. n \in Request /\ AtTurn(c, k, n)
        BY <1>1, <3>1 DEF Turns
      <4>2. Moves(n) /\ n \in Request'
        BY <1>3, <1>11, <4>1
      <4> QED
        BY <1>6, <1>8, <4>1, <4>2, AtTurnStays
    <3>2. CASE k = Len(conn[c].asked) + 1 /\ n = new
      <4>1. k > Len(conn[c].answers)
        BY <1>4, <2>1, <3>2
      <4>2. k = Len(conn[c].answers) + 1 => conn[c].st = "open"
        BY <1>4, <2>1, <2>2, <3>2
      <4>3. Untouched(n)'
        BY <1>12, <3>2
      <4>4. conn'[c].answers = conn[c].answers /\ conn'[c].st = conn[c].st
        BY <1>6, <1>8
      <4>5. AtTurn(c, k, n)'
        BY <1>4, <4>1, <4>2, <4>3, <4>4 DEF AtTurn
      <4> QED
        BY <1>3, <3>2, <4>5
    <3> QED
      BY <1>13, <2>3, <3>1, <3>2
  <2>4. Len(conn'[c].answers) < Len(conn'[c].asked)
    BY <1>4, <1>6, <1>8, <2>1
  <2>5. Len(conn'[c].answers) <= Len(conn'[c].asked)
    BY <1>4, <1>6, <1>8, <2>1
  <2> QED
    BY <2>3, <2>4, <2>5 DEF Turns
<1>15. ASSUME NEW d \in Connections, d # c PROVE Turns(d)'
  <2>1. \A k, n \in Nat : Open(d) /\ Asks(d, k, n) => Moves(n)
    BY <1>11 DEF IInv, Turns
  <2> QED
    BY <1>3, <1>8, <1>15, <2>1, ConnStays DEF IInv
<1>16. AskedOnce'
  <2> SUFFICES ASSUME NEW d \in Connections, NEW e \in Connections, Open(d)', Open(e)',
                      NEW k \in Nat, NEW l \in Nat, NEW n \in Nat, Asks(d, k, n)', Asks(e, l, n)'
               PROVE  d = e /\ k = l
    BY DEF AskedOnce
  <2>1. Open(d) /\ Open(e)
    BY <1>1, <1>8 DEF Open
  <2>2. Asks(d, k, n) \/ (d = c /\ k = Len(conn[c].asked) + 1 /\ n = new)
    BY <1>8, <1>13 DEF Asks
  <2>3. Asks(e, l, n) \/ (e = c /\ l = Len(conn[c].asked) + 1 /\ n = new)
    BY <1>8, <1>13 DEF Asks
  <2>4. Asks(d, k, n) \/ Asks(e, l, n) => n # new
    BY <1>3, <2>1 DEF IInv, Turns
  <2> QED
    BY <2>1, <2>2, <2>3, <2>4 DEF IInv, AskedOnce
<1> QED
  BY <1>9, <1>10, <1>14, <1>15, <1>16 DEF IInv

\* A request is taken up: it has an instance now, and no other had one for it.
LEMMA HandleStep ==
  ASSUME IInv, NEW c \in Connections, Handle(c)
  PROVE  IInv'
<1> DEFINE m == Len(conn[c].answers)
           x == [conn[c] EXCEPT !.st = "waiting"]
<1>1. /\ Types /\ Open(c) /\ conn[c] \in Connection /\ Turns(c) /\ Unanswered(c)
      /\ conn[c].st = "open" /\ fate' = fate /\ stage' = stage /\ resource' = resource
  BY ConnTypes DEF Handle, IInv, Unanswered, processVars
<1>2. PICK cur \in Nat : cur = Current(c) /\ Asks(c, m + 1, cur) /\ m + 1 \in Nat
  BY <1>1, CurrentAsked
<1>3. m \in Nat /\ conn[c].answers \in Seq(AnswerType) /\ m < Len(conn[c].asked)
  BY <1>1 DEF Connection, Unanswered
<1>4. cur \in Request /\ Untouched(cur)
  BY <1>1, <1>2, <1>3 DEF Turns, AtTurn
<1>5. PICK i \in Instances :
        /\ inst[i].st = "none"
        /\ inst' = [inst EXCEPT ![i] = [st |-> "running", for |-> Current(c), body |-> "none",
                                        telemetry |-> Fresh]]
  BY DEF Handle
<1>6. PICK new : /\ new = [st |-> "running", for |-> cur, body |-> "none", telemetry |-> Fresh]
                 /\ inst' = [inst EXCEPT ![i] = new]
  BY <1>2, <1>5
<1>7. /\ new \in Instance /\ new.st = "running" /\ new.for = cur /\ TelOK(new.telemetry)
  BY <1>6, FreshOK DEF Instance, TelOK
<1>8. /\ inst' \in [Instances -> {NoInstance} \cup Instance] /\ inst'[i] = new
      /\ \A j \in Instances : j # i => inst'[j] = inst[j]
  BY <1>1, <1>6, <1>7 DEF Types
<1>9. x \in Connection /\ x.st = "waiting" /\ x.asked = conn[c].asked /\ x.answers = conn[c].answers
  BY <1>1 DEF Connection
<1>10. conn' = [conn EXCEPT ![c] = x]
  BY DEF Handle
<1> HIDE DEF x
<1>11. /\ conn' \in [Connections -> {Closed} \cup Connection] /\ conn'[c] = x
       /\ \A d \in Connections : d # c => conn'[d] = conn[d]
  BY <1>1, <1>9, <1>10, OneConn
<1>12. Types' /\ Tels' /\ Ready' /\ Request' = Request
  BY <1>1, <1>7, <1>8, <1>11 DEF IInv, Types, Tels, Ready, Request
<1>13. \A j \in Instances, n \in Nat :
         WorksFor(j, n)' <=> (j = i /\ n = cur) \/ (j # i /\ WorksFor(j, n) /\ inst'[j] = inst[j])
  BY <1>7, <1>8 DEF WorksFor
<1>14. OneEach'
  <2>1. \A j \in Instances : ~WorksFor(j, cur)
    BY <1>4 DEF Untouched
  <2> QED
    BY <1>1, <1>4, <1>7, <1>8, <1>12, <1>13, <2>1 DEF IInv, OneEach
<1>15. \A n \in Nat : n # cur => Moves(n)
  BY <1>1, <1>13, FewerMoves
<1>16. Awaited(cur)'
  BY <1>1, <1>4, <1>7, <1>8, <1>13 DEF Awaited, Untouched, Answered
<1>17. Turns(c)'
  <2>1. ASSUME NEW k \in Nat, NEW n \in Nat, Asks(c, k, n)'
        PROVE  n \in Request' /\ AtTurn(c, k, n)'
    <3>1. Asks(c, k, n)
      BY <1>9, <1>11, <2>1 DEF Asks
    <3>2. n \in Request' /\ AtTurn(c, k, n)
      BY <1>1, <1>12, <3>1 DEF Turns
    <3>3. CASE k = m + 1
      <4>1. n = cur
        BY <1>2, <3>1, <3>3 DEF Asks
      <4>2. Len(conn'[c].answers) = m /\ conn'[c].st = "waiting"
        BY <1>9, <1>11
      <4> QED
        BY <1>3, <1>16, <3>2, <3>3, <4>1, <4>2 DEF AtTurn
    <3>4. CASE k # m + 1
      <4>1. n # cur
        BY <1>1, <1>2, <3>1, <3>4 DEF IInv, AskedOnce
      <4> QED
        BY <1>9, <1>11, <1>15, <3>2, <3>4, <4>1, AtTurnStays
    <3> QED
      BY <3>3, <3>4
  <2> QED
    BY <1>3, <1>9, <1>11, <2>1 DEF Turns
<1>18. ASSUME NEW d \in Connections, d # c PROVE Turns(d)'
  <2>1. \A k, n \in Nat : Open(d) /\ Asks(d, k, n) => n # cur
    BY <1>1, <1>2, <1>18 DEF IInv, AskedOnce
  <2> QED
    BY <1>11, <1>12, <1>15, <1>18, <2>1, ConnStays DEF IInv
<1>19. AskedOnce'
  BY <1>1, <1>9, <1>11 DEF IInv, AskedOnce, Asks, Open
<1> QED
  BY <1>12, <1>14, <1>17, <1>18, <1>19 DEF IInv

\* The error page, for a request nobody works for and nobody has responded to.
LEMMA ErrorStep ==
  ASSUME IInv, NEW c \in Connections, Unanswered(c), Answer(c, "error"),
         UNCHANGED <<processVars, inst, fate>>,
         \A i \in Instances : ~WorksFor(i, Current(c)), fate[Current(c)] \notin Answered
  PROVE  IInv'
<1>1. inst' = inst /\ fate' = fate /\ stage' = stage /\ resource' = resource
  BY DEF processVars
<1>2. NobodyNew
  BY <1>1 DEF NobodyNew, WorksFor
<1>3. Settled(Current(c))
  BY DEF Settled
<1>4. /\ conn' \in [Connections -> {Closed} \cup Connection]
      /\ AskedOnce' /\ \A d \in Connections : Turns(d)'
  <2>1. "error" \in {"guest", "error"} /\ ("error" = "guest" <=> fate[Current(c)] \in Answered)
    OBVIOUS
  <2> QED
    BY <1>1, <1>2, <1>3, <2>1, AnswerStep
<1>5. Types' /\ OneEach' /\ Tels' /\ Ready'
  BY <1>1, <1>4 DEF IInv, Types, OneEach, WorksFor, Request, Tels, Ready
<1> QED
  BY <1>4, <1>5 DEF IInv

\* What the task's state says of the request it is at.
LEMMA AtCurrent ==
  ASSUME IInv, NEW c \in Connections, Unanswered(c)
  PROVE  /\ conn[c].st = "open" => Untouched(Current(c))
         /\ conn[c].st = "waiting" => Awaited(Current(c))
         /\ conn[c].st = "body" => Settled(Current(c)) /\ fate[Current(c)] \in Answered
         /\ Current(c) \in Nat /\ Current(c) \in Request
<1>1. Types /\ Turns(c) /\ Open(c)
  BY DEF IInv, Unanswered
<1>2. conn[c] \in Connection
  BY <1>1, ConnTypes
<1>3. Len(conn[c].answers) \in Nat
  BY <1>2 DEF Connection
<1>4. /\ Current(c) \in Nat /\ Asks(c, Len(conn[c].answers) + 1, Current(c))
      /\ Len(conn[c].answers) + 1 \in Nat
  BY <1>1, CurrentAsked
<1>5. Current(c) \in Request /\ AtTurn(c, Len(conn[c].answers) + 1, Current(c))
  BY <1>1, <1>4 DEF Turns
<1> QED
  BY <1>3, <1>4, <1>5 DEF AtTurn

\* A task that has begun with a request has not answered it yet.
LEMMA BusyUnanswered ==
  ASSUME IInv, NEW c \in Connections, Open(c), conn[c].st # "open"
  PROVE  Unanswered(c)
  BY DEF IInv, Turns, Unanswered

\* A request that is not taken up is answered by the error page.
LEMMA RejectStep ==
  ASSUME IInv, NEW c \in Connections, Reject(c)
  PROVE  IInv'
<1>1. Untouched(Current(c))
  BY AtCurrent DEF Reject
<1> QED
  BY <1>1, ErrorStep DEF Reject, Untouched, Answered

\* A request whose instance is gone is answered by the error page.
LEMMA SenderDroppedStep ==
  ASSUME IInv, NEW c \in Connections, SenderDropped(c)
  PROVE  IInv'
<1>1. Unanswered(c) /\ Awaited(Current(c))
  BY AtCurrent, BusyUnanswered DEF SenderDropped
<1> QED
  BY <1>1, ErrorStep DEF SenderDropped, Awaited, WorksFor

\* A body that comes to its end is the guest's answer; one that breaks off, the connection's end.
LEMMA BodyEndsStep ==
  ASSUME IInv, NEW c \in Connections, BodyEnds(c)
  PROVE  IInv'
<1>1. /\ Open(c) /\ Unanswered(c) /\ Settled(Current(c)) /\ fate[Current(c)] \in Answered
      /\ UNCHANGED processVars
  BY AtCurrent, BusyUnanswered DEF BodyEnds
<1>2. CASE Close(c) /\ UNCHANGED inst
  BY <1>1, <1>2, CloseStep
<1>3. ASSUME NEW i \in Instances, inst[i].st # "none", inst[i].for = Current(c),
             inst' = [inst EXCEPT ![i].body = "complete"], Answer(c, "guest"), UNCHANGED fate
      PROVE  IInv'
  <2> DEFINE x == [inst[i] EXCEPT !.body = "complete"]
  <2>1. inst[i] \in Instance /\ TelOK(inst[i].telemetry)
    BY <1>3, InstTypes DEF IInv, Tels
  <2>2. x \in Instance /\ x.st = inst[i].st /\ x.for = inst[i].for /\ TelOK(x.telemetry)
    BY <2>1 DEF Instance
  <2>3. inst' = [inst EXCEPT ![i] = x]
    BY <1>3
  <2> HIDE DEF x
  <2>4. inst' \in [Instances -> {NoInstance} \cup Instance] /\ NobodyNew /\ OneEach' /\ Tels'
    BY <1>3, <2>1, <2>2, <2>3, InstanceWorks
  <2>5. /\ conn' \in [Connections -> {Closed} \cup Connection]
        /\ AskedOnce' /\ \A d \in Connections : Turns(d)'
    <3>1. "guest" \in {"guest", "error"} /\ ("guest" = "guest" <=> fate[Current(c)] \in Answered)
      BY <1>1
    <3> QED
      BY <1>1, <1>3, <2>4, <3>1, AnswerStep
  <2>6. Types' /\ Ready'
    BY <1>1, <1>3, <2>4, <2>5 DEF IInv, Types, Ready, processVars
  <2> QED
    BY <2>4, <2>5, <2>6 DEF IInv
<1> QED
  BY <1>2, <1>3 DEF BodyEnds

-----------------------------------------------------------------------------
(* Steps of the instances.                                                   *)

\* An instance's telemetry moves.
LEMMA TellStep ==
  ASSUME IInv, NEW i \in Instances, Alive(i), NEW t, TelOK(t), Tell(i, t),
         UNCHANGED <<processVars, conn, fate>>
  PROVE  IInv'
<1> DEFINE x == [inst[i] EXCEPT !.telemetry = t]
<1>1. inst[i] \in Instance
  BY InstTypes DEF IInv, Alive
<1>2. x \in Instance /\ x.st = inst[i].st /\ x.for = inst[i].for /\ TelOK(x.telemetry)
  BY <1>1 DEF Instance, TelOK
<1>3. inst' = [inst EXCEPT ![i] = x]
  BY DEF Tell
<1> HIDE DEF x
<1> QED
  BY <1>1, <1>2, <1>3, InstanceAlone

\* Scopes and exports move the telemetry of their own instance; the resource is set by then.
LEMMA TelemetrySteps ==
  ASSUME IInv, NEW i \in Instances, EnterScope(i) \/ LeaveScope(i) \/ RunExport(i)
  PROVE  IInv'
<1>1. Alive(i) /\ TelOK(inst[i].telemetry) /\ UNCHANGED <<processVars, conn, fate>>
  BY DEF IInv, Tels, EnterScope, LeaveScope, RunExport, Alive
<1>2. CASE EnterScope(i)
  <2>1. PICK b \in BOOLEAN : Tell(i, Enter(inst[i].telemetry, b))
    BY <1>2 DEF EnterScope
  <2> QED
    BY <1>1, <2>1, EnterOK, TellStep
<1>3. CASE LeaveScope(i)
  <2>1. PICK s \in inst[i].telemetry.open : Tell(i, Leave(inst[i].telemetry, s))
    BY <1>3 DEF LeaveScope
  <2> QED
    BY <1>1, <2>1, LeaveOK, TellStep
<1>4. CASE RunExport(i)
  <2>1. PICK e \in inst[i].telemetry.exports, b \in BOOLEAN :
          Tell(i, Export(inst[i].telemetry, e, resource, b))
    BY <1>4 DEF RunExport
  <2>2. resource = TRUE
    BY <1>1 DEF IInv, Ready, Alive, Running
  <2>3. Tell(i, Export(inst[i].telemetry, e, TRUE, b))
    BY <2>1, <2>2
  <2> QED
    BY <1>1, <2>1, <2>3, ExportOK, TellStep
<1> QED
  BY <1>2, <1>3, <1>4

\* A body nobody reads changes nothing for any client.
LEMMA ReaderGoneStep ==
  ASSUME IInv, NEW i \in Instances, ReaderGone(i)
  PROVE  IInv'
<1> DEFINE x == [inst[i] EXCEPT !.body = "complete"]
<1>1. inst[i] \in Instance /\ TelOK(inst[i].telemetry)
  BY InstTypes DEF IInv, Tels, ReaderGone, Alive
<1>2. x \in Instance /\ x.st = inst[i].st /\ x.for = inst[i].for /\ TelOK(x.telemetry)
  BY <1>1 DEF Instance
<1>3. inst' = [inst EXCEPT ![i] = x] /\ UNCHANGED <<processVars, conn, fate>>
  BY DEF ReaderGone
<1> HIDE DEF x
<1> QED
  BY <1>1, <1>2, <1>3, InstanceAlone

\* An instance that is done has responded, and its request is settled without it.
LEMMA FinishStep ==
  ASSUME IInv, NEW i \in Instances, Finish(i)
  PROVE  IInv'
<1>1. inst' = [inst EXCEPT ![i] = NoInstance] /\ UNCHANGED <<processVars, conn, fate>>
  BY DEF Finish
<1> QED
  BY <1>1, InstanceAlone

\* What Fated does to fate.
LEMMA FatedFields ==
  ASSUME IInv, NEW i \in Instances, inst[i].st # "none", NEW f \in Fates, Fated(i, f)
  PROVE  /\ inst[i].for \in Nat /\ inst[i].for \in Request
         /\ fate' \in Seq(Fates) /\ Request' = Request
         /\ fate'[inst[i].for] = IF fate[inst[i].for] = "gone" THEN "gone" ELSE f
         /\ \A n \in Nat : n # inst[i].for => fate'[n] = fate[n]
<1>1. fate \in Seq(Fates) /\ inst[i] \in Instance
  BY InstTypes DEF IInv, Types
<1>2. inst[i].for \in Nat
  BY <1>1 DEF Instance
<1>3. inst[i].for \in Request
  BY <1>2 DEF IInv, OneEach, WorksFor
<1>4. fate' = [fate EXCEPT ![inst[i].for] = IF fate[inst[i].for] = "gone" THEN "gone" ELSE f]
  BY DEF Fated
<1>5. PICK g \in Fates : g = IF fate[inst[i].for] = "gone" THEN "gone" ELSE f
  BY DEF Fates
<1>6. fate' = [fate EXCEPT ![inst[i].for] = g]
  BY <1>4, <1>5
<1>7. fate' \in Seq(Fates) /\ Len(fate') = Len(fate) /\ fate'[inst[i].for] = g
  BY <1>1, <1>3, <1>6 DEF Request
<1>8. \A n \in Nat : n # inst[i].for => fate'[n] = fate[n]
  BY <1>1, <1>6
<1> QED
  BY <1>2, <1>3, <1>5, <1>7, <1>8 DEF Request

\* An instance ends before its time: nobody waits for it in vain, and what it has
\* responded stands.
LEMMA InstanceLost ==
  ASSUME IInv, NEW i \in Instances, Alive(i), NEW f,
         \/ inst[i].st = "running" /\ f = "failed"
         \/ inst[i].st = "responded" /\ f = "trapped",
         inst' = [inst EXCEPT ![i] = NoInstance], Fated(i, f), UNCHANGED <<processVars, conn>>
  PROVE  IInv'
<1>0. PICK m : m = inst[i].for
  OBVIOUS
<1>1. /\ inst[i].st # "none" /\ f \in Fates /\ conn' = conn
      /\ stage' = stage /\ resource' = resource
  BY DEF Alive, Fates, processVars
<1>2. /\ m \in Nat /\ m \in Request /\ fate' \in Seq(Fates) /\ Request' = Request
      /\ fate'[m] = IF fate[m] = "gone" THEN "gone" ELSE f
      /\ \A n \in Nat : n # m => fate'[n] = fate[n]
  BY <1>0, <1>1, FatedFields
<1>3. NoInstance.st = "none"
  BY DEF NoInstance
<1>4. /\ inst' \in [Instances -> {NoInstance} \cup Instance] /\ inst'[i] = NoInstance
      /\ \A j \in Instances : j # i => inst'[j] = inst[j]
  BY DEF IInv, Types
<1>5. \A j \in Instances, n \in Nat : WorksFor(j, n)' => j # i /\ WorksFor(j, n) /\ inst'[j] = inst[j]
  BY <1>3, <1>4 DEF WorksFor
<1>6. WorksFor(i, m) /\ \A j \in Instances : WorksFor(j, m) => j = i
  BY <1>0, <1>1, <1>2 DEF WorksFor, IInv, OneEach
<1>7. \A j \in Instances : ~WorksFor(j, m)'
  BY <1>2, <1>5, <1>6
<1>8. inst[i].st = "responded" => fate[m] \in {"responded", "gone"}
  BY <1>0, <1>1, <1>2 DEF WorksFor, IInv, OneEach
<1>9. Types' /\ Tels' /\ Ready'
  BY <1>1, <1>2, <1>3, <1>4 DEF IInv, Types, Tels, Ready
<1>10. OneEach'
  BY <1>2, <1>5, <1>7 DEF IInv, OneEach
<1>11. Moves(m)
  <2>1. ~Untouched(m)
    BY <1>6 DEF Untouched
  <2>2. Awaited(m) => Awaited(m)'
    BY <1>2, <1>6, <1>7 DEF Awaited, Answered
  <2>3. Settled(m) => Settled(m)' /\ (fate'[m] \in Answered <=> fate[m] \in Answered)
    BY <1>2, <1>6, <1>7, <1>8 DEF Settled, Answered
  <2> QED
    BY <2>1, <2>2, <2>3 DEF Moves
<1>12. \A n \in Nat : Moves(n)
  BY <1>2, <1>5, <1>11, FewerMoves
<1>13. \A c \in Connections : Turns(c)'
  BY <1>1, <1>2, <1>12, ConnStays DEF IInv
<1>14. AskedOnce'
  BY <1>1, AskedOnceStays DEF IInv
<1> QED
  BY <1>9, <1>10, <1>13, <1>14 DEF IInv

\* The guest responds: to the one connection that waits for it, or to nobody.
LEMMA RespondStep ==
  ASSUME IInv, NEW i \in Instances, Respond(i)
  PROVE  IInv'
<1>0. PICK m : m = inst[i].for
  OBVIOUS
<1> DEFINE waiting == {c \in Connections : Open(c) /\ Receiver(c, i)}
<1>1. /\ inst[i].st = "running" /\ inst[i] \in Instance /\ "responded" \in Fates
      /\ stage' = stage /\ resource' = resource
  BY InstTypes DEF Respond, Alive, IInv, Fates, processVars
<1>2. /\ m \in Nat /\ m \in Request /\ fate' \in Seq(Fates) /\ Request' = Request
      /\ fate'[m] = IF fate[m] = "gone" THEN "gone" ELSE "responded"
      /\ \A n \in Nat : n # m => fate'[n] = fate[n]
  BY <1>0, <1>1, FatedFields DEF Respond
<1>3. PICK b \in {"streaming", "complete"} :
        inst' = [inst EXCEPT ![i].st = "responded", ![i].body = b]
  BY DEF Respond
<1> DEFINE x == [inst[i] EXCEPT !.st = "responded", !.body = b]
<1>4. /\ x \in Instance /\ x.st = "responded" /\ x.for = m
      /\ x.telemetry = inst[i].telemetry
  BY <1>0, <1>1, <1>3 DEF Instance
<1>5. inst' = [inst EXCEPT ![i] = x]
  BY <1>1, <1>3 DEF IInv, Types, Instance
<1> HIDE DEF x
<1>6. /\ inst' \in [Instances -> {NoInstance} \cup Instance] /\ inst'[i] = x
      /\ \A j \in Instances : j # i => inst'[j] = inst[j]
  BY <1>4, <1>5 DEF IInv, Types
<1>7. WorksFor(i, m) /\ \A j \in Instances : WorksFor(j, m) => j = i
  BY <1>0, <1>1, <1>2 DEF WorksFor, IInv, OneEach
<1>8. conn' = [c \in Connections |-> IF c \in waiting THEN [conn[c] EXCEPT !.st = "body"] ELSE conn[c]]
  BY DEF Respond
<1>9. \A c \in Connections : c \in waiting <=> Open(c) /\ conn[c].st = "waiting" /\ Current(c) = m
  BY <1>0 DEF Receiver
<1> HIDE DEF waiting
<1>10. \A j \in Instances, n \in Nat : WorksFor(j, n)' <=> WorksFor(j, n)
  BY <1>4, <1>6, <1>7 DEF WorksFor
<1>11. Tels' /\ Ready'
  BY <1>1, <1>4, <1>6 DEF IInv, Tels, Ready
<1>12. OneEach'
  <2> SUFFICES ASSUME NEW j \in Instances, NEW n \in Nat, WorksFor(j, n)'
               PROVE  /\ n \in Request'
                      /\ inst'[j].st = "responded" => fate'[n] \in {"responded", "gone"}
                      /\ \A k \in Instances : WorksFor(k, n)' => k = j
    BY DEF OneEach
  <2>1. WorksFor(j, n)
    BY <1>10
  <2>2. /\ n \in Request' /\ \A k \in Instances : WorksFor(k, n)' => k = j
        /\ inst[j].st = "responded" => fate[n] \in {"responded", "gone"}
    BY <1>2, <1>10, <2>1 DEF IInv, OneEach
  <2>3. CASE j = i
    <3>1. n = m
      BY <1>0, <2>1, <2>3 DEF WorksFor
    <3> QED
      BY <1>2, <2>2, <3>1
  <2>4. CASE j # i
    <3>1. n # m
      BY <1>7, <2>1, <2>4
    <3> QED
      BY <1>2, <1>6, <2>2, <2>4, <3>1
  <2> QED
    BY <2>3, <2>4
<1>13. \A n \in Nat : n # m => Moves(n)
  <2>1. ASSUME NEW n \in Nat, n # m PROVE Moves(n)
    <3>1. \A j \in Instances : WorksFor(j, n)' => WorksFor(j, n) /\ inst'[j].st = inst[j].st
      BY <1>4, <1>6, <1>10, <2>1 DEF WorksFor
    <3> QED
      BY <1>2, <2>1, <3>1, FewerMoves
  <2> QED
    BY <2>1
<1>14. Settled(m)'
  BY <1>2, <1>4, <1>6, <1>7, <1>10 DEF Settled
<1>15. ASSUME NEW c \in Connections, NEW k \in Nat, Open(c), Asks(c, k, m)
       PROVE  c \in waiting /\ k = Len(conn[c].answers) + 1
  <2>1. conn[c] \in Connection /\ AtTurn(c, k, m)
    BY <1>2, <1>15, ConnTypes DEF IInv, Turns
  <2>2. Len(conn[c].answers) \in Nat /\ conn[c].st \in {"open", "waiting", "body"}
    BY <2>1 DEF Connection
  <2>3. ~Untouched(m) /\ ~Settled(m)
    BY <1>1, <1>7 DEF Untouched, Settled
  <2>4. k = Len(conn[c].answers) + 1 /\ conn[c].st = "waiting"
    BY <2>1, <2>2, <2>3 DEF AtTurn
  <2> QED
    BY <1>9, <1>15, <2>4 DEF Current, Asks
<1>16. ASSUME NEW c \in Connections, c \notin waiting PROVE Turns(c)'
  <2>1. \A k, n \in Nat : Open(c) /\ Asks(c, k, n) => Moves(n)
    BY <1>13, <1>15, <1>16
  <2>2. conn'[c] = conn[c]
    BY <1>8, <1>16
  <2> QED
    BY <1>2, <2>1, <2>2, ConnStays DEF IInv
<1>17. ASSUME NEW c \in Connections, c \in waiting
       PROVE  /\ conn'[c] \in Connection /\ conn'[c].asked = conn[c].asked
              /\ conn'[c].answers = conn[c].answers /\ conn'[c].st = "body"
  <2>1. conn[c] \in Connection
    BY <1>9, <1>17, ConnTypes DEF IInv
  <2>2. conn'[c] = [conn[c] EXCEPT !.st = "body"]
    BY <1>8, <1>17
  <2> QED
    BY <2>1, <2>2 DEF Connection
<1>18. ASSUME NEW c \in Connections, c \in waiting PROVE Turns(c)'
  <2>1. Open(c) /\ Turns(c) /\ Unanswered(c) /\ Current(c) = m
    BY <1>9, <1>18, BusyUnanswered DEF IInv
  <2>2. Awaited(m) /\ Asks(c, Len(conn[c].answers) + 1, m) /\ Len(conn[c].answers) + 1 \in Nat
    BY <1>9, <1>18, <2>1, AtCurrent, CurrentAsked DEF IInv
  <2>3. fate'[m] \in Answered
    BY <1>2, <2>2 DEF Awaited, Answered
  <2>4. ASSUME NEW k \in Nat, NEW n \in Nat, Asks(c, k, n)'
        PROVE  n \in Request' /\ AtTurn(c, k, n)'
    <3>1. Asks(c, k, n)
      BY <1>17, <1>18, <2>4 DEF Asks
    <3>2. n \in Request' /\ AtTurn(c, k, n)
      BY <1>2, <2>1, <3>1 DEF Turns
    <3>3. conn'[c].answers = conn[c].answers /\ conn'[c].st = "body"
      BY <1>17, <1>18
    <3>4. CASE n = m
      <4>1. k = Len(conn[c].answers) + 1
        BY <1>15, <2>1, <3>1, <3>4
      <4>2. Len(conn[c].answers) \in Nat
        BY <2>1, ConnTypes DEF IInv, Connection
      <4>3. ~(k <= Len(conn[c].answers)) /\ ~(k > Len(conn[c].answers) + 1)
        BY <4>1, <4>2
      <4>4. AtTurn(c, k, m)'
        BY <1>14, <2>3, <3>3, <4>3 DEF AtTurn
      <4> QED
        BY <3>2, <3>4, <4>4
    <3>5. CASE n # m
      <4>1. k # Len(conn[c].answers) + 1
        BY <2>2, <3>1, <3>5 DEF Asks
      <4> QED
        BY <1>13, <3>2, <3>3, <3>5, <4>1, AtTurnStays
    <3> QED
      BY <3>4, <3>5
  <2> QED
    BY <1>17, <1>18, <2>1, <2>4 DEF Turns, Unanswered
<1>19. conn' \in [Connections -> {Closed} \cup Connection]
  <2>1. \A c \in Connections : conn'[c] \in {Closed} \cup Connection
    BY <1>8, <1>17 DEF IInv, Types
  <2> QED
    BY <1>8, <2>1
<1>20. Types'
  BY <1>2, <1>6, <1>19 DEF Types
<1>21. AskedOnce'
  <2>1. \A c \in Connections : (Open(c)' => Open(c)) /\ conn'[c].asked = conn[c].asked
    BY <1>8, <1>9, <1>17 DEF Open
  <2>2. \A c \in Connections : \A k, n \in Nat : Asks(c, k, n)' => Asks(c, k, n)
    BY <2>1 DEF Asks
  <2> QED
    BY <2>1, <2>2 DEF IInv, AskedOnce
<1> QED
  BY <1>11, <1>12, <1>16, <1>18, <1>20, <1>21 DEF IInv

-----------------------------------------------------------------------------
(* The theorems.                                                             *)

\* Every step keeps the invariant.
LEMMA NextInv == IInv /\ [Next]_vars => IInv'
<1> SUFFICES ASSUME IInv, [Next]_vars PROVE IInv'
  OBVIOUS
<1>1. ASSUME UNCHANGED vars PROVE IInv'
  BY <1>1, ServerStays DEF vars, processVars, IInv, Ready
<1>2. ASSUME (StartUp \/ StartupFails) /\ UNCHANGED serverVars PROVE IInv'
  BY <1>2, ServerStays, ReadyStays DEF IInv
<1>3. ASSUME NEW h \in Hosts, ServerFails(h), UNCHANGED serverVars PROVE IInv'
  BY <1>3, ServerStays, ReadyStays DEF IInv
<1>4. ASSUME ProcessEnds PROVE IInv'
  BY <1>4, ProcessEndsStep
<1>5. ASSUME NEW c \in Connections, Accept(c) \/ Ask(c) \/ Serve(c) \/ Leaves(c) PROVE IInv'
  <2>1. CASE Leaves(c)
    BY <2>1, CloseStep DEF Leaves
  <2> QED
    BY <1>5, <2>1, AcceptStep, AskStep, HandleStep, RejectStep, SenderDroppedStep, BodyEndsStep
    DEF Serve
<1>6. ASSUME NEW i \in Instances, Guest(i) PROVE IInv'
  <2>1. CASE Refuse(i) \/ Trap(i)
    <3>1. inst[i].st \in {"running", "responded"}
      BY <2>1, InstTypes DEF IInv, Refuse, Trap, Alive, Instance
    <3> QED
      BY <2>1, <3>1, InstanceLost DEF Refuse, Trap
  <2> QED
    BY <1>6, <2>1, TelemetrySteps, RespondStep, ReaderGoneStep, FinishStep DEF Guest
<1> QED
  BY <1>1, <1>2, <1>3, <1>4, <1>5, <1>6 DEF Next

\* The invariant holds of whatever the server does.
THEOREM AlwaysIInv == Spec => []IInv
  BY InitInv, NextInv, PTL DEF Spec

\* A client gets one answer per request, in the order of its requests, and it is
\* the guest's if and only if the guest of that very request has responded
\* (server.rs: a oneshot channel and an instance for each call of handle).
THEOREM InTurn == Spec => []AnsweredInTurn
<1>1. IInv => AnsweredInTurn
  <2> SUFFICES ASSUME IInv, NEW c \in Connections, Open(c), NEW k \in DOMAIN conn[c].answers
               PROVE  /\ conn[c].answers[k].to = conn[c].asked[k]
                      /\ conn[c].answers[k].kind = "guest"
                           <=> fate[conn[c].answers[k].to] \in {"responded", "trapped"}
    BY DEF AnsweredInTurn
  <2>1. conn[c] \in Connection /\ Turns(c)
    BY ConnTypes DEF IInv
  <2>2. k \in 1..Len(conn[c].answers) /\ k \in DOMAIN conn[c].asked
    BY <2>1 DEF Turns, Connection
  <2>3. k \in Nat /\ conn[c].asked[k] \in Nat /\ Asks(c, k, conn[c].asked[k])
    BY <2>2, AsksNat DEF IInv
  <2>4. AtTurn(c, k, conn[c].asked[k]) /\ k <= Len(conn[c].answers)
    BY <2>1, <2>2, <2>3 DEF Turns
  <2> QED
    BY <2>4 DEF AtTurn, Answered
<1> QED
  BY <1>1, AlwaysIInv, PTL

\* An instance that comes to its end has had every span sent on, once, that ended
\* before its outermost scope did, unless its init or an export failed (init.rs,
\* tracing.rs: the exit guard shuts the provider down, and the host waits for the
\* export it spawns).
THEOREM FlushedOnce == Spec => FlushedWhenDone
<1>1. IInv /\ [Next]_vars =>
        [\A i \in Instances :
           (Finish(i) /\ ~inst[i].telemetry.faulty) =>
             \A s \in Scopes : inst[i].telemetry.exported[s] = IF s \in inst[i].telemetry.left THEN 1 ELSE 0]_vars
  <2> SUFFICES ASSUME IInv, NEW i \in Instances, Finish(i), ~inst[i].telemetry.faulty, NEW s \in Scopes
               PROVE  inst[i].telemetry.exported[s] = IF s \in inst[i].telemetry.left THEN 1 ELSE 0
    OBVIOUS
  <2>1. TelOK(inst[i].telemetry) /\ Quiet(inst[i].telemetry)
    BY DEF IInv, Tels, Finish, Alive, Done
  <2> QED
    BY <2>1, QuietIsFlushed
<1> QED
  BY <1>1, AlwaysIInv, PTL DEF Spec, FlushedWhenDone
=============================================================================
