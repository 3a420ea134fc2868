# QWASR hosts: TLA+ models and proofs

QWASR (the repository's `src/`) is a thin layer over `wasmtime`: a *runtime* loads one
WebAssembly component, links it with a set of *hosts* (WASI interfaces backed by host
services) and makes one short-lived *guest instance* per request, message or
connection.  All state that outlives an instance is in the hosts' back ends, which
every instance shares.  What is hard in this code is therefore seldom any one function
but what its functions do to each other: each is `async`, gives up control at every
`.await`, and takes the locks it needs one access at a time.

The specifications here model that: **one action per stretch of code between two
awaits (or under one lock)**, with everything the stretch does to shared state.  What
shares no state - parsers, conversions, macro expansions - is modelled as operators and
checked input by input.

Paths below are relative to `src/crates/`.

## 1. The system's parts

| Part | State it keeps | Operations | Hard behaviour | Correct when | Here |
|---|---|---|---|---|---|
| `wasi-keyvalue/src/host` | store of buckets behind an `RwLock`; per-instance resource table (bucket and cas handles) | open, get/set/delete/exists/list_keys, get_many/set_many/delete_many, increment, cas new/current/swap, drop | batches and `increment` are several awaits; handles outlive and precede buckets; half-failed batches | does what `wasi:keyvalue` promises, but for three named departures; a guest reads its own writes | `KeyValue` |
| `wasi-keyvalue/src/guest/cache.rs` | envelopes with expiry inside a bucket | get, set (returns the previous value), delete | judged by the clock after an await; clean-up deletes by key | nothing handed out after its time; clean-up takes only what is due | `TtlCache` |
| `wasi-http/src/guest` | the response cache | handle: parse headers, look up, forward, read body, store | composition of the above; order of directives | what is stored may be stored; a hit is a response fetched under that etag | `CacheControl`, `HttpCache`, `Algorithms` |
| `wasi-http/src/host` | connections, an instance and a oneshot channel per request | server: accept, handle, respond, block; outgoing client | a guest goes on after responding, or ends without; clients leave; requests pile up on a connection | every request is answered once, in its turn, by its own guest | `HttpServer`, `Outgoing` |
| `wasi-messaging/src/host` | broadcast channel of 32; resource table of messages | message constructor, setters and drop, send, request; subscribe/receive loop; a task per message | lag, lost messages, failing handlers, out-of-order handlers | handed once, in order; skipped only when overwritten; a failing handler costs its message only | `Messaging` (partly) |
| `wasi-identity/src/host` | one cached token | get_token | check, release the lock, fetch, lock, check again | never the empty token, never one that had expired when asked, cache never steps back | `Identity` |
| `wasi-websockets/src/host` | peer map by address, a queue per connection, one health-check client | accept, filter, get_peers, send_peers, send_all, health_check | connections that vanish, addresses used again, two halves of one task | the map tells who is there; messages arrive once and in order | `WebSockets` |
| `wasi-blobstore/src/host` | containers of objects shared behind handles | create/get/delete container, read/write/delete/list/clear objects, incoming/outgoing values | clear = list then delete; recreated containers | what a deletion listed is gone unless rewritten; old handles never touch a new container; objects keep the bytes written | `Blobstore` |
| `wasi-vault/src/host` | lockers of secrets behind an `RwLock`; handles | open, get, set, delete, exists, list_ids, drop | `open` makes the locker first; instances end while secrets stay | does what a key-value store does, one access per function | `Vault`, `Stores` |
| `wasi-sql` | SQLite connections; statements and errors behind handles | open, prepare, query, exec, drop; value conversion | a database per handle in memory, one for all on file; a statement meets SQLite only when it runs | a query returns the inserts its connection is to see, in order, with the values that survive | `Sql`, `SqlValues`, `Stores`, `Algorithms` |
| `wasi-config` | none (environment) | get, get_all | - | - | not modelled |
| `wasi-otel` guest + `wasi-otel-attr` | one-time initialisation, nested scopes, span buffer, spawned exports | instrument: init, spans, flush by the outermost scope | the export only begins when the response is out | spans are sent on once; nothing is sent twice | `GuestTelemetry` (in `HttpServer`), `Telemetry`, `Metrics` |
| `wasi-otel` host | none | export of spans, metrics, resource | a dozen conversions each way | what leaves the guest reaches the collector, but for what is listed in section 4 | `Telemetry`, `Metrics`, `Algorithms` |
| `otel` | global providers | init | set once, before everything | - | two steps of `Runtime` (partly) |
| `qwasr` | none after start-up | create, link, pre-instantiate; compile | order of start-up, first failure ends it | - | `Runtime` (partly) |
| `runtime-macro` | none (compile time); the process it generates | expansion, deduplication of back ends; start-up, joined servers | identifiers that stand for several paths; one server down takes all down | each back end type is connected once, each host gets its own; one failing server ends the process | `RuntimeMacro`, `Runtime` |
| `guest-macro` | none (compile time) | settings, routes, topics | names made from paths; first match of a topic | a route has its own function, which gets what it declares | `GuestMacro` |
| `qwasr-sdk` | a request being built, an error on its way out | builder, replies, errors, HTTP responses; traits | contexts and conversions in any order | status and contexts as raised | `Sdk` (partly) |
| `examples` | none | programs using the above | - | - | not modelled |

How they interact: a guest calls a host through its instance's *resource table*
(handles are per instance) into a *backend* (shared).  `wasi-http`'s guest code calls
`wasi-keyvalue`'s guest cache, which calls the key-value host.  The process that
`runtime!` generates starts the messaging, websocket and HTTP servers together; they make
instances, and those call every other host.  `PROJECT.json` lists the hazards, each at its
line with the properties that watch it.

## 2. Modules

```
KeyValueContract  abstract: what wasi:keyvalue promises, from its WIT alone
KeyValue          wasi-keyvalue over the in-memory backend  --implements--> KeyValueContract
KeyValueHistory   KeyValue plus history variables (what a guest may expect to read)
KeyValue_proofs   theorems about KeyValue and KeyValueHistory
Vault             wasi-vault over the in-memory backend     --implements--> KeyValueContract
SqlValues         conversions of SQL values (operators)
Sql               EXTENDS SqlValues: connections, statements, query, exec
Stores            INSTANCE Vault, INSTANCE Sql              Stores_proofs      theorems about it
TtlCache          expiring cache over one bucket
CacheControl      the caching headers' parser (operators), and what the documents ask of it
HttpCache         EXTENDS TtlCache, INSTANCE CacheControl: handle() with its cache
HttpCache_proofs  theorems about TtlCache and HttpCache
Runtime           the life of the process
GuestTelemetry    scopes, spans and exports of one instance (operators on a record)
HttpServer        EXTENDS Runtime, GuestTelemetry: connections, instances, responses
HttpServer_proofs theorems about HttpServer
Messaging         messages, broker, server loop  Messaging_proofs  theorems about it
Identity          token cache
WebSockets        connections, peer map      WebSockets_proofs  theorems about it
Blobstore         containers behind handles, values, deletions
Blobstore_proofs  theorems about Blobstore
Telemetry         spans and resource from guest to collector (operators)
Metrics           EXTENDS Telemetry: metrics (operators)
Outgoing          a guest's own HTTP requests (operators)
RuntimeMacro, GuestMacro   expansions (operators)
Sdk               builder, errors and responses (operators)
Algorithms        INSTANCEs the modules of operators: one behaviour per input
AlgorithmsIdentity_proofs   theorems about Algorithms and about Identity
MC*               constants of the small instances
```

### KeyValue and KeyValueContract

`store`, `table`, `task` are the store behind the lock, the resource tables and the
host function each instance is in.  `Call` is the part before the first await
(`get_bucket` clones the bucket, so later steps do not look at the handle again);
`GetStep`, `SetStep`, `ListStep` are one backend call each; `IncrementGet` and
`IncrementSet` are the two of `increment`; `Finish` is the `Ok`, with `cas.new`'s push of
its handle.  `End` drops an instance between any two awaits; `swap` is unimplemented in
the code and traps (`Swap`).  `Fail` is the `?` of a backend call, which the in-memory
backend never takes and others may (`Faulty`).

Values are eight bytes or more (`Full(n)`, read as an i64) or shorter (`Short(n)`,
which `increment` copies to the *front* of a zeroed buffer: `Decode` multiplies).  Words
have width `2*Half`, and addition wraps as in a release build; a debug build panics there,
which ends the instance (`End`).

The contract is written from the interface (`wit/deps/keyvalue/*.wit`) and knows no positions
and no handles: a call makes its accesses, each atomically, in any order it likes, is
answered `ok` only when all are made, and fails only when the store does.  `increment` is one
access, which creates an absent key with the delta; `get-many` answers for every key.
`KeyValue` maps `pos` to the set of items already behind it, the write of an increment
to its one access, and a cas handle to a snapshot; the map is in the INSTANCE at the end of
`KeyValue`, with `Added` for the sum: an i64 sum written without the code's `Wrap`.

The host does not implement all of that, and the properties say so by name.  Three kinds of step
are outside the contract (`Departs`): an increment that writes over a value it has not seen
(`OverwritesUnseen`), one that finds no value and gives up (`RefusesAbsent`), a `get_many` that
passes over an absent key (`LeavesOut`).  `KeepsContractElsewhere`: every *other* step is one of
the contract, so also everything that happens after such a step.  `ImplementsContract` is the
contract itself, which guests have that call neither of the two functions; it is proved, and
checked by no run, being what the other property says when nothing departs.

### Vault, Sql, Stores

`Vault` has the same shape with one access per function: `Open` makes the locker and pushes its
handle, `Call` clones the locker out of the table, `Get`, `Set` and `ListIds` are the await.
Its INSTANCE of the contract has no snapshots and no increments.

In `Sql`, `Open` gives a connection the database it is to see (`DatabaseOf`): the file's, or
one of its own when `SQL_DATABASE` is `:memory:`.  `Prepare` only keeps text and parameters.  `Call`
clones both handles, and `Create`, `Insert` or `Select` is the run under the connection's lock; a
refusal by SQLite is an error *resource* (`Refuse`), or a trap when the table is full.
`given` is history: the inserts done through the handles that share a database, by the
rule of the interface rather than by `DatabaseOf`.

`Stores` has both hosts in one specification; they share nothing, so a behaviour follows
one of them, chosen in `Init`.

### TtlCache, CacheControl, HttpCache

An entry is an envelope or raw (stored without a ttl).  A ttl is a u64 of seconds that
the code casts to an i64 (`Signed`) and adds to the time (`ExpiresAt`); where that is no date of
chrono's (`HasDate`) the guest panics.  The expiry is stored in whole seconds, rounded down
(`Envelope`).  `due` is history: the instant the caller asked for, which the cast may miss by 2^64
seconds; `TtlHonoured` judges by it.  `pc` names the await a call has reached.  A clock ticks between
any two steps; `Sec` ticks are a second.  A bucket call that fails may have had its effect (`Fail`).

`HttpCache` runs a `get` for its lookup and a `set` for its store, with all their steps.  Before
either, handle() awaits `cache::open`: `Lookup` and `Store` are what follows that await, `OpenFails`
its failure, and `Panic` a max-age that leads to no date, which is judged only then.  handle()'s
own steps are `Start`, `Forward`, `ReadBody` (end of body and lost stream look the same to the
loop), `Stored`, `Answer`, `Abandon`.  What is stored has lost the header values that are no
text (`Serialized`), and an entry that cannot be read back is an error (`LookedUp`).  `fetched` is
history: what was fetched for requests whose directives, *as sent*, let the response be kept
(`CacheControl!Keepable`) - not by the parsed Control, nor by the guard of `put`.

`CacheControl!Parse` refuses an empty header and one that is no text, takes the directives
one by one as `Control::try_from` does (`After`, a function of how many have been read), and looks at the
etag last.  `AsAsked` says by quantifiers what the documents ask: the http-proxy README, the
error texts, the tests of the file.  `ReadAsAsked` compares the two; it names two departures,
`EtagUnread` and `ZeroAgeUnseen` (section 4), in which the Control may at most be unlabelled.

### Runtime, GuestTelemetry, HttpServer

`Runtime` is `run()` as `runtime!` expands it: `SetResource` and `BuildTelemetry`, `Create`, a
`Link` per host, `PreInstantiate`, a `Connect` per back end (shared by the hosts that name
it), `Start`, and then `Join`, which is `try_join_all`: the first server that fails ends
the process.  The `?` of any step before is `StartupFails`.

`HttpServer` puts the HTTP server into that process.  `conn[c]` is the task of a connection
with the requests its client has sent and the answers it got; `inst[i]` is an instance
and the task that runs it.  `Handle` makes instance, channel and task; `Respond` is
`sender.send` and `Done` what `task.block` waits for; `SenderDropped` is `receiver.await` failing
and `BodyEnds` the body after the head.  `Leaves` is a client going at any time.  The two
tasks only meet in the channel and the body, so an instance may outlive its client, and
the next request of a connection may be served while the last one's instance runs.

`GuestTelemetry` are guards and effects on the record of one instance: `Enter` is `init()`
with the once-cells and the exit guard, `Leave` the end of an instrumented function -
its span, then its guard - and `Export` what `Shutdown` spawned.

### Messaging

`log` is everything sent; the broadcast channel is its last `Cap` entries and the
server's receiver the cursor `next`.  `Receive` is `stream.next()` with the `Lagged` error
filtered out, `pending` are spawned tasks, `Instantiate`/`FailToInstantiate`/`Exit` the
life of the instance handling a message.  `Edit` is every setter: it pushes an edited
copy and loses its handle (the table keeps what no handle reaches: `leaked`).
`Answer` is the reply `request` sends itself, on the topic `response`.

### Identity

`Look` (first look, under the lock), `Fetch` (no lock), `Store` (second look, under the
lock).  `now` is read once, in `Start`.

### WebSockets

A connection's task is `upgraded` (spawned, not listed), `open` (both halves of the
`select` run), `closing` (`select` is over, the entry not yet removed) and `gone`.  `up` is
the client's side.  The peer map holds the queue's only sender, so `SenderGone` follows
from an entry that is overwritten or removed.  No two live sockets have one address,
but the task of a dead one may linger while a new one registers: `met` remembers it.

### Blobstore

`bodies` are the object maps, numbered as they were created; `store` maps a name to
the one listed under it and a handle (`Container`) holds the body itself, as the `Arc` does.
A function with one backend call is one action.  `DeleteObjects` and `Clear` fix body and
names, and `DeleteNext` deletes one of them per step.  `due` is history: the names the
deletion began with and nobody has written since.  What a guest has read (`Copy`) takes
up a table entry and nothing more: nobody else sees it.  `Create` lists the container before the push of its
handle, so a full table traps with the container there.

### Telemetry, Metrics, Outgoing, RuntimeMacro, GuestMacro, Sdk, Algorithms

Each operator is one conversion or one stage of an expansion; `Algorithms` picks an
algorithm and an input and runs it in one step (`given`, `result`).  A request through the
SDK takes several: set a part, handle, wrap an error in a context, let `?` convert it,
respond, in any order the types allow.  The properties compare a result with its input without
going through the code's own stages: what arrives, contents and times included, which lists
compile, which arm a topic reaches, which status is answered.  Where the code loses something they
say nothing of it (each exemption has a name or a comment that quotes the document it departs
from); they never ask for the loss.  Its specification is `ASpec` (`AInit`, `ANext`), and its
named assumptions say what the inputs are: what Rust's types and the parsers before it let through.

Where the code drops or groups the items of a list, the result is a function on the
places the kept ones had (`Telemetry!ByScope`, `RuntimeMacro!Backends`, `ContextFields`,
`Outgoing!Without`), so that "each arrives once" can be said, and proved, by place.

Numbers are counted in halves (5 is 2.5) and an i64 is a few values wide; identifiers are
sequences of hexadecimal digits; instants are ticks.  What rustc accepts (`Compiles`,
`CompilesHttp`) is part of the macros' models because names that clash are where they go
wrong.

## 3. Runs

Every run is exhaustive within its bounds.

| Run | Asks | Bounds |
|---|---|---|
| `KeyValue_batches` | batches and increments of two guests, access by access, on a backend that may fail, keep the contract but for the three departures; read-your-writes | 1 bucket, 2 keys, batches of at most 2, one written number and the least of the deltas, whose sum goes over the edge and comes back |
| `KeyValue_handles` | bucket and cas handles on two buckets, with batches, listings and increments through them, on a backend that may fail, keep the contract but for the departures; types | 2 buckets, 1 key, 2 table slots, `set_many` of at most 2 (so also twice the same key, and none), `cas.new`, `list_keys`, `increment`; number and delta as above |
| `KeyValue_atomic` | *violation*: increment is not atomic | 2 guests, 1 key |
| `TtlCache` | expiry and clean-up of two guests on one key, ttls that the cast to i64 turns negative included | 1 value; an i64 of three bits and ttls of 1, 3 and 7 s (7 is cast to -1); half-second ticks, 4 of them; dates from one second back to three and a half ahead |
| `HttpCache` | handle() with its cache | 2 guests, 2 etags, 3 headers and none (stored; a max-age of 2^63 overruled by one of 0; no-cache), failing bucket, header values that are no text; dates end after a second, so the clock comes to where a max-age is no date |
| `HttpServer` | answers in their turn, telemetry flushed once, requests not left waiting, one server down | 2 connections, 2 instances, 2 requests, 2 nested scopes in one instance at a time; deployments of 3 hosts and of one that does not listen |
| `Stores` | the vault against the contract, SQL rows against the inserts | 2 guests; vault: 2 lockers, 1 secret, 2 values, 2 slots; SQL: 3 slots, 2 rows, one parameter, a u64 beyond i64 |
| `Messaging` | delivery | 2 instances, channel of 2, 3 messages |
| `Identity` | refresh races | 3 calls, lifetimes 0 and 2, clock to 3, 3 tokens |
| `WebSockets` | who is listed, what arrives, who is removed | 3 connections at 2 addresses (one of them loopback), 2 messages, 2 recipients |
| `Blobstore` | deletions against writers, replaced containers, values | 2 instances, 1 name created twice, 2 objects of at most 1 chunk, 2 table slots, delete lists of at most 2 |
| `Algorithms` | header parser against the documents, telemetry, SQL values, outgoing requests, macros, a request through the SDK | every header of up to 4 directives; batches of 2 spans; numbers from below i64 to beyond u64; 3 hosts, 2 routes, 3 patterns; 3 outgoing headers; 3 contexts |

Why they are enough: two guests give every pair of interleaved calls, and no code here looks at
more than one other party at a time; the third call of `Identity` is needed for a refresh
overtaken by another while a third reads.  Three connections at two addresses use one address
twice.  A channel of two overruns at the third message.  Two keys tell a batch half done from
one done.  Half-second ticks tell an expiry cut to whole seconds from the one asked for.  With
three bits the cast turns a ttl of 7 s into one of -1 s: over when it is stored, or no date.
Two requests can wait on one connection or run on two, and an instance too few is a request
refused.  Three slots hold two connections and a statement.  A parameter at a time is enough for
`Sql`, since `Algorithms` has every type.  Three hosts are one more than the pair that the
deduplication of back ends confuses.

Deadlock is checked except in `Algorithms` (a behaviour ends with its result),
`HttpServer` (the process ends) and `WebSockets` (all connections gone and the bounds
reached), where the model really stops.

Each property has a mutant in `PROJECT.json`: a plausible bug, defined next to
the operator it replaces and marked "A fault", under which TLC finds the property violated.

### Fairness

* `Messaging`: weak fairness of `Subscribe` and `Receive` only: the server's loop never
  awaits a handler, so it goes on whatever they do.  None of the tasks is assumed to
  make progress.  Shows `DeliveredOrOverwritten`.
* `WebSockets`: weak fairness of a connection's task except `Forward`, because a client that
  does not read may hold the writing half up for ever.  Shows `VanishedIsRemoved`.
* `HttpServer`: weak fairness of `ProcessEnds` and, for each connection, of taking up a
  request, refusing it, or noticing that its guest is gone: the runtime polls the
  joined servers and the connections' tasks.  Nothing is assumed of guests, which may run for
  ever (there is no timeout), nor of clients, who may never read a body.  Shows
  `DecidedIsAnswered` and `OneDownAllDown`.

## 4. Where the code departs from what it says

`KeyValue_atomic` is the one violation run, and the one entry of `findings`: `increment` is
documented as atomic and reads and writes in two awaits.  The others are described
here.  The models have the code as it is; no property asks for a departure, and where one would refute
a property the property exempts it by name, in brackets below.

Stores:

* `increment` of an absent key is an error (`wasi-keyvalue/src/host/atomics_impl.rs:28`); its comment
  (line 17) and the interface say such a key is created [`RefusesAbsent`].
* `get_many` leaves absent keys out (`batch_impl.rs:18`); `batch.wit` promises a `none` for
  each, in the list [`LeavesOut`].
* `clear` leaves a container empty only if nobody writes meanwhile (`container.wit:50`);
  `delete-container` leaves the objects to those who hold a handle (`blobstore.wit:12`);
  `create-container` replaces a container of that name; `get-data` ignores the range.
* SQL's `open` ignores the name it is given, and in memory makes an empty database per handle.
  Dates, times and timestamps are stored as NULL - the last arm of
  `datatype_to_rusqlite_value` says it is for None (`wasi-sql/src/host/default_impl.rs:172`) - a u64
  beyond i64 comes back negative, and a boolean comes back as a number.

HTTP and its cache:

* The cache's clean-up (`wasi-keyvalue/src/guest/cache.rs:47`, "deleting expired state") deletes
  by key: a value stored between its read and its delete goes, though it has not expired.
  `CleanupTakesOnlyTheDue` says exactly how far this goes.
* What the cache's `set` returns as previous value is what it read, not necessarily what it
  replaced (`guest/cache.rs:72`).
* A ttl of 2^63 s or more turns negative on its way to chrono (`guest/cache.rs:64`): the value
  is gone at once, or, where there is no such date, the guest panics [the second half of
  `TtlHonoured` is about ttls below 2^63].
* `no-cache` does not update the cache: `put` does nothing without the etag that `no-cache`
  skips (`wasi-http/src/guest/cache.rs:90`), where the comment at line 112 and
  `examples/http-proxy/README.md:37` say the response is stored.
* Under `no-cache` the etag is not looked at: a missing, empty, weak or multiple `If-None-Match`
  is accepted, where the tests at `wasi-http/src/guest/cache.rs:317`, 338 and 349 and
  `examples/http-proxy/README.md:40-42` want an error [`EtagUnread`].
* `max-age=0` before `no-store` is accepted, where the error text (`cache.rs:150`) says no other
  directive can stand beside it [`ZeroAgeUnseen`].  Under either the response's ETag is replaced
  by an empty one (`outgoing.rs:73`).
* A guest that never responds is waited for without a time limit (`wasi-http/src/host/server.rs:154`).
  One that answers with an error code ends there, and its exports with it.
* Of several values of one header a guest sends upstream, the last one goes out
  (`wasi-http/src/host/default_impl.rs`, the headers become the client's defaults).

Messaging, identity, websockets:

* A setter of a message edits a copy that no handle reaches, so the message stays as it was
  (`wasi-messaging/src/host/types_impl.rs:93`, where line 86 says the data is set).
* `request` acknowledges itself at once and waits for nobody (`wasi-messaging` `default_impl.rs:204`);
  a subscription is not limited to the configured topics.
* The token cache is not keyed by scopes, compares the expiry with an instant read before
  the lock, and reports the lifetime a cached token was issued with, not what is left.
* A websocket client sees its upgrade accepted before it is listed: what is sent in
  between does not reach it.  A task that ends removes its address, not its entry
  (`server.rs:144`): a newer connection at that address is unlisted and closed.  The
  health check's client is made once and kept, whatever becomes of its connection
  (`server.rs:46`).

Telemetry:

* The kind of a span goes out as its place in the wit enum - client 0, server 1, producer
  2, consumer 3, internal 4 (`wasi-otel/src/host/tracing_impl.rs:99`) - where OTLP has internal 1, server
  2, client 3, producer 4, consumer 5 [`SpansArrive` asks only that two kinds stay two].
* Identifiers are printed with `{:x}`, which leaves out leading zeros, and decoded by
  `hex::decode(..).unwrap_or_default()`: one that begins with a zero is shortened or lost
  (`guest/tracing.rs:115-116`), where `tracing.wit:59` and 64 promise all bytes [`SameId`].
* All spans of an export become children of the host's span: how they were nested is lost.
* A metric's number loses its fraction on the way and wraps beyond i64 (`guest/metrics.rs:243`)
  [`Near`]; an exemplar's span is never known, since bytes are read as text [`SameExemplar`];
  the resource gains an attribute `schema_url`; the temporality `LowMemory` becomes unspecified.
* Only the outermost scope flushes.  A scope entered after it has ended is not exported;
  `#[instrument]` drops a function's visibility and its other attributes.
* The host trait's doc says errors are logged and not propagated; the export's `.await?`
  propagates them.  `resource()` is documented to panic and returns an `Option`.

Macros and SDK:

* Back ends are told apart by `get_ident` (`runtime-macro/src/runtime.rs:40`), which is None for every
  path of more than one segment: of several of those, only the first is connected [`PlainlyNamed`].
* In `guest!`, a GET with path parameters ignores `with_query`; a POST ignores its path
  parameters (`guest-macro/README.md:73` has them extracted) [`GuestIsFaithful`]; two methods on
  one path, the path `/`, and names that differ in separators or braces only do not compile.
  Conflicting routes panic when the router is built.
* A topic is handled by the first pattern it contains, so a pattern that contains an
  earlier one is dead [`TopicsAreReached`]; a message that is published loses its headers.
* A `serde_json` error is a 400 only if `?` meets it before a context does.  The response of an
  `anyhow` error shows its outermost context and its root.

## 5. Proofs

TLAPS proves, for all values of the constants that satisfy the named assumptions:

* `AlgorithmsIdentity_proofs`, of `Identity` (any number of calls, scopes, lifetimes; `IdentityAssumption`):
  `TypeOK`, `NeverEmpty`, `GoodWhenAsked`, `ExpiryNeverRecedes`.  The inductive invariant
  `IInv` adds that the empty token is only ever cached with expiry 0, that no call began
  after the clock's instant, and that what a call fetched was issued after it began.
  Without the first, `Valid` could not rule the empty token out (expiry 0 is not later than
  any instant); without the others nothing is known of a token fetched while the clock ran.
* `KeyValue_proofs` (any guests, buckets, keys, slots, word width; `ConstantsAssumption`), in
  three parts.
  - `TypeOK`.  `IInv` adds `CallInv`: what a running call's position can be and, for an
    increment between its two awaits, that it holds exactly one value read for the key of its
    argument.  The arithmetic is in a few lemmas: wrapped sums, decoded values and incremented
    values are words, and the code's wrapped sum is the i64 sum of the contract (`Added`).
  - `KeepsContractElsewhere` and, of guests without `increment` and `get_many`, `ImplementsContract`.  The
    initial states map to initial states, and there is one lemma per action that maps it to an
    action of the contract or to a stutter, unless it departs (`GetIsRead`, `SetIsWrite`,
    `ListIsList`, ...), from `IInv`.
  - `ReadYourWrites` of `KeyValueHistory` (`HistoryAssumption`: the mark for "nobody" is no
    guest).  `HInv` adds, for each guest, that a key it wrote last holds what it was told
    (`Remembered`), that a call that writes has been told of nothing yet (`Unsettled`), and that
    of what lies behind such a call the last value per key is in the store, where the guest
    wrote last (`Behind`).  Without the third, nothing would follow from a batch's `Ok` for a
    key that occurs in it twice.
* `WebSockets_proofs` (any addresses, filters and bounds; `WebSocketsAssumption`): `TypeOK`,
  `ListedIsAlive`, `RunningIsListed`, then `DeliveredInOrder` and `FilterIsItsOwn`.  The first
  three with `MetIsKnown` (two tasks at one address, listed or on their way out, have met) are
  inductive; `FlowInv` adds `Flows`: the two properties per connection, and that nothing is
  queued for a connection which is not listed yet (`Fresh`).
* `HttpCache_proofs` (any guests, keys, ttls, clock; `TtlAssumption`, `HeaderAssumption`,
  `PayloadsAssumption`, `RequestsAssumption`).
  - `TtlCache`: `TypeOK`, `TtlHonoured`, `CleanupTakesOnlyTheDue`.  `TInv` adds that an entry
    that says it expires in some second is due within it, wherever it is - in the bucket, read,
    or about to be stored - and, the cast included, never later than what was asked for, and
    that a call about to delete has read an entry which has expired.
  - `CacheControl`: what its parser leaves in a Control (`ParsedControl`: a max-age that was sent,
    the etag that was asked for), by induction over the directives.
  - `HttpCache`: `HTypeOK`, `BucketHoldsOnlyStorable`, `HitIsEarlierResponse`, and `TtlHonoured` again
    with handle() as the only user, because every step of `HttpCache` is one of `TtlCache` or leaves
    it alone (`HandleUsesTheCache`).  `HInv` adds that the cache call of a request is about its own
    etag and carries nothing that was not fetched under it (`CallWell`, `RequestWell`).
* `HttpServer_proofs` (any connections, instances and requests, no assumption): `AnsweredInTurn` and
  `FlushedWhenDone`.  A request is *untouched*, *awaited* or *settled*, and its place in its
  connection's queue says which (`Turns`); none is asked twice (`AskedOnce`), and each
  has at most one instance (`OneEach`), without which an old instance could respond for a newer
  request.  `Tels` says what the telemetry of an instance is before, during and after its
  outermost scope, `Ready` that the resource is there before anything is served.
* `Messaging_proofs` (any guests, topics, capacity and number of messages;
  `MessagingAssumption`): `TypeOK`, `HandedOnceInOrder`, `SkippedOnlyWhenOverwritten`.  `IInv`
  adds that nothing is handed out before the server subscribes, and that tasks and ended
  handlers are of messages handed out.
* `Blobstore_proofs` (any instances, names, objects, bounds; `BlobstoreAssumption`): `TypeOK`,
  `DeletedUnlessRewritten`, `OldHandlesMissTheNew`, `BytesAreAsWritten`.  `IInv` adds `DueLeft`
  (what a deletion set out to delete and nobody wrote since is gone or still before it, and its
  instance holds a handle) and `FinitelyMany` (a container has finitely many objects even where
  there are infinitely many names; `clear` would otherwise have no list to go through).
* `Stores_proofs` (any guests, slots, rows, parameters, lockers; `StoresAssumption`): `SqlRowsAsInserted`
  and `VaultImplementsContract`.  For SQL the invariant is that a table has the converted
  inserts in their order, that a handle is for the database of its slot, and that a
  call has got the first rows of its own; `ValuesReadBack` is the round trip of one value.  The
  vault's refinement is shown action by action, as the key-value host's.

* `AlgorithmsIdentity_proofs`, of `Algorithms`: all four of its invariants, for inputs of any
  size.  An input is answered in one step, so apart from the SDK's part an invariant follows from
  a fact about operators, stated for every input the assumptions allow:
  - `HeadersReadAsAsked`, from `ParseReadsAsAsked`: the loop over a header of any length
    computes what the documents ask, but for the two departures.  The argument is the least
    counterexample: among the prefixes on which the loop's Control is not what quantifiers say
    of it there is a shortest, and one more turn of the loop from the one before gives a
    contradiction.  (`MaxDirectives` bounds `HeadersReadAsAsked` only.)
  - `AnsweredAsDecided`.  It is not inductive; `SdkInv` adds, of an error on its way (`OnItsWay`), that
    what is wrapped around it are the contexts since the last `?`, that the text inside
    shows those before it, newest first and wherever they stand in it (`Shows`, whose
    lemmas say how it goes through concatenation), and which kind of error is inside, given
    the one raised (`Remembers`): a JSON error is itself until a `?` meets it, and what that
    makes of it depends on whether a context came first.
  - `ExpansionsAreFaithful`.  Of a runtime: where every back end is named plainly the parser
    keeps each path once, so the fields rustc sees differ in name, each is connected and each
    host is given its own.  Of a guest: what the handler of a route is given is what its settings
    ask for.  Of topics: the first pattern a topic holds is its arm, and a pattern holds
    itself, so it is reached unless it holds an earlier one.
  - `DataArrives`, part by part: identifiers (one that does not begin with a zero gets through,
    at any length), numbers (whole ones up to the width of an i64), attributes, status, times,
    events and links of a span, its place under its scope, points, temporality, times and
    exemplars of metrics, the resource, every type of SQL parameter, outgoing headers and
    certificate.

The assumptions, and why the code justifies them.  Markers (`Missing`, `Nobody`, `NoTopic`,
`NoTable`, ...) differ from what they mark: an `Option` is not one of its contents.
`RequestsAssumption`: what handle() is given are headers made of directives, shapes of
`If-None-Match`, and etags that are none of the shapes.  `StoresAssumption`: a parameter's value
is one its SQL type has, and the shared database is not one that belongs to a handle.
`TtlAssumption`: a ttl is a u64 of seconds, an i64 is half as wide, "never" is no instant, and
chrono's dates end before 2^63 seconds do.  Those of `Algorithms` give its inputs their Rust
types; beyond that, `NumberAssumption`: None and NaN are no numbers; `RuntimeAssumption`
(`Deployable`): a path is not empty and is made of identifiers; `GuestAssumption`: a route's
method is one the parser accepts, and a pattern can itself arrive as a topic;
`OutgoingAssumption`: `Host` and `Client-Cert` are header names, and a certificate is good or
bad in one of the ways the code tells apart; `SdkAssumption`: contexts are told apart from codes
and descriptions, without which "the contexts a text shows" would mean nothing.  The others give
bounds their types.

Every safety property that a passing run checks is a theorem.  Only model-checked:

* liveness: `DeliveredOrOverwritten`, `VanishedIsRemoved`, `DecidedIsAnswered` and
  `OneDownAllDown` (fairness is ENABLED, which TLAPS does not do);
* `AtomicIncrement` does not hold.

## 6. Abstractions

* Guests are arbitrary: they call anything at any time, one call at a time.  Two
  calls of one instance meet at the store as the calls of two instances do.
* Payloads, names and JSON are model values; a raw value that happens to parse as a cache
  envelope is left out.
* Back ends other than the default ones are only present as `Faulty`.
* Resource tables have finitely many slots; wasmtime's own are 32-bit.
* Logging, tracing and environment variables are left out.
* SQLite is one table of one column without affinity, with three statements; another
  process that holds the file's lock is a refusal at any time.
* wasmtime, hyper, reqwest, tokio, opentelemetry, anyhow and rustc are external: modelled
  from how the code uses them.
* An HTTP request is what `fix_request` looks at; bodies are either still coming or complete.

## 7. Not modelled

* `wasi-config`: two reads of the environment through a library; it has no state.
* `examples`: programs that use the crates.
* `qwasr/src/compile.rs` writes a file and exits; `qwasr-sdk/src/capabilities.rs` forwards to
  the guests' bindings; `otel/src/tracing.rs` adds a layer that records a histogram.
* `otel/src/retry.rs` is in no module tree (`lib.rs` does not name it) and is not compiled.
* Messaging's client handles, request options and `reply` keep no state that anyone sees.
* Memory: a websocket peer's queue is unbounded and the model's is short.

## 8. Plan

Done, in this order: KeyValue and its contract, TtlCache, CacheControl and HttpCache, Messaging,
Identity, WebSockets, Blobstore; proofs of Identity, KeyValue, WebSockets; Vault, Sql, Runtime,
GuestTelemetry, HttpServer; the algorithms of telemetry, SQL values, outgoing requests,
macros and SDK.

Then the theorems of section 5: the invariants of KeyValue, Identity, WebSockets, TtlCache, HttpCache,
Messaging, Stores, Blobstore and HttpServer, the two refinements of the contract, read-your-writes,
and the four invariants of Algorithms.

What is left is out of the prover's reach (the liveness of section 3) or of the model: the
hazards of `PROJECT.json` that carry a note instead of a property.
