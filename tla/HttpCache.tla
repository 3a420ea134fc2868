----------------------------- MODULE HttpCache ------------------------------
(***************************************************************************)
(* wasi-http's guest-side handle() (guest/outgoing.rs) and the response    *)
(* cache it consults and fills (guest/cache.rs): parse the caching         *)
(* headers, look the etag up, forward the request upstream, read the body, *)
(* store the response.                                                     *)
(*                                                                         *)
(* The cache is the TtlCache of wasi-keyvalue: a lookup is one of its get  *)
(* calls and a store one of its set calls, with all their steps, each      *)
(* after an await of its own that opens the bucket.  The keys are etags,   *)
(* the payloads responses as serialised; the URL is no part of the key.    *)
(***************************************************************************)
EXTENDS TtlCache, Sequences

CONSTANTS
  Headers,   \* the Cache-Control headers requests carry
  NoHeader,  \* no such header at all
  Shapes,    \* the If-None-Match headers they carry
  Bodies,    \* the bodies upstream answers with
  Values     \* what a header of such an answer holds: visible ASCII or other bytes

C == INSTANCE CacheControl WITH Ages <- Ttls, Etags <- Keys

\* whole is FALSE when the stream ended before the body did; etag is the ETag
\* header: upstream's own, or what handle() put in its place.
Response == [body: Bodies, whole: BOOLEAN, value: {"text", "bytes", "empty"},
             etag: Keys \cup {C!NoEtag, "upstream"}]

\* Serialized: a header value that is not text is kept as the empty one.
Serialized(resp) == [resp EXCEPT !.value = IF @ = "bytes" THEN "empty" ELSE @]

ASSUME PayloadsAssumption == Payloads = Response

ASSUME RequestsAssumption ==
  /\ Headers \subseteq Seq(C!Directives) /\ NoHeader \notin Seq(C!Directives)
  /\ Shapes \subseteq C!EtagShapes /\ Values \subseteq {"text", "bytes"}
  /\ Keys \cap ({C!NoEtag} \cup C!NotAnEtag) = {}

VARIABLES
  req,     \* req[g]: the request guest g is handling
  fetched  \* history: fetched[e], what was fetched for requests that carried etag e
           \* and asked for nothing that keeps it from being kept

hvars == <<tvars, req, fetched>>

NoRequest == [pc |-> "idle"]
ReqPCs == {"open", "lookup", "forward", "body", "put", "store", "ok", "err"}
Control == [ok: BOOLEAN, no_cache: BOOLEAN, no_store: BOOLEAN, max_age: Nat, etag: Keys \cup {C!NoEtag}]
Request == [pc: ReqPCs, header: Headers \cup {NoHeader}, shape: Shapes, control: Control,
            hit: BOOLEAN, resp: Response \cup {Missing}]
\* maybe_from is not None.
Cached(q) == q.header # NoHeader

HInit ==
  /\ Init
  /\ req = [g \in Guests |-> NoRequest]
  /\ fetched = [e \in Keys |-> {}]

\* Where a request goes once its headers are parsed.
MayRead(c) == ~c.no_cache /\ ~c.no_store /\ c.etag # C!NoEtag
\* A fault: a max-age of zero, or none, is stored like any other.
MayStoreAnyAge(c) == ~c.no_store /\ c.etag # C!NoEtag
MayStore(c) == ~c.no_store /\ c.etag # C!NoEtag /\ c.max_age # 0

\* The cache is consulted only for an etag, under neither no-cache nor no-store.
Start(g) ==
  /\ req[g] = NoRequest
  /\ \E h \in Headers \cup {NoHeader}, shape \in Shapes :
       LET c == IF h = NoHeader THEN C!Default ELSE C!Parse(h, shape)
           pc == IF ~c.ok THEN "err" ELSE IF MayRead(c) THEN "open" ELSE "forward" IN
       req' = [req EXCEPT ![g] = [pc |-> pc, header |-> h, shape |-> shape, control |-> c,
                                  hit |-> FALSE, resp |-> Missing]]
  /\ UNCHANGED <<tvars, fetched>>

\* A fault: the entry is looked for by something other than the etag.
LookupElsewhere(g) ==
  /\ req[g].pc = "open"
  /\ \E e \in Keys : BeginGet(g, e)
  /\ req' = [req EXCEPT ![g].pc = "lookup"]
  /\ UNCHANGED fetched

\* cache.get: the bucket is open, and asked for the entry.
Lookup(g) ==
  /\ req[g].pc = "open"
  /\ BeginGet(g, req[g].control.etag)
  /\ req' = [req EXCEPT ![g].pc = "lookup"]
  /\ UNCHANGED fetched

\* cache::open fails, before the get or the set; what was fetched goes with it.
OpenFails(g) ==
  /\ Faulty
  /\ req[g].pc \in {"open", "put"}
  /\ req' = [req EXCEPT ![g].pc = "err", ![g].resp = Missing]
  /\ UNCHANGED <<tvars, fetched>>

\* cache.get returned: a hit is the answer, an error is one too, and so is an entry
\* that is no response (the bucket has other users).
LookedUp(g) ==
  /\ req[g].pc = "lookup"
  /\ Return(g)
  /\ \/ LET found == task[g].res IN
        req' = [req EXCEPT ![g].pc = IF task[g].pc = "err" THEN "err"
                                     ELSE IF found # Missing THEN "ok" ELSE "forward",
                           ![g].hit = found # Missing, ![g].resp = found]
     \/ /\ Faulty /\ task[g].res # Missing
        /\ req' = [req EXCEPT ![g].pc = "err"]
  /\ UNCHANGED fetched

\* The proxy answers with a response head, or fails.
Forward(g) ==
  /\ req[g].pc = "forward"
  /\ \/ \E b \in Bodies, v \in Values :
          req' = [req EXCEPT ![g].pc = "body",
                             ![g].resp = [body |-> b, whole |-> TRUE, value |-> v, etag |-> "upstream"]]
     \/ req' = [req EXCEPT ![g].pc = "err"]
  /\ UNCHANGED <<tvars, fetched>>

\* The response to request q: with Cache-Control present the ETag becomes the
\* cache's own, the empty one included; or, a fault, it stays upstream's.
KeepsEtag(q, whole) == [q.resp EXCEPT !.whole = whole]
Labelled(q, whole) ==
  [q.resp EXCEPT !.whole = whole, !.etag = IF Cached(q) THEN q.control.etag ELSE @]

\* The body is read until the stream is dropped, at its end or before it: the
\* code cannot tell.  Then the response is labelled, and put into the cache if it
\* may be.
ReadBody(g) ==
  /\ req[g].pc = "body"
  /\ \E whole \in BOOLEAN :
       LET q == req[g]
           resp == Labelled(q, whole)
           pc == IF Cached(q) /\ MayStore(q.control) THEN "put" ELSE "ok" IN
       /\ req' = [req EXCEPT ![g].pc = pc, ![g].resp = resp]
       /\ fetched' = IF Cached(q) /\ q.shape \in Keys /\ C!Keepable(q.header)
                       THEN [fetched EXCEPT ![q.shape] = @ \cup {resp}] ELSE fetched
  /\ UNCHANGED tvars

\* cache.put: the bucket is open, the response serialised, the envelope made.
Store(g) ==
  /\ req[g].pc = "put"
  /\ LET c == req[g].control IN BeginSet(g, c.etag, Serialized(req[g].resp), c.max_age)
  /\ req' = [req EXCEPT ![g].pc = "store"]
  /\ UNCHANGED fetched

\* A max-age that leads to no date: the guest panics, its request with it.
Panic(g) ==
  /\ req[g].pc = "put" /\ ~HasDate(req[g].control.max_age)
  /\ req' = [req EXCEPT ![g] = NoRequest]
  /\ UNCHANGED <<tvars, fetched>>

\* cache.set returned: its failure replaces the response that was fetched.
Stored(g) ==
  /\ req[g].pc = "store"
  /\ Return(g)
  /\ req' = [req EXCEPT ![g].pc = task[g].pc,
                        ![g].resp = IF task[g].pc = "err" THEN Missing ELSE @]
  /\ UNCHANGED fetched

\* handle() returns to the guest's own code.
Answer(g) ==
  /\ req[g].pc \in {"ok", "err"}
  /\ req' = [req EXCEPT ![g] = NoRequest]
  /\ UNCHANGED <<tvars, fetched>>

\* The steps inside a cache call, and its failures.
InCache(g) ==
  /\ Work(g) \/ Fail(g)
  /\ UNCHANGED <<req, fetched>>

\* A fault: the request goes, the cache call it made does not.
AbandonHalf(g) ==
  /\ req[g] # NoRequest
  /\ req' = [req EXCEPT ![g] = NoRequest]
  /\ UNCHANGED <<tvars, fetched>>

\* The guest instance ends in the middle of a request.
Abandon(g) ==
  /\ req[g] # NoRequest
  /\ req' = [req EXCEPT ![g] = NoRequest]
  /\ IF task[g] = Idle THEN UNCHANGED tvars ELSE End(g)
  /\ UNCHANGED fetched

Clock == Tick /\ UNCHANGED <<req, fetched>>

Handle(g) ==
  \/ Start(g) \/ Lookup(g) \/ OpenFails(g) \/ LookedUp(g) \/ Forward(g) \/ ReadBody(g)
  \/ Store(g) \/ Panic(g) \/ Stored(g) \/ Answer(g) \/ InCache(g)

HNext == Clock \/ \E g \in Guests : Handle(g) \/ Abandon(g)

HSpec == HInit /\ [][HNext]_hvars

-----------------------------------------------------------------------------
(* Properties.                                                               *)

\* The cache keeps its types, and a request is in a cache call exactly when it waits
\* for one.
HTypeOK ==
  /\ TypeOK
  /\ req \in [Guests -> {NoRequest} \cup Request]
  /\ fetched \in [Keys -> SUBSET Response]
  /\ \A g \in Guests : task[g] # Idle <=> req[g].pc \in {"lookup", "store"}

\* What the bucket holds under an etag was fetched for a request that carried that
\* etag and whose directives, as sent, let it be kept: neither no-store nor, in the
\* end, a max-age of zero or none; and it always has an expiry.  So nothing else gets
\* in, through any interleaving.
BucketHoldsOnlyStorable ==
  \A e \in Keys : bucket[e] # Missing =>
    /\ bucket[e].exp # Never
    /\ \E resp \in fetched[e] : bucket[e].val = Serialized(resp)

\* A hit is a response fetched before for the same etag, but for header values that
\* were not text, and labelled with it; only a request that allows the cache to
\* answer gets one.
HitIsEarlierResponse ==
  \A g \in Guests : req[g].pc = "ok" /\ req[g].hit =>
    /\ MayRead(req[g].control)
    /\ \E resp \in fetched[req[g].control.etag] : req[g].resp = Serialized(resp)
    /\ req[g].resp.etag = req[g].shape
=============================================================================
