---------------------------- MODULE CacheControl ----------------------------
(***************************************************************************)
(* How wasi-http's guest reads the caching headers of a request            *)
(* (guest/cache.rs, Control::try_from and Cache::maybe_from): a loop over  *)
(* the directives of Cache-Control, then one look at If-None-Match.        *)
(*                                                                         *)
(* A header is the list of its directives, already split at the commas,    *)
(* trimmed and lower-cased, the empty header having none; an If-None-Match *)
(* value is one of the shapes the code tells apart.                        *)
(***************************************************************************)
EXTENDS Integers, Sequences

CONSTANTS
  Ages,    \* the numbers a max-age directive carries
  Etags    \* strong, single entity tags

NoEtag == "none"    \* no If-None-Match header; the empty etag of a Control
\* A value that is empty, is not text, is weak or has a comma in it is no etag.
NotAnEtag == {"empty", "bytes", "weak", "many"}
EtagShapes == {NoEtag} \cup NotAnEtag \cup Etags

ASSUME HeaderAssumption ==
  /\ Ages \subseteq Nat
  /\ Etags \cap ({NoEtag} \cup NotAnEtag) = {}

NoStore == [name |-> "no-store", age |-> 0]
NoCache == [name |-> "no-cache", age |-> 0]
MaxAge(n) == [name |-> "max-age", age |-> n]
BadAge == [name |-> "malformed", age |-> 0]   \* max-age=<not a number>
Unknown == [name |-> "other", age |-> 0]      \* ignored; an empty one too
Bytes == [name |-> "bytes", age |-> 0]        \* not visible ASCII: the header is no str
Directives == {NoStore, NoCache, BadAge, Unknown, Bytes} \cup {MaxAge(n) : n \in Ages}

\* The parsed Control; ok is FALSE once a directive was refused.
Default == [ok |-> TRUE, no_cache |-> FALSE, no_store |-> FALSE, max_age |-> 0, etag |-> NoEtag]
Refused == [Default EXCEPT !.ok = FALSE]

\* A fault: the first max-age stays.
DirectiveFirstAge(d, c) ==
  CASE ~c.ok -> c
    [] c.ok /\ d = NoStore ->
         IF c.no_cache \/ c.max_age > 0 THEN Refused ELSE [c EXCEPT !.no_store = TRUE]
    [] c.ok /\ d = NoCache ->
         IF c.no_store THEN Refused ELSE [c EXCEPT !.no_cache = TRUE]
    [] c.ok /\ d.name \in {"max-age", "malformed"} ->
         IF c.no_store \/ d = BadAge THEN Refused
         ELSE IF c.max_age > 0 THEN c ELSE [c EXCEPT !.max_age = d.age]
    [] OTHER -> c

\* One turn of the directive loop.
Directive(d, c) ==
  CASE ~c.ok -> c
    [] c.ok /\ d = NoStore ->
         IF c.no_cache \/ c.max_age > 0 THEN Refused ELSE [c EXCEPT !.no_store = TRUE]
    [] c.ok /\ d = NoCache ->
         IF c.no_store THEN Refused ELSE [c EXCEPT !.no_cache = TRUE]
    [] c.ok /\ d.name \in {"max-age", "malformed"} ->
         IF c.no_store \/ d = BadAge THEN Refused ELSE [c EXCEPT !.max_age = d.age]
    [] OTHER -> c

\* If-None-Match is looked at only when the cache may be read.
WithEtag(c, shape) ==
  IF ~c.ok \/ c.no_store \/ c.no_cache THEN c
  ELSE IF shape \in Etags THEN [c EXCEPT !.etag = shape] ELSE Refused

\* The Control after so many turns of the loop.
After(directives) ==
  LET after[n \in 0..Len(directives)] ==
        IF n = 0 THEN Default ELSE Directive(directives[n], after[n - 1])
  IN  after

Occurs(directives, d) == \E i \in DOMAIN directives : directives[i] = d

\* Control::try_from for a Cache-Control header that is present: an empty one and
\* one that is not text are refused before the loop.
Parse(directives, shape) ==
  IF directives = <<>> \/ Occurs(directives, Bytes) THEN Refused
  ELSE WithEtag(After(directives)[Len(directives)], shape)

-----------------------------------------------------------------------------
(* What a request asks for, from the documents: the README of the http-proxy *)
(* example (lines 34-56), the error texts and the tests of guest/cache.rs.   *)
(* The order of the directives is of no account but for two of one kind.     *)

\* The max-age in force after the first n directives: the last one wins.
AgeAfter(directives, n) ==
  LET ages == {i \in 1..n : directives[i].name = "max-age"} IN
  IF ages = {} THEN 0 ELSE directives[CHOOSE i \in ages : \A j \in ages : j <= i].age

\* "No other directive can be used with this one" (no-store).
StoreConflict(directives) ==
  /\ Occurs(directives, NoStore)
  /\ \E i \in DOMAIN directives : directives[i] = NoCache \/ directives[i].name = "max-age"

Malformed(directives) ==
  directives = <<>> \/ Occurs(directives, Bytes) \/ Occurs(directives, BadAge)

\* "The Cache-Control header requires a corresponding If-None-Match header with a
\* single <etag_value>", unless nothing is to be cached.
AsAsked(directives, shape) ==
  LET stores == ~Occurs(directives, NoStore) IN
  IF Malformed(directives) \/ StoreConflict(directives) \/ (stores /\ shape \notin Etags)
    THEN Refused
    ELSE [ok |-> TRUE, no_cache |-> Occurs(directives, NoCache), no_store |-> ~stores,
          max_age |-> AgeAfter(directives, Len(directives)),
          etag |-> IF stores THEN shape ELSE NoEtag]

\* A response to such a request may be kept: nobody said no-store, and the max-age
\* is not zero.  (Under no-cache it may: "and then cache the result".)
Keepable(directives) ==
  ~Occurs(directives, NoStore) /\ AgeAfter(directives, Len(directives)) # 0

\* Where the code takes a header that the documents refuse: under no-cache it does not
\* look at the etag (the tests at guest/cache.rs:318, :338 and :349 expect errors), and
\* it does not see a max-age of zero that comes before no-store.
EtagUnread(directives) ==
  Occurs(directives, NoCache) /\ ~Malformed(directives) /\ ~StoreConflict(directives)
ZeroAgeUnseen(directives) ==
  /\ ~Malformed(directives) /\ ~Occurs(directives, NoCache)
  /\ \E i \in DOMAIN directives :
       /\ directives[i] = NoStore
       /\ AgeAfter(directives, i) = 0
       /\ \A j \in DOMAIN directives : directives[j].name = "max-age" => j < i

\* The Control that was read is the one asked for, but for what is named above.
ReadAsAsked(directives, shape, control) ==
  LET asked == AsAsked(directives, shape)
      unlabelled == control.etag = NoEtag
      unread == control.no_cache /\ EtagUnread(directives)
      unseen == control.no_store /\ ZeroAgeUnseen(directives) IN
  IF asked.ok
    THEN control = asked \/ (unread /\ control = [asked EXCEPT !.etag = NoEtag])
    ELSE control.ok => unlabelled /\ (unread \/ unseen)
=============================================================================
