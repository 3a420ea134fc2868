------------------------------ MODULE Identity ------------------------------
(***************************************************************************)
(* The token cache of the wasi-identity host (host/default_impl.rs): one   *)
(* cached access token for the whole process, looked at under a lock,      *)
(* fetched without it and looked at again under it.                        *)
(*                                                                         *)
(* A call reads the clock once, when it starts.  It may then wait for the  *)
(* lock and for the token endpoint while the clock and other calls go on.  *)
(***************************************************************************)
EXTENDS Integers, Sequences

CONSTANTS
  Calls,      \* concurrent get-token calls
  Scopes,     \* the scope lists they ask for
  Lives,      \* the lifetimes the token endpoint grants, in seconds
  MaxTime,    \* bound on the clock
  MaxTokens   \* bound on the tokens issued

ASSUME IdentityAssumption ==
  /\ Lives \subseteq Nat
  /\ MaxTime \in Nat /\ MaxTokens \in Nat

VARIABLES
  clock,   \* Instant::now(), in seconds since the manager was made
  cache,   \* the CachedToken: a token and the instant it expires at
  issued,  \* the tokens the endpoint has issued
  call     \* call[c]: where call c is

vars == <<clock, cache, issued, call>>

NoToken == 0     \* AccessToken::default(): the empty string
Token == [scope: Scopes, life: Nat, at: Nat]
Idle == [pc |-> "idle"]
\* now: the instant read at the start.  token: the one fetched, then returned.
\* until: a history field, the expiry the cache gave the token that is returned.
Call == [pc: {"look", "fetch", "store", "done", "err"}, scope: Scopes, now: Nat, token: Nat,
         until: Nat]

Init ==
  /\ clock = 0
  /\ cache = [token |-> NoToken, expires_at |-> 0]
  /\ issued = <<>>
  /\ call = [c \in Calls |-> Idle]

-----------------------------------------------------------------------------

Start(c) ==
  /\ call[c] = Idle
  /\ \E s \in Scopes :
       call' = [call EXCEPT ![c] = [pc |-> "look", scope |-> s, now |-> clock,
                                     token |-> NoToken, until |-> 0]]
  /\ UNCHANGED <<clock, cache, issued>>

\* The cached token outlives the instant the call began; and two faults of that
\* comparison, the boundary and the check left out for any token that is there.
ValidAtBoundary(c) == cache.expires_at >= call[c].now
ValidOnceFetched(c) == cache.token # NoToken
Valid(c) == cache.expires_at > call[c].now

\* Under the lock: the cached token is the answer if it is valid.
Look(c) ==
  /\ call[c].pc = "look"
  /\ call' = IF Valid(c)
               THEN [call EXCEPT ![c].pc = "done", ![c].token = cache.token,
                                 ![c].until = cache.expires_at]
               ELSE [call EXCEPT ![c].pc = "fetch"]
  /\ UNCHANGED <<clock, cache, issued>>

\* The call goes on with the token just issued; or, a fault, without it.
FetchedNothing(c) == call' = [call EXCEPT ![c].pc = "store"]
Fetched(c) == call' = [call EXCEPT ![c].pc = "store", ![c].token = Len(issued) + 1]

\* Without the lock: the endpoint issues a token for these scopes, or fails.
Fetch(c) ==
  /\ call[c].pc = "fetch"
  /\ \/ /\ Len(issued) < MaxTokens
        /\ \E life \in Lives :
             issued' = Append(issued, [scope |-> call[c].scope, life |-> life, at |-> clock])
        /\ Fetched(c)
     \/ /\ call' = [call EXCEPT ![c].pc = "err"]
        /\ UNCHANGED issued
  /\ UNCHANGED <<clock, cache>>

\* The second look, "as another thread may have refreshed the token"; or, a
\* fault, none.
NoSecondLook(c) == TRUE
StillStale(c) == cache.expires_at <= call[c].now

\* Under the lock again: the fetched token is kept, its life counted from here,
\* if the cached one is still out of date by `now`; the cached one is returned.
Store(c) ==
  /\ call[c].pc = "store"
  /\ cache' = IF StillStale(c)
                THEN [token |-> call[c].token,
                      expires_at |-> clock + issued[call[c].token].life]
                ELSE cache
  /\ call' = [call EXCEPT ![c].pc = "done", ![c].token = cache'.token,
                          ![c].until = cache'.expires_at]
  /\ UNCHANGED <<clock, issued>>

\* The guest takes the answer, or its instance ended and with it the call.
Leave(c) ==
  /\ call[c] # Idle
  /\ call' = [call EXCEPT ![c] = Idle]
  /\ UNCHANGED <<clock, cache, issued>>

Tick ==
  /\ clock < MaxTime
  /\ clock' = clock + 1
  /\ UNCHANGED <<cache, issued, call>>

Next == Tick \/ \E c \in Calls : Start(c) \/ Look(c) \/ Fetch(c) \/ Store(c) \/ Leave(c)

Spec == Init /\ [][Next]_vars

-----------------------------------------------------------------------------
(* Properties.                                                               *)

\* The cache names an issued token or none, and so does a call that has one.
TypeOK ==
  /\ clock \in Nat
  /\ issued \in Seq(Token)
  /\ cache \in [token: 0..Len(issued), expires_at: Nat]
  /\ call \in [Calls -> {Idle} \cup Call]
  /\ \A c \in Calls : call[c].pc = "store" => call[c].token \in 1..Len(issued)

\* No caller gets the empty token the cache starts with, whichever of several
\* first callers stores its token first.
NeverEmpty ==
  \A c \in Calls : call[c].pc = "done" => call[c].token # NoToken

\* A token handed out had not expired when the call for it began: the cache held
\* it to be good past that instant, however often it was replaced between the two
\* looks, or the token was issued since.
GoodWhenAsked ==
  \A c \in Calls : call[c].pc = "done" =>
    \/ call[c].until > call[c].now
    \/ call[c].token \in DOMAIN issued /\ issued[call[c].token].at >= call[c].now

\* The cache never steps back: a call that fetched while another refreshed does not
\* replace the other's token, and no refresh shortens what is cached.
ExpiryNeverRecedes == [][cache'.expires_at >= cache.expires_at]_vars
=============================================================================
