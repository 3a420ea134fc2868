------------------------ MODULE AlgorithmsIdentity_proofs ------------------------
(***************************************************************************)
(* Proofs about Algorithms, for inputs of any size, and about Identity.    *)
(* The two share nothing but this module.                                  *)
(*                                                                         *)
(* Of Algorithms, the SDK's part is a state machine with an inductive      *)
(* invariant (SdkInv).  The others answer an input in one step, so what    *)
(* has to be shown is a fact about operators: that the directive loop does *)
(* what quantifiers over the header say (by induction over it), that the   *)
(* stages of the macros keep each first place once, and what becomes of    *)
(* each item of an export on its way to the collector.                     *)
(***************************************************************************)
EXTENDS Algorithms, Identity, NaturalsInduction, WellFoundedInduction, FiniteSetTheorems, TLAPS

-----------------------------------------------------------------------------
(* Sdk: the contexts a text shows.                                           *)

\* A word of an error's text.
Word == Contexts \cup Codes \cup Texts \cup {"server_error", "serde_json"}

\* Codes and descriptions are no contexts.
LEMMA NoContext == \A w \in Codes \cup Texts \cup {"server_error", "serde_json"} : w \in Word /\ w \notin Contexts
BY SdkAssumption DEF Word

\* A text without contexts shows none.
LEMMA ShowsNone ==
  ASSUME NEW text \in Seq(Word), \A i \in DOMAIN text : text[i] \notin Contexts
  PROVE  Shows(text, <<>>)
<1> DEFINE at == [i \in DOMAIN <<>> |-> 1]
<1>1. DOMAIN <<>> = {} /\ at \in [DOMAIN <<>> -> DOMAIN text]
  OBVIOUS
<1> HIDE DEF at
<1> QED
  BY <1>1 DEF Shows

\* A text of contexts shows them all.
LEMMA ShowsAll ==
  ASSUME NEW contexts \in Seq(Contexts)
  PROVE  Shows(contexts, contexts)
<1> DEFINE at == [i \in DOMAIN contexts |-> i]
<1>1. at \in [DOMAIN contexts -> DOMAIN contexts] /\ \A i \in DOMAIN contexts : at[i] = i /\ contexts[i] \in Contexts
  OBVIOUS
<1> HIDE DEF at
<1> QED
  BY <1>1 DEF Shows

\* Positions keep their order when they are moved along.
LEMMA Shifted == ASSUME NEW k \in Nat, NEW x \in Nat, NEW y \in Nat, x < y PROVE k + x < k + y
OBVIOUS

\* Two texts, one after the other, show the contexts of both in that order.
LEMMA ShowsBoth ==
  ASSUME NEW t1 \in Seq(Word), NEW t2 \in Seq(Word), NEW s1 \in Seq(Contexts), NEW s2 \in Seq(Contexts),
         Shows(t1, s1), Shows(t2, s2)
  PROVE  Shows(t1 \o t2, s1 \o s2)
<1> DEFINE t == t1 \o t2
           s == s1 \o s2
<1>1. PICK a1 \in [DOMAIN s1 -> DOMAIN t1] :
        /\ \A i, j \in DOMAIN s1 : i < j => a1[i] < a1[j]
        /\ {a1[i] : i \in DOMAIN s1} = {j \in DOMAIN t1 : t1[j] \in Contexts}
        /\ \A i \in DOMAIN s1 : t1[a1[i]] = s1[i]
  BY DEF Shows
<1>2. PICK a2 \in [DOMAIN s2 -> DOMAIN t2] :
        /\ \A i, j \in DOMAIN s2 : i < j => a2[i] < a2[j]
        /\ {a2[i] : i \in DOMAIN s2} = {j \in DOMAIN t2 : t2[j] \in Contexts}
        /\ \A i \in DOMAIN s2 : t2[a2[i]] = s2[i]
  BY DEF Shows
<1> DEFINE m == Len(s1)
           n == Len(s2)
           k == Len(t1)
           l == Len(t2)
           at == [i \in 1..(m + n) |-> IF i <= m THEN a1[i] ELSE k + a2[i - m]]
<1>3. /\ m \in Nat /\ n \in Nat /\ k \in Nat /\ l \in Nat
      /\ DOMAIN s1 = 1..m /\ DOMAIN s2 = 1..n /\ DOMAIN t1 = 1..k /\ DOMAIN t2 = 1..l
      /\ DOMAIN s = 1..(m + n) /\ DOMAIN t = 1..(k + l)
  OBVIOUS
<1>4. /\ \A i \in 1..k : t[i] = t1[i]
      /\ \A i \in 1..l : t[k + i] = t2[i]
      /\ \A i \in 1..m : s[i] = s1[i]
      /\ \A i \in 1..n : s[m + i] = s2[i]
  OBVIOUS
<1> HIDE DEF s, t, m, n, k, l
<1>5. \A i \in 1..m : at[i] = a1[i] /\ at[i] \in 1..k
  BY <1>1, <1>3
<1>6. \A i \in 1..n : at[m + i] = k + a2[i] /\ a2[i] \in 1..l /\ a2[i] \in Nat
  BY <1>2, <1>3
<1>7. \A i \in 1..(m + n) : i \in 1..m \/ (i - m \in 1..n /\ m + (i - m) = i)
  BY <1>3
<1>8. \A i \in 1..(k + l) : i \in 1..k \/ (i - k \in 1..l /\ k + (i - k) = i)
  BY <1>3
<1>9. at \in [1..(m + n) -> 1..(k + l)]
  <2>1. \A i \in 1..(m + n) : at[i] \in 1..(k + l)
    BY <1>3, <1>5, <1>6, <1>7
  <2> QED
    BY <2>1
<1> HIDE DEF at
<1>10. ASSUME NEW i \in 1..(m + n), NEW j \in 1..(m + n), i < j PROVE at[i] < at[j]
  <2>1. CASE i \in 1..m /\ j \in 1..m
    BY <1>1, <1>3, <1>5, <1>10, <2>1
  <2>2. CASE i \in 1..m /\ j \notin 1..m
    <3>1. at[i] \in 1..k /\ j - m \in 1..n /\ at[j] = k + a2[j - m] /\ a2[j - m] \in 1..l
      BY <1>5, <1>6, <1>7, <2>2
    <3> QED
      BY <3>1, <1>3
  <2>3. CASE i \notin 1..m
    <3>1. i - m \in 1..n /\ j - m \in 1..n /\ i - m < j - m
      BY <1>3, <1>7, <1>10, <2>3
    <3>2. at[i] = k + a2[i - m] /\ at[j] = k + a2[j - m] /\ a2[i - m] \in 1..l /\ a2[j - m] \in 1..l
      <4>1. m + (i - m) = i /\ m + (j - m) = j
        BY <1>3
      <4>2. at[m + (i - m)] = k + a2[i - m] /\ a2[i - m] \in 1..l
        BY <1>6, <3>1
      <4>3. at[m + (j - m)] = k + a2[j - m] /\ a2[j - m] \in 1..l
        BY <1>6, <3>1
      <4> QED
        BY <4>1, <4>2, <4>3
    <3>3. a2[i - m] < a2[j - m]
      BY <1>2, <1>3, <3>1
    <3>4. a2[i - m] \in Nat /\ a2[j - m] \in Nat
      BY <1>6, <3>1
    <3>5. k + a2[i - m] < k + a2[j - m]
      BY <1>3, <3>3, <3>4, Shifted
    <3> QED
      BY <3>2, <3>5
  <2> QED
    BY <2>1, <2>2, <2>3
<1>11. \A i \in 1..(m + n) : t[at[i]] = s[i]
  <2>1. ASSUME NEW i \in 1..m PROVE t[at[i]] = s[i]
    <3>1. at[i] = a1[i] /\ a1[i] \in 1..k /\ t1[a1[i]] = s1[i]
      BY <1>1, <1>3, <1>5
    <3> QED
      BY <1>4, <3>1
  <2>2. ASSUME NEW i \in 1..n PROVE t[at[m + i]] = s[m + i]
    <3>1. at[m + i] = k + a2[i] /\ a2[i] \in 1..l /\ t2[a2[i]] = s2[i]
      BY <1>2, <1>3, <1>6
    <3> QED
      BY <1>4, <3>1
  <2> QED
    BY <1>7, <2>1, <2>2
<1>12. \A i \in 1..(m + n) : s[i] \in Contexts
  <2>1. s \in Seq(Contexts)
    BY DEF s
  <2> QED
    BY <2>1, <1>3
<1>13. ASSUME NEW j \in 1..(k + l), t[j] \in Contexts PROVE \E i \in 1..(m + n) : at[i] = j
  <2>1. CASE j \in 1..k
    <3>1. j \in {a1[i] : i \in DOMAIN s1}
      BY <1>1, <1>3, <1>4, <1>13, <2>1
    <3>2. PICK i \in 1..m : a1[i] = j
      BY <3>1, <1>3
    <3>3. i \in 1..(m + n)
      BY <1>3
    <3>4. at[i] = j
      BY <1>5, <3>2
    <3> QED
      BY <3>3, <3>4
  <2>2. CASE j - k \in 1..l /\ k + (j - k) = j
    <3>1. j - k \in {a2[i] : i \in DOMAIN s2}
      <4>1. t[k + (j - k)] = t2[j - k]
        BY <1>4, <2>2
      <4>2. j - k \in DOMAIN t2 /\ t2[j - k] \in Contexts
        BY <1>3, <1>13, <2>2, <4>1
      <4> QED
        BY <1>2, <4>2
    <3>2. PICK i \in 1..n : a2[i] = j - k
      BY <3>1, <1>3
    <3>3. m + i \in 1..(m + n)
      BY <1>3
    <3>4. at[m + i] = k + a2[i]
      BY <1>6, <3>2
    <3>5. at[m + i] = j
      BY <2>2, <3>2, <3>4
    <3> QED
      BY <3>3, <3>5
  <2> QED
    BY <1>8, <2>1, <2>2
<1>14. {at[i] : i \in 1..(m + n)} = {j \in 1..(k + l) : t[j] \in Contexts}
  <2>1. \A i \in 1..(m + n) : at[i] \in 1..(k + l) /\ t[at[i]] \in Contexts
    BY <1>9, <1>11, <1>12
  <2> QED
    BY <1>13, <2>1
<1>15. Shows(t, s)
  BY <1>3, <1>9, <1>10, <1>11, <1>14 DEF Shows
<1> QED
  BY <1>15 DEF s, t

-----------------------------------------------------------------------------
(* Sdk: an error on its way out of the handler.                              *)

\* The first m of a list of contexts, newest first; and its k newest.
Turned(contexts, m) == [i \in 1..m |-> contexts[m + 1 - i]]
Newest(contexts, k) == [i \in 1..k |-> contexts[Len(contexts) + 1 - i]]

\* What is inside the contexts of an error, and what they are.
Root(e) == IF e.is = "anyhow" THEN e.root ELSE e
Around(e) == IF e.is = "anyhow" THEN e.contexts ELSE <<>>

DomainError == [is: {"domain"}, variant: S!Variants, code: Word \ Contexts, description: Seq(Word)]
JsonError == [is: {"json"}, description: {<<t>> : t \in Texts}]
ForeignError == [is: {"foreign"}, description: {<<t>> : t \in Texts}]
AnyhowError == [is: {"anyhow"}, contexts: Seq(Contexts), root: DomainError \cup JsonError \cup ForeignError]

\* What is kept of the error that was raised: its variant; or, for JSON, whether ?
\* met it before a context did.
Remembers(r, e, bare, contexts) ==
  /\ r.is = "domain" => Root(e).is = "domain" /\ Root(e).variant = r.variant
  /\ r.is = "json" =>
       /\ Root(e).is \in {"domain", "json"}
       /\ Root(e).is = "domain" => Root(e).variant = IF bare THEN "BadRequest" ELSE "ServerError"
       /\ Root(e).is = "json" => ~bare
       /\ ~bare /\ e.is # "json" => contexts # <<>>
  /\ r.is = "anyhow" =>
       /\ Root(e).is \in {"domain", "foreign"}
       /\ Root(e).is = "domain" => Root(e).variant = "ServerError"

\* An error that was given so many contexts since the last ? has these around it and
\* shows the others.
OnItsWay(r, e, bare, contexts, since) ==
  /\ r \in Errors /\ bare \in BOOLEAN /\ contexts \in Seq(Contexts) /\ since \in 0..Len(contexts)
  /\ e \in DomainError \cup JsonError \cup AnyhowError
  /\ Around(e) = Newest(contexts, since)
  /\ Shows(S!Shown(Root(e)), Turned(contexts, Len(contexts) - since))
  /\ e.is = "anyhow" /\ since = 0 => e.root \in ForeignError /\ contexts = <<>>
  /\ e.is = "json" => contexts = <<>>
  /\ Remembers(r, e, bare, contexts)

\* The kinds of errors.
LEMMA ErrorKinds ==
  ASSUME NEW e \in DomainError \cup JsonError \cup AnyhowError
  PROVE  /\ e.is = "domain" => e \in DomainError
         /\ e.is = "json" => e \in JsonError
         /\ e.is = "anyhow" => e \in AnyhowError
         /\ e.is \in {"domain", "json", "anyhow"}
BY DEF DomainError, JsonError, AnyhowError
\* The kinds of what is inside them.
LEMMA RootKinds ==
  ASSUME NEW e \in DomainError \cup JsonError \cup ForeignError
  PROVE  /\ e.is = "domain" => e \in DomainError
         /\ e.is = "json" => e \in JsonError
         /\ e.is = "foreign" => e \in ForeignError
         /\ e.is \in {"domain", "json", "foreign"}
BY DEF DomainError, JsonError, ForeignError

\* The root of an error is one of three kinds, and the contexts around it a list.
LEMMA RootType ==
  ASSUME NEW e \in DomainError \cup JsonError \cup AnyhowError
  PROVE  /\ Root(e) \in DomainError \cup JsonError \cup ForeignError
         /\ Around(e) \in Seq(Contexts)
         /\ e.is # "anyhow" => Root(e) = e /\ Around(e) = <<>>
         /\ e.is = "anyhow" => Root(e) = e.root /\ Around(e) = e.contexts
<1>1. CASE e.is = "anyhow"
  <2>1. e \in AnyhowError
    BY <1>1, ErrorKinds
  <2> QED
    BY <1>1, <2>1 DEF Root, Around, AnyhowError
<1>2. CASE e.is # "anyhow"
  <2>1. e \in DomainError \cup JsonError
    BY <1>2, ErrorKinds
  <2> QED
    BY <1>2, <2>1 DEF Root, Around
<1> QED
  BY <1>1, <1>2

\* What an error shows is a text, and not empty.
LEMMA ShownType ==
  ASSUME NEW e \in DomainError \cup JsonError \cup ForeignError
  PROVE  S!Shown(e) \in Seq(Word) /\ S!Shown(e) # <<>>
<1>1. CASE e.is = "domain"
  <2>1. e.code \in Word /\ e.description \in Seq(Word)
    BY <1>1, RootKinds DEF DomainError
  <2>2. S!Shown(e) = <<e.code>> \o e.description
    BY <1>1 DEF S!Shown
  <2> QED
    BY <2>1, <2>2
<1>2. CASE e.is # "domain"
  <2>1. e \in JsonError \cup ForeignError
    BY <1>2, RootKinds
  <2>2. PICK t \in Texts : e.description = <<t>>
    BY <2>1 DEF JsonError, ForeignError
  <2>3. t \in Word /\ S!Shown(e) = <<t>>
    BY <1>2, <2>2, NoContext DEF S!Shown
  <2> QED
    BY <2>3
<1> QED
  BY <1>1, <1>2

\* An error without a domain shows one text and no context.
LEMMA PlainShows ==
  ASSUME NEW e \in JsonError \cup ForeignError
  PROVE  \E t \in Texts : S!Shown(e) = <<t>> /\ e.description = <<t>> /\ t \in Word /\ t \notin Contexts
<1>1. PICK t \in Texts : e.description = <<t>>
  BY DEF JsonError, ForeignError
<1>2. e.is # "domain"
  BY DEF JsonError, ForeignError
<1>3. S!Shown(e) = <<t>> /\ t \in Word /\ t \notin Contexts
  BY <1>1, <1>2, NoContext DEF S!Shown
<1> QED
  BY <1>1, <1>3

\* A list is the function on its places.
LEMMA ListIs == ASSUME NEW Elem, NEW s \in Seq(Elem) PROVE s = [i \in 1..Len(s) |-> s[i]]
OBVIOUS

\* Two lists, one after the other.
LEMMA Joined ==
  ASSUME NEW Elem, NEW a \in Seq(Elem), NEW b \in Seq(Elem)
  PROVE  /\ a \o b \in Seq(Elem) /\ Len(a \o b) = Len(a) + Len(b)
         /\ a \o b = [i \in 1..(Len(a) + Len(b)) |-> (a \o b)[i]]
         /\ \A i \in 1..Len(a) : (a \o b)[i] = a[i]
         /\ \A i \in 1..(Len(a) + Len(b)) : ~(i <= Len(a)) => (a \o b)[i] = b[i - Len(a)]
<1>1. a \o b \in Seq(Elem)
  OBVIOUS
<1>2. Len(a \o b) = Len(a) + Len(b) /\ Len(a) \in Nat /\ Len(b) \in Nat
  OBVIOUS
<1>3. a \o b = [i \in 1..Len(a \o b) |-> (a \o b)[i]]
  BY <1>1, ListIs
<1>4. a \o b = [i \in 1..(Len(a) + Len(b)) |-> (a \o b)[i]]
  BY <1>2, <1>3
<1>5. \A i \in 1..Len(a) : (a \o b)[i] = a[i]
  OBVIOUS
<1>6. \A i \in 1..(Len(a) + Len(b)) : ~(i <= Len(a)) => (a \o b)[i] = b[i - Len(a)]
  OBVIOUS
<1> QED
  BY <1>1, <1>2, <1>4, <1>5, <1>6

\* A list of contexts is its newest and then the rest.
LEMMA NewestFirst ==
  ASSUME NEW s \in Seq(Contexts), NEW k \in 0..Len(s)
  PROVE  /\ Newest(s, k) \in Seq(Contexts) /\ Turned(s, Len(s) - k) \in Seq(Contexts)
         /\ Turned(s, Len(s)) = Newest(s, k) \o Turned(s, Len(s) - k)
<1>1. Len(s) \in Nat /\ \A i \in 1..Len(s) : s[i] \in Contexts
  OBVIOUS
<1>2. Newest(s, k) \in Seq(Contexts) /\ Len(Newest(s, k)) = k /\ \A i \in 1..k : Newest(s, k)[i] = s[Len(s) + 1 - i]
  <2>1. \A i \in 1..k : Len(s) + 1 - i \in 1..Len(s)
    BY <1>1
  <2> QED
    BY <1>1, <2>1 DEF Newest
<1>3. ASSUME NEW m \in 0..Len(s)
      PROVE  Turned(s, m) \in Seq(Contexts) /\ Len(Turned(s, m)) = m /\ \A i \in 1..m : Turned(s, m)[i] = s[m + 1 - i]
  <2>1. \A i \in 1..m : m + 1 - i \in 1..Len(s)
    BY <1>1
  <2> QED
    BY <1>1, <2>1 DEF Turned
<1> DEFINE m == Len(s) - k
           a == Newest(s, k)
           b == Turned(s, m)
<1>4. m \in 0..Len(s) /\ k + m = Len(s) /\ Len(s) \in 0..Len(s) /\ k \in Nat /\ m \in Nat
  BY <1>1
<1>5. /\ a \in Seq(Contexts) /\ Len(a) = k /\ \A i \in 1..k : a[i] = s[Len(s) + 1 - i]
      /\ b \in Seq(Contexts) /\ Len(b) = m /\ \A i \in 1..m : b[i] = s[m + 1 - i]
  BY <1>2, <1>3, <1>4
<1> HIDE DEF a, b, m
<1>6. (a \o b) \in Seq(Contexts) /\ Len(a \o b) = Len(s)
  <2>1. a \o b \in Seq(Contexts) /\ Len(a \o b) = Len(a) + Len(b)
    BY <1>5, Joined
  <2> QED
    BY <1>4, <1>5, <2>1
<1>7. ASSUME NEW i \in 1..Len(s) PROVE (a \o b)[i] = s[Len(s) + 1 - i]
  <2>1. CASE i <= k
    <3>1. (a \o b)[i] = a[i] /\ i \in 1..k
      BY <1>1, <1>4, <1>5, <2>1
    <3> QED
      BY <1>5, <3>1
  <2>2. CASE ~(i <= k)
    <3>1. i - k \in 1..m /\ m + 1 - (i - k) = Len(s) + 1 - i
      BY <1>1, <1>4, <2>2
    <3>2. (a \o b)[i] = b[i - k]
      BY <1>1, <1>4, <1>5, <2>2
    <3> QED
      BY <1>5, <3>1, <3>2
  <2> QED
    BY <2>1, <2>2
<1>8. a \o b = Turned(s, Len(s))
  <2>1. a \o b = [i \in 1..(Len(a) + Len(b)) |-> (a \o b)[i]]
    BY <1>5, Joined
  <2>2. Len(a) + Len(b) = Len(s)
    BY <1>4, <1>5
  <2> QED
    BY <1>7, <2>1, <2>2 DEF Turned
<1> QED
  BY <1>2, <1>3, <1>4, <1>8 DEF a, b, m

\* A context more is the newest one and leaves the others as they were.
LEMMA OneMore ==
  ASSUME NEW s \in Seq(Contexts), NEW c \in Contexts, NEW k \in 0..Len(s)
  PROVE  /\ Append(s, c) \in Seq(Contexts) /\ Len(Append(s, c)) = Len(s) + 1
         /\ k + 1 \in 0..Len(Append(s, c)) /\ Append(s, c) # <<>>
         /\ Newest(Append(s, c), k + 1) = <<c>> \o Newest(s, k)
         /\ Turned(Append(s, c), Len(Append(s, c)) - (k + 1)) = Turned(s, Len(s) - k)
<1> DEFINE t == Append(s, c)
<1>1. /\ Len(s) \in Nat /\ t \in Seq(Contexts) /\ Len(t) = Len(s) + 1 /\ k + 1 \in 0..Len(t) /\ t # <<>>
      /\ t[Len(s) + 1] = c /\ \A i \in 1..Len(s) : t[i] = s[i]
  OBVIOUS
<1> HIDE DEF t
<1>2. Turned(t, Len(t) - (k + 1)) = Turned(s, Len(s) - k)
  <2>1. Len(t) - (k + 1) = Len(s) - k /\ \A i \in 1..(Len(s) - k) : Len(s) - k + 1 - i \in 1..Len(s)
    BY <1>1
  <2> QED
    BY <1>1, <2>1 DEF Turned
<1>3. Newest(t, k + 1) = <<c>> \o Newest(s, k)
  <2> DEFINE both == <<c>> \o Newest(s, k)
  <2>1. Newest(s, k) \in Seq(Contexts) /\ Len(Newest(s, k)) = k /\ \A i \in 1..k : Newest(s, k)[i] = s[Len(s) + 1 - i]
    <3>1. \A i \in 1..k : Len(s) + 1 - i \in 1..Len(s)
      BY <1>1
    <3> QED
      BY <1>1, <3>1 DEF Newest
  <2>2. both \in Seq(Contexts) /\ Len(both) = k + 1 /\ both[1] = c /\ \A i \in 1..k : both[i + 1] = Newest(s, k)[i]
    BY <1>1, <2>1
  <2> HIDE DEF both
  <2>3. ASSUME NEW i \in 1..(k + 1) PROVE both[i] = t[Len(t) + 1 - i]
    <3>1. CASE i = 1
      BY <1>1, <2>2, <3>1
    <3>2. CASE i # 1
      <4>1. i - 1 \in 1..k /\ (i - 1) + 1 = i /\ Len(s) + 1 - (i - 1) \in 1..Len(s)
        BY <1>1, <3>2
      <4>2. both[i] = s[Len(s) + 1 - (i - 1)]
        BY <2>1, <2>2, <4>1
      <4> QED
        BY <1>1, <4>1, <4>2
    <3> QED
      BY <3>1, <3>2
  <2>4. both = [i \in 1..(k + 1) |-> t[Len(t) + 1 - i]]
    BY <1>1, <2>2, <2>3
  <2> QED
    BY <2>4 DEF Newest, both
<1> QED
  BY <1>1, <1>2, <1>3 DEF t

\* The errors of its own a handler raises.
FreshError == [is: {"domain"}, variant: S!Variants, code: Codes, description: {<<t>> : t \in Texts}]

\* The errors a handler raises.
LEMMA RaisedKinds ==
  ASSUME NEW r \in Errors
  PROVE  \/ r \in DomainError /\ \A i \in DOMAIN S!Shown(r) : S!Shown(r)[i] \notin Contexts
         \/ r \in JsonError
         \/ r \in AnyhowError /\ r.root \in ForeignError /\ r.contexts = <<>>
<1>1. CASE r \in FreshError
  <2>1. PICK t \in Texts : r.description = <<t>>
    BY <1>1 DEF FreshError
  <2> DEFINE c == r.code
  <2>. c \in Codes
    BY <1>1 DEF FreshError
  <2>2. c \in Word /\ c \notin Contexts /\ t \in Word /\ t \notin Contexts
    BY NoContext
  <2>3. r \in DomainError
    <3>1. r.description \in Seq(Word)
      BY <2>1, <2>2
    <3> QED
      BY <1>1, <2>2, <3>1 DEF DomainError, FreshError
  <2>4. S!Shown(r) = <<c>> \o <<t>>
    BY <1>1, <2>1 DEF S!Shown, FreshError
  <2>5. \A i \in DOMAIN (<<c>> \o <<t>>) : (<<c>> \o <<t>>)[i] \in {c, t}
    OBVIOUS
  <2> QED
    BY <2>2, <2>3, <2>4, <2>5
<1>2. CASE \E t \in Texts : r = S!Json(t)
  BY <1>2 DEF S!Json, JsonError
<1>3. CASE \E t \in Texts : r = S!Foreign(t)
  BY <1>3 DEF S!Foreign, S!Wrapped, AnyhowError, ForeignError
<1>4. \/ r \in FreshError
      \/ \E t \in Texts : r = S!Json(t)
      \/ \E t \in Texts : r = S!Foreign(t)
  BY DEF Errors, FreshError
<1> QED
  BY <1>1, <1>2, <1>3, <1>4

\* An error that was just raised is on its way.
LEMMA Raise ==
  ASSUME NEW r \in Errors
  PROVE  OnItsWay(r, r, FALSE, <<>>, 0)
<1>1. r \in DomainError \cup JsonError \cup AnyhowError
  BY RaisedKinds
<1>2. /\ <<>> \in Seq(Contexts) /\ Len(<<>>) = 0 /\ 0 \in 0..Len(<<>>) /\ Len(<<>>) - 0 = 0
      /\ Newest(<<>>, 0) = <<>> /\ Turned(<<>>, 0) = <<>>
  BY DEF Newest, Turned
<1>3. Root(r) \in DomainError \cup JsonError \cup ForeignError
  BY <1>1, RootType
<1>4. Around(r) = <<>>
  <2>1. CASE r.is = "anyhow"
    <3>1. r.contexts = <<>>
      BY <2>1, RaisedKinds DEF DomainError, JsonError
    <3> QED
      BY <2>1, <3>1 DEF Around
  <2> QED
    BY <2>1 DEF Around
<1>5. Shows(S!Shown(Root(r)), <<>>)
  <2>1. S!Shown(Root(r)) \in Seq(Word)
    BY <1>3, ShownType
  <2>2. \A i \in DOMAIN S!Shown(Root(r)) : S!Shown(Root(r))[i] \notin Contexts
    <3>1. CASE r \in DomainError /\ \A i \in DOMAIN S!Shown(r) : S!Shown(r)[i] \notin Contexts
      BY <3>1 DEF Root, DomainError
    <3>2. CASE Root(r) \in JsonError \cup ForeignError
      <4>1. PICK t \in Texts : S!Shown(Root(r)) = <<t>> /\ t \notin Contexts
        BY <3>2, PlainShows
      <4> QED
        BY <4>1
    <3>3. r \in JsonError => Root(r) = r
      BY DEF Root, JsonError
    <3>4. r \in AnyhowError => Root(r) = r.root
      BY DEF Root, AnyhowError
    <3> QED
      BY <3>1, <3>2, <3>3, <3>4, RaisedKinds
  <2> QED
    BY <2>1, <2>2, ShowsNone
<1>6. r.is = "anyhow" => r.root \in ForeignError
  BY RaisedKinds DEF DomainError, JsonError
<1>7. Remembers(r, r, FALSE, <<>>)
  <2>1. CASE r.is = "anyhow"
    BY <1>6, <2>1 DEF Remembers, Root, ForeignError
  <2>2. CASE r.is # "anyhow"
    BY <2>2 DEF Remembers, Root
  <2> QED
    BY <2>1, <2>2
<1> QED
  BY <1>1, <1>2, <1>4, <1>5, <1>6, <1>7 DEF OnItsWay

\* A context is put around an error: it is the newest one.
LEMMA WrapStep ==
  ASSUME NEW r, NEW e, NEW bare, NEW contexts, NEW since, OnItsWay(r, e, bare, contexts, since),
         NEW c \in Contexts
  PROVE  OnItsWay(r, S!AddContext(e, c), bare, Append(contexts, c), since + 1)
<1> DEFINE w == S!AddContext(e, c)
<1>0. contexts \in Seq(Contexts) /\ since \in 0..Len(contexts) /\ bare \in BOOLEAN /\ r \in Errors
  BY DEF OnItsWay
<1>1. e \in DomainError \cup JsonError \cup AnyhowError
  BY DEF OnItsWay
<1>2. /\ Root(e) \in DomainError \cup JsonError \cup ForeignError
      /\ Around(e) \in Seq(Contexts)
      /\ e.is # "anyhow" => Root(e) = e /\ Around(e) = <<>>
      /\ e.is = "anyhow" => Root(e) = e.root /\ Around(e) = e.contexts
  BY <1>1, RootType
<1>3. w = [is |-> "anyhow", contexts |-> <<c>> \o Around(e), root |-> Root(e)]
  <2>1. CASE e.is = "anyhow"
    <3>1. e \in AnyhowError
      BY <1>1, <2>1, ErrorKinds
    <3>3. PICK more : more = <<c>> \o e.contexts
      OBVIOUS
    <3>4. w = [e EXCEPT !.contexts = more]
      BY <2>1, <3>3 DEF S!AddContext
    <3>5. [e EXCEPT !.contexts = more] = [is |-> "anyhow", contexts |-> more, root |-> e.root]
      BY <3>1 DEF AnyhowError
    <3> QED
      BY <1>2, <2>1, <3>3, <3>4, <3>5
  <2>2. CASE e.is # "anyhow"
    BY <1>2, <2>2 DEF S!AddContext, S!Wrapped
  <2> QED
    BY <2>1, <2>2
<1>4. w \in AnyhowError /\ Root(w) = Root(e) /\ Around(w) = <<c>> \o Around(e) /\ w.is = "anyhow"
  <2>1. <<c>> \o Around(e) \in Seq(Contexts)
    BY <1>2
  <2> HIDE DEF w
  <2>2. w.is = "anyhow" /\ w.root = Root(e) /\ w.contexts = <<c>> \o Around(e)
    BY <1>3
  <2> QED
    BY <1>2, <1>3, <2>1, <2>2 DEF AnyhowError, Root, Around
<1> HIDE DEF w
<1>5. /\ Append(contexts, c) \in Seq(Contexts)
      /\ since + 1 \in 0..Len(Append(contexts, c)) /\ Append(contexts, c) # <<>>
      /\ Newest(Append(contexts, c), since + 1) = <<c>> \o Newest(contexts, since)
      /\ Turned(Append(contexts, c), Len(Append(contexts, c)) - (since + 1)) = Turned(contexts, Len(contexts) - since)
  BY <1>0, OneMore
<1>6. Around(w) = Newest(Append(contexts, c), since + 1)
  BY <1>4, <1>5 DEF OnItsWay
<1>7. Shows(S!Shown(Root(w)), Turned(Append(contexts, c), Len(Append(contexts, c)) - (since + 1)))
  BY <1>4, <1>5 DEF OnItsWay
<1>8. Remembers(r, w, bare, Append(contexts, c))
  <2>1. Remembers(r, e, bare, contexts)
    BY DEF OnItsWay
  <2> QED
    BY <1>4, <1>5, <2>1 DEF Remembers
<1>9. since + 1 # 0
  BY <1>0
<1> QED
  BY <1>0, <1>4, <1>5, <1>6, <1>7, <1>8, <1>9 DEF OnItsWay, w

\* The error ? makes of one with contexts: it shows these and what is inside them.
LEMMA FromAnyhowIs ==
  ASSUME NEW e \in AnyhowError
  PROVE  LET d == S!FromAnyhow(e) IN
         /\ d \in DomainError
         /\ S!Shown(d) = <<d.code>> \o (e.contexts \o S!Shown(e.root))
         /\ d.variant = IF e.root.is = "domain" THEN e.root.variant ELSE "ServerError"
<1> DEFINE chain == e.contexts \o S!Shown(e.root)
<1>1. e.root \in DomainError \cup JsonError \cup ForeignError /\ e.contexts \in Seq(Contexts)
  BY DEF AnyhowError
<1>2. S!Shown(e.root) \in Seq(Word) /\ e.contexts \in Seq(Word)
  BY <1>1, ShownType DEF Word
<1>3. chain \in Seq(Word)
  BY <1>2
<1> HIDE DEF chain
<1>4. CASE e.root.is = "domain"
  <2>1. e.root.variant \in S!Variants /\ e.root.code \in Word \ Contexts
    BY <1>1, <1>4, RootKinds DEF DomainError
  <2>2. S!FromAnyhow(e) = [is |-> "domain", variant |-> e.root.variant, code |-> e.root.code, description |-> chain]
    BY <1>4 DEF S!FromAnyhow, S!Domain, chain
  <2>3. S!FromAnyhow(e) \in DomainError
    BY <1>3, <2>1, <2>2 DEF DomainError
  <2>4. S!Shown(S!FromAnyhow(e)) = <<S!FromAnyhow(e).code>> \o chain
    BY <2>2 DEF S!Shown
  <2>5. S!FromAnyhow(e).variant = IF e.root.is = "domain" THEN e.root.variant ELSE "ServerError"
    BY <1>4, <2>2
  <2> QED
    BY <2>3, <2>4, <2>5 DEF chain
<1>5. CASE e.root.is # "domain"
  <2>1. "server_error" \in Word \ Contexts /\ "ServerError" \in S!Variants
    BY NoContext DEF S!Variants
  <2>2. S!FromAnyhow(e) = [is |-> "domain", variant |-> "ServerError", code |-> "server_error", description |-> chain]
    BY <1>5 DEF S!FromAnyhow, S!Domain, chain
  <2>3. S!FromAnyhow(e) \in DomainError
    BY <1>3, <2>1, <2>2 DEF DomainError
  <2>4. S!Shown(S!FromAnyhow(e)) = <<S!FromAnyhow(e).code>> \o chain
    BY <2>2 DEF S!Shown
  <2>5. S!FromAnyhow(e).variant = IF e.root.is = "domain" THEN e.root.variant ELSE "ServerError"
    BY <1>5, <2>2
  <2> QED
    BY <2>3, <2>4, <2>5 DEF chain
<1> QED
  BY <1>4, <1>5

\* One word is a text, and shows itself if it is a context.
LEMMA OneWord ==
  ASSUME NEW w \in Word
  PROVE  /\ <<w>> \in Seq(Word)
         /\ w \notin Contexts => Shows(<<w>>, <<>>)
         /\ w \in Contexts => <<w>> \in Seq(Contexts) /\ Shows(<<w>>, <<w>>)
<1>1. <<w>> \in Seq(Word) /\ \A i \in DOMAIN <<w>> : <<w>>[i] = w
  OBVIOUS
<1>2. w \notin Contexts => Shows(<<w>>, <<>>)
  BY <1>1, ShowsNone
<1>3. ASSUME w \in Contexts PROVE <<w>> \in Seq(Contexts) /\ Shows(<<w>>, <<w>>)
  <2>1. <<w>> \in Seq(Contexts)
    BY <1>3
  <2> QED
    BY <2>1, ShowsAll
<1> QED
  BY <1>1, <1>2, <1>3

\* An error with no context around it was given none since the last ?.
LEMMA NoneAround ==
  ASSUME NEW r, NEW e, NEW bare, NEW contexts, NEW since, OnItsWay(r, e, bare, contexts, since),
         e.is # "anyhow"
  PROVE  since = 0
<1>1. Newest(contexts, since) = <<>> /\ since \in Nat
  BY RootType DEF OnItsWay
<1>2. DOMAIN Newest(contexts, since) = 1..since
  BY DEF Newest
<1> QED
  BY <1>1, <1>2

\* ? turns an error into one of the domain that shows all contexts so far.
LEMMA AskStep ==
  ASSUME NEW r, NEW e, NEW bare, NEW contexts, NEW since, OnItsWay(r, e, bare, contexts, since),
         e.is # "domain"
  PROVE  OnItsWay(r, S!Question(e), bare \/ contexts = <<>>, contexts, 0)
<1> DEFINE d == S!Question(e)
<1>0. contexts \in Seq(Contexts) /\ since \in 0..Len(contexts) /\ bare \in BOOLEAN /\ r \in Errors
  BY DEF OnItsWay
<1>1. e \in DomainError \cup JsonError \cup AnyhowError
  BY DEF OnItsWay
<1>2. PICK now \in BOOLEAN : now = (bare \/ contexts = <<>>)
  OBVIOUS
<1>3. /\ Len(contexts) - 0 = Len(contexts) /\ 0 \in 0..Len(contexts) /\ Newest(contexts, 0) = <<>>
      /\ Turned(contexts, Len(contexts)) = Newest(contexts, since) \o Turned(contexts, Len(contexts) - since)
      /\ Newest(contexts, since) \in Seq(Contexts) /\ Turned(contexts, Len(contexts) - since) \in Seq(Contexts)
  <2>1. Len(contexts) - 0 = Len(contexts) /\ 0 \in 0..Len(contexts) /\ Newest(contexts, 0) = <<>>
    BY <1>0 DEF Newest
  <2> QED
    BY <1>0, <2>1, NewestFirst
<1>4. Remembers(r, e, bare, contexts)
  BY DEF OnItsWay
<1>5. CASE e.is = "json"
  <2>1. e \in JsonError /\ contexts = <<>> /\ Root(e) = e
    BY <1>1, <1>5, ErrorKinds DEF OnItsWay, Root
  <2>2. PICK t \in Texts : e.description = <<t>> /\ t \in Word /\ t \notin Contexts
    BY <2>1, PlainShows
  <2>3. d = [is |-> "domain", variant |-> "BadRequest", code |-> "serde_json", description |-> <<t>>]
    BY <1>5, <2>2 DEF S!Question, S!FromJson, S!Domain
  <2>4. "serde_json" \in Word \ Contexts /\ "BadRequest" \in S!Variants /\ <<t>> \in Seq(Word)
    BY <2>2, NoContext DEF S!Variants
  <2>5. d \in DomainError /\ d.is = "domain" /\ d.variant = "BadRequest"
    BY <2>3, <2>4 DEF DomainError
  <2>6. S!Shown(d) = <<"serde_json">> \o <<t>>
    BY <2>3 DEF S!Shown
  <2>7. Shows(S!Shown(d), Turned(contexts, Len(contexts)))
    <3>1. Turned(contexts, Len(contexts)) = <<>>
      BY <2>1 DEF Turned
    <3>2. \A i \in DOMAIN (<<"serde_json">> \o <<t>>) : (<<"serde_json">> \o <<t>>)[i] \in {"serde_json", t}
      OBVIOUS
    <3>3. <<"serde_json">> \o <<t>> \in Seq(Word)
      BY <2>4
    <3> QED
      BY <2>2, <2>4, <2>6, <3>1, <3>2, <3>3, ShowsNone
  <2>8. now
    BY <1>2, <2>1
  <2> HIDE DEF d
  <2>9. Root(d) = d /\ Around(d) = <<>>
    BY <2>5 DEF Root, Around
  <2>10. Remembers(r, d, now, contexts)
    BY <1>4, <1>5, <2>1, <2>5, <2>8, <2>9 DEF Remembers
  <2>11. OnItsWay(r, d, now, contexts, 0)
    BY <1>0, <1>3, <2>5, <2>7, <2>9, <2>10 DEF OnItsWay
  <2> QED
    BY <1>2, <2>11 DEF d
<1>6. CASE e.is = "anyhow"
  <2>1. e \in AnyhowError /\ Root(e) = e.root /\ Around(e) = e.contexts
    BY <1>1, <1>6, ErrorKinds DEF Root, Around
  <2>2. d = S!FromAnyhow(e)
    BY <1>6 DEF S!Question
  <2> HIDE DEF d
  <2>3. /\ d \in DomainError
        /\ S!Shown(d) = <<d.code>> \o (e.contexts \o S!Shown(e.root))
        /\ d.variant = IF e.root.is = "domain" THEN e.root.variant ELSE "ServerError"
    BY <2>1, <2>2, FromAnyhowIs
  <2>4. d.is = "domain" /\ d.code \in Word /\ d.code \notin Contexts /\ Root(d) = d /\ Around(d) = <<>>
    BY <2>3 DEF DomainError, Root, Around
  <2>5. e.root \in DomainError \cup JsonError \cup ForeignError /\ e.contexts \in Seq(Contexts)
    BY <2>1 DEF AnyhowError
  <2>6. S!Shown(e.root) \in Seq(Word) /\ e.contexts \in Seq(Word) /\ <<d.code>> \in Seq(Word)
    BY <2>4, <2>5, ShownType DEF Word
  <2>7. Shows(e.contexts \o S!Shown(e.root), Turned(contexts, Len(contexts)))
    <3>1. Shows(S!Shown(e.root), Turned(contexts, Len(contexts) - since)) /\ e.contexts = Newest(contexts, since)
      BY <2>1 DEF OnItsWay
    <3>2. Shows(e.contexts, e.contexts)
      BY <2>5, ShowsAll
    <3> QED
      BY <1>3, <2>5, <2>6, <3>1, <3>2, ShowsBoth
  <2>8. Shows(S!Shown(d), Turned(contexts, Len(contexts)))
    <3>1. Shows(<<d.code>>, <<>>)
      BY <2>4, OneWord
    <3>2. PICK rest \in Seq(Word) : rest = e.contexts \o S!Shown(e.root)
      <4>1. e.contexts \o S!Shown(e.root) \in Seq(Word)
        BY <2>6, Joined
      <4> QED
        BY <4>1
    <3>3. PICK shown \in Seq(Contexts) : shown = Turned(contexts, Len(contexts))
      <4>1. Turned(contexts, Len(contexts)) \in Seq(Contexts)
        BY <1>3, Joined
      <4> QED
        BY <4>1
    <3>4. <<>> \in Seq(Contexts) /\ <<>> \o shown = shown
      OBVIOUS
    <3>5. Shows(<<d.code>> \o rest, <<>> \o shown)
      BY <2>6, <2>7, <3>1, <3>2, <3>3, <3>4, ShowsBoth
    <3> QED
      BY <2>3, <3>2, <3>3, <3>4, <3>5
  <2>9. Remembers(r, d, now, contexts)
    <3>1. bare => now
      BY <1>2
    <3>2. ~bare /\ contexts # <<>> => ~now
      BY <1>2
    <3>3. r.is = "domain" => d.variant = r.variant
      BY <1>4, <2>1, <2>3 DEF Remembers
    <3>4. r.is = "json" => d.variant = (IF now THEN "BadRequest" ELSE "ServerError") /\ (~now => contexts # <<>>)
      BY <1>4, <1>6, <2>1, <2>3, <3>1, <3>2 DEF Remembers
    <3>5. r.is = "anyhow" => d.variant = "ServerError"
      BY <1>4, <2>1, <2>3 DEF Remembers
    <3> QED
      BY <2>4, <3>3, <3>4, <3>5 DEF Remembers
  <2>10. OnItsWay(r, d, now, contexts, 0)
    BY <1>0, <1>3, <2>3, <2>4, <2>8, <2>9 DEF OnItsWay
  <2> QED
    BY <1>2, <2>10 DEF d
<1> QED
  BY <1>1, <1>5, <1>6, ErrorKinds

\* What the response to an error has to show of its contexts, and its status.
ShownAtTheEnd(contexts, since) ==
  (IF since = 0 THEN <<>> ELSE <<Last(contexts)>>) \o Reverse(SubSeq(contexts, 1, Len(contexts) - since))
StatusAtTheEnd(r, bare) ==
  CASE r.is = "domain" -> S!Status(r.variant)
    [] r.is = "json" -> IF bare THEN 400 ELSE 500
    [] r.is = "anyhow" -> 500

\* Reverse, of a list's beginning.
LEMMA ReversedBeginning ==
  ASSUME NEW s \in Seq(Contexts), NEW m \in 0..Len(s)
  PROVE  Reverse(SubSeq(s, 1, m)) = Turned(s, m)
<1>1. PICK b \in Seq(Contexts) : b = SubSeq(s, 1, m) /\ Len(b) = m /\ \A i \in 1..m : b[i] = s[i]
  <2>1. Len(s) \in Nat /\ \A i \in 1..m : i \in 1..Len(s) /\ s[i] \in Contexts
    OBVIOUS
  <2>2. SubSeq(s, 1, m) \in Seq(Contexts)
    BY <2>1
  <2>3. Len(SubSeq(s, 1, m)) = m
    BY <2>1
  <2>4. \A i \in 1..m : SubSeq(s, 1, m)[i] = s[i]
    BY <2>1
  <2> QED
    BY <2>2, <2>3, <2>4
<1>2. \A i \in 1..m : m + 1 - i \in 1..m /\ (m - i) + 1 = m + 1 - i
  OBVIOUS
<1> QED
  BY <1>1, <1>2 DEF Reverse, Turned

\* The status of an error's response is the one it was raised with.
LEMMA StatusIsKept ==
  ASSUME NEW r, NEW e, NEW bare, NEW contexts, NEW since, OnItsWay(r, e, bare, contexts, since),
         e.is # "json"
  PROVE  S!HttpError(e).status = StatusAtTheEnd(r, bare)
<1>1. e \in DomainError \cup JsonError \cup AnyhowError /\ r \in Errors /\ bare \in BOOLEAN
  BY DEF OnItsWay
<1>2. Remembers(r, e, bare, contexts)
  BY DEF OnItsWay
<1>3. S!HttpError(e).status = IF Root(e).is = "domain" THEN S!Status(Root(e).variant) ELSE 500
  <2>1. CASE e.is = "domain"
    BY <2>1 DEF S!HttpError, Root
  <2>2. CASE e.is = "anyhow"
    BY <2>2 DEF S!HttpError, Root
  <2> QED
    BY <1>1, <2>1, <2>2, ErrorKinds
<1>4. S!Status("BadRequest") = 400 /\ S!Status("ServerError") = 500
  BY DEF S!Status
<1>5. r.is \in {"domain", "json", "anyhow"}
  <2>1. r \in DomainError \cup JsonError \cup AnyhowError
    BY <1>1, RaisedKinds
  <2> QED
    BY <2>1, ErrorKinds
<1>6. CASE r.is = "domain"
  BY <1>2, <1>3, <1>6 DEF Remembers, StatusAtTheEnd
<1>7. CASE r.is = "json"
  BY <1>2, <1>3, <1>4, <1>7 DEF Remembers, StatusAtTheEnd
<1>8. CASE r.is = "anyhow"
  BY <1>2, <1>3, <1>4, <1>8 DEF Remembers, StatusAtTheEnd
<1> QED
  BY <1>5, <1>6, <1>7, <1>8

\* The response to an error shows all contexts of before the last ? and the newest of
\* those that came after it.
LEMMA ContextsAreShown ==
  ASSUME NEW r, NEW e, NEW bare, NEW contexts, NEW since, OnItsWay(r, e, bare, contexts, since),
         e.is # "json"
  PROVE  Shows(S!HttpError(e).text, ShownAtTheEnd(contexts, since))
<1>1. /\ contexts \in Seq(Contexts) /\ since \in 0..Len(contexts)
      /\ e \in DomainError \cup JsonError \cup AnyhowError
  BY DEF OnItsWay
<1>2. PICK m \in 0..Len(contexts) : m = Len(contexts) - since
  BY <1>1
<1>3. PICK before \in Seq(Contexts) : before = Turned(contexts, m) /\ before = Reverse(SubSeq(contexts, 1, m))
  BY <1>1, <1>2, NewestFirst, ReversedBeginning
<1>4. /\ Root(e) \in DomainError \cup JsonError \cup ForeignError
      /\ e.is # "anyhow" => Root(e) = e
      /\ e.is = "anyhow" => Root(e) = e.root /\ Around(e) = e.contexts
  BY <1>1, RootType
<1>5. PICK inside \in Seq(Word) : inside = S!Shown(Root(e)) /\ inside # <<>>
  BY <1>4, ShownType
<1>6. Shows(inside, before)
  BY <1>2, <1>3, <1>5 DEF OnItsWay
<1>7. CASE e.is = "domain"
  <2>1. since = 0
    BY <1>7, NoneAround
  <2>2. ShownAtTheEnd(contexts, since) = <<>> \o before
    BY <1>2, <1>3, <2>1 DEF ShownAtTheEnd
  <2>3. S!HttpError(e).text = inside
    BY <1>4, <1>5, <1>7 DEF S!HttpError
  <2>4. <<>> \o before = before
    OBVIOUS
  <2> QED
    BY <1>6, <2>2, <2>3, <2>4
<1>8. CASE e.is = "anyhow" /\ since = 0
  <2>1. e.root \in ForeignError /\ contexts = <<>> /\ Newest(contexts, since) = <<>>
    BY <1>8 DEF OnItsWay, Newest
  <2>2. e.contexts = <<>>
    BY <1>4, <1>8, <2>1 DEF OnItsWay
  <2>3. PICK t \in Texts : inside = <<t>> /\ t \in Word /\ t \notin Contexts
    BY <1>4, <1>5, <1>8, <2>1, PlainShows
  <2>4. S!HttpError(e).text = <<Head(<<>> \o inside)>> \o inside
    BY <1>4, <1>5, <1>8, <2>2 DEF S!HttpError
  <2>5. <<>> \o inside = inside /\ Head(inside) = t
    BY <2>3
  <2>6. S!HttpError(e).text = <<t>> \o <<t>>
    BY <2>3, <2>4, <2>5
  <2>7. ShownAtTheEnd(contexts, since) = <<>>
    <3>1. before = <<>>
      BY <1>2, <1>3, <2>1, <1>8 DEF Turned
    <3>2. ShownAtTheEnd(contexts, since) = <<>> \o before
      BY <1>2, <1>3, <1>8 DEF ShownAtTheEnd
    <3> QED
      BY <3>1, <3>2
  <2>8. <<t>> \o <<t>> \in Seq(Word) /\ \A i \in DOMAIN (<<t>> \o <<t>>) : (<<t>> \o <<t>>)[i] = t
    BY <2>3
  <2> QED
    BY <2>3, <2>6, <2>7, <2>8, ShowsNone
<1>9. CASE e.is = "anyhow" /\ since # 0
  <2>1. e.contexts = Newest(contexts, since)
    BY <1>4, <1>9 DEF OnItsWay
  <2>2. PICK c \in Contexts : c = Last(contexts) /\ c = Newest(contexts, since)[1]
    <3>1. Len(contexts) \in 1..Len(contexts) /\ 1 \in 1..since /\ Len(contexts) + 1 - 1 = Len(contexts)
      BY <1>1, <1>9
    <3>2. Newest(contexts, since)[1] = contexts[Len(contexts)] /\ contexts[Len(contexts)] \in Contexts
      BY <1>1, <3>1 DEF Newest
    <3> QED
      BY <3>2 DEF Last
  <2>3. PICK near \in Seq(Word) : near = e.contexts /\ near[1] = c /\ Len(near) > 0
    <3>1. Newest(contexts, since) \in Seq(Contexts) /\ DOMAIN Newest(contexts, since) = 1..since
      BY <1>1, NewestFirst DEF Newest
    <3>2. e.contexts \in Seq(Word)
      BY <2>1, <3>1 DEF Word
    <3>3. Len(e.contexts) > 0
      BY <1>1, <1>9, <2>1, <3>1, <3>2
    <3> QED
      BY <2>1, <2>2, <3>2, <3>3
  <2>4. Head(near \o inside) = c
    BY <2>3
  <2>5. S!HttpError(e).text = <<c>> \o inside
    BY <1>4, <1>5, <1>9, <2>3, <2>4 DEF S!HttpError
  <2>6. ShownAtTheEnd(contexts, since) = <<c>> \o before
    BY <1>2, <1>3, <1>9, <2>2 DEF ShownAtTheEnd
  <2>7. <<c>> \in Seq(Word) /\ <<c>> \in Seq(Contexts) /\ Shows(<<c>>, <<c>>)
    <3>1. c \in Word
      BY DEF Word
    <3> QED
      BY <3>1, OneWord
  <2> QED
    BY <1>6, <2>5, <2>6, <2>7, ShowsBoth
<1> QED
  BY <1>1, <1>7, <1>8, <1>9, ErrorKinds

\* The property, once the handler is done with its request.
Answered(r, response, bare, contexts, since) ==
  IF "is" \in DOMAIN r
    THEN /\ response.status = StatusAtTheEnd(r, bare)
         /\ Shows(response.text, ShownAtTheEnd(contexts, since))
    ELSE /\ r.body # None => response.status = r.status /\ r.headers \subseteq response.headers
         /\ r.body = None => response.status = 500
         /\ \E h \in response.headers : h.name = ContentType

\* What is kept of a request, and how far it has come.
GivenIs(g) ==
  g = [algorithm |-> "sdk", set |-> g.set, raised |-> g.raised, contexts |-> g.contexts,
       since |-> g.since, bare |-> g.bare]
ResultIs(a) == a = [stage |-> a.stage, value |-> a.value, context |-> a.context]

\* A request under way.
Underway(g, a) ==
  /\ GivenIs(g)
  /\ \/ /\ a = [stage |-> "build", value |-> g.set]
        /\ g.contexts = <<>> /\ g.since = 0 /\ g.bare = FALSE
     \/ /\ ResultIs(a) /\ a.context = S!Context(g.set)
        /\ \/ a.stage = "reply" /\ a.value = g.raised /\ g.raised \in Replies
           \/ a.stage = "error" /\ OnItsWay(g.raised, a.value, g.bare, g.contexts, g.since)
           \/ a.stage = "response" /\ Answered(g.raised, a.value, g.bare, g.contexts, g.since)

\* A record with one value for each field.
LEMMA OneRecord ==
  ASSUME NEW s, NEW r, NEW k, NEW m, NEW b,
         NEW g, g \in [algorithm: {"sdk"}, set: {s}, raised: {r}, contexts: {k}, since: {m}, bare: {b}]
  PROVE  g = [algorithm |-> "sdk", set |-> s, raised |-> r, contexts |-> k, since |-> m, bare |-> b]
OBVIOUS

\* What is kept is what its fields are.
LEMMA GivenFields ==
  ASSUME NEW g, GivenIs(g)
  PROVE  g \in [algorithm: {"sdk"}, set: {g.set}, raised: {g.raised}, contexts: {g.contexts},
                since: {g.since}, bare: {g.bare}]
<1>1. PICK s, r, k, m, b : g = [algorithm |-> "sdk", set |-> s, raised |-> r, contexts |-> k, since |-> m, bare |-> b]
  BY DEF GivenIs
<1>2. g.set = s /\ g.raised = r /\ g.contexts = k /\ g.since = m /\ g.bare = b
  BY <1>1
<1>3. g \in [algorithm: {"sdk"}, set: {s}, raised: {r}, contexts: {k}, since: {m}, bare: {b}]
  BY <1>1
<1> QED
  BY <1>2, <1>3

\* A step that adds a context to what is kept.
LEMMA ContextsChange ==
  ASSUME NEW g, GivenIs(g), NEW cs, NEW n
  PROVE  [g EXCEPT !.contexts = cs, !.since = n]
           = [algorithm |-> "sdk", set |-> g.set, raised |-> g.raised, contexts |-> cs,
              since |-> n, bare |-> g.bare]
<1> DEFINE e == [g EXCEPT !.contexts = cs, !.since = n]
<1>1. e \in [algorithm: {"sdk"}, set: {g.set}, raised: {g.raised}, contexts: {cs}, since: {n}, bare: {g.bare}]
  <2>1. PICK s, r, k, m, b : /\ s = g.set /\ r = g.raised /\ k = g.contexts /\ m = g.since /\ b = g.bare
                             /\ g \in [algorithm: {"sdk"}, set: {s}, raised: {r}, contexts: {k}, since: {m}, bare: {b}]
    BY GivenFields
  <2>2. e \in [algorithm: {"sdk"}, set: {s}, raised: {r}, contexts: {cs}, since: {n}, bare: {b}]
    BY <2>1
  <2> QED
    BY <2>1, <2>2
<1> HIDE DEF e
<1>2. e = [algorithm |-> "sdk", set |-> g.set, raised |-> g.raised, contexts |-> cs, since |-> n, bare |-> g.bare]
  BY <1>1, OneRecord
<1> QED
  BY <1>2 DEF e

\* A step that converts, and may find the error bare.
LEMMA BareChange ==
  ASSUME NEW g, GivenIs(g), NEW n, NEW bare
  PROVE  [g EXCEPT !.since = n, !.bare = bare]
           = [algorithm |-> "sdk", set |-> g.set, raised |-> g.raised, contexts |-> g.contexts,
              since |-> n, bare |-> bare]
<1> DEFINE e == [g EXCEPT !.since = n, !.bare = bare]
<1>1. e \in [algorithm: {"sdk"}, set: {g.set}, raised: {g.raised}, contexts: {g.contexts}, since: {n}, bare: {bare}]
  <2>1. PICK s, r, k, m, b : /\ s = g.set /\ r = g.raised /\ k = g.contexts /\ m = g.since /\ b = g.bare
                             /\ g \in [algorithm: {"sdk"}, set: {s}, raised: {r}, contexts: {k}, since: {m}, bare: {b}]
    BY GivenFields
  <2>2. e \in [algorithm: {"sdk"}, set: {s}, raised: {r}, contexts: {k}, since: {n}, bare: {bare}]
    BY <2>1
  <2> QED
    BY <2>1, <2>2
<1> HIDE DEF e
<1>2. e = [algorithm |-> "sdk", set |-> g.set, raised |-> g.raised, contexts |-> g.contexts, since |-> n, bare |-> bare]
  BY <1>1, OneRecord
<1> QED
  BY <1>2 DEF e

\* The inductive invariant.
SdkInv == Ran("sdk") => Underway(given, result)

\* A reply is answered as it is.
LEMMA ReplyIsAnswered ==
  ASSUME NEW r \in Replies, NEW bare, NEW contexts, NEW since
  PROVE  Answered(r, S!Respond(r), bare, contexts, since)
<1>1. r = [status |-> r.status, headers |-> r.headers, body |-> r.body]
  BY SdkAssumption DEF S!Reply
<1>2. "is" \notin DOMAIN r
  BY <1>1
<1>3. \E h \in S!Plain : h.name = ContentType
  BY DEF S!Plain
<1>4. CASE r.body = None
  BY <1>2, <1>3, <1>4 DEF Answered, S!Respond
<1>5. CASE r.body # None
  <2>1. S!Respond(r).headers = r.headers \cup (IF \E h \in r.headers : h.name = ContentType THEN {} ELSE S!Plain)
    BY <1>5 DEF S!Respond
  <2>2. \E h \in S!Respond(r).headers : h.name = ContentType
    BY <1>3, <2>1
  <2>3. S!Respond(r).status = r.status /\ r.headers \subseteq S!Respond(r).headers
    BY <1>5, <2>1 DEF S!Respond
  <2> QED
    BY <1>2, <1>5, <2>2, <2>3 DEF Answered
<1> QED
  BY <1>4, <1>5

\* An error is answered with its status and its contexts.
LEMMA ErrorIsAnswered ==
  ASSUME NEW r, NEW e, NEW bare, NEW contexts, NEW since, OnItsWay(r, e, bare, contexts, since),
         e.is # "json"
  PROVE  Answered(r, S!HttpError(e), bare, contexts, since)
<1>1. "is" \in DOMAIN r
  <2>1. r \in DomainError \cup JsonError \cup AnyhowError
    BY RaisedKinds DEF OnItsWay
  <2> QED
    BY <2>1 DEF DomainError, JsonError, AnyhowError
<1> QED
  BY <1>1, StatusIsKept, ContextsAreShown DEF Answered

\* The property follows from the invariant.
LEMMA UnderwayAnswers == SdkInv => AnsweredAsDecided
<1> SUFFICES ASSUME SdkInv, Ran("sdk"), result.stage # "build" PROVE
      /\ result.context = S!Context(given.set)
      /\ result.stage = "response" =>
           LET r == given.raised IN
           IF "is" \in DOMAIN r
             THEN /\ result.value.status = StatusOf(r)
                  /\ Shows(result.value.text, ContextsShown)
             ELSE /\ r.body # None => result.value.status = r.status /\ r.headers \subseteq result.value.headers
                  /\ r.body = None => result.value.status = 500
                  /\ \E h \in result.value.headers : h.name = ContentType
  BY DEF AnsweredAsDecided
<1>1. result.context = S!Context(given.set)
  BY DEF SdkInv, Underway
<1>2. ASSUME result.stage = "response"
      PROVE  Answered(given.raised, result.value, given.bare, given.contexts, given.since)
  BY <1>2 DEF SdkInv, Underway
<1>3. StatusOf(given.raised) = StatusAtTheEnd(given.raised, given.bare)
  BY DEF StatusOf, StatusAtTheEnd
<1>4. ContextsShown = ShownAtTheEnd(given.contexts, given.since)
  BY DEF ContextsShown, ShownAtTheEnd
<1> QED
  BY <1>1, <1>2, <1>3, <1>4 DEF Answered

\* Nothing has run at the start.
LEMMA SdkInit == AInit => SdkInv
BY DEF AInit, Unstarted, SdkInv, Ran

\* The algorithms that are one step.
OneStep ==
  \/ ParseHeaders \/ ExportSpans \/ ExportMetrics \/ ShareResource \/ StoreParameter
  \/ SendOut \/ ExpandRuntime \/ ExpandGuest \/ MatchTopic
RequestStep == NewRequest \/ SetPart \/ Handle \/ Wrap \/ Ask \/ Respond

\* The algorithm a step has run.
LEMMA WhichRan ==
  /\ ParseHeaders => Ran("headers")'
  /\ ExportSpans => Ran("spans")'
  /\ ExportMetrics => Ran("metric")'
  /\ ShareResource => Ran("resource")'
  /\ StoreParameter => Ran("parameter")'
  /\ SendOut => Ran("outgoing")'
  /\ ExpandRuntime => Ran("runtime")'
  /\ ExpandGuest => Ran("guest")'
  /\ MatchTopic => Ran("topics")'
BY DEF ParseHeaders, ExportSpans, ExportMetrics, ShareResource, StoreParameter, SendOut,
       ExpandRuntime, ExpandGuest, MatchTopic, Run, Ran

\* Every step of a request keeps the invariant.
LEMMA RequestKept ==
  ASSUME SdkInv, RequestStep
  PROVE  Underway(given', result')
<1>1. CASE NewRequest
  <2>1. PICK b : /\ given' = [algorithm |-> "sdk", set |-> b, raised |-> None, contexts |-> <<>>,
                              since |-> 0, bare |-> FALSE]
                 /\ result' = [stage |-> "build", value |-> b]
    BY <1>1 DEF NewRequest
  <2>2. given'.set = b /\ given'.contexts = <<>> /\ given'.since = 0 /\ given'.bare = FALSE /\ given'.raised = None
    BY <2>1
  <2> QED
    BY <2>1, <2>2 DEF Underway, GivenIs
<1>2. CASE SetPart
  <2>1. Underway(given, result) /\ result.stage = "build"
    BY <1>2 DEF SetPart, At, SdkInv, Ran
  <2>2. PICK s \in Settings :
          /\ result' = [result EXCEPT !.value = S!WithPart(@, s.part, s.value)]
          /\ given' = [given EXCEPT !.set[s.part] = s.value]
    BY <1>2 DEF SetPart
  <2>3. /\ result = [stage |-> "build", value |-> given.set] /\ GivenIs(given)
        /\ given.contexts = <<>> /\ given.since = 0 /\ given.bare = FALSE
    BY <2>1 DEF Underway, ResultIs
  <2>4. PICK b : b = [given.set EXCEPT ![s.part] = s.value]
    OBVIOUS
  <2>5. result' = [stage |-> "build", value |-> b]
    BY <2>2, <2>3, <2>4 DEF S!WithPart
  <2>6. given' = [given EXCEPT !.set = b]
    BY <2>2, <2>4
  <2>7. given' = [algorithm |-> "sdk", set |-> b, raised |-> given.raised, contexts |-> given.contexts,
                  since |-> given.since, bare |-> given.bare]
    BY <2>3, <2>6 DEF GivenIs
  <2>8. given'.set = b /\ given'.contexts = <<>> /\ given'.since = 0 /\ given'.bare = FALSE
    BY <2>3, <2>7
  <2>9. GivenIs(given')
    BY <2>7 DEF GivenIs
  <2> QED
    BY <2>5, <2>8, <2>9 DEF Underway
<1>3. CASE Handle
  <2>1. Underway(given, result) /\ result.stage = "build"
    BY <1>3 DEF Handle, At, SdkInv, Ran
  <2>2. /\ result = [stage |-> "build", value |-> given.set] /\ GivenIs(given)
        /\ given.contexts = <<>> /\ given.since = 0 /\ given.bare = FALSE
    BY <2>1 DEF Underway, ResultIs
  <2>3. PICK r, stage :
          /\ (stage = "reply" /\ r \in Replies) \/ (stage = "error" /\ r \in Errors)
          /\ given' = [given EXCEPT !.raised = r]
          /\ result' = [stage |-> stage, value |-> r, context |-> S!Context(given.set)]
    BY <1>3, <2>2 DEF Handle
  <2>4. given' = [algorithm |-> "sdk", set |-> given.set, raised |-> r, contexts |-> given.contexts,
                  since |-> given.since, bare |-> given.bare]
    BY <2>2, <2>3 DEF GivenIs
  <2>5. /\ given'.raised = r /\ given'.set = given.set /\ GivenIs(given')
        /\ given'.contexts = <<>> /\ given'.since = 0 /\ given'.bare = FALSE
    BY <2>2, <2>4 DEF GivenIs
  <2>6. result'.stage = stage /\ result'.value = r /\ result'.context = S!Context(given.set) /\ ResultIs(result')
    BY <2>3 DEF ResultIs
  <2>7. CASE stage = "reply"
    BY <2>3, <2>5, <2>6, <2>7 DEF Underway
  <2>8. CASE stage = "error"
    <3>1. OnItsWay(given'.raised, result'.value, given'.bare, given'.contexts, given'.since)
      BY <2>3, <2>5, <2>6, <2>8, Raise
    <3> QED
      BY <2>3, <2>5, <2>6, <2>8, <3>1 DEF Underway
  <2> QED
    BY <2>3, <2>7, <2>8
<1>4. CASE Wrap
  <2>1. Underway(given, result) /\ result.stage = "error"
    BY <1>4 DEF Wrap, At, SdkInv, Ran
  <2>2. /\ GivenIs(given) /\ ResultIs(result) /\ result.context = S!Context(given.set)
        /\ OnItsWay(given.raised, result.value, given.bare, given.contexts, given.since)
    BY <2>1 DEF Underway
  <2>3. PICK c \in Contexts :
          given' = [given EXCEPT !.contexts = Append(given.contexts, c), !.since = given.since + 1]
    BY <1>4 DEF Wrap
  <2>4. result' = [result EXCEPT !.value = S!AddContext(result.value, Last(given'.contexts))]
    BY <1>4 DEF Wrap
  <2>5. PICK cs, n : cs = Append(given.contexts, c) /\ n = given.since + 1
    OBVIOUS
  <2>6. given' = [algorithm |-> "sdk", set |-> given.set, raised |-> given.raised, contexts |-> cs,
                  since |-> n, bare |-> given.bare]
    <3>1. [given EXCEPT !.contexts = cs, !.since = n] =
            [algorithm |-> "sdk", set |-> given.set, raised |-> given.raised, contexts |-> cs,
             since |-> n, bare |-> given.bare]
      BY <2>2, ContextsChange, Zenon
    <3> QED
      BY <2>3, <2>5, <3>1, Zenon
  <2>7. /\ given'.raised = given.raised /\ given'.set = given.set /\ GivenIs(given')
        /\ given'.contexts = cs /\ given'.since = n /\ given'.bare = given.bare
    BY <2>6, SMTT(20) DEF GivenIs
  <2>8. Last(given'.contexts) = c
    <3>1. given.contexts \in Seq(Contexts)
      BY <2>2 DEF OnItsWay
    <3> QED
      BY <2>5, <2>7, <3>1 DEF Last
  <2>9. PICK e : e = S!AddContext(result.value, c)
    OBVIOUS
  <2>10. result' = [stage |-> "error", value |-> e, context |-> result.context]
    BY <2>1, <2>2, <2>4, <2>8, <2>9 DEF ResultIs
  <2>11. result'.stage = "error" /\ result'.value = e /\ result'.context = S!Context(given.set) /\ ResultIs(result')
    BY <2>2, <2>10 DEF ResultIs
  <2>12. OnItsWay(given.raised, e, given.bare, cs, n)
    BY <2>2, <2>5, <2>9, WrapStep
  <2> QED
    BY <2>7, <2>11, <2>12 DEF Underway
<1>5. CASE Ask
  <2>1. Underway(given, result) /\ result.stage = "error"
    BY <1>5 DEF Ask, At, SdkInv, Ran
  <2>2. /\ GivenIs(given) /\ ResultIs(result) /\ result.context = S!Context(given.set)
        /\ OnItsWay(given.raised, result.value, given.bare, given.contexts, given.since)
    BY <2>1 DEF Underway
  <2>3. PICK e, bare : e = S!Question(result.value) /\ bare = (given.bare \/ given.contexts = <<>>)
    OBVIOUS
  <2>4. /\ result.value.is # "domain"
        /\ result' = [result EXCEPT !.value = e]
        /\ given' = [given EXCEPT !.since = 0, !.bare = bare]
    BY <1>5, <2>3 DEF Ask
  <2>5. given' = [algorithm |-> "sdk", set |-> given.set, raised |-> given.raised, contexts |-> given.contexts,
                  since |-> 0, bare |-> bare]
    BY <2>2, <2>4, BareChange
  <2>6. /\ given'.raised = given.raised /\ given'.set = given.set /\ GivenIs(given')
        /\ given'.contexts = given.contexts /\ given'.since = 0 /\ given'.bare = bare
    BY <2>5 DEF GivenIs
  <2>7. result' = [stage |-> "error", value |-> e, context |-> result.context]
    BY <2>1, <2>2, <2>4 DEF ResultIs
  <2>8. result'.stage = "error" /\ result'.value = e /\ result'.context = S!Context(given.set) /\ ResultIs(result')
    BY <2>2, <2>7 DEF ResultIs
  <2>9. OnItsWay(given.raised, e, bare, given.contexts, 0)
    BY <2>2, <2>3, <2>4, AskStep
  <2> QED
    BY <2>6, <2>8, <2>9 DEF Underway
<1>6. CASE Respond
  <2>1. Underway(given, result) /\ given' = given /\ result.stage \in {"reply", "error"}
    BY <1>6 DEF Respond, At, SdkInv, Ran
  <2>2. GivenIs(given) /\ ResultIs(result) /\ result.context = S!Context(given.set)
    BY <2>1 DEF Underway
  <2>3. PICK v : /\ result' = [result EXCEPT !.stage = "response", !.value = v]
                 /\ Answered(given.raised, v, given.bare, given.contexts, given.since)
    <3>1. CASE result.stage = "reply"
      <4>1. result.value = given.raised /\ given.raised \in Replies
        BY <2>1, <3>1 DEF Underway
      <4>2. result' = [result EXCEPT !.stage = "response", !.value = S!Respond(result.value)]
        BY <1>6, <3>1 DEF Respond, At
      <4>3. Answered(given.raised, S!Respond(result.value), given.bare, given.contexts, given.since)
        BY <4>1, ReplyIsAnswered
      <4> QED
        BY <4>2, <4>3
    <3>2. CASE result.stage = "error"
      <4>1. OnItsWay(given.raised, result.value, given.bare, given.contexts, given.since)
        BY <2>1, <3>2 DEF Underway
      <4>2. result.value.is # "json" /\ result' = [result EXCEPT !.stage = "response", !.value = S!HttpError(result.value)]
        BY <1>6, <3>2 DEF Respond, At
      <4>3. Answered(given.raised, S!HttpError(result.value), given.bare, given.contexts, given.since)
        BY <4>1, <4>2, ErrorIsAnswered
      <4> QED
        BY <4>2, <4>3
    <3> QED
      BY <2>1, <3>1, <3>2
  <2>4. result' = [stage |-> "response", value |-> v, context |-> result.context]
    BY <2>2, <2>3 DEF ResultIs
  <2>5. result'.stage = "response" /\ result'.value = v /\ result'.context = S!Context(given.set) /\ ResultIs(result')
    BY <2>2, <2>4 DEF ResultIs
  <2> QED
    BY <2>1, <2>2, <2>3, <2>5 DEF Underway
<1> QED
  BY <1>1, <1>2, <1>3, <1>4, <1>5, <1>6 DEF RequestStep

\* A step of a request is not one of another algorithm.
LEMMA UnderwayRan == ASSUME NEW g, NEW a, Underway(g, a) PROVE g.algorithm = "sdk"
BY DEF Underway, GivenIs

\* So does every other step.
LEMMA SdkNext == SdkInv /\ [ANext]_avars => SdkInv'
<1> SUFFICES ASSUME SdkInv, [ANext]_avars PROVE SdkInv'
  OBVIOUS
<1>1. CASE UNCHANGED avars
  BY <1>1 DEF SdkInv, Ran, avars
<1>2. CASE OneStep
  <2>1. ~Ran("sdk")'
    BY <1>2, WhichRan DEF OneStep, Ran
  <2> QED
    BY <2>1 DEF SdkInv
<1>3. CASE RequestStep
  BY <1>3, RequestKept DEF SdkInv
<1> QED
  BY <1>1, <1>2, <1>3 DEF ANext, OneStep, RequestStep

\* What is known of a request is known of every state.
THEOREM SdkAlways == ASpec => []SdkInv
  BY SdkInit, SdkNext, PTL DEF ASpec

\* However an error is wrapped and converted on its way out of a handler, its response
\* has the status it was raised with and shows its contexts in their order; a reply goes
\* out as it is.
THEOREM AlwaysAnsweredAsDecided == ASpec => []AnsweredAsDecided
  BY SdkAlways, UnderwayAnswers, PTL

-----------------------------------------------------------------------------
(* CacheControl: the loop over the directives, for headers of any length.    *)

\* Every nonempty set of naturals has a least element.
LEMMA LeastNumber ==
  ASSUME NEW Set \in SUBSET Nat, Set # {}
  PROVE  \E n \in Set : \A m \in Set : n <= m
<1> DEFINE Rel == OpToRel(<, Nat)
<1>1. \A x, y \in Nat : x < y => <<x, y>> \in Rel
  BY DEF OpToRel
<1>2. IsWellFoundedOn(Rel, Nat)
  BY NatLessThanWellFounded
<1> HIDE DEF Rel
<1>3. PICK n \in Set : \A m \in Set : <<m, n>> \notin Rel
  BY <1>2, WFMin
<1>4. ASSUME NEW m \in Set PROVE n <= m
  <2>1. ~(m < n)
    BY <1>1, <1>3
  <2> QED
    BY <2>1
<1> QED
  BY <1>4

\* What a set of numbers up to N that holds 0 and every successor is.
LEMMA UpToN ==
  ASSUME NEW N \in Nat, NEW In, 0 \in In, \A n \in 0..N : n # N /\ n \in In => n + 1 \in In
  PROVE  0..N \subseteq In
<1> DEFINE Out == {n \in 0..N : n \notin In}
<1>1. SUFFICES ASSUME Out # {} PROVE FALSE
  OBVIOUS
<1>2. Out \in SUBSET Nat
  OBVIOUS
<1> HIDE DEF Out
<1>3. PICK n \in Out : \A m \in Out : n <= m
  BY <1>1, <1>2, LeastNumber
<1>4. n \in 0..N /\ n \notin In /\ n # 0
  BY DEF Out
<1>5. n - 1 \in 0..N /\ n - 1 # N /\ n - 1 \notin Out /\ (n - 1) + 1 = n
  BY <1>3, <1>4
<1>6. n - 1 \in In
  BY <1>5 DEF Out
<1> QED
  BY <1>4, <1>5, <1>6

Control == [ok: BOOLEAN, no_cache: BOOLEAN, no_store: BOOLEAN, max_age: Nat, etag: Etags \cup {NoEtag}]

\* The ages of the headers are numbers.
LEMMA AgesAreNat == \A n \in Ages \cup {0} : n \in Nat
BY HeaderAssumption

\* A directive carries a number.
LEMMA AgeType ==
  ASSUME NEW d \in Directives
  PROVE  d.age \in Nat /\ (d.name = "max-age" => d.age \in Ages)
BY HeaderAssumption DEF Directives, NoStore, NoCache, BadAge, Unknown, Bytes, MaxAge

\* One turn of the loop keeps a Control one.
LEMMA DirectiveType ==
  ASSUME NEW d \in Directives, NEW c \in Control
  PROVE  Directive(d, c) \in Control
<1>1. d.age \in Nat
  BY AgeType
<1>2. Refused \in Control
  BY DEF Refused, Default, Control
<1> QED
  BY <1>1, <1>2 DEF Directive, Control

\* The loop is what its definition says: there is a function that is.
LEMMA AfterIs ==
  ASSUME NEW ds \in Seq(Directives)
  PROVE  \A n \in 0..Len(ds) : After(ds)[n] = IF n = 0 THEN Default ELSE Directive(ds[n], After(ds)[n - 1])
<1> DEFINE N == Len(ds)
<1> DEFINE Loop(n, g) == g[0] = Default /\ \A i \in 1..n : g[i] = Directive(ds[i], g[i - 1])
<1> DEFINE In == {n \in 0..N : \E g \in [0..n -> Control] : Loop(n, g)}
<1>1. N \in Nat /\ \A i \in 1..N : ds[i] \in Directives
  OBVIOUS
<1>2. 0 \in In
  <2> DEFINE g == [i \in 0..0 |-> Default]
  <2>1. g \in [0..0 -> Control] /\ g[0] = Default /\ \A i \in 1..0 : g[i] = Directive(ds[i], g[i - 1])
    BY DEF Default, Control
  <2> HIDE DEF g
  <2> QED
    BY <2>1, <1>1
<1>3. ASSUME NEW n \in 0..N, n # N, n \in In
      PROVE  n + 1 \in In
  <2>1. PICK g \in [0..n -> Control] : Loop(n, g)
    BY <1>3
  <2> DEFINE h == [i \in 0..(n + 1) |-> IF i = n + 1 THEN Directive(ds[n + 1], g[n]) ELSE g[i]]
  <2>2. n + 1 \in 1..N /\ n \in Nat
    BY <1>1, <1>3
  <2>3. Directive(ds[n + 1], g[n]) \in Control
    BY <1>1, <2>2, DirectiveType
  <2>4. h \in [0..(n + 1) -> Control]
    BY <2>1, <2>2, <2>3
  <2>5. h[0] = Default /\ \A i \in 1..(n + 1) : h[i] = Directive(ds[i], h[i - 1])
    BY <2>1, <2>2
  <2> HIDE DEF h
  <2> QED
    BY <2>2, <2>4, <2>5
<1>4. N \in In
  <2>1. N \in 0..N
    BY <1>1
  <2> HIDE DEF In, N
  <2> QED
    BY <1>1, <1>2, <1>3, <2>1, UpToN
<1>5. PICK g \in [0..N -> Control] : Loop(N, g)
  BY <1>4
<1>6. g = [n \in 0..Len(ds) |-> IF n = 0 THEN Default ELSE Directive(ds[n], g[n - 1])]
  BY <1>5, <1>1
<1>7. After(ds) = [n \in 0..Len(ds) |-> IF n = 0 THEN Default ELSE Directive(ds[n], After(ds)[n - 1])]
  BY <1>6 DEF After
<1> QED
  BY <1>7

\* The max-age in force changes only with a max-age directive.
LEMMA AgeAfterNext ==
  ASSUME NEW ds, NEW n \in Nat
  PROVE  AgeAfter(ds, n + 1) = IF ds[n + 1].name = "max-age" THEN ds[n + 1].age ELSE AgeAfter(ds, n)
<1> DEFINE ages(k) == {i \in 1..k : ds[i].name = "max-age"}
<1>1. CASE ds[n + 1].name = "max-age"
  <2>1. n + 1 \in ages(n + 1) /\ \A j \in ages(n + 1) : j <= n + 1
    BY <1>1
  <2>2. (CHOOSE i \in ages(n + 1) : \A j \in ages(n + 1) : j <= i) = n + 1
    <3>1. \A i \in ages(n + 1) : (\A j \in ages(n + 1) : j <= i) => i = n + 1
      BY <2>1
    <3> HIDE DEF ages
    <3> QED
      BY <2>1, <3>1
  <2> QED
    BY <1>1, <2>1, <2>2 DEF AgeAfter
<1>2. CASE ds[n + 1].name # "max-age"
  <2>1. ages(n + 1) = ages(n)
    BY <1>2
  <2> HIDE DEF ages
  <2>2. \A k \in {n, n + 1} : AgeAfter(ds, k) =
          IF ages(k) = {} THEN 0 ELSE ds[CHOOSE i \in ages(k) : \A j \in ages(k) : j <= i].age
    BY DEF AgeAfter, ages
  <2> QED
    BY <1>2, <2>1, <2>2
<1> QED
  BY <1>1, <1>2

\* One turn of the loop, told apart by what it refuses and what it sets.
Refuses(d, c) ==
  \/ d = BadAge
  \/ c.no_store /\ (d = NoCache \/ d.name \in {"max-age", "malformed"})
  \/ d = NoStore /\ (c.no_cache \/ c.max_age > 0)

\* A Control with one field changed, field by field.
LEMMA ControlExcept ==
  ASSUME NEW c \in Control, NEW v
  PROVE  /\ [c EXCEPT !.no_cache = v] =
              [ok |-> c.ok, no_cache |-> v, no_store |-> c.no_store, max_age |-> c.max_age, etag |-> c.etag]
         /\ [c EXCEPT !.no_store = v] =
              [ok |-> c.ok, no_cache |-> c.no_cache, no_store |-> v, max_age |-> c.max_age, etag |-> c.etag]
         /\ [c EXCEPT !.max_age = v] =
              [ok |-> c.ok, no_cache |-> c.no_cache, no_store |-> c.no_store, max_age |-> v, etag |-> c.etag]
         /\ [c EXCEPT !.etag = v] =
              [ok |-> c.ok, no_cache |-> c.no_cache, no_store |-> c.no_store, max_age |-> c.max_age, etag |-> v]
         /\ c = [ok |-> c.ok, no_cache |-> c.no_cache, no_store |-> c.no_store, max_age |-> c.max_age,
                 etag |-> c.etag]
BY DEF Control

\* What one directive does to the fields, without EXCEPT.
LEMMA Turn ==
  ASSUME NEW d \in Directives, NEW c \in Control, c.ok
  PROVE  Directive(d, c) =
           IF Refuses(d, c) THEN Refused
           ELSE [ok |-> c.ok, no_cache |-> IF d = NoCache THEN TRUE ELSE c.no_cache,
                 no_store |-> IF d = NoStore THEN TRUE ELSE c.no_store,
                 max_age |-> IF d.name = "max-age" THEN d.age ELSE c.max_age, etag |-> c.etag]
<1>1. \/ d = NoStore \/ d = NoCache \/ d = BadAge \/ d = Unknown \/ d = Bytes
      \/ \E a \in Ages : d = MaxAge(a)
  BY DEF Directives
<1>2. c.ok = TRUE
  BY DEF Control
<1>3. CASE d = NoStore
  <2>1. d.name = "no-store" /\ d # NoCache /\ d # BadAge
    BY <1>3 DEF NoStore, NoCache, BadAge
  <2>2. Directive(d, c) = IF Refuses(d, c) THEN Refused ELSE [c EXCEPT !.no_store = TRUE]
    BY <2>1, <1>2, <1>3 DEF Directive, Refuses
  <2>3. [c EXCEPT !.no_store = TRUE] = [ok |-> c.ok, no_cache |-> c.no_cache,
          no_store |-> TRUE, max_age |-> c.max_age, etag |-> c.etag]
    BY <1>2, ControlExcept
  <2> QED
    BY <2>1, <2>2, <2>3, <1>3
<1>4. CASE d = NoCache
  <2>1. d.name = "no-cache" /\ d # NoStore /\ d # BadAge
    BY <1>4 DEF NoStore, NoCache, BadAge
  <2>2. Directive(d, c) = IF Refuses(d, c) THEN Refused ELSE [c EXCEPT !.no_cache = TRUE]
    BY <2>1, <1>2, <1>4 DEF Directive, Refuses
  <2>3. [c EXCEPT !.no_cache = TRUE] = [ok |-> c.ok, no_cache |-> TRUE,
          no_store |-> c.no_store, max_age |-> c.max_age, etag |-> c.etag]
    BY <1>2, ControlExcept
  <2> QED
    BY <2>1, <2>2, <2>3, <1>4
<1>5. CASE d = BadAge
  <2>1. d.name = "malformed" /\ d # NoStore /\ d # NoCache
    BY <1>5 DEF NoStore, NoCache, BadAge
  <2> QED
    BY <2>1, <1>2, <1>5 DEF Directive, Refuses
<1>6. CASE d = Unknown \/ d = Bytes
  <2>1. d.name \in {"other", "bytes"} /\ d # NoStore /\ d # NoCache /\ d # BadAge
    BY <1>6 DEF NoStore, NoCache, BadAge, Unknown, Bytes
  <2> QED
    BY <2>1, <1>2, <1>6, ControlExcept DEF Directive, Refuses
<1>7. CASE \E a \in Ages : d = MaxAge(a)
  <2>1. d.name = "max-age" /\ d # NoStore /\ d # NoCache /\ d # BadAge
    BY <1>7 DEF NoStore, NoCache, BadAge, MaxAge
  <2>2. Directive(d, c) = IF Refuses(d, c) THEN Refused ELSE [c EXCEPT !.max_age = d.age]
    BY <2>1, <1>2, <1>7 DEF Directive, Refuses
  <2>3. [c EXCEPT !.max_age = d.age] = [ok |-> c.ok, no_cache |-> c.no_cache,
          no_store |-> c.no_store, max_age |-> d.age, etag |-> c.etag]
    BY <1>2, ControlExcept
  <2> QED
    BY <2>1, <2>2, <2>3, <1>7
<1> QED
  BY <1>1, <1>3, <1>4, <1>5, <1>6, <1>7

\* What the first n directives leave in a Control, without the loop.
Among(ds, n, d) == \E i \in 1..n : ds[i] = d
ConflictAmong(ds, n) ==
  \E i \in 1..n :
    /\ ds[i] = NoStore
    /\ \/ Among(ds, n, NoCache)
       \/ AgeAfter(ds, i) > 0
       \/ \E j \in (i + 1)..n : ds[j].name \in {"max-age", "malformed"}
ReadAfter(ds, n) ==
  IF Among(ds, n, BadAge) \/ ConflictAmong(ds, n) THEN Refused
  ELSE [ok |-> TRUE, no_cache |-> Among(ds, n, NoCache), no_store |-> Among(ds, n, NoStore),
        max_age |-> AgeAfter(ds, n), etag |-> NoEtag]

\* One turn of the loop is one directive more of it.
LEMMA OneTurnMore ==
  ASSUME NEW ds \in Seq(Directives), NEW n \in Nat, n + 1 <= Len(ds), AgeAfter(ds, n) \in Nat
  PROVE  Directive(ds[n + 1], ReadAfter(ds, n)) = ReadAfter(ds, n + 1)
<1> DEFINE d == ds[n + 1]
<1>1. d \in Directives /\ \A i \in 1..n : ds[i] \in Directives
  OBVIOUS
<1>2. \A x : Among(ds, n + 1, x) <=> Among(ds, n, x) \/ d = x
  BY DEF Among
<1>3. AgeAfter(ds, n + 1) = IF d.name = "max-age" THEN d.age ELSE AgeAfter(ds, n)
  BY AgeAfterNext
<1>4. ASSUME NEW i \in 1..n
      PROVE  (\E j \in (i + 1)..(n + 1) : ds[j].name \in {"max-age", "malformed"}) <=>
             \/ \E j \in (i + 1)..n : ds[j].name \in {"max-age", "malformed"}
             \/ d.name \in {"max-age", "malformed"}
  OBVIOUS
<1>5. ConflictAmong(ds, n + 1) <=>
        \/ ConflictAmong(ds, n)
        \/ Among(ds, n, NoStore) /\ (d = NoCache \/ d.name \in {"max-age", "malformed"})
        \/ d = NoStore /\ (Among(ds, n, NoCache) \/ AgeAfter(ds, n) > 0)
  <2> DEFINE Reason(i, k) == \/ Among(ds, k, NoCache)
                             \/ AgeAfter(ds, i) > 0
                             \/ \E j \in (i + 1)..k : ds[j].name \in {"max-age", "malformed"}
  <2>1. \A k \in {n, n + 1} : ConflictAmong(ds, k) <=> \E i \in 1..k : ds[i] = NoStore /\ Reason(i, k)
    BY DEF ConflictAmong
  <2>2. \A i \in 1..n : Reason(i, n + 1) <=>
          Reason(i, n) \/ d = NoCache \/ d.name \in {"max-age", "malformed"}
    BY <1>2, <1>4
  <2>3. d = NoStore => (Reason(n + 1, n + 1) <=> Among(ds, n, NoCache) \/ AgeAfter(ds, n) > 0)
    BY <1>2, <1>3 DEF NoStore, NoCache
  <2> HIDE DEF Reason
  <2>4. ConflictAmong(ds, n + 1) <=>
          (\E i \in 1..n : ds[i] = NoStore /\ Reason(i, n + 1)) \/ (d = NoStore /\ Reason(n + 1, n + 1))
    BY <2>1
  <2> QED
    BY <2>1, <2>2, <2>3, <2>4 DEF Among
<1> DEFINE c == ReadAfter(ds, n)
<1>6. Refused.ok = FALSE /\ Refused \in Control
  BY DEF Refused, Default, Control
<1>7. CASE Among(ds, n, BadAge) \/ ConflictAmong(ds, n)
  <2>1. c = Refused /\ ReadAfter(ds, n + 1) = Refused
    BY <1>2, <1>5, <1>7 DEF ReadAfter
  <2> QED
    BY <2>1, <1>6 DEF Directive
<1>8. CASE ~Among(ds, n, BadAge) /\ ~ConflictAmong(ds, n)
  <2>1. c = [ok |-> TRUE, no_cache |-> Among(ds, n, NoCache), no_store |-> Among(ds, n, NoStore),
             max_age |-> AgeAfter(ds, n), etag |-> NoEtag]
    BY <1>8 DEF ReadAfter
  <2>2. ReadAfter(ds, n + 1) =
          IF d = BadAge \/ ConflictAmong(ds, n + 1) THEN Refused
          ELSE [ok |-> TRUE, no_cache |-> IF d = NoCache THEN TRUE ELSE Among(ds, n, NoCache),
                no_store |-> IF d = NoStore THEN TRUE ELSE Among(ds, n, NoStore),
                max_age |-> IF d.name = "max-age" THEN d.age ELSE AgeAfter(ds, n), etag |-> NoEtag]
    <3>1. Among(ds, n + 1, BadAge) \/ ConflictAmong(ds, n + 1) <=> d = BadAge \/ ConflictAmong(ds, n + 1)
      BY <1>2, <1>8
    <3>2. \A x : Among(ds, n + 1, x) = IF d = x THEN TRUE ELSE Among(ds, n, x)
      BY <1>2, Zenon DEF Among
    <3> QED
      BY <3>1, <3>2, <1>3, Zenon DEF ReadAfter
  <2>3. Among(ds, n, NoCache) \in BOOLEAN /\ Among(ds, n, NoStore) \in BOOLEAN
    BY DEF Among
  <2>4. c \in Control /\ c.ok
    BY <2>1, <2>3 DEF Control
  <2>5. Refuses(d, c) <=> d = BadAge \/ ConflictAmong(ds, n + 1)
    BY <2>1, <1>5, <1>8 DEF Refuses
  <2>6. /\ c.no_cache = Among(ds, n, NoCache) /\ c.no_store = Among(ds, n, NoStore)
        /\ c.max_age = AgeAfter(ds, n) /\ c.etag = NoEtag /\ c.ok = TRUE
    BY <2>1
  <2> HIDE DEF c
  <2>7. Directive(d, c) = ReadAfter(ds, n + 1)
    <3>1. Directive(d, c) =
            IF Refuses(d, c) THEN Refused
            ELSE [ok |-> c.ok, no_cache |-> IF d = NoCache THEN TRUE ELSE c.no_cache,
                  no_store |-> IF d = NoStore THEN TRUE ELSE c.no_store,
                  max_age |-> IF d.name = "max-age" THEN d.age ELSE c.max_age, etag |-> c.etag]
      BY <2>4, <1>1, Turn
    <3> HIDE DEF d
    <3>2. CASE Refuses(d, c)
      BY <3>1, <3>2, <2>2, <2>5
    <3>3. CASE ~Refuses(d, c)
      BY <3>1, <3>3, <2>2, <2>5, <2>6
    <3> QED
      BY <3>2, <3>3
  <2> QED
    BY <2>7 DEF c
<1> QED
  BY <1>7, <1>8
\* The loop computes that, and its max-age is a number, after any number of turns.
LEMMA LoopReadsAll ==
  ASSUME NEW ds \in Seq(Directives)
  PROVE  \A n \in 0..Len(ds) : AgeAfter(ds, n) \in Ages \cup {0} /\ After(ds)[n] = ReadAfter(ds, n)
<1> DEFINE N == Len(ds)
<1> DEFINE In == {n \in 0..N : AgeAfter(ds, n) \in Ages \cup {0} /\ After(ds)[n] = ReadAfter(ds, n)}
<1>1. N \in Nat /\ \A i \in 1..N : ds[i] \in Directives
  OBVIOUS
<1>2. 0 \in In
  <2>1. AgeAfter(ds, 0) = 0
    BY DEF AgeAfter
  <2>2. ReadAfter(ds, 0) = Default
    <3>1. ~Among(ds, 0, BadAge) /\ ~ConflictAmong(ds, 0)
      BY DEF Among, ConflictAmong
    <3>2. Among(ds, 0, NoCache) = FALSE /\ Among(ds, 0, NoStore) = FALSE
      BY DEF Among
    <3> QED
      BY <2>1, <3>1, <3>2 DEF ReadAfter, Default
  <2>3. After(ds)[0] = Default
    BY <1>1, AfterIs
  <2> QED
    BY <2>1, <2>2, <2>3, <1>1
<1>3. ASSUME NEW n \in 0..N, n # N, n \in In
      PROVE  n + 1 \in In
  <2>1. n \in Nat /\ n + 1 \in 1..N /\ (n + 1) - 1 = n
    BY <1>1, <1>3
  <2>2. AgeAfter(ds, n) \in Ages \cup {0} /\ After(ds)[n] = ReadAfter(ds, n)
    BY <1>3
  <2>3. ds[n + 1] \in Directives
    BY <1>1, <2>1
  <2>4. ds[n + 1].name = "max-age" => ds[n + 1].age \in Ages
    BY <2>3, AgeType
  <2>5. AgeAfter(ds, n + 1) \in Ages \cup {0}
    BY <2>1, <2>2, <2>4, AgeAfterNext
  <2>6. After(ds)[n + 1] = Directive(ds[n + 1], After(ds)[n])
    BY <2>1, AfterIs
  <2>7. After(ds)[n + 1] = ReadAfter(ds, n + 1)
    BY <2>1, <2>2, <2>6, OneTurnMore, AgesAreNat
  <2> QED
    BY <2>1, <2>5, <2>7
<1> HIDE DEF In, N
<1>4. 0..N \subseteq In
  BY <1>1, <1>2, <1>3, UpToN
<1> QED
  BY <1>4 DEF In, N

\* What the loop refuses is malformed, or has a no-store next to another directive.
LEMMA RefusedIsConflict ==
  ASSUME NEW ds \in Seq(Directives), ConflictAmong(ds, Len(ds)), ~Occurs(ds, BadAge)
  PROVE  StoreConflict(ds)
<1>1. Len(ds) \in Nat /\ DOMAIN ds = 1..Len(ds)
  OBVIOUS
<1>2. PICK i \in 1..Len(ds) :
        /\ ds[i] = NoStore
        /\ \/ Among(ds, Len(ds), NoCache)
           \/ AgeAfter(ds, i) > 0
           \/ \E j \in (i + 1)..Len(ds) : ds[j].name \in {"max-age", "malformed"}
  BY DEF ConflictAmong
<1>3. Occurs(ds, NoStore)
  BY <1>1, <1>2 DEF Occurs
<1>4. CASE Among(ds, Len(ds), NoCache)
  BY <1>1, <1>3, <1>4 DEF StoreConflict, Among
<1>5. CASE AgeAfter(ds, i) > 0
  <2>1. \E j \in 1..i : ds[j].name = "max-age"
    BY <1>5 DEF AgeAfter
  <2> QED
    BY <1>1, <1>2, <1>3, <2>1 DEF StoreConflict
<1>6. CASE \E j \in (i + 1)..Len(ds) : ds[j].name \in {"max-age", "malformed"}
  <2>1. PICK j \in (i + 1)..Len(ds) : ds[j].name \in {"max-age", "malformed"}
    BY <1>6
  <2>2. j \in DOMAIN ds /\ ds[j] \in Directives
    BY <1>1, <2>1
  <2>3. ds[j].name = "malformed" => ds[j] = BadAge
    BY <2>2 DEF Directives, NoStore, NoCache, BadAge, Unknown, Bytes, MaxAge
  <2>4. ds[j].name = "max-age"
    BY <2>1, <2>2, <2>3 DEF Occurs
  <2> QED
    BY <1>3, <2>2, <2>4 DEF StoreConflict
<1> QED
  BY <1>2, <1>4, <1>5, <1>6

\* A no-store the loop took next to another directive came after a max-age of zero.
LEMMA TakenIsUnseen ==
  ASSUME NEW ds \in Seq(Directives), ~ConflictAmong(ds, Len(ds)), StoreConflict(ds), ~Malformed(ds)
  PROVE  ZeroAgeUnseen(ds)
<1>1. Len(ds) \in Nat /\ DOMAIN ds = 1..Len(ds)
  OBVIOUS
<1>2. PICK i \in 1..Len(ds) : ds[i] = NoStore
  BY <1>1 DEF StoreConflict, Occurs
<1>3. /\ ~Among(ds, Len(ds), NoCache) /\ ~(AgeAfter(ds, i) > 0)
      /\ \A j \in (i + 1)..Len(ds) : ds[j].name \notin {"max-age", "malformed"}
  BY <1>2 DEF ConflictAmong
<1>4. AgeAfter(ds, i) \in Nat
  BY <1>1, <1>2, LoopReadsAll, AgesAreNat
<1>5. \A j \in DOMAIN ds : ds[j].name = "max-age" => j < i
  <2> SUFFICES ASSUME NEW j \in 1..Len(ds), ds[j].name = "max-age" PROVE j < i
    BY <1>1
  <2>1. j # i
    BY <1>2 DEF NoStore
  <2>2. ~(j > i)
    BY <1>1, <1>2, <1>3
  <2> QED
    BY <1>1, <1>2, <2>1, <2>2
<1>6. AgeAfter(ds, i) = 0 /\ ~Occurs(ds, NoCache)
  BY <1>1, <1>3, <1>4 DEF Occurs, Among
<1> QED
  BY <1>1, <1>2, <1>5, <1>6 DEF ZeroAgeUnseen

\* Control::try_from reads a Cache-Control header of any length as the documents
\* ask, but under no-cache, where it does not look at the etag, and for a max-age of
\* zero before no-store, which it does not see.
THEOREM ParseReadsAsAsked ==
  \A ds \in Seq(Directives), shape \in EtagShapes : ReadAsAsked(ds, shape, Parse(ds, shape))
<1> SUFFICES ASSUME NEW ds \in Seq(Directives), NEW shape \in EtagShapes
             PROVE  ReadAsAsked(ds, shape, Parse(ds, shape))
  OBVIOUS
<1> DEFINE N == Len(ds)
<1> DEFINE c == ReadAfter(ds, N)
<1> DEFINE r == Parse(ds, shape)
<1>1. N \in Nat /\ DOMAIN ds = 1..N
  OBVIOUS
<1>2. Refused.ok = FALSE
  BY DEF Refused, Default
<1>3. \A d : Occurs(ds, d) <=> Among(ds, N, d)
  BY <1>1 DEF Occurs, Among
<1>4. CASE ds = <<>> \/ Occurs(ds, Bytes)
  <2>1. Parse(ds, shape) = Refused /\ AsAsked(ds, shape) = Refused
    BY <1>4 DEF Parse, AsAsked, Malformed
  <2> QED
    BY <2>1, <1>2 DEF ReadAsAsked
<1>5. CASE ~(ds = <<>> \/ Occurs(ds, Bytes))
  <2>1. r = WithEtag(c, shape)
    BY <1>1, <1>5, LoopReadsAll DEF Parse
  <2>2. CASE Among(ds, N, BadAge) \/ ConflictAmong(ds, N)
    <3>1. r = Refused
      BY <2>1, <2>2, <1>2 DEF ReadAfter, WithEtag
    <3>2. Malformed(ds) \/ StoreConflict(ds)
      BY <1>3, <2>2, RefusedIsConflict DEF Malformed
    <3>3. AsAsked(ds, shape) = Refused
      BY <3>2 DEF AsAsked
    <3> QED
      BY <3>1, <3>3, <1>2 DEF ReadAsAsked
  <2>3. CASE ~Among(ds, N, BadAge) /\ ~ConflictAmong(ds, N)
    <3>1. c = [ok |-> TRUE, no_cache |-> Among(ds, N, NoCache), no_store |-> Among(ds, N, NoStore),
               max_age |-> AgeAfter(ds, N), etag |-> NoEtag]
      BY <2>3 DEF ReadAfter
    <3>2. /\ c.ok = TRUE /\ c.no_cache = Among(ds, N, NoCache) /\ c.no_store = Among(ds, N, NoStore)
          /\ c.max_age = AgeAfter(ds, N) /\ c.etag = NoEtag
      BY <3>1
    <3>3. /\ Among(ds, N, NoCache) \in BOOLEAN /\ Among(ds, N, NoStore) \in BOOLEAN
          /\ AgeAfter(ds, N) \in Nat
      BY <1>1, LoopReadsAll, AgesAreNat DEF Among
    <3>4. c \in Control
      BY <3>1, <3>3 DEF Control
    <3> DEFINE asked == [ok |-> TRUE, no_cache |-> Among(ds, N, NoCache), no_store |-> Among(ds, N, NoStore),
                         max_age |-> AgeAfter(ds, N), etag |-> IF Among(ds, N, NoStore) THEN NoEtag ELSE shape]
    <3>5. ~Malformed(ds)
      BY <1>3, <1>5, <2>3 DEF Malformed
    <3>6. AsAsked(ds, shape) =
            IF StoreConflict(ds) \/ (~Among(ds, N, NoStore) /\ shape \notin Etags) THEN Refused ELSE asked
      <4>1. Occurs(ds, NoCache) = Among(ds, N, NoCache) /\ Occurs(ds, NoStore) = Among(ds, N, NoStore)
        BY <1>3, Zenon DEF Occurs, Among
      <4>2. (~~Among(ds, N, NoStore)) = Among(ds, N, NoStore)
        BY Zenon DEF Among
      <4>3. (IF ~Among(ds, N, NoStore) THEN shape ELSE NoEtag) = (IF Among(ds, N, NoStore) THEN NoEtag ELSE shape)
        OBVIOUS
      <4>4. (Malformed(ds) \/ StoreConflict(ds) \/ (~Occurs(ds, NoStore) /\ shape \notin Etags))
              <=> StoreConflict(ds) \/ (~Among(ds, N, NoStore) /\ shape \notin Etags)
        BY <3>5, <4>1
      <4> QED
        BY <1>1, <4>1, <4>2, <4>3, <4>4, Zenon DEF AsAsked
    <3>7. asked.ok = TRUE
      OBVIOUS
    <3> HIDE DEF asked, r
    <3>8. CASE Among(ds, N, NoStore)
      <4>1. r = c
        BY <2>1, <3>2, <3>8 DEF WithEtag
      <4>2. CASE StoreConflict(ds)
        <5>1. ZeroAgeUnseen(ds)
          BY <2>3, <3>5, <4>2, TakenIsUnseen
        <5>2. AsAsked(ds, shape) = Refused /\ c.no_store
          BY <3>2, <3>6, <3>8, <4>2
        <5> QED
          BY <1>2, <3>2, <4>1, <5>1, <5>2 DEF ReadAsAsked, r
      <4>3. CASE ~StoreConflict(ds)
        <5>1. c = asked
          BY <3>1, <3>8 DEF asked
        <5>2. AsAsked(ds, shape) = asked
          BY <3>6, <3>8, <4>3
        <5> QED
          BY <3>7, <4>1, <5>1, <5>2 DEF ReadAsAsked, r
      <4> QED
        BY <4>2, <4>3
    <3>9. CASE ~Among(ds, N, NoStore)
      <4>1. ~StoreConflict(ds)
        BY <1>3, <3>9 DEF StoreConflict
      <4>2. CASE Among(ds, N, NoCache)
        <5>1. r = c
          BY <2>1, <3>2, <4>2 DEF WithEtag
        <5>2. EtagUnread(ds) /\ c.no_cache
          BY <1>3, <3>2, <3>5, <4>1, <4>2 DEF EtagUnread
        <5>3. CASE shape \in Etags
          <6>1. AsAsked(ds, shape) = asked
            BY <3>6, <4>1, <5>3
          <6>2. c = [asked EXCEPT !.etag = NoEtag]
            <7>1. asked = [ok |-> TRUE, no_cache |-> Among(ds, N, NoCache), no_store |-> Among(ds, N, NoStore),
                           max_age |-> AgeAfter(ds, N), etag |-> shape]
              BY <3>9 DEF asked
            <7>2. asked \in Control
              BY <7>1, <3>3, <5>3 DEF Control
            <7>3. [asked EXCEPT !.etag = NoEtag] =
                    [ok |-> asked.ok, no_cache |-> asked.no_cache, no_store |-> asked.no_store,
                     max_age |-> asked.max_age, etag |-> NoEtag]
              BY <7>2, ControlExcept
            <7>4. /\ asked.ok = TRUE /\ asked.no_cache = Among(ds, N, NoCache)
                  /\ asked.no_store = Among(ds, N, NoStore) /\ asked.max_age = AgeAfter(ds, N)
              BY <7>1
            <7> HIDE DEF c
            <7> QED
              BY <3>1, <7>3, <7>4
          <6> QED
            BY <3>7, <5>1, <5>2, <6>1, <6>2 DEF ReadAsAsked, r
        <5>4. CASE shape \notin Etags
          <6>1. AsAsked(ds, shape) = Refused
            BY <3>6, <3>9, <5>4
          <6> QED
            BY <1>2, <3>2, <5>1, <5>2, <6>1 DEF ReadAsAsked, r
        <5> QED
          BY <5>3, <5>4
      <4>3. CASE ~Among(ds, N, NoCache)
        <5>1. r = IF shape \in Etags THEN [c EXCEPT !.etag = shape] ELSE Refused
          BY <2>1, <3>2, <3>9, <4>3 DEF WithEtag
        <5>2. [c EXCEPT !.etag = shape] = asked
          <6> HIDE DEF c
          <6>1. [c EXCEPT !.etag = shape] =
                  [ok |-> c.ok, no_cache |-> c.no_cache, no_store |-> c.no_store, max_age |-> c.max_age,
                   etag |-> shape]
            BY <3>4, ControlExcept
          <6>2. asked = [ok |-> TRUE, no_cache |-> Among(ds, N, NoCache), no_store |-> Among(ds, N, NoStore),
                         max_age |-> AgeAfter(ds, N), etag |-> shape]
            BY <3>9 DEF asked
          <6> QED
            BY <3>2, <6>1, <6>2
        <5>3. AsAsked(ds, shape) = r
          BY <3>6, <3>9, <4>1, <5>1, <5>2
        <5> HIDE DEF c
        <5> QED
          BY <1>2, <3>7, <5>1, <5>2, <5>3 DEF ReadAsAsked, r
      <4> QED
        BY <4>2, <4>3
    <3> QED
      BY <3>8, <3>9
  <2> QED
    BY <2>2, <2>3
<1> QED
  BY <1>4, <1>5

\* The headers are parsed in one step, and nothing else is done with them.
LEMMA HeadersNext == SdkInv /\ HeadersReadAsAsked /\ [ANext]_avars => HeadersReadAsAsked'
<1> SUFFICES ASSUME SdkInv, HeadersReadAsAsked, [ANext]_avars PROVE HeadersReadAsAsked'
  OBVIOUS
<1>1. CASE UNCHANGED avars
  BY <1>1 DEF HeadersReadAsAsked, Ran, avars
<1>2. CASE ParseHeaders
  <2>1. PICK ds \in UNION {[1..n -> Directives] : n \in 0..MaxDirectives}, shape \in EtagShapes :
          /\ given' = [algorithm |-> "headers", in |-> [header |-> ds, etag |-> shape]]
          /\ result' = Parse(ds, shape)
    BY <1>2 DEF ParseHeaders, Run
  <2>3. PICK n \in 0..MaxDirectives : ds \in [1..n -> Directives]
    BY <2>1
  <2>4. n \in Nat
    BY <2>3
  <2>5. ds \in Seq(Directives)
    BY <2>3, <2>4
  <2>2. given'.in.header = ds /\ given'.in.etag = shape
    BY <2>1
  <2> QED
    BY <2>1, <2>2, <2>5, ParseReadsAsAsked DEF HeadersReadAsAsked
<1>3. CASE OneStep /\ ~ParseHeaders
  BY <1>3, WhichRan DEF OneStep, Ran, HeadersReadAsAsked
<1>4. CASE RequestStep
  BY <1>4, RequestKept, UnderwayRan DEF HeadersReadAsAsked, Ran
<1> QED
  BY <1>1, <1>2, <1>3, <1>4 DEF ANext, OneStep, RequestStep

\* Whatever the headers, they are read as the documents ask, but for the two named
\* cases.
THEOREM AlwaysReadsAsAsked == ASpec => []HeadersReadAsAsked
<1>1. AInit => HeadersReadAsAsked
  BY DEF AInit, Unstarted, HeadersReadAsAsked, Ran
<1> QED
  BY <1>1, SdkAlways, HeadersNext, PTL DEF ASpec

-----------------------------------------------------------------------------
(* What the searches of sequences find.                                      *)

\* A nonempty set of numbers has the least one it is asked for.
LEMMA LeastOf ==
  ASSUME NEW Set \in SUBSET Nat, Set # {}
  PROVE  Min(Set) \in Set /\ \A n \in Set : Min(Set) <= n
BY LeastNumber DEF Min

\* A nonempty set of numbers up to N has the greatest one it is asked for.
LEMMA GreatestOf ==
  ASSUME NEW N \in Nat, NEW Set \in SUBSET (1..N), Set # {}
  PROVE  Max(Set) \in Set /\ \A n \in Set : n <= Max(Set)
<1> DEFINE Away == {N - n : n \in Set}
<1>1. Away \in SUBSET Nat /\ Away # {}
  <2>1. \A n \in Set : N - n \in Nat
    OBVIOUS
  <2>2. PICK n \in Set : TRUE
    OBVIOUS
  <2>3. N - n \in Away
    BY <2>2
  <2> QED
    BY <2>1, <2>3
<1>2. PICK a \in Away : \A m \in Away : a <= m
  BY <1>1, LeastNumber
<1>3. PICK g \in Set : a = N - g
  BY <1>2
<1>4. ASSUME NEW n \in Set PROVE n <= g
  <2>1. N - n \in Away
    OBVIOUS
  <2>2. a <= N - n
    BY <1>2, <2>1
  <2> QED
    BY <2>2, <1>3
<1>5. \E x \in Set : \A y \in Set : x >= y
  BY <1>3, <1>4
<1> QED
  BY <1>5 DEF Max

-----------------------------------------------------------------------------
(* The topics of a guest.                                                    *)

\* Every text holds itself.
LEMMA HasItself == ASSUME NEW t \in Seq(Letters) PROVE G!HasText(t, t)
<1>1. SubSeq(t, 0 + 1, 0 + Len(t)) = t /\ 0 \in 0..(Len(t) - Len(t))
  OBVIOUS
<1> QED
  BY <1>1 DEF G!HasText

\* A topic goes to the first arm whose pattern it holds.
LEMMA FirstArm ==
  ASSUME NEW ps \in Seq(Topics), NEW t, NEW i \in 1..Len(ps)
  PROVE  G!Arm(ps, t) = i <=>
           G!HasText(t, ps[i]) /\ \A j \in 1..(i - 1) : ~G!HasText(t, ps[j])
<1> DEFINE Arms == {k \in 1..Len(ps) : G!HasText(t, ps[k])}
<1>1. G!Arm(ps, t) = IF Arms # {} THEN Min(Arms) ELSE 0
  BY DEF G!Arm, G!SelectInSeq, G!Min, Min
<1>2. Arms # {} => Min(Arms) \in Arms /\ \A k \in Arms : Min(Arms) <= k
  <2>1. Arms \in SUBSET Nat
    OBVIOUS
  <2> HIDE DEF Arms
  <2> QED
    BY <2>1, LeastOf
<1>3. ASSUME G!Arm(ps, t) = i
      PROVE  G!HasText(t, ps[i]) /\ \A j \in 1..(i - 1) : ~G!HasText(t, ps[j])
  <2>1. Arms # {} /\ Min(Arms) = i
    BY <1>1, <1>3
  <2> QED
    BY <1>2, <2>1
<1>4. ASSUME G!HasText(t, ps[i]), \A j \in 1..(i - 1) : ~G!HasText(t, ps[j])
      PROVE  G!Arm(ps, t) = i
  <2>1. i \in Arms
    BY <1>4
  <2>2. Min(Arms) \in 1..Len(ps) /\ G!HasText(t, ps[Min(Arms)]) /\ Min(Arms) <= i
    BY <1>2, <2>1
  <2>3. Min(Arms) \notin 1..(i - 1)
    BY <1>4, <2>2
  <2>4. Min(Arms) = i
    BY <2>2, <2>3
  <2> QED
    BY <1>1, <2>1, <2>4
<1> QED
  BY <1>3, <1>4

\* An arm whose pattern holds no earlier one is reached by its own topic.
LEMMA TopicsReached ==
  ASSUME NEW ps \in PatternLists
  PROVE  TopicsAreReached(ps, [t \in Topics |-> G!Arm(ps, t)])
<1> DEFINE arms == [t \in Topics |-> G!Arm(ps, t)]
<1>1. ps \in Seq(Topics) /\ DOMAIN ps = 1..Len(ps)
  BY GuestAssumption
<1>2. \A k \in 1..Len(ps) : ps[k] \in Topics /\ ps[k] \in Seq(Letters)
  BY <1>1, GuestAssumption
<1>4. ASSUME NEW i \in 1..Len(ps), \A j \in 1..(i - 1) : ~G!HasText(ps[i], ps[j])
      PROVE  ps[i] \in Topics /\ arms[ps[i]] = i
  <2>1. G!Arm(ps, ps[i]) = i
    BY <1>1, <1>2, <1>4, HasItself, FirstArm
  <2> QED
    BY <1>2, <2>1
<1> HIDE DEF arms
<1>6. TopicsAreReached(ps, arms)
  BY <1>1, <1>4 DEF TopicsAreReached
<1> QED
  BY <1>6 DEF arms

-----------------------------------------------------------------------------
(* The routes of a guest.                                                    *)

RouteType(route) == route.method \in {"get", "post"} /\ route.with \in {"none", "query", "body"}

\* The routes of a guest have the methods and options that routes have.
LEMMA RoutesOf ==
  ASSUME NEW s \in GuestSettings
  PROVE  \A i \in DOMAIN G!Config(s).http : RouteType(G!Config(s).http[i])
<1> DEFINE Lists == {i \in 1..Len(s) : s[i].name = "http"}
<1>1. G!Config(s).http = IF (IF Lists # {} THEN Max(Lists) ELSE 0) = 0 THEN <<>>
                         ELSE s[IF Lists # {} THEN Max(Lists) ELSE 0].value
  BY DEF G!Config, G!SelectLastInSeq, G!Max, Max
<1>2. s \in Seq(Range(s))
  BY GuestAssumption
<1>3. Len(s) \in Nat /\ DOMAIN s = 1..Len(s)
  BY <1>2
<1>4. CASE Lists = {}
  BY <1>1, <1>4
<1>5. CASE Lists # {}
  <2>1. Lists \in SUBSET (1..Len(s))
    OBVIOUS
  <2>2. Max(Lists) \in Lists
    <3> HIDE DEF Lists
    <3> QED
      BY <1>3, <1>5, <2>1, GreatestOf
  <2>3. PICK m : m = Max(Lists) /\ m \in Lists
    BY <2>2
  <2>6. m \in DOMAIN s /\ m # 0 /\ s[m].name = "http"
    BY <1>3, <2>3
  <2>4. G!Config(s).http = s[m].value
    BY <1>1, <1>5, <2>3, <2>6
  <2>5. \A j \in DOMAIN s[m].value : RouteType(s[m].value[j])
    BY <2>6, GuestAssumption DEF RouteType
  <2> QED
    BY <2>4, <2>5
<1> QED
  BY <1>4, <1>5

\* In a guest that compiles a function takes what its route declares.
LEMMA GuestExpands ==
  ASSUME NEW s \in GuestSettings
  PROVE  GuestIsFaithful(G!Config(s))
<1> PICK routes : routes = G!Config(s).http
  OBVIOUS
<1>1. SUFFICES ASSUME G!CompilesHttp(routes), NEW i \in DOMAIN routes
      PROVE  LET r == routes[i]
                 params == G!Params(r.path) IN
             /\ r.with = "body" => G!Input(r) = [kind |-> "body"]
             /\ r.with = "query" /\ params = <<>> => G!Input(r) = [kind |-> "query"]
             /\ r.method = "get" /\ params # <<>> => G!Input(r) = [kind |-> "params", names |-> params]
  BY DEF GuestIsFaithful, G!Compiles
<1> PICK r : r = routes[i]
  OBVIOUS
<1>2. RouteType(r)
  BY RoutesOf
<1>3. G!Accepted(r)
  BY <1>1 DEF G!CompilesHttp
<1>4. r.with = "body" => r.method = "post"
  BY <1>2, <1>3 DEF G!Accepted, RouteType
<1>5. r.with = "query" => r.method = "get"
  BY <1>2, <1>3 DEF G!Accepted, RouteType
<1>6. r.with = "body" => G!Input(r) = [kind |-> "body"]
  BY <1>4 DEF G!Input
<1>7. r.with = "query" /\ G!Params(r.path) = <<>> => G!Input(r) = [kind |-> "query"]
  BY <1>5 DEF G!Input
<1>8. r.method = "get" /\ G!Params(r.path) # <<>>
        => G!Input(r) = [kind |-> "params", names |-> G!Params(r.path)]
  BY DEF G!Input
<1> QED
  BY <1>6, <1>7, <1>8

-----------------------------------------------------------------------------
(* The hosts of a runtime.                                                   *)

\* The backends a list keeps, told apart by their identifiers.
Path(hosts, i) == hosts[i].backend
Ident(hosts, i) == R!GetIdent(Path(hosts, i))
Kept(hosts) ==
  {i \in DOMAIN hosts : \A j \in DOMAIN hosts : Ident(hosts, j) = Ident(hosts, i) => i <= j}

\* The hosts of a deployment are deployable, the absent ones too.
LEMMA HostsOf == ASSUME NEW s \in RuntimeSettings PROVE Deployable(R!Parsed(s).hosts)
<1> DEFINE Lists == {i \in 1..Len(s) : "hosts" \in DOMAIN s[i]}
<1>1. R!Parsed(s).hosts = IF (IF Lists # {} THEN Max(Lists) ELSE 0) = 0 THEN <<>>
                          ELSE s[IF Lists # {} THEN Max(Lists) ELSE 0]["hosts"]
  BY DEF R!Parsed, R!Setting, R!SelectLastInSeq, R!Max, Max
<1>2. s \in Seq(Range(s))
  BY RuntimeAssumption
<1>3. Len(s) \in Nat /\ DOMAIN s = 1..Len(s)
  BY <1>2
<1>4. CASE Lists = {}
  <2>1. R!Parsed(s).hosts = <<>>
    BY <1>1, <1>4
  <2>2. Deployable(<<>>)
    BY DEF Deployable, Range
  <2> QED
    BY <2>1, <2>2
<1>5. CASE Lists # {}
  <2>1. Lists \in SUBSET (1..Len(s))
    OBVIOUS
  <2>2. Max(Lists) \in Lists
    <3> HIDE DEF Lists
    <3> QED
      BY <1>3, <1>5, <2>1, GreatestOf
  <2>3. PICK m : m = Max(Lists) /\ m \in Lists
    BY <2>2
  <2>4. m \in DOMAIN s /\ m # 0 /\ "hosts" \in DOMAIN s[m]
    BY <1>3, <2>3
  <2>5. R!Parsed(s).hosts = s[m].hosts
    BY <1>1, <1>5, <2>3, <2>4
  <2> QED
    BY <2>4, <2>5, RuntimeAssumption
<1> QED
  BY <1>4, <1>5

\* Of a deployable list, every identifier is first met somewhere.
LEMMA FirstMet ==
  ASSUME NEW hosts, Deployable(hosts), NEW i \in DOMAIN hosts
  PROVE  \E k \in Kept(hosts) : Ident(hosts, k) = Ident(hosts, i)
<1> DEFINE Same == {j \in DOMAIN hosts : Ident(hosts, j) = Ident(hosts, i)}
<1>1. DOMAIN hosts \subseteq Nat
  BY DEF Deployable
<1>2. Same \in SUBSET Nat /\ i \in Same
  BY <1>1
<1>3. \A j : j \in Same <=> j \in DOMAIN hosts /\ Ident(hosts, j) = Ident(hosts, i)
  OBVIOUS
<1> HIDE DEF Same
<1>4. PICK k \in Same : \A j \in Same : k <= j
  BY <1>2, LeastNumber
<1> QED
  BY <1>3, <1>4 DEF Kept

\* Two places that are kept have identifiers of their own.
LEMMA KeptApart ==
  ASSUME NEW hosts, Deployable(hosts), NEW i \in Kept(hosts), NEW j \in Kept(hosts),
         Ident(hosts, i) = Ident(hosts, j)
  PROVE  i = j
<1>1. i \in DOMAIN hosts /\ j \in DOMAIN hosts /\ i <= j /\ j <= i
  BY DEF Kept
<1>2. i \in Nat /\ j \in Nat
  BY <1>1 DEF Deployable
<1> QED
  BY <1>1, <1>2

\* A path of one segment is known by its identifier.
LEMMA IdentIs ==
  ASSUME NEW hosts, Deployable(hosts), NEW i \in DOMAIN hosts, Len(Path(hosts, i)) = 1
  PROVE  Path(hosts, i) = <<Ident(hosts, i)>> /\ Last(Path(hosts, i)) = Ident(hosts, i)
<1> PICK p : p = Path(hosts, i)
  OBVIOUS
<1>1. p \in Seq(Identifiers) /\ Len(p) = 1
  BY DEF Deployable, Path
<1>2. Ident(hosts, i) = p[1]
  BY <1>1 DEF Ident, R!GetIdent
<1>3. DOMAIN p = 1..1 /\ p = [k \in 1..1 |-> p[k]]
  BY <1>1
<1>4. p = [k \in 1..1 |-> p[1]]
  BY <1>3
<1> QED
  BY <1>1, <1>2, <1>4 DEF Last

\* The fields of the context are those of the backends kept.
LEMMA ContextIs ==
  ASSUME NEW hosts, Deployable(hosts)
  PROVE  R!ContextFields(R!Backends(hosts)) =
           [i \in Kept(hosts) |-> [field |-> Last(Path(hosts, i)), path |-> Path(hosts, i)]]
<1> DEFINE B == [i \in Kept(hosts) |-> Path(hosts, i)]
<1>1. R!Backends(hosts) = B
  BY DEF R!Backends, R!Firsts, Kept, Ident, Path
<1>2. R!Firsts(B, LAMBDA b : b) = Kept(hosts)
  <2>1. R!Firsts(B, LAMBDA b : b) = {i \in DOMAIN B : \A j \in DOMAIN B : B[j] = B[i] => i <= j}
    BY DEF R!Firsts
  <2>2. ASSUME NEW i \in Kept(hosts), NEW j \in Kept(hosts), B[j] = B[i] PROVE i <= j
    <3>1. Ident(hosts, i) = Ident(hosts, j)
      BY <2>2 DEF Ident
    <3>2. i = j
      BY <3>1, KeptApart
    <3>3. i \in Nat
      BY DEF Kept, Deployable
    <3> QED
      BY <3>2, <3>3
  <2>3. DOMAIN B = Kept(hosts)
    OBVIOUS
  <2> QED
    BY <2>1, <2>2, <2>3
<1>3. R!ContextFields(B) = [i \in R!Firsts(B, LAMBDA b : b) |-> [field |-> R!FieldIdent(B[i]), path |-> B[i]]]
  BY DEF R!ContextFields
<1>4. \A i \in Kept(hosts) : R!FieldIdent(B[i]) = Last(Path(hosts, i)) /\ B[i] = Path(hosts, i)
  BY DEF R!FieldIdent, R!Last, Last
<1> HIDE DEF B
<1> QED
  BY <1>1, <1>2, <1>3, <1>4

\* Plainly named hosts compile, with one field for each backend.
LEMMA RuntimeExpands ==
  ASSUME NEW s \in RuntimeSettings
  PROVE  RuntimeIsFaithful(R!Parsed(s).hosts, R!Expand(s))
<1> PICK hosts : hosts = R!Parsed(s).hosts
  OBVIOUS
<1>1. Deployable(hosts)
  BY HostsOf
<1> PICK x : x = R!Expand(s)
  OBVIOUS
<1>2. x.context = R!ContextFields(R!Backends(hosts)) /\ x.store = R!StoreFields(hosts)
  BY DEF R!Expand
<1>3. SUFFICES ASSUME PlainlyNamed(hosts) PROVE RuntimeIsFaithful(hosts, x)
  BY DEF RuntimeIsFaithful
<1> DEFINE K == Kept(hosts)
           P(i) == Path(hosts, i)
<1>4. \A i \in DOMAIN hosts : P(i) = <<Ident(hosts, i)>> /\ Last(P(i)) = Ident(hosts, i)
  BY <1>1, <1>3, IdentIs DEF PlainlyNamed, Path
<1>5. DOMAIN x.context = K /\ \A i \in K : x.context[i].field = Last(P(i)) /\ x.context[i].path = P(i)
  BY <1>1, <1>2, ContextIs
<1>6. /\ DOMAIN x.store = DOMAIN hosts
      /\ \A i \in DOMAIN hosts : /\ x.store[i].field = R!WasiIdent(hosts[i].type_)
                                 /\ x.store[i].path = P(i) /\ x.store[i].from = Last(P(i))
  BY <1>2 DEF R!StoreFields, R!FieldIdent, R!Last, Last, Path
<1>7. \A i \in K : i \in DOMAIN hosts
  BY DEF Kept
<1>8. \A i, j \in K : Ident(hosts, i) = Ident(hosts, j) => i = j
  BY <1>1, KeptApart
<1>9. \A i \in DOMAIN hosts : \E k \in K : Ident(hosts, k) = Ident(hosts, i)
  BY <1>1, FirstMet
<1>10. \A i \in DOMAIN hosts : hosts[i].backend = P(i)
  BY DEF Path
<1> HIDE DEF K, P
<1>11. R!NoTwo(x.context, LAMBDA f : f.field)
  BY <1>4, <1>5, <1>7, <1>8 DEF R!NoTwo
<1>12. R!NoTwo(x.store, LAMBDA f : f.field)
  BY <1>3, <1>6 DEF PlainlyNamed, R!NoTwo
<1>13. ASSUME NEW i \in DOMAIN hosts
       PROVE  \E k \in K : /\ P(k) = P(i) /\ Last(P(k)) = Last(P(i))
                           /\ {j \in K : P(j) = P(i)} = {k}
  <2>1. PICK k \in K : Ident(hosts, k) = Ident(hosts, i)
    BY <1>9
  <2>2. k \in DOMAIN hosts
    BY <1>7
  <2>3. P(k) = P(i) /\ Last(P(k)) = Last(P(i))
    BY <1>4, <2>1, <2>2
  <2>4. ASSUME NEW j \in K, P(j) = P(i) PROVE j = k
    <3>1. j \in DOMAIN hosts /\ <<Ident(hosts, j)>> = <<Ident(hosts, k)>>
      BY <1>4, <1>7, <2>2, <2>3, <2>4
    <3>2. Ident(hosts, j) = Ident(hosts, k)
      BY <3>1
    <3> QED
      BY <1>8, <3>2
  <2> QED
    BY <2>3, <2>4
<1>14. R!Compiles(x)
  <2>1. ASSUME NEW i \in DOMAIN x.store
        PROVE  \E j \in DOMAIN x.context :
                 /\ x.context[j].field = x.store[i].from
                 /\ Denotes(x.context[j].path) = Denotes(x.store[i].path)
    BY <1>5, <1>6, <1>13
  <2> QED
    BY <1>11, <1>12, <2>1 DEF R!Compiles
<1>15. ASSUME NEW i \in DOMAIN hosts
       PROVE  \E k \in DOMAIN x.context :
                /\ {j \in DOMAIN x.context : x.context[j].path = hosts[i].backend} = {k}
                /\ x.store[i].from = x.context[k].field
  <2>1. PICK k \in K : /\ P(k) = P(i) /\ Last(P(k)) = Last(P(i))
                       /\ {j \in K : P(j) = P(i)} = {k}
    BY <1>13
  <2>2. {j \in DOMAIN x.context : x.context[j].path = hosts[i].backend} = {j \in K : P(j) = P(i)}
    BY <1>5, <1>10
  <2> QED
    BY <1>5, <1>6, <2>1, <2>2
<1>16. \A k \in DOMAIN x.context : \E i \in DOMAIN hosts : hosts[i].backend = x.context[k].path
  BY <1>5, <1>7, <1>10
<1> QED
  BY <1>14, <1>15, <1>16 DEF RuntimeIsFaithful

-----------------------------------------------------------------------------

\* The macros expand in one step, and nothing else is done with what they expand to.
LEMMA ExpandsNext == SdkInv /\ ExpansionsAreFaithful /\ [ANext]_avars => ExpansionsAreFaithful'
<1> SUFFICES ASSUME SdkInv, ExpansionsAreFaithful, [ANext]_avars PROVE ExpansionsAreFaithful'
  OBVIOUS
<1>1. CASE UNCHANGED avars
  BY <1>1 DEF ExpansionsAreFaithful, Ran, avars
<1>2. CASE ExpandRuntime
  <2>1. PICK s \in RuntimeSettings : given' = [algorithm |-> "runtime", in |-> s] /\ result' = R!Expand(s)
    BY <1>2 DEF ExpandRuntime, Run
  <2>2. given'.in = s /\ given'.algorithm = "runtime"
    BY <2>1
  <2> QED
    BY <2>1, <2>2, RuntimeExpands DEF ExpansionsAreFaithful, Ran
<1>3. CASE ExpandGuest
  <2>1. PICK s \in GuestSettings : given' = [algorithm |-> "guest", in |-> s] /\ result' = G!Config(s)
    BY <1>3 DEF ExpandGuest, Run
  <2>2. given'.algorithm = "guest"
    BY <2>1
  <2> QED
    BY <2>1, <2>2, GuestExpands DEF ExpansionsAreFaithful, Ran
<1>4. CASE MatchTopic
  <2>1. PICK ps \in PatternLists :
          given' = [algorithm |-> "topics", in |-> ps] /\ result' = [t \in Topics |-> G!Arm(ps, t)]
    BY <1>4 DEF MatchTopic, Run
  <2>2. given'.in = ps /\ given'.algorithm = "topics"
    BY <2>1
  <2> QED
    BY <2>1, <2>2, TopicsReached DEF ExpansionsAreFaithful, Ran
<1>5. CASE OneStep /\ ~(ExpandRuntime \/ ExpandGuest \/ MatchTopic)
  BY <1>5, WhichRan DEF OneStep, Ran, ExpansionsAreFaithful
<1>6. CASE RequestStep
  BY <1>6, RequestKept, UnderwayRan DEF ExpansionsAreFaithful, Ran
<1> QED
  BY <1>1, <1>2, <1>3, <1>4, <1>5, <1>6 DEF ANext, OneStep, RequestStep

\* Whatever is deployed, routed or subscribed to: plainly named hosts get their backends,
\* handlers what they ask for, and topics their handlers unless an earlier one lies inside.
THEOREM AlwaysExpandsFaithfully == ASpec => []ExpansionsAreFaithful
<1>1. AInit => ExpansionsAreFaithful
  BY DEF AInit, Unstarted, ExpansionsAreFaithful, Ran
<1> QED
  BY <1>1, SdkAlways, ExpandsNext, PTL DEF ASpec

-----------------------------------------------------------------------------
(* Numbers.                                                                  *)

\* What division by two leaves.
LEMMA Halving == ASSUME NEW h \in Nat PROVE h \div 2 \in Nat /\ h % 2 \in {0, 1} /\ h = 2 * (h \div 2) + (h % 2)
OBVIOUS

\* The whole part of a number, in halves.
LEMMA TruncIs ==
  ASSUME NEW h \in Int
  PROVE  /\ T!Trunc(h) \in Int
         /\ (2 * T!Trunc(h) = h) <=> (h % 2 = 0)
         /\ h >= 0 => T!Trunc(h) >= 0 /\ 2 * T!Trunc(h) <= h /\ h <= 2 * T!Trunc(h) + 1
         /\ h < 0 => T!Trunc(h) <= 0 /\ h <= 2 * T!Trunc(h) /\ 2 * T!Trunc(h) - 1 <= h
<1>1. CASE h >= 0
  <2>1. T!Trunc(h) = h \div 2
    BY <1>1 DEF T!Trunc
  <2> QED
    BY <1>1, <2>1, Halving
<1>2. CASE h < 0
  <2>1. T!Trunc(h) = -((-h) \div 2)
    BY <1>2 DEF T!Trunc
  <2>2. -h \in Nat
    BY <1>2
  <2>3. PICK k \in Nat : k = (-h) \div 2 /\ (-h = 2 * k \/ -h = 2 * k + 1)
    BY <2>2, Halving
  <2>4. h % 2 = 0 <=> h = 2 * (-k)
    BY <2>3
  <2> QED
    BY <1>2, <2>1, <2>3, <2>4
<1> QED
  BY <1>1, <1>2

\* The variant a number goes into.
LEMMA DataValueIs ==
  ASSUME NEW h \in Number
  PROVE  \/ /\ ~Beyond(h) /\ h \in Int /\ h > -2 /\ T!DataValue(h) = [as |-> "u64", val |-> T!Trunc(h)]
         \/ /\ ~Beyond(h) /\ h \in Int /\ h <= -2 /\ T!DataValue(h) = [as |-> "s64", val |-> T!Trunc(h)]
         \/ Beyond(h) /\ T!DataValue(h) = [as |-> "f64", val |-> h]
<1>1. Half \in Nat /\ NaN \notin Int
  BY NumberAssumption
<1>2. CASE h = NaN
  BY <1>2 DEF T!DataValue, Beyond
<1>3. CASE h \in Int
  <2>1. h # NaN
    BY <1>1, <1>3
  <2>2. CASE h > -2 /\ h < 4 * Half
    <3>1. ~(h >= 4 * Half) /\ ~(h < -2 * Half) /\ ~(h <= -2)
      BY <1>1, <1>3, <2>2, NumberAssumption
    <3>2. ~Beyond(h)
      BY <2>1, <3>1 DEF Beyond
    <3>3. T!DataValue(h) = [as |-> "u64", val |-> T!Trunc(h)]
      BY <2>1, <2>2, <3>1 DEF T!DataValue
    <3> QED
      BY <1>3, <2>2, <3>2, <3>3
  <2>3. CASE h <= -2 /\ h >= -2 * Half
    <3>1. ~(h >= 4 * Half) /\ ~(h < -2 * Half) /\ ~(h > -2)
      BY <1>1, <1>3, <2>3, NumberAssumption
    <3>2. ~Beyond(h)
      BY <2>1, <3>1 DEF Beyond
    <3>3. T!DataValue(h) = [as |-> "s64", val |-> T!Trunc(h)]
      BY <2>1, <2>3, <3>1 DEF T!DataValue
    <3> QED
      BY <1>3, <2>3, <3>2, <3>3
  <2>4. CASE ~(h > -2 /\ h < 4 * Half) /\ ~(h <= -2 /\ h >= -2 * Half)
    <3>1. Beyond(h)
      BY <1>1, <1>3, <2>4, NumberAssumption DEF Beyond
    <3>2. T!DataValue(h) = [as |-> "f64", val |-> h]
      BY <2>1, <2>4 DEF T!DataValue
    <3> QED
      BY <3>1, <3>2
  <2> QED
    BY <2>2, <2>3, <2>4
<1> QED
  BY <1>2, <1>3 DEF Number

\* Twice the whole part is the number, or next to it.
LEMMA TruncIsNear ==
  ASSUME NEW h \in Int, ~Beyond(h)
  PROVE  T!Trunc(h) \in Int /\ Near(h, 2 * T!Trunc(h))
<1>1. PICK t \in Int : t = T!Trunc(h)
  BY TruncIs
<1>2. /\ (2 * t = h) <=> (h % 2 = 0)
      /\ h >= 0 => t >= 0 /\ 2 * t <= h /\ h <= 2 * t + 1
      /\ h < 0 => t <= 0 /\ h <= 2 * t /\ 2 * t - 1 <= h
  BY <1>1, TruncIs
<1>3. 2 * t \in (h - 1)..(h + 1)
  BY <1>2
<1> QED
  BY <1>1, <1>2, <1>3 DEF Near

\* A number arrives if it is an i64 or beyond both integers, at most without its
\* fraction.
LEMMA NumberReturns ==
  ASSUME NEW h \in Number
  PROVE  SameNumber(h, T!NumberValue(T!DataValue(h)))
<1>1. Half \in Nat \ {0}
  BY NumberAssumption
<1>2. CASE /\ ~Beyond(h) /\ h \in Int /\ h > -2
           /\ T!DataValue(h) = [as |-> "u64", val |-> T!Trunc(h)]
  <2>1. PICK t \in Int : t = T!Trunc(h)
    BY <1>2, TruncIs
  <2>2. T!NumberValue(T!DataValue(h)) = [as |-> "int", val |-> IF t >= Half THEN t - 2 * Half ELSE t]
    BY <1>2, <2>1 DEF T!NumberValue
  <2>3. CASE t >= Half
    <3>1. h >= 0 => 2 * t <= h
      BY <1>2, <2>1, TruncIs
    <3>2. h < 0 => t <= 0
      BY <1>2, <2>1, TruncIs
    <3>3. ~(h < 2 * Half)
      BY <1>1, <1>2, <2>3, <3>1, <3>2
    <3> QED
      BY <1>2, <3>3 DEF SameNumber
  <2>4. CASE ~(t >= Half)
    <3>1. T!NumberValue(T!DataValue(h)) = [as |-> "int", val |-> t]
      BY <2>2, <2>4
    <3>2. Halves(T!NumberValue(T!DataValue(h))) = 2 * t
      BY <3>1 DEF Halves
    <3> QED
      BY <1>2, <2>1, <3>1, <3>2, TruncIsNear DEF SameNumber
  <2> QED
    BY <2>3, <2>4
<1>3. CASE /\ ~Beyond(h) /\ h \in Int /\ h <= -2
           /\ T!DataValue(h) = [as |-> "s64", val |-> T!Trunc(h)]
  <2>1. PICK t \in Int : t = T!Trunc(h)
    BY <1>3, TruncIs
  <2>2. T!NumberValue(T!DataValue(h)) = [as |-> "int", val |-> t]
    BY <1>3, <2>1 DEF T!NumberValue
  <2>3. Halves(T!NumberValue(T!DataValue(h))) = 2 * t
    BY <2>2 DEF Halves
  <2> QED
    BY <1>3, <2>1, <2>2, <2>3, TruncIsNear DEF SameNumber
<1>4. CASE Beyond(h) /\ T!DataValue(h) = [as |-> "f64", val |-> h]
  <2>1. T!NumberValue(T!DataValue(h)) = [as |-> "double", val |-> h]
    BY <1>4 DEF T!NumberValue
  <2>2. Halves(T!NumberValue(T!DataValue(h))) = h
    BY <2>1 DEF Halves
  <2> QED
    BY <1>4, <2>1, <2>2 DEF SameNumber, Near
<1> QED
  BY <1>2, <1>3, <1>4, DataValueIs

\* As an f64 it arrives at most without its fraction.
LEMMA DoubleReturns ==
  ASSUME NEW h \in Number
  PROVE  SameDouble(h, T!Double(T!DataValue(h)))
<1>1. h # None
  BY NumberAssumption DEF Number
<1>2. CASE h \in Int /\ ~Beyond(h) /\ T!DataValue(h).as # "f64" /\ T!DataValue(h).val = T!Trunc(h)
  <2>1. T!Double(T!DataValue(h)) = 2 * T!Trunc(h)
    BY <1>2 DEF T!Double
  <2> QED
    BY <1>1, <1>2, <2>1, TruncIsNear DEF SameDouble
<1>3. CASE Beyond(h) /\ T!DataValue(h) = [as |-> "f64", val |-> h]
  <2>1. T!Double(T!DataValue(h)) = h
    BY <1>3 DEF T!Double
  <2> QED
    BY <1>1, <1>3, <2>1 DEF SameDouble, Near
<1> QED
  BY <1>2, <1>3, DataValueIs

\* An absent minimum or maximum stays absent.
LEMMA OptionalReturns ==
  ASSUME NEW h \in Number \cup {None}
  PROVE  SameDouble(h, T!Optional(T!Optional(h, T!DataValue), T!Double))
<1>1. CASE h = None
  BY <1>1 DEF T!Optional, SameDouble
<1>2. CASE h # None
  <2>1. T!DataValue(h) \in [as: {"u64", "s64", "f64"}, val: Int \cup {NaN}]
    <3>1. h \in Number
      BY <1>2
    <3>2. h \in Int => T!Trunc(h) \in Int
      BY TruncIs
    <3> QED
      BY <3>1, <3>2, DataValueIs DEF Number
  <2>2. T!DataValue(h) # None
    BY <2>1, NumberAssumption
  <2>3. T!Optional(T!Optional(h, T!DataValue), T!Double) = T!Double(T!DataValue(h))
    BY <1>2, <2>2 DEF T!Optional
  <2> QED
    BY <1>2, <2>3, DoubleReturns
<1> QED
  BY <1>1, <1>2

\* An instant from the epoch on is the same in seconds and ticks.
LEMMA InstantReturns ==
  ASSUME NEW t \in Nat
  PROVE  T!Ticks(T!Datetime(t)) = t /\ T!Datetime(t) \in [seconds: Nat, ticks: Nat]
<1>1. Sec \in Nat \ {0}
  BY NumberAssumption
<1>2. T!Datetime(t) = [seconds |-> t \div Sec, ticks |-> t % Sec]
  BY DEF T!Datetime
<1>3. t \div Sec \in Nat /\ t % Sec \in Nat /\ (t \div Sec) * Sec + (t % Sec) = t
  BY <1>1, Z3T(30)
<1> QED
  BY <1>2, <1>3 DEF T!Ticks

-----------------------------------------------------------------------------
(* SQL parameters.                                                           *)

\* A parameter that survives comes back as the JSON it was.
LEMMA ParameterReturns ==
  ASSUME NEW p \in Parameters, V!Survives(p)
  PROVE  V!Json(V!FromSql(V!ToSql(p))) = V!Json(p)
<1> DEFINE back == V!FromSql(V!ToSql(p))
<1> USE DEF V!Temporal, V!Integral
<1>1. V!WellTyped(p) /\ Half \in Nat \ {0}
  BY ParameterAssumption, NumberAssumption
<1>2. CASE p.val = None
  <2>1. back = [type |-> "str", val |-> None]
    BY <1>2 DEF V!ToSql, V!Null, V!Stored, V!FromSql, V!DataType
  <2> QED
    BY <1>2, <2>1 DEF V!Json
<1>3. CASE p.val # None /\ p.type \in V!Integral
  <2>1. V!AsI64(p.val) = p.val
    BY <1>1, <1>3 DEF V!WellTyped, V!Survives, V!AsI64
  <2>2. back = [type |-> "int64", val |-> p.val]
    BY <1>3, <2>1 DEF V!ToSql, V!Null, V!Stored, V!FromSql, V!DataType
  <2> QED
    BY <1>3, <2>2 DEF V!Json, V!NoNumber
<1>4. CASE p.val # None /\ p.type \in {"float", "double"}
  <2>1. back = [type |-> "double", val |-> p.val]
    BY <1>4 DEF V!ToSql, V!Null, V!Stored, V!FromSql, V!DataType
  <2> QED
    BY <1>4, <2>1 DEF V!Json, V!NoNumber
<1>5. CASE p.val # None /\ p.type = "str"
  <2>1. back = [type |-> "str", val |-> p.val]
    BY <1>5 DEF V!ToSql, V!Null, V!Stored, V!FromSql, V!DataType
  <2> QED
    BY <1>5, <2>1 DEF V!Json, V!NoNumber
<1>6. CASE p.val # None /\ p.type = "binary"
  <2>1. back = [type |-> "binary", val |-> p.val]
    BY <1>6 DEF V!ToSql, V!Null, V!Stored, V!FromSql, V!DataType
  <2> QED
    BY <1>6, <2>1 DEF V!Json, V!NoNumber
<1>7. p.val = None \/ p.type \in V!Integral \cup {"float", "double", "str", "binary"}
  BY <1>1 DEF V!Survives, V!WellTyped
<1> QED
  BY <1>2, <1>3, <1>4, <1>5, <1>6, <1>7

-----------------------------------------------------------------------------
(* Attributes and the resource.                                              *)

\* An attribute on its way: all but the name of its type stays.
WitAttribute == [key: STRING, value: [type: DOMAIN T!AnyType, array: BOOLEAN, items: Seq(STRING)]]
Alike(xs, ys, names) ==
  /\ Len(ys) = Len(xs) /\ DOMAIN ys = DOMAIN xs
  /\ \A i \in DOMAIN xs :
       /\ ys[i].key = xs[i].key /\ ys[i].value.array = xs[i].value.array
       /\ ys[i].value.items = xs[i].value.items /\ ys[i].value.type = names[xs[i].value.type]

\* One attribute under another name of its type.
WithType(a, t) == [a EXCEPT !.value = [a.value EXCEPT !.type = t]]
Typed(Types) == [key: STRING, value: [type: Types, array: BOOLEAN, items: Seq(STRING)]]
LEMMA Renamed ==
  ASSUME NEW Types, NEW a \in Typed(Types), NEW t
  PROVE  /\ WithType(a, t) \in Typed({t}) /\ WithType(a, t).key = a.key
         /\ WithType(a, t).value.array = a.value.array /\ WithType(a, t).value.items = a.value.items
         /\ WithType(a, t).value.type = t
<1> PICK v : v = a.value
  OBVIOUS
<1>1. v \in [type: Types, array: BOOLEAN, items: Seq(STRING)]
  BY DEF Typed
<1> PICK w : w = [v EXCEPT !.type = t]
  OBVIOUS
<1>2. /\ w \in [type: {t}, array: BOOLEAN, items: Seq(STRING)] /\ w.array = v.array /\ w.items = v.items
      /\ w.type = t
  BY <1>1
<1>3. [a EXCEPT !.value = w].key = a.key /\ [a EXCEPT !.value = w].value = w
  BY DEF Typed
<1>4. [a EXCEPT !.value = w] \in Typed({t})
  BY <1>2 DEF Typed
<1> QED
  BY <1>2, <1>3, <1>4 DEF WithType

\* The guest's attributes as wit values.
LEMMA WitAlike ==
  ASSUME NEW xs \in Seq(Attribute)
  PROVE  T!WitAttributes(xs) \in Seq(WitAttribute) /\ Alike(xs, T!WitAttributes(xs), T!WitType)
<1> DEFINE ys == T!WitAttributes(xs)
<1>1. Len(xs) \in Nat /\ DOMAIN xs = 1..Len(xs)
  OBVIOUS
<1>2. DOMAIN ys = DOMAIN xs /\ Len(ys) = Len(xs)
  BY <1>1 DEF T!WitAttributes
<1>3. ASSUME NEW i \in DOMAIN xs
      PROVE  /\ ys[i] \in WitAttribute /\ ys[i].key = xs[i].key
             /\ ys[i].value.array = xs[i].value.array /\ ys[i].value.items = xs[i].value.items
             /\ ys[i].value.type = T!WitType[xs[i].value.type]
  <2>1. PICK a \in Attribute : a = xs[i]
    OBVIOUS
  <2>2. PICK t : t = T!WitType[a.value.type]
    OBVIOUS
  <2>3. t \in DOMAIN T!AnyType
    BY <2>1, <2>2 DEF Attribute, T!WitType, T!AnyType
  <2>4. ys[i] = WithType(a, t)
    BY <2>1, <2>2 DEF T!WitAttributes, T!WitValue, WithType
  <2>5. a \in Typed(DOMAIN T!WitType)
    BY DEF Attribute, Typed
  <2>6. /\ ys[i] \in Typed({t})
        /\ ys[i].key = a.key /\ ys[i].value.array = a.value.array /\ ys[i].value.items = a.value.items
        /\ ys[i].value.type = t
    BY <2>4, <2>5, Renamed
  <2>7. ys[i] \in WitAttribute
    BY <2>3, <2>6 DEF WitAttribute, Typed
  <2> QED
    BY <2>1, <2>2, <2>6, <2>7
<1>4. ys = [i \in 1..Len(xs) |-> ys[i]]
  BY <1>1 DEF T!WitAttributes
<1> HIDE DEF ys
<1>5. ys \in Seq(WitAttribute)
  BY <1>1, <1>2, <1>3, <1>4
<1>6. Alike(xs, ys, T!WitType)
  BY <1>2, <1>3 DEF Alike
<1> QED
  BY <1>5, <1>6 DEF ys

\* Wit values as the guest's attributes.
LEMMA OtelAlike ==
  ASSUME NEW xs \in Seq(WitAttribute)
  PROVE  T!OtelAttributes(xs) \in Seq(Attribute) /\ Alike(xs, T!OtelAttributes(xs), T!OtelType)
<1> DEFINE ys == T!OtelAttributes(xs)
<1>1. Len(xs) \in Nat /\ DOMAIN xs = 1..Len(xs)
  OBVIOUS
<1>2. DOMAIN ys = DOMAIN xs /\ Len(ys) = Len(xs)
  BY <1>1 DEF T!OtelAttributes
<1>3. ASSUME NEW i \in DOMAIN xs
      PROVE  /\ ys[i] \in Attribute /\ ys[i].key = xs[i].key
             /\ ys[i].value.array = xs[i].value.array /\ ys[i].value.items = xs[i].value.items
             /\ ys[i].value.type = T!OtelType[xs[i].value.type]
  <2>1. PICK a \in WitAttribute : a = xs[i]
    OBVIOUS
  <2>2. PICK t : t = T!OtelType[a.value.type]
    OBVIOUS
  <2>3. t \in DOMAIN T!WitType
    BY <2>1, <2>2 DEF WitAttribute, T!WitType, T!OtelType, T!AnyType
  <2>4. ys[i] = WithType(a, t)
    BY <2>1, <2>2 DEF T!OtelAttributes, T!OtelValue, WithType
  <2>5. a \in Typed(DOMAIN T!AnyType)
    BY DEF WitAttribute, Typed
  <2>6. /\ ys[i] \in Typed({t})
        /\ ys[i].key = a.key /\ ys[i].value.array = a.value.array /\ ys[i].value.items = a.value.items
        /\ ys[i].value.type = t
    BY <2>4, <2>5, Renamed
  <2>7. ys[i] \in Attribute
    BY <2>3, <2>6 DEF Attribute, Typed
  <2> QED
    BY <2>1, <2>2, <2>6, <2>7
<1>4. ys = [i \in 1..Len(xs) |-> ys[i]]
  BY <1>1 DEF T!OtelAttributes
<1> HIDE DEF ys
<1>5. ys \in Seq(Attribute)
  BY <1>1, <1>2, <1>3, <1>4
<1>6. Alike(xs, ys, T!OtelType)
  BY <1>2, <1>3 DEF Alike
<1> QED
  BY <1>5, <1>6 DEF ys

\* OTLP types every item, and the items are the same.
LEMMA OtlpAttributesSame ==
  ASSUME NEW xs \in Seq(Attribute), NEW ys \in Seq(WitAttribute), Alike(xs, ys, T!WitType)
  PROVE  SameAttributes(xs, T!OtlpAttributes(ys))
<1> DEFINE zs == T!OtlpAttributes(ys)
<1>1. Len(ys) \in Nat /\ DOMAIN ys = 1..Len(ys) /\ Len(ys) = Len(xs) /\ DOMAIN xs = DOMAIN ys
  BY DEF Alike
<1>2. Len(zs) = Len(ys)
  BY <1>1 DEF T!OtlpAttributes
<1>3. ASSUME NEW i \in DOMAIN xs
      PROVE  /\ zs[i].key = xs[i].key /\ zs[i].value.array = xs[i].value.array
             /\ zs[i].value.items =
                  [j \in DOMAIN xs[i].value.items |->
                     [type |-> OtlpName[xs[i].value.type], item |-> xs[i].value.items[j]]]
  <2>1. PICK b \in WitAttribute : b = ys[i]
    BY <1>1
  <2>2. PICK v : v = b.value
    OBVIOUS
  <2>3. PICK w : w = T!AnyValue(v)
    OBVIOUS
  <2>4. zs[i] = [b EXCEPT !.value = w]
    BY <1>1, <2>1, <2>2, <2>3 DEF T!OtlpAttributes
  <2>5. zs[i].key = b.key /\ zs[i].value = w
    BY <2>4 DEF WitAttribute
  <2>6. /\ w.array = v.array
        /\ w.items = [j \in DOMAIN v.items |-> [type |-> T!AnyType[v.type], item |-> v.items[j]]]
    BY <2>3 DEF T!AnyValue
  <2>7. PICK t \in DOMAIN T!WitType : t = xs[i].value.type
    <3>1. xs[i] \in Attribute
      OBVIOUS
    <3> QED
      BY <3>1 DEF Attribute
  <2>8. /\ xs[i].key = b.key /\ xs[i].value.array = v.array /\ xs[i].value.items = v.items
        /\ v.type = T!WitType[t]
    BY <1>1, <2>1, <2>2, <2>7 DEF Alike
  <2>9. T!AnyType[v.type] = OtlpName[t]
    BY <2>7, <2>8 DEF T!WitType, T!AnyType, OtlpName
  <2> QED
    BY <2>5, <2>6, <2>7, <2>8, <2>9
<1> HIDE DEF zs
<1>4. SameAttributes(xs, zs)
  BY <1>1, <1>2, <1>3 DEF SameAttributes
<1> QED
  BY <1>4 DEF zs

\* What the guest sends of its attributes is what arrives.
LEMMA AttributesArrive ==
  ASSUME NEW xs \in Seq(Attribute)
  PROVE  SameAttributes(xs, T!OtlpAttributes(T!WitAttributes(xs)))
BY WitAlike, OtlpAttributesSame

\* The host's resource comes back from the guest with one attribute more.
LEMMA ResourceReturns ==
  ASSUME NEW r \in Resources
  PROVE  ResourceArrives(r, T!ResourceToOtlp(T!ResourceToWit(T!ResourceToGuest(r))))
<1> DEFINE xs == r.attributes
           ys == T!WitAttributes(T!OtelAttributes(T!WitAttributes(xs)))
           zs == T!OtlpAttributes(ys)
<1>1. r \in [attributes: Seq(Attribute), schema_url: STRING \cup {None}]
  BY TelemetryAssumption
<1>2. xs \in Seq(Attribute)
  BY <1>1
<1>3. /\ T!ResourceToWit(T!ResourceToGuest(r)).attributes = ys
      /\ T!ResourceToWit(T!ResourceToGuest(r)).schema_url = r.schema_url
  <2>1. PICK attrs : attrs = T!OtelAttributes(T!WitAttributes(xs))
    OBVIOUS
  <2>2. PICK q : q = T!ResourceToGuest(r)
    OBVIOUS
  <2>3. q = [r EXCEPT !.attributes = attrs]
    BY <2>1, <2>2 DEF T!ResourceToGuest
  <2>4. /\ q.attributes = attrs /\ q.schema_url = r.schema_url
        /\ DOMAIN q = {"attributes", "schema_url"}
    BY <1>1, <2>3
  <2>5. T!ResourceToWit(q) = [q EXCEPT !.attributes = T!WitAttributes(attrs)]
    BY <2>4 DEF T!ResourceToWit
  <2>6. T!ResourceToWit(q).attributes = T!WitAttributes(attrs) /\ T!ResourceToWit(q).schema_url = r.schema_url
    BY <2>4, <2>5
  <2> QED
    BY <2>1, <2>2, <2>6
<1>4. ys \in Seq(WitAttribute) /\ Alike(xs, ys, T!WitType)
  <2>1. PICK a : a = T!WitAttributes(xs) /\ a \in Seq(WitAttribute) /\ Alike(xs, a, T!WitType)
    BY <1>2, WitAlike
  <2>2. PICK b : b = T!OtelAttributes(a) /\ b \in Seq(Attribute) /\ Alike(a, b, T!OtelType)
    BY <2>1, OtelAlike
  <2>3. PICK c : c = T!WitAttributes(b) /\ c \in Seq(WitAttribute) /\ Alike(b, c, T!WitType)
    BY <2>2, WitAlike
  <2>4. \A t \in DOMAIN T!WitType : T!WitType[T!OtelType[T!WitType[t]]] = T!WitType[t]
    BY DEF T!WitType, T!OtelType
  <2>5. ASSUME NEW i \in DOMAIN xs PROVE xs[i].value.type \in DOMAIN T!WitType
    <3>1. xs[i] \in Attribute
      BY <1>2
    <3> QED
      BY <3>1 DEF Attribute
  <2>6. Alike(xs, c, T!WitType)
    <3> HIDE DEF xs, ys
    <3> QED
      BY <2>1, <2>2, <2>3, <2>4, <2>5 DEF Alike
  <2> QED
    BY <2>1, <2>2, <2>3, <2>6
<1>5. SameAttributes(xs, zs)
  <2> HIDE DEF xs, ys
  <2> QED
    BY <1>2, <1>4, OtlpAttributesSame
<1>6. PICK more : more = [key |-> "schema_url", value |-> r.schema_url]
  OBVIOUS
<1>7. T!ResourceToOtlp(T!ResourceToWit(T!ResourceToGuest(r))) = zs \o <<more>>
  BY <1>3, <1>6 DEF T!ResourceToOtlp
<1>8. PICK Elem : Elem = Range(zs) \cup {more}
  OBVIOUS
<1>9. zs \in Seq(Elem)
  <2> HIDE DEF ys
  <2>1. Len(ys) \in Nat /\ DOMAIN ys = 1..Len(ys)
    BY <1>4
  <2>2. zs = [i \in 1..Len(ys) |-> zs[i]]
    BY <2>1 DEF T!OtlpAttributes
  <2>3. \A i \in 1..Len(ys) : zs[i] \in Elem
    BY <1>8, <2>1 DEF T!OtlpAttributes, Range
  <2> HIDE DEF zs
  <2> QED
    BY <2>1, <2>2, <2>3
<1> HIDE DEF zs, ys, xs
<1>10. <<more>> \in Seq(Elem) /\ Len(<<more>>) = 1 /\ <<more>>[1] = more
  BY <1>8
<1>11. PICK n \in Nat : n = Len(zs)
  BY <1>9
<1>12. PICK one : one = <<more>>
  OBVIOUS
<1>13. /\ zs \o one \in Seq(Elem) /\ Len(zs \o one) = Len(zs) + Len(one)
       /\ \A i \in 1..Len(zs) : (zs \o one)[i] = zs[i]
       /\ \A i \in 1..(Len(zs) + Len(one)) : ~(i <= Len(zs)) => (zs \o one)[i] = one[i - Len(zs)]
  BY <1>9, <1>10, <1>12, Joined
<1>14. PICK all : all = zs \o one
  OBVIOUS
<1>15. all \in Seq(Elem) /\ Len(all) = n + 1 /\ Len(one) = 1 /\ one[1] = more
  BY <1>10, <1>11, <1>14, <1>12, <1>13
<1>16. all[n + 1] = more /\ \A i \in 1..n : all[i] = zs[i]
  BY <1>11, <1>14, <1>13, <1>15
<1>17. Last(all) = [key |-> "schema_url", value |-> r.schema_url]
  BY <1>6, <1>16, <1>15 DEF Last
<1>18. Front(all) = zs
  <2>1. Front(all) = [i \in 1..n |-> all[i]]
    BY <1>11, <1>15 DEF Front
  <2>2. zs = [i \in 1..n |-> zs[i]]
    BY <1>9, <1>11
  <2> QED
    BY <1>16, <2>1, <2>2
<1> QED
  BY <1>5, <1>7, <1>14, <1>17, <1>18, <1>12 DEF ResourceArrives, xs

-----------------------------------------------------------------------------
(* Outgoing requests.                                                        *)

Header == [name: Names, value: STRING]
Headers == Seq(Header)

\* What the client's defaults make of a header that stays: its last value.
LEMMA UpstreamIs ==
  ASSUME NEW hs \in Headers, NEW i \in DOMAIN hs, hs[i].name \notin {Host, ClientCert}
  PROVE  \E j \in i..Len(hs) : hs[j].name = hs[i].name /\ O!Upstream(hs)[hs[i].name] = hs[j].value
<1>1. Len(hs) \in Nat /\ DOMAIN hs = 1..Len(hs)
  BY DEF Headers
<1>2. hs[i].name \in Names
  <2>1. i \in 1..Len(hs) /\ hs \in Seq(Header)
    BY <1>1 DEF Headers
  <2>2. hs[i] \in Header
    BY <2>1
  <2> QED
    BY <2>2 DEF Header
<1>3. PICK n : n = hs[i].name
  OBVIOUS
<1> DEFINE Places == {k \in 1..Len(hs) : hs[k].name = n}
<1>4. Places \in SUBSET (1..Len(hs)) /\ \A k : k \in Places <=> k \in 1..Len(hs) /\ hs[k].name = n
  OBVIOUS
<1>5. O!Upstream(hs)[n] = IF n \in {Host, ClientCert} \/ (IF Places # {} THEN Max(Places) ELSE 0) = 0
                          THEN None ELSE hs[IF Places # {} THEN Max(Places) ELSE 0].value
  BY <1>2, <1>3 DEF O!Upstream, O!SelectLastInSeq, O!Max, Max
<1> HIDE DEF Places
<1>6. i \in Places
  BY <1>1, <1>3, <1>4
<1>7. Max(Places) \in Places /\ i <= Max(Places)
  BY <1>1, <1>4, <1>6, GreatestOf
<1>8. PICK j : j = Max(Places) /\ j \in Places /\ i <= j
  BY <1>7
<1>9. j \in i..Len(hs) /\ hs[j].name = n /\ j # 0
  BY <1>1, <1>4, <1>8
<1>10. O!Upstream(hs)[n] = hs[j].value
  BY <1>3, <1>5, <1>6, <1>8, <1>9
<1> QED
  BY <1>3, <1>9, <1>10

\* The certificate is that of the first header of its name.
LEMMA CertificateIs ==
  ASSUME NEW hs \in Headers
  PROVE  \/ O!Certificate(hs) = None /\ \A i \in DOMAIN hs : hs[i].name # ClientCert
         \/ \E i \in DOMAIN hs : hs[i].name = ClientCert /\ O!Certificate(hs) = hs[i].value
<1> DEFINE Certs == {k \in 1..Len(hs) : hs[k].name = ClientCert}
<1>1. Len(hs) \in Nat /\ DOMAIN hs = 1..Len(hs)
  BY DEF Headers
<1>2. O!Certificate(hs) = IF (IF Certs # {} THEN Min(Certs) ELSE 0) = 0 THEN None
                          ELSE hs[IF Certs # {} THEN Min(Certs) ELSE 0].value
  BY DEF O!Certificate, O!SelectInSeq, O!Min, Min
<1>3. Certs \in SUBSET Nat /\ \A k : k \in Certs <=> k \in DOMAIN hs /\ hs[k].name = ClientCert
  BY <1>1
<1> HIDE DEF Certs
<1>4. CASE Certs = {}
  BY <1>2, <1>3, <1>4
<1>5. CASE Certs # {}
  <2>1. PICK k : k = Min(Certs) /\ k \in Certs
    BY <1>3, <1>5, LeastOf
  <2>2. k \in DOMAIN hs /\ k # 0 /\ hs[k].name = ClientCert
    BY <1>1, <1>3, <2>1
  <2> QED
    BY <1>2, <1>5, <2>1, <2>2
<1> QED
  BY <1>4, <1>5

\* What is left of the headers has none of the names, and all the others.
LEMMA WithoutIs ==
  ASSUME NEW hs, NEW names
  PROVE  /\ \A i \in DOMAIN O!Without(hs, names) : O!Without(hs, names)[i].name \notin names
         /\ \A i \in DOMAIN hs : hs[i].name \notin names =>
              i \in DOMAIN O!Without(hs, names) /\ O!Without(hs, names)[i] = hs[i]
BY DEF O!Without, O!RestrictValues, O!Restrict

\* What goes upstream, and under what.
LEMMA OutgoingReturns ==
  ASSUME NEW request \in OutgoingRequests, NEW upstream
  PROVE  OutgoingArrives(request, upstream, O!SendRequest(request, upstream))
<1>1. PICK answer : answer = O!SendRequest(request, upstream)
  OBVIOUS
<1>2. CASE ~answer.ok
  <2>1. PICK hs : hs = request.headers
    OBVIOUS
  <2>2. hs \in Headers
    BY <2>1, OutgoingAssumption DEF Headers, Header
  <2>3. ASSUME request.collected, upstream.ok,
               \A i \in DOMAIN hs : hs[i].name = ClientCert => hs[i].value = "good"
        PROVE  FALSE
    <3>1. O!Certificate(hs) \in {None, "good"}
      BY <2>2, <2>3, CertificateIs
    <3>2. PICK cert : cert = O!Certificate(hs) /\ cert \notin {"not text", "not base64", "not pem"}
      BY <3>1, OutgoingAssumption DEF CertificateValues
    <3>3. answer = [ok |-> TRUE, identity |-> cert, sent |-> O!Upstream(hs),
                    headers |-> O!Without(upstream.headers, O!ForbiddenHeaders)]
      BY <1>1, <2>1, <2>3, <3>2 DEF O!SendRequest
    <3> QED
      BY <1>2, <3>3
  <2> QED
    BY <1>1, <1>2, <2>1, <2>3 DEF OutgoingArrives
<1>3. CASE answer.ok
  <2>1. PICK hs : hs = request.headers
    OBVIOUS
  <2>2. hs \in Headers
    BY <2>1, OutgoingAssumption DEF Headers, Header
  <2>3. PICK cert, sent, left :
          /\ answer = [ok |-> TRUE, identity |-> cert, sent |-> sent, headers |-> left]
          /\ cert \notin {"not text", "not base64", "not pem"} /\ cert = O!Certificate(hs)
          /\ sent = O!Upstream(hs) /\ left = O!Without(upstream.headers, O!ForbiddenHeaders)
    BY <1>1, <1>3, <2>1 DEF O!SendRequest, O!Failed
  <2>4. answer.identity = cert /\ answer.sent = sent /\ answer.headers = left
    BY <2>3
  <2>5. sent[Host] = None /\ sent[ClientCert] = None
    BY <2>3, OutgoingAssumption DEF O!Upstream
  <2>6. ASSUME NEW i \in DOMAIN hs, hs[i].name \notin {Host, ClientCert}
        PROVE  \E j \in i..Len(hs) : hs[j].name = hs[i].name /\ sent[hs[i].name] = hs[j].value
    BY <2>2, <2>3, <2>6, UpstreamIs
  <2>7. ASSUME NEW i \in DOMAIN hs, hs[i].name = ClientCert, cert = hs[i].value
        PROVE  cert = "good" /\ cert # None
    <3>1. cert \in CertificateValues
      BY <2>1, <2>7, OutgoingAssumption
    <3>2. None # "good"
      BY OutgoingAssumption DEF CertificateValues
    <3>3. cert = "good"
      BY <2>3, <3>1 DEF CertificateValues
    <3> QED
      BY <3>2, <3>3
  <2>8. /\ cert \in {None, "good"}
        /\ (cert = None) <=> (\A i \in DOMAIN hs : hs[i].name # ClientCert)
    <3>1. CASE cert = None /\ \A i \in DOMAIN hs : hs[i].name # ClientCert
      BY <3>1
    <3>2. CASE \E i \in DOMAIN hs : hs[i].name = ClientCert /\ cert = hs[i].value
      BY <2>7, <3>2
    <3> QED
      BY <2>2, <2>3, <3>1, <3>2, CertificateIs
  <2>9. \A i \in DOMAIN left : left[i].name \notin Forbidden
    BY <2>3, WithoutIs DEF O!ForbiddenHeaders
  <2>10. \A i \in DOMAIN upstream.headers :
           upstream.headers[i].name \notin Forbidden \cup {Host} =>
             i \in DOMAIN left /\ left[i] = upstream.headers[i]
    <3>1. O!ForbiddenHeaders = Forbidden \cup {Host}
      BY DEF O!ForbiddenHeaders
    <3>2. left = O!Without(upstream.headers, Forbidden \cup {Host})
      BY <2>3, <3>1
    <3> QED
      BY <3>2, WithoutIs
  <2> QED
    BY <1>1, <1>3, <2>1, <2>4, <2>5, <2>6, <2>8, <2>9, <2>10 DEF OutgoingArrives
<1> QED
  BY <1>2, <1>3

-----------------------------------------------------------------------------
(* Metrics.                                                                  *)

\* An instant that is not before the epoch arrives.
LEMMA SinceEpoch == ASSUME NEW t \in Int PROVE SameInstant(t, T!Ticks(T!Datetime(t)))
BY InstantReturns DEF SameInstant

\* An exemplar arrives with its instant, its number and its attributes.
LEMMA ExemplarReturns ==
  ASSUME NEW e \in Exemplar PROVE SameExemplar(e, T!OtlpExemplar(T!WitExemplar(e)))
<1>1. e.time \in Int /\ e.value \in Number /\ e.attributes \in Seq(Attribute)
  BY DEF Exemplar
<1>2. PICK d, v, xs : d = T!Datetime(e.time) /\ v = T!DataValue(e.value) /\ xs = T!WitAttributes(e.attributes)
  OBVIOUS
<1>3. PICK w : w = T!WitExemplar(e)
  OBVIOUS
<1>4. w = [time |-> d, value |-> v, bytes |-> e.span_id, attributes |-> xs]
  BY <1>2, <1>3 DEF T!WitExemplar
<1>5. w.time = d /\ w.value = v /\ w.attributes = xs
  BY <1>4
<1>6. PICK o : o = T!OtlpExemplar(w)
  OBVIOUS
<1>7. PICK id : id = T!DecodedBytes(w.bytes)
  OBVIOUS
<1>8. o = [time |-> T!Ticks(d), value |-> T!NumberValue(v), span_id |-> id,
           attributes |-> T!OtlpAttributes(xs)]
  BY <1>5, <1>6, <1>7 DEF T!OtlpExemplar
<1>9. o.time = T!Ticks(d) /\ o.value = T!NumberValue(v) /\ o.attributes = T!OtlpAttributes(xs)
  BY <1>8
<1>10. SameInstant(e.time, o.time)
  BY <1>1, <1>2, <1>9, SinceEpoch
<1>11. SameNumber(e.value, o.value)
  BY <1>1, <1>2, <1>9, NumberReturns
<1>12. SameAttributes(e.attributes, o.attributes)
  BY <1>1, <1>2, <1>9, AttributesArrive
<1>13. SameExemplar(e, o)
  BY <1>10, <1>11, <1>12 DEF SameExemplar
<1> QED
  BY <1>3, <1>6, <1>13

\* The exemplars of a point.
LEMMA ExemplarsReturn ==
  ASSUME NEW es \in Seq(Exemplar), NEW os, os = T!Each(T!Each(es, T!WitExemplar), T!OtlpExemplar)
  PROVE  Len(os) = Len(es) /\ \A j \in DOMAIN es : SameExemplar(es[j], os[j])
<1>1. PICK ws : ws = [j \in DOMAIN es |-> T!WitExemplar(es[j])]
  OBVIOUS
<1>2. os = [j \in DOMAIN ws |-> T!OtlpExemplar(ws[j])]
  BY <1>1 DEF T!Each
<1>3. PICK n \in Nat : n = Len(es) /\ DOMAIN es = 1..n
  OBVIOUS
<1>4. Len(os) = Len(es)
  BY <1>1, <1>2, <1>3
<1>5. ASSUME NEW j \in DOMAIN es PROVE SameExemplar(es[j], os[j])
  <2>1. es[j] \in Exemplar
    OBVIOUS
  <2>2. os[j] = T!OtlpExemplar(T!WitExemplar(es[j]))
    BY <1>1, <1>2
  <2> QED
    BY <2>1, <2>2, ExemplarReturns
<1> QED
  BY <1>4, <1>5

\* One point of a metric, with the times of its aggregation.
LEMMA PointReturns ==
  ASSUME NEW m, m.start \in Nat \cup {None}, m.time \in Nat, NEW p \in Point, NEW w,
         w.data = m.data, w.start = T!Optional(m.start, T!Datetime), w.time = T!Datetime(m.time)
  PROVE  SamePoint(m, p, T!OtlpPoint(w, T!WitPoint(m.data, p)))
<1>1. PICK x : x = T!WitPoint(m.data, p)
  OBVIOUS
<1>2. PICK q : q = T!OtlpPoint(w, x)
  OBVIOUS
<1>3. PICK start : start = IF w.start = None THEN 0 ELSE T!Ticks(w.start)
  OBVIOUS
<1>4. start = IF m.start = None THEN 0 ELSE m.start
  <2>1. CASE m.start = None
    <3>1. w.start = None
      BY <2>1 DEF T!Optional
    <3> QED
      BY <1>3, <2>1, <3>1
  <2>2. CASE m.start # None
    <3>1. w.start = T!Datetime(m.start) /\ m.start \in Nat
      BY <2>2 DEF T!Optional
    <3>2. T!Ticks(w.start) = m.start /\ w.start \in [seconds: Nat, ticks: Nat]
      BY <3>1, InstantReturns
    <3>3. w.start # None
      BY <3>2, NumberAssumption
    <3> QED
      BY <1>3, <2>2, <3>2, <3>3
  <2> QED
    BY <2>1, <2>2
<1>5. T!Ticks(w.time) = m.time
  BY InstantReturns
<1>6. PICK es, xs : es = T!Each(p.exemplars, T!WitExemplar) /\ xs = T!WitAttributes(p.attributes)
  OBVIOUS
<1>7. PICK os, ys : os = T!Each(es, T!OtlpExemplar) /\ ys = T!OtlpAttributes(xs)
  OBVIOUS
<1>8. Len(os) = Len(p.exemplars) /\ \A j \in DOMAIN p.exemplars : SameExemplar(p.exemplars[j], os[j])
  <2>1. p.exemplars \in Seq(Exemplar)
    BY DEF Point
  <2> QED
    BY <1>6, <1>7, <2>1, ExemplarsReturn
<1>9. SameAttributes(p.attributes, ys)
  <2>1. p.attributes \in Seq(Attribute)
    BY DEF Point
  <2> QED
    BY <1>6, <1>7, <2>1, AttributesArrive
<1>10. CASE m.data \in {"gauge", "sum"}
  <2>1. PICK d, n : d = T!DataValue(p.value) /\ n = T!NumberValue(d)
    OBVIOUS
  <2>2. x = [value |-> d, exemplars |-> es, attributes |-> xs]
    BY <1>1, <1>6, <1>10, <2>1 DEF T!WitPoint
  <2>3. x.value = d /\ x.exemplars = es /\ x.attributes = xs
    BY <2>2
  <2>4. q = [start |-> start, time |-> T!Ticks(w.time), value |-> n, exemplars |-> os, attributes |-> ys]
    BY <1>2, <1>3, <1>7, <1>10, <2>1, <2>3 DEF T!OtlpPoint
  <2>5. q.start = start /\ q.time = m.time /\ q.value = n /\ q.exemplars = os /\ q.attributes = ys
    BY <1>5, <2>4
  <2>6. p.value \in Number
    BY DEF Point
  <2>7. SameNumber(p.value, q.value)
    BY <2>1, <2>5, <2>6, NumberReturns
  <2>8. SamePoint(m, p, q)
    BY <1>4, <1>8, <1>9, <1>10, <2>5, <2>7 DEF SamePoint
  <2> QED
    BY <1>1, <1>2, <2>8
<1>11. CASE m.data \notin {"gauge", "sum"}
  <2>1. PICK d, lo, hi : /\ d = T!DataValue(p.sum) /\ lo = T!Optional(p.min, T!DataValue)
                         /\ hi = T!Optional(p.max, T!DataValue)
    OBVIOUS
  <2>2. x = [sum |-> d, min |-> lo, max |-> hi, exemplars |-> es, attributes |-> xs]
    BY <1>1, <1>6, <1>11, <2>1 DEF T!WitPoint
  <2>3. x.sum = d /\ x.min = lo /\ x.max = hi /\ x.exemplars = es /\ x.attributes = xs
    BY <2>2
  <2>4. q = [start |-> start, time |-> T!Ticks(w.time), sum |-> T!Double(d),
             min |-> T!Optional(lo, T!Double), max |-> T!Optional(hi, T!Double),
             exemplars |-> os, attributes |-> ys]
    BY <1>2, <1>3, <1>7, <1>11, <2>3 DEF T!OtlpPoint
  <2>5. /\ q.start = start /\ q.time = m.time /\ q.exemplars = os /\ q.attributes = ys
        /\ q.sum = T!Double(d) /\ q.min = T!Optional(lo, T!Double) /\ q.max = T!Optional(hi, T!Double)
    BY <1>5, <2>4
  <2>6. p.sum \in Number /\ p.min \in Number \cup {None} /\ p.max \in Number \cup {None}
    BY DEF Point
  <2>7. SameDouble(p.sum, q.sum) /\ SameDouble(p.min, q.min) /\ SameDouble(p.max, q.max)
    BY <2>1, <2>5, <2>6, DoubleReturns, OptionalReturns
  <2>8. \A f \in {"sum", "min", "max"} : SameDouble(p[f], q[f])
    BY <2>7
  <2>9. SamePoint(m, p, q)
    BY <1>4, <1>8, <1>9, <1>11, <2>5, <2>8 DEF SamePoint
  <2> QED
    BY <1>1, <1>2, <2>9
<1> QED
  BY <1>10, <1>11

\* The points of a metric arrive as it is said above.
LEMMA MetricReturns ==
  ASSUME NEW m \in GuestMetrics
  PROVE  MetricArrives(m, T!ExportMetric(m))
<1>1. m \in Metric
  BY TelemetryAssumption
<1>2. m.start \in Nat \cup {None} /\ m.time \in Nat /\ m.points \in Seq(Point)
  BY <1>1 DEF Metric
<1>3. PICK w : w = T!WitMetric(m)
  OBVIOUS
<1>4. PICK points : points = [i \in DOMAIN m.points |-> T!WitPoint(m.data, m.points[i])]
  OBVIOUS
<1>5. w = [m EXCEPT !.start = T!Optional(m.start, T!Datetime), !.time = T!Datetime(m.time), !.points = points]
  BY <1>3, <1>4 DEF T!WitMetric, T!Each
<1>6. /\ w.data = m.data /\ w.start = T!Optional(m.start, T!Datetime)
      /\ w.time = T!Datetime(m.time) /\ w.points = points
  BY <1>1, <1>5 DEF Metric
<1>7. PICK came : came = T!ExportMetric(m)
  OBVIOUS
<1>8. came.points = [i \in DOMAIN points |-> T!OtlpPoint(w, points[i])]
  BY <1>3, <1>6, <1>7 DEF T!ExportMetric, T!OtlpMetric, T!Each
<1>9. Len(m.points) \in Nat /\ DOMAIN m.points = 1..Len(m.points)
  BY <1>2
<1>10. Len(came.points) = Len(m.points)
  BY <1>4, <1>8, <1>9
<1>12. came.data = m.data /\ (m.data # "gauge" /\ m.temporality # "low_memory" => came.temporality = m.temporality)
  <2>1. w.temporality = m.temporality
    BY <1>1, <1>5 DEF Metric
  <2>2. came.data = w.data
    BY <1>3, <1>7 DEF T!ExportMetric, T!OtlpMetric
  <2>3. came.temporality = IF w.data = "gauge" THEN None ELSE T!OtlpTemporality(w.temporality)
    BY <1>3, <1>7 DEF T!ExportMetric, T!OtlpMetric
  <2> QED
    BY <1>6, <2>1, <2>2, <2>3 DEF T!OtlpTemporality
<1>11. ASSUME NEW i \in DOMAIN m.points PROVE SamePoint(m, m.points[i], came.points[i])
  <2>1. came.points[i] = T!OtlpPoint(w, T!WitPoint(m.data, m.points[i]))
    BY <1>4, <1>8
  <2>2. m.points[i] \in Point
    BY <1>2
  <2> QED
    BY <1>2, <1>6, <2>1, <2>2, PointReturns
<1> QED
  BY <1>7, <1>10, <1>11, <1>12 DEF MetricArrives

-----------------------------------------------------------------------------
(* Spans.                                                                    *)

\* An identifier printed in full arrives.
LEMMA FullIdReturns == ASSUME NEW id \in Id PROVE T!HexDecode(id) = id
BY DEF Id, T!HexDecode

\* An identifier printed as a number arrives if it does not begin with a zero.
LEMMA IdReturns == ASSUME NEW id \in Id PROVE SameId(id, T!HexDecode(T!LowerHex(id)))
<1> SUFFICES ASSUME id[1] # 0 PROVE T!HexDecode(T!LowerHex(id)) = id
  BY DEF SameId
<1>1. id \in Seq(0..15) /\ id # <<>> /\ Len(id) % 2 = 0
  BY DEF Id
<1>2. PICK n \in Nat : n = Len(id) /\ n > 0 /\ DOMAIN id = 1..n
  BY <1>1
<1> DEFINE digits == {i \in DOMAIN id : id[i] # 0}
<1>4. T!LowerHex(id) = IF digits = {} THEN <<0>> ELSE SubSeq(id, Min(digits), Len(id))
  BY DEF T!LowerHex, Min
<1>5. digits \in SUBSET Nat /\ \A i : i \in digits <=> i \in 1..n /\ id[i] # 0
  BY <1>2
<1> HIDE DEF digits
<1>6. 1 \in digits
  BY <1>2, <1>5
<1>7. Min(digits) \in digits /\ Min(digits) <= 1
  BY <1>5, <1>6, LeastOf
<1>8. PICK k : k = Min(digits) /\ k = 1
  BY <1>5, <1>7
<1>9. T!LowerHex(id) = SubSeq(id, 1, Len(id))
  BY <1>4, <1>6, <1>8
<1>10. T!LowerHex(id) = id
  BY <1>1, <1>9
<1> QED
  BY <1>1, <1>10 DEF T!HexDecode

\* The identifiers of a context, each on its own, and its flags.
LEMMA ContextReturns ==
  ASSUME NEW c \in SpanContext
  PROVE  /\ SameId(c.trace_id, T!OtlpContext(T!WitContext(c)).trace_id)
         /\ SameId(c.span_id, T!OtlpContext(T!WitContext(c)).span_id)
         /\ SameFlags(c, T!OtlpContext(T!WitContext(c)))
         /\ T!WitContext(c).span_id = T!LowerHex(c.span_id)
         /\ T!WitContext(c).sampled = c.sampled
         /\ DOMAIN T!WitContext(c) = DOMAIN c
<1>1. c.trace_id \in Id /\ c.span_id \in Id
  BY DEF SpanContext
<1>2. PICK w : w = T!WitContext(c)
  OBVIOUS
<1>3. w = [c EXCEPT !.trace_id = T!LowerHex(c.trace_id), !.span_id = T!LowerHex(c.span_id)]
  BY <1>2 DEF T!WitContext
<1>4. w.trace_id = T!LowerHex(c.trace_id) /\ w.span_id = T!LowerHex(c.span_id) /\ DOMAIN w = DOMAIN c
  BY <1>3 DEF SpanContext
<1>5. /\ T!OtlpContext(w).trace_id = T!HexDecode(w.trace_id)
      /\ T!OtlpContext(w).span_id = T!HexDecode(w.span_id)
  BY DEF T!OtlpContext
<1>6. w.sampled = c.sampled
  BY <1>3, Zenon DEF SpanContext
<1>7. SameFlags(c, T!OtlpContext(w))
  BY <1>6, Zenon DEF SameFlags, T!OtlpContext
<1> QED
  BY <1>1, <1>2, <1>4, <1>5, <1>6, <1>7, IdReturns

\* The SDK's fields of a span and what becomes of each.
LEMMA WitSpanIs ==
  ASSUME NEW s \in Span
  PROVE  /\ T!WitSpan(s).context = T!WitContext(s.context) /\ T!WitSpan(s).scope = s.scope
         /\ T!WitSpan(s).start = T!Datetime(s.start) /\ T!WitSpan(s).end = T!Datetime(s.end)
         /\ T!WitSpan(s).attributes = T!WitAttributes(s.attributes)
         /\ T!WitSpan(s).events = [i \in DOMAIN s.events |-> T!WitEvent(s.events[i])]
         /\ T!WitSpan(s).links = [i \in DOMAIN s.links |-> T!WitLink(s.links[i])]
         /\ T!WitSpan(s).status = s.status /\ T!WitSpan(s).kind = s.kind
         /\ DOMAIN T!WitSpan(s) = DOMAIN s
<1>1. PICK context, start, stop, attributes :
        /\ context = T!WitContext(s.context) /\ start = T!Datetime(s.start)
        /\ stop = T!Datetime(s.end) /\ attributes = T!WitAttributes(s.attributes)
  OBVIOUS
<1>2. PICK events, links :
        /\ events = [i \in DOMAIN s.events |-> T!WitEvent(s.events[i])]
        /\ links = [i \in DOMAIN s.links |-> T!WitLink(s.links[i])]
  OBVIOUS
<1>3. T!WitSpan(s) = [s EXCEPT !.context = context, !.start = start, !.end = stop, !.attributes = attributes,
                               !.events = events, !.links = links]
  BY <1>1, <1>2 DEF T!WitSpan
<1>4. PICK w : w = T!WitSpan(s)
  OBVIOUS
<1>5. /\ w.context = context /\ w.start = start /\ w.end = stop /\ w.attributes = attributes
      /\ w.events = events /\ w.links = links /\ w.status = s.status /\ w.scope = s.scope
      /\ w.kind = s.kind /\ DOMAIN w = DOMAIN s
  BY <1>3, <1>4 DEF Span
<1> QED
  BY <1>1, <1>2, <1>4, <1>5

\* Under another parent only its place in the trace is another.
LEMMA ReparentedIs ==
  ASSUME NEW w, NEW host, {"context", "parent_span_id"} \subseteq DOMAIN w,
         {"trace_id", "span_id", "is_remote"} \subseteq DOMAIN w.context
  PROVE  /\ T!Reparented(w, host).context.trace_id = host.trace_id
         /\ T!Reparented(w, host).context.span_id = w.context.span_id
         /\ "sampled" \in DOMAIN w.context => T!Reparented(w, host).context.sampled = w.context.sampled
         /\ T!Reparented(w, host).parent_span_id = host.span_id
         /\ \A f \in DOMAIN w \ {"context", "parent_span_id"} : T!Reparented(w, host)[f] = w[f]
BY DEF T!Reparented

\* The numbers of two kinds differ.
LEMMA KindsDiffer ==
  ASSUME NEW k \in Range(T!WitKinds), NEW l \in Range(T!WitKinds)
  PROVE  T!KindNumber(k) = T!KindNumber(l) <=> k = l
<1>1. DOMAIN T!WitKinds = 1..5
  BY DEF T!WitKinds
<1>2. \A x \in Range(T!WitKinds) : \E i \in DOMAIN T!WitKinds : T!WitKinds[i] = x
  BY DEF Range
<1>3. PICK i : i = CHOOSE n \in DOMAIN T!WitKinds : T!WitKinds[n] = k
  OBVIOUS
<1>4. PICK j : j = CHOOSE n \in DOMAIN T!WitKinds : T!WitKinds[n] = l
  OBVIOUS
<1>5. i \in DOMAIN T!WitKinds /\ T!WitKinds[i] = k
  BY <1>2, <1>3, Zenon
<1>6. j \in DOMAIN T!WitKinds /\ T!WitKinds[j] = l
  BY <1>2, <1>4, Zenon
<1>7. T!KindNumber(k) = i - 1 /\ T!KindNumber(l) = j - 1
  BY <1>3, <1>4, Zenon DEF T!KindNumber
<1>8. i - 1 = j - 1 <=> i = j
  BY <1>1, <1>5, <1>6
<1>9. i = j => k = l
  BY <1>5, <1>6
<1>10. k = l => i = j
  BY <1>3, <1>4
<1> QED
  BY <1>7, <1>8, <1>9, <1>10

Link == [context: SpanContext, attributes: Seq(Attribute)]
Event == [time: Int, attributes: Seq(Attribute)]

\* What a link points at arrives, with its attributes.
LEMMA LinkReturns == ASSUME NEW l \in Link PROVE SameLink(l, T!OtlpLink(T!WitLink(l)))
<1>1. l.context \in SpanContext /\ l.attributes \in Seq(Attribute) /\ DOMAIN l = {"context", "attributes"}
  BY DEF Link
<1>2. PICK c, xs : c = T!WitContext(l.context) /\ xs = T!WitAttributes(l.attributes)
  OBVIOUS
<1>3. PICK w : w = T!WitLink(l)
  OBVIOUS
<1>4. w = [l EXCEPT !.context = c, !.attributes = xs]
  BY <1>2, <1>3 DEF T!WitLink
<1>5. w.context = c /\ w.attributes = xs
  BY <1>1, <1>4 DEF Link
<1>6. PICK o : o = T!OtlpLink(w)
  OBVIOUS
<1>7. o.context = T!OtlpContext(c) /\ o.attributes = T!OtlpAttributes(xs)
  BY <1>5, <1>6 DEF T!OtlpLink
<1>8. SameAttributes(l.attributes, o.attributes)
  BY <1>1, <1>2, <1>7, AttributesArrive
<1>9. /\ SameId(l.context.trace_id, o.context.trace_id)
      /\ SameId(l.context.span_id, o.context.span_id) /\ SameFlags(l.context, o.context)
  BY <1>1, <1>2, <1>7, ContextReturns
<1>10. SameLink(l, o)
  BY <1>8, <1>9 DEF SameLink
<1> QED
  BY <1>3, <1>6, <1>10

\* An event arrives with its instant and its attributes.
LEMMA EventReturns == ASSUME NEW e \in Event PROVE SameEvent(e, T!OtlpEvent(T!WitEvent(e)))
<1>1. e.time \in Int /\ e.attributes \in Seq(Attribute) /\ DOMAIN e = {"time", "attributes"}
  BY DEF Event
<1>2. PICK d, xs : d = T!Datetime(e.time) /\ xs = T!WitAttributes(e.attributes)
  OBVIOUS
<1>3. PICK w : w = T!WitEvent(e)
  OBVIOUS
<1>4. w = [e EXCEPT !.time = d, !.attributes = xs]
  BY <1>2, <1>3 DEF T!WitEvent
<1>5. w.time = d /\ w.attributes = xs
  BY <1>1, <1>4 DEF Event
<1>6. PICK o : o = T!OtlpEvent(w)
  OBVIOUS
<1>7. o.time = T!Ticks(d) /\ o.attributes = T!OtlpAttributes(xs)
  BY <1>5, <1>6 DEF T!OtlpEvent
<1>8. SameAttributes(e.attributes, o.attributes)
  BY <1>1, <1>2, <1>7, AttributesArrive
<1>9. SameInstant(e.time, o.time)
  BY <1>1, <1>2, <1>7, SinceEpoch
<1>10. SameEvent(e, o)
  BY <1>8, <1>9 DEF SameEvent
<1> QED
  BY <1>3, <1>6, <1>10

\* A span becomes a child of the host's, and all else of it arrives.
LEMMA SpanReturns ==
  ASSUME NEW s \in Span, NEW host \in HostSpans
  PROVE  /\ SameSpan(s, T!OtlpSpan(T!Reparented(T!WitSpan(s), host)), host)
         /\ T!OtlpSpan(T!Reparented(T!WitSpan(s), host)).kind = T!KindNumber(s.kind)
         /\ T!Reparented(T!WitSpan(s), host).scope = s.scope
<1>1. /\ s.context \in SpanContext /\ s.start \in Int /\ s.end \in Int
      /\ s.attributes \in Seq(Attribute)
      /\ s.links \in Seq(Link)
      /\ s.events \in Seq(Event)
      /\ s.status \in [status: {"unset", "ok"}] \cup [status: {"error"}, description: STRING]
  BY DEF Span, Link, Event
<1>2. DOMAIN s = {"context", "parent_span_id", "kind", "start", "end", "attributes", "events", "links",
                  "status", "scope"}
  BY DEF Span
<1>3. host.trace_id \in Id /\ host.span_id \in Id
  BY TelemetryAssumption
<1>4. PICK w : w = T!WitSpan(s)
  OBVIOUS
<1>5. PICK r : r = T!Reparented(w, host)
  OBVIOUS
<1>6. PICK o : o = T!OtlpSpan(r)
  OBVIOUS
<1>7. /\ w.context = T!WitContext(s.context) /\ w.scope = s.scope
      /\ w.start = T!Datetime(s.start) /\ w.end = T!Datetime(s.end)
      /\ w.attributes = T!WitAttributes(s.attributes)
      /\ w.events = [i \in DOMAIN s.events |-> T!WitEvent(s.events[i])]
      /\ w.links = [i \in DOMAIN s.links |-> T!WitLink(s.links[i])]
      /\ w.status = s.status /\ w.kind = s.kind /\ DOMAIN w = DOMAIN s
  BY <1>4, WitSpanIs
<1>8. DOMAIN w.context = {"trace_id", "span_id", "sampled", "is_remote"}
  <2>1. DOMAIN w.context = DOMAIN s.context
    BY <1>1, <1>7, ContextReturns
  <2>2. DOMAIN s.context = {"trace_id", "span_id", "sampled", "is_remote"}
    BY <1>1 DEF SpanContext
  <2> QED
    BY <2>1, <2>2
<1>9. /\ r.context.trace_id = host.trace_id /\ r.context.span_id = w.context.span_id
      /\ r.context.sampled = w.context.sampled
      /\ r.parent_span_id = host.span_id
      /\ \A f \in DOMAIN w \ {"context", "parent_span_id"} : r[f] = w[f]
  <2>1. {"context", "parent_span_id"} \subseteq DOMAIN w
    BY <1>2, <1>7
  <2>2. {"trace_id", "span_id", "is_remote"} \subseteq DOMAIN w.context
    BY <1>8
  <2> QED
    BY <1>5, <1>8, <2>1, <2>2, ReparentedIs
<1>10. /\ r.start = w.start /\ r.end = w.end /\ r.attributes = w.attributes /\ r.events = w.events
       /\ r.links = w.links /\ r.status = w.status /\ r.scope = w.scope /\ r.kind = w.kind
  BY <1>2, <1>7, <1>9
<1>11. PICK context, events, links, status :
         /\ context = T!OtlpContext(r.context) /\ status = T!OtlpStatus(r.status)
         /\ events = [i \in DOMAIN r.events |-> T!OtlpEvent(r.events[i])]
         /\ links = [i \in DOMAIN r.links |-> T!OtlpLink(r.links[i])]
  OBVIOUS
<1>12. /\ o.context = context /\ o.parent_span_id = T!HexDecode(r.parent_span_id)
       /\ o.start = T!Ticks(r.start) /\ o.end = T!Ticks(r.end)
       /\ o.attributes = T!OtlpAttributes(r.attributes)
       /\ o.events = events /\ o.links = links /\ o.status = status
       /\ o.kind = T!KindNumber(s.kind)
  BY <1>6, <1>7, <1>10, <1>11 DEF T!OtlpSpan
<1>13. o.context.trace_id = host.trace_id /\ o.parent_span_id = host.span_id
  BY <1>3, <1>9, <1>11, <1>12, FullIdReturns DEF T!OtlpContext
<1>14. SameId(s.context.span_id, o.context.span_id)
  <2>1. s.context.span_id \in Id
    BY <1>1 DEF SpanContext
  <2>2. r.context.span_id = T!LowerHex(s.context.span_id)
    BY <1>1, <1>7, <1>9, ContextReturns
  <2>3. o.context.span_id = T!HexDecode(r.context.span_id)
    BY <1>11, <1>12 DEF T!OtlpContext
  <2> QED
    BY <2>1, <2>2, <2>3, IdReturns
<1>15. SameAttributes(s.attributes, o.attributes)
  BY <1>1, <1>7, <1>10, <1>12, AttributesArrive
<1>16. SameInstant(s.start, o.start) /\ SameInstant(s.end, o.end)
  BY <1>1, <1>7, <1>10, <1>12, SinceEpoch
<1>17. SameFlags(s.context, o.context)
  <2>1. w.context.sampled = s.context.sampled
    BY <1>1, <1>7, ContextReturns, Zenon
  <2>2. r.context.sampled = s.context.sampled
    BY <1>9, <2>1, Zenon
  <2>3. PICK c : c = r.context
    OBVIOUS
  <2>4. o.context = T!OtlpContext(c)
    BY <1>11, <1>12, <2>3, Zenon
  <2>5. T!OtlpContext(c).flags = IF c.sampled THEN 1 ELSE 0
    BY Zenon DEF T!OtlpContext
  <2>6. c.sampled = s.context.sampled
    BY <2>2, <2>3, Zenon
  <2> QED
    BY <2>4, <2>5, <2>6, Zenon DEF SameFlags
<1>18. Len(o.links) = Len(s.links) /\ Len(o.events) = Len(s.events)
  <2>1. PICK n \in Nat : n = Len(s.links) /\ DOMAIN s.links = 1..n
    BY <1>1
  <2>2. PICK k \in Nat : k = Len(s.events) /\ DOMAIN s.events = 1..k
    BY <1>1
  <2>3. Len(o.links) = n
    BY <1>7, <1>10, <1>11, <1>12, <2>1
  <2>4. Len(o.events) = k
    BY <1>7, <1>10, <1>11, <1>12, <2>2
  <2> QED
    BY <2>1, <2>2, <2>3, <2>4
<1>19. ASSUME NEW i \in DOMAIN s.links PROVE SameLink(s.links[i], o.links[i])
  <2>1. s.links[i] \in Link
    BY <1>1
  <2>2. o.links[i] = T!OtlpLink(T!WitLink(s.links[i]))
    BY <1>7, <1>10, <1>11, <1>12
  <2> QED
    BY <2>1, <2>2, LinkReturns
<1>20. ASSUME NEW i \in DOMAIN s.events PROVE SameEvent(s.events[i], o.events[i])
  <2>1. s.events[i] \in Event
    BY <1>1
  <2>2. o.events[i] = T!OtlpEvent(T!WitEvent(s.events[i]))
    BY <1>7, <1>10, <1>11, <1>12
  <2> QED
    BY <2>1, <2>2, EventReturns
<1>21. SameStatus(s.status, o.status)
  <2>1. o.status = T!OtlpStatus(s.status)
    BY <1>7, <1>10, <1>11, <1>12
  <2>2. s.status.status \in {"unset", "ok", "error"}
    BY <1>1
  <2> QED
    BY <2>1, <2>2 DEF SameStatus, T!OtlpStatus
<1>22. SameSpan(s, o, host)
  BY <1>13, <1>14, <1>15, <1>16, <1>17, <1>18, <1>19, <1>20, <1>21 DEF SameSpan
<1> QED
  BY <1>4, <1>5, <1>6, <1>7, <1>10, <1>12, <1>22

\* Every span arrives once, under its scope.
LEMMA SpansReturn ==
  ASSUME NEW spans \in SpanBatches, NEW host \in HostSpans
  PROVE  SpansArrive(spans, host, T!ExportTraces(spans, host))
<1>1. \A i \in DOMAIN spans : spans[i] \in Span
  BY TelemetryAssumption
<1>2. PICK wit : wit = [i \in DOMAIN spans |-> T!WitSpan(spans[i])]
  OBVIOUS
<1>3. PICK sent : sent = [i \in DOMAIN wit |-> T!Reparented(wit[i], host)]
  OBVIOUS
<1>4. DOMAIN sent = DOMAIN spans
  BY <1>2, <1>3
<1>5. \A i \in DOMAIN spans :
        /\ sent[i].scope = spans[i].scope /\ SameSpan(spans[i], T!OtlpSpan(sent[i]), host)
        /\ T!OtlpSpan(sent[i]).kind = T!KindNumber(spans[i].kind)
  BY <1>1, <1>2, <1>3, SpanReturns
<1>6. PICK groups : groups = T!ByScope(sent)
  OBVIOUS
<1>7. DOMAIN groups = {spans[i].scope : i \in DOMAIN spans}
  BY <1>4, <1>5, <1>6 DEF T!ByScope
<1>8. \A c \in DOMAIN groups :
        /\ DOMAIN groups[c] = {i \in DOMAIN spans : spans[i].scope = c}
        /\ \A i \in DOMAIN groups[c] : groups[c][i] = sent[i]
  BY <1>4, <1>5, <1>6 DEF T!ByScope
<1>9. PICK request : request = T!ExportTraces(spans, host)
  OBVIOUS
<1>10. request = [c \in DOMAIN groups |-> [i \in DOMAIN groups[c] |-> T!OtlpSpan(groups[c][i])]]
  BY <1>2, <1>3, <1>6, <1>9 DEF T!ExportTraces
<1>11. DOMAIN request = DOMAIN groups
  BY <1>10
<1>12. ASSUME NEW c \in DOMAIN request
       PROVE  /\ DOMAIN request[c] = {i \in DOMAIN spans : spans[i].scope = c}
              /\ \A i \in DOMAIN request[c] : SameSpan(spans[i], request[c][i], host)
              /\ \A i, j \in DOMAIN request[c] :
                   request[c][i].kind = request[c][j].kind <=> spans[i].kind = spans[j].kind
  <2>1. /\ DOMAIN request[c] = DOMAIN groups[c]
        /\ \A i \in DOMAIN groups[c] : request[c][i] = T!OtlpSpan(groups[c][i])
    BY <1>10, <1>11
  <2>2. /\ DOMAIN groups[c] = {i \in DOMAIN spans : spans[i].scope = c}
        /\ \A i \in DOMAIN groups[c] : i \in DOMAIN spans /\ groups[c][i] = sent[i]
    BY <1>8, <1>11
  <2>3. ASSUME NEW i \in DOMAIN request[c] PROVE SameSpan(spans[i], request[c][i], host)
    <3>1. i \in DOMAIN spans /\ request[c][i] = T!OtlpSpan(sent[i])
      BY <2>1, <2>2, <2>3
    <3> QED
      BY <1>5, <3>1
  <2>4. ASSUME NEW i \in DOMAIN request[c], NEW j \in DOMAIN request[c]
        PROVE  request[c][i].kind = request[c][j].kind <=> spans[i].kind = spans[j].kind
    <3>1. i \in DOMAIN spans /\ request[c][i] = T!OtlpSpan(sent[i])
      BY <2>1, <2>2, <2>4
    <3>2. j \in DOMAIN spans /\ request[c][j] = T!OtlpSpan(sent[j])
      BY <2>1, <2>2, <2>4
    <3>3. spans[i].kind \in Range(T!WitKinds) /\ spans[j].kind \in Range(T!WitKinds)
      BY <1>1, <3>1, <3>2 DEF Span
    <3>4. request[c][i].kind = T!KindNumber(spans[i].kind) /\ request[c][j].kind = T!KindNumber(spans[j].kind)
      BY <1>5, <3>1, <3>2
    <3> QED
      BY <3>3, <3>4, KindsDiffer
  <2> QED
    BY <2>1, <2>2, <2>3, <2>4
<1> QED
  BY <1>7, <1>9, <1>11, <1>12 DEF SpansArrive

-----------------------------------------------------------------------------

\* Data is converted in one step, and nothing else is done with it.
LEMMA ArrivesNext == SdkInv /\ DataArrives /\ [ANext]_avars => DataArrives'
<1> SUFFICES ASSUME SdkInv, DataArrives, [ANext]_avars PROVE DataArrives'
  OBVIOUS
<1>1. CASE UNCHANGED avars
  BY <1>1 DEF DataArrives, Ran, avars
<1>2. CASE ExportSpans
  <2>1. PICK spans \in SpanBatches, host \in HostSpans :
          /\ given' = [algorithm |-> "spans", in |-> [spans |-> spans, host |-> host]]
          /\ result' = T!ExportTraces(spans, host)
    BY <1>2 DEF ExportSpans, Run
  <2>2. given'.in.spans = spans /\ given'.in.host = host /\ given'.algorithm = "spans"
    BY <2>1
  <2> QED
    BY <2>1, <2>2, SpansReturn DEF DataArrives, Ran
<1>3. CASE ExportMetrics
  <2>1. PICK m \in GuestMetrics : given' = [algorithm |-> "metric", in |-> m] /\ result' = T!ExportMetric(m)
    BY <1>3 DEF ExportMetrics, Run
  <2>2. given'.in = m /\ given'.algorithm = "metric"
    BY <2>1
  <2> QED
    BY <2>1, <2>2, MetricReturns DEF DataArrives, Ran
<1>4. CASE ShareResource
  <2>1. PICK r \in Resources :
          /\ given' = [algorithm |-> "resource", in |-> r]
          /\ result' = T!ResourceToOtlp(T!ResourceToWit(T!ResourceToGuest(r)))
    BY <1>4 DEF ShareResource, Run
  <2>2. given'.in = r /\ given'.algorithm = "resource"
    BY <2>1
  <2> QED
    BY <2>1, <2>2, ResourceReturns DEF DataArrives, Ran
<1>5. CASE StoreParameter
  <2>1. PICK p \in Parameters :
          given' = [algorithm |-> "parameter", in |-> p] /\ result' = V!FromSql(V!ToSql(p))
    BY <1>5 DEF StoreParameter, Run
  <2>2. given'.in = p /\ given'.algorithm = "parameter"
    BY <2>1
  <2>3. ParameterArrives(p, V!FromSql(V!ToSql(p)))
    BY ParameterReturns DEF ParameterArrives
  <2> QED
    BY <2>1, <2>2, <2>3 DEF DataArrives, Ran
<1>6. CASE SendOut
  <2>1. PICK request \in OutgoingRequests, upstream \in Upstreams :
          /\ given' = [algorithm |-> "outgoing", in |-> [request |-> request, upstream |-> upstream]]
          /\ result' = O!SendRequest(request, upstream)
    BY <1>6 DEF SendOut, Run
  <2>2. given'.in.request = request /\ given'.in.upstream = upstream /\ given'.algorithm = "outgoing"
    BY <2>1
  <2> QED
    BY <2>1, <2>2, OutgoingReturns DEF DataArrives, Ran
<1>7. CASE OneStep /\ ~(ExportSpans \/ ExportMetrics \/ ShareResource \/ StoreParameter \/ SendOut)
  BY <1>7, WhichRan DEF OneStep, Ran, DataArrives
<1>8. CASE RequestStep
  BY <1>8, RequestKept, UnderwayRan DEF DataArrives, Ran
<1> QED
  BY <1>1, <1>2, <1>3, <1>4, <1>5, <1>6, <1>7, <1>8 DEF ANext, OneStep, RequestStep

\* Whatever leaves one side arrives at the other, except for what is named.
THEOREM AlwaysDataArrives == ASpec => []DataArrives
<1>1. AInit => DataArrives
  BY DEF AInit, Unstarted, DataArrives, Ran
<1> QED
  BY <1>1, SdkAlways, ArrivesNext, PTL DEF ASpec

-----------------------------------------------------------------------------
(***************************************************************************)
(* Identity, for any number of calls, scopes and lifetimes and any bound   *)
(* on the clock and on the tokens.                                         *)
(*                                                                         *)
(* The safety properties are not inductive by themselves.  IInv adds what  *)
(* the two looks at the cache rest on: a call's instant is never ahead of  *)
(* the clock, the empty token expires at the instant zero, and a fetched   *)
(* token was issued after the instant of the call that fetched it.         *)
(***************************************************************************)
\* What is known of one call.
CallInv(c) ==
  /\ call[c] # Idle => call[c] \in Call /\ call[c].now <= clock
  /\ call[c].pc = "store" =>
       call[c].token \in 1..Len(issued) /\ issued[call[c].token].at >= call[c].now
  /\ call[c].pc = "done" =>
       /\ call[c].token \in 1..Len(issued)
       /\ call[c].until > call[c].now \/ issued[call[c].token].at >= call[c].now

\* The inductive invariant.
IInv ==
  /\ TypeOK
  /\ cache.token = NoToken => cache.expires_at = 0
  /\ \A c \in Calls : CallInv(c)

\* A token appended to those issued leaves the earlier ones where they were.
LEMMA Issued ==
  ASSUME issued \in Seq(Token), NEW t \in Token
  PROVE  /\ Append(issued, t) \in Seq(Token)
         /\ Len(Append(issued, t)) = Len(issued) + 1
         /\ \A i \in 1..Len(issued) : Append(issued, t)[i] = issued[i]
         /\ Append(issued, t)[Len(issued) + 1] = t
  OBVIOUS

\* TokenManager::new and no call under way: the invariant holds at the start.
LEMMA InitInv == Init => IInv
<1> SUFFICES ASSUME Init PROVE IInv
  OBVIOUS
<1>1. TypeOK
  BY DEF Init, TypeOK, NoToken, Idle, Token
<1>2. \A c \in Calls : CallInv(c)
  BY DEF Init, CallInv, Idle
<1> QED
  BY <1>1, <1>2 DEF Init, IInv

\* A call that is not idle is a Call; the record of an idle one has no other field.
LEMMA Busy ==
  ASSUME TypeOK, NEW c \in Calls, call[c].pc # "idle"
  PROVE  call[c] \in Call /\ call[c] # Idle
  BY DEF TypeOK, Idle, Call

\* What a call that is about to store knows of itself and of the token it fetched.
LEMMA Storing ==
  ASSUME IInv, NEW c \in Calls, call[c].pc = "store"
  PROVE  /\ call[c] \in Call /\ call[c].now <= clock /\ call[c].now \in Nat /\ clock \in Nat
         /\ call[c].token \in 1..Len(issued) /\ issued[call[c].token].at >= call[c].now
         /\ issued[call[c].token].life \in Nat
<1>1. call[c] \in Call /\ call[c] # Idle
  BY Busy DEF IInv
<1>2. call[c].now <= clock /\ call[c].now \in Nat /\ clock \in Nat
  BY <1>1 DEF IInv, TypeOK, CallInv, Call
<1>3. call[c].token \in 1..Len(issued) /\ issued[call[c].token].at >= call[c].now
  BY DEF IInv, CallInv
<1>4. issued \in Seq(Token)
  BY DEF IInv, TypeOK
<1>5. issued[call[c].token] \in Token
  BY <1>3, <1>4
<1>6. issued[call[c].token].life \in Nat
  BY <1>5 DEF Token
<1> QED
  BY <1>1, <1>2, <1>3, <1>6

\* An action that changes the call c alone, and neither the clock, the cache nor
\* the tokens, keeps the invariant if it keeps it for c.
LEMMA OneCall ==
  ASSUME IInv, NEW c \in Calls, NEW new,
         call' = [call EXCEPT ![c] = new], UNCHANGED <<clock, cache, issued>>,
         new = Idle \/ (new \in Call /\ new.now <= clock /\ CallInv(c)'),
         new \in Call => new.pc # "store" \/ new.token \in 1..Len(issued)
  PROVE  IInv'
<1>1. call'[c] = new /\ \A d \in Calls \ {c} : call'[d] = call[d]
  BY DEF IInv, TypeOK
<1>2. TypeOK'
  <2>1. call' \in [Calls -> {Idle} \cup Call]
    BY <1>1 DEF IInv, TypeOK
  <2>2. ASSUME NEW d \in Calls, call'[d].pc = "store" PROVE call'[d].token \in 1..Len(issued')
    BY <1>1, <2>2 DEF IInv, TypeOK, Idle, Call
  <2> QED
    BY <2>1, <2>2 DEF IInv, TypeOK
<1>3. ASSUME NEW d \in Calls PROVE CallInv(d)'
  <2>1. CASE d = c
    <3>1. CASE new = Idle
      BY <1>1, <2>1, <3>1 DEF CallInv, Idle
    <3> QED
      BY <2>1, <3>1
  <2>2. CASE d # c
    BY <1>1, <2>2 DEF IInv, CallInv
  <2> QED
    BY <2>1, <2>2
<1> QED
  BY <1>2, <1>3 DEF IInv

\* Every step keeps the invariant: one step of the proof per action.
LEMMA NextInv == IInv /\ [Next]_vars => IInv'
<1> SUFFICES ASSUME IInv, [Next]_vars PROVE IInv'
  OBVIOUS
<1>1. CASE UNCHANGED vars
  BY <1>1 DEF vars, IInv, TypeOK, CallInv
<1>2. CASE Tick
  <2>1. TypeOK'
    BY <1>2 DEF Tick, IInv, TypeOK
  <2>2. ASSUME NEW c \in Calls PROVE CallInv(c)'
    BY <1>2 DEF Tick, IInv, TypeOK, CallInv, Call
  <2> QED
    BY <1>2, <2>1, <2>2 DEF Tick, IInv
<1>3. ASSUME NEW c \in Calls, Start(c) PROVE IInv'
  <2>1. PICK s \in Scopes : call' = [call EXCEPT ![c] = [pc |-> "look", scope |-> s, now |-> clock,
                                                        token |-> NoToken, until |-> 0]]
    BY <1>3 DEF Start
  <2> DEFINE new == [pc |-> "look", scope |-> s, now |-> clock, token |-> NoToken, until |-> 0]
  <2>2. new \in Call /\ new.now <= clock /\ new.pc = "look"
    BY DEF IInv, TypeOK, Call, NoToken
  <2>3. call'[c] = new
    BY <2>1 DEF IInv, TypeOK
  <2>4. CallInv(c)'
    BY <1>3, <2>2, <2>3 DEF CallInv, Start
  <2> HIDE DEF new
  <2> QED
    BY <1>3, <2>1, <2>2, <2>4, OneCall DEF Start, new
<1>4. ASSUME NEW c \in Calls, Look(c) PROVE IInv'
  <2>1. call[c] \in Call /\ call[c].now <= clock /\ call[c].now \in Nat
    BY <1>4, Busy DEF Look, IInv, CallInv, Call
  <2>2. CASE Valid(c)
    <3> DEFINE new == [call[c] EXCEPT !.pc = "done", !.token = cache.token, !.until = cache.expires_at]
    <3>1. call' = [call EXCEPT ![c] = new]
      BY <1>4, <2>1, <2>2 DEF Look, IInv, TypeOK
    <3>2. /\ cache.token \in 1..Len(issued) /\ cache.token \in Nat
          /\ cache.expires_at \in Nat /\ cache.expires_at > call[c].now
      BY <2>1, <2>2 DEF Valid, IInv, TypeOK, NoToken
    <3>3. new \in Call /\ new.now = call[c].now /\ new.pc = "done" /\ new.token = cache.token
          /\ new.until = cache.expires_at
      BY <2>1, <3>2 DEF Call
    <3>4. call'[c] = new
      BY <3>1 DEF IInv, TypeOK
    <3> HIDE DEF new
    <3>5. CallInv(c)'
      BY <1>4, <2>1, <3>2, <3>3, <3>4 DEF CallInv, Look
    <3> QED
      BY <1>4, <2>1, <3>1, <3>3, <3>5, OneCall DEF Look
  <2>3. CASE ~Valid(c)
    <3> DEFINE new == [call[c] EXCEPT !.pc = "fetch"]
    <3>1. call' = [call EXCEPT ![c] = new]
      BY <1>4, <2>3 DEF Look, IInv, TypeOK
    <3>2. new \in Call /\ new.now = call[c].now /\ new.pc = "fetch"
      BY <2>1 DEF Call
    <3>3. call'[c] = new
      BY <3>1 DEF IInv, TypeOK
    <3> HIDE DEF new
    <3>4. CallInv(c)'
      BY <1>4, <2>1, <3>2, <3>3 DEF CallInv, Look
    <3> QED
      BY <1>4, <2>1, <3>1, <3>2, <3>4, OneCall DEF Look
  <2> QED
    BY <2>2, <2>3
<1>5. ASSUME NEW c \in Calls, Fetch(c) PROVE IInv'
  <2>1. call[c] \in Call /\ call[c].now <= clock /\ call[c].now \in Nat /\ clock \in Nat
    BY <1>5, Busy DEF Fetch, IInv, TypeOK, CallInv, Call
  <2>2. CASE call' = [call EXCEPT ![c].pc = "err"] /\ UNCHANGED issued
    <3> DEFINE new == [call[c] EXCEPT !.pc = "err"]
    <3>1. call' = [call EXCEPT ![c] = new]
      BY <2>2 DEF IInv, TypeOK
    <3>2. new \in Call /\ new.now = call[c].now /\ new.pc = "err"
      BY <2>1 DEF Call
    <3>3. call'[c] = new
      BY <3>1 DEF IInv, TypeOK
    <3> HIDE DEF new
    <3>4. CallInv(c)'
      BY <1>5, <2>1, <2>2, <3>2, <3>3 DEF CallInv, Fetch
    <3> QED
      BY <1>5, <2>1, <2>2, <3>1, <3>2, <3>4, OneCall DEF Fetch
  <2>3. CASE /\ \E life \in Lives :
                  issued' = Append(issued, [scope |-> call[c].scope, life |-> life, at |-> clock])
             /\ Fetched(c)
    <3>1. PICK life \in Lives :
            issued' = Append(issued, [scope |-> call[c].scope, life |-> life, at |-> clock])
      BY <2>3
    <3> DEFINE t == [scope |-> call[c].scope, life |-> life, at |-> clock]
               new == [call[c] EXCEPT !.pc = "store", !.token = Len(issued) + 1]
    <3>2. t \in Token /\ t.at = clock
      BY <2>1, IdentityAssumption DEF Token, Call
    <3>3. issued' = Append(issued, t) /\ issued \in Seq(Token)
      BY <3>1 DEF IInv, TypeOK
    <3> HIDE DEF t
    <3>4. /\ issued' \in Seq(Token) /\ Len(issued') = Len(issued) + 1 /\ Len(issued) \in Nat
          /\ \A i \in 1..Len(issued) : issued'[i] = issued[i]
          /\ issued'[Len(issued) + 1].at = clock
      BY <3>2, <3>3, Issued
    <3>5. call' = [call EXCEPT ![c] = new]
      BY <2>3 DEF Fetched, IInv, TypeOK
    <3>6. new \in Call /\ new.now = call[c].now /\ new.pc = "store" /\ new.token = Len(issued) + 1
      <4>1. Len(issued) + 1 \in Nat
        BY <3>4
      <4> QED
        BY <2>1, <4>1 DEF Call
    <3> HIDE DEF new
    <3>7. call'[c] = new /\ \A d \in Calls \ {c} : call'[d] = call[d]
      BY <3>5 DEF IInv, TypeOK
    <3>8. clock' = clock /\ cache' = cache
      BY <1>5 DEF Fetch
    <3>9. TypeOK'
      <4>1. call' \in [Calls -> {Idle} \cup Call]
        BY <3>5, <3>6 DEF IInv, TypeOK
      <4>2. ASSUME NEW d \in Calls, call'[d].pc = "store" PROVE call'[d].token \in 1..Len(issued')
        BY <3>4, <3>6, <3>7, <4>2 DEF IInv, TypeOK
      <4>3. cache' \in [token: 0..Len(issued'), expires_at: Nat]
        BY <3>4, <3>8 DEF IInv, TypeOK
      <4> QED
        BY <3>4, <3>8, <4>1, <4>2, <4>3 DEF IInv, TypeOK
    <3>10. ASSUME NEW d \in Calls PROVE CallInv(d)'
      <4>1. CASE d = c
        BY <2>1, <3>4, <3>6, <3>7, <3>8, <4>1 DEF CallInv
      <4>2. CASE d # c
        BY <3>4, <3>7, <3>8, <4>2 DEF CallInv, IInv
      <4> QED
        BY <4>1, <4>2
    <3> QED
      BY <3>8, <3>9, <3>10 DEF IInv
  <2> QED
    BY <1>5, <2>2, <2>3 DEF Fetch
<1>6. ASSUME NEW c \in Calls, Store(c) PROVE IInv'
  <2>1. /\ call[c] \in Call /\ call[c].now <= clock /\ call[c].now \in Nat /\ clock \in Nat
        /\ call[c].token \in 1..Len(issued) /\ issued[call[c].token].at >= call[c].now
        /\ issued[call[c].token].life \in Nat
    BY <1>6, Storing DEF Store
  <2>2. clock' = clock /\ issued' = issued
    BY <1>6 DEF Store
  <2>3. /\ cache'.token \in 1..Len(issued) /\ cache'.token \in Nat /\ cache'.expires_at \in Nat
        /\ cache' \in [token: 0..Len(issued), expires_at: Nat]
        /\ cache'.expires_at > call[c].now \/ issued[cache'.token].at >= call[c].now
    <3>1. CASE StillStale(c)
      BY <1>6, <2>1, <3>1 DEF Store
    <3>2. CASE ~StillStale(c)
      BY <1>6, <2>1, <3>2 DEF Store, StillStale, IInv, TypeOK, NoToken
    <3> QED
      BY <3>1, <3>2
  <2> DEFINE new == [call[c] EXCEPT !.pc = "done", !.token = cache'.token, !.until = cache'.expires_at]
  <2>4. call' = [call EXCEPT ![c] = new]
    BY <1>6 DEF Store, IInv, TypeOK
  <2>5. new \in Call /\ new.now = call[c].now /\ new.pc = "done" /\ new.token = cache'.token
        /\ new.until = cache'.expires_at
    BY <2>1, <2>3 DEF Call
  <2> HIDE DEF new
  <2>6. call'[c] = new /\ \A d \in Calls \ {c} : call'[d] = call[d]
    BY <2>4 DEF IInv, TypeOK
  <2>7. TypeOK'
    <3>1. call' \in [Calls -> {Idle} \cup Call]
      BY <2>4, <2>5 DEF IInv, TypeOK
    <3>2. ASSUME NEW d \in Calls, call'[d].pc = "store" PROVE call'[d].token \in 1..Len(issued')
      BY <2>2, <2>5, <2>6, <3>2 DEF IInv, TypeOK
    <3> QED
      BY <2>2, <2>3, <3>1, <3>2 DEF IInv, TypeOK
  <2>8. ASSUME NEW d \in Calls PROVE CallInv(d)'
    <3>1. CASE d = c
      BY <2>1, <2>2, <2>3, <2>5, <2>6, <3>1 DEF CallInv
    <3>2. CASE d # c
      BY <2>2, <2>6, <3>2 DEF CallInv, IInv
    <3> QED
      BY <3>1, <3>2
  <2>9. cache'.token # NoToken
    BY <2>3 DEF NoToken
  <2> QED
    BY <2>7, <2>8, <2>9 DEF IInv
<1>7. ASSUME NEW c \in Calls, Leave(c) PROVE IInv'
  <2> DEFINE new == Idle
  <2>1. new = Idle /\ new \notin Call
    BY DEF Idle, Call
  <2>2. call' = [call EXCEPT ![c] = new] /\ UNCHANGED <<clock, cache, issued>>
    BY <1>7 DEF Leave
  <2> HIDE DEF new
  <2> QED
    BY <2>1, <2>2, OneCall
<1> QED
  BY <1>1, <1>2, <1>3, <1>4, <1>5, <1>6, <1>7 DEF Next

\* The invariant holds in every reachable state.
LEMMA AlwaysIInv == Spec => []IInv
<1> QED
  BY InitInv, NextInv, PTL DEF Spec

\* The variables keep their types: a call that is about to store holds a token that
\* was issued, and the cache names one or none.
THEOREM TypeCorrect == Spec => []TypeOK
<1>1. IInv => TypeOK
  BY DEF IInv
<1> QED
  BY <1>1, AlwaysIInv, PTL

\* No caller of get_token is given the empty token the cache starts with.
THEOREM NeverAnEmptyToken == Spec => []NeverEmpty
<1>1. IInv => NeverEmpty
  BY DEF IInv, CallInv, NeverEmpty, NoToken
<1> QED
  BY <1>1, AlwaysIInv, PTL

\* A token handed out was good at the instant the call began, or issued since.
THEOREM AlwaysGoodWhenAsked == Spec => []GoodWhenAsked
<1>1. IInv => GoodWhenAsked
  BY DEF IInv, TypeOK, CallInv, GoodWhenAsked
<1> QED
  BY <1>1, AlwaysIInv, PTL

\* The second look keeps the expiry of the cached token from going back.
THEOREM NoStepBack == Spec => ExpiryNeverRecedes
<1>1. IInv /\ [Next]_vars => [cache'.expires_at >= cache.expires_at]_vars
  <2> SUFFICES ASSUME IInv, Next PROVE cache'.expires_at >= cache.expires_at
    BY DEF vars
  <2>1. cache.expires_at \in Nat
    BY DEF IInv, TypeOK
  <2>2. CASE cache' = cache
    BY <2>1, <2>2
  <2>3. ASSUME NEW c \in Calls, Store(c) PROVE cache'.expires_at >= cache.expires_at
    <3>1. /\ call[c] \in Call /\ call[c].now <= clock /\ call[c].now \in Nat /\ clock \in Nat
          /\ issued[call[c].token].life \in Nat
      BY <2>3, Storing DEF Store
    <3>2. CASE StillStale(c)
      <4>1. cache'.expires_at = clock + issued[call[c].token].life
        BY <2>3, <3>2 DEF Store
      <4> QED
        BY <2>1, <3>1, <3>2, <4>1 DEF StillStale
    <3>3. CASE ~StillStale(c)
      BY <2>1, <2>3, <3>3 DEF Store
    <3> QED
      BY <3>2, <3>3
  <2> QED
    BY <2>2, <2>3 DEF Next, Tick, Start, Look, Fetch, Leave
<1> QED
  BY <1>1, AlwaysIInv, PTL DEF Spec, ExpiryNeverRecedes
=============================================================================
