-------------------------- MODULE ApiServiceProofs --------------------------
(***************************************************************************)
(* Proofs about ApiService, for any number of requests, sessions, keys,    *)
(* contents and intents, any capacity of the cache and lifetime of a key.  *)
(*                                                                         *)
(* The cache has one entry per key, and each is that of a request that has *)
(* come and, if it holds an answer, of one that has been executed: both    *)
(* survive whatever the cache loses (GatewayInv).  A route makes one       *)
(* change and logs it itself (BrokerInv).  Two requests whose routes have  *)
(* begun have different keys, unless the cache has lost the key in between *)
(* (OnceInv); so a key that it has kept stands for one change.             *)
(***************************************************************************)
EXTENDS ApiService, FiniteSetTheorems, SequenceTheorems, WellFoundedInduction, TLAPS

-----------------------------------------------------------------------------
(* Facts about data.  Induction over the naturals is stated of a set, not of an
   operator, so that the provers can use it: take the naturals with the
   property. *)

(* The order of the naturals is well founded, as a relation among others. *)
LEMMA LessThan == \E R : IsWellFoundedOn(R, Nat) /\ \A i, j \in Nat : i < j => <<i, j>> \in R
<1> DEFINE R == OpToRel(<, Nat)
<1>1. IsWellFoundedOn(R, Nat)
  BY NatLessThanWellFounded
<1>2. \A i, j \in Nat : i < j => <<i, j>> \in R
  BY DEF OpToRel
<1> HIDE DEF R
<1> QED BY <1>1, <1>2

(* A set of naturals that is not empty has a least element. *)
LEMMA Least == ASSUME NEW T \in SUBSET Nat, NEW n \in T PROVE \E m \in T : \A k \in T : m <= k
<1>1. PICK R : IsWellFoundedOn(R, Nat) /\ \A i, j \in Nat : i < j => <<i, j>> \in R
  BY LessThan
<1>2. \E x \in T : \A y \in T : ~(<<y, x>> \in R)
  <2>1. T \subseteq Nat /\ T # {} /\ IsWellFoundedOn(R, Nat)
    BY <1>1
  <2> QED BY <2>1, WFMin, Zenon
<1>3. PICK x \in T : \A y \in T : ~(<<y, x>> \in R)
  BY <1>2
<1>4. \A y \in T : x \in Nat /\ y \in Nat /\ ~(y < x)
  BY <1>1, <1>3
<1> QED BY <1>4

(* A set that has zero and the successor of each of its elements has them all. *)
LEMMA Induct ==
    ASSUME NEW S, 0 \in S, \A n \in Nat : n \in S => n + 1 \in S
    PROVE  Nat \subseteq S
<1> SUFFICES ASSUME NEW n \in Nat, n \notin S PROVE FALSE
  OBVIOUS
<1> DEFINE T == {k \in Nat : k \notin S}
<1>1. PICK m \in T : \A k \in T : m <= k
  BY Least
<1>2. m # 0 /\ m - 1 \in Nat
  BY <1>1
<1>3. m - 1 \in S
  BY <1>1, <1>2
<1>4. (m - 1) + 1 \in S
  BY <1>2, <1>3
<1> QED BY <1>1, <1>4

(* A set without two different elements. *)
LEMMA AtMostOne ==
    ASSUME NEW S, \A x, y \in S : x = y PROVE IsFiniteSet(S) /\ Cardinality(S) <= 1
<1>1. CASE S = {}
  BY <1>1, FS_EmptySet
<1>2. CASE S # {}
  <2>1. PICK x : S = {x}
    BY <1>2
  <2>2. IsFiniteSet({x}) /\ Cardinality({x}) = 1
    BY FS_Singleton, Zenon
  <2> QED BY <2>1, <2>2
<1> QED BY <1>1, <1>2

-----------------------------------------------------------------------------
(* What Keep computes: one step of it, and that there is a function that takes
   each of them. *)
KeepStep(q, places, f, n) ==
    IF n = 0 THEN <<>> ELSE f[n - 1] \o (IF n \in places THEN <<q[n]>> ELSE <<>>)

(* A sequence that grows by one entry keeps the others where they were. *)
LEMMA OneMore ==
    ASSUME NEW T, NEW s \in Seq(T), NEW x \in T
    PROVE  /\ s \o <<x>> \in Seq(T)
           /\ Len(s \o <<x>>) = Len(s) + 1
           /\ \A i \in 1..Len(s) + 1 : (s \o <<x>>)[i] = IF i = Len(s) + 1 THEN x ELSE s[i]
<1> DEFINE one == <<x>>
<1>1. one \in Seq(T) /\ Len(one) = 1 /\ one[1] = x
  OBVIOUS
<1> DEFINE more == s \o one  l == Len(s)
<1> HIDE DEF one
<1>2. /\ more \in Seq(T) /\ Len(more) = l + Len(one)
      /\ \A i \in 1..l + Len(one) : more[i] = IF i <= l THEN s[i] ELSE one[i - l]
  BY <1>1, ConcatProperties, Zenon
<1>5. l \in Nat
  OBVIOUS
<1> HIDE DEF more, l
<1>3. Len(more) = l + 1
  BY <1>1, <1>2
<1>4. ASSUME NEW i \in 1..l + 1 PROVE more[i] = IF i = l + 1 THEN x ELSE s[i]
  <2>1. CASE i = l + 1
    <3>1. i - l = 1 /\ ~(i <= l)
      BY <1>5, <2>1
    <3> QED BY <1>1, <1>2, <2>1, <3>1
  <2>2. CASE i # l + 1
    <3>1. i <= l
      BY <1>5, <2>2
    <3> QED BY <1>1, <1>2, <2>2, <3>1
  <2> QED BY <2>1, <2>2
<1> QED BY <1>2, <1>3, <1>4, Zenon DEF one, more, l

(* A place in a range that is not the last one, and not the first, lies with the
   one before it in the range without the last. *)
LEMMA BelowTheLast ==
    ASSUME NEW l \in Nat, NEW n, n = l + 1, NEW v \in 2..n, v # n
    PROVE  v \in 2..l /\ v \in 1..n /\ v - 1 \in 1..n /\ v - 1 # n
OBVIOUS

(* Keep is the last value of such a function, which there is by induction. *)
LEMMA KeepFunction ==
    ASSUME NEW T, NEW q \in Seq(T), NEW places
    PROVE  \E f : f = [n \in 0..Len(q) |-> KeepStep(q, places, f, n)] /\ Keep(q, places) = f[Len(q)]
<1> DEFINE Upto(m) == \E f : f = [n \in 0..m |-> KeepStep(q, places, f, n)]
           S == {m \in Nat : Upto(m)}
<1>1. 0 \in S
  <2> DEFINE f == [n \in 0..0 |-> <<>>]
  <2>1. f = [n \in 0..0 |-> KeepStep(q, places, f, n)]
    BY DEF KeepStep
  <2> QED BY <2>1
<1>2. ASSUME NEW m \in Nat, m \in S PROVE m + 1 \in S
  <2>1. PICK f : f = [n \in 0..m |-> KeepStep(q, places, f, n)]
    BY <1>2
  <2> DEFINE g == [n \in 0..m + 1 |-> IF n <= m THEN f[n] ELSE KeepStep(q, places, f, n)]
  <2>2. \A n \in 0..m : f[n] = KeepStep(q, places, f, n)
    BY <2>1
  <2>3. \A n \in 0..m : g[n] = f[n]
    OBVIOUS
  <2>4. \A n \in 0..m + 1 : KeepStep(q, places, f, n) = KeepStep(q, places, g, n)
    BY <2>3 DEF KeepStep
  <2>5. \A n \in 0..m + 1 : g[n] = KeepStep(q, places, g, n)
    BY <2>2, <2>4
  <2>6. g = [n \in 0..m + 1 |-> g[n]]
    OBVIOUS
  <2> HIDE DEF g
  <2>7. g = [n \in 0..m + 1 |-> KeepStep(q, places, g, n)]
    BY <2>5, <2>6
  <2> QED BY <2>7
<1>3. Nat \subseteq S
  <2> HIDE DEF S
  <2> QED BY <1>1, <1>2, Induct
<1>4. Upto(Len(q))
  BY <1>3
<1> DEFINE Fits(f) == f = [n \in 0..Len(q) |-> IF n = 0 THEN <<>>
                          ELSE f[n - 1] \o (IF n \in places THEN <<q[n]>> ELSE <<>>)]
<1>5. \E f : Fits(f)
  BY <1>4 DEF KeepStep
<1>6. Fits(CHOOSE f : Fits(f))
  <2> HIDE DEF Fits
  <2> QED BY <1>5
<1>7. Keep(q, places) = (CHOOSE f : Fits(f))[Len(q)]
  BY DEF Keep
<1> QED BY <1>6, <1>7 DEF KeepStep

(* These are the entries of q at those of the places that are among the first m,
   all of them, in their order. *)
Selects(kept, q, places, m) ==
    \E at \in [1..Len(kept) -> places \cap 1..m] :
        /\ \A i \in 1..Len(kept) : kept[i] = q[at[i]]
        /\ \A i, j \in 1..Len(kept) : i < j => at[i] < at[j]
        /\ \A n \in places \cap 1..m : \E i \in 1..Len(kept) : at[i] = n

(* So the entries that are kept are those, by induction over their places. *)
LEMMA KeptInOrder ==
    ASSUME NEW T, NEW q \in Seq(T), NEW places
    PROVE  Keep(q, places) \in Seq(T) /\ Selects(Keep(q, places), q, places, Len(q))
<1>1. PICK f : f = [n \in 0..Len(q) |-> KeepStep(q, places, f, n)] /\ Keep(q, places) = f[Len(q)]
  BY KeepFunction
<1> DEFINE Good(m) == f[m] \in Seq(T) /\ Selects(f[m], q, places, m)
           S == {m \in Nat : m <= Len(q) => Good(m)}
<1>2. \A n \in 0..Len(q) : f[n] = KeepStep(q, places, f, n)
  BY <1>1
<1>3. Len(q) \in Nat /\ DOMAIN q = 1..Len(q)
  OBVIOUS
<1>4. 0 \in S
  <2>1. 0 \in 0..Len(q)
    BY <1>3
  <2>2. f[0] = KeepStep(q, places, f, 0)
    BY <1>2, <2>1
  <2>3. f[0] = <<>>
    BY <2>2 DEF KeepStep
  <2>4. Selects(<<>>, q, places, 0)
    <3> DEFINE at == [i \in {} |-> i]
    <3>1. Len(<<>>) = 0 /\ 1..0 = {}
      OBVIOUS
    <3>2. at \in [1..Len(<<>>) -> places \cap 1..0]
      BY <3>1
    <3> QED BY <3>1, <3>2 DEF Selects
  <2>5. <<>> \in Seq(T)
    OBVIOUS
  <2> QED BY <2>3, <2>4, <2>5
<1>5. ASSUME NEW m \in Nat, m \in S PROVE m + 1 \in S
  <2> SUFFICES ASSUME m + 1 <= Len(q) PROVE Good(m + 1)
    OBVIOUS
  <2> DEFINE kept == f[m]
  <2>1. kept \in Seq(T) /\ Selects(kept, q, places, m)
    BY <1>3, <1>5
  <2>2. f[m + 1] = kept \o (IF m + 1 \in places THEN <<q[m + 1]>> ELSE <<>>)
    <3>1. m + 1 \in 0..Len(q) /\ m + 1 # 0 /\ (m + 1) - 1 = m
      BY <1>3
    <3>2. f[m + 1] = KeepStep(q, places, f, m + 1)
      BY <1>2, <3>1
    <3> QED BY <3>1, <3>2 DEF KeepStep
  <2>3. PICK at \in [1..Len(kept) -> places \cap 1..m] :
                   /\ \A i \in 1..Len(kept) : kept[i] = q[at[i]]
                   /\ \A i, j \in 1..Len(kept) : i < j => at[i] < at[j]
                   /\ \A n \in places \cap 1..m : \E i \in 1..Len(kept) : at[i] = n
    BY <2>1 DEF Selects
  <2>4. kept \in Seq(T) /\ Len(kept) \in Nat /\ q[m + 1] \in T
    BY <1>3, <2>1
  <2> HIDE DEF kept
  <2>5. CASE m + 1 \in places
    <3> DEFINE l == Len(kept) + 1
               next == [i \in 1..l |-> IF i = l THEN m + 1 ELSE at[i]]
               new == kept \o <<q[m + 1]>>
    <3>1. f[m + 1] = new
      BY <2>2, <2>5
    <3>2. new \in Seq(T) /\ Len(new) = l /\ \A i \in 1..l : new[i] = IF i = l THEN q[m + 1] ELSE kept[i]
      BY <2>4, OneMore
    <3>3. next \in [1..l -> places \cap 1..m + 1]
      <4>1. \A i \in 1..l : i # l => i \in 1..Len(kept)
        BY <2>4
      <4>2. \A i \in 1..Len(kept) : at[i] \in places \cap 1..m + 1
        <5>1. 1..m \subseteq 1..m + 1
          BY <1>5
        <5>2. \A i \in 1..Len(kept) : at[i] \in places \cap 1..m
          BY <2>3, Zenon
        <5> QED BY <5>1, <5>2, Zenon
      <4>3. m + 1 \in places \cap 1..m + 1
        BY <2>5
      <4> QED BY <4>1, <4>2, <4>3
    <3> HIDE DEF new
    <3>4. \A i \in 1..l : new[i] = q[next[i]]
      <4> SUFFICES ASSUME NEW i \in 1..l PROVE new[i] = q[next[i]]
        OBVIOUS
      <4>1. CASE i = l
        BY <3>2, <4>1
      <4>2. CASE i # l
        <5>1. i \in 1..Len(kept)
          BY <2>4, <4>2
        <5> QED BY <2>3, <3>2, <4>2, <5>1
      <4> QED BY <4>1, <4>2
    <3>5. \A i, j \in 1..l : i < j => next[i] < next[j]
      <4> SUFFICES ASSUME NEW i \in 1..l, NEW j \in 1..l, i < j PROVE next[i] < next[j]
        OBVIOUS
      <4>1. i \in 1..Len(kept) /\ at[i] \in 1..m /\ next[i] = at[i]
        BY <2>3, <2>4
      <4>2. CASE j = l
        BY <4>1, <4>2
      <4>3. CASE j # l
        <5>1. j \in 1..Len(kept)
          BY <2>4, <4>3
        <5> QED BY <2>3, <4>1, <4>3, <5>1
      <4> QED BY <4>2, <4>3
    <3>6. \A n \in places \cap 1..m + 1 : \E i \in 1..l : next[i] = n
      <4> SUFFICES ASSUME NEW n \in places \cap 1..m + 1 PROVE \E i \in 1..l : next[i] = n
        OBVIOUS
      <4>1. CASE n = m + 1
        <5>1. l \in 1..l /\ next[l] = n
          BY <2>4, <4>1
        <5> QED BY <5>1
      <4>2. CASE n # m + 1
        <5>1. PICK i \in 1..Len(kept) : at[i] = n
          BY <2>3, <4>2
        <5>2. i \in 1..l /\ next[i] = n
          BY <2>4, <5>1
        <5> QED BY <5>2
      <4> QED BY <4>1, <4>2
    <3> HIDE DEF next
    <3>7. Selects(new, q, places, m + 1)
      <4>1. next \in [1..Len(new) -> places \cap 1..m + 1]
        BY <3>2, <3>3
      <4>2. 1..Len(new) = 1..l
        BY <3>2
      <4> HIDE DEF l
      <4>3. \A i \in 1..Len(new) : new[i] = q[next[i]]
        BY <3>4, <4>2
      <4>4. \A i, j \in 1..Len(new) : i < j => next[i] < next[j]
        BY <3>5, <4>2
      <4>5. \A n \in places \cap 1..m + 1 : \E i \in 1..Len(new) : next[i] = n
        BY <3>6, <4>2
      <4> QED BY <4>1, <4>3, <4>4, <4>5, Zenon DEF Selects
    <3> HIDE DEF l
    <3> QED BY <3>1, <3>2, <3>7
  <2>6. CASE m + 1 \notin places
    <3>1. f[m + 1] = kept
      BY <2>2, <2>4, <2>6
    <3>2. places \cap 1..m + 1 = places \cap 1..m
      BY <2>6
    <3>3. Selects(kept, q, places, m + 1)
      BY <2>1, <3>2, Zenon DEF Selects
    <3> QED BY <2>1, <3>1, <3>3, Zenon
  <2> QED BY <2>5, <2>6
<1>6. Nat \subseteq S
  <2> HIDE DEF S
  <2> QED BY <1>4, <1>5, Induct
<1>7. Good(Len(q))
  BY <1>3, <1>6
<1> QED BY <1>1, <1>7

-----------------------------------------------------------------------------
(* The gateway. *)
Distinct(entries) == \A i, j \in DOMAIN entries : entries[i].slot = entries[j].slot => i = j

(* A request has come with this key of its session and this content. *)
Came(slot, content) ==
    \E q \in Requests :
        request[q].pc # "new" /\ request[q].slot = slot /\ request[q].content = content

Executed(q, slot, content) ==
    /\ q \in Requests /\ request[q].answer = "executed"
    /\ request[q].slot = slot /\ request[q].content = content

EntryIsOwn(e) ==
    Came(e.slot, e.content) /\ (e.of # None => Executed(e.of, e.slot, e.content))

AnswerIsOwn(r) ==
    LET me == request[r] IN
    /\ me.pc # "done" => me.answer = None
    /\ me.pc # "new" => me.slot \in Slots /\ me.content \in Contents
    /\ me.answer = "replayed" => Executed(me.of, me.slot, me.content)
    /\ me.answer = "conflict" => \E content : content # me.content /\ Came(me.slot, content)

(* One entry per key; entries and answers are those of requests that came. *)
GatewayInv ==
    /\ sessions \in [Sessions -> {"new", "live", "ended"}]
    /\ cache \in Seq(Entry) /\ Distinct(cache)
    /\ request \in [Requests -> Request]
    /\ \A i \in DOMAIN cache : EntryIsOwn(cache[i])
    /\ \A r \in Requests : AnswerIsOwn(r)

(* What has come stays, and what has been executed stays executed. *)
Later ==
    \A q \in Requests :
        /\ request[q].pc # "new" => /\ request'[q].pc # "new"
                                    /\ request'[q].slot = request[q].slot
                                    /\ request'[q].content = request[q].content
        /\ request[q].answer = "executed" => request'[q].answer = "executed"

(* So what an entry of the cache vouches for stays true. *)
LEMMA Lasting ==
    ASSUME GatewayInv, Later
    PROVE  /\ \A slot, content : Came(slot, content) => Came(slot, content)'
           /\ \A q, slot, content : Executed(q, slot, content) => Executed(q, slot, content)'
           /\ \A e : EntryIsOwn(e) => EntryIsOwn(e)'
<1>1. \A slot, content : Came(slot, content) => Came(slot, content)'
  BY DEF Later, Came
<1>2. \A q, slot, content : Executed(q, slot, content) => Executed(q, slot, content)'
  <2> SUFFICES ASSUME NEW q, NEW slot, NEW content, Executed(q, slot, content)
               PROVE  Executed(q, slot, content)'
    OBVIOUS
  <2>1. q \in Requests /\ request[q].answer = "executed"
    BY DEF Executed
  <2>2. request[q].pc # "new"
    BY <2>1, GatewayAssumption DEF GatewayInv, AnswerIsOwn, Answers
  <2> QED BY <2>1, <2>2 DEF Executed, Later
<1> QED BY <1>1, <1>2 DEF EntryIsOwn

(* The entries of `new' are different ones of `old'. *)
Within(new, old) ==
    \E at \in [DOMAIN new -> DOMAIN old] :
        /\ \A i \in DOMAIN new : new[i] = old[at[i]]
        /\ \A i, j \in DOMAIN new : at[i] = at[j] => i = j

(* Entries that are taken away leave no key twice, and add none. *)
LEMMA DistinctWithin ==
    ASSUME NEW new, NEW old, Within(new, old)
    PROVE  /\ Distinct(old) => Distinct(new)
           /\ \A i \in DOMAIN new : \E k \in DOMAIN old : new[i] = old[k]
BY DEF Within, Distinct

(* Keep takes entries away. *)
LEMMA KeepWithin ==
    ASSUME NEW T, NEW q \in Seq(T), NEW places
    PROVE  Keep(q, places) \in Seq(T) /\ Within(Keep(q, places), q)
<1> DEFINE kept == Keep(q, places)
<1>1. kept \in Seq(T) /\ Selects(kept, q, places, Len(q))
  BY KeptInOrder
<1> HIDE DEF kept
<1>2. PICK at \in [1..Len(kept) -> places \cap 1..Len(q)] :
          /\ \A i \in 1..Len(kept) : kept[i] = q[at[i]]
          /\ \A i, j \in 1..Len(kept) : i < j => at[i] < at[j]
  BY <1>1 DEF Selects
<1>3. DOMAIN kept = 1..Len(kept) /\ DOMAIN q = 1..Len(q) /\ Len(kept) \in Nat
  BY <1>1
<1>4. at \in [DOMAIN kept -> DOMAIN q]
  BY <1>2, <1>3
<1>5. \A i, j \in DOMAIN kept : at[i] = at[j] => i = j
  <2> SUFFICES ASSUME NEW i \in 1..Len(kept), NEW j \in 1..Len(kept), at[i] = at[j] PROVE i = j
    BY <1>3
  <2>1. at[i] \in Int /\ at[j] \in Int
    BY <1>2
  <2>2. ~(i < j) /\ ~(j < i)
    BY <1>2, <2>1
  <2> QED BY <1>3, <2>2
<1>6. \A i \in DOMAIN kept : kept[i] = q[at[i]]
  BY <1>2, <1>3
<1>7. Within(kept, q)
  BY <1>4, <1>5, <1>6, Zenon DEF Within
<1> QED BY <1>1, <1>7 DEF kept

(* The keys that are kept are those of the entries that have time left. *)
LEMMA FreshHas ==
    ASSUME NEW q \in Seq(Entry)
    PROVE  SlotsIn(Fresh(q)) = {q[i].slot : i \in {k \in DOMAIN q : q[k].ttl > 0}}
<1> DEFINE places == {k \in DOMAIN q : q[k].ttl > 0}
           kept == Keep(q, places)
<1>1. kept \in Seq(Entry) /\ Selects(kept, q, places, Len(q))
  BY KeptInOrder
<1> HIDE DEF kept
<1>2. PICK at \in [1..Len(kept) -> places \cap 1..Len(q)] :
          /\ \A i \in 1..Len(kept) : kept[i] = q[at[i]]
          /\ \A n \in places \cap 1..Len(q) : \E i \in 1..Len(kept) : at[i] = n
  BY <1>1 DEF Selects
<1>3. DOMAIN kept = 1..Len(kept) /\ places \cap 1..Len(q) = places
  BY <1>1
<1> HIDE DEF places
<1>4. SlotsIn(kept) = {q[i].slot : i \in places}
  <2> DEFINE D == DOMAIN kept  here(i) == kept[i].slot  there(k) == q[k].slot
  <2>1. \A i \in D : \E k \in places : here(i) = there(k)
    BY <1>2, <1>3
  <2>2. \A k \in places : \E i \in D : here(i) = there(k)
    BY <1>2, <1>3
  <2> HIDE DEF D, here, there
  <2>3. {here(i) : i \in D} = {there(k) : k \in places}
    BY <2>1, <2>2
  <2> QED BY <2>3 DEF SlotsIn, D, here, there
<1> QED BY <1>4 DEF Fresh, kept, places

(* A step that takes entries away and lets requests go on. *)
LEMMA EntriesGo ==
    ASSUME GatewayInv, Later, cache' \in Seq(Entry), Within(cache', cache)
    PROVE  Distinct(cache') /\ \A i \in DOMAIN cache' : EntryIsOwn(cache[i])'
<1>1. Distinct(cache')
  BY DistinctWithin DEF GatewayInv
<1>2. ASSUME NEW i \in DOMAIN cache' PROVE EntryIsOwn(cache[i])'
  <2>1. PICK k \in DOMAIN cache : cache'[i] = cache[k]
    BY DistinctWithin
  <2>2. EntryIsOwn(cache[k])
    BY DEF GatewayInv
  <2>3. \A e : e = cache[k] => EntryIsOwn(e)'
    BY <2>2, Lasting
  <2> QED BY <2>1, <2>3 DEF EntryIsOwn, Came, Executed
<1> QED BY <1>1, <1>2

(* An answer stays its request's own while that request does not move. *)
LEMMA AnswerLasts ==
    ASSUME GatewayInv, Later, NEW q \in Requests, request'[q] = request[q]
    PROVE  AnswerIsOwn(q)'
<1>1. AnswerIsOwn(q) /\ request'[q] = request[q]
  BY DEF GatewayInv
<1>2. request[q].answer = "replayed" =>
          Executed(request[q].of, request[q].slot, request[q].content)
  BY <1>1 DEF AnswerIsOwn
<1>3. \A of, slot, content : Executed(of, slot, content) => Executed(of, slot, content)'
  BY Lasting
<1>4. \A slot, content : Came(slot, content) => Came(slot, content)'
  BY Lasting
<1>5. \A slot, content : slot = request[q].slot /\ content = request[q].content =>
          /\ request[q].answer = "replayed" => Executed(request[q].of, slot, content)'
          /\ request[q].answer = "conflict" => \E other : other # content /\ Came(slot, other)'
  BY <1>1, <1>2, <1>3, <1>4 DEF AnswerIsOwn
<1> QED BY <1>1, <1>5 DEF AnswerIsOwn, Executed, Came

(* One request goes on; the others, and what is remembered of it, stay. *)
LEMMA RequestGoesOn ==
    ASSUME GatewayInv, NEW r \in Requests, NEW next \in Request,
           request' = [request EXCEPT ![r] = next], request[r].pc # "done",
           request[r].pc # "new" => /\ next.pc # "new" /\ next.slot = request[r].slot
                                    /\ next.content = request[r].content,
           next.pc # "done" => next.answer = None,
           next.pc # "new" => next.slot \in Slots /\ next.content \in Contents,
           next.answer = "replayed" => Executed(next.of, next.slot, next.content),
           next.answer = "conflict" => \E content : content # next.content /\ Came(next.slot, content)
    PROVE  request' \in [Requests -> Request] /\ Later /\ \A q \in Requests : AnswerIsOwn(q)'
<1>1. request' \in [Requests -> Request] /\ \A q \in Requests : request'[q] = IF q = r THEN next ELSE request[q]
  BY DEF GatewayInv
<1>2. request[r].answer = None
  BY DEF GatewayInv, AnswerIsOwn
<1>3. Later
  BY <1>1, <1>2, GatewayAssumption DEF Later, Answers
<1>4. ASSUME NEW q \in Requests PROVE AnswerIsOwn(q)'
  <2>1. CASE q = r
    <3>1. next.answer = "replayed" => Executed(next.of, next.slot, next.content)'
      BY <1>3, Lasting
    <3>2. next.answer = "conflict" => \E content : content # next.content /\ Came(next.slot, content)'
      BY <1>3, Lasting
    <3> QED BY <1>1, <2>1, <3>1, <3>2 DEF AnswerIsOwn, Executed, Came
  <2>2. CASE q # r
    BY <1>1, <1>3, <2>2, AnswerLasts
  <2> QED BY <2>1, <2>2
<1> QED BY <1>1, <1>3, <1>4

(* A request comes: it is answered later. *)
LEMMA AdmitKeeps ==
    ASSUME GatewayInv, NEW r \in Requests, NEW slot \in Slots, NEW content \in Contents,
           Admit(r, slot, content)
    PROVE  GatewayInv' /\ Later
<1> DEFINE next == [request[r] EXCEPT !.pc = "admitted", !.slot = slot, !.content = content]
<1>1. request[r] \in Request /\ request[r].pc = "new" /\ request[r].answer = None
  BY DEF Admit, GatewayInv, AnswerIsOwn
<1>2. /\ next \in Request /\ next.pc = "admitted" /\ next.slot = slot /\ next.content = content
      /\ next.answer = None
  BY <1>1 DEF Request
<1>3. request' = [request EXCEPT ![r] = next] /\ UNCHANGED <<sessions, cache>>
  BY DEF Admit, GatewayInv
<1> HIDE DEF next
<1>4. request' \in [Requests -> Request] /\ Later /\ \A q \in Requests : AnswerIsOwn(q)'
  BY <1>1, <1>2, <1>3, GatewayAssumption, RequestGoesOn DEF Answers
<1>5. \A i \in DOMAIN cache' : EntryIsOwn(cache[i])'
  <2>1. \A e : EntryIsOwn(e) => EntryIsOwn(e)'
    BY <1>4, Lasting
  <2>2. \A i \in DOMAIN cache : \A e : e = cache[i] => EntryIsOwn(e)'
    BY <2>1 DEF GatewayInv
  <2> QED BY <1>3, <2>2 DEF EntryIsOwn, Came, Executed
<1> QED BY <1>3, <1>4, <1>5 DEF GatewayInv, Distinct

(* A reservation: an entry for a key that has none that is still good. *)
LEMMA ReserveKeeps ==
    ASSUME GatewayInv, NEW r \in Requests, Reserve(r) PROVE GatewayInv' /\ Later
<1> DEFINE me == request[r]
           kept == Fresh(cache)
           mine == {i \in DOMAIN kept : kept[i].slot = me.slot}
           entry == EntryOf(r, None)
           all == Append(kept, entry)
<1>1. /\ me \in Request /\ me.pc = "admitted" /\ me.answer = None
      /\ me.slot \in Slots /\ me.content \in Contents
      /\ sessions' = sessions
  BY DEF Reserve, GatewayInv, AnswerIsOwn
<1>2. kept \in Seq(Entry) /\ Within(kept, cache)
  <2>1. cache \in Seq(Entry)
    BY DEF GatewayInv
  <2> QED BY <2>1, KeepWithin DEF Fresh
<1>3. Distinct(kept) /\ \A i \in DOMAIN kept : \E k \in DOMAIN cache : kept[i] = cache[k]
  BY <1>2, DistinctWithin DEF GatewayInv
<1>4. \A i \in DOMAIN kept : EntryIsOwn(kept[i])
  <2>1. \A k \in DOMAIN cache : EntryIsOwn(cache[k])
    BY DEF GatewayInv
  <2> QED BY <1>3, <2>1
<1>5. CASE mine = {} /\ request' = [request EXCEPT ![r].pc = "running"]
           /\ cache' = SubSeq(all, IF Len(all) > Capacity THEN Len(all) - Capacity + 1 ELSE 1,
                              Len(all))
  <2> DEFINE next == [me EXCEPT !.pc = "running"]
             from == IF Len(all) > Capacity THEN Len(all) - Capacity + 1 ELSE 1
  <2>1. next \in Request /\ next.pc = "running" /\ next.answer = None /\ next.slot = me.slot
        /\ next.content = me.content
    BY <1>1 DEF Request
  <2>2. request' = [request EXCEPT ![r] = next]
    BY <1>5 DEF GatewayInv
  <2> HIDE DEF next
  <2>3. request' \in [Requests -> Request] /\ Later /\ \A q \in Requests : AnswerIsOwn(q)'
    BY <1>1, <2>1, <2>2, GatewayAssumption, RequestGoesOn DEF Answers
  <2>4. entry \in Entry /\ entry.slot = me.slot /\ entry.content = me.content /\ entry.of = None
    BY <1>1, GatewayAssumption DEF Entry, EntryOf
  <2>5. EntryIsOwn(entry)
    BY <1>1, <2>4 DEF EntryIsOwn, Came
  <2> HIDE DEF entry
  <2>6. all \in Seq(Entry) /\ Len(all) = Len(kept) + 1 /\ Len(kept) \in Nat
        /\ \A i \in 1..Len(all) : all[i] = IF i = Len(all) THEN entry ELSE kept[i]
    <3> HIDE DEF kept
    <3> QED BY <1>2, <2>4
  <2>7. DOMAIN kept = 1..Len(kept)
    <3> HIDE DEF kept
    <3> QED BY <1>2
  <2>8. \A i \in 1..Len(kept) : kept[i].slot # me.slot
    BY <1>5, <2>7
  <2>9. \A i, j \in 1..Len(all) : all[i].slot = all[j].slot => i = j
    <3> SUFFICES ASSUME NEW i \in 1..Len(all), NEW j \in 1..Len(all), all[i].slot = all[j].slot
                 PROVE  i = j
      OBVIOUS
    <3>1. \A k \in 1..Len(all) : k = Len(all) \/ k \in 1..Len(kept)
      <4> HIDE DEF all, kept
      <4> QED BY <2>6
    <3> HIDE DEF all, kept
    <3> QED BY <1>3, <2>4, <2>6, <2>7, <2>8, <3>1 DEF Distinct
  <2>10. \A i \in 1..Len(all) : EntryIsOwn(all[i])
    <3>1. \A k \in 1..Len(all) : k = Len(all) \/ k \in 1..Len(kept)
      <4> HIDE DEF all, kept
      <4> QED BY <2>6
    <3> HIDE DEF all, kept
    <3> QED BY <1>4, <2>5, <2>6, <2>7, <3>1
  <2>11. from \in 1..Len(all)
    <3> HIDE DEF all, kept
    <3> QED BY <2>6, GatewayAssumption
  <2>12. cache' = SubSeq(all, from, Len(all))
    BY <1>5
  <2> HIDE DEF all, from
  <2>13. /\ cache' \in Seq(Entry) /\ Len(cache') = Len(all) - from + 1
         /\ DOMAIN cache' = 1..Len(all) - from + 1
         /\ \A i \in 1..Len(all) - from + 1 : cache'[i] = all[from + i - 1]
    BY <2>6, <2>11, <2>12
  <2>14. \A i \in 1..Len(all) - from + 1 : from + i - 1 \in 1..Len(all)
    BY <2>6, <2>11
  <2>15. Distinct(cache')
    <3> SUFFICES ASSUME NEW i \in 1..Len(all) - from + 1, NEW j \in 1..Len(all) - from + 1,
                        cache'[i].slot = cache'[j].slot
                 PROVE  i = j
      BY <2>13 DEF Distinct
    <3> DEFINE m == from + i - 1
               n == from + j - 1
    <3>1. m \in 1..Len(all) /\ n \in 1..Len(all) /\ cache'[i] = all[m] /\ cache'[j] = all[n]
      BY <2>13, <2>14
    <3>2. m = n
      <4> HIDE DEF m, n
      <4> QED BY <2>9, <3>1
    <3> QED BY <2>11, <3>2
  <2>16. \A i \in DOMAIN cache' : EntryIsOwn(cache[i])'
    <3>1. \A e : EntryIsOwn(e) => EntryIsOwn(e)'
      BY <2>3, Lasting
    <3>2. \A i \in DOMAIN cache' : \A e : e = cache'[i] => EntryIsOwn(e)'
      BY <2>10, <2>13, <2>14, <3>1
    <3> QED BY <3>2 DEF EntryIsOwn, Came, Executed
  <2> QED BY <1>1, <2>3, <2>13, <2>15, <2>16 DEF GatewayInv, Distinct
<1>6. CASE cache' = kept /\ \E i \in mine :
             \/ kept[i].content # me.content /\ Answered(r, "conflict", None)
             \/ /\ kept[i].content = me.content
                /\ IF kept[i].of = None THEN Answered(r, "uncertain", None)
                   ELSE Answered(r, "replayed", kept[i].of)
  <2>1. PICK i \in mine :
             \/ kept[i].content # me.content /\ Answered(r, "conflict", None)
             \/ /\ kept[i].content = me.content
                /\ IF kept[i].of = None THEN Answered(r, "uncertain", None)
                   ELSE Answered(r, "replayed", kept[i].of)
    BY <1>6
  <2>2. kept[i] \in Entry /\ EntryIsOwn(kept[i]) /\ kept[i].slot = me.slot
    BY <1>2, <1>4
  <2>3. PICK answer \in Answers, of \in Requests \cup {None} :
          /\ Answered(r, answer, of)
          /\ answer = "replayed" => Executed(of, me.slot, me.content)
          /\ answer = "conflict" => \E content : content # me.content /\ Came(me.slot, content)
          /\ answer # "executed"
    <3>1. kept[i].of \in Requests \cup {None}
      BY <2>2 DEF Entry
    <3>2. "conflict" \in Answers /\ "uncertain" \in Answers /\ "replayed" \in Answers
      BY DEF Answers
    <3>3. CASE kept[i].content # me.content /\ Answered(r, "conflict", None)
      <4>1. Came(me.slot, kept[i].content)
        BY <2>2 DEF EntryIsOwn
      <4> QED BY <3>2, <3>3, <4>1
    <3>4. CASE kept[i].content = me.content /\ kept[i].of = None /\ Answered(r, "uncertain", None)
      BY <3>2, <3>4
    <3>5. CASE kept[i].content = me.content /\ kept[i].of # None /\ Answered(r, "replayed", kept[i].of)
      <4>1. Executed(kept[i].of, me.slot, me.content)
        BY <2>2, <3>5 DEF EntryIsOwn
      <4> QED BY <3>1, <3>2, <3>5, <4>1
    <3> QED BY <2>1, <3>3, <3>4, <3>5
  <2> DEFINE next == [me EXCEPT !.pc = "done", !.answer = answer, !.of = of]
  <2>4. /\ next \in Request /\ next.pc = "done" /\ next.answer = answer /\ next.slot = me.slot
        /\ next.content = me.content /\ next.of = of
    BY <1>1, <2>3 DEF Request
  <2>5. request' = [request EXCEPT ![r] = next]
    BY <2>3 DEF Answered, GatewayInv
  <2> HIDE DEF next
  <2>6. request' \in [Requests -> Request] /\ Later /\ \A q \in Requests : AnswerIsOwn(q)'
    BY <1>1, <2>3, <2>4, <2>5, RequestGoesOn
  <2>7. Distinct(cache') /\ \A k \in DOMAIN cache' : EntryIsOwn(cache[k])'
    BY <1>2, <1>6, <2>6, EntriesGo
  <2> QED BY <1>1, <1>2, <1>6, <2>6, <2>7 DEF GatewayInv, Distinct
<1> QED BY <1>5, <1>6 DEF Reserve

(* What the application answered is kept under its key, where that is. *)
LEMMA AnswerKeeps ==
    ASSUME GatewayInv, NEW r \in Requests, Answer(r) PROVE GatewayInv' /\ Later
<1> DEFINE me == request[r]
           next == [me EXCEPT !.pc = "done", !.answer = "executed", !.of = r]
           entry == EntryOf(r, r)
<1>1. /\ me \in Request /\ me.pc = "running" /\ me.slot \in Slots /\ me.content \in Contents
      /\ sessions' = sessions
  BY DEF Answer, GatewayInv, AnswerIsOwn
<1>2. /\ next \in Request /\ next.pc = "done" /\ next.answer = "executed" /\ next.slot = me.slot
      /\ next.content = me.content
  BY <1>1 DEF Request, Answers
<1>3. request' = [request EXCEPT ![r] = next]
  BY DEF Answer, Answered, GatewayInv
<1>4. entry \in Entry /\ entry.slot = me.slot /\ entry.content = me.content /\ entry.of = r
  BY <1>1, GatewayAssumption DEF EntryOf, Entry
<1> HIDE DEF next, entry
<1>5. request' \in [Requests -> Request] /\ Later /\ \A q \in Requests : AnswerIsOwn(q)'
  BY <1>1, <1>2, <1>3, RequestGoesOn
<1>6. EntryIsOwn(entry)'
  <2>1. request'[r] = next
    BY <1>3 DEF GatewayInv
  <2> QED BY <1>1, <1>2, <1>4, <2>1 DEF EntryIsOwn, Came, Executed, EntryOf, entry
<1>7. \A e : EntryIsOwn(e) => EntryIsOwn(e)'
  BY <1>5, Lasting
<1>8. cache \in Seq(Entry) /\ Len(cache) \in Nat /\ DOMAIN cache = 1..Len(cache) /\ Distinct(cache)
      /\ \A i \in DOMAIN cache : EntryIsOwn(cache[i])
  BY DEF GatewayInv
<1>9. cache' \in Seq(Entry) /\ Distinct(cache')
      /\ \A i \in DOMAIN cache' : cache'[i] = entry \/ (i \in DOMAIN cache /\ cache'[i] = cache[i])
  <2>1. CASE cache' = cache
    BY <1>8, <2>1
  <2>2. CASE me.slot \in SlotsIn(cache)
             /\ cache' = [i \in DOMAIN cache |-> IF cache[i].slot = me.slot THEN entry ELSE cache[i]]
    <3>1. cache' \in Seq(Entry) /\ DOMAIN cache' = DOMAIN cache
          /\ \A i \in DOMAIN cache : cache'[i] = IF cache[i].slot = me.slot THEN entry ELSE cache[i]
      BY <1>4, <1>8, <2>2
    <3>2. \A i \in DOMAIN cache : cache'[i].slot = cache[i].slot
      BY <1>4, <3>1
    <3> QED BY <1>8, <3>1, <3>2 DEF Distinct
  <2>3. CASE me.slot \notin SlotsIn(cache) /\ cache' = Append(cache, entry)
    <3>1. /\ cache' \in Seq(Entry) /\ DOMAIN cache' = 1..Len(cache) + 1
          /\ \A i \in 1..Len(cache) + 1 :
                cache'[i] = IF i = Len(cache) + 1 THEN entry ELSE cache[i]
      BY <1>4, <1>8, <2>3
    <3>2. \A i \in 1..Len(cache) : cache[i].slot # entry.slot
      BY <1>4, <1>8, <2>3 DEF SlotsIn
    <3>3. \A i \in 1..Len(cache) + 1 : i = Len(cache) + 1 \/ i \in 1..Len(cache)
      BY <1>8
    <3>4. Distinct(cache')
      <4> SUFFICES ASSUME NEW i \in 1..Len(cache) + 1, NEW j \in 1..Len(cache) + 1,
                          cache'[i].slot = cache'[j].slot
                   PROVE  i = j
        BY <3>1 DEF Distinct
      <4> QED BY <1>8, <3>1, <3>2, <3>3 DEF Distinct
    <3> QED BY <1>8, <3>1, <3>3, <3>4
  <2> QED BY <2>1, <2>2, <2>3 DEF Answer, WithAnswer, entry
<1>10. \A i \in DOMAIN cache' : EntryIsOwn(cache[i])'
  <2>1. \A i \in DOMAIN cache' : \A e : e = cache'[i] => EntryIsOwn(e)'
    <3> SUFFICES ASSUME NEW i \in DOMAIN cache', NEW e, e = cache'[i] PROVE EntryIsOwn(e)'
      OBVIOUS
    <3>1. CASE cache'[i] = entry
      <4>1. /\ entry.slot = me.slot /\ entry.content = me.content /\ entry.of = r
            /\ request'[r].answer = "executed" /\ request'[r].pc = "done"
            /\ request'[r].slot = me.slot /\ request'[r].content = me.content
        BY <1>2, <1>3, <1>4 DEF GatewayInv
      <4> QED BY <3>1, <4>1 DEF EntryIsOwn, Came, Executed
    <3>2. CASE i \in DOMAIN cache /\ cache'[i] = cache[i]
      BY <1>7, <1>8, <3>2
    <3> QED BY <1>9, <3>1, <3>2
  <2> QED BY <2>1 DEF EntryIsOwn, Came, Executed
<1> QED BY <1>1, <1>5, <1>9, <1>10 DEF GatewayInv, Distinct

(* A request whose application raised leaves its key as it is. *)
LEMMA RaiseKeeps ==
    ASSUME GatewayInv, NEW r \in Requests, Raise(r) PROVE GatewayInv' /\ Later
<1> DEFINE me == request[r]
           next == [me EXCEPT !.pc = "done", !.answer = "raised", !.of = None]
<1>1. /\ me \in Request /\ me.pc = "running" /\ me.slot \in Slots /\ me.content \in Contents
      /\ UNCHANGED <<sessions, cache>>
  BY DEF Raise, GatewayInv, AnswerIsOwn
<1>2. /\ next \in Request /\ next.pc = "done" /\ next.answer = "raised" /\ next.slot = me.slot
      /\ next.content = me.content
  BY <1>1 DEF Request, Answers
<1>3. request' = [request EXCEPT ![r] = next]
  BY DEF Raise, Answered, GatewayInv
<1> HIDE DEF next
<1>4. request' \in [Requests -> Request] /\ Later /\ \A q \in Requests : AnswerIsOwn(q)'
  BY <1>1, <1>2, <1>3, RequestGoesOn
<1>5. \A i \in DOMAIN cache' : EntryIsOwn(cache[i])'
  <2>1. \A i \in DOMAIN cache : \A e : e = cache[i] => EntryIsOwn(e)'
    BY <1>4, Lasting DEF GatewayInv
  <2> QED BY <1>1, <2>1 DEF EntryIsOwn, Came, Executed
<1> QED BY <1>1, <1>4, <1>5 DEF GatewayInv, Distinct

(* The sessions, the clock and what a logout takes along. *)
LEMMA SessionsKeep ==
    ASSUME GatewayInv, NEW s \in Sessions, Login(s) \/ Logout(s) \/ SessionExpires(s)
    PROVE  GatewayInv' /\ Later
<1>1. request' = request /\ sessions' \in [Sessions -> {"new", "live", "ended"}]
  BY DEF Login, Logout, SessionExpires, GatewayInv
<1>2. Later
  BY <1>1 DEF Later
<1>3. cache \in Seq(Entry) /\ Within(cache, cache)
  <2> DEFINE at == [i \in DOMAIN cache |-> i]
  <2>1. /\ at \in [DOMAIN cache -> DOMAIN cache] /\ \A i \in DOMAIN cache : cache[i] = cache[at[i]]
        /\ \A i, j \in DOMAIN cache : at[i] = at[j] => i = j
    OBVIOUS
  <2> QED BY <2>1, Zenon DEF Within, GatewayInv
<1>4. cache' \in Seq(Entry) /\ Within(cache', cache)
  BY <1>3, KeepWithin DEF Login, Logout, SessionExpires
<1>5. Distinct(cache') /\ \A i \in DOMAIN cache' : EntryIsOwn(cache[i])'
  BY <1>2, <1>4, EntriesGo
<1>6. \A q \in Requests : AnswerIsOwn(q)'
  BY <1>1 DEF GatewayInv, AnswerIsOwn, Executed, Came
<1> QED BY <1>1, <1>2, <1>4, <1>5, <1>6 DEF GatewayInv, Distinct

(* Entries grow older and are what they were. *)
LEMMA TickKeeps == ASSUME GatewayInv, Tick PROVE GatewayInv' /\ Later
<1>1. UNCHANGED <<sessions, request>> /\ cache \in Seq(Entry)
  BY DEF Tick, GatewayInv
<1>2. /\ DOMAIN cache' = DOMAIN cache
      /\ \A i \in DOMAIN cache :
            cache'[i] = [cache[i] EXCEPT !.ttl = IF @ > 0 THEN @ - 1 ELSE 0]
  BY DEF Tick
<1>3. \A i \in DOMAIN cache :
          /\ cache'[i] \in Entry /\ cache'[i].slot = cache[i].slot
          /\ cache'[i].content = cache[i].content /\ cache'[i].of = cache[i].of
  <2> SUFFICES ASSUME NEW i \in DOMAIN cache
               PROVE  /\ cache'[i] \in Entry /\ cache'[i].slot = cache[i].slot
                      /\ cache'[i].content = cache[i].content /\ cache'[i].of = cache[i].of
    OBVIOUS
  <2>1. cache[i] \in Entry
    BY <1>1
  <2>2. cache[i].ttl \in 0..Lifetime
    BY <2>1 DEF Entry
  <2>3. (IF cache[i].ttl > 0 THEN cache[i].ttl - 1 ELSE 0) \in 0..Lifetime
    BY <2>2, GatewayAssumption
  <2> QED BY <1>2, <2>1, <2>3 DEF Entry
<1>4. cache' \in Seq(Entry)
  <2>1. cache' = [i \in DOMAIN cache |-> cache'[i]]
    BY DEF Tick
  <2> QED BY <1>1, <1>3, <2>1
<1>5. \A i \in DOMAIN cache' : EntryIsOwn(cache[i])'
  BY <1>1, <1>2, <1>3 DEF GatewayInv, EntryIsOwn, Came, Executed
<1>6. \A q \in Requests : AnswerIsOwn(q)'
  BY <1>1 DEF GatewayInv, AnswerIsOwn, Executed, Came
<1>7. Later
  BY <1>1 DEF Later
<1> QED BY <1>1, <1>2, <1>3, <1>4, <1>5, <1>6, <1>7 DEF GatewayInv, Distinct

(* A restart loses the entries and answers nobody. *)
LEMMA GatewayRestartKeeps == ASSUME GatewayInv, GatewayRestart PROVE GatewayInv' /\ Later
<1>1. /\ sessions' \in [Sessions -> {"new", "live", "ended"}] /\ cache' = <<>>
      /\ request' = [r \in Requests |->
            IF request[r].pc \in {"admitted", "running"}
            THEN [request[r] EXCEPT !.pc = "done", !.answer = "lost"] ELSE request[r]]
  BY DEF GatewayRestart, GatewayInv
<1>2. \A r \in Requests :
          /\ request'[r] \in Request
          /\ \/ request'[r] = request[r]
             \/ /\ request[r].pc \in {"admitted", "running"} /\ request'[r].pc = "done"
                /\ request'[r].answer = "lost" /\ request'[r].slot = request[r].slot
                /\ request'[r].content = request[r].content
  <2> SUFFICES ASSUME NEW r \in Requests, request[r].pc \in {"admitted", "running"}
               PROVE  /\ request'[r] \in Request /\ request'[r].pc = "done"
                      /\ request'[r].answer = "lost" /\ request'[r].slot = request[r].slot
                      /\ request'[r].content = request[r].content
    BY <1>1 DEF GatewayInv
  <2>1. request[r] \in Request /\ "lost" \in Answers
    BY DEF GatewayInv, Answers
  <2> QED BY <1>1, <2>1 DEF Request
<1>3. request' \in [Requests -> Request]
  BY <1>1, <1>2
<1>4. Later
  BY <1>2, GatewayAssumption DEF Later, GatewayInv, AnswerIsOwn, Answers
<1>5. ASSUME NEW q \in Requests PROVE AnswerIsOwn(q)'
  <2>1. AnswerIsOwn(q)
    BY DEF GatewayInv
  <2>2. CASE request'[q] = request[q]
    BY <1>4, <2>2, AnswerLasts
  <2>3. CASE request'[q] # request[q]
    BY <1>2, <2>1, <2>3 DEF AnswerIsOwn
  <2> QED BY <2>2, <2>3
<1>6. cache' \in Seq(Entry) /\ DOMAIN cache' = {}
  <2>1. <<>> \in Seq(Entry) /\ DOMAIN <<>> = {}
    OBVIOUS
  <2> QED BY <1>1, <2>1
<1> QED BY <1>1, <1>3, <1>4, <1>5, <1>6 DEF GatewayInv, Distinct

-----------------------------------------------------------------------------
(* The broker.  A route makes one change; it is logged by that route, once. *)
Made(id, version) == id \in DOMAIN intents /\ version \in DOMAIN intents[id]

Owned ==
    /\ \A id, version : Made(id, version) => handler[intents[id][version].by].pc # "idle"
    /\ \A h \in Requests : handler[h].pc = "audit" =>
          /\ Made(handler[h].id, handler[h].version)
          /\ intents[handler[h].id][handler[h].version].by = h
    /\ \A id, version, id2, version2 :
          Made(id, version) /\ Made(id2, version2)
          /\ intents[id][version].by = intents[id2][version2].by => id = id2 /\ version = version2

Entered(i, id, version) == audit[i].id = id /\ audit[i].version = version

OnRecord ==
    /\ \A i \in DOMAIN audit :
          /\ Made(audit[i].id, audit[i].version)
          /\ audit[i].state = intents[audit[i].id][audit[i].version].state
    /\ \A i, j \in DOMAIN audit : Entered(i, audit[j].id, audit[j].version) => i = j
    /\ \A id, version : Made(id, version) =>
          LET pc == handler[intents[id][version].by].pc IN
          /\ pc = "audit" => \A i \in DOMAIN audit : ~Entered(i, id, version)
          /\ pc \in {"get", "done"} => \E i \in DOMAIN audit : Entered(i, id, version)

BrokerInv == Broker!BrokerTypeOK /\ Broker!TerminalStays /\ Owned /\ OnRecord

(* The types of the broker, as the proofs use them. *)
LEMMA Typed ==
    ASSUME BrokerInv
    PROVE  /\ intents \in Seq(Seq(Broker!Change)) /\ Len(intents) \in 0..MaxIntents
           /\ DOMAIN intents = 1..Len(intents) /\ DOMAIN intents \subseteq 1..MaxIntents
           /\ \A id \in DOMAIN intents : /\ intents[id] \in Seq(Broker!Change)
                                         /\ DOMAIN intents[id] = 1..Len(intents[id])
                                         /\ Len(intents[id]) \in Nat
           /\ \A id, version : Made(id, version) =>
                 /\ version \in Nat \ {0}
                 /\ intents[id][version].by \in Requests
                 /\ intents[id][version].state \in Broker!States
           /\ audit \in Seq(Broker!Event) /\ DOMAIN audit = 1..Len(audit) /\ Len(audit) \in Nat
           /\ handler \in [Requests -> Broker!Handler]
<1>1. intents \in Seq(Seq(Broker!Change)) /\ Len(intents) <= MaxIntents
      /\ audit \in Seq(Broker!Event) /\ handler \in [Requests -> Broker!Handler]
  BY DEF BrokerInv, Broker!BrokerTypeOK
<1>2. \A id \in DOMAIN intents : /\ intents[id] \in Seq(Broker!Change)
                                 /\ DOMAIN intents[id] = 1..Len(intents[id])
                                 /\ Len(intents[id]) \in Nat
  BY <1>1
<1>3. \A id, version : Made(id, version) =>
          version \in Nat \ {0} /\ intents[id][version] \in Broker!Change
  BY <1>2 DEF Made
<1>4. \A id, version : Made(id, version) =>
                 /\ version \in Nat \ {0}
                 /\ intents[id][version].by \in Requests
                 /\ intents[id][version].state \in Broker!States
  BY <1>3 DEF Broker!Change
<1> QED BY <1>1, <1>2, <1>4, IntentsAssumption

(* An intent gets a state, and its route goes on to log that. *)
LEMMA ChangeKeeps ==
    ASSUME BrokerInv, NEW h \in Requests, handler[h].pc = "idle",
           NEW id, NEW version, ~Made(id, version),
           \A i, v : Made(i, v)' <=> Made(i, v) \/ (i = id /\ v = version),
           \A i, v : Made(i, v) => intents'[i][v] = intents[i][v],
           intents'[id][version].by = h,
           handler' \in [Requests -> Broker!Handler],
           \A q \in Requests \ {h} : handler'[q] = handler[q],
           handler'[h].pc = "audit" /\ handler'[h].id = id /\ handler'[h].version = version,
           audit' = audit
    PROVE  Owned' /\ OnRecord'
<1>1. \A i, v : Made(i, v) => intents[i][v].by \in Requests /\ intents[i][v].by # h
  BY Typed DEF BrokerInv, Owned
<1>2. Owned'
  <2>1. \A i, v : Made(i, v)' => handler'[intents'[i][v].by].pc # "idle"
    BY <1>1 DEF BrokerInv, Owned
  <2>2. ASSUME NEW q \in Requests, handler'[q].pc = "audit"
        PROVE  /\ Made(handler[q].id, handler[q].version)'
               /\ intents'[handler'[q].id][handler'[q].version].by = q
    <3>1. CASE q = h
      <4>1. \A i, v : i = id /\ v = version => Made(i, v)'
        OBVIOUS
      <4> QED BY <3>1, <4>1 DEF Made
    <3>2. CASE q # h
      <4>1. handler'[q] = handler[q] /\ Made(handler[q].id, handler[q].version)
            /\ intents[handler[q].id][handler[q].version].by = q
        BY <2>2, <3>2 DEF BrokerInv, Owned
      <4>2. \A i, v : i = handler[q].id /\ v = handler[q].version => Made(i, v)'
        BY <4>1
      <4> QED BY <4>1, <4>2 DEF Made
    <3> QED BY <3>1, <3>2
  <2>3. \A i, v, j, w :
          Made(i, v)' /\ Made(j, w)'
          /\ intents'[i][v].by = intents'[j][w].by => i = j /\ v = w
    BY <1>1 DEF BrokerInv, Owned
  <2> QED BY <2>1, <2>2, <2>3 DEF Owned, Made
<1>3. OnRecord'
  <2>1. \A i \in DOMAIN audit :
          /\ Made(audit[i].id, audit[i].version)'
          /\ audit[i].state = intents'[audit[i].id][audit[i].version].state
    BY DEF BrokerInv, OnRecord
  <2>2. \A i \in DOMAIN audit : ~Entered(i, id, version)
    BY DEF BrokerInv, OnRecord, Entered
  <2>3. ASSUME NEW i, NEW v, Made(i, v)'
        PROVE  LET pc == handler'[intents'[i][v].by].pc IN
               /\ pc = "audit" => \A k \in DOMAIN audit : ~Entered(k, i, v)
               /\ pc \in {"get", "done"} => \E k \in DOMAIN audit : Entered(k, i, v)
    <3>1. CASE Made(i, v)
      BY <1>1, <3>1 DEF BrokerInv, OnRecord
    <3>2. CASE i = id /\ v = version
      BY <2>2, <3>2
    <3> QED BY <2>3, <3>1, <3>2
  <2> QED BY <2>1, <2>3 DEF BrokerInv, OnRecord, Entered, Made
<1> QED BY <1>2, <1>3

(* Nobody begins to log a change, and nobody forgets that he has made one. *)
LEMMA OwnedStays ==
    ASSUME BrokerInv, intents' = intents,
           \A h \in Requests : handler'[h].pc = "audit" => handler'[h] = handler[h],
           \A h \in Requests : handler[h].pc # "idle" => handler'[h].pc # "idle"
    PROVE  Owned'
<1>1. \A i, v : Made(i, v)' <=> Made(i, v)
  BY DEF Made
<1>2. \A i, v : Made(i, v) => handler'[intents[i][v].by].pc # "idle"
  BY Typed DEF BrokerInv, Owned
<1>3. ASSUME NEW h \in Requests, handler'[h].pc = "audit"
      PROVE  /\ Made(handler[h].id, handler[h].version)'
             /\ intents[handler'[h].id][handler'[h].version].by = h
  <2>1. handler'[h] = handler[h] /\ Made(handler[h].id, handler[h].version)
        /\ intents[handler[h].id][handler[h].version].by = h
    BY <1>3 DEF BrokerInv, Owned
  <2> QED BY <2>1 DEF Made
<1>4. \A i, v, j, w : Made(i, v) /\ Made(j, w) /\ intents[i][v].by = intents[j][w].by =>
                          i = j /\ v = w
  BY DEF BrokerInv, Owned
<1> QED BY <1>1, <1>2, <1>3, <1>4 DEF Owned

(* One handler goes on. *)
LEMMA HandlerMoves ==
    ASSUME BrokerInv, NEW h \in Requests, NEW next \in Broker!Handler,
           handler' = [handler EXCEPT ![h] = next]
    PROVE  /\ handler' \in [Requests -> Broker!Handler]
           /\ \A q \in Requests \ {h} : handler'[q] = handler[q]
           /\ handler'[h] = next
BY Typed

(* A new intent is pending, by whoever enqueued it. *)
LEMMA EnqueueKeeps == ASSUME BrokerInv, NEW h \in Requests, Broker!Enqueue(h) PROVE BrokerInv'
<1> DEFINE n == Len(intents) + 1
           change == [state |-> "pending", by |-> h]
           next == [handler[h] EXCEPT !.pc = "audit", !.id = n, !.version = 1]
<1>1. /\ handler[h].pc = "idle" /\ Len(intents) < MaxIntents
      /\ intents' = Append(intents, <<change>>) /\ audit' = audit
      /\ handler[h] \in Broker!Handler
  BY Typed DEF Broker!Enqueue
<1>2. change \in Broker!Change /\ change.state = "pending" /\ change.by = h
  BY DEF Broker!Change, Broker!States
<1> HIDE DEF change
<1>3. <<change>> \in Seq(Broker!Change) /\ DOMAIN <<change>> = {1} /\ <<change>>[1] = change
      /\ Len(<<change>>) = 1
  BY <1>2
<1>4. intents \in Seq(Seq(Broker!Change)) /\ Len(intents) \in Nat /\ DOMAIN intents = 1..Len(intents)
  BY Typed
<1>5. n \in 1..MaxIntents /\ n \in Nat /\ n \notin DOMAIN intents
  BY <1>1, <1>4, IntentsAssumption
<1>6. next \in Broker!Handler /\ next.pc = "audit" /\ next.id = n /\ next.version = 1
  BY <1>1, <1>5 DEF Broker!Handler
<1>7. handler' = [handler EXCEPT ![h] = next]
  BY Typed DEF Broker!Enqueue, Broker!Changed
<1>8. /\ intents' \in Seq(Seq(Broker!Change)) /\ Len(intents') = n /\ DOMAIN intents' = 1..n
      /\ \A i \in 1..n : intents'[i] = IF i = n THEN <<change>> ELSE intents[i]
  <2> DEFINE row == <<change>>
  <2>1. row \in Seq(Broker!Change)
    BY <1>3
  <2> HIDE DEF row
  <2>2. intents' = Append(intents, row)
    BY <1>1 DEF row
  <2>3. /\ intents' \in Seq(Seq(Broker!Change)) /\ Len(intents') = n /\ DOMAIN intents' = 1..n
        /\ \A i \in 1..n : intents'[i] = IF i = n THEN row ELSE intents[i]
    BY <1>4, <2>1, <2>2
  <2> QED BY <2>3 DEF row
<1> HIDE DEF n, next
<1>9. /\ \A i, v : Made(i, v)' <=> Made(i, v) \/ (i = n /\ v = 1)
      /\ \A i, v : Made(i, v) => intents'[i][v] = intents[i][v]
      /\ intents'[n][1] = change
  <2>1. \A i \in 1..n : i = n \/ i \in DOMAIN intents
    BY <1>4, <1>5, <1>8 DEF n
  <2>2. \A i \in DOMAIN intents : i \in 1..n /\ i # n
    BY <1>4, <1>5 DEF n
  <2>3. n \in 1..n
    BY <1>5
  <2> QED BY <1>3, <1>8, <2>1, <2>2, <2>3 DEF Made
<1>10. /\ handler' \in [Requests -> Broker!Handler]
       /\ \A q \in Requests \ {h} : handler'[q] = handler[q]
       /\ handler'[h] = next
  BY <1>6, <1>7, HandlerMoves
<1>11. ~Made(n, 1)
  BY <1>5 DEF Made
<1>12. Owned' /\ OnRecord'
  <2>1. intents'[n][1].by = h
    BY <1>2, <1>9
  <2>2. handler'[h].pc = "audit" /\ handler'[h].id = n /\ handler'[h].version = 1
    BY <1>6, <1>10
  <2> QED BY <1>1, <1>9, <1>10, <1>11, <2>1, <2>2, ChangeKeeps
<1>13. Broker!BrokerTypeOK'
  <2>1. Len(intents') <= MaxIntents
    BY <1>5, <1>8
  <2> QED BY <1>1, <1>8, <1>10, <2>1, Typed DEF Broker!BrokerTypeOK
<1>14. Broker!TerminalStays'
  <2> SUFFICES ASSUME NEW id \in 1..n, NEW version \in 2..Len(intents'[id]),
                      intents'[id][version - 1].state \in Broker!Terminal
               PROVE  intents'[id][version].state = intents'[id][version - 1].state
    BY <1>8 DEF Broker!TerminalStays
  <2>1. id # n
    <3> SUFFICES ASSUME id = n PROVE FALSE
      OBVIOUS
    <3>1. intents'[id] = <<change>>
      BY <1>8
    <3>2. Len(intents'[id]) = 1
      BY <1>3, <3>1
    <3> QED BY <3>2
  <2>2. id \in DOMAIN intents /\ intents'[id] = intents[id]
    BY <1>4, <1>8, <2>1 DEF n
  <2> QED BY <2>2 DEF BrokerInv, Broker!TerminalStays
<1> QED BY <1>12, <1>13, <1>14 DEF BrokerInv

(* An update adds a state, unless it would undo a terminal one. *)
LEMMA UpdateKeeps ==
    ASSUME BrokerInv, NEW h \in Requests, NEW id, NEW state, Broker!Update(h, id, state)
    PROVE  BrokerInv'
<1>1. handler[h].pc = "idle" /\ audit' = audit /\ handler[h] \in Broker!Handler
  BY Typed DEF Broker!Update
<1>2. CASE id \in DOMAIN intents /\ Broker!Allowed(id, state)
  <2> DEFINE old == intents[id]
             n == Len(old) + 1
             change == [state |-> state, by |-> h]
             next == [handler[h] EXCEPT !.pc = "audit", !.id = id, !.version = n]
  <2>1. /\ intents' = [intents EXCEPT ![id] = Append(@, change)]
        /\ handler' = [handler EXCEPT ![h] = next]
    BY <1>2, Typed DEF Broker!Update, Broker!Changed
  <2>2. change \in Broker!Change /\ change.state = state /\ change.by = h
    BY <1>2 DEF Broker!Change, Broker!Allowed
  <2> HIDE DEF change
  <2>3. /\ intents \in Seq(Seq(Broker!Change)) /\ old \in Seq(Broker!Change)
        /\ DOMAIN old = 1..Len(old) /\ Len(old) \in Nat /\ id \in 1..MaxIntents
    BY <1>2, Typed
  <2>4. n \in Nat \ {0} /\ n \notin DOMAIN old
    BY <2>3
  <2>5. next \in Broker!Handler /\ next.pc = "audit" /\ next.id = id /\ next.version = n
    BY <1>1, <2>3, <2>4 DEF Broker!Handler
  <2> DEFINE row == Append(old, change)
  <2>6. /\ row \in Seq(Broker!Change) /\ Len(row) = n /\ DOMAIN row = 1..n
        /\ \A v \in 1..n : row[v] = IF v = n THEN change ELSE old[v]
    <3> HIDE DEF old
    <3> QED BY <2>2, <2>3
  <2>7. intents' = [intents EXCEPT ![id] = row]
    BY <2>1
  <2> HIDE DEF next, row
  <2>8. /\ intents' \in Seq(Seq(Broker!Change)) /\ Len(intents') = Len(intents)
        /\ DOMAIN intents' = DOMAIN intents
        /\ \A i \in DOMAIN intents : intents'[i] = IF i = id THEN row ELSE intents[i]
    <3> HIDE DEF old, n
    <3>1. \A S : \A q \in Seq(S) : \A x \in DOMAIN q : \A v \in S :
              /\ [q EXCEPT ![x] = v] \in Seq(S) /\ Len([q EXCEPT ![x] = v]) = Len(q)
              /\ DOMAIN [q EXCEPT ![x] = v] = DOMAIN q
      OBVIOUS
    <3>2. intents \in Seq(Seq(Broker!Change)) /\ id \in DOMAIN intents /\ row \in Seq(Broker!Change)
      BY <1>2, <2>3, <2>6
    <3> QED BY <2>7, <3>1, <3>2
  <2> HIDE DEF n
  <2>9. /\ \A i, v : Made(i, v)' <=> Made(i, v) \/ (i = id /\ v = n)
        /\ \A i, v : Made(i, v) => intents'[i][v] = intents[i][v]
        /\ intents'[id][n] = change
    <3>1. \A v : v \in 1..n <=> v \in DOMAIN old \/ v = n
      BY <2>3, <2>4 DEF n
    <3> QED BY <1>2, <2>4, <2>6, <2>8, <3>1 DEF Made
  <2>10. /\ handler' \in [Requests -> Broker!Handler]
         /\ \A q \in Requests \ {h} : handler'[q] = handler[q]
         /\ handler'[h] = next
    BY <2>1, <2>5, HandlerMoves
  <2>11. ~Made(id, n)
    BY <2>4 DEF Made
  <2>12. Owned' /\ OnRecord'
    <3>1. intents'[id][n].by = h
      BY <2>2, <2>9
    <3>2. handler'[h].pc = "audit" /\ handler'[h].id = id /\ handler'[h].version = n
      BY <2>5, <2>10
    <3> QED BY <1>1, <2>9, <2>10, <2>11, <3>1, <3>2, ChangeKeeps
  <2>13. Broker!BrokerTypeOK'
    BY <1>1, <2>8, <2>10, Typed DEF Broker!BrokerTypeOK
  <2>14. Broker!TerminalStays'
    <3> SUFFICES ASSUME NEW i \in DOMAIN intents, NEW version \in 2..Len(intents'[i]),
                        intents'[i][version - 1].state \in Broker!Terminal
                 PROVE  intents'[i][version].state = intents'[i][version - 1].state
      BY <2>8 DEF Broker!TerminalStays
    <3>1. CASE i # id
      BY <2>8, <3>1 DEF BrokerInv, Broker!TerminalStays
    <3>2. CASE i = id
      <4>1. version \in 2..n /\ intents'[i] = row
        BY <2>6, <2>8, <3>2
      <4>2. CASE version = n
        <5>1. n - 1 = Len(old) /\ n - 1 \in 1..n /\ n - 1 # n /\ n \in 1..n
          BY <2>3, <4>1, <4>2 DEF n
        <5>2. row[n].state = state /\ row[n - 1] = old[Len(old)]
          BY <2>2, <2>6, <5>1
        <5>3. Broker!Current(id) = old[Len(old)].state
          BY DEF Broker!Current
        <5> QED BY <1>2, <4>1, <4>2, <5>2, <5>3 DEF Broker!Allowed
      <4>3. CASE version # n
        <5>1. version \in 2..Len(old) /\ version \in 1..n /\ version - 1 \in 1..n /\ version - 1 # n
          <6>1. Len(old) \in Nat /\ n = Len(old) + 1
            BY <2>3 DEF n
          <6> QED BY <4>1, <4>3, <6>1, BelowTheLast
        <5>2. row[version] = old[version] /\ row[version - 1] = old[version - 1]
          BY <2>6, <4>3, <5>1
        <5> QED BY <1>2, <3>2, <4>1, <5>1, <5>2 DEF BrokerInv, Broker!TerminalStays
      <4> QED BY <4>2, <4>3
    <3> QED BY <3>1, <3>2
  <2> QED BY <2>12, <2>13, <2>14 DEF BrokerInv
<1>3. CASE ~(id \in DOMAIN intents /\ Broker!Allowed(id, state))
  <2> DEFINE next == [handler[h] EXCEPT !.pc = "done"]
  <2>1. handler' = [handler EXCEPT ![h] = next] /\ intents' = intents
    BY <1>3, Typed DEF Broker!Update
  <2>2. next \in Broker!Handler /\ next.pc = "done"
    BY <1>1 DEF Broker!Handler
  <2> HIDE DEF next
  <2>3. /\ handler' \in [Requests -> Broker!Handler]
        /\ \A q \in Requests \ {h} : handler'[q] = handler[q]
        /\ handler'[h] = next
    BY <2>1, <2>2, HandlerMoves
  <2>4. \A i, v : Made(i, v) => intents[i][v].by \in Requests /\ intents[i][v].by # h
    BY <1>1, Typed DEF BrokerInv, Owned
  <2>5. Owned'
    BY <2>1, <2>2, <2>3, <2>4 DEF BrokerInv, Owned, Made
  <2>6. OnRecord'
    BY <1>1, <2>1, <2>2, <2>3, <2>4 DEF BrokerInv, OnRecord, Made, Entered
  <2>7. Broker!BrokerTypeOK' /\ Broker!TerminalStays'
    BY <1>1, <2>1, <2>3 DEF BrokerInv, Broker!BrokerTypeOK, Broker!TerminalStays
  <2> QED BY <2>5, <2>6, <2>7 DEF BrokerInv
<1> QED BY <1>2, <1>3

(* The log gets the change its handler has made, which it does not have yet. *)
LEMMA AppendAuditKeeps ==
    ASSUME BrokerInv, NEW h \in Requests, Broker!AppendAudit(h) PROVE BrokerInv'
<1> DEFINE me == handler[h]
           event == [id |-> me.id, version |-> me.version, state |-> intents[me.id][me.version].state]
           n == Len(audit) + 1
<1>1. /\ me.pc = "audit" /\ me \in Broker!Handler /\ intents' = intents
      /\ Made(me.id, me.version) /\ intents[me.id][me.version].by = h
      /\ \A i \in DOMAIN audit : ~Entered(i, me.id, me.version)
  <2>1. me.pc = "audit" /\ me \in Broker!Handler /\ intents' = intents
    BY Typed DEF Broker!AppendAudit
  <2>2. Made(me.id, me.version) /\ intents[me.id][me.version].by = h
    BY <2>1 DEF BrokerInv, Owned
  <2> QED BY <2>1, <2>2 DEF BrokerInv, OnRecord
<1>2. PICK pc \in {"done", "get", "raised"} :
        /\ handler' = [handler EXCEPT ![h] = [me EXCEPT !.pc = pc]]
        /\ audit' = Append(audit, event) \/ (audit' = audit /\ pc = "raised")
  BY Typed DEF Broker!AppendAudit
<1> DEFINE next == [me EXCEPT !.pc = pc]
<1>3. next \in Broker!Handler /\ next.pc = pc
  BY <1>1 DEF Broker!Handler
<1>4. event \in Broker!Event /\ event.id = me.id /\ event.version = me.version
      /\ event.state = intents[me.id][me.version].state
  <2>1. me.id \in 1..MaxIntents /\ me.version \in Nat /\ intents[me.id][me.version].state \in Broker!States
    BY <1>1, Typed DEF Made
  <2> QED BY <2>1 DEF Broker!Event
<1> HIDE DEF next, event
<1>5. /\ handler' \in [Requests -> Broker!Handler]
      /\ \A q \in Requests \ {h} : handler'[q] = handler[q]
      /\ handler'[h] = next
  BY <1>2, <1>3, HandlerMoves DEF next
<1>6. audit \in Seq(Broker!Event) /\ DOMAIN audit = 1..Len(audit) /\ Len(audit) \in Nat
  BY Typed
<1>7. Owned'
  <2>1. \A q \in Requests : handler'[q].pc = "audit" => handler'[q] = handler[q]
    BY <1>3, <1>5
  <2>2. \A q \in Requests : handler[q].pc # "idle" => handler'[q].pc # "idle"
    BY <1>3, <1>5
  <2> QED BY <1>1, <2>1, <2>2, OwnedStays
<1>8. Broker!TerminalStays'
  BY <1>1 DEF BrokerInv, Broker!TerminalStays
<1>9. \A i, v : Made(i, v) /\ intents[i][v].by = h => i = me.id /\ v = me.version
  BY <1>1 DEF BrokerInv, Owned
<1>10. CASE audit' = Append(audit, event)
  <2>1. /\ audit' \in Seq(Broker!Event) /\ DOMAIN audit' = 1..n /\ n \in 1..n
        /\ \A i \in DOMAIN audit : i \in 1..n /\ i # n /\ audit'[i] = audit[i]
        /\ audit'[n] = event
        /\ \A i \in 1..n : i = n \/ i \in DOMAIN audit
    BY <1>4, <1>6, <1>10
  <2> HIDE DEF n
  <2>2. \A i \in 1..n : Made(audit'[i].id, audit'[i].version)
                        /\ audit'[i].state = intents[audit'[i].id][audit'[i].version].state
    BY <1>1, <1>4, <2>1 DEF BrokerInv, OnRecord
  <2>3. \A i, j \in 1..n : audit'[i].id = audit'[j].id /\ audit'[i].version = audit'[j].version => i = j
    BY <1>1, <1>4, <2>1 DEF BrokerInv, OnRecord, Entered
  <2>4. ASSUME NEW i, NEW v, Made(i, v)
        PROVE  LET pc2 == handler'[intents[i][v].by].pc IN
               /\ pc2 = "audit" => \A k \in 1..n : ~(audit'[k].id = i /\ audit'[k].version = v)
               /\ pc2 \in {"get", "done"} => \E k \in 1..n : audit'[k].id = i /\ audit'[k].version = v
    <3>1. CASE i = me.id /\ v = me.version
      BY <1>1, <1>3, <1>4, <1>5, <2>1, <3>1
    <3>2. CASE ~(i = me.id /\ v = me.version)
      <4>1. intents[i][v].by # h /\ intents[i][v].by \in Requests
        BY <1>9, <2>4, <3>2, Typed
      <4>2. handler'[intents[i][v].by] = handler[intents[i][v].by]
        BY <1>5, <4>1
      <4>3. LET pc2 == handler[intents[i][v].by].pc IN
            /\ pc2 = "audit" => \A k \in DOMAIN audit : ~(audit[k].id = i /\ audit[k].version = v)
            /\ pc2 \in {"get", "done"} => \E k \in DOMAIN audit : audit[k].id = i /\ audit[k].version = v
        BY <2>4 DEF BrokerInv, OnRecord, Entered
      <4>4. ~(audit'[n].id = i /\ audit'[n].version = v)
        BY <1>4, <2>1, <3>2
      <4>5. \A k \in 1..n : k = n \/ (k \in DOMAIN audit /\ audit'[k] = audit[k])
        BY <2>1
      <4>6. \A k \in DOMAIN audit : k \in 1..n /\ audit'[k] = audit[k]
        BY <2>1
      <4> QED BY <4>2, <4>3, <4>4, <4>5, <4>6, Zenon
    <3> QED BY <3>1, <3>2
  <2>5. OnRecord'
    BY <1>1, <2>1, <2>2, <2>3, <2>4 DEF OnRecord, Made, Entered
  <2>6. Broker!BrokerTypeOK'
    BY <1>1, <1>5, <2>1 DEF BrokerInv, Broker!BrokerTypeOK
  <2> QED BY <1>7, <1>8, <2>5, <2>6 DEF BrokerInv
<1>11. CASE audit' = audit /\ pc = "raised"
  <2>1. OnRecord'
    <3>1. ASSUME NEW i, NEW v, Made(i, v)
          PROVE  LET pc2 == handler'[intents[i][v].by].pc IN
                 /\ pc2 = "audit" => \A k \in DOMAIN audit : ~Entered(k, i, v)
                 /\ pc2 \in {"get", "done"} => \E k \in DOMAIN audit : Entered(k, i, v)
      <4>1. CASE intents[i][v].by = h
        BY <1>3, <1>5, <1>11, <4>1
      <4>2. CASE intents[i][v].by # h
        <5>1. handler'[intents[i][v].by] = handler[intents[i][v].by]
          BY <1>5, <3>1, <4>2, Typed
        <5> QED BY <3>1, <5>1 DEF BrokerInv, OnRecord
      <4> QED BY <4>1, <4>2
    <3> QED BY <1>1, <1>11, <3>1 DEF BrokerInv, OnRecord, Made, Entered
  <2>2. Broker!BrokerTypeOK'
    BY <1>1, <1>5, <1>11 DEF BrokerInv, Broker!BrokerTypeOK
  <2> QED BY <1>7, <1>8, <2>1, <2>2 DEF BrokerInv
<1> QED BY <1>2, <1>10, <1>11

(* Steps of the routes that leave the intents and the log. *)
LEMMA RoutesEnd ==
    ASSUME BrokerInv, UNCHANGED <<intents, audit>>, handler' \in [Requests -> Broker!Handler],
           \A h \in Requests :
              \/ handler'[h] = handler[h]
              \/ handler[h].pc = "audit" /\ handler'[h].pc = "raised"
              \/ handler[h].pc = "get" /\ handler'[h].pc = "done"
    PROVE  BrokerInv'
<1>1. \A h \in Requests : handler'[h].pc = "audit" => handler'[h] = handler[h]
  OBVIOUS
<1>2. \A h \in Requests : handler[h].pc # "idle" => handler'[h].pc # "idle"
  OBVIOUS
<1>3. Owned'
  BY <1>1, <1>2, OwnedStays
<1>4. OnRecord'
  <2>1. ASSUME NEW i, NEW v, Made(i, v)
        PROVE  LET pc == handler'[intents[i][v].by].pc IN
               /\ pc = "audit" => \A k \in DOMAIN audit : ~Entered(k, i, v)
               /\ pc \in {"get", "done"} => \E k \in DOMAIN audit : Entered(k, i, v)
    <3>1. intents[i][v].by \in Requests
      BY <2>1, Typed
    <3> QED BY <2>1, <3>1 DEF BrokerInv, OnRecord
  <2> QED BY <2>1 DEF BrokerInv, OnRecord, Made, Entered
<1>5. Broker!BrokerTypeOK' /\ Broker!TerminalStays'
  BY DEF BrokerInv, Broker!BrokerTypeOK, Broker!TerminalStays
<1> QED BY <1>3, <1>4, <1>5 DEF BrokerInv

(* A route that reads its intent again changes nothing. *)
LEMMA GetKeeps == ASSUME BrokerInv, NEW h \in Requests, Broker!Get(h) PROVE BrokerInv'
<1> DEFINE next == [Broker!IdleHandler EXCEPT !.pc = "done"]
<1>1. next \in Broker!Handler /\ next.pc = "done"
  BY DEF Broker!IdleHandler, Broker!Handler
<1>2. /\ handler[h].pc = "get" /\ handler' = [handler EXCEPT ![h] = next]
      /\ UNCHANGED <<intents, audit>>
  BY DEF Broker!Get
<1> HIDE DEF next
<1> QED BY <1>1, <1>2, HandlerMoves, RoutesEnd

(* A restart ends the routes; what they have not logged is not claimed to be. *)
LEMMA BrokerRestartKeeps == ASSUME BrokerInv, Broker!BrokerRestart PROVE BrokerInv'
<1>1. UNCHANGED <<intents, audit>>
  BY DEF Broker!BrokerRestart
<1>2. ASSUME NEW h \in Requests
      PROVE  /\ handler'[h] \in Broker!Handler
             /\ \/ handler'[h] = handler[h]
                \/ handler[h].pc = "audit" /\ handler'[h].pc = "raised"
                \/ handler[h].pc = "get" /\ handler'[h].pc = "done"
  <2>1. handler[h] \in Broker!Handler
    BY Typed
  <2>2. CASE handler[h].pc = "audit"
    <3>1. handler'[h] = [handler[h] EXCEPT !.pc = "raised"]
      BY <2>2 DEF Broker!BrokerRestart
    <3> QED BY <2>1, <2>2, <3>1 DEF Broker!Handler
  <2>3. CASE handler[h].pc = "get"
    <3>1. handler'[h] = [handler[h] EXCEPT !.pc = "done"]
      BY <2>3 DEF Broker!BrokerRestart
    <3> QED BY <2>1, <2>3, <3>1 DEF Broker!Handler
  <2>4. CASE handler[h].pc \notin {"audit", "get"}
    <3>1. handler'[h] = handler[h]
      BY <2>4 DEF Broker!BrokerRestart
    <3> QED BY <2>1, <3>1
  <2> QED BY <2>2, <2>3, <2>4
<1>3. handler' \in [Requests -> Broker!Handler]
  BY <1>2 DEF Broker!BrokerRestart
<1> QED BY <1>1, <1>2, <1>3, RoutesEnd

-----------------------------------------------------------------------------
(* One request per key has its route run.  It has begun when the key is its
   own, and whoever begins later with that key has found it gone. *)
Began(r) == request[r].pc = "running" \/ handler[r].pc # "idle"

OnceInv ==
    /\ \A r \in Requests : handler[r].pc # "idle" => request[r].pc \in {"running", "done"}
    /\ \A r \in Requests : Began(r) => request[r].slot \in Held(cache) \cup dropped
    /\ \A q, r \in Requests :
          Began(q) /\ Began(r) /\ request[q].slot = request[r].slot =>
              q = r \/ request[r].slot \in dropped

Inv == GatewayInv /\ BrokerInv /\ OnceInv

(* The service starts without entries, intents and events. *)
LEMMA InitInv == Init => Inv
<1> SUFFICES ASSUME Init PROVE Inv
  OBVIOUS
<1>1. /\ sessions = [s \in Sessions |-> "new"] /\ cache = <<>>
      /\ request = [r \in Requests |-> Unsent]
      /\ intents = <<>> /\ audit = <<>> /\ handler = [h \in Requests |-> Broker!IdleHandler]
  BY DEF Init, GatewayInit, Broker!BrokerInit
<1>2. Unsent \in Request /\ Unsent.pc = "new" /\ Unsent.answer = None
  BY DEF Unsent, Request
<1>3. Broker!IdleHandler \in Broker!Handler /\ Broker!IdleHandler.pc = "idle"
  BY DEF Broker!IdleHandler, Broker!Handler
<1>4. \A r \in Requests : request[r] \in Request /\ request[r].pc = "new" /\ request[r].answer = None
                          /\ handler[r] \in Broker!Handler /\ handler[r].pc = "idle"
  BY <1>1, <1>2, <1>3
<1>5. \A T : <<>> \in Seq(T) /\ DOMAIN <<>> = {} /\ Len(<<>>) = 0
  OBVIOUS
<1>6. GatewayInv
  BY <1>1, <1>2, <1>4, <1>5, GatewayAssumption DEF GatewayInv, Distinct, AnswerIsOwn, Answers
<1>7. BrokerInv
  <2>1. Broker!BrokerTypeOK
    BY <1>1, <1>3, <1>5, IntentsAssumption DEF Broker!BrokerTypeOK
  <2>2. Broker!TerminalStays
    BY <1>1, <1>5 DEF Broker!TerminalStays
  <2>3. Owned
    BY <1>1, <1>4, <1>5 DEF Owned, Made
  <2>4. OnRecord
    BY <1>1, <1>4, <1>5 DEF OnRecord, Made, Entered
  <2> QED BY <2>1, <2>2, <2>3, <2>4 DEF BrokerInv
<1>8. OnceInv
  BY <1>4 DEF OnceInv, Began
<1> QED BY <1>6, <1>7, <1>8 DEF Inv

(* Nobody begins. *)
LEMMA OnceStays ==
    ASSUME OnceInv, Later, dropped' = dropped \cup (Held(cache) \ Held(cache')),
           \A q \in Requests :
              /\ request'[q].pc = "running" => request[q].pc = "running"
              /\ request[q].pc \in {"running", "done"} => request'[q].pc \in {"running", "done"}
              /\ handler'[q].pc # "idle" => Began(q)
    PROVE  OnceInv'
<1>1. \A q \in Requests : Began(q)' => Began(q)
  BY DEF Began
<1>2. \A q \in Requests : Began(q) => request[q].pc \in {"running", "done"}
  BY DEF OnceInv, Began
<1>3. \A q \in Requests : Began(q)' => request'[q].slot = request[q].slot
  BY <1>1, <1>2 DEF Later
<1>4. \A q \in Requests : handler'[q].pc # "idle" => request'[q].pc \in {"running", "done"}
  BY <1>2
<1>5. \A r \in Requests : Began(r)' => request'[r].slot \in Held(cache') \cup dropped'
  BY <1>1, <1>3 DEF OnceInv
<1>6. \A q, r \in Requests :
          Began(q)' /\ Began(r)' /\ request'[q].slot = request'[r].slot =>
              q = r \/ request'[r].slot \in dropped'
  BY <1>1, <1>3 DEF OnceInv
<1>7. Held(cache)' = Held(cache')
  BY DEF Held
<1> QED BY <1>4, <1>5, <1>6, <1>7 DEF OnceInv

(* The key of a request that begins was nobody's that was still good, and is his. *)
LEMMA ReserveOnce ==
    ASSUME Inv, NEW r \in Requests, Reserve(r), UNCHANGED brokerVars,
           dropped' = dropped \cup (Held(cache) \ Held(cache'))
    PROVE  OnceInv'
<1> DEFINE kept == Fresh(cache)
           mine == {i \in DOMAIN kept : kept[i].slot = request[r].slot}
           all == Append(kept, EntryOf(r, None))
<1>1. Later /\ cache' \in Seq(Entry) /\ handler' = handler
  BY ReserveKeeps DEF Inv, GatewayInv, brokerVars
<1>2. /\ request[r].pc = "admitted" /\ request[r] \in Request /\ handler[r].pc = "idle"
      /\ request[r].slot \in Slots /\ request[r].content \in Contents
  BY DEF Reserve, Inv, GatewayInv, OnceInv, AnswerIsOwn
<1>3. CASE request'[r].pc = "done" /\ \A q \in Requests \ {r} : request'[q] = request[q]
  BY <1>1, <1>2, <1>3, OnceStays DEF Inv, Began
<1>4. CASE mine = {} /\ request' = [request EXCEPT ![r].pc = "running"]
           /\ cache' = SubSeq(all, IF Len(all) > Capacity THEN Len(all) - Capacity + 1 ELSE 1,
                              Len(all))
  <2>1. /\ request'[r].pc = "running" /\ request'[r].slot = request[r].slot
        /\ \A q \in Requests \ {r} : request'[q] = request[q]
    BY <1>2, <1>4 DEF Inv, GatewayInv, Request
  <2>2. request[r].slot \notin Held(cache)
    BY <1>4 DEF Held, SlotsIn
  <2>3. request[r].slot \in Held(cache')
    <3> DEFINE entry == EntryOf(r, None)
               from == IF Len(all) > Capacity THEN Len(all) - Capacity + 1 ELSE 1
               last == Len(all) - from + 1
    <3>1. entry \in Entry /\ entry.slot = request[r].slot /\ entry.ttl > 0
      BY <1>2, GatewayAssumption DEF Entry, EntryOf
    <3>2. kept \in Seq(Entry)
      BY KeepWithin DEF Fresh, Inv, GatewayInv
    <3> HIDE DEF entry, kept
    <3>3. all \in Seq(Entry) /\ Len(all) \in Nat \ {0} /\ all[Len(all)] = entry
      BY <3>1, <3>2 DEF entry
    <3>4. cache' = SubSeq(all, from, Len(all))
      BY <1>4
    <3> HIDE DEF all
    <3>5. from \in 1..Len(all) /\ last \in 1..last /\ from + last - 1 = Len(all)
      BY <3>3, GatewayAssumption
    <3> HIDE DEF from
    <3>6. last \in DOMAIN cache' /\ cache'[last] = entry
      BY <3>3, <3>4, <3>5
    <3>7. SlotsIn(Fresh(cache')) = {cache'[i].slot : i \in {k \in DOMAIN cache' : cache'[k].ttl > 0}}
      BY <1>1, FreshHas
    <3> QED BY <3>1, <3>6, <3>7 DEF Held
  <2>4. \A q \in Requests : Began(q)' => q = r \/ Began(q)
    BY <1>1, <2>1 DEF Began
  <2>5. \A q \in Requests : Began(q)' => request'[q].slot = request[q].slot
    BY <2>1
  <2>6. \A q \in Requests : handler'[q].pc # "idle" => request'[q].pc \in {"running", "done"}
    BY <1>1, <1>2, <2>1 DEF Inv, OnceInv
  <2>7. \A q \in Requests : Began(q)' => request'[q].slot \in Held(cache') \cup dropped'
    BY <2>1, <2>3, <2>4, <2>5 DEF Inv, OnceInv
  <2>8. \A q \in Requests : Began(q) => request[q].slot \in Held(cache) \cup dropped
    BY DEF Inv, OnceInv
  <2>9. \A q, p \in Requests :
            Began(q)' /\ Began(p)' /\ request'[q].slot = request'[p].slot =>
                q = p \/ request'[p].slot \in dropped'
    <3> SUFFICES ASSUME NEW q \in Requests, NEW p \in Requests, Began(q)', Began(p)',
                        request[q].slot = request[p].slot, q # p
                 PROVE  request[p].slot \in dropped
      BY <2>5
    <3>1. CASE q = r
      BY <2>2, <2>4, <2>8, <3>1
    <3>2. CASE p = r
      BY <2>2, <2>4, <2>8, <3>2
    <3>3. CASE q # r /\ p # r
      BY <2>4, <3>3 DEF Inv, OnceInv
    <3> QED BY <3>1, <3>2, <3>3
  <2>10. Held(cache)' = Held(cache')
    BY DEF Held
  <2> QED BY <2>6, <2>7, <2>9, <2>10 DEF OnceInv
<1>5. CASE \E answer, of : Answered(r, answer, of)
  <2>1. request'[r].pc = "done" /\ \A q \in Requests \ {r} : request'[q] = request[q]
    BY <1>2, <1>5 DEF Answered, Inv, GatewayInv, Request
  <2> QED BY <1>3, <2>1
<1> QED BY <1>4, <1>5 DEF Reserve

-----------------------------------------------------------------------------
(* The gateway leaves the routes alone. *)
LEMMA GatewayStep ==
    ASSUME Inv, Gateway, dropped' = dropped \cup (Held(cache) \ Held(cache')) PROVE Inv'
<1>1. UNCHANGED brokerVars /\ UNCHANGED <<intents, audit, handler>>
  BY DEF Gateway, brokerVars
<1>2. BrokerInv'
  <2>1. handler' \in [Requests -> Broker!Handler] /\ \A h \in Requests : handler'[h] = handler[h]
    BY <1>1, Typed DEF Inv
  <2> QED BY <1>1, <2>1, RoutesEnd DEF Inv
<1>3. CASE \E s \in Sessions : Login(s) \/ Logout(s) \/ SessionExpires(s)
  <2>1. PICK s \in Sessions : Login(s) \/ Logout(s) \/ SessionExpires(s)
    BY <1>3
  <2>2. GatewayInv' /\ Later /\ request' = request
    BY <2>1, SessionsKeep DEF Inv, Login, Logout, SessionExpires
  <2>3. OnceInv'
    BY <1>1, <2>2, OnceStays DEF Inv, Began
  <2> QED BY <1>2, <2>2, <2>3 DEF Inv
<1>4. CASE \E r \in Requests, slot \in Slots, content \in Contents : Admit(r, slot, content)
  <2>1. PICK r \in Requests, slot \in Slots, content \in Contents : Admit(r, slot, content)
    BY <1>4
  <2>2. GatewayInv' /\ Later
    BY <2>1, AdmitKeeps DEF Inv
  <2>3. request[r].pc = "new" /\ request'[r].pc = "admitted"
        /\ \A q \in Requests \ {r} : request'[q] = request[q]
    BY <2>1 DEF Admit, Inv, GatewayInv, Request
  <2>4. \A q \in Requests :
              /\ request'[q].pc = "running" => request[q].pc = "running"
              /\ request[q].pc \in {"running", "done"} => request'[q].pc \in {"running", "done"}
              /\ handler'[q].pc # "idle" => Began(q)
    BY <1>1, <2>3 DEF Began
  <2>5. OnceInv'
    BY <2>2, <2>4, OnceStays DEF Inv
  <2> QED BY <1>2, <2>2, <2>5 DEF Inv
<1>5. CASE \E r \in Requests : Reserve(r)
  BY <1>1, <1>2, <1>5, ReserveKeeps, ReserveOnce DEF Inv
<1>6. CASE Tick
  <2>1. GatewayInv' /\ Later /\ request' = request
    BY <1>6, TickKeeps DEF Inv, Tick
  <2>2. OnceInv'
    BY <1>1, <2>1, OnceStays DEF Inv, Began
  <2> QED BY <1>2, <2>1, <2>2 DEF Inv
<1> QED BY <1>3, <1>4, <1>5, <1>6 DEF Gateway

(* The routes leave the gateway alone, and begin in a request that runs. *)
LEMMA RouteStep ==
    ASSUME Inv, NEW r \in Requests, Route(r) \/ RouteGoesOn(r),
           dropped' = dropped \cup (Held(cache) \ Held(cache'))
    PROVE  Inv'
<1>1. UNCHANGED <<sessions, cache, request>>
  BY DEF Route, RouteGoesOn, gatewayVars
<1>2. GatewayInv' /\ Later
  <2>1. Later
    BY <1>1 DEF Later
  <2>2. \A i \in DOMAIN cache' : EntryIsOwn(cache[i])'
    BY <1>1 DEF Inv, GatewayInv, EntryIsOwn, Came, Executed
  <2>3. \A q \in Requests : AnswerIsOwn(q)'
    BY <1>1 DEF Inv, GatewayInv, AnswerIsOwn, Came, Executed
  <2> QED BY <1>1, <2>1, <2>2, <2>3 DEF Inv, GatewayInv, Distinct
<1>3. BrokerInv' /\ (handler[r].pc # "idle" \/ request[r].pc = "running")
      /\ \A q \in Requests \ {r} : handler'[q] = handler[q]
  <2>0. handler \in [Requests -> Broker!Handler]
    BY Typed DEF Inv
  <2>1. CASE Route(r)
    <3>1. request[r].pc = "running"
      BY <2>1 DEF Route
    <3>2. CASE Broker!Enqueue(r)
      <4>1. BrokerInv'
        BY <3>2, EnqueueKeeps DEF Inv
      <4>2. \A q \in Requests \ {r} : handler'[q] = handler[q]
        BY <2>0, <3>2 DEF Broker!Enqueue, Broker!Changed
      <4> QED BY <3>1, <4>1, <4>2
    <3>3. CASE Broker!Update(r, request[r].content.id, request[r].content.state)
      <4>1. BrokerInv'
        BY <3>3, UpdateKeeps DEF Inv
      <4>2. \A q \in Requests \ {r} : handler'[q] = handler[q]
        BY <2>0, <3>3 DEF Broker!Update, Broker!Changed
      <4> QED BY <3>1, <4>1, <4>2
    <3> QED BY <2>1, <3>2, <3>3 DEF Route
  <2>2. CASE Broker!AppendAudit(r)
    <3>1. BrokerInv'
      BY <2>2, AppendAuditKeeps DEF Inv
    <3>2. handler[r].pc = "audit" /\ \A q \in Requests \ {r} : handler'[q] = handler[q]
      BY <2>0, <2>2 DEF Broker!AppendAudit
    <3> QED BY <3>1, <3>2
  <2>3. CASE Broker!Get(r)
    <3>1. BrokerInv'
      BY <2>3, GetKeeps DEF Inv
    <3>2. handler[r].pc = "get" /\ \A q \in Requests \ {r} : handler'[q] = handler[q]
      BY <2>0, <2>3 DEF Broker!Get
    <3> QED BY <3>1, <3>2
  <2> QED BY <2>1, <2>2, <2>3 DEF RouteGoesOn
<1>4. \A q \in Requests : handler'[q].pc # "idle" => Began(q)
  BY <1>3 DEF Began
<1>5. OnceInv'
  BY <1>1, <1>2, <1>4, OnceStays DEF Inv
<1> QED BY <1>2, <1>3, <1>5 DEF Inv

(* What a route answered or raised is what the gateway keeps of it. *)
LEMMA FinishStep ==
    ASSUME Inv, NEW r \in Requests, Finish(r),
           dropped' = dropped \cup (Held(cache) \ Held(cache'))
    PROVE  Inv'
<1>1. UNCHANGED <<intents, audit, handler>> /\ (Answer(r) \/ Raise(r))
  BY DEF Finish, brokerVars
<1>2. BrokerInv'
  <2>1. handler' \in [Requests -> Broker!Handler] /\ \A h \in Requests : handler'[h] = handler[h]
    BY <1>1, Typed DEF Inv
  <2> QED BY <1>1, <2>1, RoutesEnd DEF Inv
<1>3. GatewayInv' /\ Later
  BY <1>1, AnswerKeeps, RaiseKeeps DEF Inv
<1>4. request[r].pc = "running" /\ request'[r].pc = "done"
      /\ \A q \in Requests \ {r} : request'[q] = request[q]
  BY <1>1 DEF Answer, Raise, Answered, Inv, GatewayInv, Request
<1>5. \A q \in Requests : handler'[q].pc # "idle" => Began(q)
  BY <1>1 DEF Began
<1>6. \A q \in Requests :
          /\ request'[q].pc = "running" => request[q].pc = "running"
          /\ request[q].pc \in {"running", "done"} => request'[q].pc \in {"running", "done"}
  BY <1>4
<1>7. OnceInv'
  BY <1>3, <1>5, <1>6, OnceStays DEF Inv
<1> QED BY <1>2, <1>3, <1>7 DEF Inv

(* One restart ends both. *)
LEMMA RestartStep ==
    ASSUME Inv, Restart, dropped' = dropped \cup (Held(cache) \ Held(cache')) PROVE Inv'
<1>1. GatewayInv' /\ Later /\ BrokerInv'
  BY GatewayRestartKeeps, BrokerRestartKeeps DEF Inv, Restart
<1>2. \A q \in Requests :
          /\ request'[q].pc = "running" => request[q].pc = "running"
          /\ request[q].pc \in {"running", "done"} => request'[q].pc \in {"running", "done"}
  <2>1. \A q \in Requests :
            request'[q] = IF request[q].pc \in {"admitted", "running"}
                          THEN [request[q] EXCEPT !.pc = "done", !.answer = "lost"] ELSE request[q]
    BY DEF Restart, GatewayRestart
  <2>2. \A q \in Requests : request[q] \in Request
    BY DEF Inv, GatewayInv
  <2> QED BY <2>1, <2>2 DEF Request
<1>3. \A q \in Requests : handler'[q].pc # "idle" => Began(q)
  <2>1. \A q \in Requests : handler[q].pc = "idle" => handler'[q] = handler[q]
    BY DEF Restart, Broker!BrokerRestart
  <2> QED BY <2>1 DEF Began
<1>4. OnceInv'
  BY <1>1, <1>2, <1>3, OnceStays DEF Inv
<1> QED BY <1>1, <1>4 DEF Inv

(* A step of something else. *)
LEMMA StutterStep == ASSUME Inv, UNCHANGED vars PROVE Inv'
<1>1. UNCHANGED <<sessions, cache, request, intents, audit, handler, dropped>>
  BY DEF vars
<1>2. GatewayInv'
  <2>1. \A i \in DOMAIN cache' : EntryIsOwn(cache[i])'
    BY <1>1 DEF Inv, GatewayInv, EntryIsOwn, Came, Executed
  <2>2. Later
    BY <1>1 DEF Later
  <2>3. \A q \in Requests : AnswerIsOwn(q)'
    BY <1>1, <2>2, AnswerLasts DEF Inv
  <2> QED BY <1>1, <2>1, <2>3 DEF Inv, GatewayInv, Distinct
<1>3. BrokerInv'
  <2>1. handler' \in [Requests -> Broker!Handler] /\ \A h \in Requests : handler'[h] = handler[h]
    BY <1>1, Typed DEF Inv
  <2> QED BY <1>1, <2>1, RoutesEnd DEF Inv
<1>4. Held(cache)' = Held(cache)
  BY <1>1 DEF Held
<1>5. OnceInv'
  BY <1>1, <1>4 DEF Inv, OnceInv, Began
<1> QED BY <1>2, <1>3, <1>5 DEF Inv

(* The invariant holds in every state of the service. *)
LEMMA Invariance == Spec => []Inv
<1>1. Inv /\ [Next]_vars => Inv'
  BY GatewayStep, RouteStep, FinishStep, RestartStep, StutterStep DEF Next
<1> QED BY InitInv, <1>1, PTL DEF Spec

-----------------------------------------------------------------------------
(* The cache has as many entries as keys. *)
LEMMA OneEntryPerKey ==
    ASSUME NEW q \in Seq(Entry), Distinct(q) PROVE Len(q) = Cardinality(SlotsIn(q))
<1> DEFINE f == [i \in 1..Len(q) |-> q[i].slot]
           S == SlotsIn(q)
<1>1. DOMAIN q = 1..Len(q) /\ Len(q) \in Nat
  OBVIOUS
<1>2. f \in [1..Len(q) -> S] /\ (\A i, j \in 1..Len(q) : f[i] = f[j] => i = j)
      /\ \A s \in S : \E i \in 1..Len(q) : f[i] = s
  BY <1>1 DEF SlotsIn, Distinct
<1> HIDE DEF f, S
<1>3. f \in Bijection(1..Len(q), S)
  BY <1>2 DEF Bijection, Injection, Surjection, IsInjective
<1>4. ExistsBijection(1..Len(q), S)
  BY <1>3 DEF ExistsBijection
<1> QED BY <1>1, <1>4, FS_CountingElements DEF S

(* An answer is replayed only to a request of the same session, with the same key
   and content, as one that has been executed; a conflict is reported only where
   the key came with another content: idempotency_reserve and
   idempotency_complete, whatever expires, is evicted or logged out between. *)
THEOREM AnswersStayOwn == Spec => []AnswersAreOwn
<1>1. Inv => AnswersAreOwn
  <2> SUFFICES ASSUME Inv PROVE AnswersAreOwn
    OBVIOUS
  <2>1. TypeOK
    BY OneEntryPerKey DEF TypeOK, GatewayTypeOK, Inv, GatewayInv, BrokerInv
  <2>2. ReplayIsOwn
    BY DEF Inv, GatewayInv, AnswerIsOwn, Executed, ReplayIsOwn
  <2>3. ConflictIsReal
    BY DEF Inv, GatewayInv, AnswerIsOwn, Came, ConflictIsReal
  <2> QED BY <2>1, <2>2, <2>3 DEF AnswersAreOwn
<1> QED BY <1>1, Invariance, PTL

(* IntentBroker.update never undoes a terminal state, and the log has each change
   that was answered, once, however the routes interleave and even if the append
   of the log raises or the process is restarted between the two. *)
THEOREM HistoryStaysSound == Spec => []HistoryIsSound
<1>1. Inv => HistoryIsSound
  <2> SUFFICES ASSUME Inv PROVE HistoryIsSound
    OBVIOUS
  <2>1. \A i \in DOMAIN audit :
          /\ audit[i].id \in DOMAIN intents
          /\ audit[i].version \in DOMAIN intents[audit[i].id]
          /\ audit[i].state = intents[audit[i].id][audit[i].version].state
    BY DEF Inv, BrokerInv, OnRecord, Made
  <2>2. ASSUME NEW id \in DOMAIN intents, NEW version \in DOMAIN intents[id]
        PROVE  LET pc == handler[intents[id][version].by].pc IN
               /\ Cardinality(Broker!Logged(id, version)) <= 1
               /\ pc = "audit" => Broker!Logged(id, version) = {}
               /\ pc \in {"get", "done"} => Broker!Logged(id, version) # {}
    <3>1. \A i, j \in Broker!Logged(id, version) : i = j
      BY DEF Inv, BrokerInv, OnRecord, Entered, Broker!Logged
    <3>2. Cardinality(Broker!Logged(id, version)) <= 1
      BY <3>1, AtMostOne
    <3> QED BY <3>2 DEF Inv, BrokerInv, OnRecord, Entered, Made, Broker!Logged
  <2>3. Broker!ChangesAreLogged
    <3>1. \A S : Broker!Cardinality(S) = Cardinality(S)
      BY DEF Broker!Cardinality, Cardinality
    <3> QED BY <2>1, <2>2, <3>1 DEF Broker!ChangesAreLogged
  <2>4. Broker!TerminalStays
    BY DEF Inv, BrokerInv
  <2> QED BY <2>3, <2>4, Zenon DEF HistoryIsSound, Broker!HistoryIsSound
<1> QED BY <1>1, Invariance, PTL

(* Requests of one session with one key make one change at most, as long as the
   cache has not lost the key: the middleware reserves it before the route runs,
   and what duplicates it, whether that overtakes it or follows its failure, finds
   the key reserved. *)
THEOREM KeysActOnce == Spec => []OncePerKey
<1>1. Inv => OncePerKey
  <2> SUFFICES ASSUME Inv, NEW slot \in Slots, slot \notin dropped
               PROVE  Cardinality(ChangesOf(slot)) <= 1
    BY DEF OncePerKey
  <2>1. ASSUME NEW a \in ChangesOf(slot), NEW b \in ChangesOf(slot) PROVE a = b
    <3>1. \A c \in ChangesOf(slot) :
              /\ c = <<c[1], c[2]>> /\ Made(c[1], c[2])
              /\ request[intents[c[1]][c[2]].by].slot = slot
      BY DEF ChangesOf, Made
    <3> DEFINE q == intents[a[1]][a[2]].by
               r == intents[b[1]][b[2]].by
    <3>2. q \in Requests /\ r \in Requests /\ Began(q) /\ Began(r)
          /\ request[q].slot = slot /\ request[r].slot = slot
      <4>1. \A i, v : Made(i, v) =>
                intents[i][v].by \in Requests /\ Began(intents[i][v].by)
        BY Typed DEF Inv, BrokerInv, Owned, Began
      <4> QED BY <3>1, <4>1
    <3>3. q = r
      BY <3>2 DEF Inv, OnceInv
    <3>4. a[1] = b[1] /\ a[2] = b[2]
      <4>1. Owned
        BY DEF Inv, BrokerInv
      <4>2. Made(a[1], a[2]) /\ Made(b[1], b[2])
        BY <3>1
      <4> QED BY <3>3, <4>1, <4>2 DEF Owned
    <3> QED BY <3>1, <3>4
  <2> QED BY <2>1, AtMostOne
<1> QED BY <1>1, Invariance, PTL
=============================================================================
