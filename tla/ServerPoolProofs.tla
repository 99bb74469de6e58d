-------------------------- MODULE ServerPoolProofs --------------------------
(***************************************************************************)
(* Proofs about ServerPool, for every number of clients, servers, weight   *)
(* updates, cache sizes and lengths, and whichever calls of the trainer    *)
(* fail: the balancer's counts are real, an answer's versions ascend, a    *)
(* conversation comes back to its server and every refusal has its reason. *)
(***************************************************************************)
EXTENDS ServerPool, FiniteSetTheorems, WellFoundedInduction, TLAPS

-----------------------------------------------------------------------------
(* The inductive invariant.                                                *)

Alone == Elems(Standalone)
Hybrids == Elems(Hybrid)

\* Which servers a step of the trainer has left in which state: those that it
\* has reached, and those that the steps before it were for.
PhasePool ==
    /\ at # 0 => todo \subseteq Group(at) /\ current > 0
    /\ Alone \subseteq pool
    /\ lost \cap {"add", "remove"} = {} =>
          /\ pool = IF at \in 8..13 THEN Servers ELSE Alone
          /\ alive <=> at \in 8..13

PhaseAlone ==
    \A s \in Alone :
        /\ ~asleep[s]
        /\ "abort" \notin lost =>
              /\ at = 1 /\ s \notin todo => paused[s]
              /\ at = 2 => paused[s]
              /\ at = 3 /\ s \in todo => paused[s]
        /\ version[s] = IF at = 1 \/ (at = 2 /\ s \in todo) THEN current - 1 ELSE current

PhaseHybrid ==
    \A s \in Hybrids :
        /\ at \in {0, 1, 2, 3, 15, 16} => asleep[s]
        /\ at = 4 => (asleep[s] <=> s \in todo)
        /\ at \in 5..13 => ~asleep[s]
        /\ at = 14 => (asleep[s] <=> s \notin todo)
        /\ "abort" \notin lost =>
              /\ at = 12 /\ s \notin todo => paused[s]
              /\ at \in {13, 14} => paused[s]
        /\ version[s] <= current /\ (~asleep[s] => version[s] = current)

Phase == PhasePool /\ PhaseAlone /\ PhaseHybrid

\* Unless an interruption has failed, a server that is paused or asleep
\* generates nothing.
Quiet ==
    "abort" \notin lost =>
        \A c \in Clients : req[c].st = "gen" => ~paused[req[c].srv] /\ ~asleep[req[c].srv]

\* A client with a call on its way owes no release.
Hold ==
    \A c \in Clients :
        req[c].st \in {"call", "gen", "back"} => owed[c] = NoServer /\ req[c].srv \in Servers

\* The count of a server that is not in the pool is zero.
Zero == \A s \in Servers \ pool : inflight[s] = 0

\* A conversation has at most one cache entry.
CacheKeys == \A i, k \in 1..Len(cache) : cache[i].id = cache[k].id => i = k

\* The oldest version that an awake server may have.
Low == IF at \in {1, 2} THEN current - 1 ELSE current

\* The versions of one answer ascend, from call to call and within the call in
\* progress, whose server had version[r.srv] at last.
SpanOf(r, low, ver) ==
    /\ \A i, k \in 1..Len(r.tokens) : i < k => r.tokens[i] <= r.tokens[k]
    /\ r.st # "done" => r.lo <= low /\ \A i \in 1..Len(r.tokens) : r.tokens[i] <= low
    /\ r.st \in {"gen", "back"} =>
          /\ \A i, k \in 1..Len(r.chunk) : i < k => r.chunk[i] <= r.chunk[k]
          /\ \A i \in 1..Len(r.tokens) : \A k \in 1..Len(r.chunk) : r.tokens[i] <= r.chunk[k]
    /\ r.st = "gen" => \A i \in 1..Len(r.chunk) : r.chunk[i] <= ver[r.srv]
    /\ r.st = "back" /\ r.gs = NoVersion => r.chunk = <<>> /\ r.stop = "aborted"
    /\ r.st = "back" /\ r.gs # NoVersion =>
          r.lo <= r.gs /\ \A i \in 1..Len(r.chunk) : r.chunk[i] <= r.gs
    /\ r.st = "back" /\ r.stop = "aborted" => r.gs <= low
    /\ r.st = "back" /\ r.stop = "completed" => r.chunk # <<>>
    /\ r.st = "done" /\ r.stop = "completed" =>
          r.tokens # <<>> /\ r.tokens[Len(r.tokens)] <= r.hi

\* What a call produces is of one version, the one that it reports.
SharpOf(r, ver) ==
    /\ r.tokens # <<>> => r.lo # NoVersion /\ r.lo <= r.tokens[1]
    /\ r.st = "gen" => \A i \in 1..Len(r.chunk) : r.chunk[i] = ver[r.srv]
    /\ r.st = "back" /\ r.gs # NoVersion => \A i \in 1..Len(r.chunk) : r.chunk[i] = r.gs

Span == \A c \in Clients : SpanOf(req[c], Low, version)
Sharp == "abort" \notin lost => \A c \in Clients : SharpOf(req[c], version)

-----------------------------------------------------------------------------
(* The trainer's steps.                                                    *)

\* The sixteen steps around a weight update.
LEMMA ScriptIs ==
  /\ Len(Script) = 16
  /\ Script[1] = <<"abort", "S">> /\ Script[2] = <<"load", "S">> /\ Script[3] = <<"resume", "S">>
  /\ Script[4] = <<"load", "H">> /\ Script[5] = <<"abort", "S">> /\ Script[6] = <<"abort", "H">>
  /\ Script[7] = <<"add", "H">> /\ Script[8] = <<"resume", "S">> /\ Script[9] = <<"resume", "H">>
  /\ Script[10] = <<"validate", "S">> /\ Script[11] = <<"abort", "S">>
  /\ Script[12] = <<"abort", "H">> /\ Script[13] = <<"remove", "H">> /\ Script[14] = <<"sleep", "H">>
  /\ Script[15] = <<"resume", "S">> /\ Script[16] = <<"resume", "H">>
  BY DEF Script

\* The steps with their operation and their servers.
LEMMA OpIs ==
  ASSUME at \in 1..16
  PROVE  /\ Op = "abort" => at \in {1, 5, 6, 11, 12}
         /\ Op = "load" => at \in {2, 4}
         /\ Op = "resume" => at \in {3, 8, 9, 15, 16}
         /\ Op = "add" => at = 7
         /\ Op = "validate" => at = 10
         /\ Op = "remove" => at = 13
         /\ Op = "sleep" => at = 14
<1>1. at \in {1, 2, 3, 4, 5, 6, 7, 8} \/ at \in {9, 10, 11, 12, 13, 14, 15, 16}
  OBVIOUS
<1>2. CASE at \in {1, 2, 3, 4, 5, 6, 7, 8}
  BY <1>2, ScriptIs DEF Op
<1>3. CASE at \in {9, 10, 11, 12, 13, 14, 15, 16}
  BY <1>3, ScriptIs DEF Op
<1> QED BY <1>1, <1>2, <1>3

\* The servers of a step.
LEMMA GroupIs ==
  /\ \A i \in {1, 2, 3, 5, 8, 10, 11, 15} : Group(i) = Alone
  /\ \A i \in {4, 6, 7, 9, 12, 13, 14, 16} : Group(i) = Hybrids
<1>1. \A i \in {1, 2, 3, 5, 8, 10, 11, 15} : Script[i][2] = "S"
  BY ScriptIs
<1>2. \A i \in {4, 6, 7, 9, 12, 13, 14, 16} : Script[i][2] = "H"
  BY ScriptIs
<1> QED BY <1>1, <1>2 DEF Group, Alone, Hybrids

\* A step goes on to the next one when it has reached its last server.
LEMMA AdvanceIs ==
  ASSUME at \in 1..16, Advance
  PROVE  \/ at' = at + 1 /\ at # 16 /\ todo' = Group(at + 1)
         \/ at' = 0 /\ at \in {3, 16} /\ todo' = {}
  BY ScriptIs DEF Advance, Ended

\* One server of a step has been reached.
LEMMA ReachedIs ==
  ASSUME at \in 1..16, NEW s \in todo, Reached(s)
  PROVE  \/ at' = at /\ todo' = todo \ {s}
         \/ todo = {s} /\ at' = at + 1 /\ at # 16 /\ todo' = Group(at + 1)
         \/ todo = {s} /\ at' = 0 /\ at \in {3, 16} /\ todo' = {}
<1>1. CASE todo = {s}
  BY <1>1, AdvanceIs DEF Reached
<1>2. CASE todo # {s}
  BY <1>2 DEF Reached
<1> QED BY <1>1, <1>2

-----------------------------------------------------------------------------
(* The load balancer.                                                      *)

\* A set of naturals has a least element.
LEMMA Least ==
  ASSUME NEW T, T \subseteq Nat, T # {}
  PROVE  \E x \in T : \A y \in T : x <= y
<1> DEFINE R == OpToRel(<, Nat)
<1>1. \E x \in T : \A y \in T : ~ (<<y, x>> \in R)
  <2>1. IsWellFoundedOn(R, Nat)
    BY NatLessThanWellFounded
  <2> HIDE DEF R
  <2> QED BY <2>1, WFMin
<1>2. PICK x \in T : \A y \in T : ~ (<<y, x>> \in R)
  BY <1>1
<1>3. \A y \in T : x <= y
  <2> TAKE y \in T
  <2>1. x \in Nat /\ y \in Nat
    OBVIOUS
  <2>2. ~(y < x)
    BY <1>2, <2>1 DEF OpToRel
  <2> QED BY <2>1, <2>2
<1> QED BY <1>3

\* The servers have places in the dict.
LEMMA RankIs == \A s \in Servers : Rank(s) \in Nat
<1> SUFFICES ASSUME NEW s \in Servers PROVE Rank(s) \in Nat
  OBVIOUS
<1> DEFINE q == Standalone \o Hybrid
<1>0. Standalone \in Seq(Alone) /\ Hybrid \in Seq(Hybrids)
  BY PoolAssumption DEF Alone, Hybrids
<1>1. Standalone \in Seq(Servers) /\ Hybrid \in Seq(Servers)
  BY <1>0 DEF Alone, Hybrids, Servers
<1>2. /\ Len(q) = Len(Standalone) + Len(Hybrid) /\ Len(Standalone) \in Nat /\ Len(Hybrid) \in Nat
      /\ \A i \in 1..Len(q) : q[i] = IF i <= Len(Standalone) THEN Standalone[i]
                                     ELSE Hybrid[i - Len(Standalone)]
  BY <1>1
<1> HIDE DEF q
<1>3. \E i \in 1..Len(q) : q[i] = s
  <2>1. CASE s \in Elems(Standalone)
    <3>1. PICK i \in 1..Len(Standalone) : Standalone[i] = s
      BY <2>1 DEF Elems
    <3>2. i \in 1..Len(q) /\ q[i] = s
      BY <1>2, <3>1
    <3> QED BY <3>2
  <2>2. CASE s \in Elems(Hybrid)
    <3>1. PICK i \in 1..Len(Hybrid) : Hybrid[i] = s
      BY <2>2 DEF Elems
    <3> DEFINE k == i + Len(Standalone)
    <3>2. k \in 1..Len(q) /\ ~(k <= Len(Standalone)) /\ k - Len(Standalone) = i
      BY <1>2
    <3> HIDE DEF k
    <3>3. q[k] = s
      BY <1>2, <3>1, <3>2
    <3> QED BY <3>2, <3>3
  <2> QED BY <2>1, <2>2 DEF Servers
<1>4. Rank(s) = CHOOSE i \in 1..Len(q) : q[i] = s
  BY DEF Rank, q
<1>5. Rank(s) \in 1..Len(q)
  BY <1>3, <1>4
<1> QED BY <1>2, <1>5

\* min finds a server of the pool.
LEMMA LeastLoadedIn ==
  ASSUME pool \subseteq Servers, pool # {}, inflight \in [Servers -> Nat]
  PROVE  LeastLoaded \in pool
<1> DEFINE L == {inflight[s] : s \in pool}
<1>1. PICK m \in L : \A y \in L : m <= y
  <2>1. L \subseteq Nat /\ L # {}
    OBVIOUS
  <2> HIDE DEF L
  <2> QED BY <2>1, Least
<1> DEFINE B == {s \in pool : inflight[s] = m}
           K == {Rank(s) : s \in B}
<1>2. PICK k \in K : \A y \in K : k <= y
  <2>1. K \subseteq Nat /\ K # {}
    BY RankIs
  <2> HIDE DEF K
  <2> QED BY <2>1, Least
<1>3. PICK s \in B : Rank(s) = k
  OBVIOUS
<1>4. \A t \in pool : inflight[s] <= inflight[t] /\ (inflight[s] = inflight[t] => Rank(s) <= Rank(t))
  BY <1>1, <1>2, <1>3
<1> QED BY <1>3, <1>4 DEF LeastLoaded

Entry == [id : Clients, srv : Servers]

\* Two sequences one behind the other.
LEMMA ConcatIs ==
  ASSUME NEW S, NEW a \in Seq(S), NEW b \in Seq(S)
  PROVE  /\ a \o b \in Seq(S) /\ Len(a \o b) = Len(a) + Len(b) /\ Len(a) \in Nat /\ Len(b) \in Nat
         /\ \A i \in 1..Len(a \o b) : (a \o b)[i] = IF i <= Len(a) THEN a[i] ELSE b[i - Len(a)]
  OBVIOUS

\* The cache without a conversation's entry.
LEMMA WithoutIs ==
  ASSUME cache \in Seq(Entry), CacheKeys, NEW c \in Clients
  PROVE  /\ Without(c) \in Seq(Entry) /\ Len(Without(c)) <= Len(cache)
         /\ Cached(c) # {} => Len(Without(c)) = Len(cache) - 1 /\ Position(c) \in Cached(c)
         /\ \A i \in 1..Len(Without(c)) : Without(c)[i].id # c
         /\ \A i, k \in 1..Len(Without(c)) : Without(c)[i].id = Without(c)[k].id => i = k
         /\ Cached(c) # {} =>
               \A i \in 1..Len(Without(c)) :
                  Without(c)[i] = IF i <= Position(c) - 1 THEN cache[i] ELSE cache[i + 1]
<1>0. Len(cache) \in Nat
  OBVIOUS
<1>1. CASE Cached(c) = {}
  <2>1. Without(c) = cache
    BY <1>1 DEF Without
  <2>2. \A i \in 1..Len(cache) : cache[i].id # c
    BY <1>1 DEF Cached
  <2> QED BY <1>0, <1>1, <2>1, <2>2 DEF CacheKeys
<1>2. CASE Cached(c) # {}
  <2> DEFINE p == Position(c)
             a == SubSeq(cache, 1, p - 1)
             b == SubSeq(cache, p + 1, Len(cache))
             w == a \o b
  <2>1. p \in Cached(c)
    BY <1>2 DEF Position
  <2>2. p \in 1..Len(cache) /\ cache[p].id = c
    BY <2>1 DEF Cached
  <2>3. Without(c) = w
    BY <1>2 DEF Without
  <2> HIDE DEF p
  <2>4. a \in Seq(Entry) /\ Len(a) = p - 1 /\ \A i \in 1..(p - 1) : a[i] = cache[i]
    BY <1>0, <2>2
  <2>5. b \in Seq(Entry) /\ Len(b) = Len(cache) - p /\ \A i \in 1..(Len(cache) - p) : b[i] = cache[p + i]
    BY <1>0, <2>2
  <2> HIDE DEF a, b
  <2>12. /\ w \in Seq(Entry) /\ Len(w) = Len(a) + Len(b)
         /\ \A i \in 1..Len(w) : w[i] = IF i <= Len(a) THEN a[i] ELSE b[i - Len(a)]
    BY <2>4, <2>5, ConcatIs
  <2> HIDE DEF w
  <2>6. w \in Seq(Entry) /\ Len(w) = Len(cache) - 1
    BY <1>0, <2>2, <2>4, <2>5, <2>12
  <2>7. \A i \in 1..Len(w) : w[i] = IF i <= p - 1 THEN cache[i] ELSE cache[i + 1]
    <3> TAKE i \in 1..Len(w)
    <3>1. CASE i <= p - 1
      BY <1>0, <2>2, <2>4, <2>12, <3>1
    <3>2. CASE ~(i <= p - 1)
      <4>1. i - (p - 1) \in 1..(Len(cache) - p) /\ p + (i - (p - 1)) = i + 1
        BY <1>0, <2>2, <2>6, <3>2
      <4> QED BY <2>4, <2>5, <2>12, <3>2, <4>1
    <3> QED BY <3>1, <3>2
  <2> DEFINE o(i) == IF i <= p - 1 THEN i ELSE i + 1
  <2>8. \A i \in 1..Len(w) : o(i) \in 1..Len(cache) /\ o(i) # p /\ w[i] = cache[o(i)]
    BY <1>0, <2>2, <2>6, <2>7
  <2>9. \A i, k \in 1..Len(w) : o(i) = o(k) => i = k
    BY <1>0, <2>2, <2>6
  <2> HIDE DEF o
  <2>10. \A i \in 1..Len(w) : w[i].id # c
    BY <2>2, <2>8 DEF CacheKeys
  <2>11. \A i, k \in 1..Len(w) : w[i].id = w[k].id => i = k
    BY <2>8, <2>9 DEF CacheKeys
  <2> QED BY <1>0, <1>2, <2>1, <2>3, <2>6, <2>7, <2>10, <2>11 DEF p
<1> QED BY <1>1, <1>2

\* An entry is put behind entries of other conversations.
LEMMA StoreIs ==
  ASSUME NEW q \in Seq(Entry), NEW c \in Clients, NEW s \in Servers,
         \A i \in 1..Len(q) : q[i].id # c,
         \A i, k \in 1..Len(q) : q[i].id = q[k].id => i = k
  PROVE  LET e == Append(q, [id |-> c, srv |-> s])
         IN  /\ e \in Seq(Entry) /\ Len(e) = Len(q) + 1
             /\ \A i, k \in 1..Len(e) : e[i].id = e[k].id => i = k
<1> DEFINE x == [id |-> c, srv |-> s]
           e == Append(q, x)
<1>0. x \in Entry /\ x.id = c
  BY DEF Entry
<1> HIDE DEF x
<1>1. /\ e \in Seq(Entry) /\ Len(e) = Len(q) + 1 /\ Len(q) \in Nat /\ e[Len(q) + 1] = x
      /\ \A i \in 1..Len(q) : e[i] = q[i]
  BY <1>0
<1> HIDE DEF e
<1>2. \A i, k \in 1..Len(e) : e[i].id = e[k].id => i = k
  <2> TAKE i, k \in 1..Len(e)
  <2>1. (i \in 1..Len(q) \/ i = Len(q) + 1) /\ (k \in 1..Len(q) \/ k = Len(q) + 1)
    BY <1>1
  <2> QED BY <1>0, <1>1, <2>1
<1> QED BY <1>1, <1>2 DEF e, x

\* acquire_server finds a server of the pool and keeps the cache in order.
LEMMA AcquireIs ==
  ASSUME TypeOK, CacheKeys, PhasePool, NEW c \in Clients, Acquire(c)
  PROVE  /\ \E s \in pool : /\ inflight' = [inflight EXCEPT ![s] = @ + 1]
                            /\ req' = [req EXCEPT ![c].st = "call", ![c].srv = s]
         /\ cache' \in Seq(Entry) /\ Len(cache') <= CacheSize /\ CacheKeys'
<1> DEFINE s == IF Sticky(c) THEN StickyServer(c) ELSE LeastLoaded
           w == Without(c)
<1>1. /\ cache' = (IF Sticky(c) THEN Touched(c) ELSE Stored(c, s))
      /\ inflight' = [inflight EXCEPT ![s] = @ + 1]
      /\ req' = [req EXCEPT ![c].st = "call", ![c].srv = s]
  BY DEF Acquire
<1>2. /\ cache \in Seq(Entry) /\ Len(cache) <= CacheSize /\ Len(cache) \in Nat /\ CacheSize \in Nat \ {0}
      /\ pool \subseteq Servers /\ inflight \in [Servers -> Nat]
  BY PoolAssumption DEF TypeOK, Entry
<1>3. pool # {}
  <2>1. Len(Standalone) \in Nat /\ Len(Standalone) > 0
    BY PoolAssumption
  <2>2. Standalone[1] \in Alone
    BY <2>1 DEF Alone, Elems
  <2>3. Alone \subseteq pool
    BY DEF PhasePool
  <2> QED BY <2>2, <2>3
<1>4. /\ w \in Seq(Entry) /\ Len(w) <= Len(cache)
      /\ Cached(c) # {} => Len(w) = Len(cache) - 1 /\ Position(c) \in Cached(c)
      /\ \A i \in 1..Len(w) : w[i].id # c
      /\ \A i, k \in 1..Len(w) : w[i].id = w[k].id => i = k
  BY <1>2, WithoutIs
<1>5. s \in pool
  <2>1. CASE Sticky(c)
    <3>1. PICK i \in Cached(c) : cache[i].srv \in pool
      BY <2>1 DEF Sticky
    <3>2. i = Position(c)
      BY <1>4, <3>1 DEF Cached, CacheKeys
    <3> QED BY <2>1, <3>1, <3>2 DEF StickyServer
  <2>2. CASE ~Sticky(c)
    BY <1>2, <1>3, <2>2, LeastLoadedIn
  <2> QED BY <2>1, <2>2
<1>6. s \in Servers
  BY <1>2, <1>5
<1>7. CASE Sticky(c)
  <2>1. Cached(c) # {} /\ cache' = Append(w, [id |-> c, srv |-> s])
    BY <1>1, <1>7 DEF Sticky, Touched
  <2> HIDE DEF s, w
  <2>2. cache' \in Seq(Entry) /\ Len(cache') = Len(w) + 1
        /\ \A i, k \in 1..Len(cache') : cache'[i].id = cache'[k].id => i = k
    BY <1>4, <1>6, <2>1, StoreIs
  <2>3. Len(cache') <= CacheSize
    BY <1>2, <1>4, <2>1, <2>2
  <2> QED BY <1>1, <1>5, <2>2, <2>3 DEF CacheKeys
<1>8. CASE ~Sticky(c)
  <2> DEFINE q == IF Len(w) >= CacheSize THEN Tail(w) ELSE w
  <2>1. cache' = Append(q, [id |-> c, srv |-> s])
    BY <1>1, <1>8 DEF Stored
  <2>2. /\ q \in Seq(Entry) /\ Len(q) + 1 <= CacheSize /\ Len(q) \in Nat
        /\ \A i \in 1..Len(q) : q[i].id # c
        /\ \A i, k \in 1..Len(q) : q[i].id = q[k].id => i = k
    <3> HIDE DEF w
    <3>1. CASE Len(w) >= CacheSize
      <4>0. q = Tail(w) /\ Len(w) \in Nat /\ w # <<>>
        BY <1>2, <1>4, <3>1
      <4> HIDE DEF q
      <4>1. q \in Seq(Entry) /\ Len(q) = Len(w) - 1 /\ \A i \in 1..Len(q) : q[i] = w[i + 1]
        BY <1>4, <4>0
      <4>2. \A i \in 1..Len(q) : i + 1 \in 1..Len(w)
        BY <4>0, <4>1
      <4>3. \A i \in 1..Len(q) : q[i].id # c
        BY <1>4, <4>1, <4>2
      <4>4. \A i, k \in 1..Len(q) : q[i].id = q[k].id => i + 1 = k + 1
        BY <1>4, <4>1, <4>2
      <4>5. \A i, k \in 1..Len(q) : i + 1 = k + 1 => i = k
        OBVIOUS
      <4>6. Len(q) + 1 <= CacheSize /\ Len(q) \in Nat
        BY <1>2, <1>4, <4>0, <4>1
      <4> QED BY <4>1, <4>3, <4>4, <4>5, <4>6
    <3>2. CASE ~(Len(w) >= CacheSize)
      <4>0. q = w /\ Len(w) \in Nat
        BY <1>4, <3>2
      <4> HIDE DEF q
      <4> QED BY <1>2, <1>4, <3>2, <4>0
    <3> QED BY <3>1, <3>2
  <2> HIDE DEF s, w, q
  <2>3. cache' \in Seq(Entry) /\ Len(cache') = Len(q) + 1
        /\ \A i, k \in 1..Len(cache') : cache'[i].id = cache'[k].id => i = k
    BY <1>6, <2>1, <2>2, StoreIs
  <2> QED BY <1>1, <1>5, <2>2, <2>3 DEF CacheKeys
<1> QED BY <1>7, <1>8

-----------------------------------------------------------------------------
(* The clients' steps.                                                     *)

\* The fields of a request.
LEMMA RequestIs ==
  ASSUME NEW r \in Requests
  PROVE  /\ r.st \in {"new", "call", "gen", "back", "done", "failed"} /\ r.srv \in Servers \cup {NoServer}
         /\ r.tokens \in Seq(Versions) /\ r.chunk \in Seq(Versions) /\ r.limit \in Nat
         /\ r.stop \in {"none", "completed", "aborted"} /\ r.gs \in Versions \cup {NoVersion}
         /\ r.lo \in Versions \cup {NoVersion} /\ r.hi \in Versions \cup {NoVersion}
  BY DEF Requests

\* acquire_server's answer is noted.
LEMMA AcquireReq ==
  ASSUME TypeOK, CacheKeys, PhasePool, NEW c \in Clients, Acquire(c)
  PROVE  \E s \in pool :
            /\ inflight' = [inflight EXCEPT ![s] = @ + 1]
            /\ req' \in [Clients -> Requests] /\ \A d \in Clients \ {c} : req'[d] = req[d]
            /\ req'[c] = [req[c] EXCEPT !.st = "call", !.srv = s]
<1>1. PICK s \in pool : /\ inflight' = [inflight EXCEPT ![s] = @ + 1]
                        /\ req' = [req EXCEPT ![c].st = "call", ![c].srv = s]
  BY AcquireIs
<1>2. req \in [Clients -> Requests] /\ req[c] \in Requests /\ s \in Servers
  BY DEF TypeOK
<1>3. \A d \in Clients \ {c} : req'[d] = req[d]
  BY <1>1, <1>2
<1>4. req'[c] = [req[c] EXCEPT !.st = "call", !.srv = s]
  BY <1>1, <1>2
<1>5. [req[c] EXCEPT !.st = "call", !.srv = s] \in Requests
  BY <1>2 DEF Requests
<1>6. req' \in [Clients -> Requests]
  BY <1>1, <1>2, <1>4, <1>5
<1> QED BY <1>1, <1>3, <1>4, <1>6

\* A call begins on a server.
LEMMA EnterReq ==
  ASSUME TypeOK, NEW c \in Clients, Enter(c)
  PROVE  /\ req' \in [Clients -> Requests] /\ \A d \in Clients \ {c} : req'[d] = req[d]
         /\ \E n \in Nat : req'[c] = [req[c] EXCEPT !.st = "gen", !.chunk = <<>>, !.limit = n]
<1> DEFINE n == IF MaxTokens(c) < 1 THEN 1 ELSE MaxTokens(c)
<1>0. req \in [Clients -> Requests] /\ req[c] \in Requests
  BY DEF TypeOK
<1>1. req' = [req EXCEPT ![c].st = "gen", ![c].chunk = <<>>, ![c].limit = n]
  BY DEF Enter
<1>2. n \in Nat
  <2>1. Len(req[c].tokens) \in Nat /\ Prompt[c] \in Nat
    <3>1. req[c].tokens \in Seq(Versions)
      BY <1>0, RequestIs
    <3>2. Len(req[c].tokens) \in Nat
      BY <3>1
    <3>3. Prompt[c] \in Nat
      BY PoolAssumption
    <3> QED BY <3>2, <3>3
  <2>2. Used(c) \in Int
    BY <2>1 DEF Used
  <2>5. PromptLength \in Int /\ ResponseLength \in Int /\ MaxModelLen \in Int
    BY PoolAssumption
  <2>3. MaxTokens(c) \in Int
    BY <2>2, <2>5 DEF MaxTokens, Smaller
  <2> HIDE DEF n
  <2>4. n = IF MaxTokens(c) < 1 THEN 1 ELSE MaxTokens(c)
    BY DEF n
  <2> QED BY <2>3, <2>4
<1> HIDE DEF n
<1>3. \A d \in Clients \ {c} : req'[d] = req[d]
  BY <1>0, <1>1
<1>4. req'[c] = [req[c] EXCEPT !.st = "gen", !.chunk = <<>>, !.limit = n]
  BY <1>0, <1>1
<1>5. [req[c] EXCEPT !.st = "gen", !.chunk = <<>>, !.limit = n] \in Requests
  <2>1. <<>> \in Seq(Versions)
    OBVIOUS
  <2> QED BY <1>0, <1>2, <2>1 DEF Requests
<1>6. req' \in [Clients -> Requests]
  BY <1>0, <1>1, <1>4, <1>5
<1> QED BY <1>2, <1>3, <1>4, <1>6

\* A call is refused or cut off.
LEMMA RaiseReq ==
  ASSUME TypeOK, NEW c \in Clients, EnterRaises(c) \/ CutOff(c)
  PROVE  /\ req' \in [Clients -> Requests] /\ \A d \in Clients \ {c} : req'[d] = req[d]
         /\ req'[c] = [Fresh EXCEPT !.st = "failed", !.srv = req[c].srv]
         /\ req'[c].st = "failed" /\ req'[c].srv = req[c].srv
         /\ req'[c].tokens = <<>> /\ req'[c].chunk = <<>> /\ req'[c].lo = NoVersion
<1> DEFINE f == [Fresh EXCEPT !.st = "failed", !.srv = req[c].srv]
<1>0. req \in [Clients -> Requests] /\ req[c] \in Requests
  BY DEF TypeOK
<1>1. req' = [req EXCEPT ![c] = f]
  BY DEF EnterRaises, CutOff, Raise
<1>2. f \in Requests
  <2>1. <<>> \in Seq(Versions) /\ req[c].srv \in Servers \cup {NoServer}
    BY <1>0, RequestIs
  <2> QED BY <2>1 DEF Requests, Fresh
<1>3. /\ f.st = "failed" /\ f.srv = req[c].srv /\ f.tokens = <<>> /\ f.chunk = <<>>
      /\ f.lo = NoVersion
  BY DEF Fresh
<1> HIDE DEF f
<1>4. req'[c] = f /\ req' \in [Clients -> Requests] /\ \A d \in Clients \ {c} : req'[d] = req[d]
  BY <1>0, <1>1, <1>2
<1> QED BY <1>3, <1>4 DEF f

\* The server produces a token and may end the answer with it.
LEMMA TokenReq ==
  ASSUME TypeOK, NEW c \in Clients, Token(c), req[c].srv \in Servers
  PROVE  LET v == version[req[c].srv]
             k == Append(req[c].chunk, v)
         IN  /\ req' \in [Clients -> Requests] /\ \A d \in Clients \ {c} : req'[d] = req[d]
             /\ \/ req'[c] = [req[c] EXCEPT !.chunk = k]
                \/ req'[c] = [req[c] EXCEPT !.chunk = k, !.st = "back", !.stop = "completed", !.gs = v]
<1> DEFINE v == version[req[c].srv]
           k == Append(req[c].chunk, v)
<1>0. req \in [Clients -> Requests] /\ req[c] \in Requests /\ req[c].st = "gen" /\ v \in Versions
  BY DEF TypeOK, Token
<1>1. \E more \in BOOLEAN :
         req' = [req EXCEPT ![c].chunk = k, ![c].st = IF more THEN "gen" ELSE "back",
                            ![c].stop = IF more THEN @ ELSE "completed",
                            ![c].gs = IF more THEN @ ELSE v]
  BY DEF Token
<1>2. k \in Seq(Versions)
  BY <1>0, RequestIs
<1> HIDE DEF k, v
<1>3. PICK more \in BOOLEAN :
         req' = [req EXCEPT ![c].chunk = k, ![c].st = IF more THEN "gen" ELSE "back",
                            ![c].stop = IF more THEN @ ELSE "completed",
                            ![c].gs = IF more THEN @ ELSE v]
  BY <1>1
<1>4. \A d \in Clients \ {c} : req'[d] = req[d]
  BY <1>0, <1>3
<1>5. CASE more
  <2>1. req'[c] = [req[c] EXCEPT !.chunk = k]
    BY <1>0, <1>3, <1>5 DEF Requests
  <2>2. [req[c] EXCEPT !.chunk = k] \in Requests
    BY <1>0, <1>2 DEF Requests
  <2>3. req' \in [Clients -> Requests]
    BY <1>0, <1>3, <2>1, <2>2
  <2> QED BY <1>4, <2>1, <2>3 DEF k, v
<1>6. CASE ~more
  <2>1. req'[c] = [req[c] EXCEPT !.chunk = k, !.st = "back", !.stop = "completed", !.gs = v]
    BY <1>0, <1>3, <1>6 DEF Requests
  <2>2. [req[c] EXCEPT !.chunk = k, !.st = "back", !.stop = "completed", !.gs = v] \in Requests
    BY <1>0, <1>2 DEF Requests
  <2>3. req' \in [Clients -> Requests]
    BY <1>0, <1>3, <2>1, <2>2
  <2> QED BY <1>4, <2>1, <2>3 DEF k, v
<1> QED BY <1>5, <1>6

\* The output of a call is merged.
LEMMA ReturnReq ==
  ASSUME TypeOK, NEW c \in Clients, Return(c)
  PROVE  /\ req' \in [Clients -> Requests] /\ \A d \in Clients \ {c} : req'[d] = req[d]
         /\ req'[c].st \in {"new", "done"} /\ (req'[c].st = "done" \/ req[c].stop = "aborted")
         /\ req'[c].tokens = req[c].tokens \o req[c].chunk /\ req'[c].stop = req[c].stop
         /\ req'[c].lo = (IF req[c].lo = NoVersion THEN req[c].gs ELSE req[c].lo)
         /\ req'[c].hi = req[c].gs
<1> DEFINE r == req[c]
           x == IF r.stop = "aborted" /\ Partial THEN "new" ELSE "done"
           t == r.tokens \o r.chunk
           l == IF r.lo = NoVersion THEN r.gs ELSE r.lo
           m == [r EXCEPT !.tokens = t, !.chunk = <<>>, !.limit = 0, !.lo = l, !.hi = r.gs,
                          !.gs = NoVersion, !.srv = NoServer]
           n == [m EXCEPT !.st = x]
<1>0. req \in [Clients -> Requests] /\ r \in Requests
  BY DEF TypeOK
<1>1. Merge(r) = m
  BY <1>0 DEF Merge, Requests
<1>2. req' = [req EXCEPT ![c] = [Merge(@) EXCEPT !.st = x]]
  BY DEF Return
<1>3. req' = [req EXCEPT ![c] = n]
  BY <1>0, <1>1, <1>2
<1>4. t \in Seq(Versions) /\ l \in Versions \cup {NoVersion} /\ <<>> \in Seq(Versions)
  <2>1. r.tokens \in Seq(Versions) /\ r.chunk \in Seq(Versions)
    BY <1>0, RequestIs
  <2>2. t \in Seq(Versions)
    BY <2>1, ConcatIs
  <2> QED BY <1>0, <2>2, RequestIs
<1>5. x \in {"new", "done"} /\ (x = "done" \/ r.stop = "aborted")
  OBVIOUS
<1> HIDE DEF t, l, x
<1>6. n \in Requests /\ n.st = x /\ n.tokens = t /\ n.stop = r.stop /\ n.lo = l /\ n.hi = r.gs
  BY <1>0, <1>4, <1>5 DEF Requests
<1> HIDE DEF n, r
<1>7. req'[c] = n /\ req' \in [Clients -> Requests] /\ \A d \in Clients \ {c} : req'[d] = req[d]
  BY <1>0, <1>3, <1>6
<1> QED BY <1>5, <1>6, <1>7 DEF t, l, r

\* What a server was generating comes back.
LEMMA AbortReq ==
  ASSUME TypeOK, NEW s \in Servers, Abort(s)
  PROVE  /\ req' \in [Clients -> Requests]
         /\ \A c \in Clients :
               IF req[c].st = "gen" /\ req[c].srv = s
               THEN \E g \in {NoVersion, version[s]} :
                       /\ req'[c] = [req[c] EXCEPT !.st = "back", !.stop = "aborted", !.gs = g]
                       /\ g = version[s] \/ req[c].chunk = <<>>
               ELSE req'[c] = req[c]
<1>1. PICK empty \in SUBSET {c \in Clients : req[c].st = "gen" /\ req[c].srv = s /\ req[c].chunk = <<>>} :
         req' = [c \in Clients |->
                   IF req[c].st = "gen" /\ req[c].srv = s
                   THEN [req[c] EXCEPT !.st = "back", !.stop = "aborted",
                                       !.gs = IF c \in empty THEN NoVersion ELSE version[s]]
                   ELSE req[c]]
  BY DEF Abort
<1>2. req \in [Clients -> Requests] /\ version[s] \in Versions
  BY DEF TypeOK
<1>3. ASSUME NEW c \in Clients
      PROVE  /\ req'[c] \in Requests
             /\ IF req[c].st = "gen" /\ req[c].srv = s
                THEN \E g \in {NoVersion, version[s]} :
                        /\ req'[c] = [req[c] EXCEPT !.st = "back", !.stop = "aborted", !.gs = g]
                        /\ g = version[s] \/ req[c].chunk = <<>>
                ELSE req'[c] = req[c]
  <2> DEFINE g == IF c \in empty THEN NoVersion ELSE version[s]
  <2>1. CASE req[c].st = "gen" /\ req[c].srv = s
    <3>1. req'[c] = [req[c] EXCEPT !.st = "back", !.stop = "aborted", !.gs = g]
      BY <1>1, <2>1
    <3>2. g \in {NoVersion, version[s]} /\ (g = version[s] \/ req[c].chunk = <<>>)
      BY <1>1
    <3> HIDE DEF g
    <3>3. [req[c] EXCEPT !.st = "back", !.stop = "aborted", !.gs = g] \in Requests
      <4>1. g \in Versions \cup {NoVersion} /\ req[c] \in Requests
        BY <1>2, <3>2
      <4> QED BY <4>1 DEF Requests
    <3> QED BY <2>1, <3>1, <3>2, <3>3
  <2>2. CASE ~(req[c].st = "gen" /\ req[c].srv = s)
    BY <1>1, <1>2, <2>2
  <2> QED BY <2>1, <2>2
<1> QED BY <1>1, <1>3

-----------------------------------------------------------------------------
(* The type of the state, the routing cache and the trainer's phases.      *)

\* Versions are integers.
LEMMA VersionsAre == Versions \subseteq Int /\ \A v \in Versions : v \in Int /\ v <= v
  BY PoolAssumption DEF Versions

\* The servers are the standalone and the hybrid ones.
LEMMA ServersAre ==
  /\ Servers = Alone \cup Hybrids /\ Alone \cap Hybrids = {} /\ NoServer \notin Servers
  /\ IsFiniteSet(Clients)
  BY PoolAssumption DEF Servers, Alone, Hybrids

\* A step of a client keeps types and cache, and leaves trainer and servers
\* alone.
LEMMA ClientType ==
  ASSUME TypeOK, CacheKeys, PhasePool, Hold, NEW c \in Clients, Client(c)
  PROVE  TypeOK' /\ CacheKeys' /\ UNCHANGED <<pool, paused, asleep, version, current, at, todo, alive, lost>>
<1>0. UNCHANGED <<pool, paused, asleep, version, current, at, todo, alive, lost>>
  BY DEF Client, Acquire, Release, Enter, EnterRaises, Token, CutOff, Return, lbVars, srvVars, trainVars
<1>1. /\ pool \subseteq Servers /\ inflight \in [Servers -> Nat]
      /\ owed \in [Clients -> Servers \cup {NoServer}] /\ req \in [Clients -> Requests]
      /\ req[c].srv \in Servers \cup {NoServer}
  BY RequestIs DEF TypeOK
<1>2. CASE Acquire(c)
  <2>1. PICK s \in pool : /\ inflight' = [inflight EXCEPT ![s] = @ + 1]
                          /\ req' \in [Clients -> Requests]
    BY <1>2, AcquireReq
  <2>2. inflight' \in [Servers -> Nat]
    BY <1>1, <2>1
  <2>3. owed' = owed
    BY <1>2 DEF Acquire
  <2>4. cache' \in Seq(Entry) /\ Len(cache') <= CacheSize /\ CacheKeys'
    BY <1>2, AcquireIs
  <2> QED BY <1>0, <2>1, <2>2, <2>3, <2>4 DEF TypeOK, Entry
<1>3. CASE Release(c)
  <2>1. owed' = [owed EXCEPT ![c] = NoServer] /\ UNCHANGED <<cache, req>> /\ inflight' = Released(owed[c])
    BY <1>3 DEF Release
  <2>2. owed' \in [Clients -> Servers \cup {NoServer}]
    BY <1>1, <2>1
  <2>3. inflight' \in [Servers -> Nat]
    <3> DEFINE s == owed[c]
    <3>1. CASE s \in pool /\ inflight[s] > 0
      <4>1. inflight' = [inflight EXCEPT ![s] = @ - 1] /\ s \in Servers /\ inflight[s] - 1 \in Nat
        BY <1>1, <2>1, <3>1 DEF Released
      <4> QED BY <1>1, <4>1
    <3>2. CASE ~(s \in pool /\ inflight[s] > 0)
      BY <1>1, <2>1, <3>2 DEF Released
    <3> QED BY <3>1, <3>2
  <2>4. CacheKeys'
    BY <2>1 DEF CacheKeys
  <2> QED BY <1>0, <2>1, <2>2, <2>3, <2>4 DEF TypeOK
<1>4. CASE Enter(c) \/ EnterRaises(c) \/ Token(c) \/ CutOff(c) \/ Return(c)
  <2>1. UNCHANGED <<inflight, cache>>
    BY <1>4 DEF Enter, EnterRaises, Token, CutOff, Return, lbVars
  <2>2. req' \in [Clients -> Requests]
    <3>1. CASE Token(c)
      <4>1. req[c].srv \in Servers
        BY <3>1 DEF Token, Hold
      <4> QED BY <3>1, <4>1, TokenReq
    <3> QED BY <1>4, <3>1, EnterReq, RaiseReq, ReturnReq
  <2>3. owed' = owed \/ owed' = [owed EXCEPT ![c] = req[c].srv]
    BY <1>4 DEF Enter, EnterRaises, Raise, Token, CutOff, Return
  <2>4. owed' \in [Clients -> Servers \cup {NoServer}]
    BY <1>1, <2>3
  <2>5. CacheKeys'
    BY <2>1 DEF CacheKeys
  <2> QED BY <1>0, <2>1, <2>2, <2>4, <2>5 DEF TypeOK
<1> QED BY <1>0, <1>2, <1>3, <1>4 DEF Client

\* What the trainer's step may be and where it goes on.
LEMMA TrainerAt ==
  ASSUME TypeOK, PhasePool, Trainer
  PROVE  /\ at' \in 0..16 /\ todo' \subseteq Servers /\ current' \in Versions
         /\ at' # 0 => todo' \subseteq Group(at') /\ current' > 0
         /\ \/ StartSync /\ at = 0 /\ at' = 1 /\ current' = current + 1 /\ todo' = Alone
            \/ /\ at \in 1..16 /\ current' = current
               /\ \/ \E s \in todo :
                        /\ s \in Group(at) /\ (Abort(s) \/ AbortFails(s) \/ Resume(s) \/ Load(s) \/ Sleep(s))
                        /\ \/ at' = at /\ todo' = todo \ {s}
                           \/ todo = {s} /\ at' = at + 1 /\ at # 16 /\ todo' = Group(at + 1)
                           \/ todo = {s} /\ at' = 0 /\ at \in {3, 16} /\ todo' = {}
                  \/ /\ AddServers \/ RemoveServers \/ Validate
                     /\ at' = at + 1 /\ todo' = Group(at + 1)
<1>0. /\ at \in 0..16 /\ todo \subseteq Servers /\ current \in Versions /\ MaxVersion \in Nat
      /\ at # 0 => todo \subseteq Group(at) /\ current > 0
  BY ScriptIs, PoolAssumption DEF TypeOK, PhasePool
<1>1. \A i \in 1..16 : Group(i) \subseteq Servers
  BY DEF Group, Servers
<1>2. CASE StartSync
  <2>1. at = 0 /\ current < MaxVersion /\ current' = current + 1 /\ at' = 1 /\ todo' = Group(1)
    BY <1>2 DEF StartSync
  <2>2. Group(1) = Alone
    BY GroupIs
  <2>3. current' \in Versions /\ current' > 0
    BY <1>0, <2>1 DEF Versions
  <2> QED BY <1>1, <1>2, <2>1, <2>2, <2>3
<1>3. CASE \E s \in Servers : Abort(s) \/ AbortFails(s) \/ Resume(s) \/ Load(s) \/ Sleep(s)
  <2>1. PICK s \in Servers : Abort(s) \/ AbortFails(s) \/ Resume(s) \/ Load(s) \/ Sleep(s)
    BY <1>3
  <2>2. at # 0 /\ s \in todo /\ Reached(s) /\ current' = current
    BY <2>1 DEF Abort, AbortFails, Resume, Load, Sleep
  <2>3. at \in 1..16
    BY <1>0, <2>2
  <2>4. \/ at' = at /\ todo' = todo \ {s}
        \/ todo = {s} /\ at' = at + 1 /\ at # 16 /\ todo' = Group(at + 1)
        \/ todo = {s} /\ at' = 0 /\ at \in {3, 16} /\ todo' = {}
    BY <2>2, <2>3, ReachedIs
  <2>5. /\ at' \in 0..16 /\ todo' \subseteq Servers
        /\ at' # 0 => todo' \subseteq Group(at')
    BY <1>0, <1>1, <2>2, <2>3, <2>4
  <2>6. s \in Group(at)
    BY <1>0, <2>2
  <2> QED BY <1>0, <2>1, <2>2, <2>3, <2>4, <2>5, <2>6
<1>4. CASE AddServers \/ RemoveServers \/ Validate
  <2>1. at # 0 /\ Advance /\ current' = current /\ Op \in {"add", "remove", "validate"}
    BY <1>4 DEF AddServers, RemoveServers, Validate
  <2>2. at \in 1..16
    BY <1>0, <2>1
  <2>3. at \in {7, 10, 13}
    BY <2>1, <2>2, OpIs
  <2>4. at' = at + 1 /\ todo' = Group(at + 1)
    BY <2>1, <2>2, <2>3, AdvanceIs
  <2> QED BY <1>0, <1>1, <1>4, <2>1, <2>2, <2>3, <2>4
<1> QED BY <1>2, <1>3, <1>4 DEF Trainer

\* A step of the trainer keeps types and cache.
LEMMA TrainerType ==
  ASSUME TypeOK, CacheKeys, PhasePool, Trainer
  PROVE  TypeOK' /\ CacheKeys' /\ UNCHANGED <<cache, owed>> /\ lost \subseteq lost'
<1>0. UNCHANGED <<cache, owed>>
  BY DEF Trainer, StartSync, AddServers, RemoveServers, Validate, Abort, AbortFails, Resume, Load, Sleep, lbVars
<1>a. at' \in 0..Len(Script) /\ todo' \subseteq Servers /\ current' \in Versions
  BY TrainerAt, ScriptIs
<1>b. alive' \in BOOLEAN /\ lost' \subseteq {"abort", "add", "remove"} /\ lost \subseteq lost'
  BY DEF TypeOK, Trainer, StartSync, AddServers, RemoveServers, Validate, Abort, AbortFails, Resume, Load,
         Sleep, Fails
<1>1. /\ at' \in 0..Len(Script) /\ todo' \subseteq Servers /\ current' \in Versions
      /\ alive' \in BOOLEAN /\ lost' \subseteq {"abort", "add", "remove"} /\ lost \subseteq lost'
  BY <1>a, <1>b
<1>2. CacheKeys'
  BY <1>0 DEF CacheKeys
<1>3. CASE StartSync \/ Validate
  <2>1. UNCHANGED <<pool, inflight, req, paused, asleep, version>>
    BY <1>3 DEF StartSync, Validate, lbVars, srvVars
  <2> QED BY <1>0, <1>1, <1>2, <2>1 DEF TypeOK
<1>4. CASE AddServers \/ RemoveServers
  <2>1. /\ UNCHANGED <<req, paused, asleep, version>>
        /\ pool' = pool \cup Hybrids \/ pool' = pool \ Hybrids \/ pool' = pool
        /\ \/ inflight' = [s \in Servers |-> IF s \in Hybrids THEN 0 ELSE inflight[s]]
           \/ inflight' = inflight
    BY <1>4 DEF AddServers, RemoveServers, PoolWith, PoolWithout, SamePool, srvVars, Hybrids
  <2>2. pool' \subseteq Servers /\ inflight' \in [Servers -> Nat]
    BY <2>1, ServersAre DEF TypeOK
  <2> QED BY <1>0, <1>1, <1>2, <2>1, <2>2 DEF TypeOK
<1>5. CASE \E s \in Servers : Abort(s) \/ AbortFails(s) \/ Resume(s) \/ Load(s) \/ Sleep(s)
  <2>1. PICK s \in Servers : Abort(s) \/ AbortFails(s) \/ Resume(s) \/ Load(s) \/ Sleep(s)
    BY <1>5
  <2>2. UNCHANGED <<pool, inflight>>
    BY <2>1 DEF Abort, AbortFails, Resume, Load, Sleep, lbVars
  <2>3. paused' \in [Servers -> BOOLEAN]
    <3>1. paused' = paused \/ paused' = [paused EXCEPT ![s] = TRUE] \/ paused' = [paused EXCEPT ![s] = FALSE]
      BY <2>1 DEF Abort, AbortFails, Resume, Load, Sleep, srvVars
    <3> QED BY <3>1 DEF TypeOK
  <2>4. asleep' \in [Servers -> BOOLEAN]
    <3>1. asleep' = asleep \/ asleep' = [asleep EXCEPT ![s] = TRUE] \/ asleep' = [asleep EXCEPT ![s] = FALSE]
      BY <2>1 DEF Abort, AbortFails, Resume, Load, Sleep, srvVars
    <3> QED BY <3>1 DEF TypeOK
  <2>5. version' \in [Servers -> Versions]
    <3>1. version' = version \/ version' = [version EXCEPT ![s] = current]
      BY <2>1 DEF Abort, AbortFails, Resume, Load, Sleep, srvVars
    <3> QED BY <3>1 DEF TypeOK
  <2>6. req' \in [Clients -> Requests]
    <3>1. Abort(s) \/ req' = req
      BY <2>1 DEF AbortFails, Resume, Load, Sleep
    <3> QED BY <3>1, AbortReq DEF TypeOK
  <2> QED BY <1>0, <1>1, <1>2, <2>2, <2>3, <2>4, <2>5, <2>6 DEF TypeOK
<1> QED BY <1>0, <1>3, <1>4, <1>5 DEF Trainer

\* One server of a step is reached.
LEMMA ServerPhase ==
  ASSUME TypeOK, Phase, NEW s \in todo, s \in Group(at), at \in 1..16, current' = current,
         Abort(s) \/ AbortFails(s) \/ Resume(s) \/ Load(s) \/ Sleep(s),
         \/ at' = at /\ todo' = todo \ {s}
         \/ todo = {s} /\ at' = at + 1 /\ at # 16 /\ todo' = Group(at + 1)
         \/ todo = {s} /\ at' = 0 /\ at \in {3, 16} /\ todo' = {}
  PROVE  (at' \in 8..13 <=> at \in 8..13) /\ PhaseAlone' /\ PhaseHybrid'
<1>0. /\ s \in Servers /\ paused \in [Servers -> BOOLEAN] /\ asleep \in [Servers -> BOOLEAN]
      /\ version \in [Servers -> Versions] /\ PhaseAlone /\ PhaseHybrid
      /\ Alone \subseteq Servers /\ Hybrids \subseteq Servers /\ Alone \cap Hybrids = {}
      /\ todo \subseteq Group(at)
  BY ServersAre DEF TypeOK, Phase, PhasePool
<1>5. CASE AbortFails(s)
  <2>1. /\ at \in {1, 5, 6, 11, 12} /\ "abort" \in lost' /\ UNCHANGED <<paused, asleep, version>>
    BY <1>5, OpIs DEF AbortFails, Fails, srvVars
  <2>2. (at' \in 8..13 <=> at \in 8..13) /\ at' # 3 /\ at' # 4 /\ at' # 14 /\ at' # 15 /\ at' # 0
        /\ (at' = 2 => todo' = Alone)
    BY <2>1, GroupIs
  <2>3. PhaseAlone'
    BY <1>0, <2>1, <2>2 DEF PhaseAlone
  <2>4. PhaseHybrid'
    <3>1. /\ at' \in {0, 1, 2, 3, 15, 16} => at \in {0, 1, 2, 3, 15, 16}
          /\ at' \in 5..13 => at \in 5..13
      BY <2>1
    <3> QED BY <1>0, <2>1, <2>2, <3>1 DEF PhaseHybrid
  <2> QED BY <2>2, <2>3, <2>4
<1>1. CASE Abort(s)
  <2>1. /\ at \in {1, 5, 6, 11, 12} /\ paused' = [paused EXCEPT ![s] = TRUE]
        /\ UNCHANGED <<asleep, version, lost>>
    BY <1>1, OpIs DEF Abort
  <2>2. \A t \in Servers : paused'[t] = (t = s \/ paused[t])
    BY <1>0, <2>1
  <2>3. at' \in 8..13 <=> at \in 8..13
    BY <2>1
  <2>4. PhaseAlone'
    <3>1. CASE at = 1
      <4>1. (at' = 1 /\ todo' = todo \ {s}) \/ (at' = 2 /\ todo' = Alone /\ todo = {s})
        BY <3>1, GroupIs
      <4> QED BY <1>0, <2>1, <2>2, <3>1, <4>1 DEF PhaseAlone
    <3>2. CASE at # 1
      <4>1. at' \notin {1, 2, 3}
        BY <2>1, <3>2
      <4> QED BY <1>0, <2>1, <2>2, <3>2, <4>1 DEF PhaseAlone
    <3> QED BY <3>1, <3>2
  <2>5. PhaseHybrid'
    <3>1. CASE at = 12
      <4>1. (at' = 12 /\ todo' = todo \ {s}) \/ (at' = 13 /\ todo = {s})
        BY <3>1
      <4> QED BY <1>0, <2>1, <2>2, <3>1, <4>1 DEF PhaseHybrid
    <3>2. CASE at = 11
      <4>1. (at' = 11) \/ (at' = 12 /\ todo' = Hybrids)
        BY <3>2, GroupIs
      <4> QED BY <1>0, <2>1, <2>2, <3>2, <4>1 DEF PhaseHybrid
    <3>3. CASE at \in {1, 5, 6}
      <4>1. (at = 1 /\ at' \in {1, 2}) \/ (at \in {5, 6} /\ at' \in {5, 6, 7})
        BY <3>3
      <4> QED BY <1>0, <2>1, <2>2, <4>1 DEF PhaseHybrid
    <3> QED BY <2>1, <3>1, <3>2, <3>3
  <2> QED BY <2>3, <2>4, <2>5
<1>2. CASE Resume(s)
  <2>1. /\ at \in {3, 8, 9, 15, 16} /\ paused' = [paused EXCEPT ![s] = FALSE]
        /\ UNCHANGED <<asleep, version, lost>>
    BY <1>2, OpIs DEF Resume
  <2>2. \A t \in Servers : t # s => paused'[t] = paused[t]
    BY <1>0, <2>1
  <2>3. at' \in 8..13 <=> at \in 8..13
    BY <2>1
  <2>4. PhaseAlone'
    <3>1. at' \notin {1, 2} /\ (at' = 3 => at = 3 /\ todo' = todo \ {s})
      BY <2>1
    <3> QED BY <1>0, <2>1, <2>2, <3>1 DEF PhaseAlone
  <2>5. PhaseHybrid'
    <3>1. CASE at = 3
      <4>1. (at' = 3 \/ at' = 0) \/ (at' = 4 /\ todo' = Hybrids)
        BY <3>1, GroupIs
      <4> QED BY <1>0, <2>1, <3>1, <4>1 DEF PhaseHybrid
    <3>2. CASE at \in {8, 9}
      <4>1. at' \in {8, 9, 10}
        BY <3>2
      <4> QED BY <1>0, <2>1, <3>2, <4>1 DEF PhaseHybrid
    <3>3. CASE at \in {15, 16}
      <4>1. at' \in {15, 16, 0}
        BY <3>3
      <4> QED BY <1>0, <2>1, <3>3, <4>1 DEF PhaseHybrid
    <3> QED BY <2>1, <3>1, <3>2, <3>3
  <2> QED BY <2>3, <2>4, <2>5
<1>3. CASE Load(s)
  <2>1. /\ at \in {2, 4} /\ version' = [version EXCEPT ![s] = current]
        /\ asleep' = [asleep EXCEPT ![s] = FALSE] /\ UNCHANGED <<paused, lost>>
    BY <1>3, OpIs DEF Load
  <2>2. \A t \in Servers : /\ t # s => version'[t] = version[t] /\ asleep'[t] = asleep[t]
                           /\ t = s => version'[t] = current /\ asleep'[t] = FALSE
    BY <1>0, <2>1
  <2>3. at' \in 8..13 <=> at \in 8..13
    BY <2>1
  <2>4. CASE at = 2
    <3>1. s \in Alone /\ ((at' = 2 /\ todo' = todo \ {s}) \/ (at' = 3 /\ todo = {s} /\ todo' = Alone))
      BY <2>4, GroupIs
    <3>2. PhaseAlone'
      BY <1>0, <2>1, <2>2, <2>4, <3>1 DEF PhaseAlone
    <3>3. PhaseHybrid'
      <4>1. \A t \in Hybrids : t # s /\ t \in Servers
        BY <1>0, <3>1
      <4> QED BY <1>0, <2>1, <2>2, <2>4, <3>1, <4>1 DEF PhaseHybrid
    <3> QED BY <2>3, <3>2, <3>3
  <2>5. CASE at = 4
    <3>1. s \in Hybrids /\ ((at' = 4 /\ todo' = todo \ {s}) \/ (at' = 5 /\ todo = {s}))
      BY <2>5, GroupIs
    <3>2. PhaseAlone'
      BY <1>0, <2>1, <2>2, <2>5, <3>1 DEF PhaseAlone
    <3>3. PhaseHybrid'
      <4>1. \A t \in Hybrids : version'[t] <= current
        <5>1. current \in Versions /\ current <= current
          BY VersionsAre DEF TypeOK
        <5> QED BY <1>0, <2>2, <5>1 DEF PhaseHybrid
      <4>2. \A t \in Hybrids : ~asleep'[t] => version'[t] = current
        BY <1>0, <2>2 DEF PhaseHybrid
      <4>3. \A t \in Hybrids : at' = 4 => (asleep'[t] <=> t \in todo')
        BY <1>0, <2>2, <2>5, <3>1 DEF PhaseHybrid
      <4>4. \A t \in Hybrids : at' = 5 => ~asleep'[t]
        BY <1>0, <2>2, <2>5, <3>1 DEF PhaseHybrid
      <4> QED BY <1>0, <2>1, <3>1, <4>1, <4>2, <4>3, <4>4 DEF PhaseHybrid
    <3> QED BY <2>3, <3>2, <3>3
  <2> QED BY <2>1, <2>4, <2>5
<1>4. CASE Sleep(s)
  <2>1. at = 14 /\ asleep' = [asleep EXCEPT ![s] = TRUE] /\ UNCHANGED <<paused, version, lost>>
    BY <1>4, OpIs DEF Sleep
  <2>2. \A t \in Servers : asleep'[t] = (t = s \/ asleep[t])
    BY <1>0, <2>1
  <2>3. s \in Hybrids /\ ((at' = 14 /\ todo' = todo \ {s}) \/ (at' = 15 /\ todo = {s}))
    BY <2>1, GroupIs
  <2>4. PhaseAlone'
    BY <1>0, <2>1, <2>2, <2>3 DEF PhaseAlone
  <2>5. PhaseHybrid'
    BY <1>0, <2>1, <2>2, <2>3 DEF PhaseHybrid
  <2> QED BY <2>1, <2>3, <2>4, <2>5
<1> QED BY <1>1, <1>2, <1>3, <1>4, <1>5

\* A step of the trainer keeps the phases.
LEMMA TrainerPhase == ASSUME TypeOK, Phase, Trainer PROVE Phase'
<1>0. PhasePool /\ PhaseAlone /\ PhaseHybrid
  BY DEF Phase
<1>1. at' # 0 => todo' \subseteq Group(at') /\ current' > 0
  BY <1>0, TrainerAt
<1>2. CASE StartSync
  <2>1. at = 0 /\ at' = 1 /\ todo' = Alone /\ current' = current + 1 /\ current \in Nat
        /\ UNCHANGED <<pool, paused, asleep, version, alive, lost>>
    <3>1. at = 0 /\ at' = 1 /\ current' = current + 1 /\ todo' = Group(1)
          /\ UNCHANGED <<pool, paused, asleep, version, alive, lost>>
      BY <1>2 DEF StartSync, lbVars, srvVars
    <3> QED BY <3>1, GroupIs DEF TypeOK, Versions
  <2>2. PhasePool'
    BY <1>0, <1>1, <2>1 DEF PhasePool
  <2>3. PhaseAlone'
    BY <1>0, <2>1 DEF PhaseAlone
  <2>4. PhaseHybrid'
    <3>1. ASSUME NEW s \in Hybrids PROVE version[s] <= current + 1
      <4>1. version[s] \in Int /\ version[s] <= current
        BY <1>0, <3>1, ServersAre, VersionsAre DEF TypeOK, PhaseHybrid
      <4> QED BY <2>1, <4>1
    <3> QED BY <1>0, <2>1, <3>1 DEF PhaseHybrid
  <2> QED BY <2>2, <2>3, <2>4 DEF Phase
<1>3. CASE \E s \in Servers : Abort(s) \/ AbortFails(s) \/ Resume(s) \/ Load(s) \/ Sleep(s)
  <2>0. ~StartSync /\ ~AddServers /\ ~RemoveServers /\ ~Validate
    BY <1>3 DEF StartSync, AddServers, RemoveServers, Validate, Abort, AbortFails, Resume, Load, Sleep
  <2>1. PICK s \in todo :
           /\ s \in Group(at) /\ at \in 1..16 /\ current' = current
           /\ Abort(s) \/ AbortFails(s) \/ Resume(s) \/ Load(s) \/ Sleep(s)
           /\ \/ at' = at /\ todo' = todo \ {s}
              \/ todo = {s} /\ at' = at + 1 /\ at # 16 /\ todo' = Group(at + 1)
              \/ todo = {s} /\ at' = 0 /\ at \in {3, 16} /\ todo' = {}
    BY <1>0, <2>0, TrainerAt
  <2>2. (at' \in 8..13 <=> at \in 8..13) /\ PhaseAlone' /\ PhaseHybrid'
    BY <2>1, ServerPhase
  <2>3. /\ UNCHANGED <<pool, alive>>
        /\ lost' \cap {"add", "remove"} = lost \cap {"add", "remove"}
    BY <2>1 DEF Abort, AbortFails, Resume, Load, Sleep, Fails, lbVars
  <2>4. PhasePool'
    BY <1>0, <1>1, <2>2, <2>3 DEF PhasePool
  <2> QED BY <2>2, <2>4 DEF Phase
<1>4. CASE AddServers \/ RemoveServers \/ Validate
  <2>0. at \in 1..16
    BY <1>4, ScriptIs DEF TypeOK, AddServers, RemoveServers, Validate
  <2>1. /\ UNCHANGED <<paused, asleep, version, current>> /\ at' = at + 1
        /\ "abort" \in lost' <=> "abort" \in lost
        /\ pool' = pool \cup Hybrids \/ pool' = pool \ Hybrids \/ pool' = pool
        /\ lost' \cap {"add", "remove"} = {} =>
              /\ lost \cap {"add", "remove"} = {}
              /\ at = 7 /\ ~alive => pool' = pool \cup Hybrids /\ alive'
              /\ at = 13 /\ alive => pool' = pool \ Hybrids /\ ~alive'
              /\ at = 10 => UNCHANGED <<pool, alive>>
        /\ \/ at = 7 /\ todo' = Alone
           \/ at = 13 /\ todo' = Hybrids
           \/ at = 10 /\ todo' = Alone
    <3>1. Advance /\ UNCHANGED <<paused, asleep, version, current>>
      BY <1>4 DEF AddServers, RemoveServers, Validate, srvVars
    <3>2. at = 7 \/ at = 13 \/ at = 10
      BY <1>4, <2>0, OpIs DEF AddServers, RemoveServers, Validate
    <3>3. at' = at + 1 /\ todo' = Group(at + 1)
      BY <2>0, <3>1, <3>2, AdvanceIs
    <3>4. "abort" \in lost' <=> "abort" \in lost
      BY <1>4 DEF AddServers, RemoveServers, Validate, Fails
    <3>5. pool' = pool \cup Hybrids \/ pool' = pool \ Hybrids \/ pool' = pool
      BY <1>4 DEF AddServers, RemoveServers, Validate, PoolWith, PoolWithout, SamePool, lbVars, Hybrids
    <3>6. ASSUME lost' \cap {"add", "remove"} = {}
          PROVE  /\ lost \cap {"add", "remove"} = {}
                 /\ at = 7 /\ ~alive => pool' = pool \cup Hybrids /\ alive'
                 /\ at = 13 /\ alive => pool' = pool \ Hybrids /\ ~alive'
                 /\ at = 10 => UNCHANGED <<pool, alive>>
      <4>1. CASE AddServers
        <5>1. at = 7
          BY <2>0, <4>1, OpIs DEF AddServers
        <5> QED BY <3>6, <4>1, <5>1 DEF AddServers, PoolWith, Fails, Hybrids
      <4>2. CASE RemoveServers
        <5>1. at = 13
          BY <2>0, <4>2, OpIs DEF RemoveServers
        <5> QED BY <3>6, <4>2, <5>1 DEF RemoveServers, PoolWithout, Fails, Hybrids
      <4>3. CASE Validate
        <5>1. at = 10
          BY <2>0, <4>3, OpIs DEF Validate
        <5> QED BY <3>6, <4>3, <5>1 DEF Validate, lbVars
      <4> QED BY <1>4, <4>1, <4>2, <4>3
    <3> QED BY <3>1, <3>2, <3>3, <3>4, <3>5, <3>6, GroupIs
  <2>2. PhasePool'
    BY <1>0, <1>1, <2>1, ServersAre DEF PhasePool
  <2>3. PhaseAlone'
    BY <1>0, <2>1 DEF PhaseAlone
  <2>4. PhaseHybrid'
    BY <1>0, <2>1 DEF PhaseHybrid
  <2> QED BY <2>2, <2>3, <2>4 DEF Phase
<1> QED BY <1>2, <1>3, <1>4 DEF Trainer

\* What holds of routing, phases and calls.
Routing == TypeOK /\ CacheKeys /\ Phase /\ Hold /\ Quiet

\* What a client's step does to its call: it is routed, or stays where it is.
LEMMA ClientCall ==
  ASSUME TypeOK, CacheKeys, PhasePool, Hold, NEW c \in Clients, Client(c)
  PROVE  /\ \A d \in Clients \ {c} : req'[d] = req[d] /\ owed'[d] = owed[d]
         /\ \/ /\ Acquire(c) /\ req[c].st = "new" /\ req'[c].st = "call" /\ req'[c].srv \in pool
               /\ owed[c] = NoServer /\ owed'[c] = NoServer
               /\ inflight' = [inflight EXCEPT ![req'[c].srv] = @ + 1]
            \/ /\ Release(c) /\ req' = req /\ owed[c] # NoServer /\ owed'[c] = NoServer
               /\ inflight' = Released(owed[c])
            \/ /\ Enter(c) /\ req[c].st = "call" /\ req'[c].st = "gen" /\ req'[c].srv = req[c].srv
               /\ owed'[c] = owed[c] /\ inflight' = inflight
               /\ ~paused[req[c].srv] /\ ~asleep[req[c].srv]
            \/ /\ EnterRaises(c) /\ req[c].st = "call" /\ req'[c].st = "failed"
               /\ owed'[c] = req[c].srv /\ inflight' = inflight
            \/ /\ Token(c) /\ req[c].st = "gen" /\ req'[c].st \in {"gen", "back"}
               /\ req'[c].srv = req[c].srv /\ owed'[c] = owed[c] /\ inflight' = inflight
            \/ /\ CutOff(c) /\ req[c].st = "gen" /\ req'[c].st = "failed"
               /\ owed'[c] = req[c].srv /\ inflight' = inflight
            \/ /\ Return(c) /\ req[c].st = "back" /\ req'[c].st \in {"new", "done"}
               /\ owed'[c] = req[c].srv /\ inflight' = inflight
<1>0. owed \in [Clients -> Servers \cup {NoServer}] /\ req \in [Clients -> Requests] /\ req[c] \in Requests
  BY DEF TypeOK
<1>1. CASE Acquire(c)
  <2>1. req[c].st = "new" /\ owed[c] = NoServer /\ owed' = owed
    BY <1>1 DEF Acquire
  <2>2. PICK s \in pool :
            /\ inflight' = [inflight EXCEPT ![s] = @ + 1]
            /\ req' \in [Clients -> Requests] /\ \A d \in Clients \ {c} : req'[d] = req[d]
            /\ req'[c] = [req[c] EXCEPT !.st = "call", !.srv = s]
    BY <1>1, AcquireReq
  <2>3. req'[c].st = "call" /\ req'[c].srv = s
    BY <1>0, <2>2 DEF Requests
  <2> QED BY <1>1, <2>1, <2>2, <2>3
<1>2. CASE Release(c)
  BY <1>0, <1>2 DEF Release
<1>3. CASE Enter(c)
  <2>1. owed' = owed /\ inflight' = inflight /\ req[c].st = "call" /\ ~paused[req[c].srv]
        /\ ~asleep[req[c].srv]
    BY <1>3 DEF Enter, lbVars
  <2>2. PICK n \in Nat : /\ \A d \in Clients \ {c} : req'[d] = req[d]
                         /\ req'[c] = [req[c] EXCEPT !.st = "gen", !.chunk = <<>>, !.limit = n]
    BY <1>3, EnterReq
  <2>3. req'[c].st = "gen" /\ req'[c].srv = req[c].srv
    BY <1>0, <2>2 DEF Requests
  <2> QED BY <1>3, <2>1, <2>2, <2>3
<1>4. CASE EnterRaises(c)
  <2>1. owed' = [owed EXCEPT ![c] = req[c].srv] /\ inflight' = inflight /\ req[c].st = "call"
    BY <1>4 DEF EnterRaises, Raise, lbVars
  <2>2. (\A d \in Clients \ {c} : req'[d] = req[d]) /\ req'[c].st = "failed"
    BY <1>4, RaiseReq
  <2> QED BY <1>0, <1>4, <2>1, <2>2
<1>7. CASE CutOff(c)
  <2>1. owed' = [owed EXCEPT ![c] = req[c].srv] /\ inflight' = inflight /\ req[c].st = "gen"
    BY <1>7 DEF CutOff, Raise, lbVars
  <2>2. (\A d \in Clients \ {c} : req'[d] = req[d]) /\ req'[c].st = "failed"
    BY <1>7, RaiseReq
  <2> QED BY <1>0, <1>7, <2>1, <2>2
<1>5. CASE Token(c)
  <2>1. owed' = owed /\ inflight' = inflight /\ req[c].st = "gen"
    BY <1>5 DEF Token, lbVars
  <2>2. req[c].srv \in Servers
    BY <2>1 DEF Hold
  <2> DEFINE v == version[req[c].srv]
             k == Append(req[c].chunk, v)
  <2>3. /\ \A d \in Clients \ {c} : req'[d] = req[d]
        /\ \/ req'[c] = [req[c] EXCEPT !.chunk = k]
           \/ req'[c] = [req[c] EXCEPT !.chunk = k, !.st = "back", !.stop = "completed", !.gs = v]
    BY <1>5, <2>2, TokenReq
  <2> HIDE DEF k, v
  <2>4. req'[c].st \in {"gen", "back"} /\ req'[c].srv = req[c].srv
    BY <1>0, <2>1, <2>3 DEF Requests
  <2> QED BY <1>5, <2>1, <2>3, <2>4
<1>6. CASE Return(c)
  <2>1. owed' = [owed EXCEPT ![c] = req[c].srv] /\ inflight' = inflight /\ req[c].st = "back"
    BY <1>6 DEF Return, lbVars
  <2>2. (\A d \in Clients \ {c} : req'[d] = req[d]) /\ req'[c].st \in {"new", "done"}
    BY <1>6, ReturnReq
  <2> QED BY <1>0, <1>6, <2>1, <2>2
<1> QED BY <1>1, <1>2, <1>3, <1>4, <1>5, <1>6, <1>7 DEF Client

\* A client's step keeps the routing.
LEMMA ClientRouting == ASSUME Routing, NEW c \in Clients, Client(c) PROVE Routing'
<1>0. TypeOK /\ CacheKeys /\ PhasePool /\ Hold /\ Quiet /\ Phase
  BY DEF Routing, Phase
<1>1. TypeOK' /\ CacheKeys' /\ UNCHANGED <<pool, paused, asleep, version, current, at, todo, alive, lost>>
  BY <1>0, ClientType
<1>2. Phase'
  <2>1. PhasePool' /\ PhaseAlone' /\ PhaseHybrid'
    BY <1>0, <1>1 DEF Phase, PhasePool, PhaseAlone, PhaseHybrid
  <2> QED BY <2>1 DEF Phase
<1>3. /\ \A d \in Clients \ {c} : req'[d] = req[d] /\ owed'[d] = owed[d]
      /\ req'[c].st \in {"call", "gen", "back"} => owed'[c] = NoServer /\ req'[c].srv \in Servers
      /\ "abort" \notin lost /\ req'[c].st = "gen" => ~paused[req'[c].srv] /\ ~asleep[req'[c].srv]
  <2>1. pool \subseteq Servers
    BY <1>0 DEF TypeOK
  <2>2. req[c].st \in {"call", "gen", "back"} => owed[c] = NoServer /\ req[c].srv \in Servers
    BY <1>0 DEF Hold
  <2>3. "abort" \notin lost /\ req[c].st = "gen" => ~paused[req[c].srv] /\ ~asleep[req[c].srv]
    BY <1>0 DEF Quiet
  <2> QED BY <1>0, <2>1, <2>2, <2>3, ClientCall
<1>4. Hold'
  BY <1>0, <1>3 DEF Hold
<1>5. Quiet'
  BY <1>0, <1>1, <1>3 DEF Quiet
<1> QED BY <1>1, <1>2, <1>4, <1>5 DEF Routing

\* The trainer's step keeps the routing: what it pauses or puts to sleep has
\* stopped generating.
LEMMA TrainerRouting == ASSUME Routing, Trainer PROVE Routing'
<1>0. TypeOK /\ CacheKeys /\ PhasePool /\ Hold /\ Quiet /\ Phase /\ PhaseHybrid
  BY DEF Routing, Phase
<1>1. TypeOK' /\ CacheKeys' /\ UNCHANGED <<cache, owed>> /\ lost \subseteq lost'
  BY <1>0, TrainerType
<1>2. Phase'
  BY <1>0, TrainerPhase
<1>3. CASE StartSync \/ AddServers \/ RemoveServers \/ Validate
  <2>1. UNCHANGED <<req, paused, asleep>>
    BY <1>3 DEF StartSync, AddServers, RemoveServers, Validate, srvVars
  <2>2. Hold' /\ Quiet'
    BY <1>0, <1>1, <2>1 DEF Hold, Quiet
  <2> QED BY <1>1, <1>2, <2>2 DEF Routing
<1>4. CASE \E s \in Servers : Abort(s) \/ AbortFails(s) \/ Resume(s) \/ Load(s) \/ Sleep(s)
  <2>1. PICK s \in Servers : Abort(s) \/ AbortFails(s) \/ Resume(s) \/ Load(s) \/ Sleep(s)
    BY <1>4
  <2>2. /\ paused \in [Servers -> BOOLEAN] /\ asleep \in [Servers -> BOOLEAN]
        /\ req \in [Clients -> Requests] /\ at \in 0..16
    BY <1>0, ScriptIs DEF TypeOK
  <2>3. ASSUME NEW c \in Clients
        PROVE  /\ req'[c].st \in {"call", "gen", "back"} =>
                     req[c].st \in {"call", "gen", "back"} /\ req'[c].srv = req[c].srv
               /\ req'[c].st = "gen" => req'[c] = req[c] /\ (Abort(s) => req[c].srv # s)
    <3>1. CASE Abort(s)
      <4>1. IF req[c].st = "gen" /\ req[c].srv = s
            THEN \E g \in {NoVersion, version[s]} :
                    req'[c] = [req[c] EXCEPT !.st = "back", !.stop = "aborted", !.gs = g]
            ELSE req'[c] = req[c]
        BY <1>0, <3>1, AbortReq
      <4>2. CASE req[c].st = "gen" /\ req[c].srv = s
        <5>1. PICK g \in {NoVersion, version[s]} :
                    req'[c] = [req[c] EXCEPT !.st = "back", !.stop = "aborted", !.gs = g]
          BY <4>1, <4>2
        <5>2. req'[c].st = "back" /\ req'[c].srv = req[c].srv
          BY <2>2, <5>1 DEF Requests
        <5> QED BY <4>2, <5>2
      <4>3. CASE ~(req[c].st = "gen" /\ req[c].srv = s)
        BY <4>1, <4>3
      <4> QED BY <4>2, <4>3
    <3>2. CASE ~Abort(s)
      BY <2>1, <3>2 DEF AbortFails, Resume, Load, Sleep
    <3> QED BY <3>1, <3>2
  <2>4. Hold'
    BY <1>0, <1>1, <2>3 DEF Hold
  <2>5. Quiet'
    <3> SUFFICES ASSUME "abort" \notin lost', NEW c \in Clients, req'[c].st = "gen"
                 PROVE  ~paused'[req'[c].srv] /\ ~asleep'[req'[c].srv]
      BY DEF Quiet
    <3>1. req'[c] = req[c] /\ (Abort(s) => req[c].srv # s)
      BY <2>3
    <3>2. req[c].srv \in Servers /\ ~paused[req[c].srv] /\ ~asleep[req[c].srv] /\ "abort" \notin lost
      BY <1>0, <1>1, <3>1 DEF Hold, Quiet
    <3>6. ~AbortFails(s)
      BY DEF AbortFails, Fails
    <3>3. CASE Abort(s)
      <4>1. paused' = [paused EXCEPT ![s] = TRUE] /\ asleep' = asleep
        BY <3>3 DEF Abort
      <4> QED BY <2>2, <3>1, <3>2, <3>3, <4>1
    <3>4. CASE Resume(s) \/ Load(s)
      <4>1. paused' = paused \/ paused' = [paused EXCEPT ![s] = FALSE]
        BY <3>4 DEF Resume, Load
      <4>2. asleep' = asleep \/ asleep' = [asleep EXCEPT ![s] = FALSE]
        BY <3>4 DEF Resume, Load
      <4> QED BY <2>2, <3>1, <3>2, <4>1, <4>2
    <3>5. CASE Sleep(s)
      <4>1. paused' = paused /\ asleep' = [asleep EXCEPT ![s] = TRUE] /\ at # 0 /\ s \in todo /\ Op = "sleep"
        BY <3>5 DEF Sleep
      <4>2. at = 14
        BY <2>2, <4>1, OpIs
      <4>3. s \in Hybrids
        BY <1>0, <4>1, <4>2, GroupIs DEF PhasePool
      <4>4. paused[s]
        BY <1>0, <3>2, <4>2, <4>3 DEF PhaseHybrid
      <4>5. req[c].srv # s
        BY <3>2, <4>4
      <4> QED BY <2>2, <3>1, <3>2, <4>1, <4>5
    <3> QED BY <2>1, <3>3, <3>4, <3>5, <3>6
  <2> QED BY <1>1, <1>2, <2>4, <2>5 DEF Routing
<1> QED BY <1>3, <1>4 DEF Trainer

\* The start.
LEMMA InitRouting == Init => Routing
<1> SUFFICES ASSUME Init PROVE Routing
  OBVIOUS
<1>0. 0 \in Versions /\ MaxVersion \in Nat /\ CacheSize \in Nat
  BY PoolAssumption DEF Versions
<1>1. Fresh \in Requests /\ Fresh.st = "new"
  <2>1. <<>> \in Seq(Versions)
    OBVIOUS
  <2> QED BY <2>1 DEF Fresh, Requests
<1>2. req \in [Clients -> Requests] /\ \A c \in Clients : req[c].st = "new"
  BY <1>1 DEF Init, Idle
<1>3. TypeOK
  <2>1. pool \subseteq Servers /\ inflight \in [Servers -> Nat] /\ owed \in [Clients -> Servers \cup {NoServer}]
    BY DEF Init, Idle, Servers
  <2>2. cache \in Seq([id : Clients, srv : Servers]) /\ Len(cache) <= CacheSize
    BY <1>0 DEF Init, Idle
  <2>3. paused \in [Servers -> BOOLEAN] /\ asleep \in [Servers -> BOOLEAN]
    <3>1. \A s \in Servers : (s \in Elems(Hybrid)) \in BOOLEAN
      OBVIOUS
    <3> QED BY <3>1 DEF Init, Idle
  <2>4. version \in [Servers -> Versions] /\ current \in Versions /\ at \in 0..Len(Script) /\ todo \subseteq Servers
    BY <1>0, ScriptIs DEF Init, Idle
  <2>5. alive \in BOOLEAN /\ lost \subseteq {"abort", "add", "remove"}
    <3>1. lost = {} /\ alive = FALSE
      BY DEF Init, Idle
    <3> QED BY <3>1
  <2> QED BY <1>2, <2>1, <2>2, <2>3, <2>4, <2>5 DEF TypeOK
<1>4. CacheKeys
  BY DEF Init, Idle, CacheKeys
<1>5. Phase
  <2>1. at = 0 /\ pool = Alone /\ current = 0 /\ alive = FALSE
    BY DEF Init, Idle, Alone
  <2>2. \A s \in Servers : version[s] = 0 /\ (asleep[s] <=> s \in Hybrids)
    BY DEF Init, Idle, Hybrids
  <2>3. PhasePool
    BY <2>1 DEF PhasePool
  <2>4. PhaseAlone
    BY <2>1, <2>2, ServersAre DEF PhaseAlone
  <2>5. PhaseHybrid
    BY <2>1, <2>2, ServersAre DEF PhaseHybrid
  <2> QED BY <2>3, <2>4, <2>5 DEF Phase
<1>6. Hold /\ Quiet
  BY <1>2 DEF Hold, Quiet
<1> QED BY <1>3, <1>4, <1>5, <1>6 DEF Routing

\* Every step keeps the routing.
LEMMA StepRouting == Routing /\ [Next]_vars => Routing'
<1> SUFFICES ASSUME Routing, [Next]_vars PROVE Routing'
  OBVIOUS
<1>1. CASE \E c \in Clients : Client(c)
  BY <1>1, ClientRouting
<1>2. CASE Trainer
  BY <1>2, TrainerRouting
<1>3. CASE UNCHANGED vars
  <2>1. UNCHANGED <<pool, inflight, cache, owed, req, paused, asleep, version, current, at, todo,
                    alive, lost>>
    BY <1>3 DEF vars
  <2>2. TypeOK' /\ CacheKeys'
    BY <2>1 DEF Routing, TypeOK, CacheKeys
  <2>3. PhasePool' /\ PhaseAlone' /\ PhaseHybrid'
    BY <2>1 DEF Routing, Phase, PhasePool, PhaseAlone, PhaseHybrid
  <2>4. Hold' /\ Quiet'
    BY <2>1 DEF Routing, Hold, Quiet
  <2> QED BY <2>2, <2>3, <2>4 DEF Routing, Phase
<1> QED BY <1>1, <1>2, <1>3 DEF Next

\* The type of the state of balancer, clients and servers.
THEOREM TypeSafety == Spec => []TypeOK
<1>1. Routing => TypeOK
  BY DEF Routing
<1> QED BY <1>1, InitRouting, StepRouting, PTL DEF Spec

-----------------------------------------------------------------------------
(* The counts of the load balancer.                                        *)

LoadInv == Zero /\ LoadIsReal

\* The clients that hold a server are finitely many.
LEMMA HoldersFinite ==
  \A s : IsFiniteSet(Holders(s)) /\ Cardinality(Holders(s)) \in Nat
<1> SUFFICES ASSUME NEW s PROVE IsFiniteSet(Holders(s)) /\ Cardinality(Holders(s)) \in Nat
  OBVIOUS
<1>1. Holders(s) \subseteq Clients
  BY DEF Holders
<1> QED BY <1>1, ServersAre, FS_Subset, FS_CardinalityType

\* A step that keeps the holders and the counts.
LEMMA SameLoad ==
  ASSUME LoadInv, UNCHANGED <<pool, inflight>>, \A s \in Servers : Holders(s)' = Holders(s)
  PROVE  LoadInv'
  BY DEF LoadInv, Zero, LoadIsReal

\* A client's step keeps the counts real.
LEMMA ClientLoad == ASSUME Routing, LoadInv, NEW c \in Clients, Client(c) PROVE LoadInv'
<1>0. /\ TypeOK /\ CacheKeys /\ PhasePool /\ Hold /\ Zero /\ LoadIsReal
      /\ inflight \in [Servers -> Nat] /\ pool \subseteq Servers /\ Alone \subseteq pool
      /\ owed \in [Clients -> Servers \cup {NoServer}]
  BY DEF Routing, LoadInv, Phase, TypeOK, PhasePool, Servers, Alone
<1>1. UNCHANGED pool
  BY <1>0, ClientType
<1>2. \A d \in Clients \ {c} : req'[d] = req[d] /\ owed'[d] = owed[d]
  BY <1>0, ClientCall
<1>3. req[c].st \in {"call", "gen", "back"} => owed[c] = NoServer
  BY <1>0 DEF Hold
<1>4. ASSUME NEW s \in Servers
      PROVE  /\ inflight[s] \in Nat /\ inflight[s] <= Cardinality(Holders(s))
             /\ s \in Alone => inflight[s] = Cardinality(Holders(s))
             /\ IsFiniteSet(Holders(s)) /\ Cardinality(Holders(s)) \in Nat
  BY <1>0, HoldersFinite DEF LoadIsReal, Alone
<1>5. CASE Acquire(c)
  <2>1. /\ req[c].st = "new" /\ req'[c].st = "call" /\ req'[c].srv \in pool
        /\ owed[c] = NoServer /\ owed'[c] = NoServer
        /\ inflight' = [inflight EXCEPT ![req'[c].srv] = @ + 1]
    <3>1. req[c].st = "new"
      BY <1>5 DEF Acquire
    <3>2. owed[c] = NoServer
      BY <1>5 DEF Acquire
    <3> QED BY <1>0, <3>1, <3>2, ClientCall
  <2>a. PICK t \in Servers : t = req'[c].srv
    BY <1>0, <2>1
  <2>2. t \in pool /\ t # NoServer
    BY <2>1, <2>a, ServersAre
  <2>3. \A s \in Servers : s # t => Holders(s)' = Holders(s)
    BY <1>2, <2>1, <2>a, ServersAre DEF Holders
  <2>4. Holders(t)' = Holders(t) \cup {c} /\ c \notin Holders(t)
    <3>1. c \in Holders(t)' /\ c \notin Holders(t)
      BY <2>1, <2>a, <2>2 DEF Holders
    <3>2. \A d \in Clients \ {c} : d \in Holders(t)' <=> d \in Holders(t)
      BY <1>2 DEF Holders
    <3>3. Holders(t)' \subseteq Clients /\ Holders(t) \subseteq Clients
      BY DEF Holders
    <3> QED BY <3>1, <3>2, <3>3
  <2>5. Cardinality(Holders(t)') = Cardinality(Holders(t)) + 1
    BY <2>4, HoldersFinite, FS_AddElement
  <2>6. inflight'[t] = inflight[t] + 1 /\ \A s \in Servers : s # t => inflight'[s] = inflight[s]
    BY <1>0, <2>1, <2>a
  <2>7. Zero'
    BY <1>0, <1>1, <2>2, <2>6 DEF Zero
  <2>8. LoadIsReal'
    <3> SUFFICES ASSUME NEW s \in Servers
                 PROVE  /\ inflight'[s] <= Cardinality(Holders(s)')
                        /\ s \in Elems(Standalone) => inflight'[s] = Cardinality(Holders(s)')
      BY DEF LoadIsReal
    <3>1. CASE s = t
      BY <1>4, <2>5, <2>6, <3>1 DEF Alone
    <3>2. CASE s # t
      BY <1>4, <2>3, <2>6, <3>2 DEF Alone
    <3> QED BY <3>1, <3>2
  <2> QED BY <2>7, <2>8 DEF LoadInv
<1>6. CASE Release(c)
  <2>1. req' = req /\ owed[c] # NoServer /\ owed'[c] = NoServer /\ inflight' = Released(owed[c])
    BY <1>0, <1>6 DEF Release
  <2>a. PICK t \in Servers : t = owed[c]
    BY <1>0, <2>1
  <2>2. t # NoServer /\ req[c].st \notin {"call", "gen", "back"}
    BY <1>3, <2>1, <2>a
  <2>3. \A s \in Servers : s # t => Holders(s)' = Holders(s)
    BY <1>2, <2>1, <2>a, ServersAre DEF Holders
  <2>4. Holders(t)' = Holders(t) \ {c} /\ c \in Holders(t)
    <3>1. c \notin Holders(t)' /\ c \in Holders(t)
      BY <2>1, <2>a, <2>2 DEF Holders
    <3>2. \A d \in Clients \ {c} : d \in Holders(t)' <=> d \in Holders(t)
      BY <1>2 DEF Holders
    <3>3. Holders(t)' \subseteq Clients /\ Holders(t) \subseteq Clients
      BY DEF Holders
    <3> QED BY <3>1, <3>2, <3>3
  <2>5. Cardinality(Holders(t)') = Cardinality(Holders(t)) - 1
    BY <2>4, HoldersFinite, FS_RemoveElement
  <2>6. Cardinality(Holders(t)) >= 1
    <3>1. Cardinality(Holders(t)) # 0
      BY <2>4, HoldersFinite, FS_EmptySet
    <3> QED BY <3>1, HoldersFinite
  <2>7. /\ \A s \in Servers : s # t => inflight'[s] = inflight[s]
        /\ inflight'[t] = IF t \in pool /\ inflight[t] > 0 THEN inflight[t] - 1 ELSE inflight[t]
    BY <1>0, <2>1, <2>a DEF Released
  <2>8. /\ inflight[t] \in Nat /\ inflight[t] <= Cardinality(Holders(t)) /\ Cardinality(Holders(t)) \in Nat
        /\ t \in Alone => inflight[t] = Cardinality(Holders(t)) /\ t \in pool
        /\ t \notin pool => inflight[t] = 0
    BY <1>0, <1>4, <2>2 DEF Zero
  <2>9. /\ inflight'[t] <= Cardinality(Holders(t)')
        /\ t \in Alone => inflight'[t] = Cardinality(Holders(t)')
        /\ t \notin pool => inflight'[t] = 0
    BY <2>5, <2>6, <2>7, <2>8
  <2>10. Zero'
    BY <1>0, <1>1, <2>7, <2>9 DEF Zero
  <2>11. LoadIsReal'
    <3> SUFFICES ASSUME NEW s \in Servers
                 PROVE  /\ inflight'[s] <= Cardinality(Holders(s)')
                        /\ s \in Elems(Standalone) => inflight'[s] = Cardinality(Holders(s)')
      BY DEF LoadIsReal
    <3>1. CASE s = t
      BY <2>9, <3>1 DEF Alone
    <3>2. CASE s # t
      BY <1>4, <2>3, <2>7, <3>2 DEF Alone
    <3> QED BY <3>1, <3>2
  <2> QED BY <2>10, <2>11 DEF LoadInv
<1>7. CASE Enter(c) \/ EnterRaises(c) \/ Token(c) \/ CutOff(c) \/ Return(c)
  <2>0. UNCHANGED inflight /\ req[c].st \in {"call", "gen", "back"}
    BY <1>7 DEF Enter, EnterRaises, Token, CutOff, Return, lbVars
  <2>1. \/ req'[c].st \in {"gen", "back"} /\ req'[c].srv = req[c].srv /\ owed'[c] = NoServer
        \/ req'[c].st \in {"new", "done", "failed"} /\ owed'[c] = req[c].srv
    <3>1. ~Acquire(c)
      BY <2>0 DEF Acquire
    <3>2. ~Release(c)
      BY <1>3, <2>0 DEF Release
    <3> QED BY <1>0, <1>3, <2>0, <3>1, <3>2, ClientCall
  <2>2. \A s \in Servers : Holders(s)' = Holders(s)
    <3> SUFFICES ASSUME NEW s \in Servers, NEW d \in Clients PROVE d \in Holders(s)' <=> d \in Holders(s)
      BY DEF Holders
    <3>1. CASE d = c
      BY <1>3, <2>0, <2>1, <3>1, ServersAre DEF Holders
    <3>2. CASE d # c
      BY <1>2, <3>2 DEF Holders
    <3> QED BY <3>1, <3>2
  <2> QED BY <1>1, <2>0, <2>2, SameLoad
<1> QED BY <1>5, <1>6, <1>7 DEF Client

\* The trainer's step keeps the counts real: interrupted calls go on holding
\* their servers, added and removed servers start over at zero.
LEMMA TrainerLoad == ASSUME Routing, LoadInv, Trainer PROVE LoadInv'
<1>0. TypeOK /\ CacheKeys /\ PhasePool /\ Zero /\ LoadIsReal /\ req \in [Clients -> Requests]
  BY DEF Routing, LoadInv, Phase, TypeOK
<1>1. UNCHANGED owed
  BY <1>0, TrainerType
<1>2. CASE StartSync \/ Validate
  <2>1. UNCHANGED <<pool, inflight, req>>
    BY <1>2 DEF StartSync, Validate, lbVars
  <2>2. \A s \in Servers : Holders(s)' = Holders(s)
    BY <1>1, <2>1 DEF Holders
  <2> QED BY <2>1, <2>2, SameLoad
<1>5. CASE (AddServers \/ RemoveServers) /\ SamePool
  <2>1. UNCHANGED <<pool, inflight, req>>
    BY <1>5 DEF AddServers, RemoveServers, SamePool
  <2>2. \A s \in Servers : Holders(s)' = Holders(s)
    BY <1>1, <2>1 DEF Holders
  <2> QED BY <2>1, <2>2, SameLoad
<1>3. CASE (AddServers \/ RemoveServers) /\ (PoolWith \/ PoolWithout)
  <2>1. /\ UNCHANGED req /\ (pool' = pool \cup Hybrids \/ pool' = pool \ Hybrids)
        /\ inflight' = [s \in Servers |-> IF s \in Hybrids THEN 0 ELSE inflight[s]]
    BY <1>3 DEF AddServers, RemoveServers, PoolWith, PoolWithout, Hybrids
  <2>2. \A s \in Servers : Holders(s)' = Holders(s)
    BY <1>1, <2>1 DEF Holders
  <2>3. Zero'
    BY <1>0, <2>1 DEF Zero
  <2>4. LoadIsReal'
    <3> SUFFICES ASSUME NEW s \in Servers
                 PROVE  /\ inflight'[s] <= Cardinality(Holders(s)')
                        /\ s \in Elems(Standalone) => inflight'[s] = Cardinality(Holders(s)')
      BY DEF LoadIsReal
    <3>1. Holders(s)' = Holders(s) /\ Cardinality(Holders(s)) \in Nat
      BY <2>2, HoldersFinite
    <3>2. CASE s \in Hybrids
      <4>1. inflight'[s] = 0 /\ s \notin Elems(Standalone)
        BY <2>1, <3>2, ServersAre DEF Alone
      <4> QED BY <3>1, <4>1
    <3>3. CASE s \notin Hybrids
      <4>1. inflight'[s] = inflight[s]
        BY <2>1, <3>3
      <4> QED BY <1>0, <3>1, <4>1 DEF LoadIsReal
    <3> QED BY <3>2, <3>3
  <2> QED BY <2>3, <2>4 DEF LoadInv
<1>4. CASE \E s \in Servers : Abort(s) \/ AbortFails(s) \/ Resume(s) \/ Load(s) \/ Sleep(s)
  <2>1. PICK s \in Servers : Abort(s) \/ AbortFails(s) \/ Resume(s) \/ Load(s) \/ Sleep(s)
    BY <1>4
  <2>2. UNCHANGED <<pool, inflight>>
    BY <2>1 DEF Abort, AbortFails, Resume, Load, Sleep, lbVars
  <2>3. ASSUME NEW c \in Clients
        PROVE  \/ req'[c] = req[c]
               \/ req[c].st = "gen" /\ req'[c].st = "back" /\ req'[c].srv = req[c].srv
    <3>1. CASE Abort(s)
      <4>1. CASE req[c].st = "gen" /\ req[c].srv = s
        <5>1. PICK g \in {NoVersion, version[s]} :
                    req'[c] = [req[c] EXCEPT !.st = "back", !.stop = "aborted", !.gs = g]
          BY <1>0, <3>1, <4>1, AbortReq
        <5>2. req'[c].st = "back" /\ req'[c].srv = req[c].srv
          BY <1>0, <5>1 DEF Requests
        <5> QED BY <4>1, <5>2
      <4>2. CASE ~(req[c].st = "gen" /\ req[c].srv = s)
        BY <1>0, <3>1, <4>2, AbortReq
      <4> QED BY <4>1, <4>2
    <3>2. CASE ~Abort(s)
      BY <2>1, <3>2 DEF AbortFails, Resume, Load, Sleep
    <3> QED BY <3>1, <3>2
  <2>4. \A t \in Servers : Holders(t)' = Holders(t)
    <3> SUFFICES ASSUME NEW t \in Servers, NEW c \in Clients PROVE c \in Holders(t)' <=> c \in Holders(t)
      BY DEF Holders
    <3> QED BY <1>1, <2>3 DEF Holders
  <2> QED BY <2>2, <2>4, SameLoad
<1>6. AddServers \/ RemoveServers => SamePool \/ PoolWith \/ PoolWithout
  BY DEF AddServers, RemoveServers
<1> QED BY <1>2, <1>3, <1>4, <1>5, <1>6 DEF Trainer

\* The start.
LEMMA InitLoad == Init => LoadInv
<1> SUFFICES ASSUME Init PROVE LoadInv
  OBVIOUS
<1>1. \A s \in Servers : inflight[s] = 0
  BY DEF Init, Idle
<1>2. \A s \in Servers : Holders(s) = {}
  <2>1. \A c \in Clients : req[c].st = "new" /\ owed[c] = NoServer
    BY DEF Init, Idle, Fresh
  <2> QED BY <2>1, ServersAre DEF Holders
<1>3. \A s \in Servers : Cardinality(Holders(s)) = 0
  BY <1>2, FS_EmptySet
<1> QED BY <1>1, <1>3 DEF LoadInv, Zero, LoadIsReal

\* Every step keeps the counts real.
LEMMA StepLoad == Routing /\ LoadInv /\ [Next]_vars => LoadInv'
<1> SUFFICES ASSUME Routing, LoadInv, [Next]_vars PROVE LoadInv'
  OBVIOUS
<1>1. CASE UNCHANGED vars
  <2>1. UNCHANGED <<pool, inflight, req, owed>>
    BY <1>1 DEF vars
  <2>2. \A s \in Servers : Holders(s)' = Holders(s)
    BY <2>1 DEF Holders
  <2> QED BY <2>1, <2>2, SameLoad
<1> QED BY <1>1, ClientLoad, TrainerLoad DEF Next

\* acquire_server and release_server keep the count of a standalone server
\* equal to the calls that hold it, whatever is interrupted, resumed, refused
\* or released late, and never count more for a hybrid one.
THEOREM LoadCountsAreReal == Spec => []LoadIsReal
<1>1. Routing /\ LoadInv => LoadIsReal
  BY DEF LoadInv
<1> QED BY <1>1, InitRouting, StepRouting, InitLoad, StepLoad, PTL DEF Spec

-----------------------------------------------------------------------------
(* The versions of an answer.                                              *)

\* The fields of the requests that the versions depend on.
LEMMA SpanFields ==
  ASSUME NEW r \in Requests
  PROVE  /\ Len(r.tokens) \in Nat /\ Len(r.chunk) \in Nat
         /\ \A i \in 1..Len(r.tokens) : r.tokens[i] \in Int
         /\ \A i \in 1..Len(r.chunk) : r.chunk[i] \in Int
         /\ r.lo \in Int /\ r.hi \in Int /\ r.gs \in Int
         /\ r.tokens # <<>> => Len(r.tokens) > 0
         /\ r.chunk # <<>> => Len(r.chunk) > 0
<1>1. Versions \subseteq Int /\ NoVersion \in Int
  BY PoolAssumption DEF Versions, NoVersion
<1>2. r.tokens \in Seq(Versions) /\ r.chunk \in Seq(Versions)
  BY RequestIs
<1>3. r.lo \in Int /\ r.hi \in Int /\ r.gs \in Int
  BY <1>1, RequestIs
<1>4. ASSUME NEW x \in Seq(Versions)
      PROVE  Len(x) \in Nat /\ (\A i \in 1..Len(x) : x[i] \in Int) /\ (x # <<>> => Len(x) > 0)
  <2>1. Len(x) \in Nat /\ \A i \in 1..Len(x) : x[i] \in Versions
    OBVIOUS
  <2>2. x # <<>> => Len(x) > 0
    OBVIOUS
  <2> QED BY <1>1, <2>1, <2>2
<1> QED BY <1>2, <1>3, <1>4

\* Newer weights, on a server that goes on generating or elsewhere.
LEMMA SpanLater ==
  ASSUME NEW r \in Requests, NEW v \in Int, NEW w \in Int, v <= w,
         NEW ver \in [Servers -> Versions], NEW wer \in [Servers -> Versions],
         \A s \in Servers : ver[s] <= wer[s], r.st = "gen" => r.srv \in Servers,
         SpanOf(r, v, ver)
  PROVE  SpanOf(r, w, wer)
<1>1. r.st = "gen" => \A i \in 1..Len(r.chunk) : r.chunk[i] <= wer[r.srv]
  <2> SUFFICES ASSUME r.st = "gen", NEW i \in 1..Len(r.chunk) PROVE r.chunk[i] <= wer[r.srv]
    OBVIOUS
  <2>1. r.chunk[i] <= ver[r.srv] /\ ver[r.srv] <= wer[r.srv]
    BY DEF SpanOf
  <2>2. r.chunk[i] \in Int /\ ver[r.srv] \in Int /\ wer[r.srv] \in Int
    BY SpanFields, PoolAssumption DEF Versions
  <2> QED BY <2>1, <2>2
<1> QED BY <1>1, SpanFields DEF SpanOf

\* A call that goes out.
LEMMA SpanCall ==
  ASSUME NEW r \in Requests, NEW v, NEW ver, SpanOf(r, v, ver), r.st = "new", NEW q \in Requests,
         q.st = "call", q.tokens = r.tokens, q.lo = r.lo
  PROVE  SpanOf(q, v, ver) /\ (SharpOf(r, ver) => SharpOf(q, ver))
  BY DEF SpanOf, SharpOf

\* A call that raises.
LEMMA SpanRaise ==
  ASSUME NEW v \in Int, -1 <= v, NEW ver, NEW q \in Requests,
         q.st = "failed", q.tokens = <<>>, q.lo = NoVersion
  PROVE  SpanOf(q, v, ver) /\ SharpOf(q, ver)
  BY DEF SpanOf, SharpOf, NoVersion

\* A call that begins.
LEMMA SpanEnter ==
  ASSUME NEW r \in Requests, NEW v, NEW ver, SpanOf(r, v, ver), r.st = "call", NEW q \in Requests,
         q.st = "gen", q.tokens = r.tokens, q.lo = r.lo, q.chunk = <<>>
  PROVE  SpanOf(q, v, ver) /\ (SharpOf(r, ver) => SharpOf(q, ver))
  BY DEF SpanOf, SharpOf

\* A piece of an answer with one more token.
LEMMA Grown ==
  ASSUME NEW t \in Seq(Versions), NEW k \in Seq(Versions), NEW g \in Versions,
         \A i, j \in 1..Len(k) : i < j => k[i] <= k[j],
         \A i \in 1..Len(k) : k[i] <= g,
         \A i \in 1..Len(t) : t[i] <= g,
         \A i \in 1..Len(t) : \A j \in 1..Len(k) : t[i] <= k[j]
  PROVE  LET e == Append(k, g)
         IN  /\ e \in Seq(Versions) /\ e # <<>> /\ Len(e) = Len(k) + 1
             /\ \A i \in 1..Len(k) : e[i] = k[i]
             /\ e[Len(k) + 1] = g
             /\ \A i, j \in 1..Len(e) : i < j => e[i] <= e[j]
             /\ \A i \in 1..Len(e) : e[i] <= g
             /\ \A i \in 1..Len(t) : \A j \in 1..Len(e) : t[i] <= e[j]
<1> DEFINE e == Append(k, g)
<1>1. /\ e \in Seq(Versions) /\ e # <<>> /\ Len(e) = Len(k) + 1 /\ Len(k) \in Nat
      /\ e[Len(k) + 1] = g /\ \A i \in 1..Len(k) : e[i] = k[i]
  <2>1. e \in Seq(Versions) /\ Len(e) = Len(k) + 1 /\ Len(k) \in Nat
    OBVIOUS
  <2>2. e # <<>>
    BY <2>1
  <2>3. e[Len(k) + 1] = g /\ \A i \in 1..Len(k) : e[i] = k[i]
    OBVIOUS
  <2> QED BY <2>1, <2>2, <2>3
<1>2. g \in Int
  BY PoolAssumption DEF Versions
<1> HIDE DEF e
<1>3. \A j \in 1..Len(e) : j \in 1..Len(k) \/ j = Len(k) + 1
  BY <1>1
<1>4. \A i, j \in 1..Len(e) : i < j => e[i] <= e[j]
  <2> SUFFICES ASSUME NEW i \in 1..Len(e), NEW j \in 1..Len(e), i < j PROVE e[i] <= e[j]
    OBVIOUS
  <2>1. i \in 1..Len(k)
    BY <1>1
  <2> QED BY <1>1, <1>3, <2>1
<1>5. \A i \in 1..Len(e) : e[i] <= g
  BY <1>1, <1>2, <1>3
<1>6. \A i \in 1..Len(t) : \A j \in 1..Len(e) : t[i] <= e[j]
  BY <1>1, <1>3
<1> QED BY <1>1, <1>4, <1>5, <1>6 DEF e

\* A token more, and the call goes on or is complete.
LEMMA SpanToken ==
  ASSUME NEW r \in Requests, NEW v \in Int, NEW ver, NEW g \in Versions, SpanOf(r, v, ver), r.st = "gen",
         g = ver[r.srv], v <= g, NEW q \in Requests,
         q.tokens = r.tokens, q.lo = r.lo, q.chunk = Append(r.chunk, g), q.srv = r.srv,
         q.st = "gen" \/ (q.st = "back" /\ q.gs = g /\ q.stop = "completed")
  PROVE  SpanOf(q, v, ver) /\ (SharpOf(r, ver) => SharpOf(q, ver))
<1> DEFINE t == r.tokens
           k == r.chunk
           e == q.chunk
<1>0. t \in Seq(Versions) /\ k \in Seq(Versions) /\ r.lo \in Int /\ g \in Int /\ g # NoVersion
      /\ \A i \in 1..Len(t) : t[i] \in Int
  <2>1. t \in Seq(Versions) /\ k \in Seq(Versions)
    BY RequestIs
  <2>2. r.lo \in Int /\ \A i \in 1..Len(t) : t[i] \in Int
    BY SpanFields
  <2>3. g \in Int /\ g # NoVersion
    BY PoolAssumption DEF Versions, NoVersion
  <2> QED BY <2>1, <2>2, <2>3
<1>1. /\ \A i, j \in 1..Len(k) : i < j => k[i] <= k[j]
      /\ \A i \in 1..Len(k) : k[i] <= g
      /\ \A i \in 1..Len(t) : \A j \in 1..Len(k) : t[i] <= k[j]
      /\ r.lo <= v /\ \A i \in 1..Len(t) : t[i] <= v
  BY DEF SpanOf
<1>2. r.lo <= g /\ \A i \in 1..Len(t) : t[i] <= g
  BY <1>0, <1>1
<1>3. e = Append(k, g)
  OBVIOUS
<1> HIDE DEF t, k, e
<1>4. /\ e \in Seq(Versions) /\ e # <<>> /\ Len(e) = Len(k) + 1
      /\ \A i \in 1..Len(k) : e[i] = k[i]
      /\ e[Len(k) + 1] = g
      /\ \A i, j \in 1..Len(e) : i < j => e[i] <= e[j]
      /\ \A i \in 1..Len(e) : e[i] <= g
      /\ \A i \in 1..Len(t) : \A j \in 1..Len(e) : t[i] <= e[j]
  BY ONLY <1>0, <1>1, <1>2, <1>3, Grown
<1>5. SpanOf(q, v, ver)
  <2>1. /\ \A i, j \in 1..Len(q.chunk) : i < j => q.chunk[i] <= q.chunk[j]
        /\ \A i \in 1..Len(q.chunk) : q.chunk[i] <= g
        /\ \A i \in 1..Len(q.tokens) : \A j \in 1..Len(q.chunk) : q.tokens[i] <= q.chunk[j]
        /\ q.chunk # <<>> /\ q.lo <= g
    BY <1>2, <1>4 DEF t, k, e
  <2> QED BY <1>0, <2>1 DEF SpanOf
<1>6. ASSUME SharpOf(r, ver) PROVE SharpOf(q, ver)
  <2>1. \A i \in 1..Len(k) : k[i] = g
    BY <1>6 DEF SharpOf, k
  <2>2. \A i \in 1..Len(e) : i \in 1..Len(k) \/ i = Len(k) + 1
    <3>1. Len(k) \in Nat
      BY <1>0
    <3> QED BY <1>4, <3>1
  <2>3. \A i \in 1..Len(q.chunk) : q.chunk[i] = g
    BY <1>4, <2>1, <2>2 DEF e
  <2> QED BY <1>6, <2>3 DEF SharpOf
<1> QED BY <1>5, <1>6

\* What an interrupted call has produced comes back.
LEMMA SpanBack ==
  ASSUME NEW r \in Requests, NEW v \in Int, 0 <= v, NEW ver, SpanOf(r, v, ver), r.st = "gen",
         NEW q \in Requests, q.st = "back", q.tokens = r.tokens, q.lo = r.lo, q.chunk = r.chunk,
         q.stop = "aborted", ver[r.srv] = v,
         q.gs = v \/ (q.gs = NoVersion /\ r.chunk = <<>>)
  PROVE  SpanOf(q, v, ver) /\ (SharpOf(r, ver) => SharpOf(q, ver))
<1>1. v # NoVersion /\ NoVersion <= v
  BY DEF NoVersion
<1> QED BY <1>1 DEF SpanOf, SharpOf

\* Two ascending pieces of an answer, none of the first above the second.
LEMMA Ascending ==
  ASSUME NEW t \in Seq(Versions), NEW k \in Seq(Versions), NEW g \in Int,
         \A i, j \in 1..Len(t) : i < j => t[i] <= t[j],
         \A i, j \in 1..Len(k) : i < j => k[i] <= k[j],
         \A i \in 1..Len(t) : \A j \in 1..Len(k) : t[i] <= k[j],
         \A i \in 1..Len(k) : k[i] <= g
  PROVE  /\ Len(t \o k) = Len(t) + Len(k) /\ t \o k \in Seq(Versions)
         /\ \A i, j \in 1..Len(t \o k) : i < j => (t \o k)[i] <= (t \o k)[j]
         /\ \A w \in Int : g <= w /\ (\A i \in 1..Len(t) : t[i] <= w) =>
               \A i \in 1..Len(t \o k) : (t \o k)[i] <= w
         /\ k # <<>> => t \o k # <<>> /\ (t \o k)[Len(t \o k)] <= g
         /\ t # <<>> => (t \o k)[1] = t[1]
         /\ t = <<>> /\ k # <<>> => (t \o k)[1] = k[1]
<1> DEFINE n == Len(t)
           m == Len(k)
           u == t \o k
<1>0. n \in Nat /\ m \in Nat /\ (t = <<>> <=> n = 0) /\ (k = <<>> <=> m = 0)
  OBVIOUS
<1>1. /\ u \in Seq(Versions) /\ Len(u) = n + m
      /\ \A i \in 1..n : u[i] = t[i]
      /\ \A i \in 1..m : u[n + i] = k[i]
  BY ConcatIs
<1>2. (\A i \in 1..n : t[i] \in Int) /\ \A i \in 1..m : k[i] \in Int
  <2>1. (\A i \in 1..n : t[i] \in Versions) /\ \A i \in 1..m : k[i] \in Versions
    OBVIOUS
  <2> QED BY <2>1, VersionsAre
<1>3. /\ \A i, j \in 1..n : i < j => t[i] <= t[j]
      /\ \A i, j \in 1..m : i < j => k[i] <= k[j]
      /\ \A i \in 1..n : \A j \in 1..m : t[i] <= k[j]
      /\ \A i \in 1..m : k[i] <= g
  OBVIOUS
<1>12. u # <<>> <=> Len(u) # 0
  BY <1>1
<1> HIDE DEF n, m, u
<1>4. ASSUME NEW i \in 1..(n + m), i > n PROVE i - n \in 1..m /\ u[i] = k[i - n]
  <2>1. i - n \in 1..m /\ i = n + (i - n)
    BY <1>0, <1>4
  <2> QED BY <1>1, <2>1
<1>5. ASSUME NEW i \in 1..(n + m), i <= n PROVE u[i] = t[i] /\ i \in 1..n
  BY <1>0, <1>1, <1>5
<1>6. ASSUME NEW w \in Int, g <= w, \A i \in 1..n : t[i] <= w, NEW i \in 1..(n + m) PROVE u[i] <= w
  <2>1. CASE i <= n
    BY <1>5, <1>6, <2>1
  <2>2. CASE i > n
    <3>1. u[i] = k[i - n] /\ k[i - n] <= g /\ k[i - n] \in Int
      BY <1>2, <1>3, <1>4, <2>2
    <3> QED BY <1>6, <3>1
  <2> QED BY <1>0, <2>1, <2>2
<1>7. ASSUME NEW i \in 1..(n + m), NEW j \in 1..(n + m), i < j PROVE u[i] <= u[j]
  <2>1. CASE j <= n
    <3>1. i <= n
      BY <1>0, <1>7, <2>1
    <3> QED BY <1>3, <1>5, <1>7, <2>1, <3>1
  <2>2. CASE j > n /\ i <= n
    BY <1>3, <1>4, <1>5, <2>2
  <2>3. CASE j > n /\ i > n
    <3>1. i - n < j - n
      BY <1>0, <1>7
    <3> QED BY <1>3, <1>4, <2>3, <3>1
  <2> QED BY <1>0, <2>1, <2>2, <2>3
<1>8. m # 0 => u[n + m] <= g
  <2> SUFFICES ASSUME m # 0 PROVE u[n + m] <= g
    OBVIOUS
  <2>1. n + m \in 1..(n + m) /\ n + m > n /\ (n + m) - n = m /\ m \in 1..m
    BY <1>0
  <2> QED BY <1>3, <1>4, <2>1
<1>9. n # 0 => u[1] = t[1]
  BY <1>0, <1>5
<1>10. n = 0 /\ m # 0 => u[1] = k[1]
  <2> SUFFICES ASSUME n = 0, m # 0 PROVE u[1] = k[1]
    OBVIOUS
  <2>1. 1 \in 1..(n + m) /\ 1 > n /\ 1 - n = 1
    BY <1>0
  <2> QED BY <1>4, <2>1
<1>11. /\ \A i, j \in 1..Len(u) : i < j => u[i] <= u[j]
       /\ \A w \in Int : g <= w /\ (\A i \in 1..n : t[i] <= w) => \A i \in 1..Len(u) : u[i] <= w
       /\ k # <<>> => u # <<>> /\ u[Len(u)] <= g
       /\ t # <<>> => u[1] = t[1]
       /\ t = <<>> /\ k # <<>> => u[1] = k[1]
  BY <1>0, <1>1, <1>6, <1>7, <1>8, <1>9, <1>10, <1>12
<1> QED BY <1>1, <1>11 DEF n, m, u

\* The output is merged with what the request had before.
LEMMA SpanMerge ==
  ASSUME NEW r \in Requests, NEW v \in Int, NEW ver, SpanOf(r, v, ver), r.st = "back", NEW q \in Requests,
         q.st \in {"new", "done"}, q.st = "done" \/ r.stop = "aborted",
         q.tokens = r.tokens \o r.chunk, q.stop = r.stop,
         q.lo = (IF r.lo = NoVersion THEN r.gs ELSE r.lo), q.hi = r.gs
  PROVE  SpanOf(q, v, ver) /\ (SharpOf(r, ver) => SharpOf(q, ver))
<1>0. /\ r.tokens \in Seq(Versions) /\ r.chunk \in Seq(Versions) /\ r.gs \in Int /\ r.lo \in Int
  BY RequestIs, SpanFields
<1>2. /\ \A i, k \in 1..Len(r.tokens) : i < k => r.tokens[i] <= r.tokens[k]
      /\ \A i, k \in 1..Len(r.chunk) : i < k => r.chunk[i] <= r.chunk[k]
      /\ \A i \in 1..Len(r.tokens) : \A k \in 1..Len(r.chunk) : r.tokens[i] <= r.chunk[k]
      /\ r.lo <= v /\ \A i \in 1..Len(r.tokens) : r.tokens[i] <= v
      /\ r.gs = NoVersion => r.chunk = <<>> /\ r.stop = "aborted"
      /\ r.gs # NoVersion => r.lo <= r.gs /\ \A i \in 1..Len(r.chunk) : r.chunk[i] <= r.gs
      /\ r.stop = "aborted" => r.gs <= v
      /\ r.stop = "completed" => r.chunk # <<>>
  BY DEF SpanOf
<1>3. CASE r.gs = NoVersion
  <2>1. q.lo = r.lo /\ q.stop # "completed" /\ r.chunk = <<>>
    BY <1>2, <1>3
  <2>2. \A x \in Seq(Versions) : x \o <<>> = x
    OBVIOUS
  <2>3. q.tokens = r.tokens
    BY <1>0, <2>1, <2>2
  <2>4. SpanOf(q, v, ver)
    BY <1>2, <2>1, <2>3 DEF SpanOf
  <2> QED BY <2>1, <2>3, <2>4 DEF SharpOf
<1>4. CASE r.gs # NoVersion
  <2>1. /\ q.tokens \in Seq(Versions)
        /\ \A i, j \in 1..Len(q.tokens) : i < j => q.tokens[i] <= q.tokens[j]
        /\ \A w \in Int : r.gs <= w /\ (\A i \in 1..Len(r.tokens) : r.tokens[i] <= w) =>
              \A i \in 1..Len(q.tokens) : q.tokens[i] <= w
        /\ r.chunk # <<>> => q.tokens # <<>> /\ q.tokens[Len(q.tokens)] <= r.gs
        /\ r.tokens # <<>> => q.tokens[1] = r.tokens[1]
        /\ r.tokens = <<>> /\ r.chunk # <<>> => q.tokens[1] = r.chunk[1]
    <3> DEFINE t == r.tokens
               k == r.chunk
               g == r.gs
    <3>2. /\ t \in Seq(Versions) /\ k \in Seq(Versions) /\ g \in Int
          /\ \A i, j \in 1..Len(t) : i < j => t[i] <= t[j]
          /\ \A i, j \in 1..Len(k) : i < j => k[i] <= k[j]
          /\ \A i \in 1..Len(t) : \A j \in 1..Len(k) : t[i] <= k[j]
          /\ \A i \in 1..Len(k) : k[i] <= g
      BY <1>0, <1>2, <1>4
    <3>3. q.tokens = t \o k
      OBVIOUS
    <3> HIDE DEF t, k, g
    <3>4. /\ t \o k \in Seq(Versions)
          /\ \A i, j \in 1..Len(t \o k) : i < j => (t \o k)[i] <= (t \o k)[j]
          /\ \A w \in Int : g <= w /\ (\A i \in 1..Len(t) : t[i] <= w) =>
                \A i \in 1..Len(t \o k) : (t \o k)[i] <= w
          /\ k # <<>> => t \o k # <<>> /\ (t \o k)[Len(t \o k)] <= g
          /\ t # <<>> => (t \o k)[1] = t[1]
          /\ t = <<>> /\ k # <<>> => (t \o k)[1] = k[1]
      BY ONLY <3>2, Ascending
    <3> QED BY ONLY <3>3, <3>4 DEF t, k, g
  <2>2. q.st # "done" => q.lo <= v /\ \A i \in 1..Len(q.tokens) : q.tokens[i] <= v
    <3> SUFFICES ASSUME q.st # "done" PROVE q.lo <= v /\ \A i \in 1..Len(q.tokens) : q.tokens[i] <= v
      OBVIOUS
    <3>1. r.gs <= v
      BY <1>2
    <3> QED BY <1>2, <2>1, <3>1
  <2>3. SpanOf(q, v, ver)
    <3>1. q.stop = "completed" => q.tokens # <<>> /\ q.tokens[Len(q.tokens)] <= q.hi
      BY <1>2, <2>1
    <3> QED BY <2>1, <2>2, <3>1 DEF SpanOf
  <2>4. ASSUME SharpOf(r, ver) PROVE SharpOf(q, ver)
    <3>1. /\ r.tokens # <<>> => r.lo # NoVersion /\ r.lo <= r.tokens[1]
          /\ \A i \in 1..Len(r.chunk) : r.chunk[i] = r.gs
      BY <1>4, <2>4 DEF SharpOf
    <3>2. q.lo # NoVersion /\ q.lo <= r.gs
      BY <1>0, <1>2, <1>4
    <3>3. CASE r.tokens # <<>>
      <4>1. q.lo = r.lo /\ q.tokens[1] = r.tokens[1]
        BY <2>1, <3>1, <3>3
      <4> QED BY <3>1, <3>2, <3>3, <4>1 DEF SharpOf
    <3>4. CASE r.tokens = <<>> /\ r.chunk # <<>>
      <4>1. 1 \in 1..Len(r.chunk)
        BY <1>0, <3>4
      <4>2. q.tokens[1] = r.gs
        BY <2>1, <3>1, <3>4, <4>1
      <4> QED BY <3>2, <4>2 DEF SharpOf
    <3>5. CASE r.tokens = <<>> /\ r.chunk = <<>>
      <4>1. q.tokens = <<>>
        BY <3>5
      <4> QED BY <4>1 DEF SharpOf
    <3> QED BY <3>3, <3>4, <3>5
  <2> QED BY <2>3, <2>4
<1> QED BY <1>3, <1>4

\* No awake server has weights older than Low.
LEMMA LowIs ==
  ASSUME Routing
  PROVE  /\ Low \in Int /\ 0 <= Low
         /\ \A s \in Servers : ~asleep[s] => Low <= version[s] /\ version[s] \in Versions
<1>0. /\ current \in Nat /\ (at # 0 => current > 0) /\ PhaseAlone /\ PhaseHybrid
      /\ version \in [Servers -> Versions] /\ Versions \subseteq Int
  BY PoolAssumption DEF Routing, Phase, PhasePool, TypeOK, Versions
<1>1. Low \in Int /\ 0 <= Low
  BY <1>0 DEF Low
<1>2. ASSUME NEW s \in Servers, ~asleep[s] PROVE Low <= version[s] /\ version[s] \in Versions
  <2>1. CASE s \in Alone
    BY <1>0, <1>2, <2>1 DEF PhaseAlone, Low
  <2>2. CASE s \in Hybrids
    <3>1. version[s] = current
      BY <1>0, <1>2, <2>2 DEF PhaseHybrid
    <3> QED BY <1>0, <3>1 DEF Low
  <2> QED BY <2>1, <2>2, ServersAre
<1> QED BY <1>1, <1>2

\* A client's step keeps the versions of the answers.
LEMMA ClientSpan == ASSUME Routing, Span, Sharp, NEW c \in Clients, Client(c) PROVE Span' /\ Sharp'
<1>0. TypeOK /\ CacheKeys /\ PhasePool /\ Hold /\ req \in [Clients -> Requests] /\ req[c] \in Requests
  BY DEF Routing, Phase, TypeOK
<1>1. UNCHANGED <<version, lost>> /\ Low' = Low /\ TypeOK'
  <2>1. UNCHANGED <<current, at, version, lost>> /\ TypeOK'
    BY <1>0, ClientType
  <2> QED BY <2>1 DEF Low
<1>2. Low \in Int /\ 0 <= Low /\ -1 <= Low
  BY LowIs
<1>3. \A d \in Clients \ {c} : req'[d] = req[d]
  BY <1>0, ClientCall
<1>4. SpanOf(req[c], Low, version) /\ req'[c] \in Requests
  BY <1>1 DEF Span, TypeOK
<1>5. SUFFICES SpanOf(req'[c], Low, version) /\ (SharpOf(req[c], version) => SharpOf(req'[c], version))
  <2>1. Span'
    BY <1>1, <1>3, <1>5 DEF Span
  <2>2. Sharp'
    BY <1>1, <1>3, <1>5 DEF Sharp
  <2> QED BY <2>1, <2>2
<1>6. CASE Acquire(c)
  <2>1. PICK s \in pool : req'[c] = [req[c] EXCEPT !.st = "call", !.srv = s]
    BY <1>0, <1>6, AcquireReq
  <2>2. req'[c].st = "call" /\ req'[c].tokens = req[c].tokens /\ req'[c].lo = req[c].lo
    BY <1>0, <2>1 DEF Requests
  <2>3. req[c].st = "new"
    BY <1>6 DEF Acquire
  <2> QED BY <1>0, <1>4, <2>2, <2>3, SpanCall
<1>7. CASE Release(c)
  BY <1>4, <1>7 DEF Release
<1>8. CASE Enter(c)
  <2>1. PICK n \in Nat : req'[c] = [req[c] EXCEPT !.st = "gen", !.chunk = <<>>, !.limit = n]
    BY <1>0, <1>8, EnterReq
  <2>2. req'[c].st = "gen" /\ req'[c].tokens = req[c].tokens /\ req'[c].lo = req[c].lo /\ req'[c].chunk = <<>>
    BY <1>0, <2>1 DEF Requests
  <2>3. req[c].st = "call"
    BY <1>8 DEF Enter
  <2> QED BY <1>0, <1>4, <2>2, <2>3, SpanEnter
<1>9. CASE EnterRaises(c) \/ CutOff(c)
  <2>1. req'[c].st = "failed" /\ req'[c].tokens = <<>> /\ req'[c].lo = NoVersion
    BY <1>0, <1>9, RaiseReq
  <2> QED BY <1>2, <1>4, <2>1, SpanRaise
<1>10. CASE Token(c)
  <2>1. req[c].st = "gen" /\ ~asleep[req[c].srv]
    BY <1>10 DEF Token
  <2>a. req[c].srv \in Servers
    BY <1>0, <2>1 DEF Hold
  <2>2. Low <= version[req[c].srv] /\ version[req[c].srv] \in Versions
    BY <2>1, <2>a, LowIs
  <2>b. PICK g \in Versions : g = version[req[c].srv]
    BY <2>2
  <2> DEFINE k == Append(req[c].chunk, g)
  <2>3. \/ req'[c] = [req[c] EXCEPT !.chunk = k]
        \/ req'[c] = [req[c] EXCEPT !.chunk = k, !.st = "back", !.stop = "completed", !.gs = g]
    BY <1>0, <1>10, <2>a, <2>b, TokenReq
  <2> HIDE DEF k
  <2>4. /\ req'[c].tokens = req[c].tokens /\ req'[c].lo = req[c].lo
        /\ req'[c].chunk = k /\ req'[c].srv = req[c].srv
        /\ req'[c].st = "gen" \/ (req'[c].st = "back" /\ req'[c].gs = g /\ req'[c].stop = "completed")
    BY <1>0, <2>1, <2>3 DEF Requests
  <2>5. Low <= g
    BY <2>2, <2>b
  <2> QED BY <1>0, <1>2, <1>4, <2>1, <2>b, <2>4, <2>5, SpanToken DEF k
<1>11. CASE Return(c)
  <2>1. req[c].st = "back"
    BY <1>11 DEF Return
  <2>2. /\ req'[c].st \in {"new", "done"} /\ (req'[c].st = "done" \/ req[c].stop = "aborted")
        /\ req'[c].tokens = req[c].tokens \o req[c].chunk /\ req'[c].stop = req[c].stop
        /\ req'[c].lo = (IF req[c].lo = NoVersion THEN req[c].gs ELSE req[c].lo)
        /\ req'[c].hi = req[c].gs
    BY <1>0, <1>11, ReturnReq
  <2> QED BY <1>0, <1>2, <1>4, <2>1, <2>2, SpanMerge
<1> QED BY <1>6, <1>7, <1>8, <1>9, <1>10, <1>11 DEF Client

\* The trainer's step makes no weights older.
LEMMA WeightsGrow ==
  ASSUME Routing, Trainer, Routing'
  PROVE  /\ Low' \in Int /\ Low <= Low' /\ version' \in [Servers -> Versions]
         /\ \A s \in Servers : version[s] <= version'[s]
         /\ "abort" \notin lost /\ version' # version =>
               \E t \in Servers : /\ version' = [version EXCEPT ![t] = current]
                                  /\ paused[t] \/ asleep[t]
<1>0. /\ TypeOK /\ PhasePool /\ PhaseAlone /\ PhaseHybrid /\ current \in Int
      /\ version \in [Servers -> Versions] /\ version' \in [Servers -> Versions] /\ at \in 0..16
  <2>1. TypeOK /\ TypeOK' /\ PhasePool /\ PhaseAlone /\ PhaseHybrid
    BY DEF Routing, Phase
  <2>2. current \in Int
    BY <2>1, VersionsAre DEF TypeOK
  <2>3. version \in [Servers -> Versions] /\ at \in 0..16
    BY <2>1, ScriptIs DEF TypeOK
  <2>4. version' \in [Servers -> Versions]
    BY <2>1 DEF TypeOK
  <2> QED BY <2>1, <2>2, <2>3, <2>4
<1>1. \/ at = 0 /\ at' = 1 /\ current' = current + 1
      \/ at \in 1..16 /\ current' = current /\ (at' = at \/ at' = at + 1 \/ (at' = 0 /\ at \in {3, 16}))
  BY <1>0, TrainerAt
<1>2. Low' \in Int /\ Low <= Low'
  BY <1>0, <1>1 DEF Low
<1>3. ASSUME NEW s \in Servers PROVE version[s] <= current /\ version[s] <= version[s]
  <2>1. version[s] \in Int /\ version[s] <= version[s]
    BY <1>0, VersionsAre
  <2>2. CASE s \in Alone
    <3>1. version[s] = current - 1 \/ version[s] = current
      BY <1>0, <2>2 DEF PhaseAlone
    <3> QED BY <1>0, <2>1, <3>1
  <2>3. CASE s \in Hybrids
    BY <1>0, <2>1, <2>3 DEF PhaseHybrid
  <2> QED BY <2>2, <2>3, ServersAre
<1>4. CASE version' = version
  BY <1>0, <1>2, <1>3, <1>4
<1>5. CASE version' # version
  <2>1. \E t \in Servers : Load(t)
    BY <1>5 DEF Trainer, StartSync, AddServers, RemoveServers, Validate, Abort, AbortFails, Resume, Sleep,
                srvVars
  <2>2. PICK t \in Servers : Load(t)
    BY <2>1
  <2>3. version' = [version EXCEPT ![t] = current] /\ at # 0 /\ t \in todo /\ Op = "load"
    BY <2>2 DEF Load
  <2>4. at \in {2, 4} /\ t \in Group(at)
    BY <1>0, <2>3, OpIs DEF PhasePool
  <2>5. \A s \in Servers : version[s] <= version'[s]
    BY <1>0, <1>3, <2>3
  <2>6. "abort" \notin lost => paused[t] \/ asleep[t]
    BY <1>0, <2>3, <2>4, GroupIs DEF PhaseAlone, PhaseHybrid
  <2> QED BY <1>0, <1>2, <2>3, <2>5, <2>6
<1> QED BY <1>4, <1>5

\* What an interrupted server has produced is as old as any server's weights.
LEMMA AbortVersion == ASSUME Routing, NEW s \in Servers, Abort(s) PROVE version[s] = Low
<1>0. /\ PhasePool /\ PhaseAlone /\ PhaseHybrid /\ at \in 0..16
  BY ScriptIs DEF Routing, Phase, TypeOK
<1>1. at # 0 /\ s \in todo /\ Op = "abort"
  BY DEF Abort
<1>2. at \in {1, 5, 6, 11, 12} /\ s \in Group(at)
  BY <1>0, <1>1, OpIs DEF PhasePool
<1>3. CASE s \in Alone
  <2>1. at \in {1, 5, 11}
    BY <1>2, <1>3, GroupIs, ServersAre
  <2> QED BY <1>0, <1>3, <2>1 DEF PhaseAlone, Low
<1>4. CASE s \in Hybrids
  <2>1. at \in {6, 12}
    BY <1>2, <1>4, GroupIs, ServersAre
  <2> QED BY <1>0, <1>4, <2>1 DEF PhaseHybrid, Low
<1> QED BY <1>3, <1>4, ServersAre

\* The trainer's step keeps the versions of the answers.
LEMMA TrainerSpan == ASSUME Routing, Span, Sharp, Trainer PROVE Span' /\ Sharp'
<1>0. /\ TypeOK /\ CacheKeys /\ PhasePool /\ req \in [Clients -> Requests] /\ Routing'
      /\ version \in [Servers -> Versions] /\ lost \subseteq lost' /\ Hold /\ Quiet
  BY TrainerRouting, TrainerType DEF Routing, Phase, TypeOK
<1>1. /\ Low' \in Int /\ Low <= Low' /\ version' \in [Servers -> Versions]
      /\ \A s \in Servers : version[s] <= version'[s]
      /\ "abort" \notin lost /\ version' # version =>
            \E t \in Servers : version' = [version EXCEPT ![t] = current] /\ (paused[t] \/ asleep[t])
  BY <1>0, WeightsGrow
<1>2. \A c \in Clients : req'[c] \in Requests /\ (req'[c].st = "gen" => req'[c].srv \in Servers)
  BY <1>0 DEF Routing, TypeOK, Hold
<1>6. Low \in Int /\ 0 <= Low
  BY LowIs
<1>3. ASSUME NEW c \in Clients
      PROVE  /\ SpanOf(req'[c], Low, version)
             /\ SharpOf(req[c], version) => SharpOf(req'[c], version)
             /\ req'[c].st = "gen" => req'[c] = req[c]
  <2>1. SpanOf(req[c], Low, version)
    BY DEF Span
  <2>2. CASE req'[c] = req[c]
    BY <2>1, <2>2
  <2>3. CASE req'[c] # req[c]
    <3>1. \E s \in Servers : Abort(s)
      BY <2>3 DEF Trainer, StartSync, AddServers, RemoveServers, Validate, AbortFails, Resume, Load, Sleep
    <3>2. PICK s \in Servers : Abort(s)
      BY <3>1
    <3>3. req[c].st = "gen" /\ req[c].srv = s
      BY <1>0, <2>3, <3>2, AbortReq
    <3>4. version[s] = Low
      BY <3>2, AbortVersion
    <3>5. PICK g \in {NoVersion, version[s]} :
             /\ req'[c] = [req[c] EXCEPT !.st = "back", !.stop = "aborted", !.gs = g]
             /\ g = version[s] \/ req[c].chunk = <<>>
      BY <1>0, <3>2, <3>3, AbortReq
    <3>6. /\ req'[c].st = "back" /\ req'[c].tokens = req[c].tokens /\ req'[c].lo = req[c].lo
          /\ req'[c].chunk = req[c].chunk /\ req'[c].gs = g /\ req'[c].stop = "aborted"
      BY <1>0, <3>5 DEF Requests
    <3>7. req[c] \in Requests /\ req'[c] \in Requests
      BY <1>0, <1>2
    <3>8. req'[c].gs = Low \/ (req'[c].gs = NoVersion /\ req[c].chunk = <<>>)
      BY <3>4, <3>5, <3>6
    <3>9. version[req[c].srv] = Low
      BY <3>3, <3>4
    <3>10. SpanOf(req'[c], Low, version) /\ (SharpOf(req[c], version) => SharpOf(req'[c], version))
      BY <1>6, <2>1, <3>3, <3>6, <3>7, <3>8, <3>9, SpanBack
    <3> QED BY <3>6, <3>10
  <2> QED BY <2>2, <2>3
<1>4. Span'
  <2> SUFFICES ASSUME NEW c \in Clients PROVE SpanOf(req'[c], Low', version')
    BY DEF Span
  <2>1. SpanOf(req'[c], Low, version) /\ req'[c] \in Requests /\ (req'[c].st = "gen" => req'[c].srv \in Servers)
    BY <1>2, <1>3
  <2> QED BY <1>0, <1>1, <1>6, <2>1, SpanLater
<1>5. Sharp'
  <2> SUFFICES ASSUME "abort" \notin lost', NEW c \in Clients PROVE SharpOf(req'[c], version')
    BY DEF Sharp
  <2>0. "abort" \notin lost
    BY <1>0
  <2>1. SharpOf(req'[c], version)
    BY <1>3, <2>0 DEF Sharp
  <2>2. req'[c].st = "gen" => version'[req'[c].srv] = version[req'[c].srv]
    <3> SUFFICES ASSUME req'[c].st = "gen", version' # version
                 PROVE  version'[req'[c].srv] = version[req'[c].srv]
      OBVIOUS
    <3>1. PICK t \in Servers : version' = [version EXCEPT ![t] = current] /\ (paused[t] \/ asleep[t])
      BY <1>1, <2>0
    <3>2. req'[c] = req[c] /\ req[c].srv \in Servers /\ ~paused[req[c].srv] /\ ~asleep[req[c].srv]
      BY <1>0, <1>3, <2>0 DEF Hold, Quiet
    <3>3. req[c].srv # t
      BY <3>1, <3>2
    <3> QED BY <1>0, <3>1, <3>2, <3>3
  <2> QED BY <2>1, <2>2 DEF SharpOf
<1> QED BY <1>4, <1>5

\* The start.
LEMMA InitSpan == Init => Span /\ Sharp
<1> SUFFICES ASSUME Init, NEW c \in Clients PROVE SpanOf(req[c], Low, version) /\ SharpOf(req[c], version)
  BY DEF Span, Sharp
<1>1. req[c] = Fresh /\ Low = 0
  BY DEF Init, Idle, Low
<1>2. Fresh.tokens = <<>> /\ Fresh.st = "new" /\ Fresh.lo = -1
  BY DEF Fresh, NoVersion
<1> QED BY <1>1, <1>2 DEF SpanOf, SharpOf

\* Every step keeps the versions of the answers.
LEMMA StepSpan == Routing /\ Span /\ Sharp /\ [Next]_vars => Span' /\ Sharp'
<1> SUFFICES ASSUME Routing, Span, Sharp, [Next]_vars PROVE Span' /\ Sharp'
  OBVIOUS
<1>1. CASE UNCHANGED vars
  BY <1>1 DEF vars, Span, Sharp, Low
<1> QED BY <1>1, ClientSpan, TrainerSpan DEF Next

\* However often an answer is interrupted and resumed with newer weights, and
\* whichever interruption fails, its tokens are of ascending versions and
\* max_global_steps bounds them; min_global_steps does unless one has failed.
THEOREM VersionsEncloseTokens == Spec => []VersionSpan
<1>1. ASSUME Routing, Span, Sharp PROVE VersionSpan
  <2> SUFFICES ASSUME NEW c \in Clients
               PROVE  LET t == req[c].tokens
                      IN  /\ \A i, k \in 1..Len(t) : i < k => t[i] <= t[k]
                          /\ req[c].st = "done" /\ req[c].stop = "completed" =>
                                /\ t # <<>> /\ t[Len(t)] <= req[c].hi
                                /\ "abort" \in lost \/ req[c].lo <= t[1]
    BY DEF VersionSpan
  <2>1. SpanOf(req[c], Low, version)
    BY <1>1 DEF Span
  <2>2. "abort" \notin lost => SharpOf(req[c], version)
    BY <1>1 DEF Sharp
  <2> QED BY <2>1, <2>2 DEF SpanOf, SharpOf
<1> QED BY <1>1, InitRouting, StepRouting, InitSpan, StepSpan, PTL DEF Spec

-----------------------------------------------------------------------------
(* The routing of one conversation.                                        *)

\* The entry of a conversation, and only conversations of S behind it.
Behind(q, c, s, S) ==
    \E i \in 1..Len(q) : /\ q[i].id = c /\ q[i].srv = s
                         /\ \A k \in 1..Len(q) : k > i => q[k].id \in S

\* A conversation's entry is only overtaken by the conversations routed since,
\* and lost when these fill the cache.
Remembered(c) ==
    hist[c] # NoHist =>
        \/ Behind(cache, c, hist[c].srv, hist[c].since)
        \/ Cardinality(hist[c].since) >= CacheSize

Lru ==
    /\ hist \in [Clients -> [srv : Servers \cup {NoServer}, since : SUBSET Clients]]
    /\ \A c \in Clients : Remembered(c)

\* Another conversation's entry is taken out: the order of the rest stays.
LEMMA BehindWithout ==
  ASSUME cache \in Seq(Entry), CacheKeys, NEW c \in Clients, NEW d \in Clients, c # d,
         NEW s, NEW S, Behind(cache, d, s, S)
  PROVE  Behind(Without(c), d, s, S)
<1> DEFINE w == Without(c)
           p == Position(c)
<1>0. Len(cache) \in Nat
  OBVIOUS
<1>1. /\ w \in Seq(Entry)
      /\ Cached(c) # {} => Len(w) = Len(cache) - 1 /\ p \in Cached(c)
      /\ Cached(c) # {} =>
            \A i \in 1..Len(w) : w[i] = IF i <= p - 1 THEN cache[i] ELSE cache[i + 1]
  BY WithoutIs
<1>2. PICK i \in 1..Len(cache) : /\ cache[i].id = d /\ cache[i].srv = s
                                 /\ \A k \in 1..Len(cache) : k > i => cache[k].id \in S
  BY DEF Behind
<1>3. CASE Cached(c) = {}
  BY <1>3 DEF Without
<1>4. CASE Cached(c) # {}
  <2>1. p \in 1..Len(cache) /\ cache[p].id = c /\ i # p
    BY <1>1, <1>2, <1>4 DEF Cached
  <2>2. Len(w) = Len(cache) - 1 /\ \A k \in 1..Len(w) : w[k] = IF k <= p - 1 THEN cache[k] ELSE cache[k + 1]
    BY <1>1, <1>4
  <2> HIDE DEF w, p
  <2>3. PICK j \in 1..Len(w) : j = IF i <= p - 1 THEN i ELSE i - 1
    BY <1>0, <1>2, <2>1, <2>2
  <2>4. w[j] = cache[i]
    BY <1>0, <1>2, <2>1, <2>2, <2>3
  <2>5. ASSUME NEW k \in 1..Len(w), k > j PROVE w[k].id \in S
    <3>1. PICK m \in 1..Len(cache) : m = IF k <= p - 1 THEN k ELSE k + 1
      BY <1>0, <2>1, <2>2
    <3>2. w[k] = cache[m] /\ m > i
      BY <1>0, <1>2, <2>1, <2>2, <2>3, <2>5, <3>1
    <3> QED BY <1>2, <3>1, <3>2
  <2>6. Behind(w, d, s, S)
    BY <1>2, <2>4, <2>5 DEF Behind
  <2> QED BY <2>6 DEF w
<1> QED BY <1>3, <1>4

\* The least recently used entry, of another conversation, is taken out.
LEMMA BehindTail ==
  ASSUME NEW q \in Seq(Entry), q # <<>>, NEW d \in Clients, NEW s, NEW S, Behind(q, d, s, S), q[1].id # d
  PROVE  Behind(Tail(q), d, s, S)
<1>1. PICK i \in 1..Len(q) : /\ q[i].id = d /\ q[i].srv = s
                             /\ \A k \in 1..Len(q) : k > i => q[k].id \in S
  BY DEF Behind
<1> DEFINE w == Tail(q)
<1>2. Len(q) \in Nat /\ Len(w) = Len(q) - 1 /\ \A k \in 1..Len(w) : w[k] = q[k + 1]
  OBVIOUS
<1> HIDE DEF w
<1>3. i # 1
  BY <1>1
<1>4. PICK j \in 1..Len(w) : i = j + 1
  <2>1. i - 1 \in 1..Len(w) /\ i = (i - 1) + 1
    BY <1>1, <1>2, <1>3
  <2> QED BY <2>1
<1>5. \A k \in 1..Len(w) : k + 1 \in 1..Len(q) /\ (k > j => k + 1 > i)
  BY <1>2, <1>4
<1>6. Behind(w, d, s, S)
  BY <1>1, <1>2, <1>4, <1>5 DEF Behind
<1> QED BY <1>6 DEF w

\* A new entry behind.
LEMMA BehindAppend ==
  ASSUME NEW q \in Seq(Entry), NEW x \in Entry, NEW d, NEW s, NEW S, Behind(q, d, s, S)
  PROVE  Behind(Append(q, x), d, s, S \cup {x.id})
<1>1. PICK i \in 1..Len(q) : /\ q[i].id = d /\ q[i].srv = s
                             /\ \A k \in 1..Len(q) : k > i => q[k].id \in S
  BY DEF Behind
<1> DEFINE e == Append(q, x)
<1>2. Len(q) \in Nat /\ Len(e) = Len(q) + 1 /\ e[Len(q) + 1] = x /\ \A k \in 1..Len(q) : e[k] = q[k]
  OBVIOUS
<1> HIDE DEF e
<1>3. i \in 1..Len(e) /\ \A k \in 1..Len(e) : k \in 1..Len(q) \/ k = Len(q) + 1
  BY <1>1, <1>2
<1>4. Behind(e, d, s, S \cup {x.id})
  BY <1>1, <1>2, <1>3 DEF Behind
<1> QED BY <1>4 DEF e

\* A full cache loses a conversation only to as many others as it holds.
LEMMA BehindFull ==
  ASSUME NEW q \in Seq(Entry), q # <<>>, NEW c \in Clients, NEW d \in Clients, c # d, NEW s,
         NEW S \in SUBSET Clients, Behind(q, d, s, S), q[1].id = d,
         \A i \in 1..Len(q) : q[i].id # c,
         \A i, k \in 1..Len(q) : q[i].id = q[k].id => i = k
  PROVE  Len(q) <= Cardinality(S \cup {c})
<1>0. Len(q) \in Nat /\ Len(q) > 0
  OBVIOUS
<1>1. PICK i \in 1..Len(q) : q[i].id = d /\ \A k \in 1..Len(q) : k > i => q[k].id \in S
  BY DEF Behind
<1>2. i = 1
  BY <1>0, <1>1
<1> DEFINE f == [k \in 1..Len(q) |-> IF k = 1 THEN c ELSE q[k].id]
<1>3. \A k \in 1..Len(q) : k # 1 => q[k].id \in S
  BY <1>0, <1>1, <1>2
<1>4. f \in [1..Len(q) -> S \cup {c}]
  BY <1>3
<1>5. \A j, k \in 1..Len(q) : f[j] = f[k] => j = k
  OBVIOUS
<1>6. f \in Injection(1..Len(q), S \cup {c})
  BY <1>4, <1>5 DEF Injection, IsInjective
<1>7. IsFiniteSet(S \cup {c})
  <2>1. S \cup {c} \in SUBSET Clients
    OBVIOUS
  <2> QED BY <2>1, ServersAre, FS_Subset
<1>8. Cardinality(1..Len(q)) = Len(q)
  BY <1>0, FS_Interval
<1> HIDE DEF f
<1>9. Cardinality(1..Len(q)) <= Cardinality(S \cup {c})
  BY <1>6, <1>7, FS_Injection
<1> QED BY <1>8, <1>9

\* A routed conversation is remembered, and the others are not forgotten early.
LEMMA AcquireLru ==
  ASSUME TypeOK, CacheKeys, PhasePool, Lru, NEW c \in Clients, Acquire(c)
  PROVE  Lru'
<1> DEFINE s == IF Sticky(c) THEN StickyServer(c) ELSE LeastLoaded
           w == Without(c)
           x == [id |-> c, srv |-> s]
           q == IF ~Sticky(c) /\ Len(w) >= CacheSize THEN Tail(w) ELSE w
<1>1. /\ cache' = Append(q, x) /\ req' = [req EXCEPT ![c].st = "call", ![c].srv = s]
      /\ hist' = [d \in Clients |->
                    IF d = c THEN [srv |-> s, since |-> {}]
                    ELSE IF hist[d] = NoHist THEN NoHist
                    ELSE [hist[d] EXCEPT !.since = @ \cup {c}]]
  BY DEF Acquire, Touched, Stored
<1>2. /\ cache \in Seq(Entry) /\ CacheSize \in Nat \ {0}
      /\ hist \in [Clients -> [srv : Servers \cup {NoServer}, since : SUBSET Clients]]
      /\ req \in [Clients -> Requests] /\ pool \subseteq Servers
  BY PoolAssumption DEF TypeOK, Entry, Lru
<1>3. s \in Servers
  <2>1. PICK t \in pool : req'[c] = [req[c] EXCEPT !.st = "call", !.srv = t]
    BY AcquireReq
  <2>2. req'[c] = [req[c] EXCEPT !.st = "call", !.srv = s] /\ req[c] \in Requests
    BY <1>1, <1>2
  <2> HIDE DEF s
  <2>3. req'[c].srv = t
    BY <2>1, <2>2 DEF Requests
  <2>4. req'[c].srv = s
    BY <2>2 DEF Requests
  <2> QED BY <1>2, <2>3, <2>4
<1>4. /\ w \in Seq(Entry)
      /\ \A i \in 1..Len(w) : w[i].id # c
      /\ \A i, k \in 1..Len(w) : w[i].id = w[k].id => i = k
  BY <1>2, WithoutIs
<1> HIDE DEF s, w
<1>5. x \in Entry /\ x.id = c /\ x.srv = s
  BY <1>3 DEF Entry
<1> HIDE DEF x
<1>6. q \in Seq(Entry) /\ (Len(w) >= CacheSize => w # <<>>)
  <2>1. Len(w) >= CacheSize => w # <<>>
    BY <1>2, <1>4
  <2>2. w # <<>> => Tail(w) \in Seq(Entry)
    BY <1>4
  <2> QED BY <1>4, <2>1, <2>2
<1>7. hist' \in [Clients -> [srv : Servers \cup {NoServer}, since : SUBSET Clients]]
  <2>1. NoHist \in [srv : Servers \cup {NoServer}, since : SUBSET Clients]
    BY DEF NoHist
  <2>2. \A d \in Clients : [hist[d] EXCEPT !.since = @ \cup {c}] \in [srv : Servers \cup {NoServer}, since : SUBSET Clients]
    BY <1>2
  <2> QED BY <1>1, <1>3, <2>1, <2>2
<1>8. ASSUME NEW d \in Clients PROVE Remembered(d)'
  <2>0. (Remembered(d))' = (hist'[d] # NoHist =>
           \/ Behind(cache', d, hist'[d].srv, hist'[d].since)
           \/ Cardinality(hist'[d].since) >= CacheSize)
    BY DEF Remembered, Behind
  <2>1. CASE d = c
    <3>1. hist'[d].srv = s /\ hist'[d].since = {}
      BY <1>1, <2>1
    <3>2. Behind(Append(q, x), c, s, {})
      <4> DEFINE e == Append(q, x)
      <4>1. Len(q) \in Nat /\ Len(e) = Len(q) + 1 /\ e[Len(q) + 1] = x
        BY <1>5, <1>6
      <4> HIDE DEF e
      <4>2. Len(q) + 1 \in 1..Len(e) /\ \A k \in 1..Len(e) : ~(k > Len(q) + 1)
        BY <4>1
      <4>3. Behind(e, c, s, {})
        BY <1>5, <4>1, <4>2 DEF Behind
      <4> QED BY <4>3 DEF e
    <3> QED BY <1>1, <2>0, <2>1, <3>1, <3>2
  <2>2. CASE d # c /\ hist[d] = NoHist
    BY <1>1, <2>0, <2>2
  <2>3. CASE d # c /\ hist[d] # NoHist
    <3> DEFINE S == hist[d].since
               t == hist[d].srv
    <3>1. hist'[d].srv = t /\ hist'[d].since = S \cup {c} /\ S \in SUBSET Clients
      BY <1>1, <1>2, <2>3
    <3>2. Behind(cache, d, t, S) \/ Cardinality(S) >= CacheSize
      BY <2>3 DEF Lru, Remembered
    <3> HIDE DEF S, t
    <3>3. S \cup {c} \in SUBSET Clients /\ IsFiniteSet(S \cup {c}) /\ Cardinality(S \cup {c}) \in Nat
          /\ Cardinality(S) \in Nat /\ Cardinality(S) <= Cardinality(S \cup {c})
      <4>1. S \cup {c} \in SUBSET Clients /\ S \in SUBSET (S \cup {c})
        BY <3>1
      <4>2. IsFiniteSet(S \cup {c})
        BY <4>1, ServersAre, FS_Subset
      <4>3. IsFiniteSet(S) /\ Cardinality(S) <= Cardinality(S \cup {c})
        BY <4>1, <4>2, FS_Subset
      <4> QED BY <4>1, <4>2, <4>3, FS_CardinalityType
    <3>4. CASE Cardinality(S) >= CacheSize
      <4>1. Cardinality(S \cup {c}) >= CacheSize
        BY <1>2, <3>3, <3>4
      <4> QED BY <2>0, <3>1, <4>1
    <3>5. CASE Behind(cache, d, t, S)
      <4>1. Behind(w, d, t, S)
        BY <1>2, <2>3, <3>5, BehindWithout DEF w
      <4>2. CASE q = w
        <5>1. Behind(Append(q, x), d, t, S \cup {c})
          BY <1>5, <1>6, <4>1, <4>2, BehindAppend
        <5> QED BY <1>1, <2>0, <3>1, <5>1
      <4>3. CASE q = Tail(w) /\ Len(w) >= CacheSize /\ w[1].id # d
        <5>1. Behind(q, d, t, S)
          BY <1>4, <1>6, <4>1, <4>3, BehindTail
        <5>2. Behind(Append(q, x), d, t, S \cup {c})
          BY <1>5, <1>6, <5>1, BehindAppend
        <5> QED BY <1>1, <2>0, <3>1, <5>2
      <4>4. CASE Len(w) >= CacheSize /\ w[1].id = d
        <5>1. Len(w) <= Cardinality(S \cup {c})
          BY <1>4, <1>6, <2>3, <3>1, <4>1, <4>4, BehindFull
        <5>2. Cardinality(S \cup {c}) >= CacheSize
          <6>1. Len(w) \in Nat
            BY <1>4
          <6> QED BY <1>2, <3>3, <4>4, <5>1, <6>1
        <5> QED BY <2>0, <3>1, <5>2
      <4> QED BY <4>2, <4>3, <4>4
    <3> QED BY <3>2, <3>4, <3>5
  <2> QED BY <2>1, <2>2, <2>3
<1> QED BY <1>7, <1>8 DEF Lru

\* Every step keeps what the cache remembers.
LEMMA StepLru == Routing /\ Lru /\ [Next]_vars => Lru'
<1> SUFFICES ASSUME Routing, Lru, [Next]_vars PROVE Lru'
  OBVIOUS
<1>0. TypeOK /\ CacheKeys /\ PhasePool
      /\ hist \in [Clients -> [srv : Servers \cup {NoServer}, since : SUBSET Clients]]
  BY DEF Routing, Phase, Lru
<1>1. CASE \E c \in Clients : Acquire(c)
  BY <1>0, <1>1, AcquireLru
<1>2. CASE UNCHANGED <<cache, hist>>
  BY <1>2 DEF Lru, Remembered, Behind
<1>3. CASE \E c \in Clients : Return(c) \/ EnterRaises(c) \/ CutOff(c)
  <2>1. PICK c \in Clients : Return(c) \/ EnterRaises(c) \/ CutOff(c)
    BY <1>3
  <2>2. UNCHANGED cache /\ (hist' = hist \/ hist' = [hist EXCEPT ![c] = NoHist])
    BY <2>1 DEF Return, EnterRaises, CutOff, Raise, lbVars
  <2>3. \A d \in Clients : hist'[d] = hist[d] \/ hist'[d] = NoHist
    BY <1>0, <2>2
  <2>4. hist' \in [Clients -> [srv : Servers \cup {NoServer}, since : SUBSET Clients]]
    BY <1>0, <2>2 DEF NoHist
  <2>5. \A d \in Clients : Remembered(d)'
    BY <2>2, <2>3 DEF Lru, Remembered, Behind
  <2> QED BY <2>4, <2>5 DEF Lru
<1>4. (\E c \in Clients : Acquire(c) \/ Return(c) \/ EnterRaises(c) \/ CutOff(c)) \/ UNCHANGED <<cache, hist>>
  BY DEF Next, Client, Trainer, Release, Enter, Token, StartSync, AddServers, RemoveServers,
         Validate, Abort, AbortFails, Resume, Load, Sleep, lbVars, vars
<1> QED BY <1>1, <1>2, <1>3, <1>4

\* A conversation that comes back finds its server: acquire_server follows the
\* cache as long as the server is in the pool and fewer other conversations
\* than max_cache_size were routed in between.
THEOREM ConversationsStick == Spec => StickySession
<1>1. Init => Lru
  BY DEF Init, Idle, Lru, Remembered, NoHist
<1>2. ASSUME Routing, Lru, NEW c \in Clients, Acquire(c), hist[c].srv \in pool,
             Cardinality(hist[c].since) < CacheSize
      PROVE  req'[c].srv = hist[c].srv
  <2>0. TypeOK /\ CacheKeys /\ req \in [Clients -> Requests] /\ pool \subseteq Servers
        /\ hist \in [Clients -> [srv : Servers \cup {NoServer}, since : SUBSET Clients]]
        /\ CacheSize \in Nat
    BY <1>2, PoolAssumption DEF Routing, Lru, TypeOK
  <2>1. hist[c] # NoHist
    BY <1>2, <2>0, ServersAre DEF NoHist
  <2>2. Cardinality(hist[c].since) \in Nat
    <3>1. hist[c].since \in SUBSET Clients
      BY <2>0
    <3> QED BY <3>1, ServersAre, FS_Subset, FS_CardinalityType
  <2>3. Behind(cache, c, hist[c].srv, hist[c].since)
    BY <1>2, <2>0, <2>1, <2>2 DEF Lru, Remembered
  <2>4. PICK i \in 1..Len(cache) : cache[i].id = c /\ cache[i].srv = hist[c].srv
    BY <2>3 DEF Behind
  <2>5. Sticky(c) /\ i \in Cached(c)
    BY <1>2, <2>4 DEF Sticky, Cached
  <2>6. StickyServer(c) = hist[c].srv
    <3>1. Position(c) \in Cached(c)
      BY <2>5 DEF Position
    <3>2. Position(c) = i
      BY <2>0, <2>4, <3>1 DEF Cached, CacheKeys
    <3> QED BY <2>4, <3>2 DEF StickyServer
  <2>7. req' = [req EXCEPT ![c].st = "call", ![c].srv = hist[c].srv]
    BY <1>2, <2>5, <2>6 DEF Acquire
  <2> QED BY <2>0, <2>7 DEF Requests
<1>3. ASSUME Routing, Lru
      PROVE  [\A c \in Clients :
                 /\ Acquire(c) /\ hist[c].srv \in pool
                 /\ Cardinality(hist[c].since) < CacheSize
                 => req'[c].srv = hist[c].srv]_vars
  BY <1>2, <1>3
<1> QED BY <1>1, <1>3, InitRouting, StepRouting, StepLru, PTL DEF Spec, StickySession

-----------------------------------------------------------------------------
(* The room of an answer.                                                  *)

\* The tokens that rollout.prompt_length and response_length allow together.
Whole == PromptLength + ResponseLength

\* What one request, whose prompt has p tokens, has used of that: a call that
\* is still to be made finds room for a token, a call in progress stays below
\* its limit, and only a hybrid server refuses a call.
RoomOf(r, p) ==
    LET used == p + Len(r.tokens)
    IN  /\ used + Len(r.chunk) <= Whole
        /\ r.st \in {"new", "call"} => r.chunk = <<>> /\ used < Whole
        /\ r.st = "gen" => used + r.limit <= Whole /\ Len(r.chunk) < r.limit
        /\ r.st = "back" /\ r.stop = "aborted" => used + Len(r.chunk) < Whole
        /\ r.st = "failed" => r.srv \in Hybrids

Room == \A c \in Clients : RoomOf(req[c], Prompt[c])

\* The lengths that the configuration gives.
LEMMA WholeIs ==
  /\ Whole \in Nat /\ PromptLength \in Nat /\ MaxModelLen \in Nat /\ MaxModelLen >= Whole
  /\ ResponseLength \in Nat /\ ResponseLength >= 1
  /\ \A c \in Clients : Prompt[c] \in Nat /\ Prompt[c] < Whole
BY PoolAssumption DEF Whole

\* The lengths that a request has.
LEMMA LengthsAre ==
  ASSUME NEW r \in Requests
  PROVE  Len(r.tokens) \in Nat /\ Len(r.chunk) \in Nat /\ r.limit \in Nat
<1>1. r.tokens \in Seq(Versions) /\ r.chunk \in Seq(Versions) /\ r.limit \in Nat
  BY RequestIs
<1> QED BY <1>1

\* max_tokens of a call that has room for a token.
LEMMA LimitIs ==
  ASSUME NEW c \in Clients, Used(c) \in Nat, Used(c) < Whole
  PROVE  LET n == IF MaxTokens(c) < 1 THEN 1 ELSE MaxTokens(c)
         IN  n \in Nat /\ 0 < n /\ Used(c) + n <= Whole
<1>1. MaxTokens(c) \in Int /\ MaxTokens(c) <= Whole - Used(c)
  BY WholeIs DEF MaxTokens, Smaller, Whole
<1> QED BY <1>1, WholeIs

\* Enter gives the call its max_tokens.
LEMMA EnterRoom ==
  ASSUME TypeOK, NEW c \in Clients, Enter(c), RoomOf(req[c], Prompt[c])
  PROVE  RoomOf(req'[c], Prompt[c])
<1> DEFINE n == IF MaxTokens(c) < 1 THEN 1 ELSE MaxTokens(c)
<1>0. req \in [Clients -> Requests] /\ req[c] \in Requests /\ req[c].st = "call"
  BY DEF TypeOK, Enter
<1>1. req' = [req EXCEPT ![c].st = "gen", ![c].chunk = <<>>, ![c].limit = n]
  BY DEF Enter
<1>2. Used(c) \in Nat /\ Used(c) = Prompt[c] + Len(req[c].tokens)
  BY <1>0, WholeIs, LengthsAre DEF Used
<1>3. Used(c) < Whole
  BY <1>0, <1>2 DEF RoomOf
<1>4. n \in Nat /\ 0 < n /\ Used(c) + n <= Whole
  BY <1>2, <1>3, LimitIs
<1> HIDE DEF n
<1>5. /\ req'[c].st = "gen" /\ req'[c].chunk = <<>> /\ req'[c].limit = n
      /\ req'[c].tokens = req[c].tokens
  BY <1>0, <1>1 DEF Requests
<1>6. Len(req'[c].chunk) = 0 /\ Prompt[c] + Len(req'[c].tokens) = Used(c)
  BY <1>2, <1>5
<1> QED BY <1>2, <1>3, <1>4, <1>5, <1>6, WholeIs DEF RoomOf

\* Token ends the call with the token that reaches the limit.
LEMMA TokenRoom ==
  ASSUME TypeOK, NEW c \in Clients, Token(c), req[c].srv \in Servers, RoomOf(req[c], Prompt[c])
  PROVE  RoomOf(req'[c], Prompt[c])
<1> DEFINE v == version[req[c].srv]
           k == Append(req[c].chunk, v)
<1>0. req \in [Clients -> Requests] /\ req[c] \in Requests /\ req[c].st = "gen" /\ v \in Versions
  BY DEF TypeOK, Token
<1>1. PICK more \in BOOLEAN :
         /\ more => Len(k) < req[c].limit
         /\ req' = [req EXCEPT ![c].chunk = k, ![c].st = IF more THEN "gen" ELSE "back",
                               ![c].stop = IF more THEN @ ELSE "completed",
                               ![c].gs = IF more THEN @ ELSE v]
  BY DEF Token
<1>2. req[c].chunk \in Seq(Versions)
  BY <1>0, RequestIs
<1>3. Len(k) = Len(req[c].chunk) + 1
  BY <1>0, <1>2
<1> HIDE DEF k, v
<1>4. /\ req'[c].chunk = k /\ req'[c].tokens = req[c].tokens /\ req'[c].limit = req[c].limit
      /\ req'[c].st = (IF more THEN "gen" ELSE "back")
      /\ ~more => req'[c].stop = "completed"
  BY <1>0, <1>1 DEF Requests
<1>5. /\ Len(req[c].tokens) \in Nat /\ Len(req[c].chunk) \in Nat /\ req[c].limit \in Nat
      /\ Prompt[c] \in Nat /\ Whole \in Nat
  BY <1>0, LengthsAre, WholeIs
<1>6. /\ Prompt[c] + Len(req[c].tokens) + req[c].limit <= Whole
      /\ Len(req[c].chunk) < req[c].limit
  BY <1>0 DEF RoomOf
<1>7. Prompt[c] + Len(req[c].tokens) + Len(k) <= Whole
  <2>1. ASSUME NEW p \in Nat, NEW t \in Nat, NEW h \in Nat, NEW l \in Nat, NEW w \in Nat,
               p + t + l <= w, h < l
        PROVE  p + t + (h + 1) <= w
    BY <2>1
  <2> QED BY <1>3, <1>5, <1>6, <2>1
<1>8. CASE more
  BY <1>1, <1>4, <1>6, <1>7, <1>8 DEF RoomOf
<1>9. CASE ~more
  BY <1>4, <1>7, <1>9 DEF RoomOf
<1> QED BY <1>8, <1>9

\* What the calls of a request have produced together.
LEMMA MergedRoom ==
  ASSUME NEW r \in Requests, NEW q \in Requests, NEW p \in Nat, RoomOf(r, p), r.st = "back",
         q.st \in {"new", "done"}, q.st = "done" \/ r.stop = "aborted",
         q.tokens = r.tokens \o r.chunk, q.chunk = <<>>
  PROVE  RoomOf(q, p)
<1>1. r.tokens \in Seq(Versions) /\ r.chunk \in Seq(Versions)
  BY RequestIs
<1>2. ASSUME NEW u \in Seq(Versions), NEW w \in Seq(Versions)
      PROVE  Len(u \o w) = Len(u) + Len(w) /\ Len(u) \in Nat /\ Len(w) \in Nat
  OBVIOUS
<1>3. Len(q.tokens) = Len(r.tokens) + Len(r.chunk) /\ Len(r.tokens) \in Nat /\ Len(r.chunk) \in Nat
  BY <1>1, <1>2
<1>4. Len(q.chunk) = 0
  OBVIOUS
<1>5. /\ p + Len(r.tokens) + Len(r.chunk) <= Whole
      /\ r.stop = "aborted" => p + Len(r.tokens) + Len(r.chunk) < Whole
  BY DEF RoomOf
<1>6. Whole \in Nat
  BY WholeIs
<1>7. /\ p + Len(q.tokens) + Len(q.chunk) <= Whole
      /\ r.stop = "aborted" => p + Len(q.tokens) < Whole
  <2> DEFINE a == Len(r.tokens)
             b == Len(r.chunk)
             d == Len(q.tokens)
             e == Len(q.chunk)
  <2>1. /\ a \in Nat /\ b \in Nat /\ d = a + b /\ e = 0 /\ p + a + b <= Whole
        /\ r.stop = "aborted" => p + a + b < Whole
    BY <1>3, <1>4, <1>5
  <2> HIDE DEF a, b, d, e
  <2>2. p + d + e <= Whole /\ (r.stop = "aborted" => p + d < Whole)
    BY <1>6, <2>1
  <2> QED BY <2>2 DEF d, e
<1> QED BY <1>7 DEF RoomOf

\* A request that goes on after an interruption still has room.
LEMMA ReturnRoom ==
  ASSUME TypeOK, NEW c \in Clients, Return(c), RoomOf(req[c], Prompt[c])
  PROVE  RoomOf(req'[c], Prompt[c])
<1>0. req \in [Clients -> Requests] /\ req[c] \in Requests /\ req[c].st = "back"
  BY DEF TypeOK, Return
<1>1. /\ req'[c].st \in {"new", "done"} /\ (req'[c].st = "done" \/ req[c].stop = "aborted")
      /\ req'[c].tokens = req[c].tokens \o req[c].chunk /\ req'[c] \in Requests
  BY ReturnReq
<1>2. req'[c].chunk = <<>>
  BY <1>0 DEF Return, Merge, Requests
<1>3. Prompt[c] \in Nat
  BY WholeIs
<1> QED BY <1>0, <1>1, <1>2, <1>3, MergedRoom

\* A call raises only on a sleeping server: there is always room for a token.
LEMMA RaisesAsleep ==
  ASSUME Routing, Room, NEW c \in Clients, EnterRaises(c) \/ CutOff(c)
  PROVE  asleep[req[c].srv]
<1>1. CASE EnterRaises(c)
  <2>1. req[c].st = "call" /\ (MaxModelLen - Used(c) < 1 \/ asleep[req[c].srv])
    BY <1>1 DEF EnterRaises
  <2>2. req[c] \in Requests /\ RoomOf(req[c], Prompt[c])
    BY DEF Routing, TypeOK, Room
  <2>3. Used(c) = Prompt[c] + Len(req[c].tokens) /\ Used(c) \in Nat
    BY <2>2, WholeIs, LengthsAre DEF Used
  <2>4. Used(c) < Whole
    BY <2>1, <2>2, <2>3 DEF RoomOf
  <2> QED BY <2>1, <2>3, <2>4, WholeIs
<1>2. CASE CutOff(c)
  BY <1>2 DEF CutOff
<1> QED BY <1>1, <1>2

\* A client's step keeps the room.
LEMMA ClientRoom == ASSUME Routing, Room, NEW c \in Clients, Client(c) PROVE Room'
<1>0. TypeOK /\ CacheKeys /\ PhasePool /\ PhaseAlone /\ Hold /\ req \in [Clients -> Requests] /\ req[c] \in Requests
  BY DEF Routing, Phase, TypeOK
<1>1. \A d \in Clients \ {c} : req'[d] = req[d]
  BY <1>0, ClientCall
<1>2. RoomOf(req[c], Prompt[c])
  BY DEF Room
<1>3. SUFFICES RoomOf(req'[c], Prompt[c])
  BY <1>1 DEF Room
<1>4. CASE Acquire(c)
  <2>1. PICK s \in pool : req'[c] = [req[c] EXCEPT !.st = "call", !.srv = s]
    BY <1>0, <1>4, AcquireReq
  <2>2. req'[c].st = "call" /\ req'[c].tokens = req[c].tokens /\ req'[c].chunk = req[c].chunk
    BY <1>0, <2>1 DEF Requests
  <2>3. req[c].st = "new"
    BY <1>4 DEF Acquire
  <2> QED BY <1>2, <2>2, <2>3 DEF RoomOf
<1>5. CASE Release(c)
  BY <1>2, <1>5 DEF Release
<1>6. CASE Enter(c)
  BY <1>0, <1>2, <1>6, EnterRoom
<1>7. CASE EnterRaises(c) \/ CutOff(c)
  <2>1. /\ req'[c].st = "failed" /\ req'[c].srv = req[c].srv
        /\ req'[c].tokens = <<>> /\ req'[c].chunk = <<>>
    BY <1>0, <1>7, RaiseReq
  <2>2. req[c].st \in {"call", "gen"} /\ asleep[req[c].srv]
    BY <1>7, RaisesAsleep DEF EnterRaises, CutOff
  <2>3. req[c].srv \in Hybrids
    BY <1>0, <2>2, ServersAre DEF Hold, PhaseAlone
  <2>4. Len(<<>>) = 0 /\ Prompt[c] \in Nat /\ Prompt[c] < Whole /\ Whole \in Nat
    BY WholeIs
  <2> QED BY <2>1, <2>3, <2>4 DEF RoomOf
<1>8. CASE Token(c)
  <2>1. req[c].srv \in Servers
    BY <1>0, <1>8 DEF Token, Hold
  <2> QED BY <1>0, <1>2, <1>8, <2>1, TokenRoom
<1>9. CASE Return(c)
  BY <1>0, <1>2, <1>9, ReturnRoom
<1> QED BY <1>4, <1>5, <1>6, <1>7, <1>8, <1>9 DEF Client

\* The trainer's step keeps the room: what it interrupts was below its limit.
LEMMA TrainerRoom == ASSUME Routing, Room, Trainer PROVE Room'
<1>0. TypeOK /\ req \in [Clients -> Requests]
  BY DEF Routing, TypeOK
<1> SUFFICES ASSUME NEW c \in Clients PROVE RoomOf(req'[c], Prompt[c])
  BY DEF Room
<1>1. RoomOf(req[c], Prompt[c]) /\ req[c] \in Requests
  BY <1>0 DEF Room
<1>2. CASE req'[c] = req[c]
  BY <1>1, <1>2
<1>3. CASE req'[c] # req[c]
  <2>1. \E s \in Servers : Abort(s)
    BY <1>3 DEF Trainer, StartSync, AddServers, RemoveServers, Validate, AbortFails, Resume, Load, Sleep
  <2>2. PICK s \in Servers : Abort(s)
    BY <2>1
  <2>3. req[c].st = "gen" /\ \E g \in {NoVersion, version[s]} :
           req'[c] = [req[c] EXCEPT !.st = "back", !.stop = "aborted", !.gs = g]
    BY <1>0, <1>3, <2>2, AbortReq
  <2>4. req'[c].st = "back" /\ req'[c].tokens = req[c].tokens /\ req'[c].chunk = req[c].chunk
    BY <1>1, <2>3 DEF Requests
  <2>5. Prompt[c] + Len(req[c].tokens) + Len(req[c].chunk) < Whole
    <3>1. /\ Len(req[c].tokens) \in Nat /\ Len(req[c].chunk) \in Nat /\ req[c].limit \in Nat
          /\ Prompt[c] \in Nat /\ Whole \in Nat
      BY <1>1, LengthsAre, WholeIs
    <3>2. Prompt[c] + Len(req[c].tokens) + req[c].limit <= Whole /\ Len(req[c].chunk) < req[c].limit
      BY <1>1, <2>3 DEF RoomOf
    <3>3. ASSUME NEW p \in Nat, NEW t \in Nat, NEW h \in Nat, NEW l \in Nat, NEW w \in Nat,
                 p + t + l <= w, h < l
          PROVE  p + t + h < w
      BY <3>3
    <3> QED BY <3>1, <3>2, <3>3
  <2> QED BY <1>1, <2>4, <2>5 DEF RoomOf
<1> QED BY <1>2, <1>3

\* The start: a prompt leaves room for the response.
LEMMA InitRoom == Init => Room
<1> SUFFICES ASSUME Init, NEW c \in Clients PROVE RoomOf(req[c], Prompt[c])
  BY DEF Room
<1>1. req[c] = Fresh
  BY DEF Init, Idle
<1>2. Fresh.tokens = <<>> /\ Fresh.chunk = <<>> /\ Fresh.st = "new"
  BY DEF Fresh
<1>3. Len(<<>>) = 0 /\ Prompt[c] \in Nat /\ Prompt[c] < Whole /\ Whole \in Nat
  BY WholeIs
<1> QED BY <1>1, <1>2, <1>3 DEF RoomOf

\* Every step keeps the room.
LEMMA StepRoom == Routing /\ Room /\ [Next]_vars => Room'
<1> SUFFICES ASSUME Routing, Room, [Next]_vars PROVE Room'
  OBVIOUS
<1>1. CASE UNCHANGED vars
  BY <1>1 DEF vars, Room
<1> QED BY <1>1, ClientRoom, TrainerRoom DEF Next

\* However often a request is interrupted and resumed, its prompt, what its
\* calls have returned and what the call in progress has produced fit in
\* rollout.prompt_length + response_length.
WithinLength ==
    \A c \in Clients : Used(c) + Len(req[c].chunk) <= PromptLength + ResponseLength

\* No interruption, resumption or max_tokens makes a request outgrow these
\* lengths.
THEOREM AnswersFit == Spec => []WithinLength
<1>1. ASSUME Room PROVE WithinLength
  BY <1>1 DEF Room, RoomOf, WithinLength, Used, Whole
<1> QED BY <1>1, InitRouting, StepRouting, InitRoom, StepRoom, PTL DEF Spec

\* The safety part of EventuallyAnswered: a call is refused only by a hybrid
\* server. A standalone one never sleeps, and the context check of the server
\* (max_model_len) never refuses a request that an interruption made longer.
RefusedByHybrid == \A c \in Clients : req[c].st = "failed" => req[c].srv \in Hybrids

\* Whatever is interrupted and whichever call of the trainer fails, a
\* standalone server refuses nothing.
THEOREM OnlyHybridsRefuse == Spec => []RefusedByHybrid
<1>1. ASSUME Room PROVE RefusedByHybrid
  BY <1>1 DEF Room, RoomOf, RefusedByHybrid
<1> QED BY <1>1, InitRouting, StepRouting, InitRoom, StepRoom, PTL DEF Spec

\* A call fails only at a sleeping server: one that left the pool on the way, or
\* that a failed add_servers or remove_servers left in it, or, for a running
\* call, one that a failed abort_all_requests did not stop.
THEOREM RefusalsHaveReasons == Spec => RefusalsExplained
<1>1. ASSUME Routing, Room, Next, NEW c \in Clients, req[c].st # "failed", req'[c].st = "failed"
      PROVE  /\ asleep[req[c].srv]
             /\ req[c].srv \in pool => lost \cap {"add", "remove"} # {}
             /\ req[c].st = "gen" => "abort" \in lost
  <2>0. TypeOK /\ CacheKeys /\ PhasePool /\ PhaseAlone /\ PhaseHybrid /\ Hold /\ Quiet
        /\ req \in [Clients -> Requests]
    BY <1>1 DEF Routing, Phase, TypeOK
  <2>1. EnterRaises(c) \/ CutOff(c)
    <3>1. CASE \E d \in Clients : Client(d)
      <4>1. PICK d \in Clients : Client(d)
        BY <3>1
      <4>2. d = c
        BY <1>1, <2>0, <4>1, ClientCall
      <4> QED BY <1>1, <2>0, <4>1, <4>2, ClientCall
    <3>2. CASE Trainer
      <4>1. \E s \in Servers : Abort(s)
        BY <1>1, <3>2 DEF Trainer, StartSync, AddServers, RemoveServers, Validate, AbortFails, Resume,
                          Load, Sleep
      <4>2. PICK s \in Servers : Abort(s)
        BY <4>1
      <4>3. req'[c] = req[c] \/ \E g \in {NoVersion, version[s]} :
               req'[c] = [req[c] EXCEPT !.st = "back", !.stop = "aborted", !.gs = g]
        BY <2>0, <4>2, AbortReq
      <4>4. req[c] \in Requests
        BY <2>0
      <4> QED BY <1>1, <4>3, <4>4 DEF Requests
    <3> QED BY <1>1, <3>1, <3>2 DEF Next
  <2>2. asleep[req[c].srv] /\ req[c].st \in {"call", "gen"}
    BY <1>1, <2>1, RaisesAsleep DEF EnterRaises, CutOff
  <2>3. req[c].srv \in Servers
    BY <2>0, <2>2 DEF Hold
  <2>4. req[c].srv \in pool => lost \cap {"add", "remove"} # {}
    <3> SUFFICES ASSUME lost \cap {"add", "remove"} = {}, req[c].srv \in pool PROVE FALSE
      OBVIOUS
    <3>1. req[c].srv \in Hybrids
      BY <2>0, <2>2, <2>3, ServersAre DEF PhaseAlone
    <3>2. at \in 8..13
      BY <2>0, <3>1, ServersAre DEF PhasePool
    <3> QED BY <2>0, <2>2, <3>1, <3>2 DEF PhaseHybrid
  <2>5. req[c].st = "gen" => "abort" \in lost
    BY <2>0, <2>2 DEF Quiet
  <2> QED BY <2>2, <2>4, <2>5
<1>2. ASSUME Routing, Room, [Next]_vars
      PROVE  [\A c \in Clients :
                 req[c].st # "failed" /\ req'[c].st = "failed" =>
                    /\ asleep[req[c].srv]
                    /\ req[c].srv \in pool => lost \cap {"add", "remove"} # {}
                    /\ req[c].st = "gen" => "abort" \in lost]_vars
  BY <1>1, <1>2
<1> QED BY <1>2, InitRouting, StepRouting, InitRoom, StepRoom, PTL DEF Spec, RefusalsExplained
=============================================================================
