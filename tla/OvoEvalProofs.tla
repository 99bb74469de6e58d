--------------------------- MODULE OvoEvalProofs ---------------------------
(***************************************************************************)
(* Proofs about OvoEval: the invariant IInv is inductive for every set of  *)
(* annotation lists, rank counts and bounds, and with it the markers are   *)
(* honest, shard files hold no key twice, and reports are complete and     *)
(* count every annotation once. RerunInv, which rests on IInv, shows that  *)
(* repeated evaluations repeat their reports.                              *)
(***************************************************************************)
EXTENDS OvoEval, TLAPS

-----------------------------------------------------------------------------
(* Slices                                                                  *)

\* Multiplication by a natural number is monotone.
LEMMA MulMono == \A p, q, k \in Nat : p <= q => p * k <= q * k
  BY Z3

\* What Python's divmod returns.
LEMMA DivMod == ASSUME NEW len \in Nat, NEW n \in Nat \ {0}
  PROVE /\ len \div n \in Nat
        /\ len % n \in 0..(n - 1)
        /\ len = n * (len \div n) + (len % n)
  BY Z3

\* accelerate's slices stay within the list.
LEMMA SliceBounds ==
  ASSUME NEW len \in Nat, NEW n \in Nat \ {0}, NEW r \in 0..(n - 1)
  PROVE  /\ SliceStart(len, n, r) \in Nat
         /\ SliceEnd(len, n, r) \in Nat
         /\ SliceEnd(len, n, r) <= len
<1> DEFINE q == len \div n
           x == len % n
<1>1. q \in Nat /\ x \in 0..(n - 1) /\ len = n * q + x
  BY DivMod
<1>2. r * q \in Nat /\ (r + 1) * q = r * q + q /\ (r + 1) * q <= n * q
  BY <1>1, MulMono
<1> HIDE DEF q, x
<1>3. SliceStart(len, n, r) = r * q + (IF r < x THEN r ELSE x)
  BY DEF SliceStart, q, x
<1>4. SliceEnd(len, n, r) = SliceStart(len, n, r) + q + (IF r < x THEN 1 ELSE 0)
  BY DEF SliceEnd, q, x
<1> QED
  <2> DEFINE A == r * q
             B == n * q
             C == (r + 1) * q
  <2>1. A \in Nat /\ C = A + q /\ C <= B /\ len = B + x /\ B \in Int
    BY <1>1, <1>2
  <2> HIDE DEF A, B, C
  <2> QED BY <2>1, <1>1, <1>3, <1>4 DEF A



\* Every index of the list falls into the slice of some rank.
LEMMA SliceCover ==
  ASSUME NEW len \in Nat, NEW n \in Nat \ {0}, NEW i \in 0..(len - 1)
  PROVE  \E r \in 0..(n - 1) : SliceStart(len, n, r) <= i /\ i < SliceEnd(len, n, r)
<1> DEFINE q == len \div n
           x == len % n
<1>1. q \in Nat /\ x \in 0..(n - 1) /\ len = n * q + x
  BY DivMod
<1> HIDE DEF q, x
<1>2. \A r \in Nat : SliceStart(len, n, r) = r * q + (IF r < x THEN r ELSE x)
  BY DEF SliceStart, q, x
<1>3. \A r \in Nat : SliceEnd(len, n, r) = SliceStart(len, n, r) + q + (IF r < x THEN 1 ELSE 0)
  BY DEF SliceEnd, q, x
<1>4. CASE i < x * (q + 1)
  <2> DEFINE r == i \div (q + 1)
             m == i % (q + 1)
  <2>0. q + 1 \in Nat \ {0} /\ i \in Nat /\ (q + 1) - 1 = q
    BY <1>1
  <2>1. r \in Nat /\ m \in 0..q /\ i = (q + 1) * r + m
    BY <2>0, DivMod
  <2> HIDE DEF r, m
  <2>2. r < x
    <3>1. SUFFICES ASSUME x <= r PROVE FALSE
      BY <1>1, <2>1
    <3>2. x * (q + 1) <= r * (q + 1)
      BY <3>1, <1>1, <2>1, MulMono
    <3> QED BY <3>2, <1>4, <2>1, <1>1
  <2>3. (q + 1) * r = r * q + r
    BY <1>1, <2>1
  <2>4. r * q \in Nat
    BY <1>1, <2>1
  <2>5. SliceStart(len, n, r) = r * q + r /\ SliceEnd(len, n, r) = r * q + r + q + 1
    BY <1>1, <1>2, <1>3, <2>1, <2>2, <2>4
  <2>6. SliceStart(len, n, r) <= i /\ i < SliceEnd(len, n, r)
    BY <2>1, <2>3, <2>4, <2>5, <1>1
  <2> QED BY <2>1, <2>2, <2>6, <1>1
<1>5. CASE x * (q + 1) <= i
  <2> DEFINE j == i - x * (q + 1)
  <2>0. j \in Nat /\ x * (q + 1) = x * q + x /\ x * q \in Nat
    BY <1>1, <1>5
  <2>1. q # 0
    BY <1>1, <1>5
  <2> DEFINE d == j \div q
             m == j % q
             r == x + d
  <2>2. d \in Nat /\ m \in 0..(q - 1) /\ j = q * d + m
    BY <1>1, <2>0, <2>1, DivMod
  <2> HIDE DEF d, m
  <2>3. r \in Nat /\ r * q = x * q + q * d /\ r * q \in Nat
    BY <2>2, <1>1
  <2>4. i = r * q + x + m
    BY <2>0, <2>2, <2>3, <1>1
  <2>5. r < n
    <3>1. SUFFICES ASSUME n <= r PROVE FALSE
      BY <1>1, <2>3
    <3>2. n * q <= r * q
      BY <3>1, <1>1, <2>3, MulMono
    <3>3. n * q \in Nat
      BY <1>1
    <3> QED BY <3>2, <3>3, <2>4, <2>2, <2>3, <1>1
  <2>6. SliceStart(len, n, r) = r * q + x /\ SliceEnd(len, n, r) = r * q + x + q
    <3>1. r \in Nat /\ ~(r < x)
      BY <2>2, <1>1
    <3> HIDE DEF r
    <3>2. SliceStart(len, n, r) = r * q + x
      BY <3>1, <1>2
    <3>3. SliceEnd(len, n, r) = SliceStart(len, n, r) + q + 0
      BY <3>1, <1>3
    <3> QED BY <3>2, <3>3, <1>1, <2>3
  <2>7. SliceStart(len, n, r) <= i /\ i < SliceEnd(len, n, r)
    BY <2>2, <2>3, <2>4, <2>6, <1>1
  <2> QED BY <2>3, <2>5, <2>7
<1>6. x * (q + 1) \in Nat
  BY <1>1
<1> QED BY <1>4, <1>5, <1>6

-----------------------------------------------------------------------------
(* Ranks, shards and keys                                                  *)

\* The ranks of a launch are ranks, and rank 0 is among them.
LEMMA RankFacts ==
  /\ ProcCounts \subseteq Nat \ {0}
  /\ Ranks \subseteq Nat
  /\ 0 \in Ranks
  /\ \A n \in ProcCounts : \A r \in 0..(n - 1) : r \in Ranks /\ Shard(n, r) \in Shards
<1>1. ProcCounts \subseteq Nat \ {0} /\ ProcCounts # {}
  BY ProcCountsAssumption
<1>2. PICK m \in ProcCounts : TRUE
  BY <1>1
<1>3. 0 \in 0..(m - 1)
  BY <1>1, <1>2
<1> QED
  BY <1>1, <1>2, <1>3 DEF Ranks, Shards

\* Two ranks of a launch never share a shard.
LEMMA ShardInjective ==
  ASSUME NEW n \in ProcCounts, NEW r \in 0..(n - 1), NEW q \in 0..(n - 1),
         Shard(n, r) = Shard(n, q)
  PROVE  r = q
BY ProcCountsAssumption DEF Shard

\* A rank's slice of a list lies within the list.
LEMMA SliceFacts ==
  ASSUME NEW n \in ProcCounts, NEW r \in 0..(n - 1), NEW s \in 1..Splits
  PROVE  /\ FirstOf(n, r, s) \in Nat \ {0}
         /\ LastOf(n, r, s) \in Nat
         /\ LastOf(n, r, s) <= Len(Anno[s])
<1>1. Len(Anno[s]) \in Nat /\ n \in Nat \ {0}
  BY AnnoAssumption, ProcCountsAssumption
<1>2. /\ SliceStart(Len(Anno[s]), n, r) \in Nat
      /\ SliceEnd(Len(Anno[s]), n, r) \in Nat
      /\ SliceEnd(Len(Anno[s]), n, r) <= Len(Anno[s])
  BY <1>1, SliceBounds
<1> QED
  BY <1>1, <1>2 DEF FirstOf, LastOf

\* An annotation's key is a key.
LEMMA KeyFacts ==
  ASSUME NEW s \in 1..Splits, NEW i \in Nat \ {0}, i <= Len(Anno[s])
  PROVE  Anno[s][i] \in Keys
<1>1. i \in DOMAIN Anno[s]
  BY AnnoAssumption
<1> QED
  BY <1>1 DEF Keys

\* Between them the ranks of a launch are handed every annotation.
LEMMA AllAssigned ==
  ASSUME NEW n \in ProcCounts, NEW k \in Keys
  PROVE  \E r \in 0..(n - 1) : k \in LocalKeys(n, r)
<1>1. PICK s \in 1..Splits : \E i \in DOMAIN Anno[s] : k = Anno[s][i]
  BY DEF Keys
<1>2. PICK i \in DOMAIN Anno[s] : k = Anno[s][i]
  BY <1>1
<1> DEFINE len == Len(Anno[s])
<1>3. len \in Nat /\ i \in 1..len /\ n \in Nat \ {0}
  BY <1>2, AnnoAssumption, ProcCountsAssumption
<1> HIDE DEF len
<1>4. i - 1 \in 0..(len - 1)
  BY <1>3
<1>5. PICK r \in 0..(n - 1) : SliceStart(len, n, r) <= i - 1 /\ i - 1 < SliceEnd(len, n, r)
  BY <1>3, <1>4, SliceCover
<1>6. SliceStart(len, n, r) \in Nat /\ SliceEnd(len, n, r) \in Nat
  BY <1>3, SliceBounds
<1>7. FirstOf(n, r, s) = SliceStart(len, n, r) + 1 /\ LastOf(n, r, s) = SliceEnd(len, n, r)
  BY <1>3, <1>5, <1>6 DEF FirstOf, LastOf, len
<1>8. i \in FirstOf(n, r, s)..LastOf(n, r, s)
  BY <1>3, <1>5, <1>6, <1>7
<1> QED
  BY <1>1, <1>2, <1>8 DEF LocalKeys

\* The keys of a shard file's rows are keys.
LEMMA RowKeysType ==
  ASSUME NEW f \in Seq(Row)
  PROVE  RowKeys(f) \subseteq Keys
<1>1. \A i \in DOMAIN f : f[i] \in Row
  OBVIOUS
<1>2. \A i \in DOMAIN f : f[i].key \in Keys
  BY <1>1 DEF Row
<1> QED
  BY <1>2 DEF RowKeys

\* Appending a row adds its key and no other.
LEMMA AppendKeys ==
  ASSUME NEW f \in Seq(Row), NEW e \in Row
  PROVE  /\ Append(f, e) \in Seq(Row)
         /\ RowKeys(Append(f, e)) = RowKeys(f) \cup {e.key}
<1>1. /\ Append(f, e) \in Seq(Row)
      /\ DOMAIN f = 1..Len(f)
      /\ DOMAIN Append(f, e) = 1..(Len(f) + 1)
      /\ Len(f) \in Nat
      /\ \A i \in 1..Len(f) : Append(f, e)[i] = f[i]
      /\ Append(f, e)[Len(f) + 1] = e
  OBVIOUS
<1> DEFINE g == Append(f, e)
<1> HIDE DEF g
<1>2. /\ DOMAIN g = 1..(Len(f) + 1)
      /\ \A i \in 1..Len(f) : g[i] = f[i]
      /\ g[Len(f) + 1] = e
  BY <1>1 DEF g
<1>3. RowKeys(g) \subseteq RowKeys(f) \cup {e.key}
  BY <1>1, <1>2 DEF RowKeys
<1>4. RowKeys(f) \subseteq RowKeys(g)
  BY <1>1, <1>2 DEF RowKeys
<1>5. e.key \in RowKeys(g)
  BY <1>1, <1>2 DEF RowKeys
<1> QED
  BY <1>1, <1>3, <1>4, <1>5 DEF g

\* Appending a row with a new key leaves a file without duplicates.
LEMMA AppendDistinct ==
  ASSUME NEW f \in Seq(Row), NEW e \in Row, e.key \notin RowKeys(f),
         \A i, j \in DOMAIN f : f[i].key = f[j].key => i = j
  PROVE  \A i, j \in DOMAIN Append(f, e) :
           Append(f, e)[i].key = Append(f, e)[j].key => i = j
<1>1. /\ DOMAIN f = 1..Len(f)
      /\ DOMAIN Append(f, e) = 1..(Len(f) + 1)
      /\ Len(f) \in Nat
      /\ \A i \in 1..Len(f) : Append(f, e)[i] = f[i]
      /\ Append(f, e)[Len(f) + 1] = e
  OBVIOUS
<1>2. \A i \in 1..Len(f) : f[i].key # e.key
  BY <1>1 DEF RowKeys
<1> QED
  BY <1>1, <1>2

-----------------------------------------------------------------------------
(* Steps                                                                   *)

\* Rank r of a step has its place in the launch.
LEMMA RankInLaunch ==
  ASSUME IInv, NEW r \in Ranks, pc[r] # "off"
  PROVE  /\ np \in ProcCounts
         /\ np \in Nat \ {0}
         /\ r \in 0..(np - 1)
         /\ MyShard(r) \in Shards
BY RankFacts DEF IInv, TypeOK, LaunchInv, MyShard

\* The current annotation of a rank inside its slice has a key.
LEMMA CurrentIsKey ==
  ASSUME IInv, NEW r \in Ranks, pc[r] # "off", InSlice(r)
  PROVE  CurrentKey(r) \in Keys /\ split[r] \in 1..Splits
<1>1. np \in ProcCounts /\ r \in 0..(np - 1)
  BY RankInLaunch
<1>2. split[r] \in 1..Splits /\ pos[r] \in Nat \ {0} /\ pos[r] <= LastOf(np, r, split[r])
  BY SplitsAssumption DEF InSlice, IInv, TypeOK
<1>3. LastOf(np, r, split[r]) <= Len(Anno[split[r]]) /\ LastOf(np, r, split[r]) \in Nat
  BY <1>1, <1>2, SliceFacts
<1>4. pos[r] <= Len(Anno[split[r]])
  BY <1>2, <1>3, AnnoAssumption
<1> QED
  BY <1>2, <1>4, KeyFacts DEF CurrentKey

\* Init establishes the invariant.
LEMMA InitIInv == Init => IInv
<1> SUFFICES ASSUME Init PROVE IInv
  OBVIOUS
<1> USE RankFacts DEF Init
<1>1. TypeOK
  BY SplitsAssumption DEF TypeOK, Launched, Alive, Stopped
<1>2. LaunchInv
  BY DEF LaunchInv, Launched
<1>3. CursorInv /\ DiskInv
  BY DEF CursorInv, DiskInv, Launched, Busy
<1>4. TailInv
  BY DEF TailInv, Launched
<1>5. NoDuplicateRows
  BY DEF NoDuplicateRows
<1>6. MarkerInv
  BY DEF MarkerInv, Launched, Busy, Finished
<1>7. MergeInv /\ DumpInv
  BY DEF MergeInv, DumpInv, Launched
<1>8. ReportComplete /\ ReportCountsOnce
  BY DEF ReportComplete, ReportCountsOnce
<1> QED
  BY <1>1, <1>2, <1>3, <1>4, <1>5, <1>6, <1>7, <1>8 DEF IInv

\* Steps that write no marker, start no rank and lose no row keep the markers
\* honest.
LEMMA MarkerKept ==
  ASSUME IInv, np' = np, counts \subseteq counts',
         \A s \in Shards : marker'[s] => marker[s],
         \A n \in ProcCounts : \A q \in 0..(n - 1) : ShardDone(n, q) => ShardDone(n, q)',
         \A q \in Ranks : pc'[q] \in Busy \cup {"resuming"} => pc[q] \in Busy \cup {"resuming"},
         \A q \in Ranks : pc'[q] \in Finished => pc[q] \in Finished
  PROVE  MarkerInv'
<1>1. ASSUME NEW s \in Shards, marker'[s]
      PROVE  \E n \in counts' : \E q \in 0..(n - 1) : Shard(n, q) = s /\ ShardDone(n, q)'
  <2>1. PICK n \in counts : \E q \in 0..(n - 1) : Shard(n, q) = s /\ ShardDone(n, q)
    BY <1>1 DEF IInv, MarkerInv
  <2>2. n \in ProcCounts /\ n \in counts'
    BY DEF IInv, TypeOK
  <2> QED BY <2>1, <2>2
<1>2. ASSUME NEW q \in Ranks, pc'[q] \in Busy \cup {"resuming"}
      PROVE  ~marker'[MyShard(q)']
  <2>1. MyShard(q)' = MyShard(q) /\ MyShard(q) \in Shards /\ pc[q] \in Busy \cup {"resuming"}
    BY <1>2, RankInLaunch DEF Busy, MyShard
  <2> QED BY <2>1 DEF IInv, MarkerInv
<1>3. ASSUME NEW q \in Ranks, pc'[q] \in Finished
      PROVE  ShardDone(np, q)'
  <2>1. pc[q] \in Finished /\ np \in ProcCounts /\ q \in 0..(np - 1)
    BY <1>3, RankInLaunch DEF Finished
  <2>2. ShardDone(np, q)
    BY <2>1 DEF IInv, MarkerInv
  <2> QED BY <2>1, <2>2
<1> QED
  BY <1>1, <1>2, <1>3 DEF MarkerInv

\* Files that only grow stay done.
LEMMA DoneKept ==
  ASSUME \A s \in Shards : RowKeys(rows[s]) \subseteq RowKeys(rows'[s]),
         \A s \in Shards : tail[s] = "bad" => tail'[s] = "bad"
  PROVE  \A n \in ProcCounts : \A q \in 0..(n - 1) : ShardDone(n, q) => ShardDone(n, q)'
BY RankFacts DEF ShardDone

\* Steps of other ranks do not disturb the merge.
LEMMA MergeKept ==
  ASSUME IInv, np' = np, counts' = counts, mergeVars' = mergeVars,
         pc'[0] \in {"merging", "dumping"} => pc[0] \in {"merging", "dumping"},
         \A n \in ProcCounts : \A q \in 0..(n - 1) : ShardDone(n, q) => ShardDone(n, q)'
  PROVE  MergeInv'
<1>1. np \in ProcCounts /\ next' = next /\ seen' = seen /\ merged' = merged
  BY DEF IInv, TypeOK, mergeVars
<1>2. \A r \in 0..(np - 1) : ShardDone(np, r) => ShardDone(np, r)'
  BY <1>1
<1> QED
  BY <1>1, <1>2 DEF IInv, MergeInv

\* The row of a flushing rank ends up in its file.
LEMMA RowAdded ==
  ASSUME IInv, NEW r \in Ranks, pc[r] = "flushing", NEW a \in BOOLEAN,
         rows' = [rows EXCEPT ![MyShard(r)] =
                    Append(@, [key |-> CurrentKey(r), answered |-> a])]
  PROVE  /\ rows' \in [Shards -> Seq(Row)]
         /\ \A s \in Shards : s # MyShard(r) => rows'[s] = rows[s]
         /\ RowKeys(rows'[MyShard(r)]) = RowKeys(MyFile(r)) \cup {CurrentKey(r)}
         /\ \A s \in Shards : RowKeys(rows[s]) \subseteq RowKeys(rows'[s])
         /\ NoDuplicateRows'
<1> DEFINE e == [key |-> CurrentKey(r), answered |-> a]
<1>1. InSlice(r) /\ MyShard(r) \in Shards /\ CurrentKey(r) \notin RowKeys(MyFile(r))
  BY RankInLaunch DEF IInv, CursorInv, DiskInv, Busy
<1>2. e \in Row /\ e.key = CurrentKey(r)
  BY <1>1, CurrentIsKey DEF Row
<1>3. MyFile(r) \in Seq(Row) /\ MyFile(r) = rows[MyShard(r)] /\ rows \in [Shards -> Seq(Row)]
  BY <1>1 DEF IInv, TypeOK, MyFile
<1>4. /\ rows' = [rows EXCEPT ![MyShard(r)] = Append(MyFile(r), e)]
      /\ rows'[MyShard(r)] = Append(MyFile(r), e)
      /\ \A s \in Shards : s # MyShard(r) => rows'[s] = rows[s]
  BY <1>1, <1>3
<1> HIDE DEF e
<1>5. /\ Append(MyFile(r), e) \in Seq(Row)
      /\ RowKeys(Append(MyFile(r), e)) = RowKeys(MyFile(r)) \cup {CurrentKey(r)}
  BY <1>2, <1>3, AppendKeys
<1>6. rows' \in [Shards -> Seq(Row)]
  BY <1>3, <1>4, <1>5
<1>7. \A s \in Shards : RowKeys(rows[s]) \subseteq RowKeys(rows'[s])
  BY <1>3, <1>4, <1>5
<1>8. \A i, j \in DOMAIN MyFile(r) : MyFile(r)[i].key = MyFile(r)[j].key => i = j
  BY <1>1, <1>3 DEF IInv, NoDuplicateRows
<1>9. \A i, j \in DOMAIN Append(MyFile(r), e) :
        Append(MyFile(r), e)[i].key = Append(MyFile(r), e)[j].key => i = j
  BY <1>1, <1>2, <1>3, <1>8, AppendDistinct
<1>10. NoDuplicateRows'
  BY <1>4, <1>9 DEF IInv, NoDuplicateRows
<1> QED
  BY <1>4, <1>5, <1>6, <1>7, <1>10

\* Removing the marker of an earlier launch.
LEMMA ClearMarkerIInv ==
  ASSUME IInv, NEW r \in Ranks, ClearMarker(r)
  PROVE  IInv'
<1> USE DEF ClearMarker, mergeVars
<1>1. r \in 0..(np - 1) /\ np \in ProcCounts /\ MyShard(r) \in Shards
  BY RankInLaunch
<1>2. TypeOK'
  BY <1>1 DEF IInv, TypeOK, Alive
<1>3. LaunchInv'
  BY DEF IInv, TypeOK, LaunchInv
<1>4. CursorInv'
  BY DEF IInv, TypeOK, CursorInv, Busy, InSlice, CurrentKey
<1>5. DiskInv'
  BY DEF IInv, TypeOK, DiskInv, Busy, CurrentKey, MyShard, MyFile
<1>6. TailInv'
  BY DEF IInv, TypeOK, TailInv, MyShard
<1>7. NoDuplicateRows'
  BY DEF IInv, NoDuplicateRows
<1>8. MarkerInv'
  <2>1. \A s \in Shards : marker'[s] => marker[s]
    BY DEF IInv, TypeOK
  <2>2. \A n, q : ShardDone(n, q)' <=> ShardDone(n, q)
    BY DEF ShardDone
  <2>3. ~marker'[MyShard(r)]
    BY <1>1 DEF IInv, TypeOK
  <2>4. ASSUME NEW q \in Ranks, pc'[q] \in Busy \cup {"resuming"}
        PROVE  ~marker'[MyShard(q)]
    <3>1. CASE q = r
      BY <2>3, <3>1
    <3>2. CASE q # r
      <4>1. pc[q] = pc'[q]
        BY <3>2 DEF IInv, TypeOK
      <4>2. MyShard(q) \in Shards
        BY <4>1, <2>4, RankInLaunch DEF Busy
      <4> QED BY <2>1, <2>4, <4>1, <4>2 DEF IInv, MarkerInv
    <3> QED BY <3>1, <3>2
  <2>5. ASSUME NEW q \in Ranks, pc'[q] \in Finished
        PROVE  ShardDone(np, q)'
    BY <2>2, <2>5 DEF IInv, TypeOK, MarkerInv, Finished
  <2> QED
    BY <2>1, <2>2, <2>4, <2>5 DEF IInv, MarkerInv, MyShard
<1>9. MergeInv' /\ DumpInv'
  BY RankFacts DEF IInv, TypeOK, MergeInv, DumpInv, ShardDone
<1>10. ReportComplete' /\ ReportCountsOnce'
  BY DEF IInv, ReportComplete, ReportCountsOnce
<1> QED
  BY <1>2, <1>3, <1>4, <1>5, <1>6, <1>7, <1>8, <1>9, <1>10 DEF IInv

\* Reading the shard file back.
LEMMA ResumeIInv ==
  ASSUME IInv, NEW r \in Ranks, Resume(r)
  PROVE  IInv'
<1> USE DEF Resume, fileVars, mergeVars
<1>1. r \in 0..(np - 1) /\ np \in ProcCounts /\ MyShard(r) \in Shards
  BY RankInLaunch
<1>2. TypeOK'
  <2>1. RowKeys(MyFile(r)) \subseteq Keys
    BY <1>1, RowKeysType DEF IInv, TypeOK, MyFile
  <2>2. FirstOf(np, r, 1) \in Nat \ {0} /\ 1 \in 1..(Splits + 1)
    BY <1>1, SplitsAssumption, SliceFacts
  <2> QED
    BY <1>1, <2>1, <2>2 DEF IInv, TypeOK, Alive, Stopped
<1>3. LaunchInv'
  BY <1>1 DEF IInv, TypeOK, LaunchInv
<1>4. CursorInv'
  <2>1. FirstOf(np, r, 1) \in Nat \ {0} /\ LastOf(np, r, 1) \in Nat
    BY <1>1, SplitsAssumption, SliceFacts
  <2>2. ASSUME NEW q \in Ranks, pc'[q] \in Busy, q # r
        PROVE  pc[q] = pc'[q] /\ split'[q] = split[q] /\ pos'[q] = pos[q] /\ doneKeys'[q] = doneKeys[q]
    BY <2>2 DEF IInv, TypeOK
  <2>3. pc'[r] \in Busy => split'[r] = 1 /\ pos'[r] = FirstOf(np, r, 1) /\ pc'[r] = "evaluating"
    BY DEF IInv, TypeOK, Busy
  <2>4. \A s \in 1..Splits : ~(s < 1)
    BY SplitsAssumption
  <2> QED
    BY <2>1, <2>2, <2>3, <2>4 DEF IInv, CursorInv, InSlice, CurrentKey
<1>5. DiskInv'
  <2>1. ASSUME NEW q \in Ranks, pc'[q] \in Busy, q # r
        PROVE  pc[q] = pc'[q] /\ split'[q] = split[q] /\ pos'[q] = pos[q] /\ doneKeys'[q] = doneKeys[q]
    BY <2>1 DEF IInv, TypeOK
  <2>2. pc'[r] \in Busy => pc'[r] = "evaluating" /\ doneKeys'[r] = RowKeys(MyFile(r))
    BY DEF IInv, TypeOK, Busy
  <2> QED
    BY <2>1, <2>2 DEF IInv, DiskInv, CurrentKey, MyShard, MyFile
<1>6. TailInv'
  BY <1>1 DEF IInv, TypeOK, TailInv, MyShard
<1>7. NoDuplicateRows'
  BY DEF IInv, NoDuplicateRows
<1>8. MarkerInv'
  BY <1>1, MarkerKept DEF IInv, TypeOK, ShardDone, Busy, Finished
<1>9. MergeInv' /\ DumpInv'
  BY <1>1, RankFacts DEF IInv, TypeOK, MergeInv, DumpInv, ShardDone
<1>10. ReportComplete' /\ ReportCountsOnce'
  BY DEF IInv, ReportComplete, ReportCountsOnce
<1> QED
  BY <1>2, <1>3, <1>4, <1>5, <1>6, <1>7, <1>8, <1>9, <1>10 DEF IInv

\* Passing over an annotation that is done.
LEMMA SkipIInv ==
  ASSUME IInv, NEW r \in Ranks, Skip(r)
  PROVE  IInv'
<1> USE DEF Skip, fileVars, mergeVars
<1>1. r \in 0..(np - 1) /\ np \in ProcCounts /\ MyShard(r) \in Shards
  BY RankInLaunch
<1>2. TypeOK'
  BY <1>1 DEF IInv, TypeOK, Alive, Stopped
<1>3. LaunchInv'
  BY <1>1 DEF IInv, TypeOK, LaunchInv
<1>4. CursorInv'
  <2>1. \A s \in 1..Splits : FirstOf(np, r, s) \in Nat /\ LastOf(np, r, s) \in Nat
    BY <1>1, SliceFacts
  <2>2. ASSUME NEW q \in Ranks, q # r
        PROVE  pos'[q] = pos[q]
    BY <2>2 DEF IInv, TypeOK
  <2>3. pos'[r] = pos[r] + 1 /\ pos[r] \in Nat
    BY DEF IInv, TypeOK
  <2>4. ASSUME NEW s \in 1..Splits, NEW i \in FirstOf(np, r, s)..LastOf(np, r, s),
               s < split[r] \/ (s = split[r] /\ i < pos'[r])
        PROVE  Anno[s][i] \in doneKeys[r]
    <3>1. s < split[r] \/ (s = split[r] /\ i < pos[r]) \/ (s = split[r] /\ i = pos[r])
      BY <2>1, <2>3, <2>4
    <3> QED
      BY <3>1 DEF IInv, CursorInv, Busy, CurrentKey
  <2> QED
    BY <2>2, <2>3, <2>4 DEF IInv, CursorInv, InSlice, CurrentKey
<1>5. DiskInv'
  BY <1>1 DEF IInv, TypeOK, DiskInv, Busy, CurrentKey, MyShard, MyFile
<1>6. TailInv'
  BY <1>1 DEF IInv, TypeOK, TailInv, MyShard
<1>7. NoDuplicateRows'
  BY DEF IInv, NoDuplicateRows
<1>8. MarkerInv'
  BY <1>1, MarkerKept DEF IInv, TypeOK, ShardDone, Busy, Finished
<1>9. MergeInv' /\ DumpInv'
  BY <1>1, RankFacts DEF IInv, TypeOK, MergeInv, DumpInv, ShardDone
<1>10. ReportComplete' /\ ReportCountsOnce'
  BY DEF IInv, ReportComplete, ReportCountsOnce
<1> QED
  BY <1>2, <1>3, <1>4, <1>5, <1>6, <1>7, <1>8, <1>9, <1>10 DEF IInv

\* Going on to the next list.
LEMMA NextSplitIInv ==
  ASSUME IInv, NEW r \in Ranks, NextSplit(r)
  PROVE  IInv'
<1> USE DEF NextSplit, fileVars, mergeVars
<1>1. r \in 0..(np - 1) /\ np \in ProcCounts /\ MyShard(r) \in Shards
  BY RankInLaunch
<1>2. TypeOK'
  <2>1. split[r] < Splits => FirstOf(np, r, split[r] + 1) \in Nat \ {0}
    BY <1>1, SplitsAssumption, SliceFacts DEF IInv, TypeOK
  <2>2. split[r] + 1 \in 1..(Splits + 1)
    BY SplitsAssumption DEF IInv, TypeOK
  <2> QED
    BY <1>1, <2>1, <2>2 DEF IInv, TypeOK, Alive, Stopped
<1>3. LaunchInv'
  BY <1>1 DEF IInv, TypeOK, LaunchInv
<1>4. CursorInv'
  <2>1. \A s \in 1..Splits : FirstOf(np, r, s) \in Nat /\ LastOf(np, r, s) \in Nat
    BY <1>1, SliceFacts
  <2>2. ASSUME NEW q \in Ranks, q # r
        PROVE  pc[q] = pc'[q] /\ split'[q] = split[q] /\ pos'[q] = pos[q] /\ doneKeys'[q] = doneKeys[q]
    BY <2>2 DEF IInv, TypeOK
  <2>3. /\ pc'[r] = "evaluating" /\ doneKeys'[r] = doneKeys[r]
        /\ split'[r] = split[r] + 1
        /\ split[r] \in 1..Splits
        /\ pos'[r] = IF split[r] < Splits THEN FirstOf(np, r, split[r] + 1) ELSE 1
        /\ pos[r] \in Nat
    BY SplitsAssumption DEF IInv, TypeOK
  <2>4. ASSUME NEW s \in 1..Splits, NEW i \in FirstOf(np, r, s)..LastOf(np, r, s),
               s < split'[r] \/ (s = split'[r] /\ i < pos'[r])
        PROVE  Anno[s][i] \in doneKeys[r]
    <3>1. s < split[r] \/ s = split[r]
      BY <2>1, <2>3, <2>4, SplitsAssumption
    <3>2. s = split[r] => i < pos[r]
      BY <2>1, <2>3
    <3> QED
      BY <3>1, <3>2 DEF IInv, CursorInv, Busy
  <2> QED
    BY <2>2, <2>3, <2>4 DEF IInv, CursorInv, InSlice, CurrentKey
<1>5. DiskInv'
  BY <1>1 DEF IInv, TypeOK, DiskInv, Busy, CurrentKey, MyShard, MyFile
<1>6. TailInv'
  BY <1>1 DEF IInv, TypeOK, TailInv, MyShard
<1>7. NoDuplicateRows'
  BY DEF IInv, NoDuplicateRows
<1>8. MarkerInv'
  BY <1>1, MarkerKept DEF IInv, TypeOK, ShardDone, Busy, Finished
<1>9. MergeInv' /\ DumpInv'
  BY <1>1, RankFacts DEF IInv, TypeOK, MergeInv, DumpInv, ShardDone
<1>10. ReportComplete' /\ ReportCountsOnce'
  BY DEF IInv, ReportComplete, ReportCountsOnce
<1> QED
  BY <1>2, <1>3, <1>4, <1>5, <1>6, <1>7, <1>8, <1>9, <1>10 DEF IInv

\* Evaluating an annotation.
LEMMA EvaluateIInv ==
  ASSUME IInv, NEW r \in Ranks, Evaluate(r)
  PROVE  IInv'
<1> USE DEF Evaluate, fileVars, mergeVars
<1>1. r \in 0..(np - 1) /\ np \in ProcCounts /\ MyShard(r) \in Shards
  BY RankInLaunch
<1>2. TypeOK'
  <2>1. CurrentKey(r) \in Keys
    BY CurrentIsKey
  <2> QED
    BY <1>1, <2>1 DEF IInv, TypeOK, Alive, Stopped
<1>3. LaunchInv'
  BY <1>1 DEF IInv, TypeOK, LaunchInv
<1>4. CursorInv'
  BY <1>1 DEF IInv, TypeOK, CursorInv, Busy, InSlice, CurrentKey
<1>5. DiskInv'
  BY <1>1 DEF IInv, TypeOK, DiskInv, Busy, CurrentKey, MyShard, MyFile
<1>6. TailInv'
  BY <1>1 DEF IInv, TypeOK, TailInv, MyShard
<1>7. NoDuplicateRows'
  BY DEF IInv, NoDuplicateRows
<1>8. MarkerInv'
  BY <1>1, MarkerKept DEF IInv, TypeOK, ShardDone, Busy, Finished
<1>9. MergeInv' /\ DumpInv'
  BY <1>1, RankFacts DEF IInv, TypeOK, MergeInv, DumpInv, ShardDone
<1>10. ReportComplete' /\ ReportCountsOnce'
  BY DEF IInv, ReportComplete, ReportCountsOnce
<1> QED
  BY <1>2, <1>3, <1>4, <1>5, <1>6, <1>7, <1>8, <1>9, <1>10 DEF IInv

\* The first bytes of a row reach the file.
LEMMA FlushStartIInv ==
  ASSUME IInv, NEW r \in Ranks, FlushStart(r)
  PROVE  IInv'
<1> USE DEF FlushStart, mergeVars
<1>1. r \in 0..(np - 1) /\ np \in ProcCounts /\ MyShard(r) \in Shards
  BY RankInLaunch
<1>2. TypeOK'
  BY <1>1 DEF IInv, TypeOK, Alive, Stopped
<1>3. LaunchInv'
  BY <1>1 DEF IInv, TypeOK, LaunchInv
<1>4. CursorInv'
  BY <1>1 DEF IInv, TypeOK, CursorInv, Busy, InSlice, CurrentKey
<1>5. DiskInv'
  BY <1>1 DEF IInv, TypeOK, DiskInv, Busy, CurrentKey, MyShard, MyFile
<1>6. TailInv'
  BY <1>1 DEF IInv, TypeOK, TailInv, MyShard
<1>7. NoDuplicateRows'
  BY DEF IInv, NoDuplicateRows
<1>8. MarkerInv'
  BY <1>1, MarkerKept DEF IInv, TypeOK, ShardDone, Busy, Finished
<1>9. MergeInv' /\ DumpInv'
  BY <1>1, RankFacts DEF IInv, TypeOK, MergeInv, DumpInv, ShardDone
<1>10. ReportComplete' /\ ReportCountsOnce'
  BY DEF IInv, ReportComplete, ReportCountsOnce
<1> QED
  BY <1>2, <1>3, <1>4, <1>5, <1>6, <1>7, <1>8, <1>9, <1>10 DEF IInv

\* The row is in the file.
LEMMA FlushEndIInv ==
  ASSUME IInv, NEW r \in Ranks, FlushEnd(r)
  PROVE  IInv'
<1> USE DEF FlushEnd, mergeVars
<1>1. r \in 0..(np - 1) /\ np \in ProcCounts /\ MyShard(r) \in Shards
  BY RankInLaunch
<1>0. /\ rows' \in [Shards -> Seq(Row)]
      /\ \A s \in Shards : s # MyShard(r) => rows'[s] = rows[s]
      /\ RowKeys(rows'[MyShard(r)]) \subseteq RowKeys(MyFile(r)) \cup {CurrentKey(r)}
      /\ tail[MyShard(r)] # "bad" => CurrentKey(r) \in RowKeys(rows'[MyShard(r)])
      /\ \A s \in Shards : RowKeys(rows[s]) \subseteq RowKeys(rows'[s])
      /\ NoDuplicateRows'
  <2>1. CASE tail[MyShard(r)] = "part"
    <3>1. PICK a \in BOOLEAN :
            rows' = [rows EXCEPT ![MyShard(r)] =
                       Append(@, [key |-> CurrentKey(r), answered |-> a])]
      BY <2>1
    <3> HIDE DEF FlushEnd
    <3> QED BY <3>1, RowAdded DEF FlushEnd
  <2>2. CASE tail[MyShard(r)] # "part"
    BY <2>2, <1>1 DEF IInv, TypeOK, TailInv, NoDuplicateRows, MyFile
  <2> QED BY <2>1, <2>2
<1>t. /\ tail' \in [Shards -> {"clean", "open", "part", "bad"}]
      /\ \A s \in Shards : s # MyShard(r) => tail'[s] = tail[s]
      /\ tail'[MyShard(r)] \in {"clean", "bad"}
      /\ \A s \in Shards : tail[s] = "bad" <=> tail'[s] = "bad"
  BY <1>1 DEF IInv, TypeOK, TailInv
<1>d. \A n \in ProcCounts : \A q \in 0..(n - 1) : ShardDone(n, q) => ShardDone(n, q)'
  BY <1>0, <1>t, DoneKept
<1>p. /\ pc' = [pc EXCEPT ![r] = "evaluating"]
      /\ pos' = [pos EXCEPT ![r] = @ + 1]
      /\ pc[r] = "flushing"
      /\ np' = np /\ counts' = counts /\ split' = split /\ doneKeys' = doneKeys
      /\ marker' = marker /\ mergeVars' = mergeVars /\ reports' = reports /\ faults' = faults
  OBVIOUS
<1>o. \A q \in Ranks : q # r /\ pc[q] # "off" => MyShard(q) # MyShard(r) /\ MyShard(q) \in Shards
  BY <1>1, RankInLaunch, ShardInjective DEF MyShard
<1> HIDE DEF FlushEnd
<1>2. TypeOK'
  BY <1>0, <1>t, <1>p DEF IInv, TypeOK, Alive, mergeVars
<1>3. LaunchInv'
  BY <1>p DEF IInv, TypeOK, LaunchInv
<1>4. CursorInv'
  <2>1. \A s \in 1..Splits : FirstOf(np, r, s) \in Nat /\ LastOf(np, r, s) \in Nat
    BY <1>1, SliceFacts
  <2>2. ASSUME NEW q \in Ranks, q # r
        PROVE  pc[q] = pc'[q] /\ pos'[q] = pos[q]
    BY <1>p, <2>2 DEF IInv, TypeOK
  <2>3. pc'[r] = "evaluating" /\ pos'[r] = pos[r] + 1 /\ pos[r] \in Nat
    BY <1>p DEF IInv, TypeOK
  <2>4. CurrentKey(r) \in doneKeys[r]
    BY <1>p DEF IInv, CursorInv, Busy
  <2>5. ASSUME NEW s \in 1..Splits, NEW i \in FirstOf(np, r, s)..LastOf(np, r, s),
               s < split[r] \/ (s = split[r] /\ i < pos'[r])
        PROVE  Anno[s][i] \in doneKeys[r]
    <3>1. s < split[r] \/ (s = split[r] /\ i < pos[r]) \/ (s = split[r] /\ i = pos[r])
      BY <2>1, <2>3, <2>5
    <3> QED
      BY <1>p, <2>4, <3>1 DEF IInv, CursorInv, Busy, CurrentKey
  <2> QED
    BY <1>p, <2>2, <2>3, <2>5 DEF IInv, CursorInv, InSlice, CurrentKey
<1>5. DiskInv'
  <2>1. ASSUME NEW q \in Ranks, pc'[q] \in Busy, q # r
        PROVE  /\ pc[q] = pc'[q] /\ CurrentKey(q)' = CurrentKey(q)
               /\ MyFile(q)' = MyFile(q) /\ tail'[MyShard(q)] = tail[MyShard(q)]
    BY <1>0, <1>t, <1>p, <1>o, <2>1 DEF IInv, TypeOK, CurrentKey, MyFile, MyShard, Busy
  <2>2. /\ pc'[r] = "evaluating"
        /\ RowKeys(MyFile(r)') \subseteq doneKeys[r]
        /\ tail'[MyShard(r)] # "bad" => doneKeys[r] \subseteq RowKeys(MyFile(r)')
    <3>1. /\ RowKeys(MyFile(r)) \subseteq doneKeys[r] /\ CurrentKey(r) \in doneKeys[r]
          /\ tail[MyShard(r)] # "bad" => doneKeys[r] \subseteq RowKeys(MyFile(r)) \cup {CurrentKey(r)}
      BY <1>p DEF IInv, CursorInv, DiskInv, Busy
    <3>2. MyFile(r)' = rows'[MyShard(r)] /\ MyFile(r) = rows[MyShard(r)]
      BY <1>p DEF MyFile, MyShard
    <3> QED
      BY <1>0, <1>1, <1>t, <1>p, <3>1, <3>2 DEF IInv, TypeOK
  <2> QED
    BY <1>p, <2>1, <2>2 DEF IInv, DiskInv, MyShard
<1>6. TailInv'
  BY <1>1, <1>t, <1>p, <1>o DEF IInv, TypeOK, TailInv, MyShard
<1>7. NoDuplicateRows'
  BY <1>0
<1>8. MarkerInv'
  BY <1>d, <1>p, MarkerKept DEF IInv, TypeOK, Busy, Finished
<1>9. MergeInv' /\ DumpInv'
  BY <1>d, <1>p, MergeKept DEF IInv, TypeOK, DumpInv
<1>10. ReportComplete' /\ ReportCountsOnce'
  BY <1>p DEF IInv, ReportComplete, ReportCountsOnce
<1> QED
  BY <1>2, <1>3, <1>4, <1>5, <1>6, <1>7, <1>8, <1>9, <1>10 DEF IInv

\* A rank ends its slice.
LEMMA WriteMarkerIInv ==
  ASSUME IInv, NEW r \in Ranks, WriteMarker(r)
  PROVE  IInv'
<1> USE DEF WriteMarker, mergeVars
<1>1. r \in 0..(np - 1) /\ np \in ProcCounts /\ MyShard(r) \in Shards
  BY RankInLaunch
<1>2. TypeOK'
  BY <1>1 DEF IInv, TypeOK, Alive, Stopped
<1>3. LaunchInv'
  BY <1>1 DEF IInv, TypeOK, LaunchInv
<1>4. CursorInv'
  BY <1>1 DEF IInv, TypeOK, CursorInv, Busy, InSlice, CurrentKey
<1>5. DiskInv'
  BY <1>1 DEF IInv, TypeOK, DiskInv, Busy, CurrentKey, MyShard, MyFile
<1>6. TailInv'
  BY <1>1 DEF IInv, TypeOK, TailInv, MyShard
<1>7. NoDuplicateRows'
  BY DEF IInv, NoDuplicateRows
<1>8. MarkerInv'
  <2>1. ShardDone(np, r)
    <3>1. LocalKeys(np, r) \subseteq doneKeys[r]
      <4>1. ASSUME NEW s \in 1..Splits, NEW i \in FirstOf(np, r, s)..LastOf(np, r, s)
            PROVE  Anno[s][i] \in doneKeys[r]
        <5>1. s < split[r]
          BY SplitsAssumption
        <5> QED BY <5>1 DEF IInv, CursorInv, Busy
      <4> QED BY <4>1 DEF LocalKeys
    <3>2. tail[MyShard(r)] # "bad" => doneKeys[r] \subseteq RowKeys(MyFile(r))
      BY DEF IInv, DiskInv, Busy
    <3> QED BY <3>1, <3>2 DEF ShardDone, MyShard, MyFile
  <2>2. \A n, q : ShardDone(n, q)' <=> ShardDone(n, q)
    BY DEF ShardDone
  <2>3. \A s \in Shards : s # MyShard(r) => marker'[s] = marker[s]
    BY DEF IInv, TypeOK
  <2>4. np \in counts /\ Shard(np, r) = MyShard(r)
    BY DEF IInv, LaunchInv, MyShard
  <2>5. ASSUME NEW s \in Shards, marker'[s]
        PROVE  \E n \in counts : \E q \in 0..(n - 1) : Shard(n, q) = s /\ ShardDone(n, q)
    <3>1. CASE s = MyShard(r)
      BY <1>1, <2>1, <2>4, <3>1
    <3>2. CASE s # MyShard(r)
      BY <2>3, <2>5, <3>2 DEF IInv, MarkerInv
    <3> QED BY <3>1, <3>2
  <2>6. ASSUME NEW q \in Ranks, pc'[q] \in Busy \cup {"resuming"}
        PROVE  ~marker'[MyShard(q)]
    <3>1. q # r /\ pc[q] = pc'[q]
      BY <2>6 DEF IInv, TypeOK, Busy
    <3>2. MyShard(q) # MyShard(r) /\ MyShard(q) \in Shards
      BY <1>1, <2>6, <3>1, RankInLaunch, ShardInjective DEF MyShard, Busy
    <3> QED BY <2>3, <2>6, <3>1, <3>2 DEF IInv, MarkerInv
  <2>7. ASSUME NEW q \in Ranks, pc'[q] \in Finished
        PROVE  ShardDone(np, q)
    BY <2>1, <2>7 DEF IInv, TypeOK, MarkerInv
  <2> QED
    BY <2>2, <2>5, <2>6, <2>7 DEF MarkerInv, MyShard
<1>9. MergeInv' /\ DumpInv'
  BY <1>1, RankFacts DEF IInv, TypeOK, MergeInv, DumpInv, ShardDone
<1>10. ReportComplete' /\ ReportCountsOnce'
  BY DEF IInv, ReportComplete, ReportCountsOnce
<1> QED
  BY <1>2, <1>3, <1>4, <1>5, <1>6, <1>7, <1>8, <1>9, <1>10 DEF IInv

\* Rank 0 has found all markers.
LEMMA MarkersFoundIInv ==
  ASSUME IInv, MarkersFound
  PROVE  IInv'
<1> USE DEF MarkersFound, fileVars
<1>1. np \in ProcCounts /\ np \in Nat \ {0} /\ 0 \in 0..(np - 1) /\ 0 \in Ranks /\ MyShard(0) \in Shards
  BY RankInLaunch, RankFacts
<1>2. TypeOK'
  BY <1>1 DEF IInv, TypeOK, Alive, Stopped
<1>3. LaunchInv'
  BY <1>1 DEF IInv, TypeOK, LaunchInv
<1>4. CursorInv'
  BY <1>1 DEF IInv, TypeOK, CursorInv, Busy, InSlice, CurrentKey
<1>5. DiskInv'
  BY <1>1 DEF IInv, TypeOK, DiskInv, Busy, CurrentKey, MyShard, MyFile
<1>6. TailInv'
  BY <1>1 DEF IInv, TypeOK, TailInv, MyShard
<1>7. NoDuplicateRows'
  BY DEF IInv, NoDuplicateRows
<1>8. MarkerInv'
  BY <1>1, MarkerKept DEF IInv, TypeOK, ShardDone, Busy, Finished
<1>9. MergeInv' /\ DumpInv'
  <2>1. ASSUME counts = {np}, NEW q \in 0..(np - 1)
        PROVE  ShardDone(np, q)
    <3>1. CASE np = 1
      <4>1. q = 0
        BY <3>1
      <4> QED BY <1>1, <4>1 DEF IInv, MarkerInv, Finished
    <3>2. CASE Missing = {}
      <4>1. marker[Shard(np, q)] /\ Shard(np, q) \in Shards
        BY <1>1, <3>2, RankFacts DEF Missing
      <4>2. \E p \in 0..(np - 1) : Shard(np, p) = Shard(np, q) /\ ShardDone(np, p)
        BY <2>1, <4>1 DEF IInv, MarkerInv
      <4> QED BY <1>1, <4>2, ShardInjective
    <3> QED BY <3>1, <3>2
  <2>2. \A q : ShardDone(np, q)' <=> ShardDone(np, q)
    BY DEF ShardDone
  <2>3. pc'[0] = "merging" /\ {row.key : row \in {}} = {}
    BY <1>1 DEF IInv, TypeOK
  <2> QED
    BY <1>1, <2>1, <2>2, <2>3 DEF MergeInv, DumpInv
<1>10. ReportComplete' /\ ReportCountsOnce'
  BY DEF IInv, ReportComplete, ReportCountsOnce
<1> QED
  BY <1>2, <1>3, <1>4, <1>5, <1>6, <1>7, <1>8, <1>9, <1>10 DEF IInv

\* Rank 0 gives up.
LEMMA TimeoutIInv ==
  ASSUME IInv, Timeout
  PROVE  IInv'
<1> USE DEF Timeout, fileVars, mergeVars
<1>1. np \in ProcCounts /\ np \in Nat \ {0} /\ 0 \in 0..(np - 1) /\ 0 \in Ranks /\ MyShard(0) \in Shards
  BY RankInLaunch, RankFacts
<1>2. TypeOK'
  BY <1>1 DEF IInv, TypeOK, Alive, Stopped
<1>3. LaunchInv'
  BY <1>1 DEF IInv, TypeOK, LaunchInv
<1>4. CursorInv'
  BY <1>1 DEF IInv, TypeOK, CursorInv, Busy, InSlice, CurrentKey
<1>5. DiskInv'
  BY <1>1 DEF IInv, TypeOK, DiskInv, Busy, CurrentKey, MyShard, MyFile
<1>6. TailInv'
  BY <1>1 DEF IInv, TypeOK, TailInv, MyShard
<1>7. NoDuplicateRows'
  BY DEF IInv, NoDuplicateRows
<1>8. MarkerInv'
  BY <1>1, MarkerKept DEF IInv, TypeOK, ShardDone, Busy, Finished
<1>9. MergeInv' /\ DumpInv'
  BY <1>1, RankFacts DEF IInv, TypeOK, MergeInv, DumpInv, ShardDone
<1>10. ReportComplete' /\ ReportCountsOnce'
  BY DEF IInv, ReportComplete, ReportCountsOnce
<1> QED
  BY <1>2, <1>3, <1>4, <1>5, <1>6, <1>7, <1>8, <1>9, <1>10 DEF IInv

\* Rank 0 reads a shard.
LEMMA MergeShardIInv ==
  ASSUME IInv, MergeShard
  PROVE  IInv'
<1> USE DEF MergeShard, fileVars, mergeVars
<1>1. np \in ProcCounts /\ np \in Nat \ {0} /\ 0 \in 0..(np - 1) /\ 0 \in Ranks /\ MyShard(0) \in Shards
  BY RankInLaunch, RankFacts
<1> DEFINE s == Shard(np, next)
           added == {KeptRow(s, i) : i \in FreshLines(s)}
<1>s. next \in 0..(np - 1) /\ s \in Shards
  BY <1>1, RankFacts DEF IInv, TypeOK
<1>f. ASSUME NEW i \in FreshLines(s)
      PROVE  /\ i \in DOMAIN rows[s] /\ i \in Nat \ {0}
             /\ rows[s][i] \in Row /\ KeptRow(s, i) \in Kept
             /\ KeptRow(s, i).key = rows[s][i].key /\ rows[s][i].key \notin seen
  <2>1. rows[s] \in Seq(Row) /\ i \in DOMAIN rows[s] /\ rows[s][i].key \notin seen
    BY <1>s DEF IInv, TypeOK, FreshLines
  <2>2. i \in Nat \ {0} /\ rows[s][i] \in Row
    BY <2>1
  <2>3. rows[s][i].key \in Keys /\ rows[s][i].answered \in BOOLEAN
    BY <2>2 DEF Row
  <2> QED BY <1>s, <2>1, <2>2, <2>3 DEF KeptRow, Kept
<1>2. TypeOK'
  <2>1. added \subseteq Kept
    BY <1>f
  <2>2. RowKeys(rows[s]) \subseteq Keys
    BY <1>s, RowKeysType DEF IInv, TypeOK
  <2> HIDE DEF added
  <2>3. merged' \subseteq Kept /\ seen' \subseteq Keys /\ next' \in Nat
    BY <2>1, <2>2 DEF IInv, TypeOK, added
  <2> QED
    BY <1>1, <2>3 DEF IInv, TypeOK, Stopped
<1>3. LaunchInv'
  BY <1>1 DEF IInv, TypeOK, LaunchInv
<1>4. CursorInv'
  BY <1>1 DEF IInv, TypeOK, CursorInv, Busy, InSlice, CurrentKey
<1>5. DiskInv'
  BY <1>1 DEF IInv, TypeOK, DiskInv, Busy, CurrentKey, MyShard, MyFile
<1>6. TailInv'
  BY <1>1 DEF IInv, TypeOK, TailInv, MyShard
<1>7. NoDuplicateRows'
  BY DEF IInv, NoDuplicateRows
<1>8. MarkerInv'
  BY <1>1, MarkerKept DEF IInv, TypeOK, ShardDone, Busy, Finished
<1>9. MergeInv' /\ DumpInv'
  <2> SUFFICES ASSUME pc'[0] \in {"merging", "dumping"} PROVE MergeInv' /\ DumpInv'
    BY DEF MergeInv, DumpInv
  <2>1. Readable(s)
    BY <1>1 DEF IInv, TypeOK
  <2>2. /\ merged' = merged \cup added /\ seen' = seen \cup RowKeys(rows[s])
        /\ next' = next + 1 /\ pc' = pc /\ pc[0] = "merging"
    BY <2>1
  <2>3. /\ seen = {row.key : row \in merged}
        /\ \A x, y \in merged : x.key = y.key => x = y
    BY DEF IInv, MergeInv
  <2>4. {row.key : row \in added} = {rows[s][i].key : i \in FreshLines(s)}
    BY <1>f
  <2>5. RowKeys(rows[s]) \subseteq seen \cup {rows[s][i].key : i \in FreshLines(s)}
    <3> SUFFICES ASSUME NEW i \in DOMAIN rows[s], rows[s][i].key \notin seen
                 PROVE  i \in FreshLines(s)
      BY DEF RowKeys
    <3>1. rows[s] \in Seq(Row)
      BY <1>s DEF IInv, TypeOK
    <3>2. \A j \in 1..(i - 1) : j \in DOMAIN rows[s] /\ j # i
      BY <3>1
    <3>3. \A j \in 1..(i - 1) : rows[s][j].key # rows[s][i].key
      BY <1>s, <3>2 DEF IInv, NoDuplicateRows
    <3> QED BY <3>3 DEF FreshLines
  <2>6. {rows[s][i].key : i \in FreshLines(s)} \subseteq RowKeys(rows[s])
    BY <1>f DEF RowKeys
  <2>7. seen' = {row.key : row \in merged'}
    <3> DEFINE fresh == {rows[s][i].key : i \in FreshLines(s)}
    <3>1. {row.key : row \in merged \cup added} =
            {row.key : row \in merged} \cup {row.key : row \in added}
      <4> HIDE DEF added
      <4> QED OBVIOUS
    <3>2. {row.key : row \in merged'} = seen \cup fresh
      BY <2>2, <2>3, <2>4, <3>1
    <3> HIDE DEF fresh
    <3>3. RowKeys(rows[s]) \subseteq seen \cup fresh /\ fresh \subseteq RowKeys(rows[s])
      BY <2>5, <2>6 DEF fresh
    <3> QED BY <2>2, <3>2, <3>3
  <2>8. ASSUME NEW x \in merged', NEW y \in merged', x.key = y.key
        PROVE  x = y
    <3>1. CASE x \in merged /\ y \in merged
      BY <2>3, <2>8, <3>1
    <3>2. CASE x \in added /\ y \in merged
      BY <1>f, <2>3, <2>8, <3>2
    <3>3. CASE x \in merged /\ y \in added
      BY <1>f, <2>3, <2>8, <3>3
    <3>4. CASE x \in added /\ y \in added
      <4>1. PICK i \in FreshLines(s) : x = KeptRow(s, i)
        BY <3>4
      <4>2. PICK j \in FreshLines(s) : y = KeptRow(s, j)
        BY <3>4
      <4>3. i = j
        BY <1>s, <1>f, <2>8, <4>1, <4>2 DEF IInv, NoDuplicateRows
      <4> QED BY <4>1, <4>2, <4>3
    <3> QED BY <2>2, <3>1, <3>2, <3>3, <3>4
  <2>9. \A q : ShardDone(np, q)' <=> ShardDone(np, q)
    BY DEF ShardDone
  <2>10. counts = {np} => LocalKeys(np, next) \subseteq RowKeys(rows[s])
    <3>1. counts = {np} => ShardDone(np, next)
      BY <1>s, <2>2 DEF IInv, TypeOK, MergeInv
    <3> QED BY <2>1, <3>1 DEF ShardDone, Readable
  <2>11. ASSUME counts = {np}, NEW q \in 0..(np - 1)
         PROVE  /\ q < next' => LocalKeys(np, q) \subseteq seen'
                /\ q >= next' => ShardDone(np, q)
    <3>1. q < next \/ q = next \/ q > next
      BY <1>1, <1>s
    <3>2. CASE q < next
      BY <1>1, <1>s, <2>2, <2>11, <3>2 DEF IInv, MergeInv
    <3>3. CASE q = next
      BY <1>1, <1>s, <2>2, <2>10, <2>11, <3>3
    <3>4. CASE q > next
      BY <1>1, <1>s, <2>2, <2>11, <3>4 DEF IInv, MergeInv
    <3> QED BY <3>1, <3>2, <3>3, <3>4
  <2>12. next' <= np
    BY <1>1, <1>s, <2>2
  <2> HIDE DEF added, s
  <2>13. DumpInv'
    BY <2>2 DEF DumpInv
  <2> QED
    BY <2>7, <2>8, <2>9, <2>11, <2>12, <2>13 DEF MergeInv
<1>10. ReportComplete' /\ ReportCountsOnce'
  BY DEF IInv, ReportComplete, ReportCountsOnce
<1> QED
  BY <1>2, <1>3, <1>4, <1>5, <1>6, <1>7, <1>8, <1>9, <1>10 DEF IInv

\* The report is opened.
LEMMA OpenReportIInv ==
  ASSUME IInv, OpenReport
  PROVE  IInv'
<1> USE DEF OpenReport, fileVars, mergeVars
<1>1. np \in ProcCounts /\ np \in Nat \ {0} /\ 0 \in 0..(np - 1) /\ 0 \in Ranks /\ MyShard(0) \in Shards
  BY RankInLaunch, RankFacts
<1>2. TypeOK'
  <2> DEFINE rep == [np |-> np, counts |-> counts, whole |-> FALSE, kept |-> merged]
  <2>1. rep \in Report
    BY DEF IInv, TypeOK, Report
  <2> HIDE DEF rep
  <2>2. reports' = Append(reports, rep)
    BY DEF rep
  <2>3. reports' \in Seq(Report)
    BY <2>1, <2>2 DEF IInv, TypeOK
  <2> QED
    BY <1>1, <2>3 DEF IInv, TypeOK, Alive
<1>3. LaunchInv'
  BY <1>1 DEF IInv, TypeOK, LaunchInv
<1>4. CursorInv'
  BY <1>1 DEF IInv, TypeOK, CursorInv, Busy, InSlice, CurrentKey
<1>5. DiskInv'
  BY <1>1 DEF IInv, TypeOK, DiskInv, Busy, CurrentKey, MyShard, MyFile
<1>6. TailInv'
  BY <1>1 DEF IInv, TypeOK, TailInv, MyShard
<1>7. NoDuplicateRows'
  BY DEF IInv, NoDuplicateRows
<1>8. MarkerInv'
  BY <1>1, MarkerKept DEF IInv, TypeOK, ShardDone, Busy, Finished
<1>9. MergeInv' /\ DumpInv'
  <2>1. \A q : ShardDone(np, q)' <=> ShardDone(np, q)
    BY DEF ShardDone
  <2>2. reports \in Seq(Report)
    BY DEF IInv, TypeOK
  <2>3. DumpInv'
    BY <2>2 DEF DumpInv
  <2> QED
    BY <1>1, <2>1, <2>3 DEF IInv, MergeInv
<1>10. ReportComplete' /\ ReportCountsOnce'
  <2> DEFINE rep == [np |-> np, counts |-> counts, whole |-> FALSE, kept |-> merged]
  <2>1. /\ rep.kept = merged /\ rep.np = np /\ rep.counts = counts
        /\ Uniform(rep) <=> counts = {np}
        /\ ReportKeys(rep) = {row.key : row \in merged}
    BY DEF Uniform, ReportKeys
  <2>2. \A x, y \in rep.kept : x.key = y.key => x = y
    BY <2>1 DEF IInv, MergeInv
  <2>3. Uniform(rep) => ReportKeys(rep) = Keys
    <3>1. SUFFICES ASSUME counts = {np} PROVE Keys \subseteq seen /\ seen \subseteq Keys
      BY <2>1 DEF IInv, MergeInv
    <3>2. \A q \in 0..(np - 1) : LocalKeys(np, q) \subseteq seen
      BY <1>1, <3>1 DEF IInv, MergeInv
    <3> QED
      BY <1>1, <3>2, AllAssigned DEF IInv, TypeOK
  <2>4. /\ reports \in Seq(Report)
        /\ reports' = Append(reports, rep)
    BY DEF IInv, TypeOK
  <2> HIDE DEF rep
  <2>5. \A i \in DOMAIN reports' : reports'[i] = rep \/ (i \in DOMAIN reports /\ reports'[i] = reports[i])
    BY <2>4
  <2> QED
    BY <2>2, <2>3, <2>5 DEF IInv, ReportComplete, ReportCountsOnce
<1> QED
  BY <1>2, <1>3, <1>4, <1>5, <1>6, <1>7, <1>8, <1>9, <1>10 DEF IInv

\* The report is closed.
LEMMA CloseReportIInv ==
  ASSUME IInv, CloseReport
  PROVE  IInv'
<1> USE DEF CloseReport, fileVars, mergeVars
<1>1. np \in ProcCounts /\ np \in Nat \ {0} /\ 0 \in 0..(np - 1) /\ 0 \in Ranks /\ MyShard(0) \in Shards
  BY RankInLaunch, RankFacts
<1>e. /\ reports' \in Seq(Report)
      /\ DOMAIN reports' = DOMAIN reports
      /\ \A i \in DOMAIN reports : /\ reports'[i].np = reports[i].np
                                   /\ reports'[i].counts = reports[i].counts
                                   /\ reports'[i].kept = reports[i].kept
  <2>1. reports \in Seq(Report) /\ Len(reports) \in DOMAIN reports
    BY <1>1 DEF IInv, TypeOK, DumpInv
  <2>2. ASSUME NEW rep \in Report
        PROVE  /\ [rep EXCEPT !.whole = TRUE] \in Report
               /\ [rep EXCEPT !.whole = TRUE].np = rep.np
               /\ [rep EXCEPT !.whole = TRUE].counts = rep.counts
               /\ [rep EXCEPT !.whole = TRUE].kept = rep.kept
    BY DEF Report
  <2>3. reports[Len(reports)] \in Report
    BY <2>1
  <2>4. reports' = [reports EXCEPT ![Len(reports)] = [reports[Len(reports)] EXCEPT !.whole = TRUE]]
    BY <2>1
  <2> HIDE DEF CloseReport
  <2> QED BY <2>1, <2>2, <2>3, <2>4
<1>2. TypeOK'
  BY <1>1, <1>e DEF IInv, TypeOK, Stopped
<1>3. LaunchInv'
  BY <1>1 DEF IInv, TypeOK, LaunchInv
<1>4. CursorInv'
  BY <1>1 DEF IInv, TypeOK, CursorInv, Busy, InSlice, CurrentKey
<1>5. DiskInv'
  BY <1>1 DEF IInv, TypeOK, DiskInv, Busy, CurrentKey, MyShard, MyFile
<1>6. TailInv'
  BY <1>1 DEF IInv, TypeOK, TailInv, MyShard
<1>7. NoDuplicateRows'
  BY DEF IInv, NoDuplicateRows
<1>8. MarkerInv'
  BY <1>1, MarkerKept DEF IInv, TypeOK, ShardDone, Busy, Finished
<1>9. MergeInv' /\ DumpInv'
  BY <1>1, RankFacts DEF IInv, TypeOK, MergeInv, DumpInv, ShardDone
<1>10. ReportComplete' /\ ReportCountsOnce'
  <2>1. \A i \in DOMAIN reports : /\ Uniform(reports'[i]) <=> Uniform(reports[i])
                                  /\ ReportKeys(reports'[i]) = ReportKeys(reports[i])
    BY <1>e DEF Uniform, ReportKeys
  <2>2. DOMAIN reports' = DOMAIN reports
    BY <1>e
  <2>3. \A i \in DOMAIN reports : reports'[i].kept = reports[i].kept
    BY <1>e
  <2> HIDE DEF CloseReport
  <2>4. ReportComplete'
    BY <2>1, <2>2 DEF IInv, ReportComplete
  <2>5. ReportCountsOnce'
    BY <2>2, <2>3 DEF IInv, ReportCountsOnce
  <2> QED
    BY <2>4, <2>5
<1> QED
  BY <1>2, <1>3, <1>4, <1>5, <1>6, <1>7, <1>8, <1>9, <1>10 DEF IInv

\* The end of a process, by a crash or by the launcher: the line it was
\* writing may be cut.
LEMMA StopIInv ==
  ASSUME IInv, NEW r \in Ranks, pc[r] \in Alive, Cut(r),
         pc' = [pc EXCEPT ![r] = "failed"], faults' \in Nat,
         UNCHANGED <<np, counts, split, pos, doneKeys, marker, mergeVars, reports>>
  PROVE  IInv'
<1>1. r \in 0..(np - 1) /\ np \in ProcCounts /\ MyShard(r) \in Shards
  BY RankInLaunch DEF Alive
<1>2. /\ rows' \in [Shards -> Seq(Row)]
      /\ \A s \in Shards : s # MyShard(r) => rows'[s] = rows[s]
      /\ \A s \in Shards : RowKeys(rows[s]) \subseteq RowKeys(rows'[s])
      /\ NoDuplicateRows'
  <2>1. CASE rows' = rows
    BY <2>1 DEF IInv, TypeOK, NoDuplicateRows
  <2>2. CASE rows' # rows
    <3>1. pc[r] = "flushing"
      BY <2>2 DEF Cut
    <3>2. PICK a \in BOOLEAN :
            rows' = [rows EXCEPT ![MyShard(r)] =
                       Append(@, [key |-> CurrentKey(r), answered |-> a])]
      BY <2>2 DEF Cut
    <3> QED BY <3>1, <3>2, RowAdded
  <2> QED BY <2>1, <2>2
<1>3. /\ tail' \in [Shards -> {"clean", "open", "part", "bad"}]
      /\ \A s \in Shards : s # MyShard(r) => tail'[s] = tail[s]
      /\ \A s \in Shards : tail[s] = "bad" => tail'[s] = "bad"
      /\ pc[r] = "flushing" => tail'[MyShard(r)] # "part"
      /\ pc[r] # "flushing" => tail' = tail
  BY <1>1 DEF Cut, IInv, TypeOK, TailInv
<1>4. \A n \in ProcCounts : \A q \in 0..(n - 1) : ShardDone(n, q) => ShardDone(n, q)'
  BY <1>2, <1>3, DoneKept
<1>5. ASSUME NEW q \in Ranks, q # r, pc[q] # "off"
      PROVE  MyShard(q) # MyShard(r) /\ MyShard(q) \in Shards /\ pc'[q] = pc[q]
  BY <1>1, <1>5, RankInLaunch, ShardInjective DEF MyShard, IInv, TypeOK
<1>6. pc'[r] = "failed"
  BY DEF IInv, TypeOK
<1>7. ASSUME NEW q \in Ranks, pc'[q] \notin Stopped
      PROVE  q # r /\ pc'[q] = pc[q] /\ MyShard(q) # MyShard(r) /\ MyShard(q) \in Shards
  <2>1. q # r
    BY <1>6, <1>7 DEF Stopped
  <2>2. pc'[q] = pc[q] /\ pc[q] # "off"
    BY <1>7, <2>1 DEF IInv, TypeOK, Stopped
  <2> QED BY <1>5, <2>1, <2>2
<1>8. TypeOK'
  BY <1>2, <1>3 DEF IInv, TypeOK, Stopped, mergeVars
<1>9. LaunchInv'
  <2>0. pc[r] # "off"
    BY DEF Alive
  <2>1. r < np
    BY <2>0 DEF IInv, LaunchInv
  <2>2. \A q \in Ranks : q # r => pc'[q] = pc[q]
    BY DEF IInv, TypeOK
  <2>3. np' = np /\ counts' = counts
    OBVIOUS
  <2> QED
    BY <1>6, <2>1, <2>2, <2>3 DEF IInv, LaunchInv
<1>10. CursorInv'
  BY <1>7 DEF IInv, TypeOK, CursorInv, Busy, Stopped, InSlice, CurrentKey
<1>11. DiskInv'
  BY <1>2, <1>3, <1>7 DEF IInv, TypeOK, DiskInv, Busy, Stopped, CurrentKey, MyShard, MyFile
<1>12. TailInv'
  <2>1. ASSUME NEW q \in Ranks, pc'[q] = "flushing"
        PROVE  tail'[MyShard(q)] \in {"part", "bad"}
    BY <1>3, <1>7, <2>1 DEF IInv, TailInv, Stopped
  <2>2. ASSUME NEW s \in Shards, tail'[s] = "part"
        PROVE  \E q \in Ranks : pc'[q] = "flushing" /\ MyShard(q) = s
    <3>1. tail[s] = "part"
      BY <1>1, <1>3, <2>2 DEF Cut, IInv, TypeOK
    <3>2. PICK q \in Ranks : pc[q] = "flushing" /\ MyShard(q) = s
      BY <3>1 DEF IInv, TailInv
    <3>3. q # r
      BY <1>3, <2>2, <3>2
    <3> QED BY <3>2, <3>3 DEF IInv, TypeOK
  <2> QED BY <2>1, <2>2 DEF TailInv, MyShard
<1>13. MarkerInv'
  BY <1>4, <1>6, <1>7, MarkerKept DEF Busy, Finished, Stopped, IInv, TypeOK
<1>14. MergeInv' /\ DumpInv'
  <2>1. pc'[0] \in {"merging", "dumping"} => pc[0] = pc'[0]
    BY RankFacts, <1>6, <1>7 DEF Stopped
  <2> QED BY <1>4, <2>1, MergeKept DEF IInv, DumpInv
<1>15. ReportComplete' /\ ReportCountsOnce'
  BY DEF IInv, ReportComplete, ReportCountsOnce
<1> QED
  BY <1>2, <1>8, <1>9, <1>10, <1>11, <1>12, <1>13, <1>14, <1>15 DEF IInv

\* A new launch over the same directory.
LEMMA RelaunchIInv ==
  ASSUME IInv, Relaunch
  PROVE  IInv'
<1> USE DEF Relaunch, fileVars, mergeVars
<1>1. /\ np' \in ProcCounts /\ np' \in Nat \ {0}
      /\ counts' = counts \cup {np'} /\ pc' = Launched(np')
      /\ \A r \in Ranks : pc'[r] = IF r < np' THEN "loading" ELSE "off"
  BY RankFacts DEF Launched
<1>2. TypeOK'
  BY <1>1 DEF IInv, TypeOK, Launched, Alive, Stopped
<1>3. LaunchInv'
  BY <1>1 DEF LaunchInv
<1>4. CursorInv' /\ DiskInv'
  BY <1>1 DEF CursorInv, DiskInv, Busy
<1>5. TailInv'
  BY <1>1 DEF IInv, TailInv, Stopped
<1>6. NoDuplicateRows'
  BY DEF IInv, NoDuplicateRows
<1>7. MarkerInv'
  <2>1. \A n, q : ShardDone(n, q)' <=> ShardDone(n, q)
    BY DEF ShardDone
  <2>2. \A r \in Ranks : pc'[r] \notin Busy \cup {"resuming"} /\ pc'[r] \notin Finished
    BY <1>1 DEF Busy, Finished
  <2> QED BY <1>1, <2>1, <2>2 DEF IInv, MarkerInv
<1>8. MergeInv' /\ DumpInv'
  BY <1>1, RankFacts DEF MergeInv, DumpInv
<1>9. ReportComplete' /\ ReportCountsOnce'
  BY DEF IInv, ReportComplete, ReportCountsOnce
<1> QED
  BY <1>2, <1>3, <1>4, <1>5, <1>6, <1>7, <1>8, <1>9 DEF IInv

\* Every step keeps the invariant.
LEMMA NextIInv == IInv /\ [Next]_vars => IInv'
<1> SUFFICES ASSUME IInv, [Next]_vars PROVE IInv'
  OBVIOUS
<1>1. ASSUME NEW r \in Ranks, RankStep(r) PROVE IInv'
  BY <1>1, ClearMarkerIInv, ResumeIInv, SkipIInv, NextSplitIInv, EvaluateIInv,
     FlushStartIInv, FlushEndIInv, WriteMarkerIInv DEF RankStep
<1>2. ASSUME NEW r \in Ranks, Crash(r) \/ LauncherKill(r) PROVE IInv'
  <2>1. faults' \in Nat
    BY <1>2 DEF IInv, TypeOK, Crash, LauncherKill
  <2> QED BY <1>2, <2>1, StopIInv DEF Crash, LauncherKill
<1>3. CASE Collect
  BY <1>3, MarkersFoundIInv, MergeShardIInv, OpenReportIInv, CloseReportIInv DEF Collect
<1>4. CASE Timeout
  BY <1>4, TimeoutIInv
<1>5. CASE Relaunch
  BY <1>5, RelaunchIInv
<1>6. CASE UNCHANGED vars
  <2> USE <1>6 DEF vars, rankVars, fileVars, mergeVars
  <2>1. TypeOK' /\ LaunchInv' /\ NoDuplicateRows' /\ DumpInv'
    BY DEF IInv, TypeOK, LaunchInv, NoDuplicateRows, DumpInv
  <2>2. CursorInv' /\ DiskInv'
    BY DEF IInv, CursorInv, DiskInv, InSlice, CurrentKey, MyShard, MyFile
  <2>3. TailInv'
    BY DEF IInv, TailInv, MyShard
  <2>4. MarkerInv' /\ MergeInv'
    BY DEF IInv, MarkerInv, MergeInv, ShardDone, MyShard
  <2>5. ReportComplete' /\ ReportCountsOnce'
    BY DEF IInv, ReportComplete, ReportCountsOnce
  <2> QED
    BY <2>1, <2>2, <2>3, <2>4, <2>5 DEF IInv
<1> QED
  BY <1>1, <1>2, <1>3, <1>4, <1>5, <1>6 DEF Next

-----------------------------------------------------------------------------
(* Theorems                                                                *)

\* The evaluator's state is well typed in every reachable state, and the
\* strengthening the other theorems rest on holds.
THEOREM Invariance == Spec => []IInv
  BY InitIInv, NextIInv, PTL DEF Spec

\* The state of ranks, shard files, markers and reports is well typed.
THEOREM TypeCorrect == Spec => []TypeOK
<1>1. IInv => TypeOK
  BY DEF IInv
<1> QED
  BY <1>1, Invariance, PTL

\* Whatever crashes and restarts happen, no shard file holds a key twice.
THEOREM ResumeIsIdempotent == Spec => []NoDuplicateRows
<1>1. IInv => NoDuplicateRows
  BY DEF IInv
<1> QED
  BY <1>1, Invariance, PTL

\* A done marker stands for a shard that some launch completed.
THEOREM MarkersAreHonest == Spec => []MarkerHonest
<1>1. IInv => MarkerHonest
  <2> SUFFICES ASSUME IInv, NEW s \in Shards, marker[s], Readable(s)
               PROVE  \E n \in counts : \E r \in 0..(n - 1) :
                        Shard(n, r) = s /\ LocalKeys(n, r) \subseteq RowKeys(rows[s])
    BY DEF MarkerHonest
  <2>1. PICK n \in counts : \E r \in 0..(n - 1) : Shard(n, r) = s /\ ShardDone(n, r)
    BY DEF IInv, MarkerInv
  <2> QED BY <2>1 DEF ShardDone, Readable
<1> QED
  BY <1>1, Invariance, PTL

\* For every annotation set and every constant number of ranks, a report
\* holds a row for every annotation, whatever was killed on the way.
THEOREM ReportsAreComplete == Spec => []ReportComplete
<1>1. IInv => ReportComplete
  BY DEF IInv
<1> QED
  BY <1>1, Invariance, PTL

\* A report counts an annotation once, also when several shards hold it.
THEOREM ReportsCountOnce == Spec => []ReportCountsOnce
<1>1. IInv => ReportCountsOnce
  BY DEF IInv
<1> QED
  BY <1>1, Invariance, PTL

-----------------------------------------------------------------------------
(* Repeated evaluations                                                    *)

\* The lines of rank r's shard that a merge of n shards keeps: the first with
\* a key that no shard of an earlier rank holds.
FirstLines(f, n, r) ==
  {i \in DOMAIN f[Shard(n, r)] :
     /\ \A q \in 0..(r - 1) : f[Shard(n, r)][i].key \notin RowKeys(f[Shard(n, q)])
     /\ \A j \in 1..(i - 1) : f[Shard(n, r)][j].key # f[Shard(n, r)][i].key}

RowOf(f, s, i) == [shard |-> s, line |-> i, key |-> f[s][i].key, answered |-> f[s][i].answered]

\* What a merge has kept after k shards of the files f.
FirstRows(f, n, k) ==
  UNION {{RowOf(f, Shard(n, r), i) : i \in FirstLines(f, n, r)} : r \in 0..(k - 1)}

\* A busy rank is not before its slice.
PosInv ==
  \A r \in Ranks : pc[r] \in Busy /\ split[r] <= Splits => pos[r] >= FirstOf(np, r, split[r])

\* Rank r's shard holds all of its slice.
Covered(n, r) == LocalKeys(n, r) \subseteq RowKeys(rows[Shard(n, r)])
Merging == pc[0] \in {"merging", "dumping"}

\* Under one rank count: shards that were merged are complete, what was merged
\* and reported is a function of the files, and so the same each time.
RerunInv ==
  /\ counts = {np} =>
       /\ \A r \in 0..(np - 1) : reports # <<>> \/ (Merging /\ r < next) => Covered(np, r)
       /\ Merging => /\ seen = UNION {RowKeys(rows[Shard(np, r)]) : r \in 0..(next - 1)}
                     /\ merged = FirstRows(rows, np, next)
       /\ \A i \in DOMAIN reports : reports[i].kept = FirstRows(rows, np, np)
  /\ RerunReproduces

\* What a merge keeps depends on the shards it reads.
LEMMA SameRows ==
  ASSUME NEW f, NEW g, NEW n, NEW k \in Nat, \A r \in 0..(k - 1) : f[Shard(n, r)] = g[Shard(n, r)]
  PROVE  FirstRows(f, n, k) = FirstRows(g, n, k)
<1>1. ASSUME NEW r \in 0..(k - 1)
      PROVE  /\ FirstLines(f, n, r) = FirstLines(g, n, r)
             /\ \A i : RowOf(f, Shard(n, r), i) = RowOf(g, Shard(n, r), i)
  <2>1. \A q \in 0..(r - 1) : q \in 0..(k - 1)
    OBVIOUS
  <2> QED BY <2>1 DEF FirstLines, RowOf
<1> QED BY <1>1 DEF FirstRows

\* The loops over a slice begin at its first annotation.
LEMMA NextPos == IInv /\ PosInv /\ [Next]_vars => PosInv'
<1> SUFFICES ASSUME IInv, PosInv, [Next]_vars, NEW r \in Ranks, pc'[r] \in Busy, split'[r] <= Splits
             PROVE  pos'[r] >= FirstOf(np', r, split'[r])
  BY DEF PosInv
<1>0. /\ pc \in [Ranks -> Alive \cup Stopped] /\ split \in [Ranks -> 1..(Splits + 1)]
      /\ pos \in [Ranks -> Nat \ {0}] /\ Splits \in Nat
  BY SplitsAssumption DEF IInv, TypeOK
<1>1. np' = np
  <2>1. ~Relaunch
    BY DEF Relaunch, Launched, Busy
  <2> QED BY <2>1 DEF Next, RankStep, Collect, ClearMarker, Resume, Skip, NextSplit, Evaluate, FlushStart,
              FlushEnd, WriteMarker, Crash, LauncherKill, MarkersFound, MergeShard, OpenReport,
              CloseReport, Timeout, vars
<1>2. \/ pc[r] \in Busy /\ split'[r] = split[r] /\ (pos'[r] = pos[r] \/ pos'[r] = pos[r] + 1)
      \/ Resume(r)
      \/ NextSplit(r)
  <2>1. CASE \E q \in Ranks : RankStep(q) \/ Crash(q) \/ LauncherKill(q)
    <3>1. PICK q \in Ranks : RankStep(q) \/ Crash(q) \/ LauncherKill(q)
      BY <2>1
    <3>2. CASE q # r
      BY <1>0, <3>1, <3>2 DEF RankStep, ClearMarker, Resume, Skip, NextSplit, Evaluate, FlushStart,
                              FlushEnd, WriteMarker, Crash, LauncherKill
    <3>3. CASE q = r
      BY <1>0, <3>1, <3>3 DEF RankStep, ClearMarker, Skip, Evaluate, FlushStart,
                              FlushEnd, WriteMarker, Crash, LauncherKill, Busy
    <3> QED BY <3>2, <3>3
  <2>2. CASE Collect \/ Timeout \/ UNCHANGED vars
    BY <1>0, <2>2, RankFacts DEF Collect, MarkersFound, MergeShard, OpenReport, CloseReport, Timeout, vars,
                        rankVars, Busy
  <2>3. CASE Relaunch
    BY <2>3 DEF Relaunch, Launched, Busy
  <2> QED BY <2>1, <2>2, <2>3 DEF Next
<1>3. CASE pc[r] \in Busy /\ split'[r] = split[r] /\ (pos'[r] = pos[r] \/ pos'[r] = pos[r] + 1)
  <2>1. pos[r] >= FirstOf(np, r, split[r]) /\ pos[r] \in Nat
    BY <1>0, <1>3 DEF PosInv
  <2>2. FirstOf(np, r, split[r]) \in Nat
    <3>1. np \in ProcCounts /\ r \in 0..(np - 1)
      BY <1>3, RankInLaunch DEF Busy
    <3>2. split[r] \in 1..Splits
      BY <1>0, <1>3
    <3> QED BY <3>1, <3>2, SliceFacts
  <2> QED BY <1>1, <1>3, <2>1, <2>2
<1>4. ASSUME Resume(r) \/ NextSplit(r) PROVE pos'[r] = FirstOf(np, r, split'[r]) /\ FirstOf(np, r, split'[r]) \in Nat
  <2>1. np \in ProcCounts /\ r \in 0..(np - 1)
    BY <1>4, RankInLaunch DEF Resume, NextSplit
  <2>2. CASE Resume(r)
    <3>1. pos'[r] = FirstOf(np, r, 1) /\ split'[r] = 1 /\ 1 \in 1..Splits
      BY <1>0, <2>2, SplitsAssumption DEF Resume, Busy
    <3> QED BY <2>1, <3>1, SliceFacts
  <2>3. CASE NextSplit(r)
    <3>1. split'[r] = split[r] + 1 /\ split[r] \in 1..Splits /\ split[r] < Splits
          /\ pos'[r] = FirstOf(np, r, split[r] + 1)
      BY <1>0, <2>3 DEF NextSplit
    <3>2. split'[r] \in 1..Splits
      BY <1>0, <3>1
    <3> QED BY <2>1, <3>1, <3>2, SliceFacts
  <2> QED BY <1>4, <2>2, <2>3
<1> QED BY <1>1, <1>2, <1>3, <1>4

\* A complete shard is not written to any more: its rank finds every key done.
LEMMA Frozen ==
  ASSUME IInv, PosInv, Next, NEW r \in 0..(np - 1), Covered(np, r)
  PROVE  rows'[Shard(np, r)] = rows[Shard(np, r)]
<1>1. SUFFICES ASSUME rows'[Shard(np, r)] # rows[Shard(np, r)] PROVE FALSE
  OBVIOUS
<1>2. PICK q \in Ranks : /\ pc[q] = "flushing"
                         /\ \E e : rows' = [rows EXCEPT ![MyShard(q)] = e]
  BY <1>1 DEF Next, RankStep, Collect, ClearMarker, Resume, Skip, NextSplit, Evaluate, FlushStart,
              FlushEnd, WriteMarker, Crash, LauncherKill, Cut, MarkersFound, MergeShard, OpenReport,
              CloseReport, Timeout, Relaunch, fileVars
<1>3. /\ np \in ProcCounts /\ q \in 0..(np - 1) /\ MyShard(q) \in Shards /\ InSlice(q)
      /\ CurrentKey(q) \notin RowKeys(MyFile(q))
  BY <1>2, RankInLaunch DEF IInv, CursorInv, DiskInv, Busy
<1>4. Shard(np, r) = MyShard(q) /\ Shard(np, r) \in Shards
  BY <1>1, <1>2, <1>3, RankFacts DEF IInv, TypeOK
<1>5. q = r
  BY <1>3, <1>4, ShardInjective DEF MyShard
<1>6. CurrentKey(q) \in LocalKeys(np, q)
  <2>1. split[q] \in 1..Splits
    BY <1>2, <1>3, CurrentIsKey
  <2>2. pos[q] \in FirstOf(np, q, split[q])..LastOf(np, q, split[q])
    <3>1. pos[q] >= FirstOf(np, q, split[q]) /\ pos[q] <= LastOf(np, q, split[q]) /\ pos[q] \in Nat
      BY <1>2, <1>3, <2>1 DEF PosInv, Busy, InSlice, IInv, TypeOK
    <3>2. FirstOf(np, q, split[q]) \in Nat /\ LastOf(np, q, split[q]) \in Nat
      BY <1>3, <2>1, SliceFacts
    <3> QED BY <3>1, <3>2
  <2> QED BY <2>1, <2>2 DEF LocalKeys, CurrentKey
<1> QED BY <1>3, <1>5, <1>6 DEF Covered, MyFile, MyShard

\* Steps of the ranks and their ends do not disturb what was merged and reported.
LEMMA RerunKept ==
  ASSUME IInv, PosInv, RerunInv, Next, UNCHANGED <<np, counts, next, seen, merged, reports>>,
         Merging' => Merging
  PROVE  RerunInv'
<1>0. np \in Nat \ {0} /\ next \in Nat /\ (Merging => next <= np)
  BY RankFacts DEF IInv, TypeOK, MergeInv, Merging
<1>1. RerunReproduces'
  BY DEF RerunInv, RerunReproduces, Uniform
<1>2. ASSUME NEW r \in 0..(np - 1), Covered(np, r)
      PROVE  rows'[Shard(np, r)] = rows[Shard(np, r)] /\ Covered(np, r)'
  <2>1. rows'[Shard(np, r)] = rows[Shard(np, r)]
    BY <1>2, Frozen
  <2> QED BY <1>2, <2>1 DEF Covered
<1>3. ASSUME counts = {np}, NEW r \in 0..(np - 1), reports # <<>> \/ (Merging' /\ r < next)
      PROVE  Covered(np, r)
  BY <1>3 DEF RerunInv
<1>4. ASSUME counts = {np}, Merging'
      PROVE  /\ seen = UNION {RowKeys(rows'[Shard(np, r)]) : r \in 0..(next - 1)}
             /\ merged = FirstRows(rows', np, next)
  <2>1. \A r \in 0..(next - 1) : rows'[Shard(np, r)] = rows[Shard(np, r)]
    <3> TAKE r \in 0..(next - 1)
    <3>1. r \in 0..(np - 1) /\ r < next
      BY <1>0, <1>4
    <3> QED BY <1>2, <1>3, <1>4, <3>1
  <2>2. seen = UNION {RowKeys(rows[Shard(np, r)]) : r \in 0..(next - 1)} /\ merged = FirstRows(rows, np, next)
    BY <1>4 DEF RerunInv
  <2>3. FirstRows(rows', np, next) = FirstRows(rows, np, next)
    BY <1>0, <2>1, SameRows
  <2> QED BY <2>1, <2>2, <2>3
<1>5. ASSUME counts = {np}, NEW i \in DOMAIN reports
      PROVE  reports[i].kept = FirstRows(rows', np, np)
  <2>1. reports # <<>>
    BY <1>5 DEF IInv, TypeOK
  <2>2. \A r \in 0..(np - 1) : rows'[Shard(np, r)] = rows[Shard(np, r)]
    BY <1>2, <1>3, <1>5, <2>1
  <2>3. FirstRows(rows', np, np) = FirstRows(rows, np, np)
    BY <1>0, <2>2, SameRows
  <2> QED BY <1>5, <2>3 DEF RerunInv
<1>6. ASSUME counts = {np}
      PROVE  \A r \in 0..(np - 1) : reports # <<>> \/ (Merging' /\ r < next) => Covered(np, r)'
  BY <1>2, <1>3, <1>6
<1> QED BY <1>1, <1>4, <1>5, <1>6 DEF RerunInv, Covered

\* The merge begins.
LEMMA MarkersFoundRerun ==
  ASSUME IInv, RerunInv, MarkersFound
  PROVE  RerunInv'
<1>1. UNCHANGED <<np, counts, rows, reports>> /\ next' = 0 /\ seen' = {} /\ merged' = {}
  BY DEF MarkersFound, fileVars
<1>2. 0..(0 - 1) = {}
  OBVIOUS
<1>3. RerunReproduces'
  BY <1>1 DEF RerunInv, RerunReproduces, Uniform
<1>4. /\ seen' = UNION {RowKeys(rows'[Shard(np', r)]) : r \in 0..(next' - 1)}
      /\ merged' = FirstRows(rows', np', next')
  BY <1>1, <1>2 DEF FirstRows
<1>5. \A r \in 0..(np - 1) : ~(r < next')
  BY <1>1
<1>6. \A r \in 0..(np - 1) : Covered(np, r)' <=> Covered(np, r)
  BY <1>1 DEF Covered
<1> QED BY <1>1, <1>3, <1>4, <1>5, <1>6 DEF RerunInv, Covered

\* One more shard is merged.
LEMMA MergeShardRerun ==
  ASSUME IInv, RerunInv, MergeShard
  PROVE  RerunInv'
<1>0. UNCHANGED <<np, counts, rows, tail, reports>> /\ pc[0] = "merging" /\ next < np
  BY DEF MergeShard, fileVars
<1>1. RerunReproduces'
  BY <1>0 DEF RerunInv, RerunReproduces, Uniform
<1>2. \A r \in 0..(np - 1) : Covered(np, r)' <=> Covered(np, r)
  BY <1>0 DEF Covered
<1>3. CASE ~Merging'
  BY <1>0, <1>1, <1>2, <1>3 DEF RerunInv, Covered
<1>4. CASE Merging'
  <2> DEFINE s == Shard(np, next)
  <2>0. np \in Nat \ {0} /\ next \in Nat /\ next \in 0..(np - 1) /\ 0 \in Ranks
    BY <1>0, RankFacts DEF IInv, TypeOK
  <2>1. Readable(s)
    BY <1>4, <2>0 DEF MergeShard, Merging, IInv, TypeOK
  <2>2. /\ merged' = merged \cup {KeptRow(s, i) : i \in FreshLines(s)}
        /\ seen' = seen \cup RowKeys(rows[s]) /\ next' = next + 1
    BY <2>1 DEF MergeShard
  <2>3. ASSUME counts = {np}
        PROVE  /\ \A r \in 0..(np - 1) : reports # <<>> \/ r < next + 1 => Covered(np, r)
               /\ seen' = UNION {RowKeys(rows[Shard(np, r)]) : r \in 0..next}
               /\ merged' = FirstRows(rows, np, next + 1)
               /\ \A i \in DOMAIN reports : reports[i].kept = FirstRows(rows, np, np)
    <3>4. /\ \A r \in 0..(np - 1) : reports # <<>> \/ r < next => Covered(np, r)
          /\ seen = UNION {RowKeys(rows[Shard(np, r)]) : r \in 0..(next - 1)}
          /\ merged = FirstRows(rows, np, next)
          /\ \A i \in DOMAIN reports : reports[i].kept = FirstRows(rows, np, np)
      BY <1>0, <2>3 DEF RerunInv, Merging
    <3>5. Covered(np, next)
      <4>1. ShardDone(np, next)
        BY <1>0, <2>0, <2>3 DEF IInv, MergeInv
      <4> QED BY <2>1, <4>1 DEF ShardDone, Readable, Covered
    <3>6. \A r \in 0..(np - 1) : r < next + 1 => r < next \/ r = next
      BY <2>0
    <3>7. 0..next = (0..(next - 1)) \cup {next}
      BY <2>0
    <3>8. seen' = UNION {RowKeys(rows[Shard(np, r)]) : r \in 0..next}
      BY <2>2, <3>4, <3>7
    <3>9. FreshLines(s) = FirstLines(rows, np, next)
      <4>1. \A k : k \notin seen <=> \A q \in 0..(next - 1) : k \notin RowKeys(rows[Shard(np, q)])
        BY <3>4
      <4> QED BY <4>1 DEF FreshLines, FirstLines
    <3>10. \A i : KeptRow(s, i) = RowOf(rows, s, i)
      BY DEF KeptRow, RowOf
    <3>11. FirstRows(rows, np, next + 1) =
             FirstRows(rows, np, next) \cup {RowOf(rows, s, i) : i \in FirstLines(rows, np, next)}
      <4>1. 0..(next + 1 - 1) = (0..(next - 1)) \cup {next}
        BY <2>0
      <4> QED BY <4>1 DEF FirstRows
    <3>12. merged' = FirstRows(rows, np, next + 1)
      BY <2>2, <3>4, <3>9, <3>10, <3>11
    <3> QED BY <3>4, <3>5, <3>6, <3>8, <3>12
  <2>4. next' = next + 1 /\ 0..(next' - 1) = 0..next
    BY <2>0, <2>2
  <2>5. ASSUME counts' = {np'}
        PROVE  /\ \A r \in 0..(np' - 1) : reports' # <<>> \/ (Merging' /\ r < next') => Covered(np, r)'
               /\ seen' = UNION {RowKeys(rows'[Shard(np', r)]) : r \in 0..(next' - 1)}
               /\ merged' = FirstRows(rows', np', next')
               /\ \A i \in DOMAIN reports' : reports'[i].kept = FirstRows(rows', np', np')
    BY <1>0, <1>2, <2>3, <2>4, <2>5
  <2> QED BY <1>0, <1>1, <2>5 DEF RerunInv, Covered
<1> QED BY <1>3, <1>4

\* The report is what the merge has kept.
LEMMA OpenReportRerun ==
  ASSUME IInv, RerunInv, OpenReport
  PROVE  RerunInv'
<1> DEFINE rep == [np |-> np, counts |-> counts, whole |-> FALSE, kept |-> merged]
<1>0. UNCHANGED <<np, counts, rows, next, seen, merged>> /\ pc[0] = "merging" /\ next = np
      /\ reports' = Append(reports, rep)
  BY DEF OpenReport, fileVars, mergeVars
<1>1. Merging /\ reports \in Seq(Report) /\ np \in Nat
  BY <1>0, RankFacts DEF Merging, IInv, TypeOK
<1>2. rep.kept = merged /\ (Uniform(rep) <=> counts = {np})
  BY DEF Uniform
<1> HIDE DEF rep
<1>3. \A i \in DOMAIN reports' : reports'[i] = rep \/ (i \in DOMAIN reports /\ reports'[i] = reports[i])
  BY <1>0, <1>1
<1>4. ASSUME counts = {np}
      PROVE  /\ \A r \in 0..(np - 1) : Covered(np, r)
             /\ seen = UNION {RowKeys(rows[Shard(np, r)]) : r \in 0..(next - 1)}
             /\ merged = FirstRows(rows, np, np)
             /\ \A i \in DOMAIN reports' : reports'[i].kept = FirstRows(rows, np, np)
  <2>1. \A r \in 0..(np - 1) : r < next
    BY <1>0, <1>1
  <2> QED BY <1>0, <1>1, <1>2, <1>3, <1>4, <2>1 DEF RerunInv
<1>5. RerunReproduces'
  <2>1. CASE counts = {np}
    BY <1>4, <2>1 DEF RerunReproduces
  <2>2. CASE counts # {np}
    <3>1. \A i \in DOMAIN reports' : Uniform(reports'[i]) => i \in DOMAIN reports /\ reports'[i] = reports[i]
      BY <1>2, <1>3, <2>2
    <3> QED BY <3>1 DEF RerunInv, RerunReproduces
  <2> QED BY <2>1, <2>2
<1> QED BY <1>0, <1>4, <1>5 DEF RerunInv, Covered

\* The report is closed.
LEMMA CloseReportRerun ==
  ASSUME IInv, RerunInv, CloseReport
  PROVE  RerunInv'
<1>0. UNCHANGED <<np, counts, rows, next, seen, merged>> /\ ~Merging'
      /\ reports' = [reports EXCEPT ![Len(reports)].whole = TRUE]
  BY RankFacts DEF CloseReport, fileVars, mergeVars, Merging, IInv, TypeOK
<1>1. /\ DOMAIN reports' = DOMAIN reports
      /\ \A i \in DOMAIN reports : /\ reports'[i].np = reports[i].np
                                   /\ reports'[i].counts = reports[i].counts
                                   /\ reports'[i].kept = reports[i].kept
  <2>1. reports \in Seq(Report) /\ Len(reports) \in DOMAIN reports
    BY DEF IInv, TypeOK, DumpInv, CloseReport
  <2>2. ASSUME NEW rep \in Report
        PROVE  /\ [rep EXCEPT !.whole = TRUE].np = rep.np
               /\ [rep EXCEPT !.whole = TRUE].counts = rep.counts
               /\ [rep EXCEPT !.whole = TRUE].kept = rep.kept
    BY DEF Report
  <2>3. reports[Len(reports)] \in Report
    BY <2>1
  <2>4. reports' = [reports EXCEPT ![Len(reports)] = [reports[Len(reports)] EXCEPT !.whole = TRUE]]
    BY <1>0, <2>1
  <2> QED BY <2>1, <2>2, <2>3, <2>4
<1>2. \A i \in DOMAIN reports : Uniform(reports'[i]) <=> Uniform(reports[i])
  BY <1>1 DEF Uniform
<1>3. RerunReproduces'
  BY <1>1, <1>2 DEF RerunInv, RerunReproduces
<1>4. reports' # <<>> => reports # <<>>
  BY <1>0
<1> QED BY <1>0, <1>1, <1>3, <1>4 DEF RerunInv, Covered

\* A new launch, with the same number of ranks or not.
LEMMA RelaunchRerun ==
  ASSUME IInv, RerunInv, Relaunch
  PROVE  RerunInv'
<1>0. UNCHANGED <<rows, next, seen, merged, reports>> /\ counts' = counts \cup {np'} /\ np \in counts
      /\ 0 \in Ranks /\ pc' = Launched(np')
  BY RankFacts DEF Relaunch, fileVars, mergeVars, IInv, LaunchInv
<1>1. ~Merging'
  BY <1>0 DEF Launched, Merging
<1>2. RerunReproduces'
  BY <1>0 DEF RerunInv, RerunReproduces, Uniform
<1>3. counts' = {np'} => np' = np /\ counts = {np}
  BY <1>0
<1> QED BY <1>0, <1>1, <1>2, <1>3 DEF RerunInv, Covered

\* Every step keeps it.
LEMMA NextRerun == IInv /\ PosInv /\ RerunInv /\ [Next]_vars => RerunInv'
<1> SUFFICES ASSUME IInv, PosInv, RerunInv, [Next]_vars PROVE RerunInv'
  OBVIOUS
<1>1. CASE MarkersFound \/ MergeShard \/ OpenReport \/ CloseReport \/ Relaunch
  BY <1>1, MarkersFoundRerun, MergeShardRerun, OpenReportRerun, CloseReportRerun, RelaunchRerun
<1>2. CASE Timeout \/ \E r \in Ranks : RankStep(r) \/ Crash(r) \/ LauncherKill(r)
  <2>1. UNCHANGED <<np, counts, next, seen, merged, reports>> /\ Next
    BY <1>2 DEF Next, RankStep, ClearMarker, Resume, Skip, NextSplit, Evaluate, FlushStart,
                FlushEnd, WriteMarker, Crash, LauncherKill, Timeout, mergeVars
  <2>2. Merging' => Merging
    <3>1. pc \in [Ranks -> Alive \cup Stopped] /\ 0 \in Ranks
      BY RankFacts DEF IInv, TypeOK
    <3> QED BY <1>2, <3>1 DEF RankStep, ClearMarker, Resume, Skip, NextSplit, Evaluate, FlushStart,
                FlushEnd, WriteMarker, Crash, LauncherKill, Timeout, Merging
  <2> QED BY <2>1, <2>2, RerunKept
<1>3. CASE UNCHANGED vars
  <2>1. UNCHANGED <<np, counts, pc, rows, next, seen, merged, reports>>
    BY <1>3 DEF vars, rankVars, fileVars, mergeVars
  <2> QED BY <2>1 DEF RerunInv, Merging, Covered, RerunReproduces, Uniform
<1> QED BY <1>1, <1>2, <1>3 DEF Next, Collect

\* While the number of ranks stays the same, evaluating again reproduces the
\* first report row by row: complete shards are not written to any more, and
\* the merge keeps the same row of an annotation that two shards hold.
THEOREM RerunsReproduce == Spec => []RerunReproduces
<1>1. Init => PosInv /\ RerunInv
  BY RankFacts DEF Init, PosInv, RerunInv, RerunReproduces, Merging, Launched, Busy
<1>2. RerunInv => RerunReproduces
  BY DEF RerunInv
<1> QED
  BY <1>1, <1>2, InitIInv, NextIInv, NextPos, NextRerun, PTL DEF Spec

\* A shard file with a line that is not JSON gets no readable row any more.
LEMMA BadStays ==
  ASSUME IInv, Next, NEW s \in Shards, tail[s] = "bad"
  PROVE  rows'[s] = rows[s]
<1>1. SUFFICES ASSUME rows'[s] # rows[s] PROVE FALSE
  OBVIOUS
<1>2. PICK q \in Ranks : /\ tail[MyShard(q)] = "part"
                         /\ \E e : rows' = [rows EXCEPT ![MyShard(q)] = e]
  BY <1>1 DEF Next, RankStep, Collect, ClearMarker, Resume, Skip, NextSplit, Evaluate, FlushStart,
              FlushEnd, WriteMarker, Crash, LauncherKill, Cut, MarkersFound, MergeShard, OpenReport,
              CloseReport, Timeout, Relaunch, fileVars
<1> QED BY <1>1, <1>2 DEF IInv, TypeOK

\* While rank 0 merges and dumps, no rank appends a row to a shard of the launch.
MergeIsolated ==
  counts = {np} /\ Merging => \A r \in 0..(np - 1) : rows'[Shard(np, r)] = rows[Shard(np, r)]

\* merge_shard_results reads files that nobody writes to, although nothing locks
\* them and the marker it has waited for may be one that an earlier launch left
\* and that a slow rank has yet to remove: as long as the number of ranks was
\* always the same, such a rank finds every key of its slice done.
THEOREM MergesAreIsolated == Spec => [][MergeIsolated]_vars
<1>1. Init => PosInv /\ RerunInv
  BY RankFacts DEF Init, PosInv, RerunInv, RerunReproduces, Merging, Launched, Busy
<1>2. IInv /\ PosInv /\ RerunInv /\ [Next]_vars => [MergeIsolated]_vars
  <2> SUFFICES ASSUME IInv, PosInv, RerunInv, Next, counts = {np}, Merging, NEW r \in 0..(np - 1)
               PROVE  rows'[Shard(np, r)] = rows[Shard(np, r)]
    BY DEF MergeIsolated
  <2>1. r < next => Covered(np, r)
    BY DEF RerunInv
  <2>2. ~(r < next) => ShardDone(np, r)
    <3>1. r \in Int /\ next \in Int
      BY RankFacts DEF IInv, TypeOK
    <3> QED BY <3>1 DEF IInv, MergeInv, Merging
  <2>3. CASE Covered(np, r)
    BY <2>3, Frozen
  <2>4. CASE tail[Shard(np, r)] = "bad"
    <3>1. Shard(np, r) \in Shards
      BY RankFacts DEF IInv, TypeOK
    <3> QED BY <2>4, <3>1, BadStays
  <2> QED BY <2>1, <2>2, <2>3, <2>4 DEF ShardDone, Covered
<1> QED
  BY <1>1, <1>2, InitIInv, NextIInv, NextPos, NextRerun, PTL DEF Spec
=============================================================================
