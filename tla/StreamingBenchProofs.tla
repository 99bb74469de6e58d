------------------------ MODULE StreamingBenchProofs ------------------------
(***************************************************************************)
(* Proofs about StreamingBench, for every annotation file, every pair of   *)
(* key limits and every number of launches: the file holds no key twice,   *)
(* a whole report sums up a beginning of the file, and a launch that ends  *)
(* has a record for every question of the videos it found.                 *)
(***************************************************************************)
EXTENDS StreamingBench, FiniteSetTheorems, TLAPS

\* A value that Append and SubSeq work on.
IsList(s) == s \in Seq({s[k] : k \in DOMAIN s})

\* A launch has the file in memory, and its keys are done. The keys that
\* launch found are the legacy ones, none in the first launch.
InMemory ==
    /\ IsList(file) /\ (launches = 0 => file = <<>>) /\ launches \in Nat
    /\ phase = "done" \/ Running =>
          results = file /\ legacy \subseteq doneQuestions /\ launches > 0
          /\ (launches = 1 => legacy = {})
    /\ Running => doneQuestions = KeysOf(file)

FileInv == InMemory /\ OneRecordPerKey /\ ReportHonest

\* The question has a record, or its legacy key stood for another one.
Settled(p) == KeyAt(p) \in KeysOf(file) \/ (Shadowed(p) /\ launches # 1)

\* The questions that the launch has passed.
Passed(p) ==
    \/ phase \in {"video", "dump", "report", "done"}
    \/ phase = "ask" /\ (p[1] # v \/ p[2] < j)

AskInv ==
    /\ BenchTypeOK
    /\ Running => \A k \in visited : k < v \/ (k = v /\ phase = "ask")
    /\ phase = "ask" => v \in DOMAIN Videos
    /\ \A p \in AllQuestions : p[1] \in visited /\ Passed(p) => Settled(p)

-----------------------------------------------------------------------------
(* Lists.                                                                  *)

\* What one more record does to a list (the append to all_results and to
\* results_incremental.jsonl).
LEMMA ListAppend ==
  ASSUME NEW s, IsList(s), NEW e
  PROVE  /\ IsList(Append(s, e)) /\ Len(s) \in Nat /\ DOMAIN s = 1..Len(s)
         /\ Len(Append(s, e)) = Len(s) + 1
         /\ DOMAIN Append(s, e) = 1..(Len(s) + 1)
         /\ \A k \in 1..Len(s) : Append(s, e)[k] = s[k]
         /\ Append(s, e)[Len(s) + 1] = e
         /\ \A n \in 0..Len(s) : SubSeq(Append(s, e), 1, n) = SubSeq(s, 1, n)
<1> DEFINE S == {s[k] : k \in DOMAIN s}
           T == S \cup {e}
           a == Append(s, e)
<1>1. s \in Seq(S)
  BY DEF IsList
<1>2. s \in Seq(T) /\ e \in T /\ Len(s) \in Nat /\ DOMAIN s = 1..Len(s)
  <2>1. S \subseteq T /\ e \in T
    OBVIOUS
  <2> HIDE DEF S, T
  <2> QED BY <1>1, <2>1
<1> HIDE DEF S, T
<1>3. /\ a \in Seq(T) /\ Len(a) = Len(s) + 1 /\ DOMAIN a = 1..(Len(s) + 1)
      /\ \A k \in 1..Len(s) : a[k] = s[k]
      /\ a[Len(s) + 1] = e
  BY <1>2
<1> HIDE DEF a
<1>4. a \in Seq({a[k] : k \in DOMAIN a})
  <2> DEFINE A == {a[k] : k \in DOMAIN a}
  <2>1. \A k \in 1..Len(a) : a[k] \in A
    BY <1>2, <1>3
  <2> HIDE DEF A
  <2> QED BY <1>2, <1>3, <2>1 DEF A
<1>5. ASSUME NEW n \in 0..Len(s) PROVE SubSeq(a, 1, n) = SubSeq(s, 1, n)
  <2>1. /\ SubSeq(a, 1, n) \in Seq(T) /\ Len(SubSeq(a, 1, n)) = n
        /\ SubSeq(s, 1, n) \in Seq(T) /\ Len(SubSeq(s, 1, n)) = n
        /\ \A k \in 1..n : SubSeq(a, 1, n)[k] = a[k] /\ SubSeq(s, 1, n)[k] = s[k]
    BY <1>2, <1>3
  <2>2. \A k \in 1..n : SubSeq(a, 1, n)[k] = SubSeq(s, 1, n)[k]
    BY <1>2, <1>3, <2>1
  <2> QED BY <2>1, <2>2
<1> QED BY <1>2, <1>3, <1>4, <1>5 DEF a, IsList

\* The whole of a list is a beginning of it.
LEMMA ListWhole ==
  ASSUME NEW s, IsList(s)
  PROVE  SubSeq(s, 1, Len(s)) = s /\ Len(s) \in 0..Len(s)
<1> DEFINE S == {s[k] : k \in DOMAIN s}
<1>1. s \in Seq(S)
  BY DEF IsList
<1> HIDE DEF S
<1> QED BY <1>1

-----------------------------------------------------------------------------
(* The file.                                                               *)

\* Before the first launch there is nothing.
LEMMA InitFile == BenchInit => FileInv
<1> SUFFICES ASSUME BenchInit PROVE FileInv
  OBVIOUS
<1>1. IsList(file)
  BY DEF BenchInit, IsList
<1>2. InMemory
  BY <1>1 DEF BenchInit, InMemory, Running
<1>3. OneRecordPerKey /\ ReportHonest
  BY DEF BenchInit, OneRecordPerKey, ReportHonest
<1> QED BY <1>2, <1>3 DEF FileInv

\* One more record under a key that the file does not have keeps its keys
\* apart and the report honest (append_jsonl behind the check of the keys).
LEMMA FileGrows ==
  ASSUME FileInv, NEW r, r.key \notin KeysOf(file), file' = Append(file, r), report' = report
  PROVE  /\ OneRecordPerKey' /\ ReportHonest' /\ IsList(file')
         /\ KeysOf(file') = KeysOf(file) \cup {r.key}
<1>0. IsList(file)
  BY DEF FileInv, InMemory
<1>1. /\ IsList(file') /\ Len(file) \in Nat /\ DOMAIN file = 1..Len(file)
      /\ Len(file') = Len(file) + 1 /\ DOMAIN file' = 1..(Len(file) + 1)
      /\ \A k \in 1..Len(file) : file'[k] = file[k]
      /\ file'[Len(file) + 1] = r
      /\ \A n \in 0..Len(file) : SubSeq(file', 1, n) = SubSeq(file, 1, n)
  BY <1>0, ListAppend
<1>2. OneRecordPerKey'
  <2>1. \A k \in 1..Len(file) : file'[k].key # r.key
    BY <1>1 DEF KeysOf
  <2>2. \A a, b \in 1..Len(file) : file'[a].key = file'[b].key => a = b
    BY <1>1 DEF FileInv, OneRecordPerKey
  <2>3. \A a \in 1..(Len(file) + 1) : a \in 1..Len(file) \/ a = Len(file) + 1
    BY <1>1
  <2> QED BY <1>1, <2>1, <2>2, <2>3 DEF OneRecordPerKey
<1>3. ReportHonest'
  <2>1. SUFFICES ASSUME report.st = "whole"
                 PROVE  \E n \in 0..Len(file') : report.sum = Summary(SubSeq(file', 1, n))
    BY DEF ReportHonest
  <2>2. PICK n \in 0..Len(file) : report.sum = Summary(SubSeq(file, 1, n))
    BY <2>1 DEF FileInv, ReportHonest
  <2>3. n \in 0..Len(file') /\ SubSeq(file', 1, n) = SubSeq(file, 1, n)
    BY <1>1
  <2> QED BY <2>2, <2>3
<1>4. KeysOf(file') = KeysOf(file) \cup {r.key}
  <2>1. 1..(Len(file) + 1) = 1..Len(file) \cup {Len(file) + 1}
    BY <1>1
  <2>2. KeysOf(file') = {file'[k].key : k \in 1..Len(file)} \cup {r.key}
    BY <1>1, <2>1 DEF KeysOf
  <2>3. {file'[k].key : k \in 1..Len(file)} = KeysOf(file)
    BY <1>1 DEF KeysOf
  <2> QED BY <2>2, <2>3
<1> QED BY <1>1, <1>2, <1>3, <1>4

\* A step that writes no record and no report.
LEMMA FileSame ==
  ASSUME FileInv, UNCHANGED <<file, report>>
  PROVE  OneRecordPerKey' /\ ReportHonest' /\ IsList(file')
  BY DEF FileInv, InMemory, OneRecordPerKey, ReportHonest

\* Every step keeps the invariant of the file.
LEMMA StepFile == FileInv /\ [BenchNext]_benchVars => FileInv'
<1> SUFFICES ASSUME FileInv, [BenchNext]_benchVars PROVE FileInv'
  OBVIOUS
<1>1. CASE Launch
  <2>1. OneRecordPerKey' /\ ReportHonest' /\ IsList(file')
    BY <1>1, FileSame DEF Launch
  <2>2. CASE ~bad
    <3>1. phase' = "video" /\ results' = file /\ doneQuestions' = KeysOf(file) /\ legacy' = KeysOf(file)
          /\ file' = file /\ launches' = launches + 1 /\ launches \in Nat
      BY <1>1, <2>2 DEF Launch, FileInv, InMemory
    <3>2. launches' = 1 => legacy' = {}
      <4>1. launches' = 1 => file = <<>>
        BY <3>1 DEF FileInv, InMemory
      <4> QED BY <3>1, <4>1 DEF KeysOf
    <3>3. InMemory'
      BY <2>1, <3>1, <3>2 DEF InMemory, Running
    <3> QED BY <2>1, <3>3 DEF FileInv
  <2>3. CASE bad
    <3>1. phase' = "failed" /\ file' = file /\ launches' = launches + 1 /\ launches \in Nat
      BY <1>1, <2>3 DEF Launch, FileInv, InMemory
    <3>2. InMemory'
      BY <2>1, <3>1 DEF InMemory, Running
    <3> QED BY <2>1, <3>2 DEF FileInv
  <2> QED BY <2>2, <2>3
<1>2. CASE EnterVideo \/ MissingVideo \/ LeaveVideo \/ SkipQuestion \/ Dump \/ Provide \/ UNCHANGED benchVars
  <2>1. UNCHANGED <<file, report, results, doneQuestions, legacy, launches>> /\ Running' = Running
        /\ (phase' = "done" <=> phase = "done")
    BY <1>2 DEF EnterVideo, MissingVideo, LeaveVideo, SkipQuestion, Dump, Provide, benchVars, memory, Running
  <2>2. InMemory'
    BY <2>1 DEF FileInv, InMemory, IsList, KeysOf
  <2> QED BY <2>1, <2>2, FileSame DEF FileInv
<1>3. CASE Answer
  <2>0. Running /\ Running' /\ results = file /\ doneQuestions = KeysOf(file)
        /\ legacy \subseteq doneQuestions /\ launches > 0 /\ (launches = 1 => legacy = {})
        /\ launches \in Nat /\ UNCHANGED <<launches, legacy, report, phase>>
    BY <1>3 DEF Answer, Running, FileInv, InMemory
  <2>1. PICK o \in {"right", "wrong", "error"} :
           results' = Append(results, Record(o)) /\ file' = Append(file, Record(o))
    BY <1>3 DEF Answer
  <2>2. Record(o).key = Key(Base, Question) /\ Record(o).key \notin KeysOf(file)
        /\ doneQuestions' = doneQuestions \cup {Record(o).key}
    BY <1>3, <2>0 DEF Record, Answer, IsDone
  <2>3. OneRecordPerKey' /\ ReportHonest' /\ IsList(file')
        /\ KeysOf(file') = KeysOf(file) \cup {Record(o).key}
    BY <2>0, <2>1, <2>2, FileGrows
  <2>4. doneQuestions' = KeysOf(file') /\ results' = file' /\ legacy' \subseteq doneQuestions'
    BY <2>0, <2>1, <2>2, <2>3
  <2>5. InMemory'
    BY <2>0, <2>3, <2>4 DEF InMemory
  <2> QED BY <2>3, <2>5 DEF FileInv
<1>4. CASE OpenScores
  <2>1. report'.st = "torn" /\ UNCHANGED <<file, results, doneQuestions, legacy, launches>>
        /\ Running /\ Running'
    BY <1>4 DEF OpenScores, memory, Running
  <2>2. InMemory'
    BY <2>1 DEF FileInv, InMemory, IsList, KeysOf
  <2> QED BY <2>1, <2>2 DEF FileInv, OneRecordPerKey, ReportHonest
<1>5. CASE WriteReport
  <2>1. report'.sum = Summary(results) /\ UNCHANGED <<file, results, doneQuestions, legacy, launches>>
        /\ Running /\ phase' = "done" /\ ~Running'
    BY <1>5 DEF WriteReport, memory, Running
  <2>2. results = file /\ IsList(file)
    BY <2>1 DEF FileInv, InMemory
  <2>3. SubSeq(file, 1, Len(file)) = file /\ Len(file) \in 0..Len(file)
    BY <2>2, ListWhole
  <2>4. ReportHonest'
    BY <2>1, <2>2, <2>3 DEF ReportHonest
  <2>5. InMemory'
    BY <2>1 DEF FileInv, InMemory, IsList, KeysOf
  <2> QED BY <2>1, <2>4, <2>5 DEF FileInv, OneRecordPerKey
<1>6. CASE KillJob
  <2>1. UNCHANGED <<file, report, launches>> /\ phase' = "down"
    BY <1>6 DEF KillJob
  <2>2. InMemory'
    BY <2>1 DEF FileInv, InMemory, IsList, Running
  <2> QED BY <2>1, <2>2, FileSame DEF FileInv
<1>7. CASE KillInWrite
  <2>0. Running /\ doneQuestions = KeysOf(file) /\ launches > 0 /\ launches \in Nat
        /\ phase' = "down" /\ UNCHANGED <<launches, report>>
        /\ Key(Base, Question) \notin KeysOf(file)
    BY <1>7 DEF KillInWrite, Running, FileInv, InMemory, IsDone
  <2>1. CASE UNCHANGED file
    <3>1. InMemory'
      BY <2>0, <2>1 DEF FileInv, InMemory, IsList, Running
    <3> QED BY <2>0, <2>1, <3>1, FileSame DEF FileInv
  <2>2. CASE \E o \in {"right", "wrong", "error"} : file' = Append(file, Record(o))
    <3>1. PICK o \in {"right", "wrong", "error"} : file' = Append(file, Record(o))
      BY <2>2
    <3>2. Record(o).key = Key(Base, Question)
      BY DEF Record
    <3>3. OneRecordPerKey' /\ ReportHonest' /\ IsList(file')
      BY <2>0, <3>1, <3>2, FileGrows
    <3>4. InMemory'
      BY <2>0, <3>3 DEF InMemory, Running
    <3> QED BY <3>3, <3>4 DEF FileInv
  <2> QED BY <1>7, <2>1, <2>2 DEF KillInWrite
<1> QED BY <1>1, <1>2, <1>3, <1>4, <1>5, <1>6, <1>7 DEF BenchNext, Progress

\* No question is recorded twice, whatever was killed and repeated.
THEOREM FileHasOneRecordPerKey == BenchSpec => []OneRecordPerKey
<1>1. FileInv => OneRecordPerKey
  BY DEF FileInv
<1> QED BY <1>1, InitFile, StepFile, PTL DEF BenchSpec

\* A whole report sums up the file as it was at some moment.
THEOREM ReportsAreHonest == BenchSpec => []ReportHonest
<1>1. FileInv => ReportHonest
  BY DEF FileInv
<1> QED BY <1>1, InitFile, StepFile, PTL DEF BenchSpec

-----------------------------------------------------------------------------
(* The lists of videos and questions are folds over the entries: recursive *)
(* functions on the sets of positions. Induction over a finite set takes a *)
(* minimal counterexample (MinimalSubset).                                 *)

\* Of a family of subsets of a finite set, one has no other below it.
LEMMA MinimalSubset ==
  ASSUME NEW S, IsFiniteSet(S), NEW B \in SUBSET (SUBSET S), B # {}
  PROVE  \E T \in B : \A U \in B : U \subseteq T => U = T
<1>1. IsWellFoundedOn(StrictSubsetOrdering(S), FiniteSubsetsOf(S)) /\ FiniteSubsetsOf(S) = SUBSET S
  BY FS_StrictSubsetOrderingWellFounded, FS_FiniteSubsetsOfFinite
<1>2. B \subseteq SUBSET S
  OBVIOUS
<1>3. \E T \in B : \A U \in B : ~(<<U, T>> \in StrictSubsetOrdering(S))
  BY <1>1, <1>2, WFMin
<1>4. \A U, T \in B : U \subseteq T /\ U # T => <<U, T>> \in StrictSubsetOrdering(S)
  BY <1>2 DEF StrictSubsetOrdering
<1> QED BY <1>3, <1>4

\* A set of natural numbers has a least element.
LEMMA LeastNat ==
  ASSUME NEW N \in SUBSET Nat, N # {}
  PROVE  \E n \in N : \A m \in N : n <= m
<1>1. PICK b \in N : TRUE
  OBVIOUS
<1> DEFINE B == {0..n : n \in {m \in N : m <= b}}
<1>2. IsFiniteSet(0..b)
  BY FS_Interval
<1>3. B \in SUBSET (SUBSET (0..b)) /\ B # {}
  <2>1. \A n \in N : n <= b => 0..n \subseteq 0..b
    OBVIOUS
  <2>2. 0..b \in B
    OBVIOUS
  <2> QED BY <2>1, <2>2
<1>4. PICK T \in B : \A U \in B : U \subseteq T => U = T
  <2> DEFINE I == 0..b
  <2>1. IsFiniteSet(I) /\ B \in SUBSET (SUBSET I) /\ B # {}
    BY <1>2, <1>3
  <2> HIDE DEF B, I
  <2> QED BY <2>1, MinimalSubset
<1>5. PICK n \in N : n <= b /\ T = 0..n
  OBVIOUS
<1>6. ASSUME NEW m \in N, m < n PROVE FALSE
  <2>1. 0..m \in B /\ 0..m \subseteq 0..n
    BY <1>5, <1>6
  <2>2. 0..m = 0..n
    BY <1>4, <1>5, <2>1
  <2>3. n \in 0..n /\ n \notin 0..m
    BY <1>6
  <2> QED BY <2>2, <2>3
<1> QED BY <1>6

\* The greatest of a set of positions is one of them.
LEMMA MaxIn ==
  ASSUME NEW n \in Nat, NEW s \in SUBSET (1..n), s # {}
  PROVE  Max(s) \in s
<1> DEFINE N == {n - x : x \in s}
<1>1. N \in SUBSET Nat /\ N # {}
  OBVIOUS
<1>2. PICK m \in N : \A i \in N : m <= i
  <2> HIDE DEF N
  <2> QED BY <1>1, LeastNat
<1>3. PICK x \in s : m = n - x
  OBVIOUS
<1>4. \A y \in s : x >= y
  <2> TAKE y \in s
  <2>1. n - y \in N
    OBVIOUS
  <2>2. x \in Nat /\ y \in Nat
    OBVIOUS
  <2> HIDE DEF N
  <2>3. n - x <= n - y
    BY <1>2, <1>3, <2>1
  <2> QED BY <2>2, <2>3
<1> QED BY <1>4 DEF Max

\* What one entry adds to the list of paths, and to the questions of a path.
Grow(paths, path, l, e) ==
    IF paths THEN (IF Contains(l, e.path) THEN l ELSE Append(l, e.path))
    ELSE (IF e.path = path THEN l \o e.questions ELSE l)

\* The functions that solve the recursion of the folds on a family of sets.
Grows(paths, path, F, k) ==
    k = [s \in F |-> IF s = {} THEN <<>> ELSE Grow(paths, path, k[s \ {Max(s)}], Entries[Max(s)])]

\* Such a function exists on all sets of positions.
LEMMA GrowsExist ==
  ASSUME NEW paths, NEW path
  PROVE  \E k : Grows(paths, path, SUBSET DOMAIN Entries, k)
<1> DEFINE D == DOMAIN Entries
           F(n) == {s \in SUBSET D : Cardinality(s) <= n}
           N == {n \in Nat : ~\E k : Grows(paths, path, F(n), k)}
<1>a. Len(Entries) \in Nat /\ D = 1..Len(Entries)
  <2> DEFINE R == Range(Entries)
  <2>1. Entries \in Seq(R)
    BY BenchAssumption
  <2> HIDE DEF R
  <2> QED BY <2>1
<1>b. IsFiniteSet(D)
  BY <1>a, FS_Interval
<1>c. ASSUME NEW s \in SUBSET D, s # {} PROVE Max(s) \in s
  BY <1>a, <1>c, MaxIn
<1> HIDE DEF D
<1>0. \A s \in SUBSET D : IsFiniteSet(s) /\ Cardinality(s) \in Nat
  BY <1>b, FS_Subset, FS_CardinalityType
<1>1. SUFFICES N = {}
  <2>1. Cardinality(D) \in Nat /\ F(Cardinality(D)) = SUBSET D
    BY <1>0, <1>b, FS_Subset, FS_CardinalityType
  <2> QED BY <2>1 DEF D
<1>2. SUFFICES ASSUME N # {} PROVE FALSE
  OBVIOUS
<1>3. PICK n \in N : \A m \in N : n <= m
  <2>1. N \in SUBSET Nat
    OBVIOUS
  <2> HIDE DEF N
  <2> QED BY <1>2, <2>1, LeastNat
<1>4. CASE n = 0
  <2> DEFINE k == [s \in F(0) |-> <<>>]
  <2>1. \A s \in F(0) : s = {}
    BY <1>0, FS_EmptySet
  <2>2. Grows(paths, path, F(0), k)
    BY <2>1 DEF Grows
  <2> QED BY <1>4, <2>2
<1>5. CASE n # 0
  <2>0. n \in Nat /\ n - 1 \in Nat /\ n - 1 \notin N
    <3>1. N \subseteq Nat
      OBVIOUS
    <3> HIDE DEF N
    <3> QED BY <1>3, <1>5, <3>1
  <2>1. PICK h : Grows(paths, path, F(n - 1), h)
    <3>1. \A m \in Nat : m \notin N => \E k : Grows(paths, path, F(m), k)
      OBVIOUS
    <3> HIDE DEF N, F
    <3> QED BY <2>0, <3>1
  <2> DEFINE k == [s \in F(n) |->
                     IF s = {} THEN <<>> ELSE Grow(paths, path, h[s \ {Max(s)}], Entries[Max(s)])]
  <2>2. ASSUME NEW s \in F(n), s # {}
        PROVE  k[s \ {Max(s)}] = h[s \ {Max(s)}]
    <3> DEFINE u == s \ {Max(s)}
    <3>1. u \in F(n - 1) /\ u \in F(n)
      <4>1. u \in SUBSET D /\ Max(s) \in s /\ IsFiniteSet(s) /\ Cardinality(s) <= n
        BY <1>0, <1>c, <2>2
      <4>2. Cardinality(u) = Cardinality(s) - 1
        BY <4>1, FS_RemoveElement
      <4>3. Cardinality(u) \in Nat /\ Cardinality(u) <= n - 1
        BY <1>0, <2>0, <4>1, <4>2
      <4> QED BY <2>0, <4>1, <4>3
    <3> HIDE DEF u
    <3>2. h[u] = IF u = {} THEN <<>> ELSE Grow(paths, path, h[u \ {Max(u)}], Entries[Max(u)])
      BY <2>1, <3>1 DEF Grows
    <3>3. k[u] = IF u = {} THEN <<>> ELSE Grow(paths, path, h[u \ {Max(u)}], Entries[Max(u)])
      BY <3>1
    <3> QED BY <3>2, <3>3 DEF u
  <2>3. Grows(paths, path, F(n), k)
    BY <2>2 DEF Grows
  <2> QED BY <2>3
<1> QED BY <1>4, <1>5

\* What it yields is a list.
LEMMA GrowsLists ==
  ASSUME NEW paths, NEW path, NEW h, Grows(paths, path, SUBSET DOMAIN Entries, h), NEW X,
         \A l \in Seq(X), i \in DOMAIN Entries : Grow(paths, path, l, Entries[i]) \in Seq(X)
  PROVE  h[DOMAIN Entries] \in Seq(X)
<1> DEFINE D == DOMAIN Entries
           B == {T \in SUBSET D : h[T] \notin Seq(X)}
<1>a. Len(Entries) \in Nat /\ D = 1..Len(Entries)
  <2> DEFINE R == Range(Entries)
  <2>1. Entries \in Seq(R)
    BY BenchAssumption
  <2> HIDE DEF R
  <2> QED BY <2>1
<1>b. IsFiniteSet(D)
  BY <1>a, FS_Interval
<1>c. ASSUME NEW s \in SUBSET D, s # {} PROVE Max(s) \in s
  BY <1>a, <1>c, MaxIn
<1> HIDE DEF D
<1>1. SUFFICES ASSUME B # {} PROVE FALSE
  BY DEF D
<1>2. PICK T \in B : \A U \in B : U \subseteq T => U = T
  <2>1. B \in SUBSET (SUBSET D)
    OBVIOUS
  <2> HIDE DEF B
  <2> QED BY <1>b, <1>1, <2>1, MinimalSubset
<1>3. T \in SUBSET D /\ h[T] \notin Seq(X)
  BY <1>2
<1>4. h[T] = IF T = {} THEN <<>> ELSE Grow(paths, path, h[T \ {Max(T)}], Entries[Max(T)])
  BY <1>3 DEF Grows, D
<1>5. T # {}
  BY <1>3, <1>4
<1> DEFINE U == T \ {Max(T)}
<1>6. Max(T) \in T /\ U \in SUBSET D /\ U \subseteq T /\ U # T
  BY <1>3, <1>5, <1>c
<1>7. h[U] \in Seq(X)
  <2>1. U \notin B
    <3> HIDE DEF B, U
    <3> QED BY <1>2, <1>6
  <2>2. \A V \in SUBSET D : V \notin B => h[V] \in Seq(X)
    OBVIOUS
  <2> HIDE DEF B, U
  <2> QED BY <1>6, <2>1, <2>2
<1>8. Grow(paths, path, h[U], Entries[Max(T)]) \in Seq(X)
  BY <1>3, <1>6, <1>7 DEF D
<1> QED BY <1>3, <1>4, <1>5, <1>8

\* video_questions has the paths in a list.
LEMMA PathsAreList == PathsInOrder \in Seq(Range(PathsInOrder))
<1> DEFINE D == DOMAIN Entries
           X == {Entries[i].path : i \in D}
           Rec(k) == k = [s \in SUBSET D |-> IF s = {} THEN <<>>
                           ELSE IF Contains(k[s \ {Max(s)}], Entries[Max(s)].path)
                                THEN k[s \ {Max(s)}]
                                ELSE Append(k[s \ {Max(s)}], Entries[Max(s)].path)]
           h == CHOOSE k : Rec(k)
<1>1. PathsInOrder = h[D]
  BY DEF PathsInOrder, FoldLeft, MapThenFoldSet
<1>2. \A k : Rec(k) <=> Grows(TRUE, "", SUBSET D, k)
  BY DEF Grows, Grow
<1> HIDE DEF Rec
<1>3. Rec(h)
  BY <1>2, GrowsExist
<1>4. Grows(TRUE, "", SUBSET D, h)
  BY <1>2, <1>3
<1>5. \A l \in Seq(X), i \in D : Grow(TRUE, "", l, Entries[i]) \in Seq(X)
  BY DEF Grow
<1> HIDE DEF h, X
<1>6. h[D] \in Seq(X)
  BY <1>4, <1>5, GrowsLists
<1> QED BY <1>1, <1>6 DEF Range

\* So are the questions of a path.
LEMMA CollectedAreList == ASSUME NEW path PROVE Collected(path) \in Seq(Range(Collected(path)))
<1> DEFINE D == DOMAIN Entries
           X == UNION {Range(Entries[i].questions) : i \in D}
           Rec(k) == k = [s \in SUBSET D |-> IF s = {} THEN <<>>
                           ELSE IF Entries[Max(s)].path = path
                                THEN k[s \ {Max(s)}] \o Entries[Max(s)].questions
                                ELSE k[s \ {Max(s)}]]
           h == CHOOSE k : Rec(k)
<1>1. Collected(path) = h[D]
  BY DEF Collected, FoldLeft, MapThenFoldSet
<1>2. \A k : Rec(k) <=> Grows(FALSE, path, SUBSET D, k)
  BY DEF Grows, Grow
<1> HIDE DEF Rec
<1>3. Rec(h)
  BY <1>2, GrowsExist
<1>4. Grows(FALSE, path, SUBSET D, h)
  BY <1>2, <1>3
<1>5. ASSUME NEW l \in Seq(X), NEW i \in D PROVE Grow(FALSE, path, l, Entries[i]) \in Seq(X)
  <2> DEFINE qs == Entries[i].questions
  <2>1. qs \in Seq(Range(qs))
    BY BenchAssumption
  <2>2. Range(qs) \subseteq X
    OBVIOUS
  <2> HIDE DEF X
  <2>3. qs \in Seq(X)
    BY <2>1, <2>2
  <2>4. l \o qs \in Seq(X)
    BY <2>3
  <2> QED BY <2>4 DEF Grow
<1> HIDE DEF h, X
<1>6. h[D] \in Seq(X)
  BY <1>4, <1>5, GrowsLists
<1> QED BY <1>1, <1>6 DEF Range

\* Grouping and sorting lists yields a list of videos, with lists of questions.
LEMMA VideosAreLists ==
  /\ Videos \in Seq(Range(Videos))
  /\ \A k \in DOMAIN Videos : Videos[k].qs \in Seq(Range(Videos[k].qs))
<1>1. ASSUME NEW s, s \in Seq(Range(s)), NEW f, f = [k \in DOMAIN s |-> f[k]] PROVE f \in Seq(Range(f))
  <2> DEFINE S == Range(s)
             R == Range(f)
  <2>1. s \in Seq(S)
    BY <1>1
  <2>2. \A k \in DOMAIN f : f[k] \in R
    BY DEF Range
  <2> HIDE DEF S, R
  <2>3. DOMAIN s = 1..Len(s) /\ Len(s) \in Nat
    BY <2>1
  <2>4. f \in [1..Len(s) -> R]
    BY <1>1, <2>2, <2>3
  <2>5. f \in Seq(R)
    BY <2>3, <2>4
  <2> QED BY <2>5 DEF R
<1>2. Videos \in Seq(Range(Videos))
  BY <1>1, PathsAreList DEF Videos
<1>3. ASSUME NEW k \in DOMAIN Videos PROVE Videos[k].qs \in Seq(Range(Videos[k].qs))
  <2> DEFINE qs == Collected(PathsInOrder[k])
  <2>1. Videos[k].qs = ByTime(qs)
    BY DEF Videos
  <2>2. qs \in Seq(Range(qs))
    BY CollectedAreList
  <2> HIDE DEF qs
  <2>3. ByTime(qs) = [i \in DOMAIN qs |-> ByTime(qs)[i]]
    BY DEF ByTime
  <2>4. ByTime(qs) \in Seq(Range(ByTime(qs)))
    BY <1>1, <2>2, <2>3
  <2> QED BY <2>1, <2>4
<1> QED BY <1>2, <1>3

-----------------------------------------------------------------------------
(* The questions.                                                          *)

\* Positions in video_questions.
LEMMA Positions ==
  /\ Len(Videos) \in Nat /\ DOMAIN Videos = 1..Len(Videos)
  /\ \A k \in DOMAIN Videos : /\ Len(Videos[k].qs) \in Nat
                              /\ DOMAIN Videos[k].qs = 1..Len(Videos[k].qs)
<1>1. ASSUME NEW s, s \in Seq(Range(s)) PROVE Len(s) \in Nat /\ DOMAIN s = 1..Len(s)
  <2> DEFINE S == Range(s)
  <2>1. s \in Seq(S)
    BY <1>1
  <2> HIDE DEF S
  <2> QED BY <2>1
<1> QED BY <1>1, VideosAreLists

\* A question is a position of a video and one in its questions.
LEMMA QuestionIs ==
  /\ \A p \in AllQuestions : /\ p[1] \in DOMAIN Videos /\ p[2] \in DOMAIN Videos[p[1]].qs
                             /\ p = <<p[1], p[2]>>
  /\ \A k \in DOMAIN Videos : \A n \in DOMAIN Videos[k].qs : <<k, n>> \in AllQuestions
  BY DEF AllQuestions

\* The record of the present question is one of a question.
LEMMA RecordIs ==
  ASSUME AskInv, phase = "ask", j <= Len(Videos[v].qs), NEW o \in {"right", "wrong", "error"}
  PROVE  /\ IsRecord(Record(o)) /\ Record(o).key = Key(Base, Question)
         /\ <<v, j>> \in AllQuestions /\ KeyAt(<<v, j>>) = Key(Base, Question)
         /\ OldKeyAt(<<v, j>>) = OldKey(Base, Question)
<1>1. v \in DOMAIN Videos /\ j \in DOMAIN Videos[v].qs
  BY Positions DEF AskInv, BenchTypeOK
<1>2. <<v, j>> \in AllQuestions
  BY <1>1, QuestionIs
<1>3. KeyAt(<<v, j>>) = Key(Base, Question) /\ OldKeyAt(<<v, j>>) = OldKey(Base, Question)
  BY DEF KeyAt, OldKeyAt, Base, Question
<1>4. Record(o).key = Key(Base, Question) /\ Record(o).outcome = o
  BY DEF Record
<1> QED BY <1>2, <1>3, <1>4 DEF IsRecord, Outcomes

\* Lists of records stay lists of records.
LEMMA RecordsGrow ==
  ASSUME NEW s, IsList(s), \A k \in DOMAIN s : IsRecord(s[k]), NEW r, IsRecord(r)
  PROVE  /\ \A k \in DOMAIN Append(s, r) : IsRecord(Append(s, r)[k])
         /\ KeysOf(Append(s, r)) = KeysOf(s) \cup {r.key}
<1> DEFINE a == Append(s, r)
<1>1. /\ Len(s) \in Nat /\ DOMAIN s = 1..Len(s) /\ DOMAIN a = 1..(Len(s) + 1)
      /\ \A k \in 1..Len(s) : a[k] = s[k]
      /\ a[Len(s) + 1] = r
  BY ListAppend
<1> HIDE DEF a
<1>2. \A k \in 1..(Len(s) + 1) : k \in 1..Len(s) \/ k = Len(s) + 1
  BY <1>1
<1>3. \A k \in DOMAIN a : IsRecord(a[k])
  BY <1>1, <1>2
<1>4. KeysOf(a) = KeysOf(s) \cup {r.key}
  <2>1. 1..(Len(s) + 1) = 1..Len(s) \cup {Len(s) + 1}
    BY <1>1
  <2>2. KeysOf(a) = {a[k].key : k \in 1..Len(s)} \cup {r.key}
    BY <1>1, <2>1 DEF KeysOf
  <2>3. {a[k].key : k \in 1..Len(s)} = KeysOf(s)
    BY <1>1 DEF KeysOf
  <2> QED BY <2>2, <2>3
<1> QED BY <1>3, <1>4 DEF a

\* A process that is gone, or could not parse the file, has visited nothing.
LEMMA ForgetAsk ==
  ASSUME AskInv, Forget, phase' \in {"down", "failed"}, \A k \in DOMAIN file' : IsRecord(file'[k]),
         ending' \in {"ended", "open"}, bad' \in BOOLEAN, report' = report,
         launches' \in 0..MaxLaunches
  PROVE  AskInv'
<1>1. results' = <<>> /\ doneQuestions' = {} /\ legacy' = {} /\ visited' = {} /\ v' = 1 /\ j' = 1
  BY DEF Forget
<1>2. DOMAIN results' = {} /\ KeysOf(results') = {}
  BY <1>1 DEF KeysOf
<1>3. BenchTypeOK'
  BY <1>1, <1>2, Positions DEF AskInv, BenchTypeOK
<1> QED BY <1>1, <1>3 DEF AskInv, Running

\* The invariant of the questions holds before the first launch.
LEMMA InitAsk == BenchInit => AskInv
<1> SUFFICES ASSUME BenchInit PROVE AskInv
  OBVIOUS
<1>1. DOMAIN file = {} /\ DOMAIN results = {} /\ KeysOf(results) = {}
  BY DEF BenchInit, KeysOf
<1>2. /\ phase = "down" /\ v = 1 /\ j = 1 /\ doneQuestions = {} /\ legacy = {} /\ ending = "ended"
      /\ bad = FALSE /\ report.st = "absent" /\ visited = {} /\ launches = 0
  BY DEF BenchInit
<1>3. 1 \in 1..(Len(Videos) + 1) /\ 0 \in 0..MaxLaunches
  BY Positions, BenchAssumption
<1>4. BenchTypeOK
  <2>1. (\A k \in DOMAIN file : IsRecord(file[k])) /\ (\A k \in DOMAIN results : IsRecord(results[k]))
    BY <1>1
  <2>2. doneQuestions = KeysOf(results) /\ legacy \subseteq doneQuestions /\ visited \subseteq DOMAIN Videos
    BY <1>1, <1>2
  <2>3. bad \in BOOLEAN
    BY <1>2
  <2> QED BY <1>2, <1>3, <2>1, <2>2, <2>3 DEF BenchTypeOK
<1> QED BY <1>2, <1>4 DEF AskInv, Running

\* A record behind a question settles it, and so does a legacy key that was
\* another question's.
LEMMA SkipSettles ==
  ASSUME AskInv, FileInv, SkipQuestion
  PROVE  Settled(<<v, j>>)
<1>0. /\ phase = "ask" /\ j <= Len(Videos[v].qs)
      /\ Key(Base, Question) \in doneQuestions \/ OldKey(Base, Question) \in legacy
  BY DEF SkipQuestion, IsDone
<1>1. doneQuestions = KeysOf(file) /\ legacy \subseteq doneQuestions /\ (launches = 1 => legacy = {})
  BY <1>0 DEF FileInv, InMemory, Running
<1>2. /\ <<v, j>> \in AllQuestions /\ KeyAt(<<v, j>>) = Key(Base, Question)
      /\ OldKeyAt(<<v, j>>) = OldKey(Base, Question)
  BY <1>0, RecordIs
<1>3. CASE Key(Base, Question) \in doneQuestions
  BY <1>1, <1>2, <1>3 DEF Settled
<1>4. CASE OldKey(Base, Question) \in legacy
  <2>1. PICK k \in DOMAIN file : file[k].key = OldKey(Base, Question)
    BY <1>1, <1>4 DEF KeysOf
  <2>2. PICK r \in AllQuestions : file[k].key = KeyAt(r)
    BY DEF AskInv, BenchTypeOK, IsRecord
  <2>3. launches # 1
    BY <1>1, <1>4
  <2>4. CASE KeyAt(r) = KeyAt(<<v, j>>)
    <3>1. KeyAt(<<v, j>>) \in KeysOf(file)
      BY <2>2, <2>4 DEF KeysOf
    <3> QED BY <3>1 DEF Settled
  <2>5. CASE KeyAt(r) # KeyAt(<<v, j>>)
    <3>1. Shadowed(<<v, j>>)
      BY <2>1, <2>2, <2>5, <1>2 DEF Shadowed
    <3> QED BY <2>3, <3>1 DEF Settled
  <2> QED BY <2>4, <2>5
<1> QED BY <1>0, <1>3, <1>4

\* Every step keeps the invariant of the questions.
LEMMA StepAsk == AskInv /\ FileInv /\ [BenchNext]_benchVars => AskInv'
<1> SUFFICES ASSUME AskInv, FileInv, [BenchNext]_benchVars PROVE AskInv'
  OBVIOUS
<1> USE DEF AskInv
<1>0. launches \in 0..MaxLaunches /\ MaxLaunches \in Nat
  BY BenchAssumption DEF BenchTypeOK
<1>1. CASE Launch
  <2>0. launches' \in 0..MaxLaunches
    BY <1>0, <1>1 DEF Launch
  <2>1. CASE ~bad
    <3>1. /\ phase' = "video" /\ results' = file /\ doneQuestions' = KeysOf(file) /\ legacy' = KeysOf(file)
          /\ v' = 1 /\ j' = 1 /\ visited' = {} /\ UNCHANGED <<file, ending, bad, report>>
      BY <1>1, <2>1 DEF Launch
    <3>2. BenchTypeOK'
      BY <2>0, <3>1, Positions DEF BenchTypeOK, KeysOf
    <3> QED BY <3>1, <3>2
  <2>2. CASE bad
    <3>1. Forget /\ phase' = "failed" /\ UNCHANGED <<file, ending, bad, report>>
      BY <1>1, <2>2 DEF Launch
    <3>2. \A k \in DOMAIN file' : IsRecord(file'[k])
      BY <3>1 DEF BenchTypeOK
    <3>3. ending' \in {"ended", "open"} /\ bad' \in BOOLEAN
      BY <3>1 DEF BenchTypeOK
    <3> QED BY <2>0, <3>1, <3>2, <3>3, ForgetAsk
  <2> QED BY <2>1, <2>2
<1>2. CASE Provide \/ UNCHANGED benchVars
  <2>1. UNCHANGED <<phase, file, ending, bad, report, launches, v, j, results, doneQuestions, legacy, visited>>
    BY <1>2 DEF Provide, memory, benchVars
  <2>2. BenchTypeOK'
    BY <2>1 DEF BenchTypeOK, KeysOf
  <2> QED BY <2>1, <2>2 DEF Running, Passed, Settled, KeysOf
<1>3. CASE EnterVideo
  <2>1. /\ phase = "video" /\ phase' = "ask" /\ v \in DOMAIN Videos /\ visited' = visited \cup {v} /\ j' = 1
        /\ UNCHANGED <<v, results, doneQuestions, legacy, file, ending, bad, report, launches>>
    BY <1>3, Positions DEF EnterVideo, BenchTypeOK
  <2>2. BenchTypeOK'
    BY <2>1 DEF BenchTypeOK, KeysOf
  <2>3. ASSUME NEW p \in AllQuestions, p[1] \in visited', Passed(p)' PROVE Settled(p)'
    <3>1. p[1] # v
      <4>1. p[2] \in Nat \ {0}
        BY QuestionIs, Positions
      <4> QED BY <2>1, <2>3, <4>1 DEF Passed
    <3>2. p[1] \in visited /\ Passed(p)
      BY <2>1, <2>3, <3>1 DEF Passed
    <3> QED BY <2>1, <3>2 DEF Settled, KeysOf
  <2>4. \A k \in visited' : k < v' \/ (k = v' /\ phase' = "ask")
    BY <2>1 DEF Running
  <2> QED BY <2>1, <2>2, <2>3, <2>4
<1>4. CASE MissingVideo
  <2>1. /\ phase = "video" /\ phase' = "video" /\ v \in 1..Len(Videos) /\ v' = v + 1
        /\ UNCHANGED <<j, results, doneQuestions, legacy, file, ending, bad, report, visited, launches>>
    BY <1>4, Positions DEF MissingVideo, BenchTypeOK
  <2>2. BenchTypeOK'
    BY <2>1, Positions DEF BenchTypeOK, KeysOf
  <2>3. \A k \in visited : k \in Nat /\ k < v
    BY <2>1, Positions DEF Running, BenchTypeOK
  <2> QED BY <2>1, <2>2, <2>3 DEF Running, Passed, Settled, KeysOf
<1>5. CASE LeaveVideo
  <2>1. /\ phase = "ask" /\ phase' = "video" /\ v \in 1..Len(Videos) /\ v' = v + 1
        /\ j > Len(Videos[v].qs)
        /\ UNCHANGED <<j, results, doneQuestions, legacy, file, ending, bad, report, visited, launches>>
    BY <1>5, Positions DEF LeaveVideo, BenchTypeOK
  <2>2. BenchTypeOK'
    BY <2>1, Positions DEF BenchTypeOK, KeysOf
  <2>3. \A k \in visited' : k < v'
    <3>1. \A k \in visited : k \in Nat /\ (k < v \/ k = v)
      BY <2>1, Positions DEF Running, BenchTypeOK
    <3> QED BY <2>1, <3>1
  <2>4. ASSUME NEW p \in AllQuestions, p[1] \in visited PROVE Settled(p)
    <3>1. p[1] = v => p[2] < j
      BY <2>1, QuestionIs, Positions DEF BenchTypeOK
    <3> QED BY <2>1, <2>4, <3>1 DEF Passed
  <2> QED BY <2>1, <2>2, <2>3, <2>4 DEF Settled, KeysOf
<1>6. CASE SkipQuestion
  <2>1. /\ phase = "ask" /\ v \in DOMAIN Videos /\ j' = j + 1 /\ j \in Nat \ {0}
        /\ UNCHANGED <<phase, v, results, doneQuestions, legacy, file, ending, bad, report, visited, launches>>
    BY <1>6 DEF SkipQuestion, BenchTypeOK
  <2>2. BenchTypeOK'
    BY <2>1 DEF BenchTypeOK, KeysOf
  <2>3. ASSUME NEW p \in AllQuestions, p[1] \in visited, Passed(p)' PROVE Settled(p)
    <3>1. p[1] # v \/ p[2] < j + 1
      BY <2>1, <2>3 DEF Passed
    <3>2. p[2] \in Nat
      BY QuestionIs, Positions
    <3>3. CASE p = <<v, j>>
      BY <1>6, <3>3, SkipSettles
    <3>4. CASE p # <<v, j>>
      <4>1. p[1] # v \/ p[2] # j
        BY <3>4, QuestionIs
      <4>2. p[1] # v \/ p[2] < j
        BY <2>1, <3>1, <3>2, <4>1
      <4> QED BY <2>1, <2>3, <4>2 DEF Passed
    <3> QED BY <3>3, <3>4
  <2> QED BY <2>1, <2>2, <2>3 DEF Running, Settled, KeysOf
<1>7. CASE Answer
  <2>0. /\ phase = "ask" /\ v \in DOMAIN Videos /\ j' = j + 1 /\ j \in Nat \ {0}
        /\ j <= Len(Videos[v].qs) /\ Running /\ results = file /\ IsList(file)
        /\ bad' \in BOOLEAN /\ ending' = "ended" /\ doneQuestions' = doneQuestions \cup {Key(Base, Question)}
        /\ UNCHANGED <<phase, v, legacy, report, visited, launches>>
    BY <1>7 DEF Answer, BenchTypeOK, FileInv, InMemory, Running
  <2>1. PICK o \in {"right", "wrong", "error"} :
           results' = Append(results, Record(o)) /\ file' = Append(file, Record(o))
    BY <1>7 DEF Answer
  <2>2. /\ IsRecord(Record(o)) /\ Record(o).key = Key(Base, Question)
        /\ KeyAt(<<v, j>>) = Key(Base, Question)
    BY <2>0, RecordIs
  <2>3. /\ \A k \in DOMAIN file' : IsRecord(file'[k])
        /\ KeysOf(file') = KeysOf(file) \cup {Key(Base, Question)} /\ results' = file'
    BY <2>0, <2>1, <2>2, RecordsGrow DEF BenchTypeOK
  <2>4. doneQuestions' = KeysOf(results') /\ legacy' \subseteq doneQuestions'
    BY <2>0, <2>3 DEF BenchTypeOK
  <2>5. BenchTypeOK'
    BY <2>0, <2>3, <2>4 DEF BenchTypeOK
  <2>6. ASSUME NEW p \in AllQuestions, p[1] \in visited, Passed(p)' PROVE Settled(p)'
    <3>1. p[1] # v \/ p[2] < j + 1
      BY <2>0, <2>6 DEF Passed
    <3>2. p[2] \in Nat
      BY QuestionIs, Positions
    <3>3. CASE p = <<v, j>>
      BY <2>2, <2>3, <3>3 DEF Settled
    <3>4. CASE p # <<v, j>>
      <4>1. p[1] # v \/ p[2] # j
        BY <3>4, QuestionIs
      <4>2. p[1] # v \/ p[2] < j
        BY <2>0, <3>1, <3>2, <4>1
      <4>3. Settled(p)
        BY <2>0, <2>6, <4>2 DEF Passed
      <4> QED BY <2>0, <2>3, <4>3 DEF Settled
    <3> QED BY <3>3, <3>4
  <2> QED BY <2>0, <2>5, <2>6 DEF Running
<1>8. CASE Dump \/ OpenScores \/ WriteReport
  <2>1. /\ phase \in {"video", "dump", "report"} /\ phase' \in {"dump", "report", "done"}
        /\ report'.st \in {"absent", "torn", "whole"}
        /\ UNCHANGED <<file, ending, bad, launches, v, j, results, doneQuestions, legacy, visited>>
    BY <1>8 DEF Dump, OpenScores, WriteReport, memory, BenchTypeOK
  <2>2. BenchTypeOK'
    BY <2>1 DEF BenchTypeOK, KeysOf
  <2> QED BY <2>1, <2>2 DEF Running, Passed, Settled, KeysOf
<1>9. CASE KillJob
  <2>1. Forget /\ phase' = "down" /\ UNCHANGED <<file, ending, bad, report, launches>>
    BY <1>9 DEF KillJob
  <2>2. \A k \in DOMAIN file' : IsRecord(file'[k])
    BY <2>1 DEF BenchTypeOK
  <2>3. ending' \in {"ended", "open"} /\ bad' \in BOOLEAN /\ launches' \in 0..MaxLaunches
    BY <2>1 DEF BenchTypeOK
  <2> QED BY <2>1, <2>2, <2>3, ForgetAsk
<1>10. CASE KillInWrite
  <2>0. /\ Forget /\ phase' = "down" /\ UNCHANGED <<report, launches>> /\ launches' \in 0..MaxLaunches
        /\ phase = "ask" /\ j <= Len(Videos[v].qs)
        /\ ending' \in {"ended", "open"} /\ bad' \in BOOLEAN /\ IsList(file)
    BY <1>10 DEF KillInWrite, BenchTypeOK, FileInv, InMemory
  <2>1. \A k \in DOMAIN file' : IsRecord(file'[k])
    <3>1. CASE UNCHANGED file
      BY <3>1 DEF BenchTypeOK
    <3>2. CASE \E o \in {"right", "wrong", "error"} : file' = Append(file, Record(o))
      <4>1. PICK o \in {"right", "wrong", "error"} : file' = Append(file, Record(o))
        BY <3>2
      <4>2. IsRecord(Record(o))
        BY <2>0, RecordIs
      <4> QED BY <2>0, <4>1, <4>2, RecordsGrow DEF BenchTypeOK
    <3> QED BY <1>10, <3>1, <3>2 DEF KillInWrite
  <2> QED BY <2>0, <2>1, ForgetAsk
<1> QED BY <1>1, <1>2, <1>3, <1>4, <1>5, <1>6, <1>7, <1>8, <1>9, <1>10 DEF BenchNext, Progress

\* The type of the evaluator's state.
THEOREM TypeSafety == BenchSpec => []BenchTypeOK
<1>1. AskInv => BenchTypeOK
  BY DEF AskInv
<1> QED BY <1>1, InitFile, StepFile, InitAsk, StepAsk, PTL DEF BenchSpec

\* A launch that ends has a record for every question of the videos it found,
\* but for those whose legacy key was another one's key on disk at its start.
THEOREM FoundQuestionsAreAsked == BenchSpec => []FoundIsAsked
<1>1. AskInv => FoundIsAsked
  <2> SUFFICES ASSUME AskInv, phase = "done", NEW p \in AllQuestions, p[1] \in visited,
                      ~Shadowed(p) \/ launches = 1
               PROVE  \E k \in DOMAIN file : file[k].key = KeyAt(p)
    BY DEF FoundIsAsked
  <2>1. Settled(p)
    BY DEF AskInv, Passed
  <2> QED BY <2>1 DEF Settled, KeysOf
<1> QED BY <1>1, InitFile, StepFile, InitAsk, StepAsk, PTL DEF BenchSpec
=============================================================================
