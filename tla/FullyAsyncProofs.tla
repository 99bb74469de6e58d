-------------------------- MODULE FullyAsyncProofs --------------------------
(***************************************************************************)
(* Proofs about FullyAsync, for every number of samples, batch size, queue *)
(* size, concurrency and number of failures: a sample is in one place, the *)
(* samples that wait for the trainer stay within the staleness limit and   *)
(* one, and a run that ends has trained on every complete batch.           *)
(***************************************************************************)
EXTENDS FullyAsync, FiniteSetTheorems, TLAPS

-----------------------------------------------------------------------------
(* The inductive invariant: Struct, CountInv and Freshness, see below.     *)

\* The processor has a sample in its hand only before it submits it, holds the
\* lock only to wait for a task, and reads the end signal last.
Hands ==
    /\ held # End => proc \in {"slot", "raised", "crashed"}
    /\ proc = "slot" => held # End
    /\ lock = "processor" => proc \in {"slot", "ending"}
    /\ lock = "processor" /\ proc = "ending" => Active # {}
    /\ proc \in {"ending", "stopped"} => pending = <<>> /\ feeder = "done"
    /\ proc = "stopped" => Active = {}
    /\ feeder # "done" => \A i \in 1..Len(pending) : pending[i] # End
    /\ \A i \in 1..(Len(pending) - 1) : pending[i] # End

\* Unless the rollouter crashed, the end signal is the last of the message
\* queue, it is never dropped, and the trainer stops behind it.
Closing ==
    /\ proc \notin {"stopped", "crashed"} => \A i \in 1..Len(queue) : queue[i] # End
    /\ proc # "crashed" => End \notin dropped /\ \A i \in 1..(Len(queue) - 1) : queue[i] # End
    /\ trainer \in {"stop", "lastsync", "done"} /\ proc # "crashed" =>
          proc = "stopped" /\ queue = <<>>

\* The trainer trains on whole batches.
Batches ==
    /\ trainer = "train" => Len(batch) = Required
    /\ trainer # "train" => Len(batch) < Required
    /\ Len(trained) = (Len(trained) \div Required) * Required

\* A sample that the feeder has not reached is nowhere.
Unfed == \A s \in Samples : ~WasFed(s) => Places(s) = 0

\* The same balance in numbers.
Busy == {s \in Samples : task[s] \in {"gen", "err"}}
Real(q) == Len(q) - Occ(End, q)
Counted ==
    Real(pending) + One(held # End) + Cardinality(Busy) + Real(queue) + Cardinality(dropped)
      + Len(batch) + Len(trained)
FedCount == IF feeder = "feed" THEN fed - 1 ELSE Total
Balance == proc \notin {"raised", "crashed"} => Counted = FedCount

\* What waits is at most one more than staleness_samples counts.
Freshness ==
    /\ Outstanding <= staleness + 1
    /\ proc = "get" => Outstanding <= MaxRequired
    /\ OutstandingBound
    /\ lock = "trainer" => Cardinality({s \in Samples : task[s] = "gen"}) <= snap

-----------------------------------------------------------------------------
(* Counting.                                                               *)

\* A Boolean as a number.
LEMMA OneNat == ASSUME NEW b PROVE One(b) \in Nat
  BY DEF One

\* Moving a set of positions leaves its cardinality.
LEMMA Shift ==
  ASSUME NEW S \in SUBSET Int, IsFiniteSet(S), NEW k \in Int, NEW T \in SUBSET Int,
         \A i \in Int : i \in T <=> i - k \in S
  PROVE  IsFiniteSet(T) /\ Cardinality(T) = Cardinality(S)
<1> DEFINE f == [i \in S |-> i + k]
<1>1. \A i \in S : i + k \in T
  BY Z3
<1>2. f \in [S -> T] /\ \A i \in S : f[i] = i + k
  BY <1>1
<1>3. \A a, b \in S : f[a] = f[b] => a = b
  BY <1>2
<1>4. \A t \in T : \E i \in S : f[i] = t
  <2> TAKE t \in T
  <2>1. t - k \in S /\ (t - k) + k = t
    OBVIOUS
  <2> QED BY <1>2, <2>1
<1> HIDE DEF f
<1>5. f \in Injection(S, T) /\ f \in Surjection(S, T)
  BY <1>2, <1>3, <1>4 DEF Injection, Surjection, IsInjective
<1>6. ExistsBijection(S, T)
  BY <1>5 DEF ExistsBijection, Bijection
<1> QED BY <1>6, FS_Bijection

\* Positions of an element.
Idx(s, q) == {i \in 1..Len(q) : q[i] = s}

\* The positions of an element are finitely many, at most the length.
LEMMA IdxFinite ==
  ASSUME NEW S, NEW q \in Seq(S), NEW s
  PROVE  /\ IsFiniteSet(Idx(s, q)) /\ Occ(s, q) = Cardinality(Idx(s, q)) /\ Occ(s, q) \in Nat
         /\ Occ(s, q) <= Len(q) /\ Len(q) \in Nat
         /\ (Occ(s, q) = 0 <=> \A i \in 1..Len(q) : q[i] # s)
<1>1. Len(q) \in Nat /\ Idx(s, q) \in SUBSET (1..Len(q))
  BY DEF Idx
<1>2. IsFiniteSet(1..Len(q)) /\ Cardinality(1..Len(q)) = Len(q)
  <2>1. 1 \in Int /\ Len(q) \in Int
    BY <1>1
  <2>2. IsFiniteSet(1..Len(q)) /\ Cardinality(1..Len(q)) = IF 1 > Len(q) THEN 0 ELSE Len(q) - 1 + 1
    BY <2>1, FS_Interval
  <2> QED BY <1>1, <2>2
<1>3. IsFiniteSet(Idx(s, q)) /\ Cardinality(Idx(s, q)) <= Len(q)
  BY <1>1, <1>2, FS_Subset
<1>4. Occ(s, q) = Cardinality(Idx(s, q))
  BY DEF Occ, Idx
<1>5. Cardinality(Idx(s, q)) \in Nat /\ (Cardinality(Idx(s, q)) = 0 <=> Idx(s, q) = {})
  BY <1>3, FS_CardinalityType, FS_EmptySet
<1>6. Idx(s, q) = {} <=> \A i \in 1..Len(q) : q[i] # s
  BY DEF Idx
<1> QED BY <1>1, <1>3, <1>4, <1>5, <1>6

\* An empty queue holds nothing.
LEMMA OccEmpty == \A s : Occ(s, <<>>) = 0 /\ Real(<<>>) = 0
<1>1. <<>> \in Seq({}) /\ Len(<<>>) = 0
  OBVIOUS
<1>2. ASSUME NEW s PROVE Occ(s, <<>>) = 0
  <2>1. Occ(s, <<>>) = 0 <=> \A i \in 1..Len(<<>>) : <<>>[i] # s
    BY <1>1, IdxFinite
  <2>2. 1..Len(<<>>) = {}
    BY <1>1
  <2> QED BY <2>1, <2>2
<1> QED BY <1>1, <1>2 DEF Real

\* One element is put at the end of a queue.
LEMMA OccAppend ==
  ASSUME NEW S, NEW q \in Seq(S), NEW x \in S
  PROVE  /\ \A s : Occ(s, Append(q, x)) = Occ(s, q) + One(x = s)
         /\ Real(Append(q, x)) = Real(q) + One(x # End)
<1> DEFINE a == Append(q, x)
<1>1. /\ a \in Seq(S) /\ Len(a) = Len(q) + 1 /\ Len(q) \in Nat
      /\ a[Len(q) + 1] = x /\ \A i \in 1..Len(q) : a[i] = q[i]
  OBVIOUS
<1> HIDE DEF a
<1>2. ASSUME NEW s PROVE Occ(s, a) = Occ(s, q) + One(x = s)
  <2>0. /\ IsFiniteSet(Idx(s, q)) /\ Occ(s, q) = Cardinality(Idx(s, q)) /\ Occ(s, q) \in Nat
        /\ Occ(s, a) = Cardinality(Idx(s, a))
    BY <1>1, IdxFinite
  <2>1. CASE x = s
    <3>1. Idx(s, a) = Idx(s, q) \cup {Len(q) + 1} /\ Len(q) + 1 \notin Idx(s, q)
      BY <1>1, <2>1 DEF Idx
    <3>2. Cardinality(Idx(s, q) \cup {Len(q) + 1}) = Cardinality(Idx(s, q)) + 1
      BY <2>0, <3>1, FS_AddElement
    <3> QED BY <2>0, <2>1, <3>1, <3>2 DEF One
  <2>2. CASE x # s
    <3>1. Idx(s, a) = Idx(s, q)
      BY <1>1, <2>2 DEF Idx
    <3> QED BY <2>0, <2>2, <3>1 DEF One
  <2> QED BY <2>1, <2>2
<1>3. Real(a) = Real(q) + One(x # End)
  <2>1. Occ(End, a) = Occ(End, q) + One(x = End) /\ Occ(End, q) \in Nat
    BY <1>2, IdxFinite
  <2> QED BY <1>1, <2>1 DEF Real, One
<1> QED BY <1>2, <1>3 DEF a

\* The oldest element is taken from a queue.
LEMMA OccTail ==
  ASSUME NEW S, NEW q \in Seq(S), q # <<>>
  PROVE  /\ \A s : Occ(s, q) = Occ(s, Tail(q)) + One(Head(q) = s)
         /\ Real(q) = Real(Tail(q)) + One(Head(q) # End)
<1> DEFINE t == Tail(q)
<1>1. /\ t \in Seq(S) /\ Len(q) \in Nat /\ Len(q) > 0 /\ Len(t) = Len(q) - 1 /\ Head(q) = q[1]
      /\ \A i \in 1..Len(t) : t[i] = q[i + 1]
  OBVIOUS
<1> HIDE DEF t
<1>2. ASSUME NEW s PROVE Occ(s, q) = Occ(s, t) + One(Head(q) = s)
  <2>0. /\ IsFiniteSet(Idx(s, t)) /\ Occ(s, t) = Cardinality(Idx(s, t)) /\ Occ(s, t) \in Nat
        /\ Occ(s, q) = Cardinality(Idx(s, q))
    BY <1>1, IdxFinite
  <2> DEFINE R == Idx(s, q) \ {1}
  <2>1. R \in SUBSET Int /\ Idx(s, t) \in SUBSET Int /\ \A i \in Int : i \in R <=> i - 1 \in Idx(s, t)
    BY <1>1 DEF Idx
  <2>2. IsFiniteSet(R) /\ Cardinality(R) = Cardinality(Idx(s, t))
    <3> HIDE DEF R
    <3> DEFINE I == Idx(s, t)
               k == 1
    <3>1. I \in SUBSET Int /\ R \in SUBSET Int /\ \A i \in Int : i \in R <=> i - k \in I
      BY <2>1
    <3>2. IsFiniteSet(I) /\ k \in Int
      BY <2>0
    <3> HIDE DEF I, k
    <3>3. IsFiniteSet(R) /\ Cardinality(R) = Cardinality(I)
      BY ONLY <3>1, <3>2, Shift
    <3> QED BY <3>3 DEF I
  <2>3. CASE Head(q) = s
    <3>1. Idx(s, q) = R \cup {1} /\ 1 \notin R
      BY <1>1, <2>3 DEF Idx
    <3>2. Cardinality(R \cup {1}) = Cardinality(R) + 1
      BY <2>2, <3>1, FS_AddElement
    <3> HIDE DEF R
    <3> QED BY <2>0, <2>2, <2>3, <3>1, <3>2 DEF One
  <2>4. CASE Head(q) # s
    <3>1. Idx(s, q) = R
      BY <1>1, <2>4 DEF Idx
    <3> HIDE DEF R
    <3> QED BY <2>0, <2>2, <2>4, <3>1 DEF One
  <2> QED BY <2>3, <2>4
<1>3. Real(q) = Real(t) + One(Head(q) # End)
  <2>1. Occ(End, q) = Occ(End, t) + One(Head(q) = End) /\ Occ(End, t) \in Nat
    BY <1>1, <1>2, IdxFinite
  <2> QED BY <1>1, <2>1 DEF Real, One
<1> QED BY <1>2, <1>3 DEF t

\* A batch is put behind the samples trained on.
LEMMA OccConcat ==
  ASSUME NEW S, NEW a \in Seq(S), NEW b \in Seq(S), NEW s
  PROVE  Occ(s, a \o b) = Occ(s, a) + Occ(s, b)
<1> DEFINE c == a \o b
<1>1. /\ c \in Seq(S) /\ Len(a) \in Nat /\ Len(b) \in Nat /\ Len(c) = Len(a) + Len(b)
      /\ \A i \in 1..Len(c) : c[i] = IF i <= Len(a) THEN a[i] ELSE b[i - Len(a)]
  OBVIOUS
<1> HIDE DEF c
<1>2. /\ IsFiniteSet(Idx(s, a)) /\ Occ(s, a) = Cardinality(Idx(s, a)) /\ Occ(s, a) \in Nat
      /\ IsFiniteSet(Idx(s, b)) /\ Occ(s, b) = Cardinality(Idx(s, b)) /\ Occ(s, b) \in Nat
      /\ Occ(s, c) = Cardinality(Idx(s, c))
  BY <1>1, IdxFinite
<1> DEFINE R == Idx(s, c) \ Idx(s, a)
<1>3. R \in SUBSET Int /\ Idx(s, b) \in SUBSET Int
  BY DEF Idx
<1>4. \A i \in Int : i \in R <=> i - Len(a) \in Idx(s, b)
  BY <1>1 DEF Idx
<1>5. Idx(s, c) = Idx(s, a) \cup R /\ Idx(s, a) \cap R = {}
  BY <1>1 DEF Idx
<1> HIDE DEF R
<1>6. IsFiniteSet(R) /\ Cardinality(R) = Cardinality(Idx(s, b))
  <2> DEFINE I == Idx(s, b)
             k == Len(a)
  <2>1. I \in SUBSET Int /\ IsFiniteSet(I) /\ k \in Int /\ R \in SUBSET Int
        /\ \A i \in Int : i \in R <=> i - k \in I
    BY <1>1, <1>2, <1>3, <1>4
  <2> HIDE DEF I, k
  <2>2. IsFiniteSet(R) /\ Cardinality(R) = Cardinality(I)
    BY ONLY <2>1, Shift
  <2> QED BY <2>2 DEF I
<1>7. Cardinality(Idx(s, a) \cup R) = Cardinality(Idx(s, a)) + Cardinality(R) - Cardinality({})
  BY <1>2, <1>5, <1>6, FS_Union
<1> QED BY <1>2, <1>5, <1>6, <1>7, FS_EmptySet DEF c

-----------------------------------------------------------------------------
(* The type of the state, hands, closing and batches.                      *)

\* The part of the invariant that does not count.
Struct == TypeOK /\ Hands /\ Closing /\ Batches

\* The first element of a queue and the rest.
LEMMA TailIs ==
  ASSUME NEW S, NEW q \in Seq(S), q # <<>>
  PROVE  /\ Head(q) = q[1] /\ q[1] \in S /\ 1 \in 1..Len(q) /\ Len(q) \in Nat /\ Len(q) > 0
         /\ Tail(q) \in Seq(S) /\ Len(Tail(q)) = Len(q) - 1
         /\ \A i \in 1..Len(Tail(q)) : Tail(q)[i] = q[i + 1]
  OBVIOUS

\* Two sequences one behind the other.
LEMMA ConcatIs ==
  ASSUME NEW S, NEW a \in Seq(S), NEW b \in Seq(S)
  PROVE  a \o b \in Seq(S) /\ Len(a \o b) = Len(a) + Len(b) /\ Len(a) \in Nat /\ Len(b) \in Nat
  OBVIOUS

\* put_sample: the new element is the last one, and what is dropped was there.
LEMMA PutIs ==
  ASSUME TypeOK, NEW x \in 0..Total, Put(x)
  PROVE  /\ queue' \in Seq(0..Total) /\ Len(queue') \in 1..MaxRequired
         /\ dropped' \subseteq 0..Total /\ queue'[Len(queue')] = x
         /\ \A i \in 1..(Len(queue') - 1) : \E k \in 1..Len(queue) : queue'[i] = queue[k]
         /\ End \in dropped' => End \in dropped \/ \E k \in 1..Len(queue) : queue[k] = End
<1>0. /\ queue \in Seq(0..Total) /\ Len(queue) \in Nat /\ Len(queue) <= MaxRequired
      /\ MaxRequired \in Nat \ {0} /\ dropped \subseteq 0..Total
  <2>1. Required * Sync \in Nat \ {0}
    <3>1. Required \in Nat \ {0} /\ Sync \in Nat \ {0}
      BY AsyncAssumption
    <3> QED BY <3>1, Z3
  <2> QED BY <2>1, AsyncAssumption DEF TypeOK
<1>1. CASE Len(queue) >= MaxRequired
  <2>0. queue # <<>>
    BY <1>0, <1>1
  <2> DEFINE t == Tail(queue)
  <2>2. /\ Head(queue) = queue[1] /\ queue[1] \in 0..Total /\ 1 \in 1..Len(queue)
        /\ t \in Seq(0..Total) /\ Len(t) = Len(queue) - 1
        /\ \A i \in 1..Len(t) : t[i] = queue[i + 1]
    BY <1>0, <2>0, TailIs
  <2>1. queue' = Append(t, x) /\ dropped' = dropped \cup {queue[1]}
    BY <1>1, <2>2 DEF Put
  <2> HIDE DEF t
  <2>3. /\ queue' \in Seq(0..Total) /\ Len(queue') = Len(queue) /\ queue'[Len(queue')] = x
        /\ \A i \in 1..(Len(queue) - 1) : queue'[i] = t[i]
    BY <1>0, <2>1, <2>2
  <2>4. \A i \in 1..(Len(queue) - 1) : i + 1 \in 1..Len(queue) /\ queue'[i] = queue[i + 1]
    BY <1>0, <2>2, <2>3
  <2>5. \A i \in 1..(Len(queue') - 1) : \E k \in 1..Len(queue) : queue'[i] = queue[k]
    BY <2>3, <2>4
  <2>6. End \in dropped' => End \in dropped \/ \E k \in 1..Len(queue) : queue[k] = End
    BY <2>1, <2>2
  <2>7. dropped' \subseteq 0..Total
    BY <1>0, <2>1, <2>2
  <2>8. Len(queue') \in 1..MaxRequired
    BY <1>0, <1>1, <2>3
  <2> QED BY <2>3, <2>5, <2>6, <2>7, <2>8
<1>2. CASE ~(Len(queue) >= MaxRequired)
  <2>1. queue' = Append(queue, x) /\ dropped' = dropped
    BY <1>2 DEF Put
  <2>2. /\ queue' \in Seq(0..Total) /\ Len(queue') = Len(queue) + 1 /\ queue'[Len(queue')] = x
        /\ \A i \in 1..Len(queue) : queue'[i] = queue[i]
    BY <1>0, <2>1
  <2> QED BY <1>0, <1>2, <2>1, <2>2
<1> QED BY <1>1, <1>2

\* Steps of the processor that move no sample.
LEMMA ControlStruct ==
  Struct /\ (CheckPaused \/ DecidePause \/ Pause \/ DrainResumed \/ WaitLock) => Struct'
<1> SUFFICES ASSUME Struct, CheckPaused \/ DecidePause \/ Pause \/ DrainResumed \/ WaitLock
    PROVE Struct'
  OBVIOUS
<1> USE DEF Struct
<1>0. UNCHANGED <<fed, feeder, pending, held, task, staleness, running, monitor, queue, dropped,
                  trainer, batch, trained, local, version, snap>>
  BY DEF CheckPaused, DecidePause, Pause, DrainResumed, WaitLock, feedVars, procVars, monVars,
         queueVars, trainVars, ctlVars
<1>1. CASE CheckPaused \/ DecidePause \/ Pause \/ DrainResumed
  <2>0. UNCHANGED lock
    BY <1>1 DEF CheckPaused, DecidePause, Pause, DrainResumed, ctlVars
  <2>1. /\ proc \in {"check", "decide", "pause", "drain"}
        /\ proc' \in {"check", "decide", "pause", "drain", "get"}
    BY <1>1 DEF CheckPaused, DecidePause, Pause, DrainResumed
  <2>2. full' \in BOOLEAN /\ paused' \in BOOLEAN /\ resume' \in BOOLEAN
    <3>0. full \in BOOLEAN /\ paused \in BOOLEAN /\ resume \in BOOLEAN
      BY DEF TypeOK
    <3>1. CASE CheckPaused
      <4>1. UNCHANGED <<paused, resume>> /\ (full' = full \/ full' = (Len(queue) >= MaxRequired))
        BY <3>1 DEF CheckPaused, ctlVars
      <4>2. (Len(queue) >= MaxRequired) \in BOOLEAN
        OBVIOUS
      <4> QED BY <3>0, <4>1, <4>2
    <3>2. CASE DecidePause
      BY <3>0, <3>2 DEF DecidePause, ctlVars
    <3>3. CASE Pause
      BY <3>0, <3>3 DEF Pause
    <3>4. CASE DrainResumed
      BY <3>0, <3>4 DEF DrainResumed, ctlVars
    <3> QED BY <1>1, <3>1, <3>2, <3>3, <3>4
  <2>3. TypeOK'
    BY <1>0, <2>0, <2>1, <2>2 DEF TypeOK
  <2>4. Hands'
    BY <1>0, <2>0, <2>1 DEF Hands, Active
  <2>5. Closing' /\ Batches'
    BY <1>0, <2>1 DEF Closing, Batches
  <2> QED BY <2>3, <2>4, <2>5
<1>2. CASE WaitLock
  <2>1. UNCHANGED <<proc, full, paused, resume>> /\ lock' = "processor" /\ MustWait
    BY <1>2 DEF WaitLock, procVars
  <2>2. TypeOK'
    BY <1>0, <2>1 DEF TypeOK
  <2>3. proc \in {"slot", "ending"} /\ (proc = "ending" => Active # {})
    BY <2>1 DEF MustWait
  <2>4. Hands'
    BY <1>0, <2>1, <2>3 DEF Hands, Active
  <2>5. Closing' /\ Batches'
    BY <1>0, <2>1 DEF Closing, Batches
  <2> QED BY <2>2, <2>4, <2>5
<1> QED BY <1>1, <1>2

\* Tasks that have finished are taken out of active_tasks.
LEMMA DiscardStruct == Struct /\ (Drain \/ WaitTask) => Struct'
<1> SUFFICES ASSUME Struct, Drain \/ WaitTask PROVE Struct'
  OBVIOUS
<1> USE DEF Struct
<1>0. UNCHANGED <<fed, feeder, pending, held, full, paused, resume, staleness, running, monitor,
                  queue, dropped, trainer, batch, trained, local, version, snap>>
  BY DEF Drain, WaitTask, feedVars, ctlVars, monVars, queueVars, trainVars
<1>1. /\ task' \in [Samples -> {"no", "gen", "put", "fin", "err"}] /\ lock' = "free"
      /\ \/ proc \in {"drain", "slot", "ending"} /\ proc' = "raised"
         \/ proc = "drain" /\ proc' \in {"check", "drain"}
         \/ proc \in {"slot", "ending"} /\ proc' = proc
  <2>1. CASE Drain
    <3>1. PICK D \in SUBSET Finished : Discard(D, IF resume THEN "check" ELSE "drain")
      BY <2>1 DEF Drain
    <3>2. task' \in [Samples -> {"no", "gen", "put", "fin", "err"}]
      BY <3>1 DEF Discard, TypeOK
    <3>3. proc = "drain" /\ proc' \in {"raised", "check", "drain"} /\ lock' = "free"
      BY <2>1, <3>1 DEF Discard, Drain, ctlVars
    <3> QED BY <3>2, <3>3
  <2>2. CASE WaitTask
    <3>1. task' \in [Samples -> {"no", "gen", "put", "fin", "err"}]
      BY <2>2 DEF WaitTask, Discard, TypeOK
    <3>2. proc \in {"slot", "ending"} /\ (proc' = "raised" \/ proc' = proc) /\ lock' = "free"
      BY <2>2 DEF WaitTask, Discard, Hands
    <3> QED BY <3>1, <3>2
  <2> QED BY <2>1, <2>2
<1>2. TypeOK'
  BY <1>0, <1>1 DEF TypeOK
<1>3. Hands'
  BY <1>0, <1>1 DEF Hands
<1>4. Closing' /\ Batches'
  BY <1>0, <1>1 DEF Closing, Batches
<1> QED BY <1>2, <1>3, <1>4

\* The processor takes a sample and submits it.
LEMMA GetStruct == Struct /\ (GetSample \/ Submit) => Struct'
<1> SUFFICES ASSUME Struct, GetSample \/ Submit PROVE Struct'
  OBVIOUS
<1> USE DEF Struct
<1>0. UNCHANGED <<fed, feeder, full, paused, resume, running, lock, monitor,
                  queue, dropped, trainer, batch, trained, local, version, snap>>
  BY DEF GetSample, Submit, feedVars, ctlVars, monVars, queueVars, trainVars
<1>1. CASE GetSample
  <2>1. /\ proc = "get" /\ pending # <<>> /\ pending \in Seq(0..Total) /\ staleness \in Nat
        /\ held' = Head(pending) /\ pending' = Tail(pending) /\ staleness' = staleness + 1
        /\ proc' = (IF held' = End THEN "ending" ELSE "slot") /\ UNCHANGED task
    BY <1>1 DEF GetSample, TypeOK
  <2>2. /\ held' \in 0..Total /\ held' = pending[1] /\ pending' \in Seq(0..Total)
        /\ Len(pending) \in Nat /\ Len(pending) > 0 /\ Len(pending') = Len(pending) - 1
        /\ \A i \in 1..Len(pending') : pending'[i] = pending[i + 1]
    BY <2>1, TailIs
  <2>3. TypeOK'
    <3>1. Len(pending') <= PendingSize /\ staleness' \in Nat
      BY <2>1, <2>2, AsyncAssumption DEF TypeOK
    <3>2. proc' \in {"ending", "slot"}
      BY <2>1
    <3> QED BY <1>0, <2>1, <2>2, <3>1, <3>2 DEF TypeOK
  <2>4. held' = End => pending' = <<>> /\ feeder = "done"
    <3> SUFFICES ASSUME held' = End PROVE pending' = <<>> /\ feeder = "done"
      OBVIOUS
    <3>1. 1 \notin 1..(Len(pending) - 1) /\ feeder = "done"
      BY <2>2 DEF Hands
    <3>2. Len(pending') = 0
      BY <2>2, <3>1
    <3> QED BY <2>2, <3>1, <3>2
  <2>5. /\ feeder # "done" => \A i \in 1..Len(pending') : pending'[i] # End
        /\ \A i \in 1..(Len(pending') - 1) : pending'[i] # End
    <3>1. \A i \in 1..Len(pending') : i + 1 \in 1..Len(pending)
      BY <2>2
    <3>2. \A i \in 1..(Len(pending') - 1) : i \in 1..Len(pending') /\ i + 1 \in 1..(Len(pending) - 1)
      BY <2>2
    <3> QED BY <2>2, <3>1, <3>2 DEF Hands
  <2>6. Hands'
    BY <1>0, <2>1, <2>4, <2>5 DEF Hands
  <2>7. Closing' /\ Batches'
    BY <1>0, <2>1 DEF Closing, Batches
  <2> QED BY <2>3, <2>6, <2>7
<1>2. CASE Submit
  <2>1. /\ proc = "slot" /\ proc' = "check" /\ held' = End /\ lock = "free"
        /\ task' = [task EXCEPT ![held] = "gen"] /\ UNCHANGED <<pending, staleness>>
    BY <1>2 DEF Submit, ctlVars
  <2>2. task' \in [Samples -> {"no", "gen", "put", "fin", "err"}]
    BY <2>1 DEF TypeOK
  <2>3. TypeOK'
    BY <1>0, <2>1, <2>2, AsyncAssumption DEF TypeOK, End
  <2>4. Hands'
    BY <1>0, <2>1 DEF Hands
  <2>5. Closing' /\ Batches'
    BY <1>0, <2>1 DEF Closing, Batches
  <2> QED BY <2>3, <2>4, <2>5
<1> QED BY <1>1, <1>2

\* The processor ends, or its exception ends the rollouter.
LEMMA EndStruct == Struct /\ SendEnd => Struct'
<1> SUFFICES ASSUME Struct, SendEnd PROVE Struct'
  OBVIOUS
<1> USE DEF Struct
<1>0. /\ UNCHANGED <<fed, pending, held, full, task, paused, resume, staleness, lock, monitor,
                     trainer, batch, trained, local, version, snap>>
      /\ running' = FALSE /\ feeder' = "done" /\ Put(End) /\ End \in 0..Total
      /\ \/ proc = "raised" /\ proc' = "crashed"
         \/ proc = "ending" /\ Active = {} /\ proc' = "stopped"
  BY AsyncAssumption DEF SendEnd, monVars, trainVars, End
<1>1. /\ queue' \in Seq(0..Total) /\ Len(queue') \in 1..MaxRequired /\ dropped' \subseteq 0..Total
      /\ \A i \in 1..(Len(queue') - 1) : \E k \in 1..Len(queue) : queue'[i] = queue[k]
      /\ End \in dropped' => End \in dropped \/ \E k \in 1..Len(queue) : queue[k] = End
  BY <1>0, PutIs
<1>2. TypeOK'
  <2>1. Len(queue') <= MaxRequired
    BY <1>1, AsyncAssumption
  <2> QED BY <1>0, <1>1, <2>1 DEF TypeOK
<1>3. Hands'
  BY <1>0 DEF Hands, Active
<1>4. Closing'
  <2>1. ASSUME proc = "ending"
        PROVE  End \notin dropped' /\ \A i \in 1..(Len(queue') - 1) : queue'[i] # End
    BY <1>1, <2>1 DEF Closing
  <2>2. trainer \in {"stop", "lastsync", "done"} => proc' = "crashed"
    BY <1>0 DEF Closing
  <2> QED BY <1>0, <2>1, <2>2 DEF Closing
<1>5. Batches'
  BY <1>0 DEF Batches
<1> QED BY <1>2, <1>3, <1>4, <1>5

\* The steps of a generation task.
LEMMA TaskStruct ==
  ASSUME Struct, NEW s \in Samples, Task(s) \/ TaskRaises(s)
  PROVE  Struct'
<1> USE DEF Struct
<1>0. UNCHANGED <<fed, feeder, pending, proc, held, full, paused, resume, staleness, running,
                  lock, monitor, trainer, batch, trained, local, version, snap>>
  BY DEF Task, Generated, TaskEnds, TaskRaises, feedVars, procVars, ctlVars, monVars, trainVars
<1>1. /\ task[s] \in {"gen", "put"} /\ s \in 0..Total
      /\ \E x \in {"put", "fin", "err"} : task' = [task EXCEPT ![s] = x]
  BY DEF Task, Generated, TaskEnds, TaskRaises, Samples
<1>2. task' \in [Samples -> {"no", "gen", "put", "fin", "err"}] /\ Active' = Active /\ Active # {}
  BY <1>1 DEF TypeOK, Active
<1>3. Hands' /\ proc # "stopped" /\ Batches'
  BY <1>0, <1>2 DEF Hands, Batches
<1>4. CASE Generated(s)
  <2>0. Put(s)
    BY <1>4 DEF Generated
  <2>1. /\ queue' \in Seq(0..Total) /\ Len(queue') \in 1..MaxRequired /\ dropped' \subseteq 0..Total
        /\ queue'[Len(queue')] = s
        /\ \A i \in 1..(Len(queue') - 1) : \E k \in 1..Len(queue) : queue'[i] = queue[k]
        /\ End \in dropped' => End \in dropped \/ \E k \in 1..Len(queue) : queue[k] = End
    BY <1>1, <2>0, PutIs
  <2>2. Len(queue') <= MaxRequired /\ Len(queue') \in Nat
    BY <2>1, AsyncAssumption
  <2>3. TypeOK'
    BY <1>0, <1>2, <2>1, <2>2 DEF TypeOK
  <2>4. s # End
    BY DEF Samples, End
  <2>5. ASSUME proc # "crashed"
        PROVE  /\ End \notin dropped' /\ \A i \in 1..(Len(queue') - 1) : queue'[i] # End
               /\ \A i \in 1..Len(queue') : queue'[i] # End
    <3>1. End \notin dropped' /\ \A i \in 1..(Len(queue') - 1) : queue'[i] # End
      BY <1>3, <2>1, <2>5 DEF Closing
    <3>2. \A i \in 1..Len(queue') : i \in 1..(Len(queue') - 1) \/ i = Len(queue')
      BY <2>2
    <3> QED BY <2>1, <2>4, <3>1, <3>2
  <2>6. trainer \in {"stop", "lastsync", "done"} => proc = "crashed"
    BY <1>3 DEF Closing
  <2>7. Closing'
    BY <1>0, <1>3, <2>5, <2>6 DEF Closing
  <2> QED BY <1>3, <2>3, <2>7
<1>5. CASE TaskEnds(s) \/ TaskRaises(s)
  <2>1. UNCHANGED <<queue, dropped>>
    BY <1>5 DEF TaskEnds, TaskRaises, queueVars
  <2>2. TypeOK'
    BY <1>0, <1>2, <2>1 DEF TypeOK
  <2>3. Closing'
    BY <1>0, <2>1 DEF Closing
  <2> QED BY <1>3, <2>2, <2>3
<1> QED BY <1>4, <1>5 DEF Task

\* The monitor.
LEMMA MonitorStruct == Struct /\ Monitor => Struct'
<1> SUFFICES ASSUME Struct, Monitor PROVE Struct'
  OBVIOUS
<1> USE DEF Struct
<1>0. /\ UNCHANGED <<fed, feeder, pending, proc, held, full, task, staleness, running,
                     lock, queue, dropped, trainer, batch, trained, local, version, snap>>
      /\ monitor' \in {"sleep", "decide", "resume"}
      /\ paused' \in BOOLEAN /\ resume' \in BOOLEAN
  BY DEF Monitor, MonitorRead, MonitorDecide, MonitorResume, feedVars, procVars, ctlVars,
         queueVars, trainVars, TypeOK
<1>1. TypeOK'
  BY <1>0 DEF TypeOK
<1>2. Hands' /\ Closing' /\ Batches'
  BY <1>0 DEF Hands, Closing, Batches, Active
<1> QED BY <1>1, <1>2

\* Quotient and remainder.
LEMMA DivMod == ASSUME NEW n \in Nat, NEW k \in Nat \ {0}
  PROVE /\ n \div k \in Nat
        /\ n % k \in 0..(k - 1)
        /\ n = (n \div k) * k + (n % k)
  BY Z3

\* They are unique.
LEMMA DivUnique ==
  ASSUME NEW k \in Nat \ {0}, NEW a \in Nat, NEW x \in 0..(k - 1)
  PROVE  (a * k + x) \div k = a
<1> DEFINE n == a * k + x
           b == n \div k
           y == n % k
<1>0. a * k \in Nat
  BY Z3
<1>1. n \in Nat
  BY <1>0
<1>2. b \in Nat /\ y \in 0..(k - 1) /\ n = b * k + y
  BY <1>1, DivMod
<1>3. ASSUME NEW c \in Nat, NEW d \in Nat, NEW u \in 0..(k - 1), NEW v \in 0..(k - 1),
             c * k + u = d * k + v
      PROVE  ~(c < d)
  <2>1. SUFFICES ASSUME c < d PROVE FALSE
    OBVIOUS
  <2>2. (c + 1) * k <= d * k /\ (c + 1) * k = c * k + k
    BY <2>1, Z3
  <2> DEFINE C == c * k
             D == d * k
  <2>3. C \in Nat /\ D \in Nat
    BY Z3
  <2>4. C + k <= D /\ C + u = D + v
    BY <1>3, <2>2
  <2> HIDE DEF C, D
  <2> QED BY <2>3, <2>4
<1>4. a * k + x = b * k + y
  BY <1>2
<1> HIDE DEF n, b, y
<1>5. ~(a < b) /\ ~(b < a)
  BY <1>2, <1>3, <1>4
<1>6. b = a
  BY <1>2, <1>5
<1> QED BY <1>6 DEF b, n

\* The trainer.
LEMMA TrainerStruct == Struct /\ Trainer => Struct'
<1> SUFFICES ASSUME Struct, Trainer PROVE Struct'
  OBVIOUS
<1> USE DEF Struct
<1>0. /\ UNCHANGED <<fed, feeder, pending, proc, held, full, task, running, monitor, dropped>>
      /\ Required \in Nat \ {0} /\ Sync \in Nat \ {0}
  BY AsyncAssumption DEF Trainer, Collect, Train, Stop, ResetStaleness, ResetStalenessEnd,
       feedVars, procVars, ctlVars, monVars, queueVars
<1>1. CASE Collect
  <2>1. /\ trainer = "collect" /\ queue # <<>> /\ queue' = Tail(queue)
        /\ UNCHANGED <<trained, local, version, snap, paused, resume, staleness, lock>>
        /\ Len(queue) <= MaxRequired /\ Len(batch) < Required /\ batch \in Seq(Samples)
    BY <1>1 DEF Collect, ctlVars, TypeOK, Batches
  <2>2. /\ Head(queue) = queue[1] /\ queue[1] \in 0..Total /\ Len(queue) \in Nat /\ Len(queue) > 0
        /\ queue' \in Seq(0..Total) /\ Len(queue') = Len(queue) - 1
        /\ \A i \in 1..Len(queue') : queue'[i] = queue[i + 1]
    BY <2>1, TailIs DEF TypeOK
  <2>3. \/ queue[1] = End /\ trainer' = "stop" /\ UNCHANGED batch
        \/ /\ queue[1] # End /\ batch' = Append(batch, queue[1])
           /\ trainer' = IF Len(batch') = Required THEN "train" ELSE "collect"
    BY <1>1, <2>2 DEF Collect
  <2>4. /\ batch' \in Seq(Samples) /\ Len(batch') <= Required
        /\ trainer' \in {"collect", "train", "stop"}
        /\ trainer' = "train" <=> Len(batch') = Required
    <3>1. CASE queue[1] = End
      BY <1>0, <2>1, <2>3, <3>1
    <3>2. CASE queue[1] # End
      <4>1. queue[1] \in Samples
        BY <2>2, <3>2, AsyncAssumption DEF Samples, End
      <4> QED BY <1>0, <2>1, <2>3, <3>2, <4>1
    <3> QED BY <3>1, <3>2
  <2>5. TypeOK'
    <3>1. Len(queue') <= MaxRequired
      BY <2>1, <2>2, AsyncAssumption
    <3> QED BY <1>0, <2>1, <2>2, <2>4, <3>1 DEF TypeOK
  <2>6. Hands'
    BY <1>0, <2>1 DEF Hands, Active
  <2>7. Batches'
    <3>1. Len(batch') \in Nat
      BY <2>4
    <3> QED BY <1>0, <2>1, <2>4, <3>1 DEF Batches
  <2>8. Closing'
    <3>1. \A i \in 1..Len(queue') : i + 1 \in 1..Len(queue)
      BY <2>2
    <3>2. \A i \in 1..(Len(queue') - 1) : i \in 1..Len(queue') /\ i + 1 \in 1..(Len(queue) - 1)
      BY <2>2
    <3>3. ASSUME trainer' = "stop", proc # "crashed" PROVE proc = "stopped" /\ queue' = <<>>
      <4>1. queue[1] = End /\ 1 \in 1..Len(queue)
        BY <2>2, <2>3, <3>3
      <4>2. proc = "stopped" /\ 1 \notin 1..(Len(queue) - 1)
        BY <3>3, <4>1 DEF Closing
      <4>3. Len(queue') = 0
        BY <2>2, <4>2
      <4> QED BY <2>2, <4>2, <4>3
    <3> QED BY <1>0, <2>2, <2>4, <3>1, <3>2, <3>3 DEF Closing
  <2> QED BY <2>5, <2>6, <2>7, <2>8
<1>2. CASE Train
  <2>1. /\ trainer = "train" /\ trained' = trained \o batch /\ batch' = <<>>
        /\ UNCHANGED <<snap, paused, resume, staleness, lock, queue>>
        /\ Len(batch) = Required /\ batch \in Seq(Samples) /\ trained \in Seq(Samples)
    BY <1>2 DEF Train, ctlVars, queueVars, TypeOK, Batches
  <2>2. trained' \in Seq(Samples) /\ Len(trained') = Len(trained) + Required
        /\ Len(trained) \in Nat /\ batch' \in Seq(Samples) /\ Len(batch') = 0
    <3>1. trained' \in Seq(Samples) /\ Len(trained') = Len(trained) + Required
          /\ Len(trained) \in Nat
      BY <2>1, ConcatIs
    <3>2. batch' \in Seq(Samples) /\ Len(batch') = 0
      BY <2>1
    <3> QED BY <3>1, <3>2
  <2>3. local' \in 1..Sync /\ version' \in Nat /\ trainer' \in {"collect", "sync"}
    BY <1>0, <1>2 DEF Train, TypeOK
  <2>4. TypeOK'
    BY <1>0, <2>1, <2>2, <2>3 DEF TypeOK
  <2>5. Hands' /\ Closing'
    BY <1>0, <2>1, <2>3 DEF Hands, Closing, Active
  <2>6. Batches'
    <3> DEFINE m == Len(trained) \div Required
    <3>1. m \in Nat /\ Len(trained) = m * Required
      BY <1>0, <2>2, DivMod DEF Batches
    <3>2. (m + 1) * Required = m * Required + Required /\ (m + 1) * Required = (m + 1) * Required + 0
      BY <1>0, <3>1, Z3
    <3>3. Len(trained') = (m + 1) * Required
      BY <2>2, <3>1, <3>2
    <3> HIDE DEF m
    <3>4. ((m + 1) * Required + 0) \div Required = m + 1
      BY <1>0, <3>1, DivUnique
    <3>5. Len(trained') \div Required = m + 1
      BY <3>2, <3>3, <3>4
    <3> QED BY <1>0, <2>2, <2>3, <3>3, <3>5 DEF Batches
  <2> QED BY <2>4, <2>5, <2>6
<1>3. CASE Stop
  <2>1. /\ trainer = "stop" /\ trainer' \in {"lastsync", "done"}
        /\ UNCHANGED <<batch, trained, local, version, snap, paused, resume, staleness, lock, queue>>
    BY <1>3 DEF Stop, ctlVars, queueVars
  <2>2. TypeOK'
    BY <1>0, <2>1 DEF TypeOK
  <2>3. Hands' /\ Closing' /\ Batches'
    BY <1>0, <2>1 DEF Hands, Closing, Batches, Active
  <2> QED BY <2>2, <2>3
<1>4. CASE ResetStaleness
  <2>1. /\ lock' = "trainer" /\ paused' = FALSE /\ resume' = TRUE /\ snap' = Cardinality(Active)
        /\ UNCHANGED <<staleness, trainer, batch, trained, local, version, queue>>
    BY <1>4 DEF ResetStaleness, queueVars
  <2>2. snap' \in Nat
    <3>1. IsFiniteSet(Samples)
      BY AsyncAssumption, FS_Interval DEF Samples
    <3>2. IsFiniteSet(Active)
      BY <3>1, FS_Subset DEF Active
    <3> QED BY <2>1, <3>2, FS_CardinalityType
  <2>3. paused' \in BOOLEAN /\ resume' \in BOOLEAN
    BY <2>1
  <2>4. TypeOK'
    BY <1>0, <2>1, <2>2, <2>3 DEF TypeOK
  <2>5. Hands' /\ Closing' /\ Batches'
    BY <1>0, <2>1 DEF Hands, Closing, Batches, Active
  <2> QED BY <2>4, <2>5
<1>5. CASE ResetStalenessEnd
  <2>1. /\ trainer \in {"sync", "lastsync"} /\ lock' = "free" /\ snap' = 0
        /\ trainer' = (IF trainer = "sync" THEN "collect" ELSE "done")
        /\ staleness' = snap + Len(queue)
        /\ UNCHANGED <<paused, resume, batch, trained, local, version, queue>>
    BY <1>5 DEF ResetStalenessEnd, queueVars
  <2>2. staleness' \in Nat
    BY <2>1 DEF TypeOK
  <2>3. TypeOK'
    BY <1>0, <2>1, <2>2 DEF TypeOK
  <2>4. Hands' /\ Closing' /\ Batches'
    BY <1>0, <2>1 DEF Hands, Closing, Batches, Active
  <2> QED BY <2>3, <2>4
<1> QED BY <1>1, <1>2, <1>3, <1>4, <1>5 DEF Trainer

\* The feeder.
LEMMA FeederStruct == Struct /\ Feeder => Struct'
<1> SUFFICES ASSUME Struct, Feeder PROVE Struct'
  OBVIOUS
<1> USE DEF Struct
<1>0. /\ UNCHANGED <<proc, held, full, task, paused, resume, staleness, running, lock, monitor,
                     queue, dropped, trainer, batch, trained, local, version, snap>>
      /\ Len(pending) < PendingSize /\ PendingSize \in Nat /\ Total \in Nat \ {0}
      /\ feeder \in {"feed", "end"}
  BY AsyncAssumption DEF Feeder, FeedSample, FeedEnd, procVars, ctlVars, monVars, queueVars, trainVars
<1>1. \E x \in 0..Total : pending' = Append(pending, x) /\ (feeder' # "done" => x # End)
                          /\ fed' \in Samples /\ feeder' \in {"feed", "end", "done"}
  <2>1. CASE FeedSample
    <3>1. fed \in 0..Total /\ fed # End /\ pending' = Append(pending, fed)
      BY <1>0, <2>1 DEF FeedSample, TypeOK, Samples, End
    <3>2. fed' \in Samples /\ feeder' \in {"feed", "end", "done"}
      BY <1>0, <2>1 DEF FeedSample, TypeOK, Samples
    <3> QED BY <3>1, <3>2
  <2>2. CASE FeedEnd
    BY <1>0, <2>2 DEF FeedEnd, TypeOK, End
  <2> QED BY <2>1, <2>2 DEF Feeder
<1>2. PICK x \in 0..Total : /\ pending' = Append(pending, x) /\ (feeder' # "done" => x # End)
                            /\ fed' \in Samples /\ feeder' \in {"feed", "end", "done"}
  BY <1>1
<1>3. /\ pending' \in Seq(0..Total) /\ Len(pending') = Len(pending) + 1 /\ Len(pending) \in Nat
      /\ \A i \in 1..Len(pending) : pending'[i] = pending[i]
      /\ pending'[Len(pending) + 1] = x
  BY <1>2 DEF TypeOK
<1>4. TypeOK'
  BY <1>0, <1>2, <1>3 DEF TypeOK
<1>5. /\ \A i \in 1..Len(pending) : pending'[i] # End
      /\ feeder' # "done" => \A i \in 1..Len(pending') : pending'[i] # End
  <2>1. \A i \in 1..Len(pending) : pending'[i] # End
    BY <1>0, <1>3 DEF Hands
  <2>2. \A i \in 1..Len(pending') : i \in 1..Len(pending) \/ i = Len(pending) + 1
    BY <1>3
  <2> QED BY <1>2, <1>3, <2>1, <2>2
<1>6. Hands'
  <2>1. proc \notin {"ending", "stopped"} /\ Len(pending') - 1 = Len(pending)
    BY <1>0, <1>3 DEF Hands
  <2> QED BY <1>0, <1>5, <2>1 DEF Hands
<1>7. Closing' /\ Batches'
  BY <1>0 DEF Closing, Batches
<1> QED BY <1>4, <1>6, <1>7

\* The start.
LEMMA InitStruct == Init => Struct
<1> SUFFICES ASSUME Init PROVE Struct
  OBVIOUS
<1>0. /\ Total \in Nat \ {0} /\ Required \in Nat \ {0} /\ Sync \in Nat \ {0} /\ PendingSize \in Nat
      /\ MaxRequired \in Nat
  BY AsyncAssumption
<1>1. TypeOK
  <2>1. /\ pending \in Seq(0..Total) /\ Len(pending) <= PendingSize
        /\ queue \in Seq(0..Total) /\ Len(queue) <= MaxRequired
        /\ batch \in Seq(Samples) /\ Len(batch) <= Required /\ trained \in Seq(Samples)
    BY <1>0 DEF Init
  <2>2. fed \in Samples /\ held \in 0..Total /\ local \in 1..Sync
    BY <1>0 DEF Init, Samples, End
  <2>3. full \in BOOLEAN /\ paused \in BOOLEAN /\ resume \in BOOLEAN /\ running \in BOOLEAN
    BY DEF Init
  <2>4. task \in [Samples -> {"no", "gen", "put", "fin", "err"}] /\ dropped \subseteq 0..Total
    BY DEF Init
  <2> QED BY <2>1, <2>2, <2>3, <2>4 DEF Init, TypeOK
<1>2. Hands /\ Closing
  BY DEF Init, Hands, Closing
<1>3. Batches
  <2>1. Len(trained) = 0 /\ Len(batch) = 0 /\ trainer = "collect"
    BY DEF Init
  <2>2. 0 * Required = 0 /\ (0 * Required + 0) \div Required = 0
    BY <1>0, DivUnique
  <2> QED BY <1>0, <2>1, <2>2 DEF Batches
<1> QED BY <1>1, <1>2, <1>3 DEF Struct

\* Every step keeps types, hands, closing and batches.
LEMMA StepStruct == Struct /\ [Next]_vars => Struct'
<1> SUFFICES ASSUME Struct, [Next]_vars PROVE Struct'
  OBVIOUS
<1>1. CASE Processor
  BY <1>1, ControlStruct, DiscardStruct, GetStruct, EndStruct DEF Processor
<1>2. CASE Feeder \/ Monitor \/ Trainer
  BY <1>2, FeederStruct, MonitorStruct, TrainerStruct
<1>3. CASE \E s \in Samples : Task(s) \/ TaskRaises(s)
  BY <1>3, TaskStruct
<1>4. CASE UNCHANGED vars
  BY <1>4 DEF vars, Struct, TypeOK, Hands, Closing, Batches, Active
<1> QED BY <1>1, <1>2, <1>3, <1>4 DEF Next

\* The type of the state of rollouter, queue and trainer.
THEOREM TypeSafety == Spec => []TypeOK
<1>1. Struct => TypeOK
  BY DEF Struct
<1> QED BY <1>1, InitStruct, StepStruct, PTL DEF Spec

-----------------------------------------------------------------------------
(* Where the samples are.                                                  *)

CountInv == Unfed /\ Conserved /\ Balance

\* The terms of Places and of Counted are numbers.
LEMMA Terms ==
  ASSUME TypeOK
  PROVE  /\ \A s : /\ Occ(s, pending) \in Nat /\ Occ(s, queue) \in Nat
                   /\ Occ(s, batch) \in Nat /\ Occ(s, trained) \in Nat
         /\ Real(pending) \in Nat /\ Real(queue) \in Nat /\ Len(batch) \in Nat /\ Len(trained) \in Nat
         /\ IsFiniteSet(Samples) /\ IsFiniteSet(Busy) /\ Cardinality(Busy) \in Nat
         /\ IsFiniteSet(dropped) /\ Cardinality(dropped) \in Nat
         /\ \A s \in Samples : s # End /\ s \in 0..Total
<1>0. pending \in Seq(0..Total) /\ queue \in Seq(0..Total) /\ batch \in Seq(Samples)
      /\ trained \in Seq(Samples) /\ dropped \subseteq 0..Total /\ Total \in Nat
  BY AsyncAssumption DEF TypeOK
<1>1. ASSUME NEW s
      PROVE  /\ Occ(s, pending) \in Nat /\ Occ(s, queue) \in Nat
             /\ Occ(s, batch) \in Nat /\ Occ(s, trained) \in Nat
  BY <1>0, IdxFinite
<1>2. Real(pending) \in Nat /\ Real(queue) \in Nat
  <2>1. Occ(End, pending) \in Nat /\ Occ(End, pending) <= Len(pending) /\ Len(pending) \in Nat
    BY <1>0, IdxFinite
  <2>2. Occ(End, queue) \in Nat /\ Occ(End, queue) <= Len(queue) /\ Len(queue) \in Nat
    BY <1>0, IdxFinite
  <2> QED BY <2>1, <2>2 DEF Real
<1>3. IsFiniteSet(Samples) /\ IsFiniteSet(0..Total)
  BY <1>0, FS_Interval DEF Samples
<1>4. IsFiniteSet(Busy) /\ IsFiniteSet(dropped)
  BY <1>0, <1>3, FS_Subset DEF Busy
<1>5. Cardinality(Busy) \in Nat /\ Cardinality(dropped) \in Nat
  BY <1>4, FS_CardinalityType
<1>6. Len(batch) \in Nat /\ Len(trained) \in Nat /\ \A s \in Samples : s # End /\ s \in 0..Total
  BY <1>0 DEF Samples, End
<1> QED BY <1>1, <1>2, <1>3, <1>4, <1>5, <1>6

\* A step that moves samples between places and neither makes nor loses one.
LEMMA MoveCount ==
  ASSUME CountInv, \A s \in Samples : Places(s)' = Places(s),
         \A s \in Samples : WasFed(s)' <=> WasFed(s), FedCount' = FedCount,
         proc \in {"raised", "crashed"} => proc' \in {"raised", "crashed"},
         proc' \notin {"raised", "crashed"} => Counted' = Counted
  PROVE  CountInv'
<1>1. Unfed'
  BY DEF CountInv, Unfed
<1>2. Conserved'
  <2> SUFFICES ASSUME NEW s \in Samples
               PROVE  /\ Places(s)' <= 1
                      /\ WasFed(s)' /\ Places(s)' = 0 => proc' \in {"raised", "crashed"}
    BY DEF Conserved
  <2> QED BY DEF CountInv, Conserved
<1>3. Balance'
  BY DEF CountInv, Balance
<1> QED BY <1>1, <1>2, <1>3 DEF CountInv

\* A step that leaves every sample where it is.
LEMMA StillCount ==
  ASSUME CountInv, UNCHANGED <<fed, feeder, pending, held, queue, dropped, batch, trained>>,
         \A s \in Samples : task'[s] \in {"gen", "err"} <=> task[s] \in {"gen", "err"},
         proc \in {"raised", "crashed"} => proc' \in {"raised", "crashed"}
  PROVE  CountInv'
<1>1. \A s \in Samples : Places(s)' = Places(s)
  BY DEF Places, One
<1>2. Busy' = Busy
  BY DEF Busy
<1>3. Counted' = Counted /\ FedCount' = FedCount
  BY <1>2 DEF Counted, FedCount
<1>4. \A s \in Samples : WasFed(s)' <=> WasFed(s)
  BY DEF WasFed
<1> QED BY <1>1, <1>3, <1>4, MoveCount

\* The same with the cases apart: an element is put into a queue.
LEMMA AppendCount ==
  ASSUME NEW S, NEW q \in Seq(S), NEW x \in S
  PROVE  /\ \A s : /\ x = s => Occ(s, Append(q, x)) = Occ(s, q) + 1
                   /\ x # s => Occ(s, Append(q, x)) = Occ(s, q)
         /\ x # End => Real(Append(q, x)) = Real(q) + 1
         /\ x = End => Real(Append(q, x)) = Real(q)
<1>1. /\ \A s : Occ(s, Append(q, x)) = Occ(s, q) + One(x = s)
      /\ Real(Append(q, x)) = Real(q) + One(x # End)
  BY OccAppend
<1>2. (\A s : Occ(s, q) \in Nat /\ Occ(s, q) <= Len(q)) /\ Len(q) \in Nat
  BY IdxFinite
<1>3. Real(q) \in Nat
  BY <1>2 DEF Real
<1>4. ASSUME NEW s
      PROVE  /\ x = s => Occ(s, Append(q, x)) = Occ(s, q) + 1
             /\ x # s => Occ(s, Append(q, x)) = Occ(s, q)
  <2>1. Occ(s, Append(q, x)) = Occ(s, q) + One(x = s) /\ Occ(s, q) \in Nat
    BY <1>1, <1>2
  <2> QED BY <2>1 DEF One
<1>5. /\ x # End => Real(Append(q, x)) = Real(q) + 1
      /\ x = End => Real(Append(q, x)) = Real(q)
  BY <1>1, <1>3 DEF One
<1> QED BY <1>4, <1>5

\* The same with the cases apart: the oldest element is taken.
LEMMA TailCount ==
  ASSUME NEW S, NEW q \in Seq(S), q # <<>>
  PROVE  /\ \A s : /\ Head(q) = s => Occ(s, Tail(q)) = Occ(s, q) - 1
                   /\ Head(q) # s => Occ(s, Tail(q)) = Occ(s, q)
         /\ Head(q) # End => Real(Tail(q)) = Real(q) - 1
         /\ Head(q) = End => Real(Tail(q)) = Real(q)
<1> DEFINE t == Tail(q)
<1>0. t \in Seq(S)
  OBVIOUS
<1>1. /\ \A s : Occ(s, q) = Occ(s, t) + One(Head(q) = s)
      /\ Real(q) = Real(t) + One(Head(q) # End)
  BY OccTail
<1> HIDE DEF t
<1>2. (\A s : Occ(s, t) \in Nat /\ Occ(s, t) <= Len(t)) /\ Len(t) \in Nat
  BY ONLY <1>0, IdxFinite
<1>3. Real(t) \in Nat
  BY <1>2 DEF Real
<1>4. ASSUME NEW s
      PROVE  /\ Head(q) = s => Occ(s, t) = Occ(s, q) - 1
             /\ Head(q) # s => Occ(s, t) = Occ(s, q)
  <2>1. Occ(s, q) = Occ(s, t) + One(Head(q) = s) /\ Occ(s, t) \in Nat
    BY <1>1, <1>2
  <2> QED BY <2>1 DEF One
<1>5. /\ Head(q) # End => Real(t) = Real(q) - 1
      /\ Head(q) = End => Real(t) = Real(q)
  BY <1>1, <1>3 DEF One
<1> QED BY <1>4, <1>5 DEF t

\* The feeder makes the next sample.
LEMMA FeedCount == Struct /\ CountInv /\ Feeder => CountInv'
<1> SUFFICES ASSUME Struct, CountInv, Feeder PROVE CountInv'
  OBVIOUS
<1>0. /\ UNCHANGED <<proc, held, task, queue, dropped, batch, trained>> /\ TypeOK
      /\ pending \in Seq(0..Total) /\ fed \in 1..Total /\ Total \in Nat
  BY AsyncAssumption DEF Feeder, FeedSample, FeedEnd, procVars, queueVars, trainVars, Struct,
                         TypeOK, Samples
<1>1. Busy' = Busy
  BY <1>0 DEF Busy
<1>2. PICK x \in 0..Total :
         /\ pending' = Append(pending, x)
         /\ \/ /\ FeedSample /\ x = fed /\ feeder = "feed"
               /\ \/ fed = Total /\ feeder' = "end" /\ fed' = fed
                  \/ fed < Total /\ fed' = fed + 1 /\ feeder' = "feed"
            \/ FeedEnd /\ x = End /\ feeder = "end" /\ feeder' = "done" /\ fed' = fed
  BY <1>0 DEF Feeder, FeedSample, FeedEnd, End
<1>3. /\ \A s : /\ x = s => Occ(s, pending') = Occ(s, pending) + 1
                /\ x # s => Occ(s, pending') = Occ(s, pending)
      /\ x # End => Real(pending') = Real(pending) + 1
      /\ x = End => Real(pending') = Real(pending)
  BY <1>0, <1>2, AppendCount
<1>4. ASSUME NEW s \in Samples
      PROVE  /\ x = s => Places(s)' = Places(s) + 1
             /\ x # s => Places(s)' = Places(s)
  <2>1. /\ One(held = s)' = One(held = s) /\ Occ(s, queue)' = Occ(s, queue)
        /\ One(task[s] \in {"gen", "err"})' = One(task[s] \in {"gen", "err"})
        /\ One(s \in dropped)' = One(s \in dropped) /\ Occ(s, batch)' = Occ(s, batch)
        /\ Occ(s, trained)' = Occ(s, trained)
    BY <1>0
  <2>2. /\ Occ(s, pending) \in Nat /\ Occ(s, queue) \in Nat /\ Occ(s, batch) \in Nat
        /\ Occ(s, trained) \in Nat /\ One(held = s) \in Nat /\ One(s \in dropped) \in Nat
        /\ One(task[s] \in {"gen", "err"}) \in Nat
    BY <1>0, Terms, OneNat
  <2> QED BY <1>3, <2>1, <2>2 DEF Places
<1>5. /\ x # End => Counted' = Counted + 1
      /\ x = End => Counted' = Counted
  <2>1. /\ One(held # End)' = One(held # End) /\ Real(queue)' = Real(queue)
        /\ Cardinality(dropped)' = Cardinality(dropped) /\ Cardinality(Busy)' = Cardinality(Busy)
        /\ Len(batch)' = Len(batch) /\ Len(trained)' = Len(trained)
    BY <1>0, <1>1
  <2>2. /\ Real(pending) \in Nat /\ Real(queue) \in Nat /\ Cardinality(Busy) \in Nat
        /\ Cardinality(dropped) \in Nat /\ Len(batch) \in Nat /\ Len(trained) \in Nat
        /\ One(held # End) \in Nat
    BY <1>0, Terms, OneNat
  <2> QED BY <1>3, <2>1, <2>2 DEF Counted
<1>6. CASE x = End
  <2>1. \A s \in Samples : s # End
    BY <1>0, Terms
  <2>2. feeder = "end" /\ feeder' = "done" /\ fed' = fed
    BY <1>0, <1>2, <1>6 DEF End
  <2>3. FedCount' = FedCount /\ \A s \in Samples : WasFed(s)' <=> WasFed(s)
    BY <2>2 DEF FedCount, WasFed
  <2> QED BY <1>0, <1>4, <1>5, <1>6, <2>1, <2>3, MoveCount
<1>7. CASE x # End
  <2>0. /\ x = fed /\ feeder = "feed"
        /\ \/ fed = Total /\ feeder' = "end" /\ fed' = fed
           \/ fed < Total /\ fed' = fed + 1 /\ feeder' = "feed"
    BY <1>2, <1>7
  <2>1. ASSUME NEW s \in Samples
        PROVE  /\ s = x => ~WasFed(s) /\ WasFed(s)'
               /\ s # x => (WasFed(s)' <=> WasFed(s))
    <3>1. s \in 1..Total
      BY DEF Samples
    <3> QED BY <1>0, <2>0, <3>1 DEF WasFed
  <2>2. \A s \in Samples : s = x => Places(s) = 0
    BY <2>1 DEF CountInv, Unfed
  <2>3. Unfed'
    BY <1>4, <2>1 DEF CountInv, Unfed
  <2>4. Conserved'
    <3> SUFFICES ASSUME NEW s \in Samples
                 PROVE  /\ Places(s)' <= 1
                        /\ WasFed(s)' /\ Places(s)' = 0 => proc' \in {"raised", "crashed"}
      BY DEF Conserved
    <3> QED BY <1>0, <1>4, <2>1, <2>2 DEF CountInv, Conserved
  <2>5. Balance'
    <3>1. FedCount' = FedCount + 1
      BY <1>0, <2>0 DEF FedCount
    <3> QED BY <1>0, <1>5, <1>7, <3>1 DEF CountInv, Balance
  <2> QED BY <2>3, <2>4, <2>5 DEF CountInv
<1> QED BY <1>6, <1>7

\* A step that loses samples: only the exception of a task does.
LEMMA LoseCount ==
  ASSUME CountInv, \A s \in Samples : Places(s) \in Nat /\ Places(s)' \in Nat /\ Places(s)' <= Places(s),
         \A s \in Samples : WasFed(s) => WasFed(s)', proc' \in {"raised", "crashed"}
  PROVE  CountInv'
<1>1. Unfed'
  <2> SUFFICES ASSUME NEW s \in Samples, ~WasFed(s)' PROVE Places(s)' = 0
    BY DEF Unfed
  <2>1. Places(s) = 0
    BY DEF CountInv, Unfed
  <2> QED BY <2>1
<1>2. Conserved'
  <2> SUFFICES ASSUME NEW s \in Samples
               PROVE  /\ Places(s)' <= 1
                      /\ WasFed(s)' /\ Places(s)' = 0 => proc' \in {"raised", "crashed"}
    BY DEF Conserved
  <2>1. Places(s) <= 1
    BY DEF CountInv, Conserved
  <2> QED BY <2>1
<1>3. Balance'
  BY DEF Balance
<1> QED BY <1>1, <1>2, <1>3 DEF CountInv

\* What is counted of the message queue.
LEMMA QueueTerms ==
  ASSUME NEW q \in Seq(0..Total), NEW D \in SUBSET (0..Total)
  PROVE  (\A s : Occ(s, q) \in Nat) /\ Real(q) \in Nat /\ Cardinality(D) \in Nat
<1>1. (\A s : Occ(s, q) \in Nat /\ Occ(s, q) <= Len(q)) /\ Len(q) \in Nat
  BY IdxFinite
<1>2. IsFiniteSet(0..Total)
  <2>1. 0 \in Int /\ Total \in Int
    BY AsyncAssumption
  <2> QED BY <2>1, FS_Interval
<1>3. Cardinality(D) \in Nat
  BY <1>2, FS_Subset, FS_CardinalityType
<1> QED BY <1>1, <1>3 DEF Real

\* The terms of Places.
LEMMA PlaceTerms ==
  ASSUME TypeOK, NEW s \in Samples
  PROVE  /\ Occ(s, pending) \in Nat /\ Occ(s, queue) \in Nat /\ Occ(s, batch) \in Nat
         /\ Occ(s, trained) \in Nat /\ One(held = s) \in Nat /\ One(s \in dropped) \in Nat
         /\ One(task[s] \in {"gen", "err"}) \in Nat /\ Places(s) \in Nat
<1>1. /\ Occ(s, pending) \in Nat /\ Occ(s, queue) \in Nat /\ Occ(s, batch) \in Nat
      /\ Occ(s, trained) \in Nat
  BY Terms
<1>2. One(held = s) \in Nat /\ One(s \in dropped) \in Nat /\ One(task[s] \in {"gen", "err"}) \in Nat
  BY OneNat
<1> QED BY <1>1, <1>2 DEF Places

\* The terms of Counted.
LEMMA CountTerms ==
  ASSUME TypeOK
  PROVE  /\ Real(pending) \in Nat /\ Real(queue) \in Nat /\ Cardinality(Busy) \in Nat
         /\ Cardinality(dropped) \in Nat /\ Len(batch) \in Nat /\ Len(trained) \in Nat
         /\ One(held # End) \in Nat
  BY Terms, OneNat

\* The sum of the places does not depend on their order.
LEMMA Sum ==
  ASSUME NEW a \in Int, NEW b \in Int, NEW c \in Int, NEW d \in Int, NEW e \in Int, NEW f \in Int,
         NEW g \in Int
  PROVE  /\ a + b + c + d + e + f + g \in Int
         /\ a + b + c + d + e + f + g = (a + b) + (c + d + e + f + g)
         /\ a + b + c + d + e + f + g = (a + b + c + f + g) + (d + e)
         /\ a + b + c + d + e + f + g = (a + b + c + e + g) + (d + f)
  OBVIOUS

\* A sample is in one place only.
LEMMA OnePlace ==
  ASSUME TypeOK, Conserved, NEW s \in Samples
  PROVE  /\ held = s => task[s] \notin {"gen", "err"}
         /\ Occ(s, queue) > 0 => s \notin dropped
<1>1. Places(s) <= 1
  BY DEF Conserved
<1>2. CASE held = s /\ task[s] \in {"gen", "err"}
  <2>1. One(held = s) = 1 /\ One(task[s] \in {"gen", "err"}) = 1
    BY <1>2 DEF One
  <2> QED BY <1>1, <2>1, PlaceTerms DEF Places
<1>3. CASE Occ(s, queue) > 0 /\ s \in dropped
  <2>1. One(s \in dropped) = 1
    BY <1>3 DEF One
  <2> QED BY <1>1, <1>3, <2>1, PlaceTerms DEF Places
<1> QED BY <1>2, <1>3

\* The processor takes a sample from pending_queue.
LEMMA GetCount == Struct /\ CountInv /\ GetSample => CountInv'
<1> SUFFICES ASSUME Struct, CountInv, GetSample PROVE CountInv'
  OBVIOUS
<1>0. /\ UNCHANGED <<fed, feeder, task, queue, dropped, batch, trained>> /\ TypeOK
      /\ pending \in Seq(0..Total) /\ pending # <<>> /\ held = End /\ proc = "get"
      /\ held' = Head(pending) /\ pending' = Tail(pending)
  BY DEF GetSample, feedVars, queueVars, trainVars, Struct, TypeOK, Hands
<1>1. Busy' = Busy
  BY <1>0 DEF Busy
<1>2. /\ \A s : /\ held' = s => Occ(s, pending') = Occ(s, pending) - 1
                /\ held' # s => Occ(s, pending') = Occ(s, pending)
      /\ held' # End => Real(pending') = Real(pending) - 1
      /\ held' = End => Real(pending') = Real(pending)
  BY <1>0, TailCount
<1>3. ASSUME NEW s \in Samples PROVE Places(s)' = Places(s)
  <2>1. /\ Occ(s, queue)' = Occ(s, queue)
        /\ One(task[s] \in {"gen", "err"})' = One(task[s] \in {"gen", "err"})
        /\ One(s \in dropped)' = One(s \in dropped) /\ Occ(s, batch)' = Occ(s, batch)
        /\ Occ(s, trained)' = Occ(s, trained)
    BY <1>0
  <2>2. One(held = s) = 0
    BY <1>0, Terms DEF One
  <2>3. /\ held' = s => One(held = s)' = 1
        /\ held' # s => One(held = s)' = 0
    BY DEF One
  <2>4. /\ Occ(s, pending) \in Nat /\ Occ(s, queue) \in Nat /\ Occ(s, batch) \in Nat
        /\ Occ(s, trained) \in Nat /\ One(held = s) \in Nat /\ One(s \in dropped) \in Nat
        /\ One(task[s] \in {"gen", "err"}) \in Nat
    BY <1>0, PlaceTerms
  <2>5. /\ Occ(s, pending)' + One(held = s)' = Occ(s, pending) + One(held = s)
        /\ Occ(s, pending)' \in Int /\ One(held = s)' \in Int
    <3>1. /\ held' = s => Occ(s, pending)' = Occ(s, pending) - 1
          /\ held' # s => Occ(s, pending)' = Occ(s, pending)
      BY <1>2
    <3> QED BY ONLY <2>2, <2>3, <2>4, <3>1
  <2>6. Places(s) = (Occ(s, pending) + One(held = s)) + (One(task[s] \in {"gen", "err"})
                      + Occ(s, queue) + One(s \in dropped) + Occ(s, batch) + Occ(s, trained))
    BY ONLY <2>4, Sum DEF Places
  <2>7. Places(s)' = (Occ(s, pending)' + One(held = s)') + (One(task[s] \in {"gen", "err"})'
                      + Occ(s, queue)' + One(s \in dropped)' + Occ(s, batch)' + Occ(s, trained)')
    <3>1. /\ One(task[s] \in {"gen", "err"})' \in Int /\ Occ(s, queue)' \in Int
          /\ One(s \in dropped)' \in Int /\ Occ(s, batch)' \in Int /\ Occ(s, trained)' \in Int
      BY ONLY <2>1, <2>4
    <3> QED BY ONLY <2>5, <3>1, Sum DEF Places
  <2> QED BY ONLY <2>1, <2>5, <2>6, <2>7
<1>4. Counted' = Counted
  <2>1. /\ Real(queue)' = Real(queue) /\ Cardinality(dropped)' = Cardinality(dropped)
        /\ Cardinality(Busy)' = Cardinality(Busy)
        /\ Len(batch)' = Len(batch) /\ Len(trained)' = Len(trained)
    BY <1>0, <1>1
  <2>2. One(held # End) = 0
    BY <1>0 DEF One
  <2>3. /\ held' # End => One(held # End)' = 1
        /\ held' = End => One(held # End)' = 0
    BY DEF One
  <2>4. /\ Real(pending) \in Nat /\ Real(queue) \in Nat /\ Cardinality(Busy) \in Nat
        /\ Cardinality(dropped) \in Nat /\ Len(batch) \in Nat /\ Len(trained) \in Nat
        /\ One(held # End) \in Nat
    BY <1>0, CountTerms
  <2>5. /\ Real(pending)' + One(held # End)' = Real(pending) + One(held # End)
        /\ Real(pending)' \in Int /\ One(held # End)' \in Int
    <3>1. /\ held' # End => Real(pending)' = Real(pending) - 1
          /\ held' = End => Real(pending)' = Real(pending)
      BY <1>2
    <3> QED BY ONLY <2>2, <2>3, <2>4, <3>1
  <2>6. Counted = (Real(pending) + One(held # End)) + (Cardinality(Busy) + Real(queue)
                    + Cardinality(dropped) + Len(batch) + Len(trained))
    BY ONLY <2>4, Sum DEF Counted
  <2>7. Counted' = (Real(pending)' + One(held # End)') + (Cardinality(Busy)' + Real(queue)'
                    + Cardinality(dropped)' + Len(batch)' + Len(trained)')
    <3>1. /\ Cardinality(Busy)' \in Int /\ Real(queue)' \in Int /\ Cardinality(dropped)' \in Int
          /\ Len(batch)' \in Int /\ Len(trained)' \in Int
      BY ONLY <2>1, <2>4
    <3> QED BY ONLY <2>5, <3>1, Sum DEF Counted
  <2> QED BY ONLY <2>1, <2>5, <2>6, <2>7
<1>5. FedCount' = FedCount /\ \A s \in Samples : WasFed(s)' <=> WasFed(s)
  BY <1>0 DEF FedCount, WasFed
<1> QED BY <1>0, <1>3, <1>4, <1>5, MoveCount

\* The processor submits the sample in its hand.
LEMMA SubmitCount == Struct /\ CountInv /\ Submit => CountInv'
<1> SUFFICES ASSUME Struct, CountInv, Submit PROVE CountInv'
  OBVIOUS
<1>0. /\ UNCHANGED <<fed, feeder, pending, queue, dropped, batch, trained>> /\ TypeOK
      /\ held # End /\ proc = "slot" /\ held' = End /\ held \in 0..Total
      /\ task' = [task EXCEPT ![held] = "gen"] /\ Total \in Nat
      /\ task \in [Samples -> {"no", "gen", "put", "fin", "err"}]
  BY AsyncAssumption DEF Submit, feedVars, queueVars, trainVars, Struct, TypeOK, Hands
<1>1. held \in Samples
  BY <1>0 DEF Samples, End
<1>2. task[held] \notin {"gen", "err"}
  BY <1>0, <1>1, OnePlace DEF CountInv
<1>3. task'[held] = "gen" /\ \A s \in Samples : s # held => task'[s] = task[s]
  BY <1>0, <1>1
<1>4. ASSUME NEW s \in Samples PROVE Places(s)' = Places(s)
  <2>1. /\ Occ(s, queue)' = Occ(s, queue) /\ Occ(s, pending)' = Occ(s, pending)
        /\ One(s \in dropped)' = One(s \in dropped) /\ Occ(s, batch)' = Occ(s, batch)
        /\ Occ(s, trained)' = Occ(s, trained)
    BY <1>0
  <2>2. One(held = s)' = 0
    BY <1>0, Terms DEF One
  <2>3. CASE held = s
    <3>1. One(held = s) = 1 /\ One(task[s] \in {"gen", "err"}) = 0
          /\ One(task[s] \in {"gen", "err"})' = 1
      BY <1>2, <1>3, <2>3 DEF One
    <3> QED BY <1>0, <2>1, <2>2, <3>1, PlaceTerms DEF Places
  <2>4. CASE held # s
    <3>1. One(held = s) = 0 /\ One(task[s] \in {"gen", "err"})' = One(task[s] \in {"gen", "err"})
      BY <1>3, <2>4 DEF One
    <3> QED BY <1>0, <2>1, <2>2, <3>1, PlaceTerms DEF Places
  <2> QED BY <2>3, <2>4
<1>5. Counted' = Counted
  <2>1. /\ Real(queue)' = Real(queue) /\ Cardinality(dropped)' = Cardinality(dropped)
        /\ Real(pending)' = Real(pending)
        /\ Len(batch)' = Len(batch) /\ Len(trained)' = Len(trained)
    BY <1>0
  <2>2. One(held # End) = 1 /\ One(held # End)' = 0
    BY <1>0 DEF One
  <2>3. Busy' = Busy \cup {held} /\ held \notin Busy
    BY <1>1, <1>2, <1>3 DEF Busy
  <2>4. IsFiniteSet(Busy)
    BY <1>0, Terms
  <2>5. Cardinality(Busy)' = Cardinality(Busy) + 1
    BY <2>3, <2>4, FS_AddElement
  <2> QED BY <1>0, <2>1, <2>2, <2>5, CountTerms DEF Counted
<1>6. FedCount' = FedCount /\ \A s \in Samples : WasFed(s)' <=> WasFed(s)
  BY <1>0 DEF FedCount, WasFed
<1> QED BY <1>0, <1>4, <1>5, <1>6, MoveCount

\* put_sample: the new element is in the queue and what it pushes out is dropped.
LEMMA PutCount ==
  ASSUME TypeOK, Conserved, NEW x \in 0..Total, Put(x)
  PROVE  /\ \A s \in Samples :
               Occ(s, queue') + One(s \in dropped)' = Occ(s, queue) + One(s \in dropped) + One(x = s)
         /\ Real(queue') <= Real(queue) + One(x # End)
         /\ (\A i \in 1..Len(queue) : queue[i] # End) =>
               Real(queue') + Cardinality(dropped') = Real(queue) + Cardinality(dropped) + One(x # End)
<1>0. /\ queue \in Seq(0..Total) /\ Len(queue) \in Nat /\ MaxRequired \in Nat \ {0}
      /\ Real(queue) \in Nat /\ Cardinality(dropped) \in Nat /\ IsFiniteSet(dropped)
      /\ Total \in Nat
  <2>1. Required * Sync \in Nat \ {0}
    <3>1. Required \in Nat \ {0} /\ Sync \in Nat \ {0}
      BY AsyncAssumption
    <3> QED BY <3>1, Z3
  <2>2. MaxRequired \in Nat \ {0} /\ Total \in Nat
    BY <2>1, AsyncAssumption
  <2>3. Real(queue) \in Nat /\ Cardinality(dropped) \in Nat /\ IsFiniteSet(dropped)
    BY Terms
  <2>4. queue \in Seq(0..Total) /\ Len(queue) \in Nat
    BY DEF TypeOK
  <2> QED BY <2>2, <2>3, <2>4
<1> DEFINE t == Tail(queue)
           h == Head(queue)
<1>1. CASE Len(queue) >= MaxRequired
  <2>0. queue # <<>>
    BY <1>0, <1>1
  <2>1. t \in Seq(0..Total) /\ h = queue[1] /\ h \in 0..Total /\ 1 \in 1..Len(queue)
    BY <1>0, <2>0, TailIs
  <2>2. queue' = Append(t, x) /\ dropped' = dropped \cup {h}
    BY <1>1 DEF Put
  <2>3. /\ \A s : /\ h = s => Occ(s, t) = Occ(s, queue) - 1
                  /\ h # s => Occ(s, t) = Occ(s, queue)
        /\ h # End => Real(t) = Real(queue) - 1
        /\ h = End => Real(t) = Real(queue)
    BY <1>0, <2>0, TailCount
  <2> HIDE DEF t, h
  <2>4. /\ \A s : /\ x = s => Occ(s, queue') = Occ(s, t) + 1
                  /\ x # s => Occ(s, queue') = Occ(s, t)
        /\ x # End => Real(queue') = Real(t) + 1
        /\ x = End => Real(queue') = Real(t)
    BY <2>1, <2>2, AppendCount
  <2>5. (\A s : Occ(s, t) \in Nat /\ Occ(s, t) <= Len(t)) /\ Len(t) \in Nat
    BY <2>1, IdxFinite
  <2>6. h # End => h \in Samples /\ h \notin dropped
    <3> SUFFICES ASSUME h # End PROVE h \in Samples /\ h \notin dropped
      OBVIOUS
    <3>1. h \in Samples
      BY <1>0, <2>1 DEF Samples, End
    <3>2. Occ(h, queue) > 0
      <4>1. Occ(h, queue) \in Nat
        BY <3>1, PlaceTerms
      <4>2. Occ(h, t) = Occ(h, queue) - 1 /\ Occ(h, t) \in Nat
        BY <2>3, <2>5
      <4> QED BY <4>1, <4>2
    <3> QED BY <3>1, <3>2, OnePlace
  <2>7. ASSUME NEW s \in Samples
        PROVE  Occ(s, queue') + One(s \in dropped)' = Occ(s, queue) + One(s \in dropped) + One(x = s)
    <3>0. Occ(s, queue) \in Nat /\ Occ(s, t) \in Nat /\ s # End
      BY <2>5, PlaceTerms, Terms
    <3>1. /\ h = s => One(s \in dropped) = 0 /\ One(s \in dropped)' = 1
          /\ h # s => One(s \in dropped)' = One(s \in dropped)
      BY <2>2, <2>6, <3>0 DEF One
    <3>2. (x = s => One(x = s) = 1) /\ (x # s => One(x = s) = 0) /\ One(s \in dropped) \in Nat
      BY DEF One
    <3>3. /\ h = s => Occ(s, t) = Occ(s, queue) - 1
          /\ h # s => Occ(s, t) = Occ(s, queue)
          /\ x = s => Occ(s, queue') = Occ(s, t) + 1
          /\ x # s => Occ(s, queue') = Occ(s, t)
      BY <2>3, <2>4
    <3> QED BY <3>0, <3>1, <3>2, <3>3
  <2>8. (x # End => One(x # End) = 1) /\ (x = End => One(x # End) = 0)
    BY DEF One
  <2>9. Real(queue') <= Real(queue) + One(x # End)
    BY <1>0, <2>3, <2>4, <2>8
  <2>10. ASSUME \A i \in 1..Len(queue) : queue[i] # End
         PROVE  Real(queue') + Cardinality(dropped') = Real(queue) + Cardinality(dropped) + One(x # End)
    <3>1. h # End
      BY <2>1, <2>10
    <3>2. Cardinality(dropped') = Cardinality(dropped) + 1
      BY <1>0, <2>2, <2>6, <3>1, FS_AddElement
    <3> QED BY <1>0, <2>3, <2>4, <2>8, <3>1, <3>2
  <2> QED BY <2>7, <2>9, <2>10
<1>2. CASE ~(Len(queue) >= MaxRequired)
  <2>1. queue' = Append(queue, x) /\ dropped' = dropped
    BY <1>2 DEF Put
  <2>2. /\ \A s : /\ x = s => Occ(s, queue') = Occ(s, queue) + 1
                  /\ x # s => Occ(s, queue') = Occ(s, queue)
        /\ x # End => Real(queue') = Real(queue) + 1
        /\ x = End => Real(queue') = Real(queue)
    BY <1>0, <2>1, AppendCount
  <2>3. (x # End => One(x # End) = 1) /\ (x = End => One(x # End) = 0)
    BY DEF One
  <2>4. ASSUME NEW s \in Samples
        PROVE  Occ(s, queue') + One(s \in dropped)' = Occ(s, queue) + One(s \in dropped) + One(x = s)
    <3>1. One(s \in dropped)' = One(s \in dropped) /\ One(s \in dropped) \in Nat
          /\ (x = s => One(x = s) = 1) /\ (x # s => One(x = s) = 0)
      BY <2>1 DEF One
    <3>2. /\ x = s => Occ(s, queue') = Occ(s, queue) + 1
          /\ x # s => Occ(s, queue') = Occ(s, queue)
          /\ Occ(s, queue) \in Nat
      BY <2>2, PlaceTerms
    <3> QED BY <3>1, <3>2
  <2>5. Real(queue') <= Real(queue) + One(x # End)
    BY <1>0, <2>2, <2>3
  <2>6. Real(queue') + Cardinality(dropped') = Real(queue) + Cardinality(dropped) + One(x # End)
    BY <1>0, <2>1, <2>2, <2>3
  <2> QED BY <2>4, <2>5, <2>6
<1> QED BY <1>1, <1>2

\* A task puts its sample.
LEMMA GeneratedCount ==
  ASSUME Struct, Struct', CountInv, NEW t \in Samples, Generated(t)
  PROVE  CountInv'
<1>0. /\ UNCHANGED <<fed, feeder, pending, proc, held, batch, trained>> /\ TypeOK /\ TypeOK'
      /\ task[t] = "gen" /\ Put(t) /\ task' = [task EXCEPT ![t] = "put"]
      /\ task \in [Samples -> {"no", "gen", "put", "fin", "err"}]
  BY DEF Generated, feedVars, procVars, trainVars, Struct, TypeOK
<1>1. t \in 0..Total /\ t # End /\ IsFiniteSet(Busy)
  BY <1>0, Terms
<1>2. task'[t] = "put" /\ \A s \in Samples : s # t => task'[s] = task[s]
  BY <1>0
<1>3. /\ \A s \in Samples :
            Occ(s, queue') + One(s \in dropped)' = Occ(s, queue) + One(s \in dropped) + One(t = s)
      /\ (\A i \in 1..Len(queue) : queue[i] # End) =>
            Real(queue') + Cardinality(dropped') = Real(queue) + Cardinality(dropped) + One(t # End)
  BY <1>0, <1>1, PutCount DEF CountInv
<1>7. (\A s : Occ(s, queue') \in Nat) /\ Real(queue') \in Nat /\ Cardinality(dropped') \in Nat
  BY <1>0, QueueTerms DEF TypeOK
<1>4. ASSUME NEW s \in Samples PROVE Places(s)' = Places(s)
  <2>1. /\ Occ(s, pending)' = Occ(s, pending) /\ One(held = s)' = One(held = s)
        /\ Occ(s, batch)' = Occ(s, batch) /\ Occ(s, trained)' = Occ(s, trained)
    BY <1>0
  <2>2. One(task[s] \in {"gen", "err"}) = One(task[s] \in {"gen", "err"})' + One(t = s)
    <3>1. CASE t = s
      BY <1>0, <1>2, <3>1 DEF One
    <3>2. CASE t # s
      BY <1>0, <1>2, <3>2 DEF One
    <3> QED BY <3>1, <3>2
  <2>3. Occ(s, queue)' + One(s \in dropped)' = Occ(s, queue) + One(s \in dropped) + One(t = s)
    BY <1>3
  <2>4. /\ Occ(s, queue)' \in Nat /\ One(s \in dropped)' \in Nat /\ One(t = s) \in Nat
        /\ One(task[s] \in {"gen", "err"})' \in Nat
    <3>1. Occ(s, queue)' \in Nat
      BY <1>7
    <3>2. One(s \in dropped)' \in Nat /\ One(t = s) \in Nat /\ One(task[s] \in {"gen", "err"})' \in Nat
      BY DEF One
    <3> QED BY <3>1, <3>2
  <2> QED BY <1>0, <2>1, <2>2, <2>3, <2>4, PlaceTerms DEF Places
<1>5. proc' \notin {"raised", "crashed"} => Counted' = Counted
  <2> SUFFICES ASSUME proc' \notin {"raised", "crashed"} PROVE Counted' = Counted
    OBVIOUS
  <2>1. \A i \in 1..Len(queue) : queue[i] # End
    <3>1. proc # "stopped"
      BY <1>0 DEF Struct, Hands, Active
    <3> QED BY <1>0, <3>1 DEF Struct, Closing
  <2>2. Real(queue)' + Cardinality(dropped)' = Real(queue) + Cardinality(dropped) + 1
    <3>1. One(t # End) = 1
      BY <1>1 DEF One
    <3> QED BY <1>3, <2>1, <3>1
  <2>3. Busy' = Busy \ {t} /\ t \in Busy
    BY <1>0, <1>2 DEF Busy
  <2>4. Cardinality(Busy)' = Cardinality(Busy) - 1
    BY <1>1, <2>3, FS_RemoveElement
  <2>5. /\ Real(pending)' = Real(pending) /\ One(held # End)' = One(held # End)
        /\ Len(batch)' = Len(batch) /\ Len(trained)' = Len(trained)
    BY <1>0
  <2>6. Real(queue)' \in Nat /\ Cardinality(dropped)' \in Nat
    BY <1>7
  <2>7. /\ Real(pending) \in Nat /\ Real(queue) \in Nat /\ Cardinality(Busy) \in Nat
        /\ Cardinality(dropped) \in Nat /\ Len(batch) \in Nat /\ Len(trained) \in Nat
        /\ One(held # End) \in Nat
    BY <1>0, CountTerms
  <2>8. Cardinality(Busy)' + Real(queue)' + Cardinality(dropped)'
          = Cardinality(Busy) + Real(queue) + Cardinality(dropped)
    BY ONLY <2>2, <2>4, <2>6, <2>7
  <2>9. One(held # End)' \in Nat /\ Cardinality(Busy)' \in Int
    BY ONLY <2>4, <2>5, <2>7
  <2>10. Real(pending)' \in Nat /\ Len(batch)' \in Nat /\ Len(trained)' \in Nat
    BY ONLY <2>5, <2>7
  <2>11. Counted = Real(pending) + One(held # End) + Len(batch) + Len(trained)
              + (Cardinality(Busy) + Real(queue) + Cardinality(dropped))
    BY ONLY <2>7 DEF Counted
  <2>12. Counted' = Real(pending)' + One(held # End)' + Len(batch)' + Len(trained)'
              + (Cardinality(Busy)' + Real(queue)' + Cardinality(dropped)')
    BY ONLY <2>6, <2>9, <2>10 DEF Counted
  <2> QED BY ONLY <2>5, <2>8, <2>11, <2>12
<1>6. FedCount' = FedCount /\ \A s \in Samples : WasFed(s)' <=> WasFed(s)
  BY <1>0 DEF FedCount, WasFed
<1> QED BY <1>0, <1>4, <1>5, <1>6, MoveCount

\* The end signal is sent.
LEMMA SendEndCount == Struct /\ Struct' /\ CountInv /\ SendEnd => CountInv'
<1> SUFFICES ASSUME Struct, Struct', CountInv, SendEnd PROVE CountInv'
  OBVIOUS
<1>0. /\ UNCHANGED <<fed, pending, held, task, batch, trained>> /\ TypeOK /\ TypeOK'
      /\ feeder' = "done" /\ Put(End) /\ End \in 0..Total
      /\ \/ proc = "raised" /\ proc' = "crashed"
         \/ proc = "ending" /\ proc' = "stopped"
  BY AsyncAssumption DEF SendEnd, trainVars, Struct, End
<1>1. /\ \A s \in Samples :
            Occ(s, queue') + One(s \in dropped)' = Occ(s, queue) + One(s \in dropped) + One(End = s)
      /\ (\A i \in 1..Len(queue) : queue[i] # End) =>
            Real(queue') + Cardinality(dropped') = Real(queue) + Cardinality(dropped) + One(End # End)
  BY <1>0, PutCount DEF CountInv
<1>2. (\A s : Occ(s, queue') \in Nat) /\ Real(queue') \in Nat /\ Cardinality(dropped') \in Nat
  BY <1>0, QueueTerms DEF TypeOK
<1>3. ASSUME NEW s \in Samples PROVE Places(s)' = Places(s)
  <2>1. /\ Occ(s, pending)' = Occ(s, pending) /\ One(held = s)' = One(held = s)
        /\ One(task[s] \in {"gen", "err"})' = One(task[s] \in {"gen", "err"})
        /\ Occ(s, batch)' = Occ(s, batch) /\ Occ(s, trained)' = Occ(s, trained)
    BY <1>0
  <2>2. One(End = s) = 0
    BY <1>0, Terms DEF One
  <2>3. Occ(s, queue)' + One(s \in dropped)' = Occ(s, queue) + One(s \in dropped)
    BY <1>0, <1>1, <2>2, PlaceTerms
  <2>4. Occ(s, queue)' \in Nat /\ One(s \in dropped)' \in Nat
    BY <1>2 DEF One
  <2> QED BY <1>0, <2>1, <2>3, <2>4, PlaceTerms DEF Places
<1>4. CASE proc = "raised"
  <2>1. proc' = "crashed" /\ \A s \in Samples : WasFed(s)'
    BY <1>0, <1>4 DEF WasFed
  <2>2. ASSUME NEW s \in Samples
        PROVE  Places(s) \in Nat /\ Places(s)' \in Nat /\ Places(s)' <= Places(s)
    BY <1>0, <1>3, PlaceTerms
  <2> QED BY <2>1, <2>2, LoseCount
<1>5. CASE proc = "ending"
  <2>1. feeder = "done" /\ \A i \in 1..Len(queue) : queue[i] # End
    BY <1>5 DEF Struct, Hands, Closing
  <2>2. Real(queue)' + Cardinality(dropped)' = Real(queue) + Cardinality(dropped)
    <3>1. One(End # End) = 0
      BY DEF One
    <3> QED BY <1>0, <1>1, <2>1, <3>1, CountTerms
  <2>3. Busy' = Busy
    BY <1>0 DEF Busy
  <2>4. /\ Real(pending)' = Real(pending) /\ One(held # End)' = One(held # End)
        /\ Cardinality(Busy)' = Cardinality(Busy)
        /\ Len(batch)' = Len(batch) /\ Len(trained)' = Len(trained)
    BY <1>0, <2>3
  <2>5. Counted' = Counted
    <3>1. Real(queue)' \in Nat /\ Cardinality(dropped)' \in Nat
      BY <1>2
    <3>2. /\ Real(pending) \in Nat /\ Real(queue) \in Nat /\ Cardinality(Busy) \in Nat
          /\ Cardinality(dropped) \in Nat /\ Len(batch) \in Nat /\ Len(trained) \in Nat
          /\ One(held # End) \in Nat
      BY <1>0, CountTerms
    <3>3. Counted = (Real(pending) + One(held # End) + Cardinality(Busy) + Len(batch) + Len(trained))
                      + (Real(queue) + Cardinality(dropped))
      BY ONLY <3>2, Sum DEF Counted
    <3>4. Counted' = (Real(pending)' + One(held # End)' + Cardinality(Busy)' + Len(batch)'
                      + Len(trained)') + (Real(queue)' + Cardinality(dropped)')
      <4>1. /\ Real(pending)' \in Int /\ One(held # End)' \in Int /\ Cardinality(Busy)' \in Int
            /\ Len(batch)' \in Int /\ Len(trained)' \in Int
        BY ONLY <2>4, <3>2
      <4> QED BY ONLY <3>1, <4>1, Sum DEF Counted
    <3> QED BY ONLY <2>2, <2>4, <3>3, <3>4
  <2>6. FedCount' = FedCount /\ \A s \in Samples : WasFed(s)' <=> WasFed(s)
    BY <1>0, <2>1 DEF FedCount, WasFed
  <2> QED BY <1>0, <1>3, <2>5, <2>6, MoveCount
<1> QED BY <1>0, <1>4, <1>5

\* Tasks are taken out of active_tasks; one that raised takes its sample along.
LEMMA DiscardCount == Struct /\ CountInv /\ (Drain \/ WaitTask) => CountInv'
<1> SUFFICES ASSUME Struct, CountInv, Drain \/ WaitTask PROVE CountInv'
  OBVIOUS
<1>0. /\ UNCHANGED <<fed, feeder, pending, held, queue, dropped, batch, trained>> /\ TypeOK
      /\ proc \in {"drain", "slot", "ending"}
  BY DEF Drain, WaitTask, feedVars, queueVars, trainVars, Struct, Hands
<1>1. \E D \in SUBSET Finished, next \in {"check", "drain", "slot", "ending"} : Discard(D, next)
  <2>1. CASE Drain
    BY <2>1 DEF Drain
  <2>2. CASE WaitTask
    BY <1>0, <2>2 DEF WaitTask
  <2> QED BY <2>1, <2>2
<1>2. PICK D \in SUBSET Finished, next \in {"check", "drain", "slot", "ending"} : Discard(D, next)
  BY <1>1
<1>3. \A s \in Samples : task'[s] = IF s \in D THEN "no" ELSE task[s]
  BY <1>2 DEF Discard
<1>4. CASE \E s \in D : task[s] = "err"
  <2>1. proc' = "raised"
    BY <1>2, <1>4 DEF Discard
  <2>2. ASSUME NEW s \in Samples
        PROVE  Places(s) \in Nat /\ Places(s)' \in Nat /\ Places(s)' <= Places(s)
    <3>1. /\ Occ(s, pending)' = Occ(s, pending) /\ One(held = s)' = One(held = s)
          /\ Occ(s, queue)' = Occ(s, queue) /\ One(s \in dropped)' = One(s \in dropped)
          /\ Occ(s, batch)' = Occ(s, batch) /\ Occ(s, trained)' = Occ(s, trained)
      BY <1>0
    <3>2. /\ One(task[s] \in {"gen", "err"})' \in Nat
          /\ One(task[s] \in {"gen", "err"})' <= One(task[s] \in {"gen", "err"})
      BY <1>3 DEF One
    <3> QED BY <1>0, <3>1, <3>2, PlaceTerms DEF Places
  <2>3. \A s \in Samples : WasFed(s) => WasFed(s)'
    BY <1>0 DEF WasFed
  <2> QED BY <2>1, <2>2, <2>3, LoseCount
<1>5. CASE ~\E s \in D : task[s] = "err"
  <2>1. \A s \in D : task[s] = "fin"
    BY <1>5 DEF Finished
  <2>2. \A s \in Samples : task'[s] \in {"gen", "err"} <=> task[s] \in {"gen", "err"}
    BY <1>3, <2>1
  <2> QED BY <1>0, <2>2, StillCount
<1> QED BY <1>4, <1>5

\* The trainer takes a sample from the queue.
LEMMA CollectCount == Struct /\ Struct' /\ CountInv /\ Collect => CountInv'
<1> SUFFICES ASSUME Struct, Struct', CountInv, Collect PROVE CountInv'
  OBVIOUS
<1>0. /\ UNCHANGED <<fed, feeder, pending, proc, held, task, dropped, trained>> /\ TypeOK
      /\ queue \in Seq(0..Total) /\ queue # <<>> /\ queue' = Tail(queue) /\ batch \in Seq(Samples)
      /\ Total \in Nat
  BY AsyncAssumption DEF Collect, feedVars, procVars, Struct, TypeOK
<1>1. Busy' = Busy
  BY <1>0 DEF Busy
<1>2. /\ \A s : /\ Head(queue) = s => Occ(s, queue') = Occ(s, queue) - 1
                /\ Head(queue) # s => Occ(s, queue') = Occ(s, queue)
      /\ Head(queue) # End => Real(queue') = Real(queue) - 1
      /\ Head(queue) = End => Real(queue') = Real(queue)
  BY <1>0, TailCount
<1>3. /\ \A s \in Samples : /\ Head(queue) = s => Occ(s, batch') = Occ(s, batch) + 1
                            /\ Head(queue) # s => Occ(s, batch') = Occ(s, batch)
      /\ Head(queue) # End => Len(batch') = Len(batch) + 1
      /\ Head(queue) = End => Len(batch') = Len(batch)
  <2>1. CASE Head(queue) = End
    <3>1. UNCHANGED batch
      BY <2>1 DEF Collect
    <3>2. \A s \in Samples : s # End
      BY <1>0, Terms
    <3> QED BY <2>1, <3>1, <3>2
  <2>2. CASE Head(queue) # End
    <3>1. batch' = Append(batch, Head(queue))
      BY <2>2 DEF Collect
    <3>2. Head(queue) \in Samples
      <4>1. Head(queue) \in 0..Total
        BY <1>0, TailIs
      <4> QED BY <1>0, <2>2, <4>1 DEF Samples, End
    <3>3. Len(batch') = Len(batch) + 1
      BY <1>0, <3>1, <3>2
    <3> QED BY <1>0, <2>2, <3>1, <3>2, <3>3, AppendCount
  <2> QED BY <2>1, <2>2
<1>4. ASSUME NEW s \in Samples PROVE Places(s)' = Places(s)
  <2>1. /\ Occ(s, pending)' = Occ(s, pending) /\ One(held = s)' = One(held = s)
        /\ One(task[s] \in {"gen", "err"})' = One(task[s] \in {"gen", "err"})
        /\ One(s \in dropped)' = One(s \in dropped) /\ Occ(s, trained)' = Occ(s, trained)
    BY <1>0
  <2>2. Occ(s, queue)' + Occ(s, batch)' = Occ(s, queue) + Occ(s, batch)
        /\ Occ(s, queue)' \in Int /\ Occ(s, batch)' \in Int
    <3>1. /\ Head(queue) = s => Occ(s, queue)' = Occ(s, queue) - 1 /\ Occ(s, batch)' = Occ(s, batch) + 1
          /\ Head(queue) # s => Occ(s, queue)' = Occ(s, queue) /\ Occ(s, batch)' = Occ(s, batch)
      BY <1>2, <1>3
    <3>2. Occ(s, queue) \in Nat /\ Occ(s, batch) \in Nat
      BY <1>0, PlaceTerms
    <3>3. CASE Head(queue) = s
      BY ONLY <3>1, <3>2, <3>3
    <3>4. CASE Head(queue) # s
      BY ONLY <3>1, <3>2, <3>4
    <3> QED BY <3>3, <3>4
  <2>3. /\ Occ(s, pending) \in Nat /\ Occ(s, queue) \in Nat /\ Occ(s, batch) \in Nat
        /\ Occ(s, trained) \in Nat /\ One(held = s) \in Nat /\ One(s \in dropped) \in Nat
        /\ One(task[s] \in {"gen", "err"}) \in Nat
    BY <1>0, PlaceTerms
  <2>4. /\ Occ(s, pending)' \in Nat /\ Occ(s, trained)' \in Nat /\ One(held = s)' \in Nat
        /\ One(s \in dropped)' \in Nat /\ One(task[s] \in {"gen", "err"})' \in Nat
    BY ONLY <2>1, <2>3
  <2> QED BY ONLY <2>1, <2>2, <2>3, <2>4 DEF Places
<1>5. Counted' = Counted
  <2>1. /\ Real(pending)' = Real(pending) /\ One(held # End)' = One(held # End)
        /\ Cardinality(Busy)' = Cardinality(Busy) /\ Cardinality(dropped)' = Cardinality(dropped)
        /\ Len(trained)' = Len(trained)
    BY <1>0, <1>1
  <2>2. /\ Head(queue) # End => Real(queue)' = Real(queue) - 1 /\ Len(batch)' = Len(batch) + 1
        /\ Head(queue) = End => Real(queue)' = Real(queue) /\ Len(batch)' = Len(batch)
    BY <1>2, <1>3
  <2>3. CASE Head(queue) = End
    BY <1>0, <2>1, <2>2, <2>3, CountTerms DEF Counted
  <2>4. CASE Head(queue) # End
    <3>1. /\ Real(pending) \in Nat /\ Real(queue) \in Nat /\ Cardinality(Busy) \in Nat
          /\ Cardinality(dropped) \in Nat /\ Len(batch) \in Nat /\ Len(trained) \in Nat
          /\ One(held # End) \in Nat
      BY <1>0, CountTerms
    <3>2. Real(queue)' = Real(queue) - 1 /\ Len(batch)' = Len(batch) + 1
      BY <2>2, <2>4
    <3>3. /\ Real(queue)' + Len(batch)' = Real(queue) + Len(batch)
          /\ Real(queue)' \in Int /\ Len(batch)' \in Int
      BY ONLY <3>1, <3>2
    <3>4. Counted = (Real(pending) + One(held # End) + Cardinality(Busy) + Cardinality(dropped)
                      + Len(trained)) + (Real(queue) + Len(batch))
      BY ONLY <3>1, Sum DEF Counted
    <3>5. Counted' = (Real(pending)' + One(held # End)' + Cardinality(Busy)' + Cardinality(dropped)'
                      + Len(trained)') + (Real(queue)' + Len(batch)')
      <4>1. /\ Real(pending)' \in Int /\ One(held # End)' \in Int /\ Cardinality(Busy)' \in Int
            /\ Cardinality(dropped)' \in Int /\ Len(trained)' \in Int
        BY ONLY <2>1, <3>1
      <4> QED BY ONLY <3>3, <4>1, Sum DEF Counted
    <3> QED BY ONLY <2>1, <3>3, <3>4, <3>5
  <2> QED BY <2>3, <2>4
<1>6. FedCount' = FedCount /\ \A s \in Samples : WasFed(s)' <=> WasFed(s)
  BY <1>0 DEF FedCount, WasFed
<1> QED BY <1>0, <1>4, <1>5, <1>6, MoveCount

\* The trainer trains on a batch.
LEMMA TrainCount == Struct /\ CountInv /\ Train => CountInv'
<1> SUFFICES ASSUME Struct, CountInv, Train PROVE CountInv'
  OBVIOUS
<1>0. /\ UNCHANGED <<fed, feeder, pending, proc, held, task, queue, dropped>> /\ TypeOK
      /\ trained' = trained \o batch /\ batch' = <<>>
      /\ trained \in Seq(Samples) /\ batch \in Seq(Samples)
  BY DEF Train, feedVars, procVars, queueVars, Struct, TypeOK
<1>1. Busy' = Busy
  BY <1>0 DEF Busy
<1>2. ASSUME NEW s \in Samples PROVE Places(s)' = Places(s)
  <2>1. /\ Occ(s, pending)' = Occ(s, pending) /\ One(held = s)' = One(held = s)
        /\ One(task[s] \in {"gen", "err"})' = One(task[s] \in {"gen", "err"})
        /\ One(s \in dropped)' = One(s \in dropped) /\ Occ(s, queue)' = Occ(s, queue)
    BY <1>0
  <2>2. Occ(s, trained)' = Occ(s, trained) + Occ(s, batch)
    BY <1>0, OccConcat
  <2>3. Occ(s, batch)' = 0
    BY <1>0, OccEmpty
  <2> QED BY <1>0, <2>1, <2>2, <2>3, PlaceTerms DEF Places
<1>3. Counted' = Counted
  <2>1. /\ Real(pending)' = Real(pending) /\ One(held # End)' = One(held # End)
        /\ Cardinality(Busy)' = Cardinality(Busy) /\ Cardinality(dropped)' = Cardinality(dropped)
        /\ Real(queue)' = Real(queue)
    BY <1>0, <1>1
  <2>2. Len(trained)' = Len(trained) + Len(batch)
    BY <1>0, ConcatIs
  <2>3. Len(batch)' = 0
    BY <1>0
  <2> QED BY <1>0, <2>1, <2>2, <2>3, CountTerms DEF Counted
<1>4. FedCount' = FedCount /\ \A s \in Samples : WasFed(s)' <=> WasFed(s)
  BY <1>0 DEF FedCount, WasFed
<1> QED BY <1>0, <1>2, <1>3, <1>4, MoveCount

\* At the start no sample is anywhere.
LEMMA InitCount == Init => CountInv
<1> SUFFICES ASSUME Init PROVE CountInv
  OBVIOUS
<1>0. /\ pending = <<>> /\ queue = <<>> /\ batch = <<>> /\ trained = <<>> /\ dropped = {}
      /\ held = End /\ fed = 1 /\ feeder = "feed" /\ TypeOK
      /\ \A s \in Samples : task[s] = "no"
  BY InitStruct DEF Init, Struct
<1>1. ASSUME NEW s \in Samples PROVE Places(s) = 0 /\ ~WasFed(s)
  <2>1. Occ(s, <<>>) = 0
    BY OccEmpty
  <2>2. One(held = s) = 0 /\ One(task[s] \in {"gen", "err"}) = 0 /\ One(s \in dropped) = 0
    BY <1>0, Terms DEF One
  <2>3. s \in 1..Total
    BY DEF Samples
  <2>4. ~WasFed(s)
    BY <1>0, <2>3, AsyncAssumption DEF WasFed
  <2> QED BY <1>0, <2>1, <2>2, <2>4 DEF Places
<1>2. Counted = 0
  <2>1. Busy = {}
    BY <1>0 DEF Busy
  <2>2. Real(<<>>) = 0 /\ One(held # End) = 0 /\ Len(<<>>) = 0
    BY <1>0, OccEmpty DEF One
  <2>3. Cardinality(Busy) = 0 /\ Cardinality(dropped) = 0
    BY <1>0, <2>1, FS_EmptySet
  <2> QED BY <1>0, <2>2, <2>3 DEF Counted
<1>3. FedCount = 0
  BY <1>0 DEF FedCount
<1>4. Unfed
  BY <1>1 DEF Unfed
<1>5. Conserved
  BY <1>1 DEF Conserved
<1>6. Balance
  BY <1>2, <1>3 DEF Balance
<1> QED BY <1>4, <1>5, <1>6 DEF CountInv

\* Steps that leave every sample where it is.
LEMMA RestCount ==
  ASSUME Struct, CountInv,
         \/ CheckPaused \/ DecidePause \/ Pause \/ DrainResumed \/ WaitLock \/ Monitor
         \/ Stop \/ ResetStaleness \/ ResetStalenessEnd \/ UNCHANGED vars
         \/ \E s \in Samples : TaskEnds(s) \/ TaskRaises(s)
  PROVE  CountInv'
<1>1. CASE \/ CheckPaused \/ DecidePause \/ Pause \/ DrainResumed \/ WaitLock
  <2>1. UNCHANGED <<fed, feeder, pending, held, task, queue, dropped, batch, trained>>
    BY <1>1 DEF CheckPaused, DecidePause, Pause, DrainResumed, WaitLock, feedVars, procVars,
                queueVars, trainVars
  <2>2. proc \in {"raised", "crashed"} => proc' = proc
    BY <1>1 DEF CheckPaused, DecidePause, Pause, DrainResumed, WaitLock, procVars
  <2> QED BY <2>1, <2>2, StillCount
<1>2. CASE Monitor \/ Stop \/ ResetStaleness \/ ResetStalenessEnd \/ UNCHANGED vars
  <2>1. UNCHANGED <<fed, feeder, pending, held, task, queue, dropped, batch, trained, proc>>
    BY <1>2 DEF Monitor, MonitorRead, MonitorDecide, MonitorResume, Stop, ResetStaleness,
                ResetStalenessEnd, vars, feedVars, procVars, queueVars, trainVars
  <2> QED BY <2>1, StillCount
<1>3. CASE \E s \in Samples : TaskEnds(s) \/ TaskRaises(s)
  <2>1. PICK t \in Samples : TaskEnds(t) \/ TaskRaises(t)
    BY <1>3
  <2>2. UNCHANGED <<fed, feeder, pending, held, queue, dropped, batch, trained, proc>>
    BY <2>1 DEF TaskEnds, TaskRaises, feedVars, procVars, queueVars, trainVars
  <2>3. task \in [Samples -> {"no", "gen", "put", "fin", "err"}]
    BY DEF Struct, TypeOK
  <2>4. \/ task[t] = "put" /\ task' = [task EXCEPT ![t] = "fin"]
        \/ task[t] = "gen" /\ task' = [task EXCEPT ![t] = "err"]
    BY <2>1 DEF TaskEnds, TaskRaises
  <2>5. \A s \in Samples : task'[s] \in {"gen", "err"} <=> task[s] \in {"gen", "err"}
    BY <2>3, <2>4
  <2> QED BY <2>2, <2>5, StillCount
<1> QED BY <1>1, <1>2, <1>3

\* Every step keeps the balance.
LEMMA StepCount == Struct /\ CountInv /\ [Next]_vars => CountInv'
<1> SUFFICES ASSUME Struct, CountInv, [Next]_vars PROVE CountInv'
  OBVIOUS
<1>0. Struct'
  BY StepStruct
<1>1. CASE Processor
  BY <1>0, <1>1, RestCount, DiscardCount, GetCount, SubmitCount, SendEndCount DEF Processor
<1>2. CASE Feeder \/ Monitor \/ Trainer
  BY <1>0, <1>2, RestCount, FeedCount, CollectCount, TrainCount DEF Trainer
<1>3. CASE \E s \in Samples : Task(s) \/ TaskRaises(s)
  BY <1>0, <1>3, RestCount, GeneratedCount DEF Task
<1>4. CASE UNCHANGED vars
  BY <1>4, RestCount
<1> QED BY <1>1, <1>2, <1>3, <1>4 DEF Next

\* _feed_samples, _processor_worker, _process_single_sample_streaming,
\* put_sample and _get_samples_from_queue hand every sample on exactly once:
\* none is lost or duplicated unless a generation task raised, for every number
\* of samples and every interleaving.
THEOREM SamplesConserved == Spec => []Conserved
<1>1. Init => Struct /\ CountInv
  BY InitStruct, InitCount
<1>2. Struct /\ CountInv /\ [Next]_vars => (Struct /\ CountInv)'
  BY StepStruct, StepCount
<1>3. Struct /\ CountInv => Conserved
  BY DEF CountInv
<1> QED BY <1>1, <1>2, <1>3, PTL DEF Spec

\* When a run ends without an exception, every complete batch of the samples
\* that were not dropped from the message queue has been trained on: the end
\* signal overtakes none of them.
THEOREM TrainsAllBatches == Spec => []DoneTrainedAll
<1>1. ASSUME Struct, CountInv PROVE DoneTrainedAll
  <2> SUFFICES ASSUME trainer = "done", proc = "stopped"
               PROVE  Len(trained) = ((Total - Cardinality(dropped)) \div Required) * Required
    BY DEF DoneTrainedAll
  <2>0. TypeOK
    BY <1>1 DEF Struct
  <2>1. pending = <<>> /\ feeder = "done" /\ held = End /\ Active = {} /\ queue = <<>>
    BY <1>1 DEF Struct, Hands, Closing
  <2>2. Busy = {}
    BY <2>1 DEF Busy, Active
  <2>3. Real(pending) = 0 /\ Real(queue) = 0 /\ One(held # End) = 0 /\ Cardinality(Busy) = 0
    BY <2>1, <2>2, OccEmpty, FS_EmptySet DEF One
  <2>4. Counted = Total
    BY <1>1, <2>1 DEF CountInv, Balance, FedCount
  <2>5. Cardinality(dropped) + Len(batch) + Len(trained) = Total
    BY <2>0, <2>3, <2>4, CountTerms DEF Counted
  <2> DEFINE m == Len(trained) \div Required
  <2>6. /\ Len(batch) < Required /\ Len(trained) = m * Required
    BY <1>1 DEF Struct, Batches
  <2>7. Required \in Nat \ {0} /\ Cardinality(dropped) \in Nat /\ Len(batch) \in Nat
        /\ Len(trained) \in Nat /\ Total \in Nat
    BY <2>0, CountTerms, AsyncAssumption
  <2>8. m \in Nat
    BY <2>7, DivMod
  <2> HIDE DEF m
  <2>9. Total - Cardinality(dropped) = m * Required + Len(batch)
    <3>1. m * Required \in Nat
      BY <2>6, <2>7
    <3> QED BY <2>5, <2>6, <2>7, <3>1
  <2>10. (m * Required + Len(batch)) \div Required = m
    BY <2>6, <2>7, <2>8, DivUnique
  <2> QED BY <2>6, <2>9, <2>10
<1>2. Init => Struct /\ CountInv
  BY InitStruct, InitCount
<1>3. Struct /\ CountInv /\ [Next]_vars => (Struct /\ CountInv)'
  BY StepStruct, StepCount
<1> QED BY <1>1, <1>2, <1>3, PTL DEF Spec

-----------------------------------------------------------------------------
(* What waits for the trainer.                                             *)

Generating == {s \in Samples : task[s] = "gen"}

\* The terms of Outstanding.
LEMMA Waiting ==
  ASSUME TypeOK
  PROVE  /\ Outstanding = Cardinality(Generating) + Real(queue) + One(proc = "slot")
         /\ IsFiniteSet(Generating) /\ Cardinality(Generating) \in Nat /\ Real(queue) \in Nat
         /\ One(proc = "slot") \in Nat /\ Outstanding \in Nat /\ staleness \in Nat
         /\ MaxRequired \in Nat /\ Real(queue) <= Len(queue) /\ Len(queue) \in Nat
<1>1. IsFiniteSet(Generating)
  BY Terms, FS_Subset DEF Generating
<1>2. Cardinality(Generating) \in Nat /\ Real(queue) \in Nat /\ One(proc = "slot") \in Nat
  BY <1>1, FS_CardinalityType, Terms, OneNat
<1>3. Outstanding = Cardinality(Generating) + Real(queue) + One(proc = "slot")
  BY DEF Outstanding, Generating, Real
<1>4. Real(queue) <= Len(queue) /\ Len(queue) \in Nat
  <2>1. queue \in Seq(0..Total)
    BY DEF TypeOK
  <2>2. Occ(End, queue) \in Nat /\ Len(queue) \in Nat
    BY <2>1, IdxFinite
  <2> QED BY <2>2 DEF Real
<1>5. staleness \in Nat /\ MaxRequired \in Nat
  BY AsyncAssumption DEF TypeOK
<1>6. Outstanding \in Nat
  BY <1>2, <1>3
<1> QED BY <1>1, <1>2, <1>3, <1>4, <1>5, <1>6

\* A step after which no more waits than before.
LEMMA NotMore ==
  ASSUME TypeOK, Freshness, staleness' = staleness, Outstanding' \in Int, Outstanding' <= Outstanding,
         proc' = "get" => proc = "get",
         lock' = "trainer" => lock = "trainer" /\ snap' = snap /\ Generating' \subseteq Generating
  PROVE  Freshness'
<1>1. /\ Outstanding \in Nat /\ staleness \in Nat /\ MaxRequired \in Nat
      /\ IsFiniteSet(Generating) /\ Cardinality(Generating) \in Nat
  BY Waiting
<1>2. Outstanding' <= staleness' + 1
  BY <1>1 DEF Freshness
<1>3. proc' = "get" => Outstanding' <= MaxRequired
  BY <1>1 DEF Freshness
<1>4. Outstanding' <= MaxRequired + 1
  BY <1>1 DEF Freshness, OutstandingBound
<1>5. ASSUME lock' = "trainer"
      PROVE  Cardinality({s \in Samples : task[s] = "gen"})' <= snap'
  <2>1. Cardinality(Generating') \in Nat /\ Cardinality(Generating') <= Cardinality(Generating)
    BY <1>1, <1>5, FS_Subset, FS_CardinalityType
  <2>2. Cardinality(Generating) <= snap /\ snap' = snap /\ snap \in Nat
    BY <1>5 DEF Freshness, Generating, TypeOK
  <2>3. Cardinality(Generating') <= snap'
    BY <1>1, <2>1, <2>2
  <2> QED BY <2>3 DEF Generating
<1> QED BY <1>2, <1>3, <1>4, <1>5 DEF Freshness, OutstandingBound

\* What waits is the same.
LEMMA WaitSame ==
  ASSUME TypeOK, Generating' = Generating, Real(queue)' = Real(queue),
         proc' = "slot" => proc = "slot"
  PROVE  Outstanding' \in Int /\ Outstanding' <= Outstanding
<1>1. One(proc = "slot")' \in Nat /\ One(proc = "slot")' <= One(proc = "slot")
  BY DEF One
<1>2. Outstanding' = Cardinality(Generating)' + Real(queue)' + One(proc = "slot")'
  BY DEF Outstanding, Generating, Real
<1> QED BY <1>1, <1>2, Waiting

\* Steps that leave tasks and queue alone, but for finished tasks.
LEMMA RestFresh ==
  ASSUME Struct, Freshness,
         \/ CheckPaused \/ Pause \/ DrainResumed \/ WaitLock \/ Monitor \/ Stop \/ Train
         \/ Drain \/ WaitTask \/ Feeder \/ UNCHANGED vars
  PROVE  Freshness'
<1>0. TypeOK
  BY DEF Struct
<1>1. UNCHANGED <<queue, staleness, snap>>
  BY DEF CheckPaused, Pause, DrainResumed, WaitLock, Monitor, MonitorRead, MonitorDecide,
         MonitorResume, Stop, Train, Drain, WaitTask, Feeder, FeedSample, FeedEnd, vars, ctlVars,
         queueVars, trainVars
<1>2. Generating' = Generating
  <2>1. CASE Drain \/ WaitTask
    <3>1. PICK D \in SUBSET Finished : task' = [s \in Samples |-> IF s \in D THEN "no" ELSE task[s]]
      BY <2>1 DEF Drain, WaitTask, Discard
    <3> QED BY <3>1 DEF Generating, Finished
  <2>2. CASE ~(Drain \/ WaitTask)
    <3>1. UNCHANGED task
      BY <2>2 DEF CheckPaused, Pause, DrainResumed, WaitLock, Monitor, MonitorRead, MonitorDecide,
                  MonitorResume, Stop, Train, Feeder, FeedSample, FeedEnd, vars
    <3> QED BY <3>1 DEF Generating
  <2> QED BY <2>1, <2>2
<1>3. (proc' = "slot" => proc = "slot") /\ (proc' = "get" => proc = "get")
  <2>1. CASE Drain \/ WaitTask
    <3>1. CASE Drain
      BY <3>1 DEF Drain, Discard
    <3>2. CASE WaitTask
      BY <3>2 DEF WaitTask, Discard
    <3> QED BY <2>1, <3>1, <3>2
  <2>2. CASE ~(Drain \/ WaitTask)
    BY <2>2 DEF CheckPaused, Pause, DrainResumed, WaitLock, Monitor, MonitorRead, MonitorDecide,
                MonitorResume, Stop, Train, Feeder, FeedSample, FeedEnd, vars, procVars
  <2> QED BY <2>1, <2>2
<1>4. lock' = "trainer" => lock = "trainer"
  BY DEF CheckPaused, Pause, DrainResumed, WaitLock, Monitor, MonitorRead, MonitorDecide,
         MonitorResume, Stop, Train, Drain, WaitTask, Feeder, FeedSample, FeedEnd, vars, ctlVars
<1>5. Outstanding' \in Int /\ Outstanding' <= Outstanding
  BY <1>0, <1>1, <1>2, <1>3, WaitSame
<1> QED BY <1>0, <1>1, <1>2, <1>3, <1>4, <1>5, NotMore

\* _should_pause_generation lets the processor go on only below the limit.
LEMMA DecideFresh == ASSUME Struct, Freshness, DecidePause PROVE Freshness'
<1>0. TypeOK /\ UNCHANGED <<queue, staleness, snap, lock, task>> /\ proc = "decide"
      /\ proc' = IF full \/ TooStale THEN "pause" ELSE "get"
  BY DEF Struct, DecidePause, queueVars, ctlVars, trainVars
<1>1. Generating' = Generating
  BY <1>0 DEF Generating
<1>2. Outstanding' \in Int /\ Outstanding' <= Outstanding
  BY <1>0, <1>1, WaitSame
<1>3. Outstanding \in Nat /\ staleness \in Nat /\ MaxRequired \in Nat
  BY <1>0, Waiting
<1>4. proc' = "get" => Outstanding' <= MaxRequired
  <2>1. proc' = "get" => ~(staleness >= MaxRequired)
    BY <1>0 DEF TooStale
  <2> QED BY <1>2, <1>3, <2>1 DEF Freshness
<1>5. Outstanding' <= staleness' + 1 /\ Outstanding' <= MaxRequired + 1
  BY <1>0, <1>2, <1>3 DEF Freshness, OutstandingBound
<1>6. lock' = "trainer" => Cardinality({s \in Samples : task[s] = "gen"})' <= snap'
  BY <1>0 DEF Freshness
<1> QED BY <1>4, <1>5, <1>6 DEF Freshness, OutstandingBound

\* The processor takes a sample, counts it and submits it.
LEMMA GetFresh == ASSUME Struct, Freshness, GetSample PROVE Freshness'
<1>0. TypeOK /\ UNCHANGED <<queue, snap, lock, task>> /\ proc = "get" /\ staleness' = staleness + 1
      /\ proc' \in {"ending", "slot"}
  BY DEF Struct, GetSample, queueVars, trainVars
<1>1. Outstanding = Cardinality(Generating) + Real(queue) + One(proc = "slot")
      /\ Cardinality(Generating) \in Nat /\ Real(queue) \in Nat /\ staleness \in Nat /\ MaxRequired \in Nat
  BY <1>0, Waiting
<1>2. Outstanding' = Cardinality(Generating)' + Real(queue)' + One(proc = "slot")'
  BY DEF Outstanding, Generating, Real
<1>3. Generating' = Generating /\ Real(queue)' = Real(queue)
  BY <1>0 DEF Generating
<1>4. One(proc = "slot") = 0 /\ One(proc = "slot")' \in 0..1
  BY <1>0 DEF One
<1>5. Outstanding' \in Nat /\ Outstanding \in Nat /\ Outstanding' <= Outstanding + 1
  BY <1>1, <1>2, <1>3, <1>4
<1>6. Outstanding' <= staleness' + 1 /\ Outstanding' <= MaxRequired + 1
  BY <1>0, <1>1, <1>5 DEF Freshness
<1>7. lock' = "trainer" => Cardinality({s \in Samples : task[s] = "gen"})' <= snap'
  BY <1>0 DEF Freshness
<1> QED BY <1>0, <1>6, <1>7 DEF Freshness, OutstandingBound

\* The submission moves the sample from the hand to a task.
LEMMA SubmitFresh == ASSUME Struct, Freshness, Submit PROVE Freshness'
<1>0. /\ TypeOK /\ UNCHANGED <<queue, snap, lock, staleness>> /\ proc = "slot" /\ proc' = "check"
      /\ lock = "free" /\ task' = [task EXCEPT ![held] = "gen"]
      /\ task \in [Samples -> {"no", "gen", "put", "fin", "err"}]
  BY DEF Struct, Submit, queueVars, trainVars, ctlVars, TypeOK
<1>1. /\ Outstanding = Cardinality(Generating) + Real(queue) + One(proc = "slot")
      /\ Cardinality(Generating) \in Nat /\ Real(queue) \in Nat /\ IsFiniteSet(Generating)
  BY <1>0, Waiting
<1>2. Outstanding' = Cardinality(Generating)' + Real(queue)' + One(proc = "slot")'
  BY DEF Outstanding, Generating, Real
<1>3. Cardinality(Generating)' \in Nat /\ Cardinality(Generating)' <= Cardinality(Generating) + 1
  <2>1. Generating' \subseteq Generating \cup {held}
    BY <1>0 DEF Generating
  <2>2. /\ IsFiniteSet(Generating \cup {held})
        /\ \/ Cardinality(Generating \cup {held}) = Cardinality(Generating)
           \/ Cardinality(Generating \cup {held}) = Cardinality(Generating) + 1
    BY <1>1, FS_AddElement
  <2>3. Cardinality(Generating') <= Cardinality(Generating \cup {held}) /\ Cardinality(Generating') \in Nat
    BY <2>1, <2>2, FS_Subset, FS_CardinalityType
  <2> QED BY <1>1, <2>2, <2>3
<1>4. One(proc = "slot") = 1 /\ One(proc = "slot")' = 0 /\ Real(queue)' = Real(queue)
  BY <1>0 DEF One
<1>5. Outstanding' \in Int /\ Outstanding' <= Outstanding
  BY <1>1, <1>2, <1>3, <1>4
<1> QED BY <1>0, <1>5, NotMore

\* A task hands its sample to the queue or raises.
LEMMA TaskFresh ==
  ASSUME Struct, Struct', CountInv, Freshness, NEW t \in Samples, Task(t) \/ TaskRaises(t)
  PROVE  Freshness'
<1>0. /\ TypeOK /\ TypeOK' /\ UNCHANGED <<proc, snap, lock, staleness>>
      /\ task \in [Samples -> {"no", "gen", "put", "fin", "err"}]
      /\ \E x \in {"put", "fin", "err"} : task' = [task EXCEPT ![t] = x]
  BY DEF Struct, Task, Generated, TaskEnds, TaskRaises, procVars, trainVars, ctlVars, TypeOK
<1>1. /\ Outstanding = Cardinality(Generating) + Real(queue) + One(proc = "slot")
      /\ Cardinality(Generating) \in Nat /\ Real(queue) \in Nat /\ IsFiniteSet(Generating)
      /\ One(proc = "slot") \in Nat
  BY <1>0, Waiting
<1>2. Outstanding' = Cardinality(Generating)' + Real(queue)' + One(proc = "slot")'
  BY DEF Outstanding, Generating, Real
<1>3. Generating' \subseteq Generating
  BY <1>0 DEF Generating
<1>4. Cardinality(Generating') \in Nat /\ Cardinality(Generating') <= Cardinality(Generating)
  BY <1>1, <1>3, FS_Subset, FS_CardinalityType
<1>5. /\ Real(queue)' \in Nat
      /\ Cardinality(Generating)' + Real(queue)' <= Cardinality(Generating) + Real(queue)
  <2>1. CASE Generated(t)
    <3>1. t \in 0..Total /\ Put(t) /\ task[t] = "gen" /\ task'[t] = "put"
      BY <1>0, <2>1, Terms DEF Generated
    <3>2. Real(queue') <= Real(queue) + One(t # End) /\ One(t # End) \in 0..1
      BY <1>0, <3>1, PutCount DEF CountInv, One
    <3>3. Generating' = Generating \ {t} /\ t \in Generating
      BY <1>0, <3>1 DEF Generating
    <3>4. Cardinality(Generating') = Cardinality(Generating) - 1
      BY <1>1, <3>3, FS_RemoveElement
    <3>5. Real(queue') \in Nat
      BY <1>0, QueueTerms DEF TypeOK
    <3> QED BY <1>1, <3>2, <3>4, <3>5
  <2>2. CASE TaskEnds(t) \/ TaskRaises(t)
    <3>1. UNCHANGED queue
      BY <2>2 DEF TaskEnds, TaskRaises, queueVars
    <3> QED BY <1>1, <1>4, <3>1
  <2> QED BY <2>1, <2>2 DEF Task
<1>6. One(proc = "slot")' = One(proc = "slot")
  BY <1>0
<1>7. Outstanding' \in Int /\ Outstanding' <= Outstanding
  BY <1>1, <1>2, <1>4, <1>5, <1>6
<1> QED BY <1>0, <1>3, <1>7, NotMore

\* The end signal is not counted, and the trainer takes from the queue.
LEMMA QueueFresh ==
  ASSUME Struct, Struct', CountInv, Freshness, SendEnd \/ Collect
  PROVE  Freshness'
<1>0. /\ TypeOK /\ TypeOK' /\ UNCHANGED <<snap, lock, staleness, task>> /\ End \in 0..Total
      /\ (proc' = "slot" => proc = "slot") /\ (proc' = "get" => proc = "get")
  BY AsyncAssumption DEF Struct, SendEnd, Collect, procVars, trainVars, ctlVars, End
<1>1. /\ Outstanding = Cardinality(Generating) + Real(queue) + One(proc = "slot")
      /\ Cardinality(Generating) \in Nat /\ Real(queue) \in Nat
  BY <1>0, Waiting
<1>2. Outstanding' = Cardinality(Generating)' + Real(queue)' + One(proc = "slot")'
  BY DEF Outstanding, Generating, Real
<1>3. Generating' = Generating
  BY <1>0 DEF Generating
<1>4. One(proc = "slot") \in 0..1 /\ One(proc = "slot")' \in 0..1
      /\ One(proc = "slot")' <= One(proc = "slot")
  BY <1>0 DEF One
<1>5. Real(queue)' \in Nat /\ Real(queue)' <= Real(queue)
  <2>0. Real(queue') \in Nat
    BY <1>0, QueueTerms DEF TypeOK
  <2>1. CASE SendEnd
    <3>1. Put(End)
      BY <2>1 DEF SendEnd
    <3>2. Real(queue') <= Real(queue) + One(End # End)
      BY <1>0, <3>1, PutCount DEF CountInv
    <3>3. One(End # End) = 0
      BY DEF One
    <3> QED BY <1>1, <2>0, <3>2, <3>3
  <2>2. CASE Collect
    <3>1. queue \in Seq(0..Total) /\ queue # <<>> /\ queue' = Tail(queue)
      BY <1>0, <2>2 DEF Collect, TypeOK
    <3>2. /\ Head(queue) # End => Real(queue') = Real(queue) - 1
          /\ Head(queue) = End => Real(queue') = Real(queue)
      BY <3>1, TailCount
    <3> QED BY <1>1, <2>0, <3>2
  <2> QED BY <2>1, <2>2
<1>6. Outstanding' \in Int /\ Outstanding' <= Outstanding
  BY <1>1, <1>2, <1>3, <1>4, <1>5
<1> QED BY <1>0, <1>3, <1>6, NotMore

\* reset_staleness counts the tasks first and the queue after: what a task puts
\* in between is counted twice or not missed.
LEMMA ResetFresh ==
  ASSUME Struct, Freshness, ResetStaleness \/ ResetStalenessEnd
  PROVE  Freshness'
<1>0. TypeOK /\ UNCHANGED <<queue, task, proc>>
  BY DEF Struct, ResetStaleness, ResetStalenessEnd, queueVars, procVars
<1>1. /\ Outstanding = Cardinality(Generating) + Real(queue) + One(proc = "slot")
      /\ Cardinality(Generating) \in Nat /\ Real(queue) \in Nat /\ IsFiniteSet(Generating)
      /\ One(proc = "slot") \in Nat /\ Outstanding \in Nat /\ Real(queue) <= Len(queue)
      /\ Len(queue) \in Nat
  BY <1>0, Waiting
<1>2. Outstanding' = Outstanding
  BY <1>0 DEF Outstanding
<1>3. CASE ResetStaleness
  <2>1. staleness' = staleness /\ snap' = Cardinality(Active)
    BY <1>3 DEF ResetStaleness
  <2>2. Cardinality(Generating) <= Cardinality(Active)
    <3>1. Generating \subseteq Active /\ Active \subseteq Samples
      BY DEF Generating, Active
    <3>2. IsFiniteSet(Active)
      BY <1>0, <3>1, Terms, FS_Subset
    <3> QED BY <3>1, <3>2, FS_Subset
  <2>3. Generating' = Generating
    BY <1>0 DEF Generating
  <2>4. Cardinality({s \in Samples : task[s] = "gen"})' <= snap'
    BY <2>1, <2>2, <2>3 DEF Generating
  <2> QED BY <1>0, <1>2, <2>1, <2>4 DEF Freshness, OutstandingBound
<1>4. CASE ResetStalenessEnd
  <2>1. lock = "trainer" /\ lock' = "free" /\ staleness' = snap + Len(queue) /\ snap \in Nat
    BY <1>0, <1>4 DEF ResetStalenessEnd, TypeOK
  <2>2. Cardinality(Generating) <= snap
    BY <2>1 DEF Freshness, Generating
  <2>3. One(proc = "slot") <= 1
    BY DEF One
  <2>4. Outstanding <= snap + Len(queue) + 1
    BY <1>1, <2>1, <2>2, <2>3
  <2> QED BY <1>0, <1>2, <2>1, <2>4 DEF Freshness, OutstandingBound
<1> QED BY <1>3, <1>4

\* The start.
LEMMA InitFresh == Init => Freshness
<1> SUFFICES ASSUME Init PROVE Freshness
  OBVIOUS
<1>0. TypeOK /\ queue = <<>> /\ proc = "check" /\ staleness = 0 /\ lock = "free"
      /\ \A s \in Samples : task[s] = "no"
  BY InitStruct DEF Init, Struct
<1>1. Generating = {}
  BY <1>0 DEF Generating
<1>2. Cardinality(Generating) = 0 /\ Real(queue) = 0 /\ One(proc = "slot") = 0
  BY <1>0, <1>1, FS_EmptySet, OccEmpty DEF One
<1>3. Outstanding = 0
  BY <1>0, <1>2, Waiting
<1> QED BY <1>0, <1>3, AsyncAssumption DEF Freshness, OutstandingBound

\* Every step keeps what waits within the limit.
LEMMA StepFresh == Struct /\ CountInv /\ Freshness /\ [Next]_vars => Freshness'
<1> SUFFICES ASSUME Struct, CountInv, Freshness, [Next]_vars PROVE Freshness'
  OBVIOUS
<1>0. Struct'
  BY StepStruct
<1>1. CASE Processor
  BY <1>0, <1>1, RestFresh, DecideFresh, GetFresh, SubmitFresh, QueueFresh DEF Processor
<1>2. CASE Feeder \/ Monitor \/ Trainer
  BY <1>0, <1>2, RestFresh, QueueFresh, ResetFresh DEF Trainer
<1>3. CASE \E s \in Samples : Task(s) \/ TaskRaises(s)
  BY <1>0, <1>3, TaskFresh
<1>4. CASE UNCHANGED vars
  BY <1>4, RestFresh
<1> QED BY <1>1, <1>2, <1>3, <1>4 DEF Next

\* Freshness: the samples that wait for the trainer exceed max_required_samples
\* by at most one, although the processor counts staleness_samples without the
\* lock and reset_staleness forgets the sample in the processor's hand.
THEOREM WaitingIsBounded == Spec => []OutstandingBound
<1>1. Init => Struct /\ CountInv /\ Freshness
  BY InitStruct, InitCount, InitFresh
<1>2. Struct /\ CountInv /\ Freshness /\ [Next]_vars => (Struct /\ CountInv /\ Freshness)'
  BY StepStruct, StepCount, StepFresh
<1>3. Struct /\ CountInv /\ Freshness => OutstandingBound
  BY DEF Freshness
<1> QED BY <1>1, <1>2, <1>3, PTL DEF Spec
=============================================================================
