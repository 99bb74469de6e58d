-------------------------- MODULE AgentBatchProofs --------------------------
(***************************************************************************)
(* Proofs about AgentBatch for every number of workers and samples and     *)
(* every configuration. RowsUsable is not inductive by itself: it needs    *)
(* that a finished sample has made its mandatory passes (PassInv) and that *)
(* a worker which has answered has no sample still running (WorkerInv).    *)
(* GatesRedistribute rests on the arithmetic of sums over finite sets.     *)
(***************************************************************************)
EXTENDS AgentBatch, FiniteSetTheorems, TLAPS

\* A sample on its way holds or still owes every mandatory pass, and no pass is
\* made for a validation batch.
PassInv ==
  \A s \in Slots :
    /\ got[s] \cup todo[s] \subseteq Mandatory \cup Optional
    /\ pc[s] = "build" => ~validate
    /\ pc[s] = "pass" => ~validate /\ Mandatory \subseteq got[s] \cup todo[s]
    /\ pc[s] = "done" => validate \/ Mandatory \subseteq got[s]
    /\ validate => got[s] = {}

\* A worker that has answered is settled; one that retries has failed elsewhere.
WorkerInv ==
  \A w \in Workers :
    /\ wpc[w] \in {"replied", "raised"} => Settled(w)
    /\ wpc[w] = "retry" => \A k \in Places : k # 1 => pc[<<w, k>>] = "failed"

\* A batch is put together from the answers of all workers; a step that crashes
\* has them all too, or a worker that raised.
StepInv ==
  /\ step \in {"batched", "gated"} => \A w \in Workers : wpc[w] = "replied"
  /\ step = "crashed" => \/ \E w \in Workers : wpc[w] = "raised"
                         \/ \A w \in Workers : wpc[w] = "replied"

IInv == TypeOK /\ PassInv /\ WorkerInv /\ StepInv /\ RowsUsable
          /\ RaisesOnlyIfAllFailed /\ CrashExplained

\* F names a finished sample for every row of w's chunk, a finished row's own.
Covers(w, F) ==
  \A k \in Places : /\ F[k] \in Places
                    /\ pc[<<w, F[k]>>] = "done"
                    /\ pc[<<w, k>>] = "done" => F[k] = k

-----------------------------------------------------------------------------
\* The passes a sample makes are passes, and no mandatory one is optional.
LEMMA MandatoryPasses == Mandatory \cup Optional \subseteq Passes /\ Mandatory \cap Optional = {}
BY DEF Mandatory, Optional, Passes

\* A slot is a worker and a place of its chunk, whose first place exists.
LEMMA SlotPairs ==
  /\ \A s \in Slots : s[1] \in Workers /\ s[2] \in Places /\ s = <<s[1], s[2]>>
  /\ \A w \in Workers, k \in Places : <<w, k>> \in Slots
  /\ 1 \in Places
BY BatchAssumption DEF Slots, Places

\* WeightOf is a side of 1.
LEMMA WeightShape ==
  ASSUME NEW g, NEW s
  PROVE  WeightOf(g, s) \in {"down", "one", "up"}
BY DEF WeightOf

\* The initial state: nothing has been answered.
LEMMA InitInv == Init => IInv
<1> SUFFICES ASSUME Init PROVE IInv
  OBVIOUS
<1>1. TypeOK
  BY BatchAssumption DEF Init, TypeOK
<1>2. PassInv
  BY DEF Init, PassInv
<1>3. WorkerInv /\ StepInv /\ RowsUsable /\ RaisesOnlyIfAllFailed /\ CrashExplained
  BY DEF Init, WorkerInv, StepInv, RowsUsable, RaisesOnlyIfAllFailed, CrashExplained
<1> QED
  BY <1>1, <1>2, <1>3 DEF IInv

\* What a sample that is still under way (_run_agent_loop, its teacher passes)
\* does to itself keeps the invariant, if it keeps the sample's own part of it:
\* its worker has not answered, and no row is filled from it.
LEMMA SampleKeeps ==
  ASSUME IInv, NEW s \in Slots, pc[s] \in {"run", "build", "pass"},
         NEW x \in {"run", "build", "pass", "done", "failed"},
         NEW T \in SUBSET (Mandatory \cup Optional),
         NEW G \in SUBSET (Mandatory \cup Optional),
         pc' = [pc EXCEPT ![s] = x],
         todo' = [todo EXCEPT ![s] = T],
         got' = [got EXCEPT ![s] = G],
         utility' \in [Optional -> [Slots -> Int]],
         UNCHANGED <<validate, wpc, src, step, weight>>,
         x = "build" => ~validate,
         x = "pass" => ~validate /\ Mandatory \subseteq G \cup T,
         x = "done" => validate \/ Mandatory \subseteq G,
         validate => G = {}
  PROVE  IInv'
<1> USE SlotPairs
<1>1. TypeOK'
  BY MandatoryPasses DEF IInv, TypeOK
<1>2. PassInv'
  BY DEF IInv, TypeOK, PassInv
<1>3. wpc[s[1]] \in {"gather", "retry"}
  <2>1. s[1] \in Workers /\ s[2] \in Places /\ pc[<<s[1], s[2]>>] \notin {"done", "failed"}
    OBVIOUS
  <2>2. ~Settled(s[1])
    BY <2>1 DEF Settled
  <2> QED
    BY <2>1, <2>2 DEF IInv, TypeOK, WorkerInv
<1>4. wpc[s[1]] = "retry" => s[2] = 1
  BY DEF IInv, WorkerInv
<1>5. \A w \in Workers, k \in Places : w # s[1] =>
        pc'[<<w, k>>] = pc[<<w, k>>] /\ got'[<<w, k>>] = got[<<w, k>>]
  BY DEF IInv, TypeOK
<1>6. \A k \in Places : k # s[2] => pc'[<<s[1], k>>] = pc[<<s[1], k>>]
  BY DEF IInv, TypeOK
<1>7. WorkerInv'
  <2> SUFFICES ASSUME NEW w \in Workers
      PROVE  /\ wpc[w] \in {"replied", "raised"} =>
                  \A k \in Places : pc'[<<w, k>>] \in {"done", "failed"}
             /\ wpc[w] = "retry" => \A k \in Places : k # 1 => pc'[<<w, k>>] = "failed"
    BY DEF WorkerInv, Settled
  <2>1. CASE w = s[1]
    BY <2>1, <1>3, <1>4, <1>6 DEF IInv, WorkerInv
  <2>2. CASE w # s[1]
    BY <2>2, <1>5 DEF IInv, WorkerInv, Settled
  <2> QED
    BY <2>1, <2>2
<1>8. StepInv'
  BY DEF IInv, StepInv
<1>9. RowsUsable'
  <2> SUFFICES ASSUME NEW w \in Workers, wpc[w] = "replied", NEW k \in Places
      PROVE  /\ src[<<w, k>>] \in Places
             /\ pc'[<<w, src[<<w, k>>]>>] = "done"
             /\ validate \/ Mandatory \subseteq got'[<<w, src[<<w, k>>]>>]
             /\ pc'[<<w, k>>] = "done" => src[<<w, k>>] = k
    BY DEF RowsUsable, Origin
  <2>1. w # s[1]
    BY <1>3
  <2>2. /\ src[<<w, k>>] \in Places
        /\ pc[<<w, src[<<w, k>>]>>] = "done"
        /\ validate \/ Mandatory \subseteq got[<<w, src[<<w, k>>]>>]
        /\ pc[<<w, k>>] = "done" => src[<<w, k>>] = k
    BY DEF IInv, RowsUsable, Origin
  <2> QED
    BY <2>1, <2>2, <1>5
<1>10. RaisesOnlyIfAllFailed'
  BY <1>3, <1>5 DEF IInv, RaisesOnlyIfAllFailed
<1>11. CrashExplained'
  BY <1>3 DEF IInv, StepInv, CrashExplained
<1> QED
  BY <1>1, <1>2, <1>7, <1>8, <1>9, <1>10, <1>11 DEF IInv

\* Every step of a sample keeps the invariant.
LEMMA SampleInv ==
  ASSUME IInv, NEW s \in Slots, SampleStep(s)
  PROVE  IInv'
<1> USE DEF IInv
<1>0. /\ pc \in [Slots -> {"run", "build", "pass", "done", "failed"}]
      /\ todo \in [Slots -> SUBSET Passes] /\ got \in [Slots -> SUBSET Passes]
      /\ utility \in [Optional -> [Slots -> Int]]
      /\ got[s] \in SUBSET (Mandatory \cup Optional)
      /\ todo[s] \in SUBSET (Mandatory \cup Optional)
  BY DEF TypeOK, PassInv
<1>a. todo = [todo EXCEPT ![s] = todo[s]] /\ got = [got EXCEPT ![s] = got[s]]
  BY <1>0
<1>b. validate => got[s] = {}
  BY DEF PassInv
<1>1. CASE Run(s)
  <2> DEFINE x == IF validate THEN "done" ELSE "build"
  <2>1. pc[s] = "run" /\ pc' = [pc EXCEPT ![s] = x]
    BY <1>1 DEF Run
  <2>2. todo' = [todo EXCEPT ![s] = todo[s]] /\ got' = [got EXCEPT ![s] = got[s]]
    BY <1>1, <1>a DEF Run
  <2>3. utility' \in [Optional -> [Slots -> Int]] /\ UNCHANGED <<validate, wpc, src, step, weight>>
    BY <1>1, <1>0 DEF Run
  <2>4. /\ x \in {"run", "build", "pass", "done", "failed"}
        /\ x = "build" => ~validate
        /\ x # "pass"
        /\ x = "done" => validate
    OBVIOUS
  <2> HIDE DEF x, IInv
  <2> QED
    BY <2>1, <2>2, <2>3, <2>4, <1>0, <1>b, SampleKeeps
<1>2. CASE RunFails(s)
  <2>2. todo' = [todo EXCEPT ![s] = todo[s]] /\ got' = [got EXCEPT ![s] = got[s]]
    BY <1>2, <1>a DEF RunFails
  <2>3. utility' \in [Optional -> [Slots -> Int]] /\ UNCHANGED <<validate, wpc, src, step, weight>>
    BY <1>2, <1>0 DEF RunFails
  <2> HIDE DEF IInv
  <2> QED
    BY <1>2, <2>2, <2>3, <1>0, <1>b, SampleKeeps DEF RunFails
<1>3. CASE Build(s)
  <2>1. PICK T \in SUBSET (Mandatory \cup Optional) :
          Mandatory \subseteq T /\ todo' = [todo EXCEPT ![s] = T]
    BY <1>3 DEF Build, Optional
  <2>2. got' = [got EXCEPT ![s] = got[s]]
    BY <1>3, <1>a DEF Build
  <2>3. utility' \in [Optional -> [Slots -> Int]] /\ UNCHANGED <<validate, wpc, src, step, weight>>
    BY <1>3, <1>0 DEF Build
  <2>4. pc[s] = "build" /\ pc' = [pc EXCEPT ![s] = "pass"] /\ ~validate
    BY <1>3 DEF Build, PassInv
  <2> HIDE DEF IInv
  <2> QED
    BY <2>1, <2>2, <2>3, <2>4, <1>0, <1>b, SampleKeeps
<1>4. CASE PassReturns(s)
  <2>1. pc[s] = "pass" /\ ~validate /\ Mandatory \subseteq got[s] \cup todo[s]
    BY <1>4 DEF PassReturns, PassInv
  <2>2. PICK p \in Passes :
          /\ p \in todo[s]
          /\ got' = [got EXCEPT ![s] = @ \cup {p}]
          /\ todo' = [todo EXCEPT ![s] = @ \ {p}]
          /\ pc' = [pc EXCEPT ![s] = AfterPass(s, p)]
          /\ IF p \in Optional
               THEN \E u \in Utilities : utility' = [utility EXCEPT ![p][s] = u]
               ELSE utility' = utility
    BY <1>4 DEF PassReturns, NextPass
  <2> DEFINE G == got[s] \cup {p}
             T == todo[s] \ {p}
             x == AfterPass(s, p)
  <2>3. utility' \in [Optional -> [Slots -> Int]]
    BY <2>2, <1>0, BatchAssumption
  <2>4. got' = [got EXCEPT ![s] = G] /\ todo' = [todo EXCEPT ![s] = T]
    BY <2>2, <1>0
  <2>5. G \in SUBSET (Mandatory \cup Optional) /\ T \in SUBSET (Mandatory \cup Optional)
    BY <2>2, <1>0
  <2>6. Mandatory \subseteq G \cup T
    BY <2>1
  <2>7. x \in {"run", "build", "pass", "done", "failed"} /\ x # "build"
        /\ (x = "done" => Mandatory \subseteq G)
    BY <2>1 DEF AfterPass
  <2>8. UNCHANGED <<validate, wpc, src, step, weight>> /\ pc' = [pc EXCEPT ![s] = x]
    BY <1>4, <2>2 DEF PassReturns
  <2> HIDE DEF IInv, G, T, x
  <2> QED
    BY <2>1, <2>3, <2>4, <2>5, <2>6, <2>7, <2>8, SampleKeeps
<1>5. CASE PassFails(s)
  <2>1. pc[s] = "pass" /\ ~validate /\ Mandatory \subseteq got[s] \cup todo[s]
    BY <1>5 DEF PassFails, PassInv
  <2>2. PICK p \in Passes :
          /\ p \in todo[s]
          /\ todo' = [todo EXCEPT ![s] = @ \ {p}]
          /\ pc' = [pc EXCEPT ![s] = IF p \in Optional THEN AfterPass(s, p) ELSE "failed"]
    BY <1>5 DEF PassFails, NextPass
  <2> DEFINE T == todo[s] \ {p}
             x == IF p \in Optional THEN AfterPass(s, p) ELSE "failed"
  <2>3. got' = [got EXCEPT ![s] = got[s]] /\ todo' = [todo EXCEPT ![s] = T]
    BY <1>5, <2>2, <1>0, <1>a DEF PassFails
  <2>4. T \in SUBSET (Mandatory \cup Optional)
    BY <1>0
  <2>5. p \in Optional => Mandatory \subseteq got[s] \cup T
    BY <2>1, MandatoryPasses
  <2>6. /\ x \in {"run", "build", "pass", "done", "failed"} /\ x # "build"
        /\ x = "pass" => Mandatory \subseteq got[s] \cup T
        /\ x = "done" => Mandatory \subseteq got[s]
    BY <2>5 DEF AfterPass
  <2>7. UNCHANGED <<validate, wpc, src, step, weight>> /\ pc' = [pc EXCEPT ![s] = x]
    BY <1>5, <2>2 DEF PassFails
  <2>8. utility' \in [Optional -> [Slots -> Int]]
    BY <1>5, <1>0 DEF PassFails
  <2> HIDE DEF IInv, T, x
  <2> QED
    BY <2>1, <2>3, <2>4, <2>6, <2>7, <2>8, <1>0, SampleKeeps
<1> QED
  BY <1>1, <1>2, <1>3, <1>4, <1>5 DEF SampleStep

\* An answer to the manager, filling the chunk's rows or raising, keeps the
\* invariant: the rows of one worker's chunk are filled once, from its finished
\* samples.
LEMMA AnswerKeeps ==
  ASSUME IInv, NEW w \in Workers, wpc[w] \in {"gather", "retry"}, Settled(w),
         NEW a \in {"replied", "raised"}, NEW F \in [Places -> 0..ChunkSize],
         a = "replied" => Covers(w, F),
         a = "raised" => \A k \in Places : pc[<<w, k>>] = "failed",
         src' = [s \in Slots |-> IF s[1] = w THEN F[s[2]] ELSE src[s]],
         wpc' = [wpc EXCEPT ![w] = a],
         UNCHANGED <<validate, pc, todo, got, utility, step, weight>>
  PROVE  IInv'
<1> USE SlotPairs
<1>1. TypeOK'
  BY DEF IInv, TypeOK
<1>2. PassInv'
  BY DEF IInv, PassInv
<1>3. wpc'[w] = a /\ \A v \in Workers : v # w => wpc'[v] = wpc[v]
  BY DEF IInv, TypeOK
<1>4. WorkerInv'
  BY <1>3 DEF IInv, WorkerInv, Settled
<1>5. step \in {"batched", "gated", "crashed"} => step = "crashed" /\ \E v \in Workers : wpc[v] = "raised"
  BY DEF IInv, StepInv
<1>6. step = "crashed" => \E v \in Workers : wpc'[v] = "raised"
  BY <1>3, <1>5
<1>7. StepInv' /\ CrashExplained'
  BY <1>5, <1>6 DEF IInv, StepInv, CrashExplained
<1>8. RowsUsable'
  <2> SUFFICES ASSUME NEW v \in Workers, wpc'[v] = "replied", NEW k \in Places
      PROVE  /\ src'[<<v, k>>] \in Places
             /\ pc[<<v, src'[<<v, k>>]>>] = "done"
             /\ validate \/ Mandatory \subseteq got[<<v, src'[<<v, k>>]>>]
             /\ pc[<<v, k>>] = "done" => src'[<<v, k>>] = k
    BY DEF RowsUsable, Origin
  <2>1. CASE v = w
    <3>1. src'[<<v, k>>] = F[k] /\ a = "replied"
      BY <2>1, <1>3
    <3>2. F[k] \in Places /\ <<v, F[k]>> \in Slots /\ pc[<<v, F[k]>>] = "done"
      BY <2>1, <3>1 DEF Covers
    <3>3. validate \/ Mandatory \subseteq got[<<v, F[k]>>]
      BY <3>2 DEF IInv, PassInv
    <3> QED
      BY <2>1, <3>1, <3>2, <3>3 DEF Covers
  <2>2. CASE v # w
    <3>1. src'[<<v, k>>] = src[<<v, k>>] /\ wpc[v] = "replied"
      BY <2>2, <1>3
    <3> QED
      BY <3>1 DEF IInv, RowsUsable, Origin
  <2> QED
    BY <2>1, <2>2
<1>9. RaisesOnlyIfAllFailed'
  BY <1>3 DEF IInv, RaisesOnlyIfAllFailed
<1> QED
  BY <1>1, <1>2, <1>4, <1>7, <1>8, <1>9 DEF IInv

\* Substituting the failed samples (generate_sequences) keeps the invariant.
LEMMA FillInv ==
  ASSUME IInv, NEW w \in Workers, Fill(w)
  PROVE  IInv'
<1>1. PICK first \in Good(w) :
        src' = [s \in Slots |-> IF s[1] = w THEN FillOf(w, s[2], first) ELSE src[s]]
  BY DEF Fill
<1> DEFINE F == [k \in Places |-> FillOf(w, k, first)]
<1>2. Covers(w, F)
  BY DEF FillOf, Good, Covers
<1>3. F \in [Places -> 0..ChunkSize]
  <2>1. Places \subseteq 0..ChunkSize
    BY BatchAssumption DEF Places
  <2>2. \A k \in Places : FillOf(w, k, first) \in Places
    BY DEF FillOf, Good
  <2> QED
    BY <2>1, <2>2
<1>4. src' = [s \in Slots |-> IF s[1] = w THEN F[s[2]] ELSE src[s]]
  BY <1>1, SlotPairs
<1>5. /\ wpc[w] = "gather" /\ Settled(w) /\ wpc' = [wpc EXCEPT ![w] = "replied"]
      /\ UNCHANGED <<validate, pc, todo, got, utility, step, weight>>
  BY DEF Fill
<1> HIDE DEF F
<1> QED
  BY <1>2, <1>3, <1>4, <1>5, AnswerKeeps

\* Starting the text-only retry of the first sample keeps the invariant.
LEMMA StartRetryInv ==
  ASSUME IInv, NEW w \in Workers, StartRetry(w)
  PROVE  IInv'
<1> USE SlotPairs
<1>0. /\ wpc[w] = "gather" /\ wpc' = [wpc EXCEPT ![w] = "retry"]
      /\ pc' = [pc EXCEPT ![<<w, 1>>] = "run"]
      /\ got' = [got EXCEPT ![<<w, 1>>] = {}]
      /\ todo' = [todo EXCEPT ![<<w, 1>>] = {}]
      /\ utility' = [g \in Optional |-> [utility[g] EXCEPT ![<<w, 1>>] = 0]]
      /\ UNCHANGED <<validate, src, step, weight>>
      /\ \A k \in Places : pc[<<w, k>>] = "failed"
  BY DEF StartRetry, Settled, Good
<1>1. TypeOK'
  BY <1>0 DEF IInv, TypeOK
<1>2. PassInv'
  BY <1>0 DEF IInv, TypeOK, PassInv
<1>3. wpc'[w] = "retry" /\ \A v \in Workers : v # w => wpc'[v] = wpc[v]
  BY <1>0 DEF IInv, TypeOK
<1>4. \A v \in Workers, k \in Places : v # w \/ k # 1 =>
        pc'[<<v, k>>] = pc[<<v, k>>] /\ got'[<<v, k>>] = got[<<v, k>>]
  BY <1>0 DEF IInv, TypeOK
<1>5. WorkerInv'
  BY <1>0, <1>3, <1>4 DEF IInv, WorkerInv, Settled
<1>6. step \in {"batched", "gated", "crashed"} => step = "crashed" /\ \E v \in Workers : wpc[v] = "raised"
  BY <1>0 DEF IInv, StepInv
<1>7. step = "crashed" => \E v \in Workers : wpc'[v] = "raised"
  BY <1>0, <1>3, <1>6
<1>8. StepInv' /\ CrashExplained'
  BY <1>0, <1>6, <1>7 DEF IInv, StepInv, CrashExplained
<1>9. RowsUsable'
  <2> SUFFICES ASSUME NEW v \in Workers, wpc'[v] = "replied", NEW k \in Places
      PROVE  /\ src'[<<v, k>>] \in Places
             /\ pc'[<<v, src'[<<v, k>>]>>] = "done"
             /\ validate' \/ Mandatory \subseteq got'[<<v, src'[<<v, k>>]>>]
             /\ pc'[<<v, k>>] = "done" => src'[<<v, k>>] = k
    BY DEF RowsUsable, Origin
  <2>1. v # w /\ wpc[v] = "replied" /\ src' = src /\ validate' = validate
    BY <1>0, <1>3
  <2>2. /\ src[<<v, k>>] \in Places
        /\ pc[<<v, src[<<v, k>>]>>] = "done"
        /\ validate \/ Mandatory \subseteq got[<<v, src[<<v, k>>]>>]
        /\ pc[<<v, k>>] = "done" => src[<<v, k>>] = k
    BY <2>1 DEF IInv, RowsUsable, Origin
  <2> QED
    BY <2>1, <2>2, <1>4
<1>10. RaisesOnlyIfAllFailed'
  BY <1>0, <1>3, <1>4 DEF IInv, RaisesOnlyIfAllFailed
<1> QED
  BY <1>1, <1>2, <1>5, <1>8, <1>9, <1>10 DEF IInv

\* Filling the chunk from the retry keeps the invariant.
LEMMA FillAllInv ==
  ASSUME IInv, NEW w \in Workers, FillAll(w)
  PROVE  IInv'
<1> DEFINE F == [k \in Places |-> 1]
<1>1. /\ wpc[w] = "retry" /\ pc[<<w, 1>>] = "done"
      /\ wpc' = [wpc EXCEPT ![w] = "replied"]
      /\ UNCHANGED <<validate, pc, todo, got, utility, step, weight>>
  BY DEF FillAll
<1>2. \A k \in Places : k # 1 => pc[<<w, k>>] = "failed"
  BY <1>1 DEF IInv, WorkerInv
<1>3. Settled(w)
  BY <1>1, <1>2 DEF Settled
<1>4. Covers(w, F)
  BY <1>1, <1>2, SlotPairs DEF Covers
<1>5. F \in [Places -> 0..ChunkSize]
  BY BatchAssumption DEF Places
<1>6. src' = [s \in Slots |-> IF s[1] = w THEN F[s[2]] ELSE src[s]]
  BY SlotPairs DEF FillAll
<1> HIDE DEF F
<1> QED
  BY <1>1, <1>3, <1>4, <1>5, <1>6, AnswerKeeps

\* Raising the first sample's exception keeps the invariant.
LEMMA ReraiseInv ==
  ASSUME IInv, NEW w \in Workers, Reraise(w)
  PROVE  IInv'
<1> DEFINE F == [k \in Places |-> src[<<w, k>>]]
<1>1. /\ wpc[w] = "retry" /\ pc[<<w, 1>>] = "failed"
      /\ wpc' = [wpc EXCEPT ![w] = "raised"]
      /\ UNCHANGED <<validate, pc, todo, got, utility, src, step, weight>>
  BY DEF Reraise
<1>2. \A k \in Places : pc[<<w, k>>] = "failed"
  BY <1>1 DEF IInv, WorkerInv
<1>3. Settled(w)
  BY <1>2 DEF Settled
<1>4. F \in [Places -> 0..ChunkSize]
  BY SlotPairs DEF IInv, TypeOK
<1>5. src' = [s \in Slots |-> IF s[1] = w THEN F[s[2]] ELSE src[s]]
  BY <1>1, SlotPairs DEF IInv, TypeOK
<1> HIDE DEF F
<1> QED
  BY <1>1, <1>2, <1>3, <1>4, <1>5, AnswerKeeps

\* The manager's concatenation keeps the invariant: the workers' keys can differ
\* only in an optional pass, as a validation batch has none and in any other
\* batch every row has all the mandatory ones.
LEMMA ConcatInv ==
  ASSUME IInv, Concat
  PROVE  IInv'
<1> USE SlotPairs
<1>0. /\ \A w \in Workers : wpc[w] = "replied"
      /\ step' = (IF \A v, w \in Workers : Keys(v) = Keys(w) THEN "batched" ELSE "crashed")
      /\ UNCHANGED <<validate, pc, todo, got, utility, wpc, src, weight>>
  BY DEF Concat
<1>1. TypeOK'
  BY <1>0 DEF IInv, TypeOK
<1>2. PassInv' /\ WorkerInv' /\ RowsUsable' /\ RaisesOnlyIfAllFailed'
  BY <1>0 DEF IInv, PassInv, WorkerInv, Settled, RowsUsable, Origin, RaisesOnlyIfAllFailed
<1>3. StepInv'
  BY <1>0 DEF StepInv
<1>4. \A w \in Workers : /\ Origin(<<w, 1>>) \in Slots
                         /\ validate \/ Mandatory \subseteq got[Origin(<<w, 1>>)]
  BY <1>0 DEF IInv, RowsUsable, Origin
<1>5. \A v, w \in Workers : \A p \in Passes \ Optional :
        p \in got[Origin(<<v, 1>>)] => p \in got[Origin(<<w, 1>>)]
  BY <1>4 DEF IInv, PassInv
<1>6. ASSUME NEW v \in Workers, NEW w \in Workers, Keys(v) # Keys(w)
      PROVE  \E p \in Optional, x, y \in Workers :
               /\ \E k \in Places : p \in got[Origin(<<x, k>>)]
               /\ \A k \in Places : p \notin got[Origin(<<y, k>>)]
  <2>1. {p \in Passes \ Optional : p \in got[Origin(<<v, 1>>)]}
          = {p \in Passes \ Optional : p \in got[Origin(<<w, 1>>)]}
    BY <1>5
  <2>2. {p \in Optional : \E k \in Places : p \in got[Origin(<<v, k>>)]}
          # {p \in Optional : \E k \in Places : p \in got[Origin(<<w, k>>)]}
    BY <1>6, <2>1 DEF Keys
  <2> QED
    BY <2>2
<1>7. CrashExplained'
  BY <1>0, <1>6 DEF CrashExplained, Origin
<1> QED
  BY <1>1, <1>2, <1>3, <1>7 DEF IInv

\* A worker's exception and the gates change nothing the samples hold.
LEMMA TrainerInv ==
  ASSUME IInv, WorkerRaised \/ ComputeGates
  PROVE  IInv'
<1>1. CASE WorkerRaised
  <2>1. TypeOK'
    BY <1>1 DEF IInv, TypeOK, WorkerRaised
  <2>2. PassInv' /\ WorkerInv' /\ RowsUsable' /\ RaisesOnlyIfAllFailed'
    BY <1>1 DEF IInv, WorkerRaised, PassInv, WorkerInv, Settled, RowsUsable, Origin,
                RaisesOnlyIfAllFailed
  <2>3. StepInv' /\ CrashExplained'
    BY <1>1 DEF WorkerRaised, StepInv, CrashExplained
  <2> QED
    BY <2>1, <2>2, <2>3 DEF IInv
<1>2. CASE ComputeGates
  <2>1. TypeOK'
    <3>1. weight' \in [Optional -> [Slots -> {"down", "one", "up"}]]
      BY <1>2, WeightShape DEF ComputeGates
    <3> QED
      BY <1>2, <3>1 DEF IInv, TypeOK, ComputeGates
  <2>2. PassInv' /\ WorkerInv' /\ RowsUsable' /\ RaisesOnlyIfAllFailed'
    BY <1>2 DEF IInv, ComputeGates, PassInv, WorkerInv, Settled, RowsUsable, Origin,
                RaisesOnlyIfAllFailed
  <2>3. StepInv' /\ CrashExplained'
    BY <1>2 DEF IInv, ComputeGates, StepInv, CrashExplained
  <2> QED
    BY <2>1, <2>2, <2>3 DEF IInv
<1> QED
  BY <1>1, <1>2

\* A stuttering step changes nothing.
LEMMA StutterInv == ASSUME IInv, UNCHANGED vars PROVE IInv'
<1>1. TypeOK'
  BY DEF IInv, vars, TypeOK
<1>2. PassInv' /\ WorkerInv' /\ StepInv' /\ RaisesOnlyIfAllFailed'
  BY DEF IInv, vars, PassInv, WorkerInv, Settled, StepInv, RaisesOnlyIfAllFailed
<1>3. RowsUsable' /\ CrashExplained'
  BY DEF IInv, vars, RowsUsable, Origin, CrashExplained
<1> QED
  BY <1>1, <1>2, <1>3 DEF IInv

-----------------------------------------------------------------------------
\* The inductive invariant holds in every state of generate_sequences, its
\* workers and the gates computed from their batch.
THEOREM Invariance == Spec => []IInv
<1>1. ASSUME IInv, [Next]_vars PROVE IInv'
  <2>1. CASE \E s \in Slots : SampleStep(s)
    BY <1>1, <2>1, SampleInv
  <2>2. CASE \E w \in Workers : WorkerStep(w)
    BY <1>1, <2>2, FillInv, StartRetryInv, FillAllInv, ReraiseInv DEF WorkerStep
  <2>3. CASE TrainerStep
    BY <1>1, <2>3, ConcatInv, TrainerInv DEF TrainerStep
  <2>4. CASE UNCHANGED vars
    BY <1>1, <2>4, StutterInv
  <2> QED
    BY <1>1, <2>1, <2>2, <2>3, <2>4 DEF Next
<1> QED
  BY <1>1, InitInv, PTL DEF Spec

\* Every variable of the batch keeps its type.
THEOREM TypeCorrect == Spec => []TypeOK
BY Invariance, PTL DEF IInv

\* generate_sequences hands out only rows that a finished sample of the same
\* chunk fills, with every mandatory teacher pass made, and never replaces a
\* sample that finished.
THEOREM RowsAreUsable == Spec => []RowsUsable
BY Invariance, PTL DEF IInv

\* A worker raises only when all its samples, and the retry, have failed.
THEOREM RaiseIsLastResort == Spec => []RaisesOnlyIfAllFailed
BY Invariance, PTL DEF IInv

\* A step is lost only to a worker that raised or to an optional pass that one
\* worker's rows lack altogether.
THEOREM CrashesAreExplained == Spec => []CrashExplained
BY Invariance, PTL DEF IInv

-----------------------------------------------------------------------------
(* The gates. A weight compares a score with the mean of its group, so the *)
(* proof needs what a sum over a set is: at most its size times its        *)
(* greatest score, and less if a score is smaller. The sum is a fold, a    *)
(* recursive function on the subsets; arguments by induction over a finite *)
(* set take a minimal counterexample (MinimalSubset).                      *)

\* Of a family of subsets of a finite set, one has no other below it.
LEMMA MinimalSubset ==
  ASSUME NEW S, IsFiniteSet(S), NEW B \in SUBSET (SUBSET S), B # {}
  PROVE  \E T \in B : \A U \in B : U \subseteq T => U = T
<1>1. IsWellFoundedOn(StrictSubsetOrdering(S), FiniteSubsetsOf(S)) /\ FiniteSubsetsOf(S) = SUBSET S
  BY FS_StrictSubsetOrderingWellFounded, FS_FiniteSubsetsOfFinite
<1>2. B \subseteq SUBSET S
  OBVIOUS
<1>3. \E T \in B : \A U \in B : ~(<<U, T>> \in StrictSubsetOrdering(S))
  BY <1>1, <1>2, WFMin
<1>4. \A U, T \in B : U \subseteq T /\ U # T => <<U, T>> \in StrictSubsetOrdering(S)
  BY <1>2 DEF StrictSubsetOrdering
<1> QED BY <1>3, <1>4

\* A set of natural numbers has a least element.
LEMMA LeastNat ==
  ASSUME NEW N \in SUBSET Nat, N # {}
  PROVE  \E n \in N : \A m \in N : n <= m
<1>1. PICK b \in N : TRUE
  OBVIOUS
<1> DEFINE B == {0..n : n \in {m \in N : m <= b}}
<1>2. IsFiniteSet(0..b)
  BY FS_Interval
<1>3. B \in SUBSET (SUBSET (0..b)) /\ B # {}
  <2>1. \A n \in N : n <= b => 0..n \subseteq 0..b
    OBVIOUS
  <2>2. 0..b \in B
    OBVIOUS
  <2> QED BY <2>1, <2>2
<1>4. PICK T \in B : \A U \in B : U \subseteq T => U = T
  <2> DEFINE I == 0..b
  <2>1. IsFiniteSet(I) /\ B \in SUBSET (SUBSET I) /\ B # {}
    BY <1>2, <1>3
  <2> HIDE DEF B, I
  <2> QED BY <2>1, MinimalSubset
<1>5. PICK n \in N : n <= b /\ T = 0..n
  OBVIOUS
<1>6. ASSUME NEW m \in N, m < n PROVE FALSE
  <2>1. 0..m \in B /\ 0..m \subseteq 0..n
    BY <1>5, <1>6
  <2>2. 0..m = 0..n
    BY <1>4, <1>5, <2>1
  <2>3. n \in 0..n /\ n \notin 0..m
    BY <1>6
  <2> QED BY <2>2, <2>3
<1> QED BY <1>6

\* The element that the fold takes out of a set, and the functions that map
\* each set of a family to the sum of its scores.
Picked(s) == CHOOSE x \in s : TRUE
Sums(g, F, k) ==
  k = [s \in F |-> IF s = {} THEN 0 ELSE Score(g, Picked(s)) + k[s \ {Picked(s)}]]

LEMMA TotalUnfolds ==
  ASSUME NEW g, NEW G
  PROVE  Total(g, G) = (CHOOSE k : Sums(g, SUBSET G, k))[G]
BY DEF Total, MapThenSumSet, MapThenFoldSet, Picked, Sums

\* Taking an element out of a finite set makes it smaller.
LEMMA Smaller ==
  ASSUME NEW s, IsFiniteSet(s), s # {}
  PROVE  /\ Picked(s) \in s
         /\ IsFiniteSet(s \ {Picked(s)})
         /\ Cardinality(s) \in Nat /\ Cardinality(s \ {Picked(s)}) \in Nat
         /\ Cardinality(s) = Cardinality(s \ {Picked(s)}) + 1
<1>1. Picked(s) \in s
  BY DEF Picked
<1>2. IsFiniteSet(s \ {Picked(s)}) /\ Cardinality(s \ {Picked(s)}) = Cardinality(s) - 1
  BY <1>1, FS_RemoveElement
<1>3. Cardinality(s) \in Nat /\ Cardinality(s \ {Picked(s)}) \in Nat
  BY <1>2, FS_CardinalityType
<1> QED BY <1>1, <1>2, <1>3

\* The recursion of the fold has a solution on the subsets of a finite set.
LEMMA SumsExist ==
  ASSUME NEW g, NEW G, IsFiniteSet(G)
  PROVE  \E k : Sums(g, SUBSET G, k)
<1> DEFINE F(n) == {s \in SUBSET G : Cardinality(s) <= n}
           N == {n \in Nat : ~\E k : Sums(g, F(n), k)}
<1>0. \A s \in SUBSET G : IsFiniteSet(s) /\ Cardinality(s) \in Nat
  BY FS_Subset, FS_CardinalityType
<1>1. SUFFICES N = {}
  <2>1. Cardinality(G) \in Nat /\ F(Cardinality(G)) = SUBSET G
    BY <1>0, FS_Subset, FS_CardinalityType
  <2> QED BY <2>1
<1>2. SUFFICES ASSUME N # {} PROVE FALSE
  OBVIOUS
<1>3. PICK n \in N : \A m \in N : n <= m
  <2>1. N \in SUBSET Nat
    OBVIOUS
  <2> HIDE DEF N
  <2> QED BY <1>2, <2>1, LeastNat
<1>4. CASE n = 0
  <2> DEFINE k == [s \in F(0) |-> 0]
  <2>1. \A s \in F(0) : s = {}
    BY <1>0, FS_EmptySet
  <2>2. Sums(g, F(0), k)
    BY <2>1 DEF Sums
  <2> QED BY <1>4, <2>2
<1>5. CASE n # 0
  <2>0. n \in Nat /\ n - 1 \in Nat /\ n - 1 \notin N
    <3>1. N \subseteq Nat
      OBVIOUS
    <3> HIDE DEF N
    <3> QED BY <1>3, <1>5, <3>1
  <2>1. PICK h : Sums(g, F(n - 1), h)
    <3>1. \A m \in Nat : m \notin N => \E k : Sums(g, F(m), k)
      OBVIOUS
    <3> HIDE DEF N, F
    <3> QED BY <2>0, <3>1
  <2> DEFINE k == [s \in F(n) |-> IF s = {} THEN 0 ELSE Score(g, Picked(s)) + h[s \ {Picked(s)}]]
  <2>2. ASSUME NEW s \in F(n), s # {}
        PROVE  k[s \ {Picked(s)}] = h[s \ {Picked(s)}]
    <3> DEFINE u == s \ {Picked(s)}
    <3>1. u \in F(n - 1) /\ u \in F(n)
      <4>1. u \in SUBSET G
        OBVIOUS
      <4>2. Cardinality(u) \in Nat /\ Cardinality(u) <= n - 1
        BY <1>0, <2>0, <2>2, Smaller
      <4> QED BY <2>0, <4>1, <4>2
    <3> HIDE DEF u
    <3>2. h[u] = IF u = {} THEN 0 ELSE Score(g, Picked(u)) + h[u \ {Picked(u)}]
      BY <2>1, <3>1 DEF Sums
    <3>3. k[u] = IF u = {} THEN 0 ELSE Score(g, Picked(u)) + h[u \ {Picked(u)}]
      BY <3>1
    <3> QED BY <3>2, <3>3 DEF u
  <2>3. Sums(g, F(n), k)
    BY <2>2 DEF Sums
  <2> QED BY <2>3
<1> QED BY <1>4, <1>5

\* A score is an integer once the workers have replied, also that of a row
\* filled by another sample.
LEMMA ScoreType ==
  ASSUME IInv, step = "batched", NEW g \in Optional, NEW s \in Slots
  PROVE  Score(g, s) \in Int
<1>1. PICK w \in Workers, k \in Places : s = <<w, k>>
  BY DEF Slots
<1>2. wpc[w] = "replied" /\ RowsUsable
  BY DEF IInv, StepInv
<1>3. src[<<w, k>>] \in Places
  BY <1>2 DEF RowsUsable
<1>4. Origin(s) \in Slots
  BY <1>1, <1>3 DEF Origin, Slots
<1> QED BY <1>4 DEF Score, IInv, TypeOK

\* What the fold does with a set, for a function that solves its recursion.
LEMMA SumStep ==
  ASSUME NEW g, NEW G, NEW h, Sums(g, SUBSET G, h), NEW T \in SUBSET G
  PROVE  /\ T = {} => h[T] = 0
         /\ T # {} => h[T] = Score(g, Picked(T)) + h[T \ {Picked(T)}]
<1>1. h[T] = IF T = {} THEN 0 ELSE Score(g, Picked(T)) + h[T \ {Picked(T)}]
  BY DEF Sums
<1> QED BY <1>1

\* A sum is at most the size of the set times a bound of its scores, and less if
\* one score is.
AtMost(g, T, x, m) ==
  /\ x <= Cardinality(T) * m
  /\ (\E t \in T : Score(g, t) < m) => x < Cardinality(T) * m

\* Likewise from below.
AtLeast(g, T, x, m) ==
  /\ x >= Cardinality(T) * m
  /\ (\E t \in T : Score(g, t) > m) => x > Cardinality(T) * m

LEMMA TotalBounds ==
  ASSUME NEW g, NEW G, IsFiniteSet(G), \A t \in G : Score(g, t) \in Int, NEW lo \in Int, NEW hi \in Int,
         \A t \in G : lo <= Score(g, t) /\ Score(g, t) <= hi
  PROVE  Total(g, G) \in Int /\ AtMost(g, G, Total(g, G), hi) /\ AtLeast(g, G, Total(g, G), lo)
<1> DEFINE h == CHOOSE k : Sums(g, SUBSET G, k)
<1>1. Sums(g, SUBSET G, h) /\ Total(g, G) = h[G]
  BY SumsExist, TotalUnfolds
<1> HIDE DEF h
<1> DEFINE Fits(T) == h[T] \in Int /\ AtMost(g, T, h[T], hi) /\ AtLeast(g, T, h[T], lo)
           B == {T \in SUBSET G : ~Fits(T)}
<1>2. SUFFICES ASSUME B # {} PROVE FALSE
  BY <1>1
<1>3. PICK T \in B : \A U \in B : U \subseteq T => U = T
  <2>1. B \in SUBSET (SUBSET G)
    OBVIOUS
  <2> HIDE DEF B
  <2> QED BY <1>2, <2>1, MinimalSubset
<1>4. T \in SUBSET G /\ ~Fits(T) /\ IsFiniteSet(T)
  BY <1>3, FS_Subset
<1>5. T # {}
  <2>1. ASSUME T = {} PROVE Fits(T)
    <3>1. h[T] = 0
      BY <1>1, <1>4, <2>1, SumStep
    <3>2. Cardinality(T) * hi = 0 /\ Cardinality(T) * lo = 0
      BY <2>1, FS_EmptySet
    <3> QED BY <2>1, <3>1, <3>2 DEF AtMost, AtLeast
  <2> QED BY <1>4, <2>1
<1> DEFINE c == Picked(T)
           U == T \ {c}
<1>6. c \in T /\ Cardinality(T) = Cardinality(U) + 1 /\ Cardinality(U) \in Nat
  BY <1>4, <1>5, Smaller
<1>7. Fits(U)
  <2>1. U \in SUBSET G /\ U \subseteq T /\ U # T
    BY <1>4, <1>6
  <2>2. U \notin B
    <3> HIDE DEF B, U
    <3> QED BY <1>3, <2>1
  <2>3. \A V \in SUBSET G : V \notin B => Fits(V)
    OBVIOUS
  <2> HIDE DEF B, U, Fits
  <2> QED BY <2>1, <2>2, <2>3
<1>8. h[T] = Score(g, c) + h[U]
  BY <1>1, <1>4, <1>5, SumStep
<1>9. Score(g, c) \in Int /\ lo <= Score(g, c) /\ Score(g, c) <= hi
  BY <1>4, <1>6
<1> HIDE DEF U, c
<1>10. /\ Cardinality(T) * hi = Cardinality(U) * hi + hi
       /\ Cardinality(T) * lo = Cardinality(U) * lo + lo
       /\ Cardinality(U) * hi \in Int /\ Cardinality(U) * lo \in Int
  BY <1>6
<1>11. \A t \in T : t = c \/ t \in U
  BY DEF U
<1>12. h[T] \in Int
  BY <1>7, <1>8, <1>9
<1>13. AtMost(g, T, h[T], hi)
  <2>1. h[T] <= Cardinality(T) * hi
    BY <1>7, <1>8, <1>9, <1>10 DEF AtMost
  <2>2. ASSUME NEW t \in T, Score(g, t) < hi PROVE h[T] < Cardinality(T) * hi
    <3>1. CASE t = c
      BY <1>7, <1>8, <1>9, <1>10, <2>2, <3>1 DEF AtMost
    <3>2. CASE t \in U
      BY <1>7, <1>8, <1>9, <1>10, <2>2, <3>2 DEF AtMost
    <3> QED BY <1>11, <3>1, <3>2
  <2> QED BY <2>1, <2>2 DEF AtMost
<1>14. AtLeast(g, T, h[T], lo)
  <2>1. h[T] >= Cardinality(T) * lo
    BY <1>7, <1>8, <1>9, <1>10 DEF AtLeast
  <2>2. ASSUME NEW t \in T, Score(g, t) > lo PROVE h[T] > Cardinality(T) * lo
    <3>1. CASE t = c
      BY <1>7, <1>8, <1>9, <1>10, <2>2, <3>1 DEF AtLeast
    <3>2. CASE t \in U
      BY <1>7, <1>8, <1>9, <1>10, <2>2, <3>2 DEF AtLeast
    <3> QED BY <1>11, <3>1, <3>2
  <2> QED BY <2>1, <2>2 DEF AtLeast
<1> QED BY <1>4, <1>12, <1>13, <1>14

\* The order of the integers.
LEMMA IntOrder ==
  \A i, j, k \in Int : i <= i /\ (i <= j \/ j <= i) /\ (i <= j /\ j <= k => i <= k)
OBVIOUS

\* A non-empty finite set of rows has one with the least score and one with the
\* greatest.
LEMMA ExtremeScores ==
  ASSUME NEW g, NEW G, IsFiniteSet(G), G # {}, \A t \in G : Score(g, t) \in Int
  PROVE  \E a, b \in G : \A t \in G : Score(g, a) <= Score(g, t) /\ Score(g, t) <= Score(g, b)
<1> DEFINE Fits(T) == \E a, b \in T : \A t \in T : Score(g, a) <= Score(g, t) /\ Score(g, t) <= Score(g, b)
           B == {T \in SUBSET G : T # {} /\ ~Fits(T)}
<1>1. SUFFICES ASSUME B # {} PROVE FALSE
  OBVIOUS
<1>2. PICK T \in B : \A U \in B : U \subseteq T => U = T
  <2>1. B \in SUBSET (SUBSET G)
    OBVIOUS
  <2> HIDE DEF B
  <2> QED BY <1>1, <2>1, MinimalSubset
<1>3. T \in SUBSET G /\ T # {} /\ ~Fits(T)
  BY <1>2
<1>4. PICK c : c \in T
  BY <1>3
<1> DEFINE U == T \ {c}
<1>5. U \in SUBSET G /\ U \subseteq T /\ U # T
  BY <1>3, <1>4
<1>6. U = {} \/ Fits(U)
  <2>1. U \notin B
    <3> HIDE DEF B, U
    <3> QED BY <1>2, <1>5
  <2>2. \A V \in SUBSET G : V \notin B => V = {} \/ Fits(V)
    OBVIOUS
  <2> HIDE DEF B, U, Fits
  <2> QED BY <1>5, <2>1, <2>2
<1>7. \A t \in T : t = c \/ t \in U
  OBVIOUS
<1>8. \A t \in T : Score(g, t) \in Int
  BY <1>3
<1> HIDE DEF U
<1>9. CASE U = {}
  <2>1. \A t \in T : Score(g, c) <= Score(g, t) /\ Score(g, t) <= Score(g, c)
    BY <1>4, <1>7, <1>8, <1>9
  <2> QED BY <1>3, <1>4, <2>1
<1>10. CASE Fits(U)
  <2>1. PICK a, b \in U : \A t \in U : Score(g, a) <= Score(g, t) /\ Score(g, t) <= Score(g, b)
    BY <1>10
  <2>2. {a, b, c} \subseteq T /\ Score(g, a) \in Int /\ Score(g, b) \in Int /\ Score(g, c) \in Int
    BY <1>4, <1>5, <1>8
  <2>3. PICK x \in {a, c} : Score(g, x) <= Score(g, a) /\ Score(g, x) <= Score(g, c)
    <3>1. CASE Score(g, a) <= Score(g, c)
      BY <2>2, <3>1, IntOrder
    <3>2. CASE Score(g, c) <= Score(g, a)
      BY <2>2, <3>2, IntOrder
    <3> QED BY <2>2, <3>1, <3>2, IntOrder
  <2>4. PICK y \in {b, c} : Score(g, b) <= Score(g, y) /\ Score(g, c) <= Score(g, y)
    <3>1. CASE Score(g, c) <= Score(g, b)
      BY <2>2, <3>1, IntOrder
    <3>2. CASE Score(g, b) <= Score(g, c)
      BY <2>2, <3>2, IntOrder
    <3> QED BY <2>2, <3>1, <3>2, IntOrder
  <2>5. x \in T /\ y \in T /\ Score(g, x) \in Int /\ Score(g, y) \in Int
    BY <2>2, <2>3, <2>4
  <2>6. ASSUME NEW t \in T PROVE Score(g, x) <= Score(g, t) /\ Score(g, t) <= Score(g, y)
    <3>1. CASE t = c
      BY <2>3, <2>4, <3>1
    <3>2. CASE t \in U
      <4>1. Score(g, t) \in Int /\ Score(g, a) <= Score(g, t) /\ Score(g, t) <= Score(g, b)
        BY <1>8, <2>1, <3>2
      <4>2. Score(g, x) <= Score(g, a) /\ Score(g, b) <= Score(g, y)
        BY <2>3, <2>4
      <4>3. Score(g, x) <= Score(g, t)
        BY <2>2, <2>5, <4>1, <4>2, IntOrder
      <4>4. Score(g, t) <= Score(g, y)
        BY <2>2, <2>5, <4>1, <4>2, IntOrder
      <4> QED BY <4>3, <4>4
    <3> QED BY <1>7, <3>1, <3>2
  <2> QED BY <1>3, <2>5, <2>6
<1> QED BY <1>6, <1>9, <1>10

\* Above the mean of a group there is a row exactly when there is one below.
LEMMA MeanSplits ==
  ASSUME NEW g, NEW G, IsFiniteSet(G), \A t \in G : Score(g, t) \in Int, NEW s \in G
  PROVE  /\ Cardinality(G) * Score(g, s) > Total(g, G) => \E t \in G : Cardinality(G) * Score(g, t) < Total(g, G)
         /\ Cardinality(G) * Score(g, s) < Total(g, G) => \E t \in G : Cardinality(G) * Score(g, t) > Total(g, G)
<1>1. PICK a, b \in G : \A t \in G : Score(g, a) <= Score(g, t) /\ Score(g, t) <= Score(g, b)
  BY ExtremeScores
<1> DEFINE lo == Score(g, a)
           hi == Score(g, b)
<1>2. lo \in Int /\ hi \in Int /\ \A t \in G : lo <= Score(g, t) /\ Score(g, t) <= hi
  BY <1>1
<1> HIDE DEF lo, hi
<1>3. Total(g, G) \in Int /\ AtMost(g, G, Total(g, G), hi) /\ AtLeast(g, G, Total(g, G), lo)
  BY <1>2, TotalBounds
<1>4. Cardinality(G) \in Nat
  BY FS_CardinalityType
<1>5. ASSUME Cardinality(G) * Score(g, s) > Total(g, G)
      PROVE  Cardinality(G) * Score(g, a) < Total(g, G)
  <2>1. Score(g, s) # lo
    BY <1>3, <1>4, <1>5 DEF AtLeast
  <2>2. Score(g, s) > lo
    BY <1>2, <2>1
  <2>3. Total(g, G) > Cardinality(G) * lo
    BY <1>3, <2>2 DEF AtLeast
  <2> QED BY <1>2, <1>3, <1>4, <2>3 DEF lo
<1>6. ASSUME Cardinality(G) * Score(g, s) < Total(g, G)
      PROVE  Cardinality(G) * Score(g, b) > Total(g, G)
  <2>1. Score(g, s) # hi
    BY <1>3, <1>4, <1>6 DEF AtMost
  <2>2. Score(g, s) < hi
    BY <1>2, <2>1
  <2>3. Total(g, G) < Cardinality(G) * hi
    BY <1>3, <2>2 DEF AtMost
  <2> QED BY <1>2, <1>3, <1>4, <2>3 DEF hi
<1> QED BY <1>5, <1>6

\* The groups split the rows, so two rows of one group have the same mean.
LEMMA GroupFacts ==
  ASSUME NEW g \in Optional, NEW s \in Slots
  PROVE  /\ s \in Group(g, s) /\ Group(g, s) \subseteq Slots /\ IsFiniteSet(Group(g, s))
         /\ \A t \in Group(g, s) : Group(g, t) = Group(g, s)
<1>1. IsFiniteSet(Slots)
  <2>1. IsFiniteSet(Workers) /\ IsFiniteSet(Places)
    BY BatchAssumption, FS_Interval DEF Workers, Places
  <2> QED BY <2>1, FS_Product DEF Slots
<1>2. s \in Group(g, s) /\ Group(g, s) \subseteq Slots
  BY DEF Group
<1>3. \A t \in Group(g, s) : Group(g, t) = Group(g, s)
  BY DEF Group
<1> QED BY <1>1, <1>2, <1>3, FS_Subset

\* The weights that ComputeGates gives out redistribute.
LEMMA WeightsSplit ==
  ASSUME IInv, step = "batched", NEW g \in Optional, NEW s \in Slots
  PROVE  /\ WeightOf(g, s) = "up" => \E t \in Group(g, s) : WeightOf(g, t) = "down"
         /\ WeightOf(g, s) = "down" => \E t \in Group(g, s) : WeightOf(g, t) = "up"
<1> DEFINE G == Group(g, s)
           n == Cardinality(G)
<1>1. s \in G /\ G \subseteq Slots /\ IsFiniteSet(G) /\ \A t \in G : Group(g, t) = G
  BY GroupFacts
<1>2. \A t \in G : Score(g, t) \in Int
  BY <1>1, ScoreType
<1>3. n \in Nat /\ Total(g, G) \in Int
  <2>1. PICK a, b \in G : \A t \in G : Score(g, a) <= Score(g, t) /\ Score(g, t) <= Score(g, b)
    BY <1>1, <1>2, ExtremeScores
  <2>2. Total(g, G) \in Int
    BY <1>1, <1>2, <2>1, TotalBounds
  <2> QED BY <1>1, <2>2, FS_CardinalityType
<1> DEFINE z(t) == n * Score(g, t) - Total(g, G)
<1>4. \A t \in G : WeightOf(g, t) = IF n <= 1 \/ z(t) = 0 THEN "one" ELSE IF z(t) > 0 THEN "up" ELSE "down"
  BY <1>1 DEF WeightOf
<1>5. \A t \in G : n * Score(g, t) \in Int
  BY <1>2, <1>3
<1>6. /\ n * Score(g, s) > Total(g, G) => \E t \in G : n * Score(g, t) < Total(g, G)
      /\ n * Score(g, s) < Total(g, G) => \E t \in G : n * Score(g, t) > Total(g, G)
  BY <1>1, <1>2, MeanSplits
<1> HIDE DEF G, n
<1>7. \A t \in G : /\ WeightOf(g, t) = "up" <=> n > 1 /\ n * Score(g, t) > Total(g, G)
                   /\ WeightOf(g, t) = "down" <=> n > 1 /\ n * Score(g, t) < Total(g, G)
  BY <1>3, <1>4, <1>5
<1>8. /\ WeightOf(g, s) = "up" => \E t \in G : WeightOf(g, t) = "down"
      /\ WeightOf(g, s) = "down" => \E t \in G : WeightOf(g, t) = "up"
  BY <1>1, <1>6, <1>7
<1> QED BY <1>8 DEF G

\* A gate weights a row up if and only if it weights another row of the group
\* down: for every size of batch, grouping and set of scores, also when rows are
\* filled by other samples or lack the optional pass.
THEOREM GatesOnlyRedistribute == Spec => []GatesRedistribute
<1>1. Init => GatesRedistribute
  BY DEF Init, GatesRedistribute
<1>2. ASSUME IInv, GatesRedistribute, [Next]_vars PROVE GatesRedistribute'
  <2>1. CASE ComputeGates
    <3>1. ASSUME NEW g \in Optional, NEW s \in Slots
          PROVE  weight'[g][s] = IF g \in Keys(1) THEN WeightOf(g, s) ELSE "one"
      BY <2>1 DEF ComputeGates
    <3>2. step = "batched"
      BY <2>1 DEF ComputeGates
    <3>3. ASSUME NEW g \in Optional, NEW s \in Slots
          PROVE  /\ weight'[g][s] = "up" => \E t \in Group(g, s) : weight'[g][t] = "down"
                 /\ weight'[g][s] = "down" => \E t \in Group(g, s) : weight'[g][t] = "up"
      <4>1. Group(g, s) \subseteq Slots
        BY GroupFacts
      <4>2. CASE g \in Keys(1)
        BY <1>2, <3>1, <3>2, <4>1, <4>2, WeightsSplit
      <4>3. CASE g \notin Keys(1)
        BY <3>1, <4>3
      <4> QED BY <4>2, <4>3
    <3> QED BY <3>3 DEF GatesRedistribute, Group, Uid
  <2>2. CASE ~ComputeGates
    <3>1. weight' = weight
      BY <1>2, <2>2 DEF Next, SampleStep, Run, RunFails, Build, PassReturns, PassFails, WorkerStep,
                        Fill, StartRetry, FillAll, Reraise, TrainerStep, Concat, WorkerRaised, vars
    <3> QED BY <1>2, <3>1 DEF GatesRedistribute, Group, Uid
  <2> QED BY <2>1, <2>2
<1> QED BY <1>1, <1>2, Invariance, PTL DEF Spec
=============================================================================
