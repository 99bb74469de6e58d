----------------------------- MODULE AgentBatch -----------------------------
(***************************************************************************)
(* One generate_sequences call of the distillation trainer: the manager    *)
(* splits the batch into one chunk per agent-loop worker; a worker runs    *)
(* its samples concurrently, each a rollout followed by the teacher passes *)
(* over its response; failed samples are replaced by a sibling's output,   *)
(* or the first is retried without its video when all have failed; the     *)
(* manager concatenates the workers' batches and the trainer turns the     *)
(* optional passes into gate weights.                                      *)
(*                                                                         *)
(* What a pass returns is abstracted to whether it returned, and, for the  *)
(* two optional ones, to the integer utility that the gate derives from it *)
(* and the teacher pass. A weight is abstracted to its side of 1: alpha is *)
(* positive and the clipping interval holds 1 in its interior.             *)
(***************************************************************************)
EXTENDS Integers, FiniteSetsExt

CONSTANTS NumWorkers,      \* rollout.agent.num_workers
          ChunkSize,       \* samples per worker
          RolloutN,        \* rollout.n: consecutive rows of one prompt
          PromptBuilt,     \* the teacher gets a prompt of its own: teacher_prompt_key or
                           \* teacher_enable_thinking is set, teacher_frame_budget is not
          CueGate,         \* cue_gate_enabled
          ExOPD,           \* exopd_enabled
          AxisDecomposed,  \* exopd_axis_decomposed
          Contrastive,     \* contrastive_gate_enabled
          UidGroups,       \* cue_gate_group_mode = "uid"
          Utilities        \* bound: the utilities a sample may have

ASSUME BatchAssumption ==
  /\ NumWorkers \in Nat \ {0}
  /\ ChunkSize \in Nat \ {0}
  /\ RolloutN \in Nat \ {0}
  /\ {PromptBuilt, CueGate, ExOPD, AxisDecomposed, Contrastive, UidGroups} \subseteq BOOLEAN
  /\ Utilities \subseteq Int

VARIABLES
  validate,  \* meta_info["validate"]: no teacher passes
  pc,        \* per sample: where its task is
  todo,      \* per sample: the teacher passes still to make
  got,       \* per sample: the passes whose log-probabilities it holds
  utility,   \* per optional pass and sample: what its gate scores it against the teacher's
  wpc,       \* per worker: where generate_sequences is
  src,       \* per row: the sample of the chunk whose output fills it, 0 before
  step,      \* where the trainer's step is
  weight     \* per gate and row: the weight's side of 1

sampleVars == <<pc, todo, got, utility>>
vars == <<validate, pc, todo, got, utility, wpc, src, step, weight>>

Workers == 1..NumWorkers
Places == 1..ChunkSize
Slots == Workers \X Places

Mandatory == {"teacher"} \cup (IF ExOPD THEN {"base"} ELSE {})
                         \cup (IF ExOPD /\ AxisDecomposed THEN {"dense"} ELSE {})
Optional == {"nocue", "neg"}
Passes == {"teacher", "nocue", "base", "dense", "neg"}

\* The order in which _compute_teacher_logprobs makes the passes.
Turn == [p \in Passes |-> CASE p = "teacher" -> 1 [] p = "nocue" -> 2 [] p = "base" -> 3
                            [] p = "dense" -> 4 [] p = "neg" -> 5]

-----------------------------------------------------------------------------
Init ==
  /\ validate \in BOOLEAN
  /\ pc = [s \in Slots |-> "run"]
  /\ todo = [s \in Slots |-> {}]
  /\ got = [s \in Slots |-> {}]
  /\ utility = [g \in Optional |-> [s \in Slots |-> 0]]
  /\ wpc = [w \in Workers |-> "gather"]
  /\ src = [s \in Slots |-> 0]
  /\ step = "generate"
  /\ weight = [g \in Optional |-> [s \in Slots |-> "one"]]

(* One sample: _run_agent_loop, _agent_loop_postprocess. *)

\* The rollout, its padding and its score succeed; the teacher is asked unless
\* this is a validation batch.
Run(s) ==
  /\ pc[s] = "run"
  /\ pc' = [pc EXCEPT ![s] = IF validate THEN "done" ELSE "build"]
  /\ UNCHANGED <<validate, todo, got, utility, wpc, src, step, weight>>

\* Video decoding, an over-long prompt or the reward raises.
RunFails(s) ==
  /\ pc[s] = "run"
  /\ pc' = [pc EXCEPT ![s] = "failed"]
  /\ UNCHANGED <<validate, todo, got, utility, wpc, src, step, weight>>

\* The teacher's own inputs are built, or building them fails and the student's
\* are used: cue_active says which. The no-cue pass is made only if it is set.
Build(s) ==
  /\ pc[s] = "build"
  /\ pc' = [pc EXCEPT ![s] = "pass"]
  /\ \E cueActive \in (IF PromptBuilt THEN BOOLEAN ELSE {FALSE}) :
       todo' = [todo EXCEPT ![s] =
                  Mandatory \cup (IF CueGate /\ cueActive THEN {"nocue"} ELSE {})
                            \cup (IF Contrastive THEN {"neg"} ELSE {})]
  /\ UNCHANGED <<validate, got, utility, wpc, src, step, weight>>

NextPass(s, p) == p \in todo[s] /\ \A q \in todo[s] : Turn[p] <= Turn[q]

AfterPass(s, p) == IF todo[s] = {p} THEN "done" ELSE "pass"

PassReturns(s) ==
  /\ pc[s] = "pass"
  /\ \E p \in Passes :
       /\ NextPass(s, p)
       /\ got' = [got EXCEPT ![s] = @ \cup {p}]
       /\ todo' = [todo EXCEPT ![s] = @ \ {p}]
       /\ pc' = [pc EXCEPT ![s] = AfterPass(s, p)]
       /\ IF p \in Optional
            THEN \E u \in Utilities : utility' = [utility EXCEPT ![p][s] = u]
            ELSE utility' = utility
  /\ UNCHANGED <<validate, wpc, src, step, weight>>

\* An optional pass that raises is caught and leaves nothing behind; any other
\* one takes the sample with it.
PassFails(s) ==
  /\ pc[s] = "pass"
  /\ \E p \in Passes :
       /\ NextPass(s, p)
       /\ todo' = [todo EXCEPT ![s] = @ \ {p}]
       /\ pc' = [pc EXCEPT ![s] = IF p \in Optional THEN AfterPass(s, p) ELSE "failed"]
  /\ UNCHANGED <<validate, got, utility, wpc, src, step, weight>>

(* One worker: AgentLoopWorker.generate_sequences after asyncio.gather. *)

Good(w) == {k \in Places : pc[<<w, k>>] = "done"}
Settled(w) == \A k \in Places : pc[<<w, k>>] \in {"done", "failed"}

\* Mutant of FillOf: every row from the first good sample.
FillOfFirst(w, k, first) == first

\* Mutant of FillOf: a failed row takes the sample after it.
FillOfNext(w, k, first) == IF k \in Good(w) THEN k ELSE k + 1

\* A failed row takes the first good sample's output.
FillOf(w, k, first) == IF k \in Good(w) THEN k ELSE first

Fill(w) ==
  /\ wpc[w] = "gather"
  /\ Settled(w)
  /\ \E first \in Good(w) :
       /\ \A k \in Good(w) : first <= k
       /\ src' = [s \in Slots |-> IF s[1] = w THEN FillOf(w, s[2], first) ELSE src[s]]
  /\ wpc' = [wpc EXCEPT ![w] = "replied"]
  /\ UNCHANGED <<validate, pc, todo, got, utility, step, weight>>

\* All failed: the first sample is run again without its video.
StartRetry(w) ==
  /\ wpc[w] = "gather"
  /\ Settled(w)
  /\ Good(w) = {}
  /\ wpc' = [wpc EXCEPT ![w] = "retry"]
  /\ pc' = [pc EXCEPT ![<<w, 1>>] = "run"]
  /\ got' = [got EXCEPT ![<<w, 1>>] = {}]
  /\ todo' = [todo EXCEPT ![<<w, 1>>] = {}]
  /\ utility' = [g \in Optional |-> [utility[g] EXCEPT ![<<w, 1>>] = 0]]
  /\ UNCHANGED <<validate, src, step, weight>>

\* The retry's output fills every row of the chunk.
FillAll(w) ==
  /\ wpc[w] = "retry"
  /\ pc[<<w, 1>>] = "done"
  /\ src' = [s \in Slots |-> IF s[1] = w THEN 1 ELSE src[s]]
  /\ wpc' = [wpc EXCEPT ![w] = "replied"]
  /\ UNCHANGED <<validate, pc, todo, got, utility, step, weight>>

\* Mutant of Reraise: the worker gives up without a retry.
ReraiseAtOnce(w) ==
  /\ wpc[w] \in {"gather", "retry"}
  /\ \E k \in Places : pc[<<w, k>>] = "failed"
  /\ wpc' = [wpc EXCEPT ![w] = "raised"]
  /\ UNCHANGED <<validate, pc, todo, got, utility, src, step, weight>>

\* Mutant of Reraise: the worker starts over.
ReraiseNever(w) ==
  /\ wpc[w] = "retry"
  /\ pc[<<w, 1>>] = "failed"
  /\ wpc' = [wpc EXCEPT ![w] = "gather"]
  /\ UNCHANGED <<validate, pc, todo, got, utility, src, step, weight>>

\* Even the retry failed: the first sample's exception is raised.
Reraise(w) ==
  /\ wpc[w] = "retry"
  /\ pc[<<w, 1>>] = "failed"
  /\ wpc' = [wpc EXCEPT ![w] = "raised"]
  /\ UNCHANGED <<validate, pc, todo, got, utility, src, step, weight>>

(* The manager and the trainer. *)

Origin(s) == <<s[1], src[s]>>

\* Mutant of Keys: the first row decides for every pass.
KeysOfFirst(w) == {p \in Passes : p \in got[Origin(<<w, 1>>)]}

\* _postprocess: the first row decides whether a mandatory pass is in the
\* worker's batch, any row whether an optional one is.
Keys(w) ==
  {p \in Passes \ Optional : p \in got[Origin(<<w, 1>>)]}
    \cup {p \in Optional : \E k \in Places : p \in got[Origin(<<w, k>>)]}

\* DataProto.concat: torch.cat refuses batches whose keys differ.
Concat ==
  /\ step = "generate"
  /\ \A w \in Workers : wpc[w] = "replied"
  /\ step' = IF \A v, w \in Workers : Keys(v) = Keys(w) THEN "batched" ELSE "crashed"
  /\ UNCHANGED <<validate, pc, todo, got, utility, wpc, src, weight>>

\* A worker's exception reaches the manager's gather, whatever the others do.
WorkerRaised ==
  /\ step = "generate"
  /\ \E w \in Workers : wpc[w] = "raised"
  /\ step' = "crashed"
  /\ UNCHANGED <<validate, pc, todo, got, utility, wpc, src, weight>>

\* The gate's score of a row: a row without the pass falls back to the teacher's
\* own log-probabilities, whose difference is 0.
Score(g, s) == IF g \in got[Origin(s)] THEN utility[g][Origin(s)] ELSE 0

Uid(s) == ((s[1] - 1) * ChunkSize + s[2] - 1) \div RolloutN

\* Rows whose scores are standardized together. Rows keep their own uid, also
\* when another sample's output fills them.
Group(g, s) ==
  IF g = "neg" \/ UidGroups THEN {t \in Slots : Uid(t) = Uid(s)} ELSE Slots

\* The sum behind the mean of a group's scores.
Total(g, G) == MapThenSumSet(LAMBDA t : Score(g, t), G)

\* clip(1 + alpha * z(score)): above 1 exactly when the score is above its
\* group's mean; 1 in a group of one.
WeightOf(g, s) ==
  LET G == Group(g, s)
      z == Cardinality(G) * Score(g, s) - Total(g, G)
  IN  IF Cardinality(G) <= 1 \/ z = 0 THEN "one" ELSE IF z > 0 THEN "up" ELSE "down"

\* A gate without its log-probabilities in the batch is not computed; a
\* validation batch has none.
ComputeGates ==
  /\ step = "batched"
  /\ ~validate
  /\ weight' = [g \in Optional |-> [s \in Slots |->
                  IF g \in Keys(1) THEN WeightOf(g, s) ELSE "one"]]
  /\ step' = "gated"
  /\ UNCHANGED <<validate, pc, todo, got, utility, wpc, src>>

-----------------------------------------------------------------------------
SampleStep(s) == Run(s) \/ RunFails(s) \/ Build(s) \/ PassReturns(s) \/ PassFails(s)
WorkerStep(w) == Fill(w) \/ StartRetry(w) \/ FillAll(w) \/ Reraise(w)
TrainerStep == Concat \/ WorkerRaised \/ ComputeGates

Ended == step \in {"gated", "crashed"} \/ (step = "batched" /\ validate)

Next == \/ \E s \in Slots : SampleStep(s)
        \/ \E w \in Workers : WorkerStep(w)
        \/ TrainerStep

Spec == Init /\ [][Next]_vars

\* Every request to a rollout or teacher server returns or raises, and the event
\* loops and the manager's gather resume what is ready.
Fairness ==
  /\ \A s \in Slots : WF_vars(SampleStep(s))
  /\ \A w \in Workers : WF_vars(WorkerStep(w))
  /\ WF_vars(TrainerStep)

FairSpec == Spec /\ Fairness

-----------------------------------------------------------------------------
(* Properties. *)

\* The type of the state.
TypeOK ==
  /\ validate \in BOOLEAN
  /\ pc \in [Slots -> {"run", "build", "pass", "done", "failed"}]
  /\ todo \in [Slots -> SUBSET Passes]
  /\ got \in [Slots -> SUBSET Passes]
  /\ utility \in [Optional -> [Slots -> Int]]
  /\ wpc \in [Workers -> {"gather", "retry", "replied", "raised"}]
  /\ src \in [Slots -> 0..ChunkSize]
  /\ step \in {"generate", "batched", "gated", "crashed"}
  /\ weight \in [Optional -> [Slots -> {"down", "one", "up"}]]

\* What generate_sequences hands to the trainer: every row holds the output of a
\* sample of its own chunk that finished with every mandatory pass made (so the
\* rows can be concatenated), and a sample that finished fills its own row.
RowsUsable ==
  \A w \in Workers : wpc[w] = "replied" =>
    \A k \in Places :
      LET o == Origin(<<w, k>>)
      IN  /\ src[<<w, k>>] \in Places
          /\ pc[o] = "done"
          /\ validate \/ Mandatory \subseteq got[o]
          /\ pc[<<w, k>>] = "done" => src[<<w, k>>] = k

\* A worker raises only as a last resort: every sample of its chunk has failed,
\* the retry of the first one included.
RaisesOnlyIfAllFailed ==
  \A w \in Workers : wpc[w] = "raised" => \A k \in Places : pc[<<w, k>>] = "failed"

\* The only other way to lose a step: an optional pass that no row of one worker
\* made and a row of another did. A mandatory pass never splits the workers.
CrashExplained ==
  step = "crashed" =>
    \/ \E w \in Workers : wpc[w] = "raised"
    \/ \E p \in Optional, v, w \in Workers :
         /\ \E k \in Places : p \in got[Origin(<<v, k>>)]
         /\ \A k \in Places : p \notin got[Origin(<<w, k>>)]

\* What the warnings and the comments in _postprocess say of a row without an
\* optional pass, be it that the pass failed or was not due: its gate is neutral,
\* "gate defaults to 1 for this sample" (agent_loop.py:1210). The code only gives
\* it the score 0, which is standardized with the scores of the other rows.
FallbackNeutral ==
  \A g \in Optional, s \in Slots :
    step = "gated" /\ g \notin got[Origin(s)] => weight[g][s] = "one"

\* What holds in place of FallbackNeutral: a gate redistributes within a group, a
\* row is weighted up if and only if another row of its group is weighted down.
GatesRedistribute ==
  \A g \in Optional, s \in Slots :
    /\ weight[g][s] = "up" => \E t \in Group(g, s) : weight[g][t] = "down"
    /\ weight[g][s] = "down" => \E t \in Group(g, s) : weight[g][t] = "up"

\* The step ends, in weights or in an exception: no failure, retry or crash of a
\* worker leaves the manager waiting.
EventuallyEnded == <>Ended
=============================================================================
