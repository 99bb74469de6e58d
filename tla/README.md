# StreamOPD: models, checks and proofs

StreamOPD trains a small streaming-video model by on-policy distillation from a frozen
teacher and evaluates it with a sliding recent window of frames. This directory holds TLA+
models of the parts of it in which state survives a step: what several processes, threads or
coroutines change together, and what is left behind by a crash. Everything is translated from
the source; `PROJECT.json` maps every definition to the lines it stands for.

## 1. The system

| Part | State | Operations | Talks to | What is hard |
|---|---|---|---|---|
| OVO-Bench evaluator (`streamopd/eval/ovo_bench.py`) | shard files, done markers, reports | load, resume, evaluate, append, mark, wait, merge, dump | ranks of one launch, through files; `score_all.sh` | ranks interleave; crashes, deadlines, restarts over the same directory |
| Teacher log-probability alignment (`teacher_manager.py`, `vllm_rollout/utils.py`, `workers/utils/padding.py`) | per-token lists of several lengths and origins | shift, align, pad, stack, slice for the gate, unpad, slice for the loss | teacher servers, gates, actor loss | off-by-one between six conventions |
| Agent-loop batch (`agent_loop.py`, `protocol.py`, `evidence_weighting.py`, part of `ray_trainer.py`) | tasks per sample, worker replies, batch keys, gate weights | rollout, up to five teacher passes, substitute, retry, concatenate, weigh | servers, manager, trainer | any pass of any sample may fail at any time |
| Pass-rate filter (`pass_rate_vllm.py`, `chain_passrate.sh`, `filter_by_pass_rate.py`) | one jsonl file per role and seed | skip, resume, ask, append, filter | vLLM servers; the two roles meet in the filter | thread pool, kills, resumption, joins by position |
| StreamingBench evaluator (`streamingbench.py`) | one checkpoint file, one report | resume, skip, ask, append, summarise | `score_all.sh` | keys cut short, legacy keys, errors recorded as results, kills |
| Visual-cue generation (`gen_visual_cue.py`) | cues, one file per shard | generate, rule check, judge, retry, write in order | vLLM server | threads, layers of filters with defaults, kills |
| Trainer loop (`ray_trainer.py`, `utils/checkpoint/`) | step, epoch, dataloader, weights, servers, checkpoint folders, tracker | generate, update, save, rotate, synchronise, resume | everything in training | a kill between any two files; resumption at an epoch boundary |
| Fully asynchronous mode (`experimental/fully_async_policy/`) | queues, tasks, counters, a lock, an event | feed, process, pause, drain, monitor, collect, train, reset | rollouter, queue and trainer run concurrently | decisions on values read before an await; mutual waiting |
| Inference servers (`llm_server.py`, `vllm_async_server.py`, `checkpoint_engine/base.py`) | load counts, routing cache, paused and sleeping servers, weight versions | acquire, release, generate, abort, resume, load, sleep, add, remove | clients, trainer | requests interrupted and rerouted while servers come and go |
| Recent-window decoder (`streamopd/streaming/`) | none | choose frame indices, assemble prompt | evaluators | boundaries of the window |
| Losses (`trainer/distillation/losses.py`) | none | choose and combine teacher terms | alignment, gates | which gate applies to which term |
| OVO scoring, rewards, converters, launch scripts, rest of the vendored verl | none of their own | | | |

What makes each part correct:

* *Evaluator*: a report covers every annotation, each once, whatever launches died before it,
  and repeating a finished evaluation repeats its result.
* *Alignment*: the number paired with response token j is the teacher's for token j of the same
  row, and rows can be stacked.
* *Batch*: a failure costs what the code says it costs: a sample, not its siblings; a gate, not
  the step.
* *Pass rate*: what is taken for measured was measured, and the filter applies its rule to each
  row's own numbers.
* *StreamingBench*: no question is asked twice or passed over because of another one, and a
  report sums up the file after any number of restarts.
* *Cues*: a cue that is used is the one that both layers looked at; every row is written once.
* *Trainer*: a job that was killed and resumed is, in the data it has seen and the weights it has
  reached, a job that was not.
* *Asynchronous mode*: no sample is lost, stale or used twice, and nobody waits for ever.
* *Servers*: a request survives every weight update and every change of the pool.

The hazards behind these statements, each at its line, are listed in `PROJECT.json`.

## 2. Modules

    OvoEval         <- OvoEvalProofs         \
    StreamingBench  <- StreamingBenchProofs  /  MCEval
    AgentBatch      <- AgentBatchProofs      \  MCStep, MCAgentBatch
    TeacherAlign    <- TeacherAlignProofs    /  MCStep, MCTeacherAlign
    CueGen          <- DataProofs            \  MCFiles, MCCueGen
    PassRate        <- DataProofs             | MCFiles, MCPassRate
    TrainerLoop     <- TrainerLoopProofs     /  MCFiles            implements DurableRun
    FullyAsync      <- FullyAsyncProofs         MCFullyAsync
    ServerPool      <- ServerPoolProofs         MCServerPool

A component's module declares the constants with their assumptions, the state, one action per
operation and the properties. `<module>Proofs` extends it with the theorems; `DataProofs` holds those
of the two jobs that prepare the training data, `CueGen` and `PassRate`, and extends both. Modules that
are extended together have names of their own for what all of them have (`CueSpec`, `PassNext`,
`AlignTypeOK`, `BenchInit`).

`MCEval`, `MCStep` and `MCFiles` each put components to TLC that are asked the same kind of question:
the evaluators that resume from what earlier launches left, the two views of one step's batch, the
jobs that resume from their own files. These components exchange nothing but finished files, so nothing
is composed: a variable `job`, chosen at the start, says which one a behaviour is about, and the others
stay in their initial state. An invariant of one component is then checked in all its states; a liveness
property is stated for its own job (`CueNoOverlapNoGaps` is `job = "cue" => NoOverlapNoGaps`). Every MC
module gives constants values and adds a stuttering step where the program ends, so that deadlock
checking stays on. Next to a definition stands its mutant (`Missing`/`MissingButLast`), the plausible
mistake that the property named in `PROJECT.json` must notice; mutants are not used by the
specifications.

### OvoEval

| Model | Code |
|---|---|
| `pc`, `split`, `pos`, `doneKeys` | where a rank's `main` is, its loop position, its `done_keys` |
| `rows[s]`, `tail[s]` | the shard file: readable lines, and how it ends |
| `marker[s]` | the `done` file |
| `next`, `seen`, `merged`, `reports` | rank 0's merge and the reports on disk, oldest first |
| `ClearMarker`, `Resume` | lines 227-231 |
| `Skip`, `Evaluate`, `FlushStart`, `FlushEnd`, `NextSplit` | the three annotation loops and `append_checkpoint_row` |
| `WriteMarker`, `MarkersFound`, `Timeout` | `write_done_marker`, `wait_for_done_markers` |
| `MergeShard`, `OpenReport`, `CloseReport` | `merge_shard_results`, the dump |
| `Crash`, `LauncherKill`, `Relaunch` | a rank dies; `accelerate launch` ends the others; the operator starts it again |

Shard 0 is the result directory itself, used by a launch with one rank; rank r of a larger one
uses shard r + 1. `tail` is *clean*, *open* (the last line is whole but has no newline, and the
next append ends up on it), *part* (being written) or *bad* (a line that is not JSON; the code
raises on it in every later launch). A rank beyond the end of a short list is handed the list's
last element, as accelerate does; this is why merging has to drop duplicates. A missing clip
gives a row without answer (`answered = FALSE`) that counts as done.

A report is known to be complete only if all launches over the directory had the same number of
ranks (`Uniform`): after three ranks, a launch with two finds markers of ranks that no longer own
the same slices, and rank 0 may merge before the slower rank has removed its stale one. Seconds are abstracted: the
deadline may pass at any moment at which a marker is missing.

### TeacherAlign

A log-probability is reduced to the token it belongs to, `<<row, j>>`; 0.0 is `Zero`. The actions
follow a row: `Extract` (the server's left shift with a dummy at the end), `Align` (the length
mismatch path of `compute_teacher_logprobs_single`), `Pad`, the gate's slice, unpadding of the
whole batch into one flat list and the loss's slice by offsets. Rows, their prompt and response
lengths and the teacher's prompt lengths are arbitrary within the widths. Responses have at least
one token: for an empty one Python's `[-0:]` would take the whole list, and a rollout
returns at least its end token.

### AgentBatch

One `generate_sequences` call. A sample is a task that runs the rollout, builds the teacher's
inputs and makes its passes in the code's order; every one of these may fail. `teacher`, `base`
and `dense` are mandatory (an exception fails the sample), `nocue` and `neg` are optional (an
exception is logged). `Fill` substitutes failed samples by the first finished sibling;
`StartRetry`, `FillAll` and `Reraise` are the text-only retry when a whole chunk failed. `Keys`
is what `_postprocess` puts into the worker's batch, `Concat` the manager's concatenation, which
raises when workers disagree on keys. `ComputeGates` is the trainer's: weights are reduced to
their side of 1, which is what standardising by mean decides when alpha is positive and the clip
interval holds 1 in its interior (both are so in every launch script). A validation batch ends
when it is concatenated. A row without an optional pass scores 0 and is standardised with the others;
the comments call its gate neutral, which is `FallbackNeutral`. The precedence of the ways to build a teacher prompt is abstracted to
`PromptBuilt`; distillation is enabled. A substituted row keeps its own uid, so it stays in its
own group. The fallback of the dense base pass to the student's inputs changes no key and has no
counterpart.

### PassRate

One chain per role. `Skip`, `StartRun`, `ChainEnds`: the loop of `chain_passrate.sh`, which counts
newlines (`wc -l`). `StartRun` also reads back the finished idxs, passing over lines that do not
parse. `Answer`: a thread of the pool gets an answer or an exception; a row is under way only
while fewer than `Threads` earlier ones are. `WriteLine`: `ex.map` yields in the order of the
rows, whatever order they finished in. `Die` kills the run, leaving nothing, a part of the line
or a line without newline; the chain, which has no `set -e`, goes on with the next seed, or dies
too. `Relaunch` starts a chain again; `Filter` is `filter_by_pass_rate.py`, whose `load_counts`
raises on a line that is not JSON. Each line carries, as history, the row of the pool it is
about; the code never sees it.

### StreamingBench

`Entries` is the annotation file; `Videos` groups the questions by path in the order of the first
entry and sorts each group by time, stably. A key (`MakeKey`) holds the first `Limit` characters of
the question; `IsDone` also accepts a key cut at `OldLimit` among the keys read at the start
(`legacy`). `Launch` is `load_jsonl_results`, `Answer` the query with both of its outcomes: an
exception is a record like any other. `ending = "open"` is a last line without newline, which the next
append spoils; `bad` a line that is not JSON, on which every later launch raises. `OpenScores` and
`WriteReport` are `save_json`, which empties the file first. `Provide` lets a missing video appear at any time. The results
file with a time stamp in its name is read by nobody and only a step of the control.

### CueGen

A shard is one process. `Take`, `GenerateCue`, `Judge` are a pool thread's way through `work(idx)`;
what the rule layer finds in a cue and what the judge replies are arbitrary. `Drawn` and
`AfterAttempt` are the five variables that the retry loop replaces. `Write` is the loop over
`ex.map`. `Kill` ends a shard; `Start` opens its file with "w", so a restarted shard begins anew.
A judge's reply that holds neither word lets the cue pass (`JudgeLeak`), although the comment on the
line says that only an explicit SAFE does: `OnlySafePasses` states the comment, `LinesJustified` what the
code guarantees, that the verdict is about this very cue and that a failed request is no pass.

### TrainerLoop and DurableRun

Weights are the sequence of the batches they were trained on, so "the same weights" is "the same
batches in the same order"; a batch is a position in a permutation of the data. `pc` walks through
`fit`: `Generate` (which puts the servers to sleep), `UpdateCritic` or `UpdateActor`, the save in six
steps (`OpenShards` and `CloseShards` per part, with `ensure_checkpoint_capacity` before and
`register_checkpoint` after, `SaveData`, `TruncateTracker`, `WriteTracker`), `SyncWeights`,
`EndStep`. `Crash` may come between any two. `Launch` reads the tracker as `find_latest_ckpt_path`
does and restores weights, epoch and dataloader; at an epoch boundary the dataloader is not restored
(`LoaderAt`). A folder's part is absent, partial or whole: how far each rank came inside a save does
not matter to a loader that needs all shards. `esi` is the expiry check, which may ask for a save at
any step.

`DurableRun` is the promise: `live` weights grow by the batch that comes next in the data, `Commit`
makes them `durable`, a start continues from what is durable. `TrainerLoop` refines it with
`durable` the actor of the tracked checkpoint (`RunSpec`).

### FullyAsync

Coroutines of the rollouter's event loop interleave at awaits only, so an action is what runs
between two awaits, and a value read before one is kept in a variable (`full`, `snap`). `task` is a
sample's generation task: *gen*, *put* (in the queue, the call has not returned), *fin* or *err*
(finished, but still in `active_tasks`: the set is cleaned by the processor, not by the task).
`CheckPaused` to `Submit` are `_processor_worker`; `SendEnd` the end of
`_streaming_generation_main`; `MonitorRead` to `MonitorResume` the monitor; `Collect`, `Train`,
`Stop` the trainer; `ResetStaleness` and `ResetStalenessEnd` the two sides of the await in
`reset_staleness`. The message queue is an actor and its calls are atomic.

### ServerPool

`Acquire` and `Release` are the load balancer's; a release is on its way (`owed`) until the actor
runs it, and an actor runs the calls of one caller in order. `pool` is the set of keys of
`_inflight_requests`; among equal loads `min` takes the first key of the dict, which is `Rank`:
standalone servers, then hybrid ones, since these are always added behind. `Enter`, `Token`, `Return` are one call
of a server, token by token, each token known by the weight version that produced it. `Abort` sends
back what a server was generating; the client merges it (`Merge`) and calls again with the tokens
produced so far as prompt. `Script` lists the trainer's steps in the order of
`_fit_update_weights`, `update_weights` and `_trainer_side_validate`; each reaches the servers of
its group one by one. The engine is external: paused, it keeps new calls waiting; with its memory
freed, it raises.

Three calls of the trainer fail without stopping it, because their exception is logged and swallowed:
`abort_all_requests` (`AbortFails`: the engine is not paused and goes on), `add_replicas` and
`remove_replicas` (`Fails` in `AddServers` and `RemoveServers`: the balancer has or has not run the call
by then, and `alive_replicas`, the variable `alive`, keeps its value either way, so that the next call
skips or repeats). `lost` records as history which kinds have failed. A removal that was lost leaves the
hybrid servers in the pool while the trainer puts them to sleep; being idle, they then attract the
least-loaded routing and refuse every call until the next validation wakes them. `CutOff` is a call
that a failed abort has left running when the memory is freed. Only the branch of `abort_all_requests`
for vLLM 0.12 and later is modelled, which pauses the engine: `docs/INSTALL.md` installs 0.20.2.

## 3. Runs

| Run | Instance | Shows |
|---|---|---|
| `eval_restart` | *OVO-Bench*: 1 or 2 ranks per launch, 2 lists, one shorter than 2 ranks; 1 fault, 2 reports. *StreamingBench*: 2 videos, 5 questions, 3 launches. 1,188,634 states | no duplicate rows, honest markers, each annotation once, and, under one rank count, complete and reproducible reports; one record per key, only shadowed questions passed over, a whole report sums up the file as it was at some moment; under fairness each comes to a report unless a line was torn |
| `step_batch` | *batch*: 2 workers of 2 samples, all passes, the cue gate over the batch, the contrastive one over uid groups. *alignment*: 2 rows, prompts to 2, responses to 3, teacher prompts to 3. 716,110 states | rows usable, raising a last resort, crashes explained; rows stack, the loss is aligned, both views of the gate agree; under fairness the step ends |
| `file_jobs` | *cues*: 3 rows, 2 shards, 2 threads, 1 retry, 1 kill. *pass rates*: 2 rows, 1 seed, 2 threads, 1 death. *training*: 3 epochs of 2 steps, save every 3, warmup 2, critic, 2 checkpoints kept, 3 launches. 112,528 states | clean cues were looked at by both layers, fallback is a last resort, the files come to hold each row once, in order; enough parsable lines mean every row, chains end; on-policy batches, the tracked checkpoint whole and of one moment, resumption fails only on a torn tracker, `DurableRun` is implemented, a launch that is not killed ends with its last step durable |
| `async_pipeline` | 5 samples, queue of 3, 2 tasks, batches of 1, 1 failure; 891,566 states | samples conserved, every full batch is trained on; the run ends, also behind a full queue and after an exception |
| `pool_validate` | 2 requests, a standalone and a hybrid server, cache of 1, 1 update with validation, failing calls at four steps; 1,895,919 states | real load counts, versions that bound the tokens, sticky sessions, every refusal explained; every request is answered or refused by a hybrid server, none for lack of context |
| `agent_fallback` | 1 worker of 2 samples, the cue gate | *violated*: a row without its no-cue pass is weighted down instead of neutral |
| `cue_judge` | 1 row, 1 retry | *violated*: a reply with neither word lets the cue through |
| `passrate_perfect` | 2 rows, 2 answers each | *violated*: a row with a perfect teacher is kept |
| `passrate_seeds` | 2 seeds that draw different rows | *violated*: rows kept on answers about other rows |
| `async_stale` | batches of 1, 2 samples allowed | *violated*: 3 samples in generation or queue, since `reset_staleness` forgets the one in the processor's hand |
| `async_stall` | batches of 2, 3 samples allowed | *violated*: rollouter and trainer wait for each other for ever |
| `teacher_dense` | as in `step_batch` | *violated*: with a teacher prompt of another length the first response column gets 0.0 |

Each violated property states a sentence of the code's comments or docs; the findings in
`PROJECT.json` quote it next to what the code does. For four of them a theorem says what holds instead:
`GatesOnlyRedistribute` (`FallbackNeutral`), `LinesAreJustified` (`OnlySafePasses`), `FilterIsExact`
(`NeitherPerfect`) and `WaitingIsBounded` (`WithinStaleness`: one sample too many, never two).

Observations without a run of their own, met while modelling:

* `score_all.sh` scores the oldest report of a result directory (`sorted(ovo_files)[0]`), and a
  launch killed during the dump leaves a truncated one that stays the oldest.
* A pass-rate request that fails is recorded with 0 correct answers and never repeated, so the
  filter keeps, as a tie, a row that neither model answered; `KeptExactly`, which `FilterIsExact`
  proves, says what is kept in terms of the recorded numbers. A line cut short by a kill stays in the file and makes
  `filter_by_pass_rate.py` raise, however often the chain is run again.
* `compute_cue_gate_weights` slices the left-shifted rows without the shift: column j scores token
  j + 1, although the comment speaks of each token's own score. Both views are shifted alike
  (`GateViewsAgree`).
* An optional pass that fails for all rows of one worker and not for all of another makes the
  workers' keys differ and the concatenation raise: the second cause in `CrashExplained`.
* With one checkpoint kept, the old folder is removed before the tracker stops naming it; a kill in
  between leaves nothing to resume from. `TrackedConsistent` is therefore checked with two, and the
  default keeps all. After a restart, rotation no longer knows the folders of earlier launches.
* A kill between the two steps of the tracker's rewrite makes every later launch raise
  (`FailsOnlyTorn`). Relaunching a finished job whose `total_training_steps` is below its epochs
  trains one more step each time. A resume at an epoch boundary draws the first permutation again.
* In the asynchronous mode a generation exception ends training as if the data were used up.
* A call that acquired a hybrid server before its removal and arrives after it sleeps raises, even if
  nothing has failed; after a failed removal every call routed to a hybrid server does
  (`RefusalsExplained`, and the exception in `EventuallyAnswered`). After a failed abort, weights are
  loaded under a running call, whose `min_global_steps` is then newer than its first tokens
  (`VersionSpan`). A resumed answer may become longer than `response_length` when its prompt is
  shorter than `prompt_length`; the caller truncates it.
* StreamingBench questions that agree in the characters of the key, video and time share one
  record.

Bounds. Every hazard above needs two of something (ranks, workers, rows, shards, requests, epochs)
and one thing that goes wrong; the instances have that much. In `eval_restart` lists shorter than, as
long as and longer than the number of ranks occur, and the number of ranks may change;
`MaxReports` exceeds `MaxFaults`, so that every launch can still write one. In training (`file_jobs`)
saves fall inside and at the end of epochs, the third checkpoint rotates the first, and a job that
was resumed is killed again; `StepsPerEpoch` = 2 has a boundary and an inner position. In
StreamingBench two questions share a key, one shadows another, and a video comes in two entries;
the last of its launches is not killed. In `async_pipeline` the limits of queue, tasks and freshness
are all reached; `MaxRequired - Required * Sync >= MaxConcurrent`, the case that does not stall. In
`pool_validate` `CacheSize` = 1 makes entries evict each other. `FailAt` names the steps of `Script` at
which a call may fail: the first abort of the standalone server, the adding, the last abort of the hybrid
server and the removing, so that weights are loaded, servers added and memory freed after a failure. A
second update is out of TLC's reach together with these; what it would add, a validation that begins after
a lost removal, is the second initial state of `MCInit`. (The theorems start from `Init`, and their
invariant covers both.) `MaxFaults`, `MaxKills`, `MaxFailures`, `MaxLaunches` and `MaxReports` bound how
often things go wrong, not where. `TeacherWidth` and `Utilities` bound lengths and scores that the
code leaves open. The theorems of section 4 hold for every value of the bounds.

Type invariants. One is proved for every module; those of `OvoEval`, `TeacherAlign` and `AgentBatch`
are also checked by the runs. The other cfgs list the properties that relate pieces of the state.

Fairness. *OvoEval*: ranks, the launcher's killing of surviving ranks, and rank 0's collection run
on by themselves; the operator starts a failed launch again. *AgentBatch*: each task, worker and
the trainer go on; a server answers or raises. *PassRate*: a chain that has something to do does
it, requests have a timeout (`--timeout`). *StreamingBench*, *CueGen*, *TrainerLoop*: the process
runs on and one that is down is launched again. *FullyAsync*: each coroutine, task and the trainer is
scheduled again and again; a waiter gets `asyncio.Lock` in turn. *ServerPool*: each client and the
trainer go on; a call that fails returns all the same. No strong fairness is used, and nothing is assumed about faults or about which of
several answers comes first.

## 4. Proofs

All theorems hold for every value of the constants that meets the assumptions named in the
modules (positive sizes, non-empty sets of rank counts, Boolean flags, lists that are lists); a few
need a condition besides, named below. Each inductive invariant is shown to hold
initially and to be kept by every action, one step per action; the theorems follow from it. Every
invariant was model-checked on the instances of section 3 before it was proved.

* **OvoEvalProofs**: `TypeCorrect`, `ResumeIsIdempotent`, `MarkersAreHonest`,
  `ReportsAreComplete`, `ReportsCountOnce`, `RerunsReproduce`, `MergesAreIsolated`. The properties speak of files and
  reports, which depend on what a rank believes. The invariant therefore adds: which ranks exist in a
  launch (`LaunchInv`); that everything before a rank's position is in its `doneKeys` (`CursorInv`);
  that what is in `doneKeys` is on disk, but for the row being written (`DiskInv`); when a file can end
  unterminated (`TailInv`); that a marker's shard covers its slice in some launch (`MarkerInv`);
  that what the merge has kept is the first row of every key in the shards read so far
  (`MergeInv`); and that this is what is being dumped (`DumpInv`). Completeness then needs that
  the slices of all ranks cover every list, proved from the arithmetic of `SliceStart` and
  `SliceEnd`. `RerunsReproduce` compares two reports: both are the same function of the shard files
  (`FirstRows`), and a shard that was merged once holds all of its slice and is not written to any
  more (`Frozen`), because a rank evaluates only keys of its slice (`PosInv`) that it did not find.
  From the same facts `MergesAreIsolated`, an action property: while rank 0 merges and dumps, no rank
  appends a row to a shard of the launch, although rank 0 may have found a marker that an earlier
  launch left. It holds while the number of ranks is always the same; with 2 ranks after 3, TLC finds
  a rank that appends during the merge.
* **TeacherAlignProofs**: rows stack, the loss is aligned, the two views agree. Each conversion is
  an element-wise function; lemmas say what it returns (`ExtractShape`, `AlignShape`, `PadShape`,
  `GateColumns`), the invariant what a row has gone through (`StageInv`) and where row r begins in
  the flat list (`FlatInv`).
* **AgentBatchProofs**: `TypeCorrect`, `RowsAreUsable`, `RaiseIsLastResort`,
  `CrashesAreExplained`, `GatesOnlyRedistribute`. A finished sample has made every mandatory pass,
  because passes leave `todo` only by returning or, if optional, failing (`PassInv`); a worker has
  replied only with rows filled from finished samples of its chunk, which no longer change
  (`WorkerInv`); the step's outcome is a function of the workers' replies (`StepInv`). The gates
  compare a score with a mean, so their theorem needs that a sum lies strictly between the size of
  the set times its least and its greatest score unless all are equal (`TotalBounds`, `MeanSplits`).
* **DataProofs**, cues: `TypeCorrect`, `LinesAreJustified`, `ShardsPartition`. A line copies the row's
  variables as the thread left them, so the invariant says for each stage what they hold (`RowOK`: a
  row being generated is unscreened and below the limit, a row at the judge has an unflagged cue of
  the present attempt, a finished row is justified). `ShardsPartition`, the safety part of
  `NoOverlapNoGaps`, needs that rows are written in order (`PrefixInv`), that the lines of a file are
  the written rows of its shard (`FileInv`), and what a shard that waits or has ended looks like
  (`RestInv`); that row numbers modulo `NumShards` split the table is `RowsDisjoint` and
  `RowsCovered`.
* **DataProofs**, pass rates: `RateTypeCorrect`, `SkippedFilesAreComplete`, `FilterIsExact`,
  `RowsAskedOnce`, `WholePoolIsKeptByOwnAnswers`. `RateInv`
  says that no idx has two lines of a file that parse, and that a line is about the row which the seed
  drew for its idx (`FilesSound`); that a run still has to ask only idxs without a line and keeps
  answers with their rows (`RunsFresh`); and that the filter runs when both chains have ended
  (`FilterLast`). A file of `NumIdx` lines that parse then has `NumIdx` different idxs out of `NumIdx`,
  so all of them (`FullFile`, the pigeonhole principle). `FilterIsExact` follows the records that
  `load_counts` keeps back to the lines of the file; like `KeptExactly` it speaks of one seed that
  covers the pool. `WholePoolIsKeptByOwnAnswers` is the other side of the violated
  `KeptByOwnAnswers`: with `Pool <= Limit`, where every seed takes every row, it holds for any
  number of seeds, so the mix-up comes from sampling alone.
* **StreamingBenchProofs**: `TypeSafety`, `FileHasOneRecordPerKey`, `ReportsAreHonest`,
  `FoundQuestionsAreAsked`. A running launch has the file in memory and exactly its keys in
  `doneQuestions` (`InMemory`); every question that it has passed, of a video that it found, has a record
  or was shadowed by a legacy key at its start (`AskInv`). That grouping and sorting the annotations
  yields lists of videos and questions is `VideosAreLists`.
* **TrainerLoopProofs**: `TypeSafety` and `ServersOnPolicy` from `BaseInv`: `global_steps` is the
  place of the batch in the data (`Position`), servers that can be asked hold the actor's weights
  (`Synced`). `TrackedIsConsistent`, `OnlyTornFails` and `ImplementsDurableRun`, the refinement,
  from `RunInv`: the weights in memory are those of an uninterrupted run (`Memory`), the tracked
  folder is whole (`Tracked`), the tracker lags behind the step until it is rewritten (`Behind`), and
  the newest path that a manager remembers is the tracked one or the one being saved, so rotation
  never reaches the tracked one (`Paths`). These three assume `KeepsOlder`: no manager keeps exactly
  one checkpoint. With one, the rotation removes the tracked shard before the tracker names the new
  one, and the statements are false (see section 3). Two action properties follow under the same
  condition: `DurableOnlyGrows`, from the refinement (no step, crash or resume takes a batch out of
  what is durable), and `TrackerOnlyAdvances` (the tracker never goes back to an earlier step, although a
  resumed job counts its steps from an earlier one again).
* **FullyAsyncProofs**: `TypeSafety`, `SamplesConserved`, `TrainsAllBatches`, `WaitingIsBounded`.
  `Struct` says what the processor may hold where (`Hands`), that the end signal is the last element
  of the queue and is never dropped (`Closing`), and that the trainer takes whole batches
  (`Batches`). `CountInv` is conservation twice, per sample (`Conserved`, `Unfed`) and in numbers
  (`Balance`), which `TrainsAllBatches` needs. `Freshness` relates what waits to
  `staleness_samples`, also between the read and the write in `reset_staleness`.
* **ServerPoolProofs**: `TypeSafety`, `LoadCountsAreReal`, `VersionsEncloseTokens`,
  `ConversationsStick` and `RefusalsHaveReasons` (action properties), `AnswersFit`, `OnlyHybridsRefuse`,
  all for any `FailAt`. `Phase` says which servers each step of the trainer's
  script has left paused, asleep, in the pool and with which version, as far as `lost` allows: the pool
  is what the script says only while no adding or removing has failed, `paused` only while no abort has,
  but sleep and versions never depend on a failure; `Quiet` says that, while no abort has failed, a paused
  or sleeping server generates nothing; `Hold` that a call on its way owes no release, from which the counts follow.
  `Span` follows an answer's versions through `Abort` and `Merge`, `Sharp` the bound from below that a
  failed abort gives up. `Lru` says that a conversation's
  cache entry is overtaken only by conversations routed since, and lost only when these fill the
  cache. `Room` follows the length of an answer: a call that is still to be made finds room for a
  token, a call in progress stays below its `max_tokens`, so what an interruption returns leaves
  room again. Hence an answer fits in `prompt_length + response_length`, and since `max_model_len`
  is at least that much (`PoolAssumption`) and standalone servers never sleep, only a hybrid
  server refuses a call: the safety part of `EventuallyAnswered`.

Induction over data is done with minimal counterexamples: a family of subsets of a finite set has a
minimal member (`MinimalSubset`, from the well-foundedness of strict inclusion), and so has a set of
natural numbers. The folds of `AgentBatch` and `StreamingBench` are recursive functions on the
subsets of a finite set; that they are defined (`SumsExist`, `GrowsExist`) and what they yield is
proved so.

Only model-checked: liveness (`EventuallyReported`, `EventuallyScored`, `EventuallyEnded`, `ChainsEnd`,
`NoOverlapNoGaps` beyond `ShardsPartition`, `LaunchEndsDurable`, `EventuallyDone`,
`EventuallyAnswered` beyond `OnlyHybridsRefuse`), which the proof system does not handle under
fairness, and the violations, which are counterexamples. Every invariant and every action property
that a passing run checks is stated by a theorem.

## 5. Not modelled

Everything in `PROJECT.json` with status *not_modelled*, with the reason. In short: the numerical
content of models, losses, kernels and advantage estimators, video decoding, text matching, one-shot
converters, and the vendored framework outside the trainer loop, the asynchronous mode and the server
pool. That framework is most of the repository's lines: engines, kernels and model adapters with no
protocol between processes of their own. In the modelled parts: the top-k forward-KL path of the
teacher log-probabilities, non-tensor columns and metrics of the batch, the token-level cue gate's
arithmetic, two chains of one role writing to one file at once, asynchronous checkpoint saves and
remote copies, checkpoints of the asynchronous trainer, explicit `max_tokens`, `abort_all_requests` on vLLM
before 0.12 (which aborts without pausing), a pause that raises after it has stopped a part of the
engine's calls, and file-system
failures other than a cut write.

## 6. Further work

1. Pure operators: the frame indices of the recent window and the averages of OVO scoring against
   reference definitions.
2. What `Uniform` could be weakened to: the changes of the number of ranks after which a report of
   `OvoEval` is still complete.
3. Checkpoints of the asynchronous trainer, whose resumption meets both `TrainerLoop` and
   `FullyAsync`.
