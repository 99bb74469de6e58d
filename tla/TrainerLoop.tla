---------------------------- MODULE TrainerLoop ----------------------------
(***************************************************************************)
(* RayPPOTrainer.fit with its checkpoints: the loop over epochs and        *)
(* batches, generation on the rollout servers, the update, the save in its *)
(* steps (shards of the actor and of the critic, rotation of old ones, the *)
(* dataloader's state, the tracker file), the weight sync, a crash between *)
(* any two of these, and the next launch, which resumes from the tracker.  *)
(*                                                                         *)
(* Weights are the sequence of the batches they were trained on. A batch   *)
(* is [order, pos]: the pos-th batch of the order-th permutation that the  *)
(* sampler's generator has drawn since it was seeded.                      *)
(***************************************************************************)
EXTENDS Integers, Sequences

CONSTANTS StepsPerEpoch, \* len(train_dataloader)
          TotalEpochs,   \* trainer.total_epochs
          TotalSteps,    \* total_training_steps
          SaveFreq,      \* trainer.save_freq, 0 if it is not positive
          MaxKeep,       \* max_actor_ckpt_to_keep / max_critic_ckpt_to_keep, 0 for null
          Warmup,        \* trainer.critic_warmup
          UseCritic,     \* use_critic
          MaxLaunches    \* bound: launches of the job

Parts == IF UseCritic THEN {"actor", "critic"} ELSE {"actor"}

ASSUME TrainerAssumption ==
    /\ {StepsPerEpoch, TotalEpochs, TotalSteps} \subseteq Nat \ {0}
    /\ {SaveFreq, Warmup, MaxLaunches} \subseteq Nat
    /\ MaxKeep \in [Parts -> Nat]
    /\ UseCritic \in BOOLEAN

VARIABLES pc,       \* where fit is, or "down", "done", "failed"
          step,     \* global_steps
          epoch,    \* the epoch of the outer loop
          loader,   \* the train dataloader: permutation and batches drawn of it
          w,        \* weights in the trainer, per part
          rollout,  \* weights on the rollout servers
          awake,    \* whether the servers hold weights and cache
          gen,      \* the servers' state when they generated the present batch
          saved,    \* previous_saved_paths of each checkpoint manager
          disk,     \* the global_step_<n> folders
          tracker,  \* latest_checkpointed_iteration.txt
          launches  \* launches so far

volatile == <<step, epoch, loader, w, rollout, awake, gen, saved>>
vars == <<pc, step, epoch, loader, w, rollout, awake, gen, saved, disk, tracker, launches>>

Batch == [order : Nat \ {0}, pos : 1..StepsPerEpoch]
Fresh == [order |-> 1, pos |-> 0]
None == [p \in Parts |-> <<>>]

(***************************************************************************)
(* Files. A part of a folder is "absent", "partial" (some ranks or files   *)
(* of it are not written) or "whole" with the weights it holds.            *)
(***************************************************************************)
Steps == 0..(StepsPerEpoch * TotalEpochs)
Absent == [st |-> "absent", val |-> <<>>]
Partial == [st |-> "partial", val |-> <<>>]
Whole(v) == [st |-> "whole", val |-> v]
NoFolder == [part |-> [p \in Parts |-> Absent], data |-> [st |-> "absent", val |-> Fresh]]
Exists(n) == disk[n].data.st # "absent" \/ \E p \in Parts : disk[n].part[p].st # "absent"

Last(s) == s[Len(s)]
Running == pc \notin {"down", "done", "failed"}
IsLast == step >= TotalSteps

Init ==
    /\ pc = "down" /\ step = 0 /\ epoch = 0 /\ loader = Fresh
    /\ w = None /\ rollout = <<>> /\ awake = FALSE
    /\ gen = [weights |-> <<>>, awake |-> TRUE]
    /\ saved = None
    /\ disk = [n \in Steps |-> NoFolder]
    /\ tracker = [st |-> "absent", step |-> 0]
    /\ launches = 0

\* The process is gone with everything it held in memory.
Reset ==
    /\ step' = 0 /\ epoch' = 0 /\ loader' = Fresh /\ w' = None /\ rollout' = <<>>
    /\ awake' = FALSE /\ gen' = [weights |-> <<>>, awake |-> TRUE] /\ saved' = None

-----------------------------------------------------------------------------
(* Launch: find_latest_ckpt_path and _load_checkpoint with resume_mode     *)
(* auto, then update_weights. A tracker cut short does not parse as an     *)
(* integer, and missing shards make load_checkpoint raise.                 *)

FromScratch ==
    \/ tracker.st = "absent"
    \/ tracker.st = "whole" /\ ~Exists(tracker.step)
LoadFails ==
    \/ tracker.st = "torn"
    \/ tracker.st = "whole" /\ Exists(tracker.step)
       /\ \E p \in Parts : disk[tracker.step].part[p].st # "whole"

\* Mutant of LoaderAt: the saved state is restored at an epoch boundary too.
LoaderAlways(n) == IF disk[n].data.st # "whole" THEN Fresh ELSE disk[n].data.val

\* Mutant of LoaderAt: the dataloader always begins anew.
LoaderFresh(n) == Fresh

\* The dataloader after _load_checkpoint: at an epoch boundary the saved state
\* marks it as exhausted and is not restored.
LoaderAt(n) ==
    IF disk[n].data.st # "whole" \/ n % StepsPerEpoch = 0 THEN Fresh ELSE disk[n].data.val

Resume(n, weights, data) ==
    /\ w' = weights /\ loader' = data
    /\ epoch' = n \div StepsPerEpoch /\ step' = n + 1
    /\ rollout' = weights["actor"] /\ awake' = TRUE
    /\ gen' = [weights |-> <<>>, awake |-> TRUE] /\ saved' = None
    /\ pc' = "loop"

Launch ==
    /\ ~Running /\ launches < MaxLaunches /\ launches' = launches + 1
    /\ \/ FromScratch /\ Resume(0, None, Fresh)
       \/ /\ ~FromScratch /\ ~LoadFails
          /\ Resume(tracker.step, [p \in Parts |-> disk[tracker.step].part[p].val],
                    LoaderAt(tracker.step))
       \/ LoadFails /\ pc' = "failed" /\ Reset
    /\ UNCHANGED <<disk, tracker>>

-----------------------------------------------------------------------------
(* The loop. *)

\* The next batch is drawn, the servers answer it and are put to sleep.
Generate ==
    /\ pc = "loop" /\ epoch < TotalEpochs /\ loader.pos < StepsPerEpoch
    /\ loader' = [loader EXCEPT !.pos = @ + 1]
    /\ gen' = [weights |-> rollout, awake |-> awake]
    /\ awake' = FALSE
    /\ pc' = "update"
    /\ UNCHANGED <<step, epoch, w, rollout, saved, disk, tracker, launches>>

\* The dataloader is exhausted: the outer loop goes on with a new iterator.
NextEpoch ==
    /\ pc = "loop" /\ epoch < TotalEpochs /\ loader.pos = StepsPerEpoch
    /\ epoch' = epoch + 1
    /\ loader' = [order |-> loader.order + 1, pos |-> 0]
    /\ UNCHANGED <<pc, step, w, rollout, awake, gen, saved, disk, tracker, launches>>

\* The outer loop is over without a last step.
EndOfEpochs ==
    /\ pc = "loop" /\ epoch >= TotalEpochs
    /\ pc' = "done" /\ Reset
    /\ UNCHANGED <<disk, tracker, launches>>

Trained(p) == Append(w[p], loader)

\* critic_warmup: only the critic learns, the servers are only woken up.
UpdateCritic ==
    /\ pc = "update" /\ Warmup > step
    /\ w' = [p \in Parts |-> IF p = "critic" THEN Trained(p) ELSE w[p]]
    /\ rollout' = w["actor"] /\ awake' = TRUE
    /\ pc' = "end"
    /\ UNCHANGED <<step, epoch, loader, gen, saved, disk, tracker, launches>>

\* esi: the training plan is close to expiration.
SaveNow(esi) == SaveFreq > 0 /\ (IsLast \/ step % SaveFreq = 0 \/ esi)

UpdateActor ==
    /\ pc = "update" /\ Warmup <= step
    /\ w' = [p \in Parts |-> Trained(p)]
    /\ \E esi \in BOOLEAN : pc' = IF SaveNow(esi) THEN "actor" ELSE "sync"
    /\ UNCHANGED <<step, epoch, loader, rollout, awake, gen, saved, disk, tracker, launches>>

\* Mutant of SyncWeights: the servers are woken up with the weights they had.
SyncOnlyWake ==
    /\ pc = "sync" /\ awake' = TRUE /\ pc' = "end"
    /\ UNCHANGED <<step, epoch, loader, w, rollout, gen, saved, disk, tracker, launches>>

SyncWeights ==
    /\ pc = "sync"
    /\ rollout' = w["actor"] /\ awake' = TRUE
    /\ pc' = "end"
    /\ UNCHANGED <<step, epoch, loader, w, gen, saved, disk, tracker, launches>>

\* Validation and logging; global_steps moves on, or fit returns.
EndStep ==
    /\ pc = "end"
    /\ IF IsLast
       THEN pc' = "done" /\ Reset
       ELSE /\ pc' = "loop" /\ step' = step + 1
            /\ UNCHANGED <<epoch, loader, w, rollout, awake, gen, saved>>
    /\ UNCHANGED <<disk, tracker, launches>>

-----------------------------------------------------------------------------
(* _save_checkpoint *)

Suffix(s, n) == SubSeq(s, Len(s) - n + 1, Len(s))

\* Mutant of Capacity: all old checkpoints go before the new one is written.
CapacityNone(p) == IF MaxKeep[p] > 1 THEN <<>> ELSE saved[p]

\* ensure_checkpoint_capacity: the paths that stay before the save.
Capacity(p) ==
    IF MaxKeep[p] > 1 /\ Len(saved[p]) >= MaxKeep[p]
    THEN Suffix(saved[p], MaxKeep[p] - 1) ELSE saved[p]

\* register_checkpoint: the paths that stay after it.
Registered(p) ==
    LET all == Append(saved[p], step)
    IN  IF MaxKeep[p] > 0 /\ Len(all) > MaxKeep[p] THEN Suffix(all, MaxKeep[p]) ELSE all

\* The folders once part p of step has become f and the paths that are in
\* neither sequence any more are removed.
Removed(p, kept) == {saved[p][i] : i \in 1..Len(saved[p])} \ {kept[i] : i \in 1..Len(kept)}
DiskWith(p, f, kept) ==
    [n \in Steps |-> IF n = step THEN [disk[n] EXCEPT !.part[p] = f]
                     ELSE IF n \in Removed(p, kept) THEN [disk[n] EXCEPT !.part[p] = Absent]
                     ELSE disk[n]]

Open == [actor |-> "actor_open", critic |-> "critic_open"]

\* The parts are saved one after the other, then the dataloader's state.
AfterSave(p) == IF p = "actor" /\ UseCritic THEN "critic" ELSE "data"

\* Rank 0 makes room, the folder is made and the ranks write their shards.
OpenShards(p) ==
    /\ pc = p
    /\ saved' = [saved EXCEPT ![p] = Capacity(p)]
    /\ disk' = DiskWith(p, Partial, Capacity(p))
    /\ pc' = Open[p]
    /\ UNCHANGED <<step, epoch, loader, w, rollout, awake, gen, tracker, launches>>

\* Behind the barrier rank 0 registers the path and rotates.
CloseShards(p) ==
    /\ pc = Open[p]
    /\ saved' = [saved EXCEPT ![p] = Registered(p)]
    /\ disk' = DiskWith(p, Whole(w[p]), Registered(p))
    /\ pc' = AfterSave(p)
    /\ UNCHANGED <<step, epoch, loader, w, rollout, awake, gen, tracker, launches>>

\* Mutant of SaveData: the state saved is the one before the present batch.
SaveDataStale ==
    /\ pc = "data"
    /\ disk' = [disk EXCEPT ![step].data =
                   [st |-> "whole", val |-> [loader EXCEPT !.pos = @ - 1]]]
    /\ pc' = "track"
    /\ UNCHANGED <<tracker, launches>> /\ UNCHANGED volatile

\* train_dataloader.state_dict() as data.pt.
SaveData ==
    /\ pc = "data"
    /\ disk' = [disk EXCEPT ![step].data = [st |-> "whole", val |-> loader]]
    /\ pc' = "track"
    /\ UNCHANGED <<tracker, launches>> /\ UNCHANGED volatile

\* open(..., "w") empties the tracker; the step recorded beside "torn" is the
\* one that is going to be written, nothing reads it.
TruncateTracker ==
    /\ pc = "track"
    /\ tracker' = [st |-> "torn", step |-> step]
    /\ pc' = "torn"
    /\ UNCHANGED <<disk, launches>> /\ UNCHANGED volatile

WriteTracker ==
    /\ pc = "torn"
    /\ tracker' = [st |-> "whole", step |-> step]
    /\ pc' = "sync"
    /\ UNCHANGED <<disk, launches>> /\ UNCHANGED volatile

Crash ==
    /\ Running /\ pc' = "down" /\ Reset
    /\ UNCHANGED <<disk, tracker, launches>>

Progress ==
    \/ Launch \/ Generate \/ NextEpoch \/ EndOfEpochs \/ UpdateCritic \/ UpdateActor
    \/ SyncWeights \/ EndStep
    \/ \E p \in Parts : OpenShards(p) \/ CloseShards(p)
    \/ SaveData \/ TruncateTracker \/ WriteTracker

Next == Progress \/ Crash

Spec == Init /\ [][Next]_vars

\* Fairness: fit runs on, and a job that is down is launched again.
FairSpec == Spec /\ WF_vars(Progress)

-----------------------------------------------------------------------------
(* Properties *)

PCs == {"down", "done", "failed", "loop", "update", "actor", "actor_open", "critic",
        "critic_open", "data", "track", "torn", "sync", "end"}
Folder == [part : [Parts -> [st : {"absent", "partial", "whole"}, val : Seq(Batch)]],
           data : [st : {"absent", "whole"}, val : [order : Nat \ {0}, pos : 0..StepsPerEpoch]]]

\* The type of the state.
TypeOK ==
    /\ pc \in PCs /\ step \in Nat /\ epoch \in Nat /\ launches \in Nat
    /\ loader \in [order : Nat \ {0}, pos : 0..StepsPerEpoch]
    /\ w \in [Parts -> Seq(Batch)] /\ rollout \in Seq(Batch) /\ awake \in BOOLEAN
    /\ gen \in [weights : Seq(Batch), awake : BOOLEAN]
    /\ saved \in [Parts -> Seq(Nat)]
    /\ disk \in [Steps -> Folder]
    /\ tracker \in [st : {"absent", "torn", "whole"}, step : Nat]

\* Steps that pass before the part's first update.
Skipped(p) == IF p = "actor" /\ Warmup > 1 THEN Warmup - 1 ELSE 0

\* The batch of a step has the step's position in its epoch.
PosOf(n) == ((n - 1) % StepsPerEpoch) + 1

(* Every batch is answered by servers that are awake and hold the weights  *)
(* the update starts from (fit: sleep_replicas after generate_sequences,   *)
(* update_weights on every path that ends a step and after a resume).      *)
OnPolicy == pc = "update" => gen.awake /\ gen.weights = w["actor"]

\* The weights wp of part p are those after n steps of an uninterrupted run:
\* one batch per step, each epoch one permutation from its first batch on.
TrainedThrough(p, wp, n) ==
    /\ Len(wp) = IF n > Skipped(p) THEN n - Skipped(p) ELSE 0
    /\ \A i \in 1..Len(wp) :
          /\ wp[i].pos = PosOf(i + Skipped(p))
          /\ wp[i].pos > 1 /\ i > 1 => wp[i].order = wp[i - 1].order

(* The tracked checkpoint is whole and of one moment: no rotation has      *)
(* taken a shard of it, and actor, critic and dataloader state are those   *)
(* of the step that the tracker names, with each batch of each epoch's     *)
(* permutation seen once, however often the job was killed and resumed.    *)
TrackedConsistent ==
    tracker.st = "whole" =>
        LET f == disk[tracker.step]
        IN  /\ \A p \in Parts :
                  f.part[p].st = "whole" /\ TrainedThrough(p, f.part[p].val, tracker.step)
            /\ f.data.st = "whole" /\ f.data.val.pos = PosOf(tracker.step)
            /\ f.part["actor"].val # <<>> => Last(f.part["actor"].val) = f.data.val

(* A launch fails only because the job was killed between the two steps of *)
(* the tracker's rewrite.                                                  *)
FailsOnlyTorn == pc = "failed" => tracker.st = "torn"

(* A launch that is not killed ends, and when fit has ended the tracked    *)
(* checkpoint is the last step's: no path through save, sync, warmup or    *)
(* the end of an epoch leaves the loop turning or ends it too early.       *)
LaunchEndsDurable ==
    Running ~> \/ pc = "down"
               \/ pc = "done" /\ tracker = [st |-> "whole", step |-> TotalSteps]

(* The trainer implements DurableRun: each launch goes on from the tracked *)
(* checkpoint with the batch that comes next in the data, and only the     *)
(* write of the tracker changes what the next launch goes on from.         *)
Durable ==
    IF tracker.st = "absent" THEN <<>> ELSE disk[tracker.step].part["actor"].val
Ideal == INSTANCE DurableRun WITH
           Skip <- Skipped("actor"), durable <- Durable, live <- w["actor"], up <- Running
RunSpec == Ideal!Spec
=============================================================================
