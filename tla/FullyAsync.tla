----------------------------- MODULE FullyAsync -----------------------------
(***************************************************************************)
(* The fully asynchronous trainer: a rollouter (feeder, processor, one     *)
(* task per sample, monitor: coroutines of one event loop, so a step is    *)
(* what runs between two awaits), a bounded message queue (an actor whose  *)
(* calls are atomic) and a trainer that takes samples from the queue and,  *)
(* after Sync batches, sends new weights and calls reset_staleness.        *)
(*                                                                         *)
(* Sample n is the n-th one fed; End stands for the None that closes       *)
(* pending_queue and the message queue.                                    *)
(***************************************************************************)
EXTENDS Integers, Sequences, FiniteSets

CONSTANTS Total,         \* total_rollout_steps
          Required,      \* required_samples: samples of one training batch
          Sync,          \* trigger_parameter_sync_step
          MaxRequired,   \* max_required_samples, also max_queue_size
          MaxConcurrent, \* max_concurrent_samples
          PendingSize,   \* maxsize of pending_queue
          TestFreq,      \* trainer.test_freq
          MaxFailures    \* bound: generation tasks that raise

ASSUME AsyncAssumption ==
    /\ {Total, Required, Sync, MaxConcurrent, PendingSize, TestFreq} \subseteq Nat \ {0}
    /\ MaxFailures \in Nat
    /\ MaxRequired \in Nat /\ MaxRequired >= Required * Sync
    /\ MaxConcurrent <= MaxRequired

Samples == 1..Total
End == 0

VARIABLES fed,       \* global_steps of the feeder
          feeder,    \* "feed", "end" (the end signal is due) or "done"
          pending,   \* pending_queue
          proc,      \* where _processor_worker is
          held,      \* the sample it has taken from pending_queue
          full,      \* the queue size it has read was at the limit
          task,      \* the generation tasks
          paused, resume, staleness, running, lock,
          monitor,   \* where _async_monitor_loop is
          queue, dropped,
          trainer,   \* where the trainer is
          batch,     \* samples collected for the next batch
          trained,   \* samples trained on, in order
          local,     \* local_trigger_step
          version,   \* current_param_version
          snap       \* len(active_tasks) as reset_staleness has read it

feedVars == <<fed, feeder>>
procVars == <<proc, held, full>>
monVars == <<monitor>>
queueVars == <<queue, dropped>>
trainVars == <<trainer, batch, trained, local, version, snap>>
ctlVars == <<paused, resume, staleness, running, lock>>
vars == <<fed, feeder, pending, proc, held, full, task, paused, resume, staleness,
          running, lock, monitor, queue, dropped, trainer, batch, trained, local,
          version, snap>>

\* active_tasks: a task that has finished stays in the set until the processor
\* takes it out.
Active == {s \in Samples : task[s] # "no"}
Finished == {s \in Samples : task[s] \in {"fin", "err"}}

\* put_sample: a full queue loses its oldest element.
Put(x) ==
    IF Len(queue) >= MaxRequired
    THEN queue' = Append(Tail(queue), x) /\ dropped' = dropped \cup {Head(queue)}
    ELSE queue' = Append(queue, x) /\ UNCHANGED dropped

Init ==
    /\ fed = 1 /\ feeder = "feed" /\ pending = <<>>
    /\ proc = "check" /\ held = End /\ full = FALSE
    /\ task = [s \in Samples |-> "no"]
    /\ paused = FALSE /\ resume = TRUE /\ staleness = 0 /\ running = TRUE /\ lock = "free"
    /\ monitor = "sleep"
    /\ queue = <<>> /\ dropped = {}
    /\ trainer = "collect" /\ batch = <<>> /\ trained = <<>>
    /\ local = 1 /\ version = 0 /\ snap = 0

-----------------------------------------------------------------------------
(* _feed_samples *)

FeedSample ==
    /\ feeder = "feed" /\ Len(pending) < PendingSize
    /\ pending' = Append(pending, fed)
    /\ IF fed >= Total
       THEN feeder' = "end" /\ UNCHANGED fed
       ELSE fed' = fed + 1 /\ UNCHANGED feeder
    /\ UNCHANGED <<procVars, task, ctlVars, monVars, queueVars, trainVars>>

FeedEnd ==
    /\ feeder = "end" /\ Len(pending) < PendingSize
    /\ pending' = Append(pending, End) /\ feeder' = "done"
    /\ UNCHANGED <<fed, procVars, task, ctlVars, monVars, queueVars, trainVars>>

-----------------------------------------------------------------------------
(* _processor_worker *)

\* Head of the loop: paused, or the queue's size is asked for.
CheckPaused ==
    /\ proc = "check"
    /\ IF paused
       THEN proc' = "pause" /\ UNCHANGED full
       ELSE proc' = "decide" /\ full' = (Len(queue) >= MaxRequired)
    /\ UNCHANGED <<held, feedVars, pending, task, ctlVars, monVars, queueVars, trainVars>>

TooStale == staleness >= MaxRequired

\* _should_pause_generation has its answer.
DecidePause ==
    /\ proc = "decide"
    /\ proc' = IF full \/ TooStale THEN "pause" ELSE "get"
    /\ full' = FALSE
    /\ UNCHANGED <<held, feedVars, pending, task, ctlVars, monVars, queueVars, trainVars>>

Pause ==
    /\ proc = "pause" /\ lock = "free"
    /\ paused' = TRUE /\ resume' = FALSE /\ proc' = "drain"
    /\ UNCHANGED <<held, full, staleness, running, lock, feedVars, pending, task, monVars,
                   queueVars, trainVars>>

\* Mutant of Discard: the two sets that asyncio.wait returns are swapped.
DiscardSwapped(D, next) ==
    /\ task' = [s \in Samples |-> IF s \in D THEN task[s] ELSE "no"]
    /\ proc' = IF \E s \in D : task[s] = "err" THEN "raised" ELSE next

\* The tasks in D have been awaited; the exception of one ends the processor.
Discard(D, next) ==
    /\ task' = [s \in Samples |-> IF s \in D THEN "no" ELSE task[s]]
    /\ proc' = IF \E s \in D : task[s] = "err" THEN "raised" ELSE next

\* Tasks that finished during the pause are taken out; more may finish while
\* the processor waits for the lock.
Drain ==
    /\ proc = "drain" /\ lock = "free"
    /\ \E D \in SUBSET Finished : D # {} /\ Discard(D, IF resume THEN "check" ELSE "drain")
    /\ UNCHANGED <<held, full, feedVars, pending, ctlVars, monVars, queueVars, trainVars>>

DrainResumed ==
    /\ proc = "drain" /\ resume /\ Finished = {}
    /\ proc' = "check"
    /\ UNCHANGED <<held, full, feedVars, pending, task, ctlVars, monVars, queueVars, trainVars>>

\* The end signal is counted too.
GetSample ==
    /\ proc = "get" /\ pending # <<>>
    /\ held' = Head(pending) /\ pending' = Tail(pending)
    /\ staleness' = staleness + 1
    /\ proc' = IF held' = End THEN "ending" ELSE "slot"
    /\ UNCHANGED <<full, paused, resume, running, lock, feedVars, task, monVars, queueVars,
                   trainVars>>

\* Before a submission at the limit, and at the end: the lock is taken and
\* kept until a task has finished.
MustWait == \/ proc = "slot" /\ Cardinality(Active) >= MaxConcurrent
            \/ proc = "ending" /\ Active # {}

WaitLock ==
    /\ MustWait /\ lock = "free" /\ lock' = "processor"
    /\ UNCHANGED <<procVars, paused, resume, staleness, running, feedVars, pending, task,
                   monVars, queueVars, trainVars>>

WaitTask ==
    /\ lock = "processor" /\ Finished # {}
    /\ Discard(Finished, proc) /\ lock' = "free"
    /\ UNCHANGED <<held, full, paused, resume, staleness, running, feedVars, pending, monVars,
                   queueVars, trainVars>>

Submit ==
    /\ proc = "slot" /\ ~MustWait /\ (paused => resume) /\ lock = "free"
    /\ task' = [task EXCEPT ![held] = "gen"]
    /\ proc' = "check" /\ held' = End
    /\ UNCHANGED <<full, feedVars, pending, ctlVars, monVars, queueVars, trainVars>>

\* Mutant of SendEnd: the end signal does not wait for the last tasks.
SendEndEarly ==
    /\ \/ proc = "raised" /\ proc' = "crashed"
       \/ proc = "ending" /\ proc' = "stopped"
    /\ Put(End) /\ running' = FALSE
    /\ feeder' = "done"
    /\ UNCHANGED <<held, full, fed, pending, task, paused, resume, staleness, lock, monVars,
                   trainVars>>

\* _streaming_generation_main: the processor has ended or raised; the feeder is
\* cancelled, the end signal is sent either way.
SendEnd ==
    /\ \/ proc = "raised" /\ proc' = "crashed"
       \/ proc = "ending" /\ Active = {} /\ proc' = "stopped"
    /\ Put(End) /\ running' = FALSE
    /\ feeder' = "done"
    /\ UNCHANGED <<held, full, fed, pending, task, paused, resume, staleness, lock, monVars,
                   trainVars>>

-----------------------------------------------------------------------------
(* _process_single_sample_streaming. The put is an RPC: the sample is in   *)
(* the queue before the task ends.                                         *)

Generated(s) ==
    /\ task[s] = "gen" /\ Put(s)
    /\ task' = [task EXCEPT ![s] = "put"]
    /\ UNCHANGED <<feedVars, pending, procVars, ctlVars, monVars, trainVars>>

TaskEnds(s) ==
    /\ task[s] = "put"
    /\ task' = [task EXCEPT ![s] = "fin"]
    /\ UNCHANGED <<feedVars, pending, procVars, ctlVars, monVars, queueVars, trainVars>>

TaskRaises(s) ==
    /\ task[s] = "gen" /\ Cardinality({t \in Samples : task[t] = "err"}) < MaxFailures
    /\ running
    /\ task' = [task EXCEPT ![s] = "err"]
    /\ UNCHANGED <<feedVars, pending, procVars, ctlVars, monVars, queueVars, trainVars>>

-----------------------------------------------------------------------------
(* _async_monitor_loop: a paused rollouter resumes when neither limit      *)
(* holds any more.                                                         *)

MonitorRead ==
    /\ monitor = "sleep" /\ running /\ paused
    /\ monitor' = IF Len(queue) >= MaxRequired THEN "sleep" ELSE "decide"
    /\ UNCHANGED <<feedVars, pending, procVars, task, ctlVars, queueVars, trainVars>>

\* Mutant of MonitorDecide: resuming is left to reset_staleness.
MonitorDecideNever ==
    /\ monitor = "decide"
    /\ monitor' = "sleep"
    /\ UNCHANGED <<feedVars, pending, procVars, task, ctlVars, queueVars, trainVars>>

MonitorDecide ==
    /\ monitor = "decide"
    /\ monitor' = IF TooStale THEN "sleep" ELSE "resume"
    /\ UNCHANGED <<feedVars, pending, procVars, task, ctlVars, queueVars, trainVars>>

MonitorResume ==
    /\ monitor = "resume" /\ lock = "free"
    /\ paused' = FALSE /\ resume' = TRUE /\ monitor' = "sleep"
    /\ UNCHANGED <<staleness, running, lock, feedVars, pending, procVars, task, queueVars,
                   trainVars>>

-----------------------------------------------------------------------------
(* The trainer *)

\* _get_samples_from_queue. The samples of an incomplete batch are lost.
Collect ==
    /\ trainer = "collect" /\ queue # <<>>
    /\ queue' = Tail(queue)
    /\ IF Head(queue) = End
       THEN trainer' = "stop" /\ UNCHANGED batch
       ELSE /\ batch' = Append(batch, Head(queue))
            /\ trainer' = IF Len(batch') = Required THEN "train" ELSE "collect"
    /\ UNCHANGED <<dropped, trained, local, version, snap, feedVars, pending, procVars, task,
                   ctlVars, monVars>>

\* fit_step up to _fit_update_local_step.
Train ==
    /\ trainer = "train"
    /\ trained' = trained \o batch /\ batch' = <<>>
    /\ IF local < Sync
       THEN local' = local + 1 /\ trainer' = "collect" /\ UNCHANGED version
       ELSE local' = 1 /\ version' = version + 1 /\ trainer' = "sync"
    /\ UNCHANGED <<snap, feedVars, pending, procVars, task, ctlVars, monVars, queueVars>>

\* After the loop fit syncs once more unless the last version was just tested.
Stop ==
    /\ trainer = "stop"
    /\ trainer' = IF version % TestFreq # 0 /\ local = 1 THEN "lastsync" ELSE "done"
    /\ UNCHANGED <<batch, trained, local, version, snap, feedVars, pending, procVars, task,
                   ctlVars, monVars, queueVars>>

\* reset_staleness up to the call of get_queue_size, the lock is kept.
ResetStaleness ==
    /\ trainer \in {"sync", "lastsync"} /\ lock = "free"
    /\ lock' = "trainer" /\ paused' = FALSE /\ resume' = TRUE
    /\ snap' = Cardinality(Active)
    /\ UNCHANGED <<staleness, running, trainer, batch, trained, local, version, feedVars,
                   pending, procVars, task, monVars, queueVars>>

\* ... and what follows the answer.
ResetStalenessEnd ==
    /\ trainer \in {"sync", "lastsync"} /\ lock = "trainer"
    /\ lock' = "free" /\ staleness' = snap + Len(queue)
    /\ trainer' = IF trainer = "sync" THEN "collect" ELSE "done"
    /\ snap' = 0
    /\ UNCHANGED <<paused, resume, running, batch, trained, local, version, feedVars, pending,
                   procVars, task, monVars, queueVars>>

-----------------------------------------------------------------------------
Feeder == FeedSample \/ FeedEnd
Processor ==
    \/ CheckPaused \/ DecidePause \/ Pause \/ Drain \/ DrainResumed \/ GetSample
    \/ WaitLock \/ WaitTask \/ Submit \/ SendEnd
Task(s) == Generated(s) \/ TaskEnds(s)
Monitor == MonitorRead \/ MonitorDecide \/ MonitorResume
Trainer == Collect \/ Train \/ Stop \/ ResetStaleness \/ ResetStalenessEnd

Next ==
    \/ Feeder \/ Processor \/ Monitor \/ Trainer
    \/ \E s \in Samples : Task(s) \/ TaskRaises(s)

Spec == Init /\ [][Next]_vars

\* Every coroutine is scheduled again and again; asyncio.Lock is granted in the
\* order of the requests.
Fairness ==
    /\ WF_vars(Feeder) /\ WF_vars(Processor) /\ WF_vars(Monitor) /\ WF_vars(Trainer)
    /\ \A s \in Samples : WF_vars(Task(s))

FairSpec == Spec /\ Fairness

-----------------------------------------------------------------------------
(* Properties *)

Occ(s, q) == Cardinality({i \in 1..Len(q) : q[i] = s})
One(b) == IF b THEN 1 ELSE 0

\* The places a sample can be in.
Places(s) ==
    Occ(s, pending) + One(held = s) + One(task[s] \in {"gen", "err"}) + Occ(s, queue)
      + One(s \in dropped) + Occ(s, batch) + Occ(s, trained)

WasFed(s) == s < fed \/ feeder # "feed"

\* The type of the state.
TypeOK ==
    /\ fed \in Samples /\ feeder \in {"feed", "end", "done"}
    /\ pending \in Seq(0..Total) /\ Len(pending) <= PendingSize
    /\ proc \in {"check", "decide", "pause", "drain", "get", "slot", "ending", "raised",
                 "crashed", "stopped"}
    /\ held \in 0..Total /\ full \in BOOLEAN
    /\ task \in [Samples -> {"no", "gen", "put", "fin", "err"}]
    /\ paused \in BOOLEAN /\ resume \in BOOLEAN /\ running \in BOOLEAN
    /\ staleness \in Nat /\ lock \in {"free", "processor", "trainer"}
    /\ monitor \in {"sleep", "decide", "resume"}
    /\ queue \in Seq(0..Total) /\ Len(queue) <= MaxRequired /\ dropped \subseteq 0..Total
    /\ trainer \in {"collect", "train", "sync", "lastsync", "stop", "done"}
    /\ batch \in Seq(Samples) /\ Len(batch) <= Required /\ trained \in Seq(Samples)
    /\ local \in 1..Sync /\ version \in Nat /\ snap \in Nat

(* No sample is lost or used twice on its way from the dataloader through  *)
(* pending_queue, the processor, a task and the message queue into a       *)
(* batch: it is in exactly one place, which may be the queue's dropped     *)
(* count, unless a generation task raised.                                 *)
Conserved ==
    \A s \in Samples :
        /\ Places(s) <= 1
        /\ WasFed(s) /\ Places(s) = 0 => proc \in {"raised", "crashed"}

(* Between two updates the rollouter generates at most                     *)
(* (1+staleness_threshold)*(...) - num_staleness_sample samples (README.md *)
(* :136-138), so with the stale ones no more than max_required_samples are *)
(* in generation or wait for the trainer.                                  *)
WithinStaleness ==
    Cardinality({s \in Samples : task[s] = "gen"}) + (Len(queue) - Occ(End, queue))
      <= MaxRequired

(* What holds in place of WithinStaleness: the limit is exceeded by at     *)
(* most one, the sample in the processor's hand, which it counts without   *)
(* the lock (:889) and reset_staleness forgets.                            *)
Outstanding ==
    Cardinality({s \in Samples : task[s] = "gen"}) + (Len(queue) - Occ(End, queue))
      + One(proc = "slot")
OutstandingBound == Outstanding <= MaxRequired + 1

(* When a run ends without an exception every complete batch that the      *)
(* samples make has been trained on: none is left behind the end signal.   *)
DoneTrainedAll ==
    trainer = "done" /\ proc = "stopped" =>
        Len(trained) = ((Total - Cardinality(dropped)) \div Required) * Required

(* Trainer and rollouter never wait for each other for good: whatever      *)
(* resume signal is lost between a pause and reset_staleness, the run      *)
(* ends.                                                                   *)
EventuallyDone == <>(trainer = "done")
=============================================================================
