----------------------------- MODULE DurableRun -----------------------------
(***************************************************************************)
(* What a training job with checkpoints promises, whatever the trainer     *)
(* does with files, counters and servers: the weights are the result of a  *)
(* sequence of batches; one launch extends the sequence by the batch that  *)
(* comes next in the data; a commit makes the present sequence the one     *)
(* that the next launch continues; nothing else changes what is durable.   *)
(***************************************************************************)
EXTENDS Integers, Sequences

CONSTANTS StepsPerEpoch, \* batches in one pass over the data
          Skip           \* batches that come before the first one trained on

VARIABLES durable, \* batches behind the weights a new launch starts from
          live,    \* batches behind the weights in memory
          up       \* whether a launch is running

drVars == <<durable, live, up>>

(***************************************************************************)
(* A batch is [order, pos]: the pos-th batch of a permutation of the data. *)
(* Batch b follows the sequence l if it has the next position, and, inside *)
(* an epoch, belongs to the same permutation as the one before it.         *)
(***************************************************************************)
Follows(l, b) ==
    LET seen == Len(l) + Skip
    IN  /\ b.pos = (seen % StepsPerEpoch) + 1
        /\ seen % StepsPerEpoch # 0 /\ l # <<>> => b.order = l[Len(l)].order

Init == durable = <<>> /\ live = <<>> /\ up = FALSE

Start == ~up /\ up' = TRUE /\ live' = durable /\ UNCHANGED durable

Train ==
    /\ up
    /\ Len(live') = Len(live) + 1
    /\ \A i \in 1..Len(live) : live'[i] = live[i]
    /\ Follows(live, live'[Len(live')])
    /\ UNCHANGED <<durable, up>>

Commit == up /\ durable' = live /\ UNCHANGED <<live, up>>

Stop == up /\ up' = FALSE /\ live' = <<>> /\ UNCHANGED durable

Next == Start \/ Train \/ Commit \/ Stop

Spec == Init /\ [][Next]_drVars
=============================================================================
