------------------------------ MODULE MCFiles ------------------------------
(***************************************************************************)
(* The jobs that come one after the other on the way to a model and        *)
(* resume from their own files: CueGen and PassRate, which prepare the     *)
(* data, and TrainerLoop, which trains and saves. No state is shared: job  *)
(* says which of them a behaviour is about, the others do not start. A job *)
(* that has ended stutters.                                                *)
(***************************************************************************)
EXTENDS CueGen, PassRate, TrainerLoop

VARIABLE job  \* "cue", "passrate" or "train"

allVars == <<cueVars, passVars, vars, job>>

MCInit == job \in {"cue", "passrate", "train"} /\ CueInit /\ PassInit /\ Init

CueStep(A) == job = "cue" /\ A /\ UNCHANGED <<passVars, vars, job>>
PassStep(A) == job = "passrate" /\ A /\ UNCHANGED <<cueVars, vars, job>>
TrainStep(A) == job = "train" /\ A /\ UNCHANGED <<cueVars, passVars, job>>

ShardsOver == (\A s \in Shards : stage[s] = "done") /\ UNCHANGED cueVars
FilterOver == verdict # "none" /\ UNCHANGED passVars
FitOver == ~Running /\ launches = MaxLaunches /\ UNCHANGED vars
MCNext ==
    \/ CueStep(CueNext \/ ShardsOver)
    \/ PassStep(PassNext \/ FilterOver)
    \/ TrainStep(Next \/ FitOver)

\* Every shard is started and its threads run on; a request returns, raises or
\* times out, and a script that has something to do does it; fit runs on, and a
\* training job that is down is launched again.
MCSpec ==
    /\ MCInit /\ [][MCNext]_allVars
    /\ \A s \in Shards : WF_allVars(CueStep(Run(s)))
    /\ \A r \in Roles : WF_allVars(PassStep(Job(r)))
    /\ WF_allVars(TrainStep(Progress))

(* NoOverlapNoGaps of the cue generation: the files of the shards come to  *)
(* hold each row once, in order.                                           *)
CueNoOverlapNoGaps == job = "cue" => NoOverlapNoGaps

(* ChainsEnd of the pass-rate measurement: each launch of a chain ends or  *)
(* is killed.                                                              *)
PassChainsEnd == job = "passrate" => ChainsEnd

\* One seed that covers the pool.
WholePool == [k \in 1..1 |-> [i \in 0..1 |-> i]]

KeepTwo == [p \in Parts |-> 2]
=============================================================================
