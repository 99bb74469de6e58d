------------------------------ MODULE MCCueGen ------------------------------
(* CueGen on a small table. Shards that have ended stutter. *)
EXTENDS CueGen

ShardsOver == (\A s \in Shards : stage[s] = "done") /\ UNCHANGED cueVars
MCNext == CueNext \/ ShardsOver
MCSpec == CueInit /\ [][MCNext]_cueVars
=============================================================================
