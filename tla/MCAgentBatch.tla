---------------------------- MODULE MCAgentBatch ----------------------------
(***************************************************************************)
(* AgentBatch on a small batch. A step that has ended stutters.            *)
(***************************************************************************)
EXTENDS AgentBatch

StepOver == Ended /\ UNCHANGED vars
MCNext == Next \/ StepOver
MCSpec == Init /\ [][MCNext]_vars

OneUtility == {1}
=============================================================================
