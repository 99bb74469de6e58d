---------------------------- MODULE MCFullyAsync ----------------------------
(* FullyAsync for TLC. A run whose trainer has returned stutters. *)
EXTENDS FullyAsync

Over == trainer = "done" /\ UNCHANGED vars
MCNext == Next \/ Over
MCSpec == Init /\ [][MCNext]_vars
MCFairSpec == MCSpec /\ Fairness
=============================================================================
