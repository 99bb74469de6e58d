----------------------------- MODULE MCPassRate -----------------------------
(***************************************************************************)
(* PassRate on small pools. A pool that has been filtered stutters.        *)
(***************************************************************************)
EXTENDS PassRate

FilterOver == verdict # "none" /\ UNCHANGED passVars
MCNext == PassNext \/ FilterOver
MCSpec == PassInit /\ [][MCNext]_passVars

\* One seed that covers a pool of two.
WholePool == [k \in 1..1 |-> [i \in 0..1 |-> i]]

\* Two seeds that draw different rows of a pool of two.
Disjoint == [k \in 1..2 |-> [i \in 0..0 |-> k - 1]]
=============================================================================
