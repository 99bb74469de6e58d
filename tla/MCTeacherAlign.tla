--------------------------- MODULE MCTeacherAlign ---------------------------
(***************************************************************************)
(* TeacherAlign on a small batch. Once every row of the loss is sliced the *)
(* batch is finished and the system stutters.                              *)
(***************************************************************************)
EXTENDS TeacherAlign

SlicesOver == (\A r \in Rows : loss[r] # <<>>) /\ UNCHANGED alignVars
MCNext == AlignNext \/ SlicesOver
MCSpec == AlignInit /\ [][MCNext]_alignVars
=============================================================================
