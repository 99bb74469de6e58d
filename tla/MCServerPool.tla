---------------------------- MODULE MCServerPool ----------------------------
(* An instance of ServerPool for TLC. The run starts before the first       *)
(* validation, or after one whose removal of the hybrid servers failed.    *)
(* After its last update the trainer goes on training.                     *)
EXTENDS ServerPool

MCStandalone == <<"s1">>
MCHybrid == <<"h1">>
MCPrompt == [c \in Clients |-> IF c = "c1" THEN 1 ELSE 3]

MCInit == \E left \in BOOLEAN : Idle(left)

Rest == at = 0 /\ current = MaxVersion /\ UNCHANGED vars
MCNext == Next \/ Rest
MCFairSpec ==
    /\ MCInit /\ [][MCNext]_vars
    /\ WF_vars(Trainer) /\ \A c \in Clients : WF_vars(Client(c))
=============================================================================
