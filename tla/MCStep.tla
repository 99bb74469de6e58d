------------------------------- MODULE MCStep -------------------------------
(***************************************************************************)
(* The batch of one training step: AgentBatch, which samples are in it and *)
(* what its gates make of them, and TeacherAlign, how the teacher's values *)
(* of a row line up with the student's. AgentBatch knows a row's teacher   *)
(* values only by whether they are there and TeacherAlign takes them as    *)
(* there, so they share nothing: job says which of them a behaviour is     *)
(* about. A step that has ended and a batch that is sliced stutter.        *)
(***************************************************************************)
EXTENDS AgentBatch, TeacherAlign

VARIABLE job  \* "agent" or "align"

allVars == <<vars, alignVars, job>>

MCInit ==
    /\ job \in {"agent", "align"} /\ Init /\ AlignInit
    /\ job = "align" => validate = FALSE
    /\ job = "agent" => shape = CHOOSE f \in [Rows -> Shapes] : TRUE

AgentStep(A) == job = "agent" /\ A /\ UNCHANGED <<alignVars, job>>
AlignStep(A) == job = "align" /\ A /\ UNCHANGED <<vars, job>>

StepOver == Ended /\ UNCHANGED vars
SlicesOver == (\A r \in Rows : loss[r] # <<>>) /\ UNCHANGED alignVars
MCNext == AgentStep(Next \/ StepOver) \/ AlignStep(AlignNext \/ SlicesOver)

\* Every request to a server returns or raises, and the event loops and the
\* manager's gather resume what is ready.
MCSpec ==
    /\ MCInit /\ [][MCNext]_allVars
    /\ \A s \in Slots : WF_allVars(AgentStep(SampleStep(s)))
    /\ \A w \in Workers : WF_allVars(AgentStep(WorkerStep(w)))
    /\ WF_allVars(AgentStep(TrainerStep))

\* EventuallyEnded of the step: it ends, in weights or in an exception.
AgentEventuallyEnded == job = "agent" => EventuallyEnded

OneUtility == {1}
=============================================================================
