------------------------------- MODULE MCEval -------------------------------
(***************************************************************************)
(* The two evaluators with files to resume from, OvoEval and               *)
(* StreamingBench. They share nothing: job says which of them a behaviour  *)
(* is about. An evaluation that has ended stutters.                        *)
(***************************************************************************)
EXTENDS OvoEval, StreamingBench

CONSTANTS a, b, c

VARIABLE job  \* "ovo" or "bench"

allVars == <<vars, benchVars, job>>

MCInit ==
    /\ job \in {"ovo", "bench"} /\ Init /\ BenchInit
    /\ job = "bench" => np = 1
    /\ job = "ovo" => present = {}

OvoStep(A) == job = "ovo" /\ A /\ UNCHANGED <<benchVars, job>>
BenchStep(A) == job = "bench" /\ A /\ UNCHANGED <<vars, job>>

OvoOver ==
    (\A r \in Ranks : pc[r] \in Stopped) /\ Len(reports) = MaxReports /\ UNCHANGED vars
BenchOver == ~Running /\ launches = MaxLaunches /\ UNCHANGED benchVars
MCNext == OvoStep(Next \/ OvoOver) \/ BenchStep(BenchNext \/ BenchOver)

\* Ranks, processes, the launcher and the operator who starts an evaluation
\* again keep going; faults need not happen.
MCSpec ==
    /\ MCInit /\ [][MCNext]_allVars
    /\ \A r \in Ranks : WF_allVars(OvoStep(RankStep(r))) /\ WF_allVars(OvoStep(LauncherKill(r)))
    /\ WF_allVars(OvoStep(Collect)) /\ WF_allVars(OvoStep(Relaunch))
    /\ WF_allVars(BenchStep(Progress))

\* EventuallyReported of OvoEval: the evaluation comes to a report unless a line
\* was torn.
OvoEventuallyReported == job = "ovo" => EventuallyReported

\* EventuallyScored of StreamingBench: the job comes to a report unless a line
\* was spoilt.
BenchEventuallyScored == job = "bench" => EventuallyScored

\* Two lists: the first is split evenly between two ranks, the second is
\* shorter than the number of ranks, so that its only key is evaluated twice.
AnnoShort == <<<<a, b>>, <<c>>>>

(* Two videos in three entries. Out of time order; "ab" is the legacy key  *)
(* of "abc" at the same time (shadowed); "abcd" and "abce" have one key at *)
(* a limit of three characters.                                            *)
Q(stamp, text, task) == [stamp |-> stamp, text |-> text, task |-> task]
MCEntries ==
    << [path |-> "p1", base |-> "m1",
        questions |-> <<Q(<<1, 0>>, <<"a", "b", "c", "d">>, "OR")>>],
       [path |-> "p2", base |-> "m2", questions |-> <<Q(<<0, 9>>, <<"a", "b">>, "OR")>>],
       [path |-> "p1", base |-> "m1",
        questions |-> <<Q(<<0, 5>>, <<"a", "b">>, "CS"),
                        Q(<<0, 5>>, <<"a", "b", "c">>, "CS"),
                        Q(<<1, 0>>, <<"a", "b", "c", "e">>, "OR")>>] >>
=============================================================================
