--------------------------- MODULE StreamingBench ---------------------------
(***************************************************************************)
(* The StreamingBench evaluator (streamopd/eval/streamingbench.py): one    *)
(* process asks the questions of every video in turn, appends a record per *)
(* question to results_incremental.jsonl and dumps a summary at the end.   *)
(* A launch that was killed is repeated: it loads the file and skips the   *)
(* questions whose key is there. A key holds the first characters of the   *)
(* question only, and keys of an older format are accepted besides.        *)
(***************************************************************************)
EXTENDS Integers, FiniteSets, SequencesExt

CONSTANTS Entries,    \* the annotation file: a sequence of [path, base, questions]
          Limit,      \* question_limit of the present keys (80)
          OldLimit,   \* question_limit of legacy keys (50)
          MaxLaunches \* bound: launches; the last of them is not killed

(***************************************************************************)
(* A question is [stamp, text, task]; its stamp is the sequence of the     *)
(* numbers between the colons, its text a sequence of characters.          *)
(***************************************************************************)
ASSUME BenchAssumption ==
    /\ {Limit, OldLimit, MaxLaunches} \subseteq Nat \ {0} /\ OldLimit <= Limit
    /\ Entries \in Seq(Range(Entries))
    /\ \A e \in DOMAIN Entries :
           LET qs == Entries[e].questions
           IN  qs \in Seq(Range(qs)) /\ \A j \in DOMAIN qs : qs[j].stamp \in Seq(Nat)

VARIABLES phase,         \* "down", "video", "ask", "dump", "report", "done", "failed"
          v, j,          \* positions in video_questions and in the video's questions
          results,       \* all_results
          doneQuestions, \* done_keys
          legacy,        \* legacy_done_keys
          file,          \* the records in results_incremental.jsonl
          ending,        \* "ended" or "open": the last record lacks its newline
          bad,           \* whether a line of the file is not one JSON value
          report,        \* scores_report.json
          present,       \* paths of the videos that exist
          visited,       \* videos that this launch did not find missing
          launches       \* launches so far

memory == <<v, j, results, doneQuestions, legacy, visited>>
benchVars == <<phase, v, j, results, doneQuestions, legacy, file, ending, bad, report, present,
          visited, launches>>

-----------------------------------------------------------------------------
(* The annotations: questions grouped by path, in the order of the path's  *)
(* first entry, and sorted by time within a video (list.sort is stable).   *)

Seconds(stamp) == FoldLeft(LAMBDA sum, part : 60 * sum + part, 0, stamp)

PathsInOrder == FoldLeft(LAMBDA ps, e : IF Contains(ps, e.path) THEN ps ELSE Append(ps, e.path),
                         <<>>, Entries)
Collected(path) ==
    FoldLeft(LAMBDA qs, e : IF e.path = path THEN qs \o e.questions ELSE qs, <<>>, Entries)
ByTime(qs) ==
    LET order == SetToSortSeq(DOMAIN qs,
                     LAMBDA a, b : \/ Seconds(qs[a].stamp) < Seconds(qs[b].stamp)
                                   \/ Seconds(qs[a].stamp) = Seconds(qs[b].stamp) /\ a < b)
    IN  [k \in DOMAIN qs |-> qs[order[k]]]

\* video_questions with the name that resolve_video_path leaves of the path.
Videos ==
    [k \in DOMAIN PathsInOrder |->
        LET path == PathsInOrder[k]
        IN  [path |-> path,
             base |-> (CHOOSE e \in Range(Entries) : e.path = path).base,
             qs   |-> ByTime(Collected(path))]]

MakeKey(base, q, limit) ==
    <<base, q.stamp, SubSeq(q.text, 1, IF limit < Len(q.text) THEN limit ELSE Len(q.text))>>

Key(base, q) == MakeKey(base, q, Limit)
OldKey(base, q) == MakeKey(base, q, OldLimit)

-----------------------------------------------------------------------------
(* compute_summary *)

Where(rs, P(_)) == Cardinality({k \in DOMAIN rs : P(rs[k])})
Summary(rs) ==
    [total   |-> Len(rs),
     correct |-> Where(rs, LAMBDA r : r.outcome = "right"),
     errors  |-> Where(rs, LAMBDA r : r.outcome = "error"),
     tasks   |-> [t \in {rs[k].task : k \in DOMAIN rs} |->
                     [total   |-> Where(rs, LAMBDA r : r.task = t),
                      correct |-> Where(rs, LAMBDA r : r.task = t /\ r.outcome = "right")]]]
NoSummary == Summary(<<>>)

-----------------------------------------------------------------------------
Running == phase \in {"video", "ask", "dump", "report"}

BenchInit ==
    /\ phase = "down" /\ v = 1 /\ j = 1 /\ results = <<>> /\ doneQuestions = {} /\ legacy = {}
    /\ file = <<>> /\ ending = "ended" /\ bad = FALSE
    /\ report = [st |-> "absent", sum |-> NoSummary]
    /\ present \in SUBSET {Videos[k].path : k \in DOMAIN Videos}
    /\ visited = {} /\ launches = 0

Forget == v' = 1 /\ j' = 1 /\ results' = <<>> /\ doneQuestions' = {} /\ legacy' = {} /\ visited' = {}

KeysOf(rs) == {rs[k].key : k \in DOMAIN rs}

\* load_jsonl_results; json.loads raises on a line that is cut short or doubled.
Launch ==
    /\ ~Running /\ launches < MaxLaunches /\ launches' = launches + 1
    /\ \/ /\ ~bad
          /\ results' = file /\ doneQuestions' = KeysOf(file) /\ legacy' = KeysOf(file)
          /\ v' = 1 /\ j' = 1 /\ visited' = {} /\ phase' = "video"
       \/ bad /\ phase' = "failed" /\ Forget
    /\ UNCHANGED <<file, ending, bad, report, present>>

\* Someone puts a video into place.
Provide ==
    /\ \E k \in DOMAIN Videos :
          Videos[k].path \notin present /\ present' = present \cup {Videos[k].path}
    /\ UNCHANGED <<phase, file, ending, bad, report, launches>> /\ UNCHANGED memory

\* The loop over the videos; a missing one is passed over.
EnterVideo ==
    /\ phase = "video" /\ v <= Len(Videos) /\ Videos[v].path \in present
    /\ visited' = visited \cup {v} /\ j' = 1 /\ phase' = "ask"
    /\ UNCHANGED <<v, results, doneQuestions, legacy, file, ending, bad, report, present, launches>>

\* Mutant of MissingVideo: a missing video is waited for.
MissingVideoWaits ==
    /\ phase = "video" /\ v <= Len(Videos) /\ Videos[v].path \notin present
    /\ UNCHANGED benchVars

MissingVideo ==
    /\ phase = "video" /\ v <= Len(Videos) /\ Videos[v].path \notin present
    /\ v' = v + 1
    /\ UNCHANGED <<phase, j, results, doneQuestions, legacy, file, ending, bad, report, present,
                   visited, launches>>

LeaveVideo ==
    /\ phase = "ask" /\ j > Len(Videos[v].qs)
    /\ v' = v + 1 /\ phase' = "video"
    /\ UNCHANGED <<j, results, doneQuestions, legacy, file, ending, bad, report, present,
                   visited, launches>>

\* Mutant of IsDone: the old key is looked up among the keys of this launch too.
IsDoneLive(base, q) == Key(base, q) \in doneQuestions \/ OldKey(base, q) \in doneQuestions
\* Mutant of IsDone: a question that raised is asked again.
IsDoneUnlessError(base, q) ==
    \E k \in DOMAIN results : results[k].key = Key(base, q) /\ results[k].outcome # "error"

IsDone(base, q) == Key(base, q) \in doneQuestions \/ OldKey(base, q) \in legacy

Base == Videos[v].base
Question == Videos[v].qs[j]

SkipQuestion ==
    /\ phase = "ask" /\ j <= Len(Videos[v].qs) /\ IsDone(Base, Question)
    /\ j' = j + 1
    /\ UNCHANGED <<phase, v, results, doneQuestions, legacy, file, ending, bad, report, present,
                   visited, launches>>

Record(outcome) ==
    [key |-> Key(Base, Question), task |-> Question.task, outcome |-> outcome]

\* Mutant of Answer: a question that raised leaves no line in the file.
AnswerErrorUnwritten ==
    /\ phase = "ask" /\ j <= Len(Videos[v].qs) /\ ~IsDone(Base, Question)
    /\ \E outcome \in {"right", "wrong", "error"} :
          /\ results' = Append(results, Record(outcome))
          /\ file' = IF outcome = "error" THEN file ELSE Append(file, Record(outcome))
    /\ doneQuestions' = doneQuestions \cup {Key(Base, Question)}
    /\ bad' = (bad \/ ending = "open") /\ ending' = "ended"
    /\ j' = j + 1
    /\ UNCHANGED <<phase, v, legacy, report, present, visited, launches>>

\* query_recent_window answers or raises; the record is kept and written in
\* either case. A record appended to a line without newline spoils that line.
Answer ==
    /\ phase = "ask" /\ j <= Len(Videos[v].qs) /\ ~IsDone(Base, Question)
    /\ \E outcome \in {"right", "wrong", "error"} :
          /\ results' = Append(results, Record(outcome))
          /\ file' = Append(file, Record(outcome))
    /\ doneQuestions' = doneQuestions \cup {Key(Base, Question)}
    /\ bad' = (bad \/ ending = "open") /\ ending' = "ended"
    /\ j' = j + 1
    /\ UNCHANGED <<phase, v, legacy, report, present, visited, launches>>

\* The results file under a name of its own; nothing of the program reads it.
Dump ==
    /\ phase = "video" /\ v > Len(Videos)
    /\ phase' = "dump"
    /\ UNCHANGED <<file, ending, bad, report, present, launches>> /\ UNCHANGED memory

\* open(..., "w") of scores_report.json, then json.dump.
OpenScores ==
    /\ phase = "dump"
    /\ report' = [st |-> "torn", sum |-> NoSummary]
    /\ phase' = "report"
    /\ UNCHANGED <<file, ending, bad, present, launches>> /\ UNCHANGED memory

WriteReport ==
    /\ phase = "report"
    /\ report' = [st |-> "whole", sum |-> Summary(results)]
    /\ phase' = "done"
    /\ UNCHANGED <<file, ending, bad, present, launches>> /\ UNCHANGED memory

\* Killed between two steps.
KillJob ==
    /\ Running /\ launches < MaxLaunches
    /\ phase' = "down" /\ Forget
    /\ UNCHANGED <<file, ending, bad, report, present, launches>>

\* Killed in the write of a record: half a line is left, or all but its newline.
KillInWrite ==
    /\ launches < MaxLaunches
    /\ phase = "ask" /\ j <= Len(Videos[v].qs) /\ ~IsDone(Base, Question)
    /\ \/ bad' = TRUE /\ UNCHANGED <<file, ending>>
       \/ /\ \E outcome \in {"right", "wrong", "error"} : file' = Append(file, Record(outcome))
          /\ ending' = "open" /\ bad' = (bad \/ ending = "open")
    /\ phase' = "down" /\ Forget
    /\ UNCHANGED <<report, present, launches>>

Progress ==
    \/ Launch \/ EnterVideo \/ MissingVideo \/ LeaveVideo \/ SkipQuestion \/ Answer
    \/ Dump \/ OpenScores \/ WriteReport

BenchNext == Progress \/ Provide \/ KillJob \/ KillInWrite

BenchSpec == BenchInit /\ [][BenchNext]_benchVars

\* Fairness: the process runs on, and a job that is down is launched again.
BenchFairSpec == BenchSpec /\ WF_benchVars(Progress)

-----------------------------------------------------------------------------
(* Properties *)

Outcomes == {"right", "wrong", "error"}
AllQuestions == UNION {{<<k, n>> : n \in DOMAIN Videos[k].qs} : k \in DOMAIN Videos}
KeyAt(p) == Key(Videos[p[1]].base, Videos[p[1]].qs[p[2]])
OldKeyAt(p) == OldKey(Videos[p[1]].base, Videos[p[1]].qs[p[2]])
IsRecord(r) == r.key \in {KeyAt(p) : p \in AllQuestions} /\ r.outcome \in Outcomes

\* The type of the state.
BenchTypeOK ==
    /\ phase \in {"down", "video", "ask", "dump", "report", "done", "failed"}
    /\ v \in 1..(Len(Videos) + 1) /\ j \in Nat \ {0}
    /\ \A k \in DOMAIN file : IsRecord(file[k])
    /\ \A k \in DOMAIN results : IsRecord(results[k])
    /\ doneQuestions = KeysOf(results) /\ legacy \subseteq doneQuestions
    /\ ending \in {"ended", "open"} /\ bad \in BOOLEAN
    /\ report.st \in {"absent", "torn", "whole"}
    /\ visited \subseteq DOMAIN Videos /\ launches \in 0..MaxLaunches

(* No question is asked twice, whatever was killed and repeated, raised or *)
(* not: the file holds one record per key.                                 *)
OneRecordPerKey == \A a, b \in DOMAIN file : file[a].key = file[b].key => a = b

\* Another question's present key equals this question's legacy key.
Shadowed(p) == \E r \in AllQuestions : KeyAt(r) # KeyAt(p) /\ KeyAt(r) = OldKeyAt(p)

(* When a launch ends, each question of each video it found has a record   *)
(* under its key. The exception is a question whose legacy key is another  *)
(* one's key, and only in a launch that started with that record on disk:  *)
(* legacy_done_keys is a copy taken at the start.                          *)
FoundIsAsked ==
    phase = "done" =>
        \A p \in AllQuestions :
            p[1] \in visited /\ (~Shadowed(p) \/ launches = 1) =>
                \E k \in DOMAIN file : file[k].key = KeyAt(p)

(* A report that is whole sums up the file as it was at some moment, also  *)
(* while later launches write or were killed.                              *)
ReportHonest ==
    report.st = "whole" => \E n \in 0..Len(file) : report.sum = Summary(SubSeq(file, 1, n))

(* Unless a kill spoilt a line of the file, the job comes to a report.     *)
EventuallyScored == <>(report.st = "whole" \/ bad)
=============================================================================
