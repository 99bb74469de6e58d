------------------------------ MODULE OvoEval ------------------------------
(***************************************************************************)
(* The OVO-Bench evaluator (streamopd/eval/ovo_bench.py).  Each rank of a  *)
(* launch owns a slice of the annotations, appends one row per annotation  *)
(* to its shard file and drops a `done' marker when it is through.  Rank 0 *)
(* polls the markers, merges the shards and writes the report.  A launch   *)
(* may die at any point and be started again over the same directory,      *)
(* possibly with another number of ranks.                                  *)
(*                                                                         *)
(* An annotation is represented by its key (make_ovo_key); what a row says *)
(* is reduced to whether the clip was there to be answered about.          *)
(***************************************************************************)
EXTENDS Integers, Sequences

CONSTANTS
  Splits,       \* number of annotation lists: backward, realtime, forward
  Anno,         \* [1..Splits -> Seq(key)], after the seeded shuffle and the cap
  ProcCounts,   \* numbers of ranks a launch may use
  MaxReports,   \* bound: reports written over all launches
  MaxFaults     \* bound: crashes and missed deadlines over all launches

ASSUME SplitsAssumption == Splits \in Nat \ {0}
ASSUME AnnoAssumption ==
  /\ DOMAIN Anno = 1..Splits
  /\ \A s \in 1..Splits : Len(Anno[s]) \in Nat /\ DOMAIN Anno[s] = 1..Len(Anno[s])
ASSUME ProcCountsAssumption == ProcCounts \subseteq Nat \ {0} /\ ProcCounts # {}
ASSUME BoundsAssumption == MaxReports \in Nat /\ MaxFaults \in Nat

Keys == UNION {{Anno[s][i] : i \in DOMAIN Anno[s]} : s \in 1..Splits}

-----------------------------------------------------------------------------
(* Slices and files                                                        *)

\* accelerate's split_between_processes: rank r's first index and one past
\* its last, counted from 0, in a list of length len split between n ranks.
SliceStart(len, n, r) ==
  r * (len \div n) + (IF r < len % n THEN r ELSE len % n)

SliceEnd(len, n, r) ==
  SliceStart(len, n, r) + (len \div n) + (IF r < len % n THEN 1 ELSE 0)

\* Mutant of FirstOf: the slice's 0-based start is used as it is.
FirstOfOffByOne(n, r, s) == SliceStart(Len(Anno[s]), n, r)

\* A rank beyond the end of the list is handed its last element.
FirstOf(n, r, s) ==
  LET len == Len(Anno[s]) IN
  IF SliceStart(len, n, r) >= len
  THEN (IF len = 0 THEN 1 ELSE len)
  ELSE SliceStart(len, n, r) + 1

LastOf(n, r, s) ==
  LET len == Len(Anno[s]) IN
  IF SliceStart(len, n, r) >= len THEN len ELSE SliceEnd(len, n, r)

LocalKeys(n, r) == UNION {{Anno[s][i] : i \in FirstOf(n, r, s)..LastOf(n, r, s)} : s \in 1..Splits}

\* A launch of one rank works in the result directory itself (shard 0),
\* otherwise rank r works in rank_<r> (shard r + 1).
Shard(n, r) == IF n = 1 THEN 0 ELSE r + 1

Row == [key : Keys, answered : BOOLEAN]

RowKeys(file) == {file[i].key : i \in DOMAIN file}

Ranks == UNION {0..(n - 1) : n \in ProcCounts}
Shards == UNION {{Shard(n, r) : r \in 0..(n - 1)} : n \in ProcCounts}

VARIABLES
  np,        \* number of ranks of the current launch
  counts,    \* rank counts of all launches so far (history)
  pc,        \* [Ranks -> control state]
  split,     \* [Ranks -> annotation list the rank is in]
  pos,       \* [Ranks -> index in that list]
  doneKeys,  \* [Ranks -> keys the rank holds to be evaluated]
  rows,      \* [Shards -> Seq(Row)], the readable lines of the shard file
  tail,      \* [Shards -> how the shard file ends]
  marker,    \* [Shards -> is there a done marker?]
  next,      \* rank whose shard the merge reads next
  seen,      \* keys the merge has met
  merged,    \* rows the merge has kept
  reports,   \* qwen3vl_results_<timestamp>.json, oldest first
  faults     \* crashes and missed deadlines so far

rankVars == <<pc, split, pos, doneKeys>>
fileVars == <<rows, tail, marker>>
mergeVars == <<next, seen, merged>>
vars == <<np, counts, rankVars, fileVars, mergeVars, reports, faults>>

Alive == {"loading", "resuming", "evaluating", "writing", "flushing",
          "waiting", "merging", "dumping"}
Stopped == {"off", "exited", "failed"}

\* "open": the last line is whole but lacks its newline, so that the next
\* append lands on the same line.  "part": a row is being written.  "bad":
\* some line is not JSON and will stay so.
Readable(s) == tail[s] \in {"clean", "open"}

MyShard(r) == Shard(np, r)
MyFile(r) == rows[MyShard(r)]

Kept == [shard : Shards, line : Nat \ {0}, key : Keys, answered : BOOLEAN]
Report == [np : ProcCounts, counts : SUBSET ProcCounts, whole : BOOLEAN, kept : SUBSET Kept]

\* The type of the state.
TypeOK ==
  /\ np \in ProcCounts
  /\ counts \subseteq ProcCounts
  /\ pc \in [Ranks -> Alive \cup Stopped]
  /\ split \in [Ranks -> 1..(Splits + 1)]
  /\ pos \in [Ranks -> Nat \ {0}]
  /\ doneKeys \in [Ranks -> SUBSET Keys]
  /\ rows \in [Shards -> Seq(Row)]
  /\ tail \in [Shards -> {"clean", "open", "part", "bad"}]
  /\ marker \in [Shards -> BOOLEAN]
  /\ next \in Nat
  /\ seen \subseteq Keys
  /\ merged \subseteq Kept
  /\ reports \in Seq(Report)
  /\ faults \in Nat

-----------------------------------------------------------------------------
(* A rank: main()                                                          *)

Launched(n) == [r \in Ranks |-> IF r < n THEN "loading" ELSE "off"]

Init ==
  /\ np \in ProcCounts
  /\ counts = {np}
  /\ pc = Launched(np)
  /\ split = [r \in Ranks |-> 1]
  /\ pos = [r \in Ranks |-> 1]
  /\ doneKeys = [r \in Ranks |-> {}]
  /\ rows = [s \in Shards |-> <<>>]
  /\ tail = [s \in Shards |-> "clean"]
  /\ marker = [s \in Shards |-> FALSE]
  /\ next = 0
  /\ seen = {}
  /\ merged = {}
  /\ reports = <<>>
  /\ faults = 0

\* The model is loaded; the rank removes its own marker of an earlier launch.
ClearMarker(r) ==
  /\ pc[r] = "loading"
  /\ pc' = [pc EXCEPT ![r] = "resuming"]
  /\ marker' = [marker EXCEPT ![MyShard(r)] = FALSE]
  /\ UNCHANGED <<np, counts, split, pos, doneKeys, rows, tail, mergeVars, reports, faults>>

\* Mutant of Resume: the rows on disk do not count as done.
ResumeForgetful(r) ==
  /\ pc[r] = "resuming"
  /\ pc' = [pc EXCEPT ![r] = "evaluating"]
  /\ doneKeys' = [doneKeys EXCEPT ![r] = {}]
  /\ split' = [split EXCEPT ![r] = 1]
  /\ pos' = [pos EXCEPT ![r] = FirstOf(np, r, 1)]
  /\ UNCHANGED <<np, counts, fileVars, mergeVars, reports, faults>>

\* load_checkpoint_state: json.loads raises on a line that is not JSON.
Resume(r) ==
  /\ pc[r] = "resuming"
  /\ IF Readable(MyShard(r))
     THEN /\ pc' = [pc EXCEPT ![r] = "evaluating"]
          /\ doneKeys' = [doneKeys EXCEPT ![r] = RowKeys(MyFile(r))]
          /\ split' = [split EXCEPT ![r] = 1]
          /\ pos' = [pos EXCEPT ![r] = FirstOf(np, r, 1)]
     ELSE /\ pc' = [pc EXCEPT ![r] = "failed"]
          /\ UNCHANGED <<doneKeys, split, pos>>
  /\ UNCHANGED <<np, counts, fileVars, mergeVars, reports, faults>>

InSlice(r) == split[r] <= Splits /\ pos[r] <= LastOf(np, r, split[r])
CurrentKey(r) == Anno[split[r]][pos[r]]

\* for anno in local_...: if key in done_keys: continue
Skip(r) ==
  /\ pc[r] = "evaluating"
  /\ InSlice(r)
  /\ CurrentKey(r) \in doneKeys[r]
  /\ pos' = [pos EXCEPT ![r] = @ + 1]
  /\ UNCHANGED <<np, counts, pc, split, doneKeys, fileVars, mergeVars, reports, faults>>

\* One loop ends, the next begins.
NextSplit(r) ==
  /\ pc[r] = "evaluating"
  /\ split[r] <= Splits
  /\ pos[r] > LastOf(np, r, split[r])
  /\ split' = [split EXCEPT ![r] = @ + 1]
  /\ pos' = [pos EXCEPT ![r] = IF split[r] < Splits THEN FirstOf(np, r, split[r] + 1) ELSE 1]
  /\ UNCHANGED <<np, counts, pc, doneKeys, fileVars, mergeVars, reports, faults>>

\* The annotation is evaluated; its row is in the handle's buffer.
Evaluate(r) ==
  /\ pc[r] = "evaluating"
  /\ InSlice(r)
  /\ CurrentKey(r) \notin doneKeys[r]
  /\ pc' = [pc EXCEPT ![r] = "writing"]
  /\ doneKeys' = [doneKeys EXCEPT ![r] = @ \cup {CurrentKey(r)}]
  /\ UNCHANGED <<np, counts, split, pos, fileVars, mergeVars, reports, faults>>

\* append_checkpoint_row, first bytes: they join a line left without newline.
FlushStart(r) ==
  /\ pc[r] = "writing"
  /\ pc' = [pc EXCEPT ![r] = "flushing"]
  /\ tail' = [tail EXCEPT ![MyShard(r)] = IF @ = "clean" THEN "part" ELSE "bad"]
  /\ UNCHANGED <<np, counts, split, pos, doneKeys, rows, marker, mergeVars, reports, faults>>

\* append_checkpoint_row, the rest of the line.
FlushEnd(r) ==
  /\ pc[r] = "flushing"
  /\ pc' = [pc EXCEPT ![r] = "evaluating"]
  /\ pos' = [pos EXCEPT ![r] = @ + 1]
  /\ IF tail[MyShard(r)] = "part"
     THEN /\ tail' = [tail EXCEPT ![MyShard(r)] = "clean"]
          /\ \E a \in BOOLEAN :
               rows' = [rows EXCEPT ![MyShard(r)] = Append(@, [key |-> CurrentKey(r), answered |-> a])]
     ELSE UNCHANGED <<tail, rows>>
  /\ UNCHANGED <<np, counts, split, doneKeys, marker, mergeVars, reports, faults>>

\* Mutant of WriteMarker: the marker does not wait for the last loop.
WriteMarkerEarly(r) ==
  /\ pc[r] = "evaluating"
  /\ split[r] = Splits
  /\ marker' = [marker EXCEPT ![MyShard(r)] = TRUE]
  /\ pc' = [pc EXCEPT ![r] = IF r = 0 THEN "waiting" ELSE "exited"]
  /\ UNCHANGED <<np, counts, split, pos, doneKeys, rows, tail, mergeVars, reports, faults>>

\* Mutant of WriteMarker: every rank writes the marker of rank 0.
WriteMarkerOfRankZero(r) ==
  /\ pc[r] = "evaluating"
  /\ split[r] = Splits + 1
  /\ marker' = [marker EXCEPT ![MyShard(0)] = TRUE]
  /\ pc' = [pc EXCEPT ![r] = IF r = 0 THEN "waiting" ELSE "exited"]
  /\ UNCHANGED <<np, counts, split, pos, doneKeys, rows, tail, mergeVars, reports, faults>>

\* write_done_marker; only rank 0 goes on.
WriteMarker(r) ==
  /\ pc[r] = "evaluating"
  /\ split[r] = Splits + 1
  /\ marker' = [marker EXCEPT ![MyShard(r)] = TRUE]
  /\ pc' = [pc EXCEPT ![r] = IF r = 0 THEN "waiting" ELSE "exited"]
  /\ UNCHANGED <<np, counts, split, pos, doneKeys, rows, tail, mergeVars, reports, faults>>

-----------------------------------------------------------------------------
(* Rank 0 collects                                                         *)

\* Mutant of Missing: the last rank is not waited for.
MissingButLast == {r \in 0..(np - 2) : ~marker[Shard(np, r)]}

Missing == {r \in 0..(np - 1) : ~marker[Shard(np, r)]}

\* Mutant of MarkersFound: the wait gives up without raising.
MarkersAssumed ==
  /\ pc[0] = "waiting"
  /\ pc' = [pc EXCEPT ![0] = "merging"]
  /\ next' = 0
  /\ seen' = {}
  /\ merged' = {}
  /\ UNCHANGED <<np, counts, split, pos, doneKeys, fileVars, reports, faults>>

\* wait_for_done_markers returns (at once when there is only one rank).
MarkersFound ==
  /\ pc[0] = "waiting"
  /\ np = 1 \/ Missing = {}
  /\ pc' = [pc EXCEPT ![0] = "merging"]
  /\ next' = 0
  /\ seen' = {}
  /\ merged' = {}
  /\ UNCHANGED <<np, counts, split, pos, doneKeys, fileVars, reports, faults>>

\* wait_for_done_markers raises after FILE_SYNC_TIMEOUT_SECONDS.  The clock is
\* not modelled: the deadline may pass whenever a marker is missing.
Timeout ==
  /\ pc[0] = "waiting"
  /\ np > 1 /\ Missing # {}
  /\ faults < MaxFaults
  /\ faults' = faults + 1
  /\ pc' = [pc EXCEPT ![0] = "failed"]
  /\ UNCHANGED <<np, counts, split, pos, doneKeys, fileVars, mergeVars, reports>>

\* Mutant of FreshLines: keys of earlier shards are not looked up.
FreshLinesPerShard(s) ==
  {i \in DOMAIN rows[s] : \A j \in 1..(i - 1) : rows[s][j].key # rows[s][i].key}

\* Lines of shard s the merge keeps: the first with a key not met before.
FreshLines(s) ==
  {i \in DOMAIN rows[s] :
     /\ rows[s][i].key \notin seen
     /\ \A j \in 1..(i - 1) : rows[s][j].key # rows[s][i].key}

KeptRow(s, i) ==
  [shard |-> s, line |-> i, key |-> rows[s][i].key, answered |-> rows[s][i].answered]

\* One round of merge_shard_results' outer loop.
MergeShard ==
  /\ pc[0] = "merging"
  /\ next < np
  /\ LET s == Shard(np, next) IN
     IF Readable(s)
     THEN /\ merged' = merged \cup {KeptRow(s, i) : i \in FreshLines(s)}
          /\ seen' = seen \cup RowKeys(rows[s])
          /\ next' = next + 1
          /\ UNCHANGED pc
     ELSE /\ pc' = [pc EXCEPT ![0] = "failed"]
          /\ UNCHANGED mergeVars
  /\ UNCHANGED <<np, counts, split, pos, doneKeys, fileVars, reports, faults>>

\* open(output_path, "w"): the report exists and is not yet JSON.
OpenReport ==
  /\ pc[0] = "merging"
  /\ next = np
  /\ pc' = [pc EXCEPT ![0] = "dumping"]
  /\ reports' = Append(reports, [np |-> np, counts |-> counts, whole |-> FALSE, kept |-> merged])
  /\ UNCHANGED <<np, counts, split, pos, doneKeys, fileVars, mergeVars, faults>>

CloseReport ==
  /\ pc[0] = "dumping"
  /\ pc' = [pc EXCEPT ![0] = "exited"]
  /\ reports' = [reports EXCEPT ![Len(reports)].whole = TRUE]
  /\ UNCHANGED <<np, counts, split, pos, doneKeys, fileVars, mergeVars, faults>>

-----------------------------------------------------------------------------
(* Faults and restarts                                                     *)

\* What the end of rank r does to a line it was writing: a fragment stays,
\* or the whole line got out but for its newline.
Cut(r) ==
  IF pc[r] = "flushing" /\ tail[MyShard(r)] = "part"
  THEN \/ /\ tail' = [tail EXCEPT ![MyShard(r)] = "bad"]
          /\ UNCHANGED rows
       \/ /\ tail' = [tail EXCEPT ![MyShard(r)] = "open"]
          /\ \E a \in BOOLEAN :
               rows' = [rows EXCEPT ![MyShard(r)] = Append(@, [key |-> CurrentKey(r), answered |-> a])]
  ELSE UNCHANGED <<tail, rows>>

\* An exception (nothing in main catches one) or the death of the process.
Crash(r) ==
  /\ pc[r] \in Alive
  /\ faults < MaxFaults
  /\ faults' = faults + 1
  /\ pc' = [pc EXCEPT ![r] = "failed"]
  /\ Cut(r)
  /\ UNCHANGED <<np, counts, split, pos, doneKeys, marker, mergeVars, reports>>

\* The launcher stops the other ranks once one has failed (external).
LauncherKill(r) ==
  /\ pc[r] \in Alive
  /\ \E q \in Ranks : pc[q] = "failed"
  /\ pc' = [pc EXCEPT ![r] = "failed"]
  /\ Cut(r)
  /\ UNCHANGED <<np, counts, split, pos, doneKeys, marker, mergeVars, reports, faults>>

\* The evaluator is started again over the same result directory.
Relaunch ==
  /\ \A r \in Ranks : pc[r] \in Stopped
  /\ Len(reports) < MaxReports
  /\ \E n \in ProcCounts :
       /\ np' = n
       /\ counts' = counts \cup {n}
       /\ pc' = Launched(n)
  /\ UNCHANGED <<split, pos, doneKeys, fileVars, mergeVars, reports, faults>>

RankStep(r) ==
  \/ ClearMarker(r) \/ Resume(r) \/ Skip(r) \/ NextSplit(r)
  \/ Evaluate(r) \/ FlushStart(r) \/ FlushEnd(r) \/ WriteMarker(r)

Collect == MarkersFound \/ MergeShard \/ OpenReport \/ CloseReport

Next ==
  \/ \E r \in Ranks : RankStep(r) \/ Crash(r) \/ LauncherKill(r)
  \/ Collect \/ Timeout \/ Relaunch

Spec == Init /\ [][Next]_vars

\* Ranks, the launcher and the operator who restarts a stopped evaluation
\* keep going; faults need not happen.
Fairness ==
  /\ \A r \in Ranks : WF_vars(RankStep(r)) /\ WF_vars(LauncherKill(r))
  /\ WF_vars(Collect)
  /\ WF_vars(Relaunch)

FairSpec == Spec /\ Fairness

-----------------------------------------------------------------------------
(* Correctness                                                             *)

ReportKeys(rep) == {row.key : row \in rep.kept}

\* Every launch up to and including the one that wrote the report had the
\* same number of ranks.
Uniform(rep) == rep.counts = {rep.np}

\* Resuming after a crash never writes a second row for a key: what
\* load_checkpoint_state collects covers all that the shard file holds.
NoDuplicateRows ==
  \A s \in Shards : \A i, j \in DOMAIN rows[s] :
    rows[s][i].key = rows[s][j].key => i = j

\* A done marker, even one left by an earlier launch, stands for a shard file
\* that some launch took to the end of its rank's slice.
MarkerHonest ==
  \A s \in Shards : marker[s] /\ Readable(s) =>
    \E n \in counts : \E r \in 0..(n - 1) :
      Shard(n, r) = s /\ LocalKeys(n, r) \subseteq RowKeys(rows[s])

\* Unless the number of ranks changed between launches, no interleaving of
\* slow, crashed and restarted ranks makes rank 0 merge an unfinished shard:
\* a report holds a row for every annotation.
ReportComplete ==
  \A i \in DOMAIN reports : Uniform(reports[i]) => ReportKeys(reports[i]) = Keys

\* An annotation handed to two ranks (a list shorter than the number of
\* ranks), or evaluated under several rank counts, is counted once.
ReportCountsOnce ==
  \A i \in DOMAIN reports : \A x, y \in reports[i].kept : x.key = y.key => x = y

\* Running the evaluator again over a finished directory reproduces the
\* report row by row: nothing is evaluated afresh and the merge picks the
\* same row of an annotation that two shards hold.
RerunReproduces ==
  \A i, j \in DOMAIN reports :
    Uniform(reports[i]) /\ Uniform(reports[j]) => reports[i].kept = reports[j].kept

\* With the operator restarting it, the evaluation ends in a report unless a
\* crash cut a shard file in the middle of a line.
EventuallyReported ==
  <>((\E i \in DOMAIN reports : reports[i].whole) \/ (\E s \in Shards : tail[s] = "bad"))

-----------------------------------------------------------------------------
(* The inductive invariant behind the theorems of OvoEvalProofs            *)

Busy == {"evaluating", "writing", "flushing"}
Finished == {"waiting", "merging", "dumping", "exited"}

\* The ranks of the launch are 0..np-1, and only rank 0 collects.
LaunchInv ==
  /\ np \in counts
  /\ \A r \in Ranks :
       /\ pc[r] # "off" <=> r < np
       /\ pc[r] \in {"waiting", "merging", "dumping"} => r = 0

\* What a busy rank has passed it holds to be done.
CursorInv ==
  \A r \in Ranks : pc[r] \in Busy =>
    /\ \A s \in 1..Splits : \A i \in FirstOf(np, r, s)..LastOf(np, r, s) :
         (s < split[r] \/ (s = split[r] /\ i < pos[r])) => Anno[s][i] \in doneKeys[r]
    /\ pc[r] \in {"writing", "flushing"} =>
         InSlice(r) /\ CurrentKey(r) \in doneKeys[r]

\* What a busy rank holds to be done is in its file, the row under way apart.
DiskInv ==
  \A r \in Ranks : pc[r] \in Busy =>
    LET kept == RowKeys(MyFile(r)) IN
    /\ kept \subseteq doneKeys[r]
    /\ tail[MyShard(r)] # "bad" =>
         doneKeys[r] \subseteq
           (IF pc[r] = "evaluating" THEN kept ELSE kept \cup {CurrentKey(r)})
    /\ pc[r] # "evaluating" => CurrentKey(r) \notin kept

\* A row is under way in a file exactly while its rank flushes.
TailInv ==
  /\ \A r \in Ranks : pc[r] = "flushing" => tail[MyShard(r)] \in {"part", "bad"}
  /\ \A s \in Shards : tail[s] = "part" =>
       \E r \in Ranks : pc[r] = "flushing" /\ MyShard(r) = s

\* A shard file holds a row for all of rank r's slice, or cannot be read.
ShardDone(n, r) ==
  tail[Shard(n, r)] = "bad" \/ LocalKeys(n, r) \subseteq RowKeys(rows[Shard(n, r)])

MarkerInv ==
  /\ \A s \in Shards : marker[s] =>
       \E n \in counts : \E r \in 0..(n - 1) : Shard(n, r) = s /\ ShardDone(n, r)
  /\ \A r \in Ranks : pc[r] \in Busy \cup {"resuming"} => ~marker[MyShard(r)]
  /\ \A r \in Ranks : pc[r] \in Finished => ShardDone(np, r)

MergeInv ==
  pc[0] \in {"merging", "dumping"} =>
    /\ seen = {row.key : row \in merged}
    /\ \A x, y \in merged : x.key = y.key => x = y
    /\ next <= np
    /\ counts = {np} =>
         /\ \A r \in 0..(np - 1) : r < next => LocalKeys(np, r) \subseteq seen
         /\ \A r \in 0..(np - 1) : r >= next => ShardDone(np, r)

\* The report being written is the last one.
DumpInv == pc[0] = "dumping" => reports # <<>>

IInv ==
  /\ TypeOK
  /\ LaunchInv
  /\ CursorInv
  /\ DiskInv
  /\ TailInv
  /\ NoDuplicateRows
  /\ MarkerInv
  /\ MergeInv
  /\ DumpInv
  /\ ReportComplete
  /\ ReportCountsOnce

=============================================================================
