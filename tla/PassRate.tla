------------------------------ MODULE PassRate ------------------------------
(***************************************************************************)
(* Pass-rate filtering of the training pool. For each role a chain         *)
(* (chain_passrate.sh) walks through its seeds; for each seed              *)
(* pass_rate_vllm.py asks the role's model about a sample of the pool from *)
(* a thread pool and appends one line per row, in order, to the seed's     *)
(* jsonl file. Both scripts can be killed and started again.               *)
(* filter_by_pass_rate.py reads all files and keeps rows of the pool.      *)
(*                                                                         *)
(* A line is reduced to its idx, its number of correct answers, whether it *)
(* stands for a failed request and, as history, the row it was about.      *)
(***************************************************************************)
EXTENDS Integers, Sequences, FiniteSets

CONSTANTS Pool,         \* rows of the pool
          Limit,        \* --limit
          NumSeeds,     \* seeds of a chain
          Sampled,      \* [1..NumSeeds -> [0..(NumIdx - 1) -> row]]: df.sample per seed
          N,            \* --n-samples
          Threads,      \* --concurrency
          MaxFaults     \* bound: deaths of a script, over both roles

NumIdx == IF Limit < Pool THEN Limit ELSE Pool
Idxs == 0..(NumIdx - 1)
Seeds == 1..NumSeeds
Roles == {"student", "teacher"}

ASSUME SizeAssumption ==
  /\ Pool \in Nat \ {0} /\ Limit \in Nat \ {0} /\ NumSeeds \in Nat \ {0}
  /\ N \in Nat \ {0} /\ Threads \in Nat \ {0} /\ MaxFaults \in Nat

\* df.sample draws without replacement; a pool within the limit is taken whole.
ASSUME SampledAssumption ==
  /\ Sampled \in [Seeds -> [Idxs -> 0..(Pool - 1)]]
  /\ \A k \in Seeds, i, j \in Idxs : i # j => Sampled[k][i] # Sampled[k][j]
  /\ Pool <= Limit => \A k \in Seeds, i \in Idxs : Sampled[k][i] = i

VARIABLES
  chain,     \* per role: chain, run, ended, dead
  seed,      \* per role: the seed the chain is at
  todo,      \* per role: idxs of the run not written yet
  answered,  \* per role: lines of the run ready to be written
  file,      \* per role and seed: the jsonl file's terminated lines
  tail,      \* per role and seed: its unterminated last line, if any
  verdict,   \* the filter: none, raised, kept
  kept,      \* the rows it kept
  faults     \* deaths so far

jobVars == <<chain, seed, todo, answered>>
fileVars == <<file, tail>>
passVars == <<jobVars, fileVars, verdict, kept, faults>>

Record == [idx : Idxs, row : 0..(Pool - 1), n : 0..N, error : BOOLEAN]

\* A line that is not JSON.
Torn == [idx |-> -1, row |-> -1, n |-> 0, error |-> TRUE]

Lines(r, k) == file[r][k] \o tail[r][k]
LineSet(r, k) == {Lines(r, k)[p] : p \in 1..Len(Lines(r, k))}

-----------------------------------------------------------------------------
PassInit ==
  /\ chain = [r \in Roles |-> "chain"]
  /\ seed = [r \in Roles |-> 1]
  /\ todo = [r \in Roles |-> {}]
  /\ answered = [r \in Roles |-> {}]
  /\ file = [r \in Roles |-> [k \in Seeds |-> <<>>]]
  /\ tail = [r \in Roles |-> [k \in Seeds |-> <<>>]]
  /\ verdict = "none"
  /\ kept = {}
  /\ faults = 0

(* chain_passrate.sh *)

\* The seed's file has LIMIT lines: wc -l counts them, whatever they hold.
Skip(r) ==
  /\ chain[r] = "chain"
  /\ seed[r] \in Seeds
  /\ Len(file[r][seed[r]]) >= Limit
  /\ seed' = [seed EXCEPT ![r] = @ + 1]
  /\ UNCHANGED <<chain, todo, answered, file, tail, verdict, kept, faults>>

\* Mutant of DoneIdxs: failed requests are to be made again.
DoneIdxsRetry(r, k) == {line.idx : line \in {l \in LineSet(r, k) : l # Torn /\ ~l.error}}

\* The idxs that run reads back, lines that do not parse left aside.
DoneIdxs(r, k) == {line.idx : line \in LineSet(r, k) \ {Torn}}

StartRun(r) ==
  /\ chain[r] = "chain"
  /\ seed[r] \in Seeds
  /\ Len(file[r][seed[r]]) < Limit
  /\ chain' = [chain EXCEPT ![r] = "run"]
  /\ todo' = [todo EXCEPT ![r] = Idxs \ DoneIdxs(r, seed[r])]
  /\ answered' = [answered EXCEPT ![r] = {}]
  /\ UNCHANGED <<seed, file, tail, verdict, kept, faults>>

ChainEnds(r) ==
  /\ chain[r] = "chain"
  /\ seed[r] \notin Seeds
  /\ chain' = [chain EXCEPT ![r] = "ended"]
  /\ UNCHANGED <<seed, todo, answered, file, tail, verdict, kept, faults>>

(* pass_rate_vllm.py *)

AnsweredIdxs(r) == {line.idx : line \in answered[r]}

\* A thread takes rows in order, so i is under way only while fewer than
\* Threads earlier rows are. A request that raises counts as no answer right.
Answer(r) ==
  /\ chain[r] = "run"
  /\ \E i \in todo[r] \ AnsweredIdxs(r), n \in 0..N, error \in BOOLEAN :
       /\ Cardinality({j \in todo[r] \ AnsweredIdxs(r) : j < i}) < Threads
       /\ error => n = 0
       /\ answered' = [answered EXCEPT ![r] = @ \cup
            {[idx |-> i, row |-> Sampled[seed[r]][i], n |-> n, error |-> error]}]
  /\ UNCHANGED <<chain, seed, todo, file, tail, verdict, kept, faults>>

\* ex.map yields the lines in the order of todo, whatever order they came in.
Ready(r, line) ==
  /\ line \in answered[r]
  /\ line.idx \in todo[r]
  /\ \A j \in todo[r] : line.idx <= j

\* What a line becomes behind an unterminated one.
Joined(r, k, line) == IF tail[r][k] = <<>> THEN line ELSE Torn

Taken(r, line) ==
  /\ todo' = [todo EXCEPT ![r] = @ \ {line.idx}]
  /\ answered' = [answered EXCEPT ![r] = @ \ {line}]

WriteLine(r) ==
  /\ chain[r] = "run"
  /\ \E line \in answered[r] :
       /\ Ready(r, line)
       /\ Taken(r, line)
       /\ file' = [file EXCEPT ![r][seed[r]] = Append(@, Joined(r, seed[r], line))]
       /\ tail' = [tail EXCEPT ![r][seed[r]] = <<>>]
  /\ UNCHANGED <<chain, seed, verdict, kept, faults>>

\* Mutant of RunEnds: a run with failed requests does not end.
RunEndsClean(r) ==
  /\ chain[r] = "run"
  /\ todo[r] = {}
  /\ \A line \in LineSet(r, seed[r]) : ~line.error
  /\ chain' = [chain EXCEPT ![r] = "chain"]
  /\ seed' = [seed EXCEPT ![r] = @ + 1]
  /\ UNCHANGED <<todo, answered, file, tail, verdict, kept, faults>>

RunEnds(r) ==
  /\ chain[r] = "run"
  /\ todo[r] = {}
  /\ chain' = [chain EXCEPT ![r] = "chain"]
  /\ seed' = [seed EXCEPT ![r] = @ + 1]
  /\ UNCHANGED <<todo, answered, file, tail, verdict, kept, faults>>

(* Deaths. *)

\* What a death leaves of the line being written: nothing, a part of it, or all
\* of it but its newline.
CutWrite(r) ==
  \/ UNCHANGED tail
  \/ \E line \in answered[r], part \in BOOLEAN :
       /\ Ready(r, line)
       /\ tail' = [tail EXCEPT ![r][seed[r]] =
                     <<IF part THEN Torn ELSE Joined(r, seed[r], line)>>]

\* The run dies and the chain, which does not look at its status, goes on with
\* the next seed; or the chain dies with it.
Die(r) ==
  /\ chain[r] = "run"
  /\ faults < MaxFaults
  /\ faults' = faults + 1
  /\ CutWrite(r)
  /\ \/ /\ chain' = [chain EXCEPT ![r] = "chain"]
        /\ seed' = [seed EXCEPT ![r] = @ + 1]
     \/ /\ chain' = [chain EXCEPT ![r] = "dead"]
        /\ UNCHANGED seed
  /\ todo' = [todo EXCEPT ![r] = {}]
  /\ answered' = [answered EXCEPT ![r] = {}]
  /\ UNCHANGED <<file, verdict, kept>>

\* The chain is started again, after its death or to make up for a run's.
Relaunch(r) ==
  /\ chain[r] \in {"dead", "ended"}
  /\ verdict = "none"
  /\ chain' = [chain EXCEPT ![r] = "chain"]
  /\ seed' = [seed EXCEPT ![r] = 1]
  /\ UNCHANGED <<todo, answered, file, tail, verdict, kept, faults>>

(* filter_by_pass_rate.py *)

Places(r) == UNION {{<<k, p>> : p \in 1..Len(Lines(r, k))} : k \in Seeds}
LineAt(r, x) == Lines(r, x[1])[x[2]]
After(x, y) == x[1] > y[1] \/ (x[1] = y[1] /\ x[2] > y[2])

\* load_counts: the last record of idx i over all files of the role, if any.
Counts(r, i) ==
  {LineAt(r, x) : x \in {y \in Places(r) : /\ LineAt(r, y).idx = i
                                           /\ \A z \in Places(r) : LineAt(r, z).idx = i => ~After(z, y)}}

\* The branches of main.
Keeps(s, t) == ~(s = t /\ t = N) /\ (t > s \/ t = s)

Filter ==
  /\ verdict = "none"
  /\ \A r \in Roles : chain[r] = "ended"
  /\ IF \E r \in Roles, k \in Seeds : Torn \in LineSet(r, k)
       THEN verdict' = "raised" /\ UNCHANGED kept
       ELSE /\ verdict' = "kept"
            /\ kept' = {i \in 0..(Pool - 1) :
                          \E s \in Counts("student", i), t \in Counts("teacher", i) :
                            Keeps(s.n, t.n)}
  /\ UNCHANGED <<jobVars, fileVars, faults>>

-----------------------------------------------------------------------------
Job(r) == Skip(r) \/ StartRun(r) \/ ChainEnds(r) \/ Answer(r) \/ WriteLine(r) \/ RunEnds(r)

PassNext == (\E r \in Roles : Job(r) \/ Die(r) \/ Relaunch(r)) \/ Filter

PassSpec == PassInit /\ [][PassNext]_passVars

\* A request returns, raises or times out (--timeout), and a script that has
\* something to do does it.
FairPassSpec == PassSpec /\ \A r \in Roles : WF_passVars(Job(r))

-----------------------------------------------------------------------------
(* Properties. *)

\* The type of the state.
PassTypeOK ==
  /\ chain \in [Roles -> {"chain", "run", "ended", "dead"}]
  /\ seed \in [Roles -> 1..(NumSeeds + 1)]
  /\ todo \in [Roles -> SUBSET Idxs]
  /\ answered \in [Roles -> SUBSET Record]
  /\ file \in [Roles -> [Seeds -> Seq(Record \cup {Torn})]]
  /\ tail \in [Roles -> [Seeds -> Seq(Record \cup {Torn})]]
  /\ verdict \in {"none", "raised", "kept"}
  /\ kept \subseteq 0..(Pool - 1)
  /\ faults \in 0..MaxFaults

\* What chain_passrate.sh takes for a complete file is one, as long as every
\* line of it parses: counting lines is as good as counting rows, because no
\* death, restart or failed request makes pass_rate_vllm.py append a row twice.
SkippedIsComplete ==
  \A r \in Roles, k \in Seeds :
    Len(file[r][k]) >= NumIdx /\ Torn \notin LineSet(r, k) => DoneIdxs(r, k) = Idxs

\* filter_by_pass_rate.py keeps exactly the rows it says it keeps
\* (filter_by_pass_rate.py:8), on whichever launches the two roles measured
\* them, when one seed covers the whole pool.
KeptExactly ==
  verdict = "kept" /\ NumSeeds = 1 /\ Pool <= Limit =>
    kept = {i \in 0..(Pool - 1) :
              \E s \in LineSet("student", 1), t \in LineSet("teacher", 1) :
                s.row = i /\ t.row = i /\ t.n >= s.n /\ ~(s.n = N /\ t.n = N)}

\* "Keeping only samples where the teacher is at least as good as the student, and
\* where neither is already perfect" (pass_rate_vllm.py:6-7): no kept row has a role
\* whose answers to it, in the one file that it has, are all correct.
NeitherPerfect ==
  verdict = "kept" /\ NumSeeds = 1 /\ Pool <= Limit =>
    \A i \in kept, r \in Roles : \E a \in LineSet(r, 1) : a.row = i /\ a.n < N

\* Every launch of a chain comes to its end, or is killed: no failed request,
\* torn line or incomplete seed keeps it going for ever.
ChainsEnd == \A r \in Roles : []<>(chain[r] \in {"ended", "dead"})

\* "Keeps a sample when the teacher is at least as accurate as the student and the
\* pair is not already saturated" (filter_by_pass_rate.py:5): whatever seeds
\* chain_passrate.sh was given, a row is kept only on answers about that row.
KeptByOwnAnswers ==
  verdict = "kept" => \A i \in kept :
    \E j, k \in Seeds : \E s \in LineSet("student", j), t \in LineSet("teacher", k) :
      s.row = i /\ t.row = i /\ t.n >= s.n /\ ~(s.n = N /\ t.n = N)
=============================================================================
